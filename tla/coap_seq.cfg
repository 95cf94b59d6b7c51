SPECIFICATION Spec
CONSTANTS
  Insts = {i1}
  Peers = {p1}
  Blocks = {b1}
  SeqMod = 3
  MaxEvents = 3
INVARIANT StrictlyNewer
