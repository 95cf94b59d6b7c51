SPECIFICATION Spec
CONSTANTS
  Insts = {i1, i2}
  Peers = {p1, p2}
  Blocks = {b1, b2}
  SeqMod = 3
  MaxEvents = 4
SYMMETRY Symmetric
INVARIANTS
  TypeOK
  SlabPartition
  OneSubscription
  PurgedStaysEmpty
  GapTellsLoss
