\* The seal falls between the overwrite of a staged event and its count.
CONSTANTS
  NULL = NULL
  i1 = i1  i2 = i2
  s1 = s1
  Insts = {i1, i2}
  Scripts = {s1}
  Finalized = {}
  Timed = {TRUE}
  Polls = {FALSE}
  StagingDepth = 1
  FifoDepth = 1
  AwaitDepth = 1
  MaxEvents = 1
SPECIFICATION Spec
INVARIANT
  NoSilentDrop
CHECK_DEADLOCK FALSE
