\* One source, awaits with and without a timeout, no poll: who is woken.
CONSTANTS
  NULL = NULL
  i1 = i1  i2 = i2
  s1 = s1
  Insts = {i1}
  Scripts = {s1}
  Finalized = {}
  Timed = {TRUE, FALSE}
  Polls = {FALSE}
  StagingDepth = 1
  FifoDepth = 1
  AwaitDepth = 1
  MaxEvents = 2
SPECIFICATION FairSpec
INVARIANT
  TypeOK
PROPERTIES
  StagingEmptied
  WaitersWoken
  TimedWaitEnds
\* The frontend may stop.
CHECK_DEADLOCK FALSE
