\* Two sources, finalizers, any await with a timeout: what becomes of the events.
CONSTANTS
  NULL = NULL
  i1 = i1  i2 = i2
  s1 = s1
  Insts = {i1, i2}
  Scripts = {s1}
  Finalized = {i1, i2}
  Timed = {TRUE}
  Polls = {FALSE}
  StagingDepth = 1
  FifoDepth = 1
  AwaitDepth = 1
  MaxEvents = 1
SYMMETRY Symmetric
SPECIFICATION Spec
INVARIANTS
  Accounted
  ListenersConnected
PROPERTY
  QuietOnceStopped
\* The frontend may stop.
CHECK_DEADLOCK FALSE
