SPECIFICATION Spec
CONSTANTS
  NULL = NULL
  t1 = t1  t2 = t2
  Threads = {t1, t2}
  Bits <- Bits_
  Mantissa = 3
  MaxDepth = 1
  Calls <- Calls_
  handlers <- handlers_
  Events <- Events_
  MaxFrames = 2
  zeroed <- ZeroMsg
  read_round <- ReadRound
  pushed_field <- PushedField
  pushed_msg <- PushedMsg
  accepts <- AcceptsTable
  meaning <- Meaning
  shows <- ShowsMsg
INVARIANTS
  RoundsAsMeant
  InvokedAsCalled
  ResponseShown
  GuardFollowsCommand
  OneRun
  EventWalked
SYMMETRY Alike
CHECK_DEADLOCK FALSE
