SPECIFICATION Spec
CONSTANTS
  NULL = NULL
  a = a  b = b  c = c
  ty1 = ty1  ty2 = ty2
  coapT = coapT  shellT = shellT
  Threads = {coapT, shellT}
  Insts = {a, b, c}
  api <- api_
  methods <- methods_
  Nested <- Nested_
  Outcomes <- Outcomes_
  coapThread = coapT
  registry <- registry_
  commands <- commands_
  resources <- resources_
  nameLen <- nameLen_
  Requests <- Requests_
  CoapTimeout = "finite"
  MaxSegments = 8
  MaxVisible = 2
  BufSize = 5
  shellThread = shellT
  shapes <- commands_
  Lines <- Lines_
  ShellTimeout = "finite"
  DefaultForm = "both"
  Sections <- Sections_
  MaxInstances = 3
  Serving <- Serving_
INVARIANTS
  HandlersExclusive
  OwnWholeRequest
  AnswerIsOwn
  CoapTruthful
  CoapMirrorsHelpers
  DiscoveryWhole
  ShellTruthful
  PrintedInForm
  InitOrder
  InitComplete
PROPERTIES
  CommandsReturn
  ServiceSpec
CHECK_DEADLOCK FALSE
