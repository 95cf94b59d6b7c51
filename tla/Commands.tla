------------------------------ MODULE Commands ------------------------------
(***************************************************************************)
(* The commands of the system as a whole: the init walker at boot, the     *)
(* command channels, and the two frontends that issue commands from their  *)
(* own threads.  The walker shares no state with them, and nothing in the  *)
(* code makes a command wait for it: they start when it is done.           *)
(***************************************************************************)
EXTENDS InitWalker, CoapRpc, ShellCmd

CONSTANT Serving   \* sections of the boots in which the frontends are used

ASSUME ServingAssumption == Serving \subseteq Sections

\* What the generated tables hold: a frontend names an instance and a row
\* of the method table, not the reserved one; every row but that has a
\* handler.  The CoAP server and the shell have threads of their own.
ASSUME CallsAssumption ==
  /\ \A req \in Requests : req.kind = "post" /\ Refusal(req) = "0" =>
       /\ req.inst \in Insts /\ Command(req).id \in Nat
       /\ Command(req).id \in DOMAIN methods[api[req.inst]] \ {0}
  /\ \A line \in Lines : line.z \in Insts /\ Shape(line).id \in Nat
  /\ {CoapTimeout, ShellTimeout} \subseteq Timeouts
  /\ coapThread # shellThread

ASSUME TableAssumption ==
  \A z \in Insts :
    /\ api[z] # NULL
    /\ \A id \in DOMAIN methods[api[z]] : methods[api[z]][id] = NULL <=> id = 0

vars == <<walker, channels, coap, selected, shell>>

Init ==
  /\ WalkerInit /\ DispatchInit
  /\ coap = CoapIdle
  /\ selected = DefaultForm /\ shell = ShellIdle

Next ==
  \/ Walker /\ UNCHANGED <<channels, coap, selected, shell>>
  \/ \E t \in Threads : Step(t) /\ UNCHANGED <<walker, coap, selected, shell>>
  \/ /\ section \in Serving /\ walk = "done"
     /\ \/ Coap /\ UNCHANGED <<walker, selected, shell>>
        \/ Shell /\ UNCHANGED <<walker, coap>>

\* The threads run, a k_sem_take that has a timeout ends, the walker gets on.
Fairness ==
  /\ WF_vars(Walker /\ UNCHANGED <<channels, coap, selected, shell>>)
  /\ \A t \in Threads :
       WF_vars(Step(t) /\ UNCHANGED <<walker, coap, selected, shell>>)
  /\ WF_vars(CoapReply /\ UNCHANGED <<walker, selected, shell>>)
  /\ WF_vars(Return /\ UNCHANGED <<walker, coap>>)

Spec == Init /\ [][Next]_vars /\ Fairness

-----------------------------------------------------------------------------
(* What is right about a command.                                          *)

\* The publishes in progress, each by its thread and depth.
Places == UNION {{t} \X (1..Depth(t)) : t \in Threads}
At2(p) == calls[p[1]][p[2]]

\* An instance's handlers never run at the same time, whichever threads the
\* commands come from and however deep they are nested: a handler runs with
\* the semaphore of its channel held.
HandlersExclusive ==
  \A p, q \in Places :
    /\ At2(p).pc = "handler" /\ At2(q).pc = "handler"
    /\ At2(p).z = At2(q).z
    => p = q

\* A handler works for the envelope of the publish it runs in, and only with
\* a request that was decoded or parsed to its end: no frontend dispatches
\* what its parser has left half done.
OwnWholeRequest ==
  \A p \in Places :
    At2(p).pc = "handler" => At2(p).of = p /\ At2(p).req # "partial"

\* A wrapper that returns tells what happened to its own command: after a
\* publish that failed no handler has run for it; otherwise the handler of
\* its method has run exactly once, or the table has none and the code is
\* ENOSYS, in particular for the reserved id 0 and past the table's end.
AnswerIsOwn ==
  \A p \in Places :
    LET env == At2(p) IN
    env.pc = "ret" =>
      IF env.err # "0" THEN env.ran = 0
      ELSE IF env.method_id \in DOMAIN methods[api[env.z]] \ {0}
      THEN env.ran = 1
      ELSE env.ran = 0 /\ env.return_code = "ENOSYS"

\* A peer is told success only if the handler of the command it named ran
\* for its request, once, and returned 0; it is told that a command was
\* refused as malformed or unknown by the frontend only if nothing ran. The
\* one case without an answer is a response too large for a packet.
CoapTruthful ==
  LET req == coap.req  env == coap.env  ans == coap.answer IN
  coap.st = "answered" /\ req.kind \in {"post", "get"} =>
    IF env = NULL THEN ans.code \in {"4.00", "4.04", "4.05", "4.13"}
    ELSE /\ env.z = req.inst /\ env.method_id = Command(req).id
         /\ ans = NULL => env.ran = 1 /\ env.resp = "large"
         /\ ans # NULL /\ ans.code \in {"2.04", "2.05"} =>
              env.ran = 1 /\ env.return_code = "0"
         /\ ans # NULL /\ ans.errno \notin {"0", "EBUSY", "ENOMEM"} =>
              env.ran = 1 /\ ans.errno = env.return_code

\* The generated handler refuses what the tested translation helpers refuse,
\* runs every other command of its type, and answers as they would but for a
\* response too large for the packet, which the helper reports as ENOMEM and
\* the handler does not answer.
CoapMirrorsHelpers ==
  LET req == coap.req  env == coap.env IN
  coap.st = "answered" /\ req.kind = "post" /\ resolve(req) = "0"
      /\ HasCommand(req) =>
    LET refused == decode_request(Command(req), req) IN
    IF refused # "0" THEN coap.answer = send_error(refused)
    ELSE /\ env # NULL
         /\ env.err = "0" /\ coap.answer # NULL =>
              coap.answer = encode_response(Command(req), env)

\* list has its elements from s, in the order of s.
Ordered(list, s) ==
  \A i, j \in 1..Len(list) : i < j =>
    \E m, n \in 1..Len(s) : m < n /\ s[m] = list[i] /\ s[n] = list[j]

\* The room that the names of a type take, each with what ends it.
Room(ty) ==
  LET size[n \in 0..Len(registry)] ==
        IF n = 0 THEN 0
        ELSE IF api[registry[n]] = ty THEN size[n - 1] + nameLen[registry[n]] + 1
        ELSE size[n - 1]
  IN size

\* A list of instances is whole, every instance of the type and no other in
\* section order, or there is none: the answer is 4.13 exactly if the names,
\* each with what ends it, have no room in the text buffer, and nothing is
\* answered exactly if they have that room and the packet has too little.
\* /.well-known/core tells no hidden resource, and every visible one until
\* its table is full, each once and in the order of the service; nothing is
\* answered exactly if their links do not fit the packet.
DiscoveryWhole ==
  LET req == coap.req  ans == coap.answer
      visible == {r \in ToSet(resources) : ~r.hidden}
      least(x, y) == IF x < y THEN x ELSE y
  IN coap.st = "answered" =>
       /\ req.kind = "instances" =>
            IF Room(req.type)[Len(registry)] > BufSize
            THEN ans # NULL /\ ans.code = "4.13"
            ELSE IF Room(req.type)[Len(registry)] > req.room + 1
            THEN ans = NULL
            ELSE /\ ans # NULL /\ ans.code # "4.13"
                 /\ ToSet(ans.list) = {z \in ToSet(registry) : api[z] = req.type}
                 /\ Ordered(ans.list, registry)
       /\ req.kind = "core" =>
            IF Links(CoreList) > req.room THEN ans = NULL
            ELSE /\ ans # NULL
                 /\ ToSet(ans.list) \subseteq visible
                 /\ Len(ans.list) = least(MaxVisible, Cardinality(visible))
                 /\ Ordered(ans.list, resources)

\* A line of the shell ends with 0 only if the handler of its command ran
\* once and returned 0, with the handler's code if that failed, and with a
\* refusal of its own only if nothing ran.
ShellTruthful ==
  LET line == shell.line  env == shell.env IN
  shell.st # "idle" /\ shell.st # "called" =>
    IF env = NULL THEN shell.rc = "EINVAL"
    ELSE /\ env.z = line.z /\ env.method_id = Shape(line).id
         /\ shell.rc = "0" => env.ran = 1
         /\ env.ran = 1 => shell.rc = env.return_code
         /\ shell.shown # {} => shell.rc = "0"

\* A response is printed in the form that is selected, and printed not at
\* all only if another backend changed the form while it was printed.
PrintedInForm ==
  shell.st = "done" /\ shell.rc = "0" /\ Shape(shell.line).resp =>
    \/ shell.changed
    \/ shell.shown = CASE shell.form = "both"   -> {"pretty", "blank", "compact"}
                       [] shell.form = "pretty" -> {"pretty"}
                       [] OTHER                 -> {"compact"}

\* Every command returns to its caller, though handlers issue commands of
\* their own: where they could come round in a circle, with a timeout.
CommandsReturn ==
  \A t \in Threads : Depth(t) > 0 ~> Depth(t) = 0

-----------------------------------------------------------------------------
(* What the channels promise, as CommandService says it.                    *)

\* The ids of the methods that anyone names.
MethodIds ==
  {Command(req).id : req \in {r \in Requests : r.kind = "post" /\ Refusal(r) = "0"}}
    \cup {Shape(line).id : line \in Lines} \cup {c.method_id : c \in Nested}

\* An envelope as its caller sees it: nothing tells waiting for the semaphore
\* from having it, or giving it back from having returned.
Seen(e) ==
  LET answered == e.pc \in {"give", "ret"} IN
  [z |-> e.z, id |-> e.method_id, timeout |-> e.timeout,
   st |-> IF answered THEN "answered"
          ELSE IF e.pc = "handler" THEN "served" ELSE "pending",
   answer |-> IF answered
              THEN [err |-> e.err, code |-> e.return_code, resp |-> e.resp,
                    ran |-> e.ran]
              ELSE NULL]

View(C) == [t \in Threads |-> [d \in 1..Len(C[t]) |-> Seen(C[t][d])]]

Service ==
  INSTANCE CommandService WITH
    stack <- View(calls),
    Handled <- [z \in Insts |-> DOMAIN methods[api[z]] \ {0}]

\* The channels and the frontends keep the promise: each instance serves one
\* command at a time, each command is answered once and by what ran for it,
\* and none is turned away from an instance that has nothing else to do.
ServiceSpec == Service!Spec

=============================================================================
