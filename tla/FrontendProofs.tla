--------------------------- MODULE FrontendProofs ---------------------------
(* Proofs about the two frontends that issue commands, for any requests and *)
(* lines, any tables and any handlers: what a peer and a user are told, and *)
(* that they and the channels together are the service of CommandService.   *)
EXTENDS CommandsProofs, WellFoundedInduction, FiniteSetTheorems

-----------------------------------------------------------------------------
(* The invariants.                                                          *)

\* The outermost publish of the thread is that of the command.
Root(t, z, id) ==
  Len(calls[t]) > 0 /\ calls[t][1].z = z /\ calls[t][1].method_id = id

\* The envelope of the command, as its wrapper left it.
Back(env, z, id) ==
  /\ env \in Env /\ env.z = z /\ env.method_id = id
  /\ IF env.err # "0" THEN env.ran = 0 ELSE Served(env)

CoapCalled ==
  LET req == coap.req IN
  /\ req \in Requests /\ req.kind = "post" /\ Refusal(req) = "0"
  /\ coap = [st |-> "called", req |-> req, env |-> NULL, answer |-> NULL]
  /\ Root(coapThread, req.inst, Command(req).id)

CoapRefused ==
  LET req == coap.req IN
  /\ coap.st = "answered"
  /\ req.kind \in {"post", "get"} /\ Refusal(req) # "0"
  /\ coap.env = NULL /\ coap.answer = send_error(Refusal(req))

CoapReplied ==
  LET req == coap.req  env == coap.env IN
  /\ coap.st = "answered"
  /\ req \in Requests /\ req.kind = "post" /\ Refusal(req) = "0"
  /\ Back(env, req.inst, Command(req).id)
  /\ coap.answer = Reply(req, env)

CoapDiscovered ==
  LET req == coap.req IN
  /\ coap.st = "answered" /\ req \in Requests
  /\ \/ req.kind = "instances" /\ coap.answer = InstancesGet(req)
     \/ req.kind = "core" /\ coap.answer = WellKnownCoreGet(req)

\* The server is in a command exactly while its thread has a publish, and
\* what it answers is what its command left.
CoapInv ==
  /\ coap.st # "called" => Len(calls[coapThread]) = 0
  /\ coap = CoapIdle \/ CoapCalled \/ CoapRefused \/ CoapReplied
       \/ CoapDiscovered

Printing == {"block", "which", "line"}

ShellTyped ==
  /\ selected \in Forms
  /\ shell \in [st : {"idle", "called", "done"} \cup Printing,
                line : Lines \cup {NULL}, env : Env \cup {NULL},
                rc : Codes \cup {"EINVAL", "EBUSY", "EAGAIN"},
                form : Forms, changed : BOOLEAN,
                shown : SUBSET {"pretty", "blank", "compact"}]

\* What the printing of a response in a form shows.
Whole(form) ==
  CASE form = "both"   -> {"pretty", "blank", "compact"}
    [] form = "pretty" -> {"pretty"}
    [] OTHER           -> {"compact"}

\* While a response is printed the form is the one selected at its start, if
\* no other backend has changed it.
PrintInv ==
  /\ shell.shown # {} => shell.rc = "0"
  /\ shell.st \in {"idle", "called", "block"} => shell.shown = {}
  /\ shell.st \in Printing =>
       /\ shell.rc = "0"
       /\ shell.changed \/ selected = shell.form
  /\ shell.st = "which" /\ ~shell.changed =>
       shell.shown = IF shell.form = "compact" THEN {} ELSE {"pretty"}
  /\ shell.st = "line" /\ ~shell.changed =>
       /\ shell.form # "pretty"
       /\ shell.shown = IF shell.form = "compact" THEN {} ELSE {"pretty"}
  /\ shell.st = "done" /\ shell.rc = "0" /\ Shape(shell.line).resp =>
       shell.changed \/ shell.shown = Whole(shell.form)

\* The shell is in a command exactly while its thread has a publish.
CallInv ==
  LET line == shell.line  env == shell.env IN
  /\ shell.st # "called" => Len(calls[shellThread]) = 0
  /\ shell.st = "idle" => env = NULL
  /\ shell.st = "called" =>
       env = NULL /\ line \in Lines /\ Root(shellThread, line.z, Shape(line).id)
  /\ shell.st \in {"done"} \cup Printing =>
       IF env = NULL THEN shell.rc = "EINVAL"
       ELSE /\ Back(env, line.z, Shape(line).id)
            /\ shell.rc = Result(env)

ShellInv == ShellTyped /\ CallInv /\ PrintInv
-----------------------------------------------------------------------------
(* Lemmas about the stacks of the threads.                                  *)

(* A thread outside any publish begins one, the others stay where they are. *)
LEMMA RootLemma ==
  ASSUME IInv, NEW t \in Threads, Len(calls[t]) = 0,
         NEW z, NEW id, NEW req, NEW timeout,
         calls' = Push(t, Envelope(z, id, req, timeout))
  PROVE  /\ Root(t, z, id)'
         /\ \A u \in Threads \ {t} : calls'[u] = calls[u]
<1> DEFINE e == Envelope(z, id, req, timeout)
<1>1. e.z = z /\ e.method_id = id
  BY DEF Envelope
<1> HIDE DEF e
<1>2. calls \in [Threads -> Seq(Env)] /\ calls[t] \in Seq(Env)
  BY DEF IInv, Good, Typed
<1>3. /\ calls'[t] = Append(calls[t], e)
      /\ \A u \in Threads \ {t} : calls'[u] = calls[u]
  BY <1>2 DEF Push, e
<1>4. Len(calls'[t]) = 1 /\ calls'[t][1] = e
  BY <1>2, <1>3
<1>5. QED
  BY <1>1, <1>3, <1>4 DEF Root

(* The outermost wrapper of a thread returns, with the envelope as the      *)
(* publish and the handler have left it.                                    *)
LEMMA BackLemma ==
  ASSUME IInv, NEW t \in Threads, Depth(t) = 1, At(t, "ret"),
         NEW z, NEW id, Root(t, z, id), calls' = Pop(t)
  PROVE  /\ Back(Top(t), z, id)
         /\ Len(calls'[t]) = 0
         /\ \A u \in Threads \ {t} : calls'[u] = calls[u]
<1>1. calls \in [Threads -> Seq(Env)] /\ calls[t] \in Seq(Env)
  BY DEF IInv, Good, Typed
<1>2. Top(t) = calls[t][1] /\ Top(t) \in Env
      /\ Fine(t, 1, Top(t), holder, message)
  BY TopLemma
<1>3. Top(t).pc = "ret"
  BY DEF At
<1>4. Back(Top(t), z, id)
  BY <1>2, <1>3 DEF Back, Root, Fine
<1>5. /\ calls'[t] = SubSeq(calls[t], 1, 0)
      /\ \A u \in Threads \ {t} : calls'[u] = calls[u]
  BY <1>1 DEF Pop
<1>6. Len(SubSeq(calls[t], 1, 0)) = 0
  BY <1>1
<1>7. QED
  BY <1>4, <1>5, <1>6

(* A command stays the one it began as, whatever the threads do inside the  *)
(* publishes.                                                               *)
LEMMA SameRootLemma ==
  ASSUME IInv, IInv', SameRoots(calls, calls'), NEW t \in Threads
  PROVE  /\ Len(calls[t]) = 0 => Len(calls'[t]) = 0
         /\ \A z, id : Root(t, z, id) => Root(t, z, id)'
<1>1. Len(calls[t]) \in Nat /\ Len(calls'[t]) \in Nat
  BY DEF IInv, Good, Typed
<1>2. QED
  BY <1>1 DEF SameRoots, Root

-----------------------------------------------------------------------------
(* The CoAP server.                                                         *)

(* The server's state is kept by what is not a step of the server.          *)
LEMMA CoapElsewhere ==
  ASSUME CoapInv, UNCHANGED coap,
         Len(calls[coapThread]) = 0 => Len(calls'[coapThread]) = 0,
         \A z, id : Root(coapThread, z, id) => Root(coapThread, z, id)'
  PROVE  CoapInv'
<1>1. coap.st # "called" => Len(calls'[coapThread]) = 0
  BY DEF CoapInv
<1>2. CoapCalled => CoapCalled'
  BY DEF CoapCalled
<1>3. QED
  BY <1>1, <1>2
     DEF CoapInv, CoapRefused, CoapReplied, CoapDiscovered, CoapIdle

(* Every step of the server keeps its invariant.                            *)
LEMMA CoapKeeps ==
  ASSUME IInv, CoapInv, Coap
  PROVE  CoapInv'
<1> USE CoapAssumption
<1>1. ASSUME NEW req \in Requests, CoapRefuse(req)
      PROVE  CoapInv'
  <2>1. /\ coap' = [st |-> "answered", req |-> req, env |-> NULL,
                    answer |-> send_error(Refusal(req))]
        /\ coap.st = "idle" /\ calls' = calls
        /\ req.kind \in {"post", "get"} /\ Refusal(req) # "0"
    BY <1>1 DEF CoapRefuse, Answered, channels
  <2>2. CoapRefused'
    BY <2>1 DEF CoapRefused
  <2>3. QED
    BY <2>1, <2>2 DEF CoapInv
<1>2. ASSUME NEW req \in Requests, CoapPost(req)
      PROVE  CoapInv'
  <2>1. /\ coap' = [coap EXCEPT !.st = "called", !.req = req]
        /\ coap.st = "idle" /\ req.kind = "post" /\ Refusal(req) = "0"
        /\ calls' = Push(coapThread, Envelope(req.inst, Command(req).id,
                                              Decoded(req), CoapTimeout))
    BY <1>2 DEF CoapPost
  <2>2. coap = CoapIdle /\ Len(calls[coapThread]) = 0
    BY <2>1 DEF CoapInv, CoapCalled, CoapRefused, CoapReplied, CoapDiscovered
  <2>3. coap' = [st |-> "called", req |-> req, env |-> NULL, answer |-> NULL]
    BY <2>1, <2>2 DEF CoapIdle
  <2>4. Root(coapThread, req.inst, Command(req).id)'
    BY <2>1, <2>2, RootLemma
  <2>5. CoapCalled'
    BY <2>1, <2>3, <2>4 DEF CoapCalled, Root
  <2>6. QED
    BY <2>3, <2>5 DEF CoapInv
<1>3. ASSUME NEW req \in Requests, CoapDiscover(req)
      PROVE  CoapInv'
  <2>1. /\ coap'.st = "answered" /\ coap'.req = req
        /\ \/ req.kind = "instances" /\ coap'.answer = InstancesGet(req)
           \/ req.kind = "core" /\ coap'.answer = WellKnownCoreGet(req)
        /\ coap.st = "idle" /\ calls' = calls
    BY <1>3 DEF CoapDiscover, Answered, channels
  <2>2. CoapDiscovered'
    BY <2>1 DEF CoapDiscovered
  <2>3. QED
    BY <2>1, <2>2 DEF CoapInv
<1>4. CASE CoapReply
  <2> DEFINE env == Top(coapThread)
             req == coap.req
  <2>1. /\ coap' = [st |-> "answered", req |-> req, env |-> env,
                    answer |-> Reply(req, env)]
        /\ coap.st = "called" /\ Depth(coapThread) = 1
        /\ At(coapThread, "ret") /\ calls' = Pop(coapThread)
    BY <1>4 DEF CoapReply, Answered
  <2>2. CoapCalled
    BY <2>1 DEF CoapInv, CoapIdle, CoapRefused, CoapReplied, CoapDiscovered
  <2>3. Back(env, req.inst, Command(req).id) /\ Len(calls'[coapThread]) = 0
    BY <2>1, <2>2, BackLemma DEF CoapCalled
  <2>4. req \in Requests /\ req.kind = "post" /\ Refusal(req) = "0"
    BY <2>2 DEF CoapCalled
  <2> HIDE DEF env, req
  <2>5. CoapReplied'
    BY <2>1, <2>3, <2>4 DEF CoapReplied, Back
  <2>6. QED
    BY <2>1, <2>3, <2>5 DEF CoapInv
<1>5. CASE CoapNext
  BY <1>5 DEF CoapNext, CoapInv, CoapIdle, channels
<1>6. QED
  BY <1>1, <1>2, <1>3, <1>4, <1>5 DEF Coap

-----------------------------------------------------------------------------
(* The shell.                                                               *)

(* The shell's state is kept by what is not a step of the shell.            *)
LEMMA ShellElsewhere ==
  ASSUME ShellInv, UNCHANGED <<selected, shell>>,
         Len(calls[shellThread]) = 0 => Len(calls'[shellThread]) = 0,
         \A z, id : Root(shellThread, z, id) => Root(shellThread, z, id)'
  PROVE  ShellInv'
<1>1. ShellTyped' /\ PrintInv'
  BY DEF ShellInv, ShellTyped, PrintInv
<1>2. CallInv'
  BY DEF ShellInv, CallInv
<1>3. QED
  BY <1>1, <1>2 DEF ShellInv

(* Every step of the shell keeps its invariant.                             *)
LEMMA ShellKeeps ==
  ASSUME IInv, ShellInv, Shell
  PROVE  ShellInv'
<1> USE ShellAssumption
<1>1. ASSUME NEW line \in Lines, Usage(line)
      PROVE  ShellInv'
  <2>1. ShellTyped' /\ PrintInv'
    BY <1>1 DEF Usage, ShellInv, ShellTyped, PrintInv, CallInv, Printing
  <2>2. CallInv'
    BY <1>1 DEF Usage, ShellInv, ShellTyped, CallInv, Printing, channels
  <2>3. QED
    BY <2>1, <2>2 DEF ShellInv
<1>2. ASSUME NEW line \in Lines, Call(line)
      PROVE  ShellInv'
  <2>1. Len(calls[shellThread]) = 0
    BY <1>2 DEF Call, ShellInv, CallInv
  <2>2. Root(shellThread, line.z, Shape(line).id)'
    BY <1>2, <2>1, RootLemma DEF Call
  <2>3. ShellTyped' /\ PrintInv'
    BY <1>2 DEF Call, ShellInv, ShellTyped, PrintInv, CallInv, Printing
  <2>4. shell'.st = "called" /\ shell'.line = line /\ shell'.env = NULL
    BY <1>2 DEF Call, ShellInv, ShellTyped, CallInv
  <2>5. CallInv'
    BY <2>2, <2>4 DEF CallInv, Printing, Root
  <2>6. QED
    BY <2>3, <2>5 DEF ShellInv
<1>3. CASE Return
  <2> DEFINE env == Top(shellThread)
  <2>1. /\ Depth(shellThread) = 1 /\ At(shellThread, "ret")
        /\ calls' = Pop(shellThread) /\ shell.st = "called"
        /\ selected' = selected
        /\ shell' = [shell EXCEPT
             !.st = IF Result(env) = "0" /\ Shape(shell.line).resp
                      THEN "block" ELSE "done",
             !.rc = Result(env), !.env = env,
             !.form = selected, !.changed = FALSE]
    BY <1>3 DEF Return
  <2>2. Root(shellThread, shell.line.z, Shape(shell.line).id)
    BY <2>1 DEF ShellInv, CallInv
  <2>3. /\ Back(env, shell.line.z, Shape(shell.line).id)
        /\ Len(calls'[shellThread]) = 0
    BY <2>1, <2>2, BackLemma
  <2> HIDE DEF env
  <2>4. env \in Env /\ env # NULL
        /\ Result(env) \in Codes \cup {"EINVAL", "EBUSY", "EAGAIN"}
    BY <2>3, EnvelopeAssumption DEF Back, Env, Result
  <2>5. ShellTyped'
    BY <2>1, <2>4 DEF ShellInv, ShellTyped, Printing
  <2>6. PrintInv'
    BY <2>1 DEF ShellInv, ShellTyped, PrintInv, Printing
  <2>7. CallInv'
    BY <2>1, <2>3, <2>4 DEF ShellInv, ShellTyped, CallInv, Printing
  <2>8. QED
    BY <2>5, <2>6, <2>7 DEF ShellInv
<1>4. CASE PrintBlock \/ PrettyOnly \/ NotPrettyOnly \/ PrintLine
  <2> USE DEF PrintBlock, PrettyOnly, NotPrettyOnly, PrintLine, channels
  <2>1. ShellTyped'
    <3>1. CASE PrintBlock
      BY <3>1 DEF ShellInv, ShellTyped, Printing
    <3>2. CASE PrettyOnly \/ NotPrettyOnly
      BY <3>2 DEF ShellInv, ShellTyped, Printing
    <3>3. CASE PrintLine
      BY <3>3 DEF ShellInv, ShellTyped, Printing
    <3>4. QED
      BY <1>4, <3>1, <3>2, <3>3
  <2>2. PrintInv'
    BY <1>4 DEF ShellInv, ShellTyped, PrintInv, Printing, Forms, Whole
  <2>3. CallInv'
    <3>1. /\ shell'.line = shell.line /\ shell'.env = shell.env
          /\ shell'.rc = shell.rc /\ calls' = calls
          /\ shell.st \in Printing /\ shell'.st \in {"done"} \cup Printing
      BY <1>4 DEF ShellInv, ShellTyped, Printing
    <3>2. QED
      BY <3>1 DEF ShellInv, CallInv, Printing, Back, Result, Shape
  <2>4. QED
    BY <2>1, <2>2, <2>3 DEF ShellInv
<1>5. ASSUME NEW form \in Forms, Fmt(form)
      PROVE  ShellInv'
  <2>1. ShellTyped' /\ PrintInv'
    BY <1>5 DEF Fmt, ShellInv, ShellTyped, PrintInv, Printing, Whole
  <2>2. CallInv'
    <3>1. /\ shell'.line = shell.line /\ shell'.env = shell.env
          /\ shell'.rc = shell.rc /\ calls' = calls
          /\ shell'.st = shell.st
      BY <1>5 DEF Fmt, ShellInv, ShellTyped, channels
    <3>2. QED
      BY <3>1 DEF ShellInv, CallInv, Back, Result, Shape, Root
  <2>3. QED
    BY <2>1, <2>2 DEF ShellInv
<1>6. CASE Prompt
  <2>1. /\ ShellTyped' /\ PrintInv'
    BY <1>6 DEF Prompt, ShellIdle, ShellInv, ShellTyped, PrintInv, Printing,
                Codes
  <2>2. CallInv'
    BY <1>6 DEF Prompt, ShellIdle, ShellInv, ShellTyped, CallInv, Printing,
                channels
  <2>3. QED
    BY <2>1, <2>2 DEF ShellInv
<1>7. QED
  BY <1>1, <1>2, <1>3, <1>4, <1>5, <1>6 DEF Shell
-----------------------------------------------------------------------------
(* The invariants hold initially and are kept.                              *)

FrontendInv == IInv /\ CoapInv /\ ShellInv

(* No request and no line is in progress.                                   *)
LEMMA FrontendInit == Init => FrontendInv
<1> SUFFICES ASSUME Init PROVE FrontendInv
  OBVIOUS
<1>1. \A t \in Threads : Len(calls[t]) = 0
  BY DEF Init, DispatchInit
<1>2. CoapInv
  BY <1>1, CoapAssumption DEF Init, CoapInv, CoapIdle
<1>3. ShellTyped
  BY ShellAssumption DEF Init, ShellIdle, ShellTyped, Codes
<1>4. CallInv /\ PrintInv
  BY <1>1, ShellAssumption
     DEF Init, ShellIdle, CallInv, PrintInv, Printing
<1>5. QED
  BY <1>2, <1>3, <1>4, InitLemma DEF FrontendInv, ShellInv

(* What one frontend does on its thread leaves the other's thread alone.    *)
LEMMA ThreadsApart ==
  ASSUME IInv, Coap \/ Shell
  PROVE  /\ Coap => calls'[shellThread] = calls[shellThread]
         /\ Shell => calls'[coapThread] = calls[coapThread]
<1>1. coapThread # shellThread /\ {coapThread, shellThread} \subseteq Threads
  BY CallsAssumption, CoapAssumption, ShellAssumption
<1>2. calls \in [Threads -> Seq(Env)]
  BY DEF IInv, Good, Typed
<1>3. Coap => calls'[shellThread] = calls[shellThread]
  BY <1>1, <1>2
     DEF Coap, CoapRefuse, CoapPost, CoapDiscover, CoapReply, CoapNext,
         Push, Pop, channels
<1>4. Shell => calls'[coapThread] = calls[coapThread]
  BY <1>1, <1>2
     DEF Shell, Usage, Call, Return, PrintBlock, PrettyOnly, NotPrettyOnly,
         PrintLine, Fmt, Prompt, Push, Pop, channels
<1>5. QED
  BY <1>3, <1>4

(* Every step of the system keeps the invariants.                           *)
LEMMA FrontendNext == FrontendInv /\ [Next]_vars => FrontendInv'
<1> SUFFICES ASSUME FrontendInv, [Next]_vars PROVE FrontendInv'
  OBVIOUS
<1> USE DEF FrontendInv
<1> USE CoapAssumption, ShellAssumption
<1>1. IInv'
  BY NextLemma
<1>2. CASE UNCHANGED <<channels, coap, selected, shell>>
  <2>1. CoapInv'
    BY <1>2, CoapElsewhere DEF channels, Root
  <2>2. ShellInv'
    BY <1>2, ShellElsewhere DEF channels, Root
  <2>3. QED
    BY <1>1, <2>1, <2>2
<1>3. ASSUME NEW t \in Threads, Step(t), UNCHANGED <<coap, selected, shell>>
      PROVE  FrontendInv'
  <2>1. SameRoots(calls, calls')
    BY <1>3, StepLemma
  <2>2. CoapInv'
    BY <1>1, <1>3, <2>1, SameRootLemma, CoapElsewhere
  <2>3. ShellInv'
    BY <1>1, <1>3, <2>1, SameRootLemma, ShellElsewhere
  <2>4. QED
    BY <1>1, <2>2, <2>3
<1>4. CASE Coap /\ UNCHANGED <<selected, shell>>
  <2>1. CoapInv'
    BY <1>4, CoapKeeps
  <2>2. calls'[shellThread] = calls[shellThread]
    BY <1>4, ThreadsApart
  <2>3. ShellInv'
    BY <1>4, <2>2, ShellElsewhere DEF Root
  <2>4. QED
    BY <1>1, <2>1, <2>3
<1>5. CASE Shell /\ UNCHANGED coap
  <2>1. ShellInv'
    BY <1>5, ShellKeeps
  <2>2. calls'[coapThread] = calls[coapThread]
    BY <1>5, ThreadsApart
  <2>3. CoapInv'
    BY <1>5, <2>2, CoapElsewhere DEF Root
  <2>4. QED
    BY <1>1, <2>1, <2>3
<1>6. QED
  BY <1>2, <1>3, <1>4, <1>5 DEF Next, vars

(* The invariants hold in every reachable state.                            *)
LEMMA AlwaysFrontendInv == Spec => []FrontendInv
BY FrontendInit, FrontendNext, PTL DEF Spec

-----------------------------------------------------------------------------
(* Walks over a section, as functions of how far they have come.            *)

(* What holds before the first place, and at each place that follows one    *)
(* where it holds, holds all along: there is no first place where it fails. *)
LEMMA WalkInduction ==
  ASSUME NEW N \in Nat, NEW Q, 0 \in Q,
         \A n \in 0..(N - 1) : n \in Q => n + 1 \in Q
  PROVE  0..N \subseteq Q
<1> DEFINE Bad == (0..N) \ Q
           R == OpToRel(<, Nat)
<1>1. \A x, y \in Nat : x < y => <<x, y>> \in R
  BY DEF OpToRel
<1>2. IsWellFoundedOn(R, Nat)
  BY NatLessThanWellFounded
<1> HIDE DEF R
<1>3. SUFFICES ASSUME Bad # {} PROVE FALSE
  OBVIOUS
<1>4. Bad \subseteq Nat
  OBVIOUS
<1>5. PICK n \in Bad : \A o \in Bad : ~ (<<o, n>> \in R)
  BY <1>2, <1>3, <1>4, WFMin
<1>6. n \in 1..N /\ n - 1 \in 0..(N - 1) /\ n - 1 < n /\ n \in Nat /\ n - 1 \in Nat
  BY <1>5
<1>7. n - 1 \notin Bad
  BY <1>1, <1>5, <1>6
<1>8. n - 1 \in Q
  BY <1>6, <1>7
<1>9. (n - 1) + 1 \in Q /\ (n - 1) + 1 = n
  BY <1>6, <1>8
<1>10. QED
  BY <1>5, <1>9

Walk(f, N, S, a, step) ==
  /\ f \in [0..N -> S]
  /\ f[0] = a
  /\ \A n \in 1..N : f[n] = step[<<f[n - 1], n>>]

(* A walk is a function: what each place does to what came before it is     *)
(* given by step.                                                           *)
LEMMA WalkExists ==
  ASSUME NEW N \in Nat, NEW S, NEW a \in S, NEW step \in [S \X (1..N) -> S]
  PROVE  \E f : Walk(f, N, S, a, step)
<1> DEFINE Upto(f, m) == Walk(f, m, S, a, step)
           Q == {m \in 0..N : \E f : Upto(f, m)}
<1>1. 0 \in Q
  <2> DEFINE f == [n \in 0..0 |-> a]
  <2>1. Upto(f, 0)
    BY DEF Walk
  <2> HIDE DEF f
  <2>2. QED
    BY <2>1
<1>2. ASSUME NEW m \in 0..(N - 1), m \in Q
      PROVE  m + 1 \in Q
  <2>1. PICK f : Upto(f, m)
    BY <1>2
  <2> DEFINE b == step[<<f[m], m + 1>>]
             g == [n \in 0..(m + 1) |-> IF n = m + 1 THEN b ELSE f[n]]
  <2>2. f[m] \in S /\ m + 1 \in 1..N /\ m + 1 \in 0..N /\ m \in Nat
    BY <2>1 DEF Walk
  <2>3. b \in S
    BY <2>2
  <2> HIDE DEF b
  <2>4. g \in [0..(m + 1) -> S]
    BY <2>1, <2>2, <2>3 DEF Walk
  <2>5. g[0] = a
    BY <2>1, <2>2 DEF Walk
  <2>6. ASSUME NEW n \in 1..(m + 1)
        PROVE  g[n] = step[<<g[n - 1], n>>]
    <3>1. g[n - 1] = f[n - 1]
      BY <2>2
    <3>2. CASE n = m + 1
      <4>1. g[n] = b /\ n - 1 = m
        BY <2>2, <3>2
      <4> HIDE DEF g
      <4>2. QED
        BY <3>1, <3>2, <4>1 DEF b
    <3>3. CASE n # m + 1
      BY <2>1, <2>2, <3>1, <3>3 DEF Walk
    <3>4. QED
      BY <3>2, <3>3
  <2>7. Upto(g, m + 1)
    BY <2>4, <2>5, <2>6 DEF Walk
  <2> HIDE DEF g, Upto
  <2>8. QED
    BY <2>2, <2>7
<1>3. 0..N \subseteq Q
  <2> HIDE DEF Q
  <2>1. QED
    BY <1>1, <1>2, WalkInduction
<1>4. N \in Q
  BY <1>3
<1>5. PICK f : Upto(f, N)
  BY <1>4
<1>6. QED
  BY <1>5

(* What follows step where it is in S is a walk.                            *)
LEMMA WalkIs ==
  ASSUME NEW N \in Nat, NEW S, NEW a \in S, NEW step \in [S \X (1..N) -> S],
         NEW g, DOMAIN g = 0..N, g = [n \in DOMAIN g |-> g[n]], g[0] = a,
         \A n \in 1..N : g[n - 1] \in S => g[n] = step[<<g[n - 1], n>>]
  PROVE  Walk(g, N, S, a, step)
<1> DEFINE Q == {n \in 0..N : g[n] \in S}
<1>1. 0 \in Q
  OBVIOUS
<1>2. ASSUME NEW n \in 0..(N - 1), n \in Q
      PROVE  n + 1 \in Q
  <2>1. n + 1 \in 1..N /\ (n + 1) - 1 = n /\ n + 1 \in 0..N
    OBVIOUS
  <2>2. g[n] \in S
    BY <1>2
  <2>3. g[n + 1] = step[<<g[n], n + 1>>]
    BY <2>1, <2>2
  <2>4. QED
    BY <2>1, <2>2, <2>3
<1>3. 0..N \subseteq Q
  <2> HIDE DEF Q
  <2>1. QED
    BY <1>1, <1>2, WalkInduction
<1>4. \A n \in 0..N : g[n] \in S
  BY <1>3
<1>5. g \in [0..N -> S]
  BY <1>4
<1>6. \A n \in 1..N : n - 1 \in 0..N
  OBVIOUS
<1>7. \A n \in 1..N : g[n] = step[<<g[n - 1], n>>]
  BY <1>4, <1>6
<1>8. QED
  BY <1>5, <1>7 DEF Walk

-----------------------------------------------------------------------------
(* The lists of instances.                                                  *)

Texts(ty) ==
  [type : {ty}, off : Nat, list : Seq(Insts \cup {NULL}), over : BOOLEAN]

NoText(ty) == [type |-> ty, off |-> 0, list |-> <<>>, over |-> FALSE]

(* What one more name makes of the text.                                    *)
LEMMA AddNameLemma ==
  ASSUME NEW ty, NEW text \in Texts(ty), NEW z \in Insts
  PROVE  LET n == nameLen[z] + (IF text.list = <<>> THEN 0 ELSE 1)
             next == AddName(text, z)
         IN  /\ next \in Texts(ty)
             /\ text.over \/ api[z] # ty => next = text
             /\ ~text.over /\ api[z] = ty =>
                  IF n >= BufSize - text.off THEN next.over
                  ELSE /\ ~next.over /\ next.off = text.off + n
                       /\ next.list = Append(text.list, z)
<1> DEFINE n == nameLen[z] + (IF text.list = <<>> THEN 0 ELSE 1)
           over == [text EXCEPT !.over = TRUE]
           room == BufSize - text.off
           name == Printed(z, n, room)
           more == [text EXCEPT !.off = @ + n, !.list = Append(@, name)]
<1>1. n \in Nat /\ BufSize \in Nat /\ text.off \in Nat /\ room \in Int
  BY SectionAssumption, CoapAssumption DEF Texts
<1>2. text.list \in Seq(Insts \cup {NULL}) /\ text.type = ty
  BY DEF Texts
<1>3. AddName(text, z) = IF text.over \/ api[z] # ty THEN text
                         ELSE IF n >= room THEN over ELSE more
  BY <1>2 DEF AddName, Overflow
<1>4. over \in Texts(ty) /\ over.over
  BY DEF Texts
<1>5. name \in Insts \cup {NULL} /\ (~(n >= room) => name = z)
  BY <1>1 DEF Printed
<1> HIDE DEF n, room, name
<1>6. Append(text.list, name) \in Seq(Insts \cup {NULL}) /\ text.off + n \in Nat
  BY <1>1, <1>2, <1>5
<1>7. /\ more \in Texts(ty) /\ more.over = text.over
      /\ more.off = text.off + n /\ more.list = Append(text.list, name)
  BY <1>6 DEF Texts
<1> HIDE DEF over, more
<1>8. QED
  BY <1>3, <1>4, <1>5, <1>7 DEF n, room

(* The walk over the section is a function of the place.                    *)
LEMMA ListWalkLemma ==
  ASSUME NEW ty
  PROVE  LET text == ListWalk(ty) IN
         /\ text \in [0..Len(registry) -> Texts(ty)]
         /\ text[0] = NoText(ty)
         /\ \A n \in 1..Len(registry) : text[n] = AddName(text[n - 1], registry[n])
<1> DEFINE N == Len(registry)
           step == [p \in Texts(ty) \X (1..N) |-> AddName(p[1], registry[p[2]])]
           Walks(f) == f = [n \in 0..N |-> IF n = 0 THEN NoText(ty)
                                           ELSE AddName(f[n - 1], registry[n])]
<1>1. N \in Nat /\ \A n \in 1..N : registry[n] \in Insts
  BY SectionAssumption
<1>2. NoText(ty) \in Texts(ty)
  BY DEF NoText, Texts
<1>3. step \in [Texts(ty) \X (1..N) -> Texts(ty)]
  <2>1. \A text \in Texts(ty), n \in 1..N : AddName(text, registry[n]) \in Texts(ty)
    BY <1>1, AddNameLemma
  <2>2. QED
    BY <2>1
<1>4. PICK f : Walk(f, N, Texts(ty), NoText(ty), step)
  <2> HIDE DEF step, N
  <2>1. QED
    BY <1>1, <1>2, <1>3, WalkExists
<1>5. Walks(f)
  <2>1. \A n \in 1..N : n - 1 \in 0..N
    BY <1>1
  <2>2. \A n \in 1..N : step[<<f[n - 1], n>>] = AddName(f[n - 1], registry[n])
    <3> SUFFICES ASSUME NEW n \in 1..N
                 PROVE  step[<<f[n - 1], n>>] = AddName(f[n - 1], registry[n])
      OBVIOUS
    <3>1. f[n - 1] \in Texts(ty)
      BY <1>4, <2>1 DEF Walk
    <3> HIDE DEF N
    <3>2. QED
      BY <3>1
  <2> HIDE DEF step
  <2>3. \A n \in 0..N : f[n] = IF n = 0 THEN NoText(ty)
                               ELSE AddName(f[n - 1], registry[n])
    <3>1. \A n \in 0..N : n = 0 \/ n \in 1..N
      BY <1>1
    <3> HIDE DEF N
    <3>2. QED
      BY <1>4, <2>2, <3>1 DEF Walk
  <2> HIDE DEF N
  <2>4. QED
    BY <1>4, <2>3 DEF Walk
<1>6. ListWalk(ty) = CHOOSE g : Walks(g)
  BY DEF ListWalk, NoText
<1>7. Walks(ListWalk(ty))
  <2> HIDE DEF Walks
  <2>1. QED
    BY <1>5, <1>6
<1> DEFINE text == ListWalk(ty)
<1>8. /\ text[0] = NoText(ty)
      /\ \A n \in 1..N : text[n] = AddName(text[n - 1], registry[n])
      /\ DOMAIN text = 0..N /\ text = [n \in 0..N |-> text[n]]
  <2> HIDE DEF text
  <2>1. text = [n \in 0..N |-> IF n = 0 THEN NoText(ty)
                               ELSE AddName(text[n - 1], registry[n])]
    BY <1>7 DEF text
  <2>2. 0 \in 0..N /\ \A n \in 1..N : n \in 0..N /\ n # 0
    BY <1>1
  <2> HIDE DEF N, Walks
  <2>3. /\ DOMAIN text = 0..N
        /\ \A n \in 0..N : text[n] = IF n = 0 THEN NoText(ty)
                                     ELSE AddName(text[n - 1], registry[n])
    BY <2>1
  <2>4. text = [n \in 0..N |-> text[n]]
    BY <2>1
  <2>5. QED
    BY <2>2, <2>3, <2>4
<1> HIDE DEF text
<1>9. \A n \in 1..N : text[n - 1] \in Texts(ty) =>
        text[n] = step[<<text[n - 1], n>>]
  BY <1>8
<1> HIDE DEF step, N
<1>10. Walk(text, N, Texts(ty), NoText(ty), step)
  BY <1>1, <1>2, <1>3, <1>8, <1>9, WalkIs
<1>11. text \in [0..N -> Texts(ty)]
  BY <1>10 DEF Walk
<1>12. QED
  BY <1>8, <1>11 DEF text, N

(* So is the sum of the room that the names take.                           *)
LEMMA RoomWalkLemma ==
  ASSUME NEW ty
  PROVE  LET size == Room(ty) IN
         /\ size \in [0..Len(registry) -> Nat]
         /\ size[0] = 0
         /\ \A n \in 1..Len(registry) :
              size[n] = IF api[registry[n]] = ty
                        THEN size[n - 1] + nameLen[registry[n]] + 1
                        ELSE size[n - 1]
<1> DEFINE N == Len(registry)
           More(s, n) == IF api[registry[n]] = ty
                         THEN s + nameLen[registry[n]] + 1 ELSE s
           step == [p \in Nat \X (1..N) |-> More(p[1], p[2])]
           Walks(f) == f = [n \in 0..N |-> IF n = 0 THEN 0
                                           ELSE More(f[n - 1], n)]
<1>1. N \in Nat /\ \A n \in 1..N : nameLen[registry[n]] \in Nat
  BY SectionAssumption
<1>2. step \in [Nat \X (1..N) -> Nat]
  BY <1>1
<1>3. PICK f : Walk(f, N, Nat, 0, step)
  <2> HIDE DEF step, N
  <2>1. QED
    BY <1>1, <1>2, WalkExists
<1>4. Walks(f)
  <2>1. \A n \in 1..N : n - 1 \in 0..N
    BY <1>1
  <2>2. \A n \in 1..N : step[<<f[n - 1], n>>] = More(f[n - 1], n)
    <3> SUFFICES ASSUME NEW n \in 1..N
                 PROVE  step[<<f[n - 1], n>>] = More(f[n - 1], n)
      OBVIOUS
    <3>1. f[n - 1] \in Nat
      BY <1>3, <2>1 DEF Walk
    <3> HIDE DEF N, More
    <3>2. QED
      BY <3>1
  <2> HIDE DEF step, More
  <2>3. \A n \in 0..N : f[n] = IF n = 0 THEN 0 ELSE More(f[n - 1], n)
    <3>1. \A n \in 0..N : n = 0 \/ n \in 1..N
      BY <1>1
    <3> HIDE DEF N
    <3>2. QED
      BY <1>3, <2>2, <3>1 DEF Walk
  <2> HIDE DEF N
  <2>4. QED
    BY <1>3, <2>3 DEF Walk
<1>5. Room(ty) = CHOOSE g : Walks(g)
  BY DEF Room
<1>6. Walks(Room(ty))
  <2> HIDE DEF Walks
  <2>1. QED
    BY <1>4, <1>5
<1> DEFINE size == Room(ty)
<1>7. /\ size[0] = 0
      /\ \A n \in 1..N : size[n] = More(size[n - 1], n)
      /\ DOMAIN size = 0..N /\ size = [n \in 0..N |-> size[n]]
  <2> HIDE DEF size, More
  <2>1. size = [n \in 0..N |-> IF n = 0 THEN 0 ELSE More(size[n - 1], n)]
    BY <1>6 DEF size
  <2>2. 0 \in 0..N /\ \A n \in 1..N : n \in 0..N /\ n # 0
    BY <1>1
  <2> HIDE DEF N, Walks
  <2>3. /\ DOMAIN size = 0..N
        /\ \A n \in 0..N : size[n] = IF n = 0 THEN 0 ELSE More(size[n - 1], n)
    BY <2>1
  <2>4. size = [n \in 0..N |-> size[n]]
    BY <2>1
  <2>5. QED
    BY <2>2, <2>3, <2>4
<1> HIDE DEF size
<1>8. \A n \in 1..N : size[n - 1] \in Nat => size[n] = step[<<size[n - 1], n>>]
  <2> HIDE DEF More, N
  <2>1. QED
    BY <1>7
<1>9. Walk(size, N, Nat, 0, step)
  <2> HIDE DEF step, N, More
  <2>1. QED
    BY <1>1, <1>2, <1>7, <1>8, WalkIs
<1>10. size \in [0..N -> Nat]
  BY <1>9 DEF Walk
<1>11. QED
  BY <1>7, <1>10 DEF size

(* And the walk over the resources of the service.                          *)
LEMMA CoreWalkLemma ==
  LET S == Seq(ToSet(resources)) IN
  /\ CoreWalk \in [0..Len(resources) -> S]
  /\ CoreWalk[0] = <<>>
  /\ \A n \in 1..Len(resources) :
       CoreWalk[n] = AddResource(CoreWalk[n - 1], resources[n])
<1> DEFINE N == Len(resources)
           S == Seq(ToSet(resources))
           step == [p \in S \X (1..N) |-> AddResource(p[1], resources[p[2]])]
           Walks(f) == f = [n \in 0..N |-> IF n = 0 THEN <<>>
                                           ELSE AddResource(f[n - 1], resources[n])]
<1>1. N \in Nat /\ \A n \in 1..N : resources[n] \in ToSet(resources)
  BY SectionAssumption
<1>2. <<>> \in S
  OBVIOUS
<1>3. step \in [S \X (1..N) -> S]
  <2>1. \A list \in S, n \in 1..N : AddResource(list, resources[n]) \in S
    BY <1>1 DEF AddResource
  <2> HIDE DEF S, N
  <2>2. QED
    BY <2>1
<1> HIDE DEF S
<1>4. PICK f : Walk(f, N, S, <<>>, step)
  <2> HIDE DEF step, N
  <2>1. QED
    BY <1>1, <1>2, <1>3, WalkExists
<1>5. Walks(f)
  <2>1. \A n \in 1..N : n - 1 \in 0..N
    BY <1>1
  <2>2. \A n \in 1..N :
          step[<<f[n - 1], n>>] = AddResource(f[n - 1], resources[n])
    <3> SUFFICES ASSUME NEW n \in 1..N
                 PROVE  step[<<f[n - 1], n>>] = AddResource(f[n - 1], resources[n])
      OBVIOUS
    <3>1. f[n - 1] \in S
      BY <1>4, <2>1 DEF Walk
    <3> HIDE DEF N
    <3>2. QED
      BY <3>1
  <2> HIDE DEF step
  <2>3. \A n \in 0..N : f[n] = IF n = 0 THEN <<>>
                               ELSE AddResource(f[n - 1], resources[n])
    <3>1. \A n \in 0..N : n = 0 \/ n \in 1..N
      BY <1>1
    <3> HIDE DEF N
    <3>2. QED
      BY <1>4, <2>2, <3>1 DEF Walk
  <2> HIDE DEF N
  <2>4. QED
    BY <1>4, <2>3 DEF Walk
<1>6. CoreWalk = CHOOSE g : Walks(g)
  BY DEF CoreWalk
<1>7. Walks(CoreWalk)
  <2> HIDE DEF Walks
  <2>1. QED
    BY <1>5, <1>6
<1> DEFINE list == CoreWalk
<1>8. /\ list[0] = <<>>
      /\ \A n \in 1..N : list[n] = AddResource(list[n - 1], resources[n])
      /\ DOMAIN list = 0..N /\ list = [n \in 0..N |-> list[n]]
  <2> HIDE DEF list
  <2>1. list = [n \in 0..N |-> IF n = 0 THEN <<>>
                               ELSE AddResource(list[n - 1], resources[n])]
    BY <1>7 DEF list
  <2>2. 0 \in 0..N /\ \A n \in 1..N : n \in 0..N /\ n # 0
    BY <1>1
  <2> HIDE DEF N, Walks
  <2>3. /\ DOMAIN list = 0..N
        /\ \A n \in 0..N : list[n] = IF n = 0 THEN <<>>
                                     ELSE AddResource(list[n - 1], resources[n])
    BY <2>1
  <2>4. list = [n \in 0..N |-> list[n]]
    BY <2>1
  <2>5. QED
    BY <2>2, <2>3, <2>4
<1> HIDE DEF list
<1>9. \A n \in 1..N : list[n - 1] \in S => list[n] = step[<<list[n - 1], n>>]
  BY <1>8
<1> HIDE DEF step, N
<1>10. Walk(list, N, S, <<>>, step)
  BY <1>1, <1>2, <1>3, <1>8, <1>9, WalkIs
<1>11. list \in [0..N -> S]
  BY <1>10 DEF Walk
<1>12. QED
  BY <1>8, <1>11 DEF list, N, S

-----------------------------------------------------------------------------
(* What a walk has listed.                                                  *)

\* The list has the elements that s has at the places P, in their order.
Listed(list, P, s) ==
  /\ ToSet(list) = {s[m] : m \in P}
  /\ \A i, j \in 1..Len(list) : i < j =>
       \E m, n \in P : m < n /\ s[m] = list[i] /\ s[n] = list[j]

(* A place behind all others adds its element at the end.                   *)
LEMMA ListedLemma ==
  ASSUME NEW T, NEW list \in Seq(T), NEW s, NEW P, P \subseteq Nat,
         NEW o \in Nat, \A m \in P : m < o, Listed(list, P, s), s[o] \in T
  PROVE  Listed(Append(list, s[o]), P \cup {o}, s)
<1> DEFINE more == Append(list, s[o])
           N == Len(list)
<1>1. /\ N \in Nat /\ Len(more) = N + 1 /\ more[N + 1] = s[o]
      /\ \A i \in 1..N : more[i] = list[i]
      /\ DOMAIN list = 1..N /\ DOMAIN more = 1..(N + 1)
  OBVIOUS
<1> HIDE DEF more, N
<1>2. ToSet(more) = {s[m] : m \in P \cup {o}}
  <2>1. ToSet(list) = {list[i] : i \in 1..N}
    BY <1>1 DEF ToSet
  <2>2. ToSet(more) = {more[i] : i \in 1..(N + 1)}
    BY <1>1 DEF ToSet
  <2>3. \A i \in 1..(N + 1) : i \in 1..N \/ i = N + 1
    BY <1>1
  <2>4. ToSet(more) = ToSet(list) \cup {s[o]}
    BY <1>1, <2>1, <2>2, <2>3
  <2>5. QED
    BY <2>4 DEF Listed
<1>3. ASSUME NEW i \in 1..(N + 1), NEW j \in 1..(N + 1), i < j
      PROVE  \E m, n \in P \cup {o} : m < n /\ s[m] = more[i] /\ s[n] = more[j]
  <2>1. i \in 1..N /\ more[i] = list[i]
    BY <1>1, <1>3
  <2>2. CASE j = N + 1
    <3>1. list[i] \in ToSet(list)
      BY <1>1, <2>1 DEF ToSet
    <3>2. PICK m \in P : s[m] = list[i]
      BY <3>1 DEF Listed
    <3>3. m < o /\ s[m] = more[i] /\ s[o] = more[j]
      BY <1>1, <2>1, <2>2, <3>2
    <3>4. QED
      BY <3>3
  <2>3. CASE j # N + 1
    <3>1. j \in 1..N /\ more[j] = list[j]
      BY <1>1, <2>3
    <3>2. PICK m \in P, n \in P : m < n /\ s[m] = list[i] /\ s[n] = list[j]
      BY <1>3, <2>1, <3>1 DEF Listed, N
    <3>3. QED
      BY <2>1, <3>1, <3>2
  <2>4. QED
    BY <2>2, <2>3
<1>4. Listed(more, P \cup {o}, s)
  BY <1>1, <1>2, <1>3 DEF Listed
<1>5. QED
  BY <1>4 DEF more

(* A list in the order of the places is one in the order of s.              *)
LEMMA OrderedLemma ==
  ASSUME NEW list, NEW s, NEW P, P \subseteq 1..Len(s), Listed(list, P, s)
  PROVE  Ordered(list, s)
<1> SUFFICES ASSUME NEW i \in 1..Len(list), NEW j \in 1..Len(list), i < j
             PROVE  \E m, n \in 1..Len(s) :
                      m < n /\ s[m] = list[i] /\ s[n] = list[j]
  BY DEF Ordered
<1>1. PICK m \in P, n \in P : m < n /\ s[m] = list[i] /\ s[n] = list[j]
  BY DEF Listed
<1>2. QED
  BY <1>1

(* The places of a type's instances among the first n.                      *)
Mine(ty, n) == {m \in 1..n : api[registry[m]] = ty}

\* What the text of a type is after the first n instances.
TextInv(ty, n) ==
  LET text == ListWalk(ty)[n]  size == Room(ty)[n] IN
  IF text.over THEN size > BufSize
  ELSE /\ Listed(text.list, Mine(ty, n), registry)
       /\ IF text.list = <<>> THEN text.off = 0 /\ size = 0
          ELSE text.off = size - 1 /\ text.off > 0 /\ text.off < BufSize

(* The text stays whole while it has room, and after that has none.         *)
LEMMA TextLemma ==
  ASSUME NEW ty, NEW n \in 0..Len(registry)
  PROVE  TextInv(ty, n)
<1> DEFINE N == Len(registry)
           text == ListWalk(ty)
           size == Room(ty)
           Q == {m \in 0..N : TextInv(ty, m)}
<1>1. N \in Nat /\ registry \in Seq(Insts) /\ \A m \in 1..N : registry[m] \in Insts
  BY SectionAssumption
<1>2. /\ text \in [0..N -> Texts(ty)] /\ text[0] = NoText(ty)
      /\ \A m \in 1..N : text[m] = AddName(text[m - 1], registry[m])
  BY ListWalkLemma
<1>3. /\ size \in [0..N -> Nat] /\ size[0] = 0
      /\ \A m \in 1..N : size[m] = IF api[registry[m]] = ty
                                  THEN size[m - 1] + nameLen[registry[m]] + 1
                                  ELSE size[m - 1]
  BY RoomWalkLemma
<1> HIDE DEF text, size, N
<1>4. 0 \in Q
  <2>1. Mine(ty, 0) = {} /\ ToSet(<<>>) = {} /\ Len(<<>>) = 0
    BY DEF Mine, ToSet
  <2>2. Listed(<<>>, {}, registry)
    BY <2>1 DEF Listed
  <2>3. /\ ListWalk(ty)[0].list = <<>> /\ ListWalk(ty)[0].off = 0
        /\ ~ListWalk(ty)[0].over /\ Room(ty)[0] = 0
    BY <1>2, <1>3 DEF NoText, text, size
  <2>4. TextInv(ty, 0)
    BY <2>1, <2>2, <2>3 DEF TextInv
  <2>5. QED
    BY <1>1, <2>4
<1>5. ASSUME NEW m \in 0..(N - 1), m \in Q
      PROVE  m + 1 \in Q
  <2> DEFINE z == registry[m + 1]
             a == text[m]
             b == text[m + 1]
  <2>1. /\ m + 1 \in 1..N /\ m + 1 \in 0..N /\ (m + 1) - 1 = m
        /\ m \in 0..N /\ m \in Nat /\ m + 1 \in Nat
    BY <1>1
  <2>2. z \in Insts /\ a \in Texts(ty) /\ b = AddName(a, z)
    BY <1>1, <1>2, <2>1
  <2>3. /\ size[m] \in Nat /\ size[m + 1] \in Nat
        /\ size[m + 1] = IF api[z] = ty THEN size[m] + nameLen[z] + 1 ELSE size[m]
    BY <1>3, <2>1
  <2>4. nameLen[z] \in Nat /\ nameLen[z] > 0 /\ BufSize \in Nat
    BY <2>2, SectionAssumption, CoapAssumption
  <2>5. a.list \in Seq(Insts \cup {NULL}) /\ a.off \in Nat
    BY <2>2 DEF Texts
  <2>6. IF a.over THEN size[m] > BufSize
        ELSE /\ Listed(a.list, Mine(ty, m), registry)
             /\ IF a.list = <<>> THEN a.off = 0 /\ size[m] = 0
                ELSE a.off = size[m] - 1 /\ a.off > 0 /\ a.off < BufSize
    BY <1>5 DEF TextInv, text, size
  <2>7. Mine(ty, m + 1) = IF api[z] = ty THEN Mine(ty, m) \cup {m + 1}
                                         ELSE Mine(ty, m)
    <3>1. \A o \in 1..(m + 1) : o \in 1..m \/ o = m + 1
      BY <2>1
    <3>2. 1..m \subseteq 1..(m + 1) /\ m + 1 \in 1..(m + 1)
      BY <2>1
    <3>3. QED
      BY <3>1, <3>2 DEF Mine
  <2> DEFINE c == nameLen[z] + (IF a.list = <<>> THEN 0 ELSE 1)
  <2>8. /\ a.over \/ api[z] # ty => b = a
        /\ ~a.over /\ api[z] = ty =>
             IF c >= BufSize - a.off THEN b.over
             ELSE ~b.over /\ b.off = a.off + c /\ b.list = Append(a.list, z)
    BY <2>2, AddNameLemma
  <2> SUFFICES TextInv(ty, m + 1)
    BY <2>1
  <2> SUFFICES IF b.over THEN size[m + 1] > BufSize
               ELSE /\ Listed(b.list, Mine(ty, m + 1), registry)
                    /\ IF b.list = <<>> THEN b.off = 0 /\ size[m + 1] = 0
                       ELSE /\ b.off = size[m + 1] - 1
                            /\ b.off > 0 /\ b.off < BufSize
    BY DEF TextInv, text, size
  <2>9. CASE a.over
    BY <2>3, <2>4, <2>6, <2>8, <2>9
  <2>10. CASE ~a.over /\ api[z] # ty
    BY <2>3, <2>6, <2>7, <2>8, <2>10
  <2>11. CASE ~a.over /\ api[z] = ty /\ c >= BufSize - a.off
    <3> DEFINE x == size[m]
               y == size[m + 1]
               l == nameLen[z]
               off == a.off
    <3>1. b.over
      BY <2>8, <2>11
    <3>2. /\ x \in Nat /\ y = x + l + 1 /\ l \in Nat /\ off \in Nat
          /\ BufSize \in Nat /\ c >= BufSize - off
      BY <2>3, <2>4, <2>5, <2>11
    <3>3. \/ c = l /\ off = 0 /\ x = 0
          \/ c = l + 1 /\ off = x - 1
      BY <2>4, <2>6, <2>11
    <3> HIDE DEF x, y, l, off, c
    <3>4. y > BufSize
      BY <3>2, <3>3
    <3>5. QED
      BY <3>1, <3>4 DEF y
  <2>12. CASE ~a.over /\ api[z] = ty /\ ~(c >= BufSize - a.off)
    <3>1. Listed(Append(a.list, z), Mine(ty, m) \cup {m + 1}, registry)
      <4>1. Mine(ty, m) \subseteq Nat /\ \A o \in Mine(ty, m) : o < m + 1
        BY <2>1 DEF Mine
      <4>2. z \in Insts \cup {NULL}
        BY <2>2
      <4> HIDE DEF a
      <4>3. QED
        BY <2>1, <2>5, <2>6, <2>12, <4>1, <4>2, ListedLemma
    <3>2. Append(a.list, z) # <<>>
      <4> DEFINE more == Append(a.list, z)
      <4>1. Len(more) = Len(a.list) + 1 /\ Len(a.list) \in Nat
        BY <2>2, <2>5
      <4> HIDE DEF more, a
      <4>2. Len(more) # 0
        BY <4>1
      <4>3. more # <<>>
        BY <4>2
      <4>4. QED
        BY <4>3 DEF more
    <3>3. a.off + c = size[m + 1] - 1 /\ a.off + c > 0 /\ a.off + c < BufSize
      <4> DEFINE x == size[m]
                 y == size[m + 1]
                 l == nameLen[z]
                 off == a.off
      <4>1. /\ x \in Nat /\ y = x + l + 1 /\ l \in Nat /\ l > 0 /\ off \in Nat
            /\ BufSize \in Nat /\ ~(c >= BufSize - off)
        BY <2>3, <2>4, <2>5, <2>12
      <4>2. \/ c = l /\ off = 0 /\ x = 0
            \/ c = l + 1 /\ off = x - 1
        BY <2>4, <2>6, <2>12
      <4> HIDE DEF x, y, l, off, c
      <4>3. off + c = y - 1 /\ off + c > 0 /\ off + c < BufSize
        BY <4>1, <4>2
      <4>4. QED
        BY <4>3 DEF off, y
    <3>4. QED
      BY <2>7, <2>8, <2>12, <3>1, <3>2, <3>3
  <2>13. QED
    BY <2>9, <2>10, <2>11, <2>12
<1>6. 0..N \subseteq Q
  <2> HIDE DEF Q
  <2>1. QED
    BY <1>1, <1>4, <1>5, WalkInduction
<1>7. QED
  BY <1>6 DEF N

\* The resources among the first n that are not hidden.
Visible(n) == {resources[m] : m \in {o \in 1..n : ~resources[o].hidden}}

\* What /.well-known/core lists of the first n resources.
CoreInv(n) ==
  LET list == CoreWalk[n]  size == Cardinality(Visible(n)) IN
  /\ IsFiniteSet(Visible(n))
  /\ Len(list) = IF MaxVisible < size THEN MaxVisible ELSE size
  /\ \E P \in SUBSET {o \in 1..n : ~resources[o].hidden} :
       Listed(list, P, resources)

(* The table takes every visible resource until it is full.                 *)
LEMMA CoreLemma ==
  ASSUME NEW n \in 0..Len(resources)
  PROVE  CoreInv(n)
<1> DEFINE N == Len(resources)
           S == Seq(ToSet(resources))
           list == CoreWalk
           Q == {m \in 0..N : CoreInv(m)}
<1>1. /\ N \in Nat /\ MaxVisible \in Nat
      /\ \A m \in 1..N : resources[m] \in ToSet(resources)
      /\ \A m, o \in 1..N : resources[m] = resources[o] => m = o
  BY SectionAssumption, CoapAssumption DEF IsInjective
<1>2. /\ list \in [0..N -> S] /\ list[0] = <<>>
      /\ \A m \in 1..N : list[m] = AddResource(list[m - 1], resources[m])
  BY CoreWalkLemma
<1> HIDE DEF list, N
<1>3. 0 \in Q
  <2>1. /\ Visible(0) = {} /\ Cardinality({}) = 0 /\ IsFiniteSet({})
        /\ Len(<<>>) = 0 /\ ToSet(<<>>) = {}
    BY FS_EmptySet DEF Visible, ToSet
  <2>2. Listed(<<>>, {}, resources)
    BY <2>1 DEF Listed
  <2>3. CoreWalk[0] = <<>>
    BY <1>2 DEF list
  <2>4. CoreInv(0)
    <3>1. \E P \in SUBSET {o \in 1..0 : ~resources[o].hidden} :
            Listed(CoreWalk[0], P, resources)
      BY <2>2, <2>3
    <3>2. Len(CoreWalk[0]) = 0 /\ Cardinality(Visible(0)) = 0
      BY <2>1, <2>3
    <3>3. QED
      <4>1. Len(CoreWalk[0]) = IF MaxVisible < Cardinality(Visible(0))
                               THEN MaxVisible ELSE Cardinality(Visible(0))
        BY <1>1, <3>2
      <4>2. IsFiniteSet(Visible(0))
        BY <2>1
      <4>3. QED
        BY <3>1, <4>1, <4>2, Zenon DEF CoreInv
  <2>5. QED
    BY <1>1, <2>4
<1>4. ASSUME NEW m \in 0..(N - 1), m \in Q
      PROVE  m + 1 \in Q
  <2> DEFINE r == resources[m + 1]
             a == list[m]
             b == list[m + 1]
             U == {o \in 1..m : ~resources[o].hidden}
             W == {o \in 1..(m + 1) : ~resources[o].hidden}
             size == Cardinality(Visible(m))
  <2>1. /\ m + 1 \in 1..N /\ m + 1 \in 0..N /\ (m + 1) - 1 = m
        /\ m \in 0..N /\ m \in Nat /\ m + 1 \in Nat
        /\ 1..m \subseteq 1..N
    BY <1>1
  <2>2. /\ r \in ToSet(resources) /\ a \in S
        /\ b = IF r.hidden \/ Len(a) >= MaxVisible THEN a ELSE Append(a, r)
    BY <1>1, <1>2, <2>1 DEF AddResource
  <2>3. /\ IsFiniteSet(Visible(m))
        /\ Len(a) = IF MaxVisible < size THEN MaxVisible ELSE size
    BY <1>4 DEF CoreInv, list
  <2>4. PICK P \in SUBSET U : Listed(a, P, resources)
    BY <1>4 DEF CoreInv, list
  <2>5. size \in Nat
    BY <2>3, FS_CardinalityType
  <2>6. /\ W = IF r.hidden THEN U ELSE U \cup {m + 1}
        /\ Visible(m) = {resources[o] : o \in U}
        /\ Visible(m + 1) = {resources[o] : o \in W}
    <3>1. \A o \in 1..(m + 1) : o \in 1..m \/ o = m + 1
      BY <2>1
    <3>2. 1..m \subseteq 1..(m + 1) /\ m + 1 \in 1..(m + 1)
      BY <2>1
    <3>3. W = IF r.hidden THEN U ELSE U \cup {m + 1}
      BY <3>1, <3>2
    <3>4. QED
      BY <3>3 DEF Visible
  <2>7. r \notin Visible(m)
    <3>1. \A o \in U : o \in 1..N /\ o # m + 1
      BY <2>1
    <3>2. QED
      BY <1>1, <2>1, <2>6, <3>1
  <2>8. Visible(m + 1) = IF r.hidden THEN Visible(m) ELSE Visible(m) \cup {r}
    BY <2>6
  <2>9. /\ IsFiniteSet(Visible(m + 1))
        /\ Cardinality(Visible(m + 1)) = IF r.hidden THEN size ELSE size + 1
    BY <2>3, <2>7, <2>8, FS_AddElement
  <2> SUFFICES CoreInv(m + 1)
    BY <2>1
  <2> SUFFICES /\ Len(b) = IF MaxVisible < Cardinality(Visible(m + 1))
                           THEN MaxVisible ELSE Cardinality(Visible(m + 1))
               /\ \E R \in SUBSET W : Listed(b, R, resources)
    BY <2>9 DEF CoreInv, list
  <2> HIDE DEF a, b, size, U, W
  <2>10. CASE r.hidden \/ Len(a) >= MaxVisible
    <3>1. b = a
      BY <2>2, <2>10
    <3>2. Len(b) = IF MaxVisible < Cardinality(Visible(m + 1))
                   THEN MaxVisible ELSE Cardinality(Visible(m + 1))
      BY <1>1, <2>3, <2>5, <2>9, <2>10, <3>1
    <3>3. P \in SUBSET W
      BY <2>6
    <3>4. QED
      BY <2>4, <3>1, <3>2, <3>3
  <2>11. CASE ~r.hidden /\ ~(Len(a) >= MaxVisible)
    <3>1. b = Append(a, r) /\ Len(b) = Len(a) + 1
      BY <2>2, <2>11
    <3>2. Len(b) = IF MaxVisible < Cardinality(Visible(m + 1))
                   THEN MaxVisible ELSE Cardinality(Visible(m + 1))
      BY <1>1, <2>3, <2>5, <2>9, <2>11, <3>1
    <3>3. P \cup {m + 1} \in SUBSET W
      BY <2>6, <2>11
    <3>4. Listed(b, P \cup {m + 1}, resources)
      <4>1. P \subseteq Nat /\ \A o \in P : o < m + 1
        BY <2>1 DEF U
      <4>2. a \in Seq(ToSet(resources)) /\ resources[m + 1] \in ToSet(resources)
        BY <2>2
      <4> HIDE DEF S, r
      <4>3. Listed(Append(a, resources[m + 1]), P \cup {m + 1}, resources)
        BY <2>1, <2>4, <4>1, <4>2, ListedLemma
      <4>4. QED
        BY <3>1, <4>3 DEF r
    <3>5. QED
      BY <3>2, <3>3, <3>4
  <2>12. QED
    BY <2>10, <2>11
<1>5. 0..N \subseteq Q
  <2> HIDE DEF Q
  <2>1. QED
    BY <1>1, <1>3, <1>4, WalkInduction
<1>6. QED
  BY <1>5 DEF N

-----------------------------------------------------------------------------
(* The properties.                                                          *)

(* Why a request is refused, and with which code.                           *)
LEMMA RefusalLemma ==
  ASSUME NEW req, Refusal(req) # "0"
  PROVE  /\ Refusal(req) \in {"ENODEV", "ENOSYS", "EMSGSIZE", "EINVAL"}
         /\ send_error(Refusal(req)).code \in {"4.00", "4.04", "4.05", "4.13"}
<1>1. Refusal(req) \in {"ENODEV", "ENOSYS", "EMSGSIZE", "EINVAL"}
  BY DEF Refusal, resolve
<1>2. \A rc \in {"ENODEV", "ENOSYS", "EMSGSIZE", "EINVAL"} :
        send_error(rc).code \in {"4.00", "4.04", "4.05", "4.13"}
  BY DEF send_error, Answer, map_return_code
<1>3. QED
  BY <1>1, <1>2

(* What an answer to a command that was dispatched says of the envelope.    *)
LEMMA ReplyLemma ==
  ASSUME NEW req, NEW env \in Env
  PROVE  LET ans == Reply(req, env) IN
         /\ ans = NULL =>
              env.err = "0" /\ env.return_code = "0" /\ env.resp = "large"
         /\ ans # NULL =>
              /\ ans.code \in {"2.04", "2.05"} =>
                   env.err = "0" /\ env.return_code = "0"
              /\ ans.errno \notin {"0", "EBUSY", "ENOMEM"} =>
                   env.err = "0" /\ ans.errno = env.return_code
<1> DEFINE ans == Reply(req, env)
<1>0. env.return_code \in Codes /\ "0" \in Codes
  BY DEF Env, Codes
<1>1. /\ send_error("EBUSY").code = "5.03"
      /\ send_error("EBUSY").errno = "EBUSY"
      /\ send_error("ENOMEM").code = "5.00"
      /\ send_error("ENOMEM").errno = "ENOMEM"
  BY DEF send_error, Answer, map_return_code
<1>2. \A rc : /\ send_error(rc).errno = rc
              /\ rc # "0" => send_error(rc).code \notin {"2.04", "2.05"}
  BY DEF send_error, Answer, map_return_code
<1>3. \A rc \in Codes \cup {"EBUSY", "ENOMEM"} : send_error(rc) # NULL
  BY AnswerAssumption DEF send_error
<1>4. CASE env.err # "0"
  BY <1>1, <1>3, <1>4 DEF Reply
<1>5. CASE env.err = "0" /\ env.return_code # "0"
  BY <1>0, <1>2, <1>3, <1>5 DEF Reply
<1>6. CASE env.err = "0" /\ env.return_code = "0"
  <2>1. \/ ans = send_error("0")
        \/ ans = send_error("ENOMEM")
        \/ ans = NULL /\ env.resp = "large"
        \/ ans = Answer("0", TRUE, <<>>)
    BY <1>6 DEF Reply, send_payload
  <2>2. Answer("0", TRUE, <<>>) # NULL /\ Answer("0", TRUE, <<>>).errno = "0"
    BY <1>0, AnswerAssumption DEF Answer
  <2>3. QED
    BY <1>0, <1>1, <1>2, <1>3, <1>6, <2>1, <2>2
<1>7. QED
  BY <1>4, <1>5, <1>6

\* A peer is told of success only after the handler of the command it named
\* ran for its request and returned 0, is told of the frontend's own refusal
\* only if nothing ran, and gets the handler's own error otherwise; it gets
\* no answer only if the response was too large.
THEOREM CoapTruthfulAlways == Spec => []CoapTruthful
<1>1. FrontendInv => CoapTruthful
  <2> SUFFICES ASSUME FrontendInv, coap.st = "answered",
                      coap.req.kind \in {"post", "get"}
               PROVE  CoapTruthful
    BY DEF CoapTruthful
  <2>1. CASE CoapRefused
    BY <2>1, RefusalLemma DEF CoapRefused, CoapTruthful
  <2>2. CASE CoapReplied
    <3> DEFINE req == coap.req
               env == coap.env
               ans == coap.answer
    <3>1. /\ env \in Env /\ env # NULL /\ ans = Reply(req, env)
          /\ env.z = req.inst /\ env.method_id = Command(req).id
          /\ IF env.err # "0" THEN env.ran = 0 ELSE Served(env)
          /\ req \in Requests /\ req.kind = "post" /\ Refusal(req) = "0"
      BY <2>2, EnvelopeAssumption DEF CoapReplied, Back
    <3> HIDE DEF req, env, ans
    <3>2. HasHandler(env.z, env.method_id)
      BY <3>1, CallsAssumption, TableAssumption
         DEF HasHandler, InTable, Row
    <3>3. env.err = "0" => env.ran = 1
      BY <3>1, <3>2 DEF Served
    <3>4. /\ ans = NULL => env.ran = 1 /\ env.resp = "large"
          /\ ans # NULL /\ ans.code \in {"2.04", "2.05"} =>
               env.ran = 1 /\ env.return_code = "0"
          /\ ans # NULL /\ ans.errno \notin {"0", "EBUSY", "ENOMEM"} =>
               env.ran = 1 /\ ans.errno = env.return_code
      BY <3>1, <3>3, ReplyLemma
    <3>5. QED
      BY <3>1, <3>4 DEF CoapTruthful, req, env, ans
  <2>3. QED
    BY <2>1, <2>2
       DEF FrontendInv, CoapInv, CoapIdle, CoapCalled, CoapDiscovered
<1>2. QED
  BY <1>1, AlwaysFrontendInv, PTL

\* The generated handler of a POST decides and answers as the tested
\* translation helpers would, but for a response too large for the packet.
THEOREM CoapMirrorsAlways == Spec => []CoapMirrorsHelpers
<1>1. FrontendInv => CoapMirrorsHelpers
  <2> DEFINE req == coap.req
             env == coap.env
             m   == Command(req)
  <2> SUFFICES ASSUME FrontendInv, coap.st = "answered", req.kind = "post",
                      resolve(req) = "0", HasCommand(req)
               PROVE  IF decode_request(m, req) # "0"
                      THEN coap.answer = send_error(decode_request(m, req))
                      ELSE /\ env # NULL
                           /\ env.err = "0" /\ coap.answer # NULL =>
                                coap.answer = encode_response(m, env)
    BY DEF CoapMirrorsHelpers
  <2>1. Refusal(req) = decode_request(m, req)
    BY DEF Refusal, decode_request
  <2>2. CASE CoapRefused
    BY <2>1, <2>2 DEF CoapRefused
  <2>3. CASE CoapReplied
    <3>1. env # NULL /\ Refusal(req) = "0" /\ coap.answer = Reply(req, env)
      BY <2>3, EnvelopeAssumption DEF CoapReplied, Back
    <3>2. env.err = "0" /\ coap.answer # NULL =>
            coap.answer = encode_response(m, env)
      <4> HIDE DEF env, req
      <4>1. CASE env.return_code # "0"
        BY <3>1, <4>1 DEF Reply, encode_response, send_error
      <4>2. CASE env.return_code = "0" /\ ~m.resp
        BY <3>1, <4>2
           DEF Reply, encode_response, send_payload, send_error
      <4>3. CASE env.return_code = "0" /\ m.resp
        BY <3>1, <4>3
           DEF Reply, encode_response, send_payload, send_error
      <4>4. QED
        BY <4>1, <4>2, <4>3
    <3>3. QED
      BY <2>1, <3>1, <3>2
  <2>4. QED
    BY <2>2, <2>3
       DEF FrontendInv, CoapInv, CoapIdle, CoapCalled, CoapDiscovered
<1>2. QED
  BY <1>1, AlwaysFrontendInv, PTL

\* A list of instances is whole, or 4.13 exactly if its text has no room in
\* the buffer, or not sent exactly if only the packet has none for it;
\* /.well-known/core lists every visible resource up to its cap and no hidden
\* one, each once, or is not sent exactly if the links do not fit: for any
\* section, any names, any requests, any buffer and cap.
THEOREM DiscoveryWholeAlways == Spec => []DiscoveryWhole
<1>1. ASSUME FrontendInv, coap.st = "answered", coap.req.kind = "instances"
      PROVE  LET req == coap.req  ans == coap.answer IN
             IF Room(req.type)[Len(registry)] > BufSize
             THEN ans # NULL /\ ans.code = "4.13"
             ELSE IF Room(req.type)[Len(registry)] > req.room + 1
             THEN ans = NULL
             ELSE /\ ans # NULL /\ ans.code # "4.13"
                  /\ ToSet(ans.list) = {z \in ToSet(registry) : api[z] = req.type}
                  /\ Ordered(ans.list, registry)
  <2> DEFINE req == coap.req
             ty == coap.req.type
             N == Len(registry)
             text == InstanceList(ty)
             size == Room(ty)[N]
             room == coap.req.room
             ans == coap.answer
  <2>1. coap.answer = InstancesGet(req) /\ req \in Requests
    BY <1>1 DEF FrontendInv, CoapInv, CoapIdle, CoapCalled, CoapRefused,
                CoapReplied, CoapDiscovered
  <2>2. N \in Nat /\ N \in 0..N /\ registry \in Seq(Insts)
    BY SectionAssumption
  <2>3. TextInv(ty, N)
    BY <2>2, TextLemma
  <2>4. IF text.over THEN size > BufSize
        ELSE /\ Listed(text.list, Mine(ty, N), registry)
             /\ IF text.list = <<>> THEN text.off = 0 /\ size = 0
                ELSE text.off = size - 1 /\ text.off > 0 /\ text.off < BufSize
    BY <2>3 DEF TextInv, InstanceList
  <2>5. size \in Nat /\ room \in Nat /\ BufSize \in Nat
    BY <2>1, <2>2, RoomWalkLemma, CoapAssumption
  <2>6. ans = IF text.over THEN send_error("E2BIG")
              ELSE IF text.off = 0 THEN send_error("0")
              ELSE IF text.off > room THEN NULL
              ELSE Answer("0", TRUE, text.list)
    <3> HIDE DEF text, req
    <3>1. coap.answer = IF text.over THEN send_error("E2BIG")
                        ELSE send_payload(Payload(text.off, req), text.list)
      BY <2>1 DEF InstancesGet, text, req
    <3>2. QED
      BY <3>1 DEF send_payload, Payload, req
  <2>7. /\ send_error("E2BIG").code = "4.13" /\ send_error("E2BIG") # NULL
        /\ send_error("0").code = "2.04" /\ send_error("0").list = <<>>
        /\ send_error("0") # NULL
    <3>1. /\ {"E2BIG", "0"} \subseteq Codes \cup {"EBUSY", "ENOMEM", "E2BIG"}
          /\ FALSE \in BOOLEAN
      BY DEF Codes
    <3>2. send_error("E2BIG") # NULL /\ send_error("0") # NULL
      BY <3>1, AnswerAssumption DEF send_error
    <3>3. /\ send_error("E2BIG").code = "4.13"
          /\ send_error("0").code = "2.04" /\ send_error("0").list = <<>>
      BY DEF send_error, Answer, map_return_code
    <3>4. QED
      BY <3>2, <3>3
  <2>8. /\ Answer("0", TRUE, text.list).code = "2.05"
        /\ Answer("0", TRUE, text.list).list = text.list
        /\ Answer("0", TRUE, text.list) # NULL
    <3>1. Answer("0", TRUE, text.list) # NULL
      BY <1>1, <2>1, ListAssumption
    <3> HIDE DEF text
    <3>2. QED
      BY <3>1 DEF Answer, map_return_code
  <2>9. Mine(ty, N) \subseteq 1..N
        /\ {registry[m] : m \in Mine(ty, N)} = {z \in ToSet(registry) : api[z] = ty}
    BY <2>2 DEF Mine, ToSet
  <2> HIDE DEF text, ans, ty, size, room, N
  <2>10. CASE size > BufSize
    <3>1. text.over
      BY <2>4, <2>5, <2>10
    <3>2. QED
      BY <2>6, <2>7, <2>10, <3>1 DEF ans, ty, size, N
  <2>11. CASE ~(size > BufSize) /\ size > room + 1
    <3>1. ~text.over /\ text.off # 0 /\ text.off > room
      BY <2>4, <2>5, <2>11
    <3>2. QED
      BY <2>6, <2>11, <3>1 DEF ans, ty, size, room, N
  <2>12. CASE ~(size > BufSize) /\ ~(size > room + 1)
    <3>1. /\ ~text.over /\ ~(text.off > room)
          /\ text.off = 0 => text.list = <<>>
      BY <2>4, <2>5, <2>12
    <3>2. ans # NULL /\ ans.code # "4.13" /\ ans.list = text.list
      BY <2>6, <2>7, <2>8, <3>1
    <3>3. ToSet(ans.list) = {z \in ToSet(registry) : api[z] = ty}
      BY <2>4, <2>9, <3>1, <3>2 DEF Listed
    <3>4. Ordered(ans.list, registry)
      BY <2>4, <2>9, <3>1, <3>2, OrderedLemma DEF N
    <3>5. QED
      BY <2>12, <3>2, <3>3, <3>4 DEF ans, ty, size, room, N
  <2>13. QED
    BY <2>10, <2>11, <2>12
<1>2. ASSUME FrontendInv, coap.st = "answered", coap.req.kind = "core"
      PROVE  LET visible == {r \in ToSet(resources) : ~r.hidden}
                 ans == coap.answer
             IN  IF Links(CoreList) > coap.req.room THEN ans = NULL
                 ELSE /\ ans # NULL
                      /\ ToSet(ans.list) \subseteq visible
                      /\ Len(ans.list) = IF MaxVisible < Cardinality(visible)
                                         THEN MaxVisible
                                         ELSE Cardinality(visible)
                      /\ Ordered(ans.list, resources)
  <2> DEFINE N == Len(resources)
             list == CoreWalk[N]
             W == {o \in 1..N : ~resources[o].hidden}
  <2>1. coap.answer = WellKnownCoreGet(coap.req)
    BY <1>2 DEF FrontendInv, CoapInv, CoapIdle, CoapCalled, CoapRefused,
                CoapReplied, CoapDiscovered
  <2>2. CoreAnswer.list = list /\ CoreAnswer # NULL
    BY ListAssumption DEF CoreAnswer, CoreList
  <2>3. N \in Nat /\ N \in 0..N /\ resources \in Seq(ToSet(resources))
    BY SectionAssumption
  <2>4. CoreInv(N)
    BY <2>3, CoreLemma
  <2>5. Visible(N) = {r \in ToSet(resources) : ~r.hidden}
    BY <2>3 DEF Visible, ToSet
  <2>6. PICK P \in SUBSET W : Listed(list, P, resources)
    BY <2>4 DEF CoreInv
  <2>7. Len(list) = IF MaxVisible < Cardinality(Visible(N))
                    THEN MaxVisible ELSE Cardinality(Visible(N))
    BY <2>4 DEF CoreInv
  <2>8. {resources[o] : o \in W} = Visible(N)
    BY DEF Visible
  <2> HIDE DEF list
  <2>9. ToSet(list) \subseteq Visible(N)
    BY <2>6, <2>8 DEF Listed
  <2>10. Ordered(list, resources)
    BY <2>6, OrderedLemma
  <2>11. CASE Links(CoreList) > coap.req.room
    BY <2>1, <2>11 DEF WellKnownCoreGet
  <2>12. CASE ~(Links(CoreList) > coap.req.room)
    <3>1. coap.answer = CoreAnswer
      BY <2>1, <2>12 DEF WellKnownCoreGet
    <3>2. QED
      BY <2>2, <2>5, <2>7, <2>9, <2>10, <2>12, <3>1
  <2>13. QED
    BY <2>11, <2>12
<1>3. FrontendInv => DiscoveryWhole
  BY <1>1, <1>2 DEF DiscoveryWhole
<1>4. QED
  BY <1>3, AlwaysFrontendInv, PTL

\* A line of the shell tells what happened to its own command: 0 only after
\* its handler ran once and returned 0.
THEOREM ShellTruthfulAlways == Spec => []ShellTruthful
<1>1. FrontendInv => ShellTruthful
  <2> SUFFICES ASSUME FrontendInv, shell.st # "idle", shell.st # "called"
               PROVE  ShellTruthful
    BY DEF ShellTruthful
  <2>1. shell.st \in {"done"} \cup Printing
    BY DEF FrontendInv, ShellInv, ShellTyped
  <2>2. CASE shell.env = NULL
    BY <2>1, <2>2 DEF FrontendInv, ShellInv, CallInv, ShellTruthful
  <2>3. CASE shell.env # NULL
    <3>1. /\ Back(shell.env, shell.line.z, Shape(shell.line).id)
          /\ shell.rc = Result(shell.env)
      BY <2>1, <2>3 DEF FrontendInv, ShellInv, CallInv
    <3>2. shell.shown # {} => shell.rc = "0"
      BY DEF FrontendInv, ShellInv, PrintInv
    <3>3. QED
      BY <2>3, <3>1, <3>2 DEF ShellTruthful, Back, Result, Served
  <2>4. QED
    BY <2>2, <2>3
<1>2. QED
  BY <1>1, AlwaysFrontendInv, PTL

\* A response is shown in the form selected when its printing began, unless
\* another backend changed the form meanwhile.
THEOREM PrintedInFormAlways == Spec => []PrintedInForm
<1>1. FrontendInv => PrintedInForm
  BY DEF FrontendInv, ShellInv, PrintInv, PrintedInForm, Whole
<1>2. QED
  BY <1>1, AlwaysFrontendInv, PTL

-----------------------------------------------------------------------------
(* The channels keep the promise of CommandService.  What it needs beyond   *)
(* the invariant: who waits waits for somebody, a semaphore that is taken   *)
(* is with a publish, and nothing is in an answer before it is given.       *)

Fresh(e) ==
  e.pc \notin {"give", "ret"} \/ e.err # "0" =>
    e.return_code = "0" /\ e.resp = "none"

\* Some publish but that of thread t at depth n has the semaphore of z.
HasIt(C, z, t, n) ==
  \E u \in Threads : \E d \in 1..Len(C[u]) :
    /\ u # t \/ d # n
    /\ C[u][d].pc \in Section /\ C[u][d].z = z

\* What holds of the publish of thread t at depth d with the envelope e.
Placed(C, H, t, d, e) ==
  /\ Fresh(e)
  /\ d < Len(C[t]) => e.pc = "handler"
  /\ e.pc = "wait" => H[e.z] # NULL

Sound(C, H) ==
  /\ \A t \in Threads : \A d \in 1..Len(C[t]) : Placed(C, H, t, d, C[t][d])
  /\ \A z \in Insts : H[z] # NULL =>
       \E t \in Threads : \E d \in 1..Len(C[t]) :
         C[t][d].pc \in Section /\ C[t][d].z = z

SoundInv == Sound(calls, holder)

\* What makes the exchange of the innermost envelope of thread t one that
\* leaves nobody to wait for nothing.
Orderly(C, H, t, n, f, H2) ==
  /\ t \in Threads /\ n \in 1..Len(C[t]) /\ n = Len(C[t])
  /\ f.z = C[t][n].z
  /\ Fresh(f)
  /\ \A z \in Insts \ {f.z} : H2[z] = H[z]
  /\ f.pc = "wait" => H2[f.z] # NULL
  /\ H2[f.z] # NULL =>
       \/ f.pc \in Section
       \/ HasIt(C, f.z, t, n)
       \/ H2 = H /\ C[t][n].pc \notin Section
  /\ \/ H2[f.z] # NULL
     \/ H2 = H
     \/ \A u \in Threads : \A d \in 1..Len(C[u]) :
          C[u][d].pc = "wait" => C[u][d].z # f.z

(* The exchange of one envelope.                                            *)
LEMMA OrderlyLemma ==
  ASSUME NEW C \in [Threads -> Seq(Env)], NEW H, Sound(C, H),
         NEW t, NEW n, NEW f \in Env, NEW H2, Orderly(C, H, t, n, f, H2)
  PROVE  Sound(Exchange(C, t, n, f), H2)
<1> DEFINE D == Exchange(C, t, n, f)
<1>0. /\ t \in Threads /\ n \in 1..Len(C[t]) /\ n = Len(C[t])
      /\ f.z = C[t][n].z
      /\ Fresh(f)
      /\ \A z \in Insts \ {f.z} : H2[z] = H[z]
      /\ f.pc = "wait" => H2[f.z] # NULL
      /\ H2[f.z] # NULL =>
           \/ f.pc \in Section
           \/ HasIt(C, f.z, t, n)
           \/ H2 = H /\ C[t][n].pc \notin Section
      /\ \/ H2[f.z] # NULL
         \/ H2 = H
         \/ \A u \in Threads : \A d \in 1..Len(C[u]) :
              C[u][d].pc = "wait" => C[u][d].z # f.z
  BY DEF Orderly
<1>1. C[t] \in Seq(Env) /\ Len(C[t]) \in Nat
  BY <1>0
<1>2. /\ \A u \in Threads : Len(D[u]) = Len(C[u])
      /\ D[t][n] = f
      /\ \A u \in Threads : \A d \in 1..Len(C[u]) :
           u # t \/ d # n => D[u][d] = C[u][d]
  BY <1>0, <1>1, ExceptSeq DEF Exchange
<1> HIDE DEF D
<1>3. \A u \in Threads : \A d \in 1..Len(C[u]) : C[u][d].z \in Insts
  <2>1. \A u \in Threads : \A d \in 1..Len(C[u]) : C[u][d] \in Env
    OBVIOUS
  <2>2. QED
    BY <2>1 DEF Env
<1>4. /\ \A u \in Threads : \A d \in 1..Len(C[u]) : Placed(C, H, u, d, C[u][d])
      /\ \A z \in Insts : H[z] # NULL =>
           \E u \in Threads : \E d \in 1..Len(C[u]) :
             C[u][d].pc \in Section /\ C[u][d].z = z
  BY DEF Sound
<1>5. ASSUME NEW u \in Threads, NEW d \in 1..Len(D[u])
      PROVE  Placed(D, H2, u, d, D[u][d])
  <2>1. d \in 1..Len(C[u]) /\ Len(D[u]) = Len(C[u])
    BY <1>2
  <2>2. CASE u = t /\ d = n
    BY <1>0, <1>2, <2>1, <2>2 DEF Placed
  <2>3. CASE u # t \/ d # n
    <3>1. /\ D[u][d] = C[u][d] /\ C[u][d].z \in Insts
          /\ Placed(C, H, u, d, C[u][d])
      BY <1>2, <1>3, <1>4, <2>1, <2>3
    <3>2. C[u][d].pc = "wait" => H2[C[u][d].z] # NULL
      BY <1>0, <2>1, <3>1 DEF Placed
    <3>3. QED
      BY <2>1, <3>1, <3>2 DEF Placed
  <2>4. QED
    BY <2>2, <2>3
<1>6. ASSUME NEW z \in Insts, H2[z] # NULL
      PROVE  \E u \in Threads : \E d \in 1..Len(D[u]) :
               D[u][d].pc \in Section /\ D[u][d].z = z
  <2>1. SUFFICES ASSUME ~(z = f.z /\ f.pc \in Section)
                 PROVE  HasIt(C, z, t, n)
    <3>1. CASE z = f.z /\ f.pc \in Section
      BY <1>0, <1>2, <3>1
    <3>2. CASE HasIt(C, z, t, n)
      BY <1>2, <3>2 DEF HasIt
    <3>3. QED
      BY <2>1, <3>1, <3>2
  <2>2. CASE z # f.z
    <3>1. H[z] # NULL
      BY <1>0, <1>6, <2>2
    <3>2. \E u \in Threads : \E d \in 1..Len(C[u]) :
            C[u][d].pc \in Section /\ C[u][d].z = z
      BY <1>4, <3>1
    <3>3. \A u \in Threads : \A d \in 1..Len(C[u]) :
            C[u][d].z = z => u # t \/ d # n
      BY <1>0, <2>2
    <3>4. QED
      BY <3>2, <3>3 DEF HasIt
  <2>3. CASE z = f.z
    <3>1. HasIt(C, f.z, t, n) \/ (H[z] # NULL /\ C[t][n].pc \notin Section)
      BY <1>0, <1>6, <2>1, <2>3
    <3>2. CASE H[z] # NULL /\ C[t][n].pc \notin Section
      <4>1. \E u \in Threads : \E d \in 1..Len(C[u]) :
              C[u][d].pc \in Section /\ C[u][d].z = z
        BY <1>4, <3>2
      <4>2. \A u \in Threads : \A d \in 1..Len(C[u]) :
              C[u][d].pc \in Section => u # t \/ d # n
        BY <3>2
      <4>3. QED
        BY <4>1, <4>2 DEF HasIt
    <3>3. QED
      BY <2>3, <3>1, <3>2
  <2>4. QED
    BY <2>2, <2>3
<1>7. QED
  BY <1>5, <1>6 DEF Sound, D

(* A thread that is outside any publish, or in a handler, begins one.       *)
LEMMA SoundPush ==
  ASSUME NEW C \in [Threads -> Seq(Env)], NEW H, Sound(C, H),
         NEW t \in Threads, NEW e \in Env, e.pc = "take", Fresh(e),
         Len(C[t]) > 0 => C[t][Len(C[t])].pc = "handler"
  PROVE  Sound([C EXCEPT ![t] = Append(@, e)], H)
<1> DEFINE D == [C EXCEPT ![t] = Append(@, e)]
<1>1. C[t] \in Seq(Env) /\ Len(C[t]) \in Nat
  OBVIOUS
<1>2. /\ Len(D[t]) = Len(C[t]) + 1
      /\ D[t][Len(C[t]) + 1] = e
      /\ \A d \in 1..Len(C[t]) : D[t][d] = C[t][d]
      /\ \A u \in Threads \ {t} : D[u] = C[u]
  BY <1>1
<1> HIDE DEF D
<1>3. /\ \A u \in Threads : \A d \in 1..Len(C[u]) : Placed(C, H, u, d, C[u][d])
      /\ \A z \in Insts : H[z] # NULL =>
           \E u \in Threads : \E d \in 1..Len(C[u]) :
             C[u][d].pc \in Section /\ C[u][d].z = z
  BY DEF Sound
<1>4. ASSUME NEW u \in Threads, NEW d \in 1..Len(D[u])
      PROVE  Placed(D, H, u, d, D[u][d])
  <2>1. CASE u # t
    BY <1>2, <1>3, <2>1 DEF Placed
  <2>2. CASE u = t /\ d = Len(C[t]) + 1
    BY <1>2, <2>2 DEF Placed
  <2>3. CASE u = t /\ d \in 1..Len(C[t])
    <3>1. D[u][d] = C[t][d] /\ Placed(C, H, t, d, C[t][d])
      BY <1>2, <1>3, <2>3
    <3>2. C[t][d].pc = "handler" \/ d < Len(C[t]) \/ d = Len(C[t])
      BY <1>1, <2>3
    <3>3. C[t][d].pc = "handler"
      BY <1>1, <2>3, <3>1, <3>2 DEF Placed
    <3>4. QED
      BY <2>3, <3>1, <3>3 DEF Placed
  <2>4. QED
    BY <1>1, <1>2, <2>1, <2>2, <2>3
<1>5. \A u \in Threads : \A d \in 1..Len(C[u]) :
        d \in 1..Len(D[u]) /\ D[u][d] = C[u][d]
  BY <1>1, <1>2
<1>6. ASSUME NEW z \in Insts, H[z] # NULL
      PROVE  \E u \in Threads : \E d \in 1..Len(D[u]) :
               D[u][d].pc \in Section /\ D[u][d].z = z
  <2>1. PICK u \in Threads : \E d \in 1..Len(C[u]) :
          C[u][d].pc \in Section /\ C[u][d].z = z
    BY <1>3, <1>6
  <2>2. QED
    BY <1>5, <2>1
<1>7. Sound(D, H)
  BY <1>4, <1>6 DEF Sound
<1>8. QED
  BY <1>7 DEF D

(* A wrapper returns that is not in the section of the semaphore.           *)
LEMMA SoundPop ==
  ASSUME NEW C \in [Threads -> Seq(Env)], NEW H, Sound(C, H),
         NEW t \in Threads, Len(C[t]) > 0,
         C[t][Len(C[t])].pc \notin Section
  PROVE  Sound([C EXCEPT ![t] = SubSeq(@, 1, Len(C[t]) - 1)], H)
<1> DEFINE D == [C EXCEPT ![t] = SubSeq(@, 1, Len(C[t]) - 1)]
<1>1. C[t] \in Seq(Env) /\ Len(C[t]) \in Nat
  OBVIOUS
<1>2. /\ Len(D[t]) = Len(C[t]) - 1
      /\ \A d \in 1..(Len(C[t]) - 1) : D[t][d] = C[t][d]
      /\ \A u \in Threads \ {t} : D[u] = C[u]
  <2> DEFINE s == C[t]
             n == Len(C[t]) - 1
  <2>1. s \in Seq(Env) /\ n \in Nat /\ n = Len(s) - 1
    BY <1>1
  <2>2. D[t] = SubSeq(s, 1, n) /\ \A u \in Threads \ {t} : D[u] = C[u]
    OBVIOUS
  <2> HIDE DEF s, n, D
  <2>3. Len(SubSeq(s, 1, n)) = n /\ \A d \in 1..n : SubSeq(s, 1, n)[d] = s[d]
    BY <2>1
  <2>4. QED
    BY <2>2, <2>3 DEF s, n
<1> HIDE DEF D
<1>3. /\ \A u \in Threads : \A d \in 1..Len(C[u]) : Placed(C, H, u, d, C[u][d])
      /\ \A z \in Insts : H[z] # NULL =>
           \E u \in Threads : \E d \in 1..Len(C[u]) :
             C[u][d].pc \in Section /\ C[u][d].z = z
  BY DEF Sound
<1>4. ASSUME NEW u \in Threads, NEW d \in 1..Len(D[u])
      PROVE  Placed(D, H, u, d, D[u][d])
  <2>1. /\ D[u][d] = C[u][d] /\ d \in 1..Len(C[u])
        /\ d < Len(D[u]) => d < Len(C[u])
    BY <1>1, <1>2
  <2>2. QED
    BY <1>3, <2>1 DEF Placed
<1>5. \A u \in Threads : \A d \in 1..Len(C[u]) :
        C[u][d].pc \in Section => d \in 1..Len(D[u]) /\ D[u][d] = C[u][d]
  BY <1>1, <1>2
<1>6. ASSUME NEW z \in Insts, H[z] # NULL
      PROVE  \E u \in Threads : \E d \in 1..Len(D[u]) :
               D[u][d].pc \in Section /\ D[u][d].z = z
  <2>1. PICK u \in Threads : \E d \in 1..Len(C[u]) :
          C[u][d].pc \in Section /\ C[u][d].z = z
    BY <1>3, <1>6
  <2>2. QED
    BY <1>5, <2>1
<1>7. Sound(D, H)
  BY <1>4, <1>6 DEF Sound
<1>8. QED
  BY <1>7 DEF D

(* What a caller sees of a publish.                                         *)
LEMMA SeenLemma ==
  ASSUME NEW e
  PROVE  /\ Seen(e).z = e.z /\ Seen(e).id = e.method_id
         /\ Seen(e).timeout = e.timeout
         /\ e.pc \in {"take", "wait", "store", "notify"} =>
              Seen(e).st = "pending" /\ Seen(e).answer = NULL
         /\ e.pc = "handler" => Seen(e).st = "served" /\ Seen(e).answer = NULL
         /\ e.pc \in {"give", "ret"} =>
              /\ Seen(e).st = "answered"
              /\ Seen(e).answer =
                   Service!Answer(e.err, e.return_code, e.resp, e.ran)
         /\ Seen(e) = [z |-> e.z, id |-> e.method_id, timeout |-> e.timeout,
                       st |-> Seen(e).st, answer |-> Seen(e).answer]
<1>1. CASE e.pc \in {"give", "ret"}
  BY <1>1 DEF Seen, Service!Answer
<1>2. CASE e.pc \notin {"give", "ret"}
  BY <1>2 DEF Seen
<1>3. QED
  BY <1>1, <1>2

(* An envelope that looks the same is not seen to be exchanged.             *)
LEMMA SameView ==
  ASSUME NEW C \in [Threads -> Seq(Env)], NEW t \in Threads,
         NEW n \in 1..Len(C[t]), NEW f \in Env, Seen(f) = Seen(C[t][n])
  PROVE  View(Exchange(C, t, n, f)) = View(C)
<1> DEFINE D == Exchange(C, t, n, f)
<1>1. C[t] \in Seq(Env)
  OBVIOUS
<1>2. /\ \A u \in Threads : Len(D[u]) = Len(C[u])
      /\ D[t][n] = f
      /\ \A u \in Threads : \A d \in 1..Len(C[u]) :
           u # t \/ d # n => D[u][d] = C[u][d]
  BY <1>1, ExceptSeq DEF Exchange
<1> HIDE DEF D
<1>3. \A u \in Threads : \A d \in 1..Len(C[u]) : Seen(D[u][d]) = Seen(C[u][d])
  BY <1>2
<1>4. \A u \in Threads : [d \in 1..Len(D[u]) |-> Seen(D[u][d])]
                           = [d \in 1..Len(C[u]) |-> Seen(C[u][d])]
  BY <1>2, <1>3
<1>5. QED
  BY <1>4 DEF View, D

(* The thread's innermost publish, with the same command, as it is seen.    *)
LEMMA ViewMove ==
  ASSUME IInv, NEW t \in Threads, Depth(t) > 0, NEW f \in Env,
         f.z = Top(t).z, f.method_id = Top(t).method_id,
         f.timeout = Top(t).timeout,
         calls' = Exchange(calls, t, Depth(t), f)
  PROVE  /\ Seen(f) = Seen(Top(t)) => View(calls') = View(calls)
         /\ Service!Becomes(t, Seen(f).st, Seen(f).answer)
<1> DEFINE n == Depth(t)
           V == View(calls)
           g == [Seen(Top(t)) EXCEPT !.st = Seen(f).st,
                                     !.answer = Seen(f).answer]
<1>1. /\ calls \in [Threads -> Seq(Env)] /\ n \in 1..Len(calls[t])
      /\ n = Len(calls[t]) /\ calls[t] \in Seq(Env) /\ Top(t) = calls[t][n]
  BY TopLemma DEF IInv, Good, Typed, Depth
<1>2. Seen(f) = g
  <2> DEFINE a == Seen(Top(t))
             b == Seen(f)
  <2>1. a = [z |-> Top(t).z, id |-> Top(t).method_id,
             timeout |-> Top(t).timeout, st |-> a.st, answer |-> a.answer]
    BY SeenLemma
  <2>2. b = [z |-> f.z, id |-> f.method_id,
             timeout |-> f.timeout, st |-> b.st, answer |-> b.answer]
    BY SeenLemma
  <2> DEFINE R(st, answer) ==
               [z |-> f.z, id |-> f.method_id, timeout |-> f.timeout,
                st |-> st, answer |-> answer]
             S(r, st, answer) == [r EXCEPT !.st = st, !.answer = answer]
  <2>3. a = R(a.st, a.answer) /\ b = R(b.st, b.answer)
    BY <2>1, <2>2
  <2>4. ASSUME NEW st, NEW answer, NEW st2, NEW answer2
        PROVE  S(R(st, answer), st2, answer2) = R(st2, answer2)
    <3>1. [R(st, answer) EXCEPT !.st = st2] = R(st2, answer)
      OBVIOUS
    <3>2. [R(st2, answer) EXCEPT !.answer = answer2] = R(st2, answer2)
      OBVIOUS
    <3> HIDE DEF R
    <3>3. QED
      BY <3>1, <3>2
  <2> HIDE DEF a, b, R, S
  <2>5. b = S(a, b.st, b.answer)
    BY <2>3, <2>4
  <2>6. QED
    BY <2>5 DEF a, b, S
<1> HIDE DEF g, n
<1>3. V = [u \in Threads |-> [d \in 1..Len(calls[u]) |-> Seen(calls[u][d])]]
  BY DEF View
<1>4. /\ V[t] = [d \in 1..Len(calls[t]) |-> Seen(calls[t][d])]
      /\ V[t][n] = Seen(Top(t))
      /\ Len(V[t]) = n
  BY <1>1, <1>3
<1>5. /\ \A u \in Threads : Len(calls'[u]) = Len(calls[u])
      /\ calls'[t][n] = f
      /\ \A u \in Threads : \A d \in 1..Len(calls[u]) :
           u # t \/ d # n => calls'[u][d] = calls[u][d]
  BY <1>1, ExceptSeq DEF Exchange, n
<1>6. View(calls') = [V EXCEPT ![t] = [@ EXCEPT ![n] = Seen(f)]]
  <2>1. View(calls') = [u \in Threads |->
                         [d \in 1..Len(calls'[u]) |-> Seen(calls'[u][d])]]
    BY DEF View
  <2> HIDE DEF V
  <2>2. ASSUME NEW u \in Threads
        PROVE  [d \in 1..Len(calls'[u]) |-> Seen(calls'[u][d])]
                 = IF u = t THEN [V[t] EXCEPT ![n] = Seen(f)] ELSE V[u]
    <3>1. CASE u = t
      <4>1. [V[t] EXCEPT ![n] = Seen(f)]
              = [d \in 1..Len(calls[t]) |-> IF d = n THEN Seen(f)
                                            ELSE Seen(calls[t][d])]
        BY <1>1, <1>4
      <4>2. QED
        BY <1>1, <1>5, <3>1, <4>1
    <3>2. CASE u # t
      BY <1>3, <1>5, <3>2
    <3>3. QED
      BY <3>1, <3>2
  <2>3. QED
    BY <1>3, <2>1, <2>2
<1> HIDE DEF V
<1>7. Seen(f) = Seen(Top(t)) => View(calls') = View(calls)
  BY <1>1, SameView DEF n
<1>8. View(calls') = [V EXCEPT ![t][Len(V[t])] =
                        [@ EXCEPT !.st = Seen(f).st, !.answer = Seen(f).answer]]
  BY <1>2, <1>4, <1>6 DEF g
<1>9. QED
  BY <1>7, <1>8 DEF V, Service!Becomes

(* What a caller sees of the innermost publish of a thread.                 *)
LEMMA ViewTop ==
  ASSUME IInv
  PROVE  /\ \A u \in Threads :
              /\ Len(View(calls)[u]) = Len(calls[u])
              /\ \A d \in 1..Len(calls[u]) :
                   View(calls)[u][d] = Seen(calls[u][d])
         /\ \A t \in Threads : Depth(t) > 0 =>
              /\ Service!Innermost(t) = Seen(Top(t))
              /\ \A st : Service!InState(t, st) <=> Seen(Top(t)).st = st
<1>1. \A u \in Threads : calls[u] \in Seq(Env) /\ Len(calls[u]) \in Nat
  BY DEF IInv, Good, Typed
<1>2. ASSUME NEW u \in Threads
      PROVE  /\ View(calls)[u] = [d \in 1..Len(calls[u]) |-> Seen(calls[u][d])]
             /\ Len(View(calls)[u]) = Len(calls[u])
  BY <1>1 DEF View
<1>3. ASSUME NEW t \in Threads, Depth(t) > 0
      PROVE  /\ Service!Innermost(t) = Seen(Top(t))
             /\ \A st : Service!InState(t, st) <=> Seen(Top(t)).st = st
  <2>1. Len(calls[t]) \in 1..Len(calls[t]) /\ Top(t) = calls[t][Len(calls[t])]
    BY <1>1, <1>3 DEF Depth, Top
  <2>2. Service!Innermost(t) = Seen(Top(t))
    <3> DEFINE s == View(calls)[t]
    <3>1. s = [d \in 1..Len(calls[t]) |-> Seen(calls[t][d])]
          /\ Len(s) = Len(calls[t])
      BY <1>2
    <3> HIDE DEF s
    <3>2. s[Len(s)] = Seen(Top(t))
      BY <2>1, <3>1
    <3>3. QED
      BY <3>2 DEF Service!Innermost, s
  <2>3. Len(View(calls)[t]) > 0
    BY <1>2, <1>3 DEF Depth
  <2>4. QED
    BY <2>2, <2>3 DEF Service!InState
<1>4. QED
  BY <1>2, <1>3

(* What the invariant says of the innermost publish of a thread.            *)
LEMMA TopSound ==
  ASSUME IInv, SoundInv, NEW t \in Threads, Depth(t) > 0
  PROVE  /\ Depth(t) = Len(calls[t]) /\ Depth(t) \in 1..Len(calls[t])
         /\ Top(t) = calls[t][Depth(t)] /\ Top(t) \in Env /\ Top(t).z \in Insts
         /\ Top(t).pc \in PCs
         /\ Fine(t, Depth(t), Top(t), holder, message)
         /\ Placed(calls, holder, t, Depth(t), Top(t))
         /\ calls \in [Threads -> Seq(Env)]
         /\ holder \in [Insts -> Threads \cup {NULL}]
<1>1. /\ Depth(t) \in 1..Len(calls[t]) /\ Top(t) = calls[t][Depth(t)]
      /\ Top(t) \in Env /\ Top(t).z \in Insts
      /\ Fine(t, Depth(t), Top(t), holder, message)
      /\ holder \in [Insts -> Threads \cup {NULL}]
  BY TopLemma
<1>2. Placed(calls, holder, t, Depth(t), Top(t))
  BY <1>1 DEF SoundInv, Sound
<1>3. Top(t).pc \in PCs
  BY <1>1 DEF Env
<1>4. QED
  BY <1>1, <1>2, <1>3 DEF IInv, Good, Typed, Depth

(* A step of the innermost publish of a thread.                             *)
LEMMA SoundMove ==
  ASSUME IInv, SoundInv, NEW t \in Threads, NEW f \in Env,
         calls' = Exchange(calls, t, Depth(t), f),
         Orderly(calls, holder, t, Depth(t), f, holder')
  PROVE  SoundInv'
<1>1. calls \in [Threads -> Seq(Env)]
  BY DEF IInv, Good, Typed
<1>2. Sound(Exchange(calls, t, Depth(t), f), holder')
  BY <1>1, OrderlyLemma DEF SoundInv
<1>3. QED
  BY <1>2 DEF SoundInv

(* Nobody sees a publish wait for the semaphore, take it, or store.         *)
LEMMA QuietStep ==
  ASSUME IInv, SoundInv, NEW t \in Threads,
         Take(t) \/ TakeWaits(t) \/ Store(t)
  PROVE  SoundInv' /\ View(calls') = View(calls)
<1> DEFINE e == Top(t)
           n == Depth(t)
<1>0. n > 0 /\ e.pc \in {"take", "store"}
  BY DEF Take, TakeWaits, Store, At
<1>1. /\ n = Len(calls[t]) /\ n \in 1..Len(calls[t]) /\ e = calls[t][n]
      /\ e \in Env /\ e.z \in Insts
      /\ Placed(calls, holder, t, n, e)
      /\ holder \in [Insts -> Threads \cup {NULL}]
  BY <1>0, TopSound
<1>2. \E pc \in {"store", "wait", "notify"} :
        /\ calls' = Exchange(calls, t, n, [e EXCEPT !.pc = pc])
        /\ \/ pc = "store" /\ holder' = [holder EXCEPT ![e.z] = t]
           \/ pc = "wait" /\ holder' = holder /\ e.pc = "take"
                /\ holder[e.z] # NULL
           \/ pc = "notify" /\ holder' = holder
  BY DEF Take, TakeWaits, Store, To, Top, Exchange, At
<1>3. PICK pc \in {"store", "wait", "notify"} :
        /\ calls' = Exchange(calls, t, n, [e EXCEPT !.pc = pc])
        /\ \/ pc = "store" /\ holder' = [holder EXCEPT ![e.z] = t]
           \/ pc = "wait" /\ holder' = holder /\ e.pc = "take"
                /\ holder[e.z] # NULL
           \/ pc = "notify" /\ holder' = holder
  BY <1>2
<1> DEFINE f == [e EXCEPT !.pc = pc]
<1> HIDE DEF e, n
<1>4. /\ f \in Env /\ f.pc = pc /\ f.z = e.z /\ f.method_id = e.method_id
      /\ f.timeout = e.timeout /\ f.err = e.err
      /\ f.return_code = e.return_code /\ f.resp = e.resp
  BY <1>1 DEF Env, PCs
<1>5. calls' = Exchange(calls, t, n, f)
  BY <1>3
<1> HIDE DEF f
<1>6. Fresh(f)
  BY <1>0, <1>1, <1>4 DEF Placed, Fresh
<1>7. Orderly(calls, holder, t, n, f, holder')
  BY <1>0, <1>1, <1>3, <1>4, <1>6, DispatchAssumption DEF Orderly, Section
<1>8. SoundInv'
  BY <1>4, <1>5, <1>7, SoundMove DEF n
<1>9. Seen(f) = Seen(e)
  BY <1>0, <1>4 DEF Seen
<1>10. QED
  BY <1>0, <1>4, <1>5, <1>8, <1>9, ViewMove DEF e, n

(* A publish is turned away only from a channel that somebody else has.     *)
LEMMA TurnAwayStep ==
  ASSUME IInv, SoundInv, NEW t \in Threads, TakeBusy(t) \/ TakeTimeout(t)
  PROVE  SoundInv' /\ Service!TurnAway(t)
<1> DEFINE e == Top(t)
           n == Depth(t)
<1>0. /\ n > 0 /\ e.pc \in {"take", "wait"} /\ holder' = holder
      /\ e.pc = "take" => holder[e.z] # NULL
  BY DEF TakeBusy, TakeTimeout, At
<1>1. /\ n = Len(calls[t]) /\ n \in 1..Len(calls[t]) /\ e = calls[t][n]
      /\ e \in Env /\ e.z \in Insts
      /\ Fine(t, n, e, holder, message)
      /\ Placed(calls, holder, t, n, e)
  BY <1>0, TopSound
<1>2. PICK err \in {"EBUSY", "EAGAIN"} :
        /\ calls' = [calls EXCEPT ![t][n].pc = "ret", ![t][n].err = err]
        /\ err = "EBUSY" => e.timeout = "none"
        /\ err = "EAGAIN" => e.timeout = "finite"
  BY DEF TakeBusy, TakeTimeout
<1> DEFINE f == [e EXCEPT !.pc = "ret", !.err = err]
<1>3. calls' = Exchange(calls, t, n, f)
  BY <1>1, <1>2 DEF Exchange
<1> HIDE DEF e, n
<1>4. /\ f \in Env /\ f.pc = "ret" /\ f.z = e.z /\ f.method_id = e.method_id
      /\ f.timeout = e.timeout /\ f.err = err
      /\ f.return_code = e.return_code /\ f.resp = e.resp /\ f.ran = e.ran
  BY <1>1 DEF Env, PCs
<1> HIDE DEF f
<1>5. e.return_code = "0" /\ e.resp = "none" /\ e.ran = 0 /\ Fresh(f)
  BY <1>0, <1>1, <1>4 DEF Placed, Fresh, Fine
<1>6. holder[e.z] # NULL
  BY <1>0, <1>1 DEF Placed
<1>7. HasIt(calls, e.z, t, n)
  <2>1. PICK u \in Threads : \E d \in 1..Len(calls[u]) :
          calls[u][d].pc \in Section /\ calls[u][d].z = e.z
    BY <1>1, <1>6 DEF SoundInv, Sound
  <2>2. e.pc \notin Section
    BY <1>0 DEF Section
  <2>3. QED
    BY <1>1, <2>1, <2>2 DEF HasIt
<1>8. Orderly(calls, holder, t, n, f, holder')
  BY <1>0, <1>1, <1>4, <1>5, <1>7 DEF Orderly
<1>9. SoundInv'
  BY <1>3, <1>4, <1>8, SoundMove DEF n
<1>10. Service!Becomes(t, Seen(f).st, Seen(f).answer)
  BY <1>0, <1>3, <1>4, ViewMove DEF e, n
<1>11. /\ Seen(f).st = "answered"
       /\ Seen(f).answer = Service!Answer(err, "0", "none", 0)
  BY <1>4, <1>5, SeenLemma
<1>12. /\ Service!InState(t, "pending")
       /\ Service!Innermost(t).timeout = e.timeout
       /\ Service!Innermost(t).z = e.z
  BY <1>0, ViewTop, SeenLemma DEF e, n
<1>13. Service!Contended(t)
  <2>1. \A u \in Threads : Len(View(calls)[u]) = Len(calls[u])
    BY ViewTop
  <2>2. \A u \in Threads : \A d \in 1..Len(calls[u]) :
          View(calls)[u][d].z = calls[u][d].z
    BY ViewTop, SeenLemma
  <2>3. QED
    BY <1>1, <1>7, <1>12, <2>1, <2>2 DEF HasIt, Service!Contended
<1>14. QED
  BY <1>2, <1>9, <1>10, <1>11, <1>12, <1>13 DEF Service!TurnAway

(* Nobody sees the semaphore given back, nor who has it next.               *)
LEMMA GiveStep ==
  ASSUME IInv, SoundInv, NEW t \in Threads, Give(t)
  PROVE  SoundInv' /\ View(calls') = View(calls)
<1> DEFINE e == Top(t)
           n == Depth(t)
           f == [e EXCEPT !.pc = "ret"]
           C == Exchange(calls, t, n, f)
<1>0. n > 0 /\ e.pc = "give"
  BY DEF Give, At
<1>1. /\ n = Len(calls[t]) /\ n \in 1..Len(calls[t]) /\ e = calls[t][n]
      /\ e \in Env /\ e.z \in Insts
      /\ Placed(calls, holder, t, n, e)
      /\ calls \in [Threads -> Seq(Env)]
      /\ holder \in [Insts -> Threads \cup {NULL}]
  BY <1>0, TopSound
<1>2. To(t, "ret") = C
  BY DEF To, Top, Exchange
<1>3. \/ /\ Waiters(e.z) = {}
         /\ holder' = [holder EXCEPT ![e.z] = NULL] /\ calls' = C
      \/ \E w \in Waiters(e.z) :
           /\ holder' = [holder EXCEPT ![e.z] = w]
           /\ calls' = [C EXCEPT ![w][Depth(w)].pc = "store"]
  BY <1>2 DEF Give
<1> HIDE DEF e, n
<1>4. /\ f \in Env /\ f.pc = "ret" /\ f.z = e.z /\ f.method_id = e.method_id
      /\ f.timeout = e.timeout /\ f.err = e.err /\ f.ran = e.ran
      /\ f.return_code = e.return_code /\ f.resp = e.resp
  BY <1>1 DEF Env, PCs
<1> HIDE DEF f, C
<1>5. Fresh(f) /\ Seen(f) = Seen(e)
  BY <1>0, <1>1, <1>4 DEF Placed, Fresh, Seen
<1>6. CASE /\ Waiters(e.z) = {}
           /\ holder' = [holder EXCEPT ![e.z] = NULL] /\ calls' = C
  <2>1. ASSUME NEW u \in Threads, NEW d \in 1..Len(calls[u]),
               calls[u][d].pc = "wait"
        PROVE  calls[u][d].z # e.z
    <3>1. ~(d < Len(calls[u])) /\ Len(calls[u]) \in Nat
      BY <1>1, <2>1 DEF SoundInv, Sound, Placed
    <3>2. d = Depth(u) /\ Depth(u) > 0 /\ calls[u][d] = Top(u)
      BY <3>1 DEF Depth, Top
    <3>3. QED
      BY <1>6, <2>1, <3>2 DEF Waiters, At
  <2>2. Orderly(calls, holder, t, n, f, holder')
    BY <1>1, <1>4, <1>5, <1>6, <2>1 DEF Orderly
  <2>3. calls' = Exchange(calls, t, n, f)
    BY <1>6 DEF C
  <2>4. SoundInv'
    BY <1>4, <2>2, <2>3, SoundMove DEF n
  <2>5. View(calls') = View(calls)
    BY <1>0, <1>4, <1>5, <2>3, ViewMove DEF e, n
  <2>6. QED
    BY <2>4, <2>5
<1>7. ASSUME NEW w \in Waiters(e.z), holder' = [holder EXCEPT ![e.z] = w],
             calls' = [C EXCEPT ![w][Depth(w)].pc = "store"]
      PROVE  SoundInv' /\ View(calls') = View(calls)
  <2> DEFINE a == Top(w)
             m == Depth(w)
             g == [a EXCEPT !.pc = "store"]
             D == Exchange(calls, w, m, g)
             H == holder'
  <2>1. /\ w \in Threads /\ m > 0 /\ a.pc = "wait" /\ a.z = e.z
    BY <1>7 DEF Waiters, At
  <2>2. w # t
    BY <1>0, <2>1 DEF e
  <2>3. /\ m = Len(calls[w]) /\ m \in 1..Len(calls[w]) /\ a = calls[w][m]
        /\ a \in Env /\ Placed(calls, holder, w, m, a)
    BY <2>1, TopSound
  <2>4. H[e.z] = w /\ \A z \in Insts \ {e.z} : H[z] = holder[z]
    BY <1>1, <1>7
  <2> HIDE DEF a, m, H
  <2>5. /\ g \in Env /\ g.pc = "store" /\ g.z = e.z /\ g.method_id = a.method_id
        /\ g.timeout = a.timeout /\ g.err = a.err
        /\ g.return_code = a.return_code /\ g.resp = a.resp
    BY <2>1, <2>3 DEF Env, PCs
  <2>6. calls' = Exchange(C, w, m, [C[w][m] EXCEPT !.pc = "store"])
    BY <1>7 DEF m, Exchange
  <2>7. C[w] = calls[w] /\ C[w][m] = a
    BY <1>1, <2>1, <2>2, <2>3 DEF C, Exchange
  <2>8. calls' = [C EXCEPT ![w] = [calls[w] EXCEPT ![m] = g]]
    <3>1. calls' = Exchange(C, w, m, g)
      BY <2>6, <2>7
    <3> HIDE DEF g
    <3>2. QED
      BY <2>7, <3>1 DEF Exchange
  <2> HIDE DEF g
  <2>9. calls' = Exchange(D, t, n, f)
    <3>1. [[calls EXCEPT ![t] = [calls[t] EXCEPT ![n] = f]]
             EXCEPT ![w] = [calls[w] EXCEPT ![m] = g]]
          = [[calls EXCEPT ![w] = [calls[w] EXCEPT ![m] = g]]
               EXCEPT ![t] = [calls[t] EXCEPT ![n] = f]]
      BY <1>1, <2>1, <2>2
    <3>2. D[t] = calls[t]
      BY <1>1, <2>1, <2>2 DEF Exchange
    <3>3. D = [calls EXCEPT ![w] = [calls[w] EXCEPT ![m] = g]]
      BY DEF Exchange
    <3>4. C = [calls EXCEPT ![t] = [calls[t] EXCEPT ![n] = f]]
      BY DEF C, Exchange
    <3>5. Exchange(D, t, n, f) = [D EXCEPT ![t] = [calls[t] EXCEPT ![n] = f]]
      BY <3>2 DEF Exchange
    <3> HIDE DEF D
    <3>6. QED
      BY <2>8, <3>1, <3>3, <3>4, <3>5
  <2>10. Fresh(g) /\ Seen(g) = Seen(a)
    BY <2>1, <2>3, <2>5 DEF Placed, Fresh, Seen
  <2>11. w # NULL
    BY <2>1, DispatchAssumption
  <2>12. Orderly(calls, holder, w, m, g, H)
    BY <2>1, <2>3, <2>4, <2>5, <2>10, <2>11 DEF Orderly, Section
  <2>13. Sound(D, H)
    BY <1>1, <2>5, <2>12, OrderlyLemma DEF SoundInv
  <2>14. /\ D \in [Threads -> Seq(Env)] /\ D[t] = calls[t]
         /\ D[w][m] = g /\ m \in 1..Len(D[w])
    <3>1. [calls[w] EXCEPT ![m] = g] \in Seq(Env)
          /\ Len([calls[w] EXCEPT ![m] = g]) = Len(calls[w])
      BY <1>1, <2>1, <2>3, <2>5, ExceptSeq
    <3>2. QED
      BY <1>1, <2>1, <2>2, <2>3, <3>1 DEF Exchange
  <2> HIDE DEF D
  <2>15. HasIt(D, e.z, t, n)
    BY <2>1, <2>2, <2>5, <2>14 DEF HasIt, Section
  <2>16. Orderly(D, H, t, n, f, H)
    BY <1>1, <1>4, <1>5, <2>4, <2>11, <2>14, <2>15 DEF Orderly
  <2>17. Sound(calls', H)
    BY <1>4, <2>9, <2>13, <2>14, <2>16, OrderlyLemma
  <2>18. SoundInv'
    BY <2>17 DEF SoundInv, H
  <2>19. View(D) = View(calls)
    BY <1>1, <2>1, <2>3, <2>5, <2>10, SameView DEF D
  <2>20. View(Exchange(D, t, n, f)) = View(D)
    <3>1. n \in 1..Len(D[t]) /\ Seen(f) = Seen(D[t][n])
      BY <1>1, <1>5, <2>14
    <3>2. QED
      BY <1>4, <2>14, <3>1, SameView
  <2>21. QED
    BY <2>9, <2>18, <2>19, <2>20
<1>8. QED
  BY <1>3, <1>6, <1>7

(* The listener starts the handler of an instance that runs none.           *)
LEMMA IdleLemma ==
  ASSUME IInv, NEW t \in Threads, Depth(t) > 0, Top(t).pc = "notify"
  PROVE  Service!Idle(Top(t).z)
<1> DEFINE e == Top(t)
           n == Depth(t)
<1>1. n \in 1..Len(calls[t]) /\ e = calls[t][n] /\ e.pc \in Section
  BY TopLemma DEF Section
<1>2. ASSUME NEW u \in Threads, NEW d \in 1..Len(calls[u]),
             Seen(calls[u][d]).st = "served"
      PROVE  Seen(calls[u][d]).z # e.z
  <2>1. calls[u][d].pc = "handler"
    BY <1>2 DEF Seen
  <2>2. calls[u][d].z # e.z
    BY <1>1, <2>1 DEF IInv, Good, Alone, Section
  <2>3. QED
    BY <2>2, SeenLemma
<1> HIDE DEF e
<1>3. QED
  BY <1>2, ViewTop DEF Service!Idle, e

(* The command of a publish that is being notified, as its caller sees it.  *)
LEMMA PendingLemma ==
  ASSUME IInv, NEW t \in Threads, Depth(t) > 0, Top(t).pc = "notify"
  PROVE  /\ Service!InState(t, "pending")
         /\ Service!Idle(Service!Innermost(t).z)
         /\ HasHandler(Top(t).z, Top(t).method_id) <=>
              Service!Innermost(t).id \in
                [z \in Insts |-> DOMAIN methods[api[z]] \ {0}]
                  [Service!Innermost(t).z]
<1>1. Service!Innermost(t) = Seen(Top(t)) /\ Service!InState(t, "pending")
  BY ViewTop, SeenLemma
<1>2. Top(t).z \in Insts
  BY TopLemma
<1>3. HasHandler(Top(t).z, Top(t).method_id)
        <=> Top(t).method_id \in DOMAIN methods[api[Top(t).z]] \ {0}
  BY <1>2, TableAssumption DEF HasHandler, InTable, Row
<1>4. /\ Service!Innermost(t).z = Top(t).z
      /\ Service!Innermost(t).id = Top(t).method_id
  BY <1>1, SeenLemma
<1>5. QED
  BY <1>1, <1>2, <1>3, <1>4, IdleLemma

(* The handler starts, or its outcome is in the envelope.                   *)
LEMMA DispatchStep ==
  ASSUME IInv, SoundInv, NEW t \in Threads,
         Notify(t) \/ NotifyNoHandler(t) \/ HandlerReturns(t)
  PROVE  /\ SoundInv'
         /\ Service!Serve(t) \/ Service!NoSuchMethod(t) \/ Service!Finish(t)
<1> DEFINE e == Top(t)
           n == Depth(t)
<1>0. n > 0 /\ e.pc \in {"notify", "handler"} /\ holder' = holder
  BY DEF Notify, NotifyNoHandler, HandlerReturns, At
<1>1. /\ n = Len(calls[t]) /\ n \in 1..Len(calls[t]) /\ e = calls[t][n]
      /\ e \in Env /\ e.z \in Insts /\ Len(calls[t]) \in Nat
      /\ Fine(t, n, e, holder, message)
      /\ Placed(calls, holder, t, n, e)
  BY <1>0, TopSound
<1>2. /\ e.pc \in Section /\ e.err = "0" /\ e.ran = 0
      /\ e.return_code = "0" /\ e.resp = "none"
  BY <1>0, <1>1 DEF Section, Placed, Fresh, Fine
<1> HIDE DEF e, n
<1>3. ASSUME NEW f \in Env, calls' = Exchange(calls, t, n, f),
             f.z = e.z, f.method_id = e.method_id, f.timeout = e.timeout,
             f.pc \in {"handler", "give"}, Fresh(f)
      PROVE  /\ SoundInv'
             /\ Service!Becomes(t, Seen(f).st, Seen(f).answer)
  <2>1. Orderly(calls, holder, t, n, f, holder')
    BY <1>0, <1>1, <1>3 DEF Orderly, Section
  <2>2. SoundInv'
    BY <1>3, <2>1, SoundMove DEF n
  <2>3. Service!Becomes(t, Seen(f).st, Seen(f).answer)
    BY <1>0, <1>3, ViewMove DEF e, n
  <2>4. QED
    BY <2>2, <2>3
<1>4. ASSUME e.pc = "notify"
      PROVE  /\ message[e.z] = <<t, n>> /\ Stored(e.z) = e
             /\ Service!InState(t, "pending")
             /\ Service!Idle(Service!Innermost(t).z)
             /\ HasHandler(e.z, e.method_id) <=>
                  Service!Innermost(t).id \in
                    [z \in Insts |-> DOMAIN methods[api[z]] \ {0}]
                      [Service!Innermost(t).z]
  <2>1. message[e.z] = <<t, n>>
    BY <1>1, <1>4 DEF Fine
  <2>2. Stored(e.z) = e
    BY <1>1, <2>1 DEF Stored
  <2>3. QED
    BY <1>0, <1>4, <2>1, <2>2, PendingLemma DEF e, n
<1>5. CASE Notify(t)
  <2> DEFINE f == [e EXCEPT !.pc = "handler", !.of = <<t, n>>]
  <2>1. e.pc = "notify" /\ HasHandler(e.z, e.method_id)
    BY <1>4, <1>5 DEF Notify, At, e
  <2>2. calls' = [calls EXCEPT ![t][n].pc = "handler", ![t][n].of = <<t, n>>]
    BY <1>4, <1>5, <2>1 DEF Notify, e, n
  <2>3. calls' = Exchange(calls, t, n, f)
    BY <1>1, <2>2 DEF Exchange
  <2>4. <<t, n>> \in Addresses
    BY <1>1 DEF Addresses
  <2>5. /\ f \in Env /\ f.z = e.z /\ f.method_id = e.method_id
        /\ f.timeout = e.timeout /\ f.pc = "handler" /\ f.err = e.err
        /\ f.return_code = e.return_code /\ f.resp = e.resp
    BY <1>1, <2>4 DEF Env, PCs
  <2> HIDE DEF f
  <2>6. Fresh(f)
    BY <1>2, <2>5 DEF Fresh
  <2>7. SoundInv' /\ Service!Becomes(t, Seen(f).st, Seen(f).answer)
    BY <1>3, <2>3, <2>5, <2>6
  <2>8. Seen(f).st = "served" /\ Seen(f).answer = NULL
    BY <2>5, SeenLemma
  <2>9. QED
    BY <1>4, <2>1, <2>7, <2>8 DEF Service!Serve
<1>6. CASE NotifyNoHandler(t)
  <2> DEFINE f == [e EXCEPT !.pc = "give", !.return_code = "ENOSYS"]
  <2>1. e.pc = "notify" /\ ~HasHandler(e.z, e.method_id)
    BY <1>4, <1>6 DEF NotifyNoHandler, At, e
  <2>2. calls' = [To(t, "give") EXCEPT
                    ![<<t, n>>[1]][<<t, n>>[2]].return_code = "ENOSYS"]
    BY <1>4, <1>6, <2>1 DEF NotifyNoHandler, e
  <2>3. calls' = Exchange(calls, t, n, f)
    BY <1>1, <2>2 DEF Exchange, To, n
  <2>4. /\ f \in Env /\ f.z = e.z /\ f.method_id = e.method_id
        /\ f.timeout = e.timeout /\ f.pc = "give" /\ f.err = e.err
        /\ f.return_code = "ENOSYS" /\ f.resp = e.resp /\ f.ran = e.ran
    BY <1>1 DEF Env, PCs, Codes
  <2> HIDE DEF f
  <2>5. Fresh(f)
    BY <1>2, <2>4 DEF Fresh
  <2>6. SoundInv' /\ Service!Becomes(t, Seen(f).st, Seen(f).answer)
    BY <1>3, <2>3, <2>4, <2>5
  <2>7. /\ Seen(f).st = "answered"
        /\ Seen(f).answer = Service!Answer("0", "ENOSYS", "none", 0)
    BY <1>2, <2>4, SeenLemma
  <2>8. QED
    BY <1>4, <2>1, <2>6, <2>7 DEF Service!NoSuchMethod
<1>7. CASE HandlerReturns(t)
  <2>1. PICK o \in Outcomes, f \in Env :
          calls' = Exchange(calls, t, n, f) /\ WithOutcome(f, e, o)
    BY <1>7, HandlerReturnsShape DEF e, n
  <2>2. /\ f.z = e.z /\ f.method_id = e.method_id /\ f.timeout = e.timeout
        /\ f.pc = "give" /\ f.err = "0" /\ f.return_code = o.code
        /\ f.resp = o.resp /\ f.ran = 1
    BY <1>2, <2>1 DEF WithOutcome
  <2>3. Fresh(f)
    BY <2>2 DEF Fresh
  <2>4. SoundInv' /\ Service!Becomes(t, Seen(f).st, Seen(f).answer)
    BY <1>3, <2>1, <2>2, <2>3
  <2>5. /\ Seen(f).st = "answered"
        /\ Seen(f).answer = Service!Answer("0", o.code, o.resp, 1)
    BY <2>2, SeenLemma
  <2>6. e.pc = "handler"
    BY <1>7 DEF HandlerReturns, At, e
  <2>7. Service!InState(t, "served")
    BY <1>0, <2>6, ViewTop, SeenLemma DEF e, n
  <2>8. QED
    BY <2>4, <2>5, <2>7 DEF Service!Finish
<1>8. QED
  BY <1>5, <1>6, <1>7

(* A command is issued: it has not been answered yet.                       *)
LEMMA IssueStep ==
  ASSUME NEW C \in [Threads -> Seq(Env)], Sound(C, holder),
         View(C) = View(calls), NEW t \in Threads,
         Len(C[t]) > 0 => C[t][Len(C[t])].pc = "handler",
         NEW z \in Insts, NEW id \in MethodIds, id \in Nat,
         NEW req \in {"none", "whole"}, NEW timeout \in Timeouts,
         calls' = [C EXCEPT ![t] = Append(@, Envelope(z, id, req, timeout))],
         holder' = holder
  PROVE  SoundInv' /\ Service!Issue(t)
<1> DEFINE e == Envelope(z, id, req, timeout)
<1>1. /\ e \in Env /\ e.pc = "take" /\ Fresh(e)
      /\ e.z = z /\ e.method_id = id /\ e.timeout = timeout
  BY DEF Envelope, Env, PCs, Codes, Responses, Fresh
<1>2. Seen(e) = Service!Command(z, id, timeout)
  <2>1. e.pc = "take" /\ e.z = z /\ e.method_id = id /\ e.timeout = timeout
    BY <1>1
  <2> HIDE DEF e
  <2>2. Seen(e) = [z |-> z, id |-> id, timeout |-> timeout,
                   st |-> "pending", answer |-> NULL]
    BY <2>1, SeenLemma
  <2>3. QED
    BY <2>2 DEF Service!Command
<1> HIDE DEF e
<1>3. calls' = [C EXCEPT ![t] = Append(@, e)]
  BY DEF e
<1>4. SoundInv'
  <2>1. Sound([C EXCEPT ![t] = Append(@, e)], holder)
    BY <1>1, SoundPush
  <2>2. QED
    BY <1>3, <2>1 DEF SoundInv
<1>5. \A u \in Threads : C[u] \in Seq(Env) /\ Len(C[u]) \in Nat
  OBVIOUS
<1>6. \A u \in Threads : View(C)[u] = [d \in 1..Len(C[u]) |-> Seen(C[u][d])]
  BY DEF View
<1>7. View(calls') = [View(C) EXCEPT ![t] = Append(@, Seen(e))]
  <2> DEFINE V == View(C)
  <2>1. /\ Len(calls'[t]) = Len(C[t]) + 1 /\ calls'[t][Len(C[t]) + 1] = e
        /\ \A d \in 1..Len(C[t]) : calls'[t][d] = C[t][d]
        /\ \A u \in Threads \ {t} : calls'[u] = C[u]
    BY <1>1, <1>3, <1>5
  <2>2. V = [u \in Threads |-> [d \in 1..Len(C[u]) |-> Seen(C[u][d])]]
        /\ View(calls') = [u \in Threads |->
                             [d \in 1..Len(calls'[u]) |-> Seen(calls'[u][d])]]
    BY DEF View
  <2>3. ASSUME NEW u \in Threads
        PROVE  [d \in 1..Len(calls'[u]) |-> Seen(calls'[u][d])]
                 = IF u = t THEN Append(V[t], Seen(e)) ELSE V[u]
    <3>1. CASE u = t
      <4> DEFINE s == V[t]
                 m == Len(C[t])
      <4>1. m \in Nat /\ s = [d \in 1..m |-> Seen(C[t][d])]
        BY <1>5, <2>2
      <4>2. \A d \in 1..(m + 1) : d \in 1..m \/ d = m + 1
        BY <4>1
      <4>3. [d \in 1..Len(calls'[u]) |-> Seen(calls'[u][d])]
              = [d \in 1..(m + 1) |-> IF d = m + 1 THEN Seen(e) ELSE s[d]]
        BY <2>1, <3>1, <4>1, <4>2
      <4>4. Len(s) = m
        BY <4>1
      <4> HIDE DEF s, m
      <4>5. Append(s, Seen(e))
              = [d \in 1..(m + 1) |-> IF d = m + 1 THEN Seen(e) ELSE s[d]]
        BY <4>1, <4>4
      <4>6. QED
        BY <3>1, <4>3, <4>5 DEF s
    <3>2. CASE u # t
      BY <2>1, <2>2, <3>2
    <3>3. QED
      BY <3>1, <3>2
  <2> HIDE DEF V
  <2>4. View(calls') = [V EXCEPT ![t] = Append(@, Seen(e))]
    BY <2>2, <2>3
  <2>5. QED
    BY <2>4 DEF V
<1>8. View(calls)[t] = <<>> \/ Service!InState(t, "served")
  <2> DEFINE s == View(calls)[t]
  <2>1. s = [d \in 1..Len(C[t]) |-> Seen(C[t][d])]
    BY <1>6
  <2> HIDE DEF s
  <2>2. CASE Len(C[t]) = 0
    <3>1. s = [d \in 1..0 |-> Seen(C[t][d])]
      BY <2>1, <2>2
    <3>2. QED
      BY <3>1 DEF s
  <2>3. CASE Len(C[t]) # 0
    <3>1. Len(C[t]) > 0 /\ Len(C[t]) \in 1..Len(C[t])
      BY <1>5, <2>3
    <3>2. Len(s) = Len(C[t])
      BY <1>5, <2>1
    <3>3. s[Len(s)] = Seen(C[t][Len(C[t])])
      BY <2>1, <3>1, <3>2
    <3>4. s[Len(s)].st = "served"
      BY <3>1, <3>3, SeenLemma
    <3>5. QED
      BY <3>1, <3>2, <3>4 DEF s, Service!InState, Service!Innermost
  <2>4. QED
    BY <2>2, <2>3
<1>9. View(calls') = [View(calls) EXCEPT ![t] =
                        Append(@, Service!Command(z, id, timeout))]
  BY <1>2, <1>7
<1>10. Service!Issue(t)
  BY <1>8, <1>9 DEF Service!Issue
<1>11. QED
  BY <1>4, <1>10

(* A wrapper returns to who issued the command.                             *)
LEMMA ReturnStep ==
  ASSUME IInv, SoundInv, NEW t \in Threads, Depth(t) > 0, At(t, "ret"),
         calls' = Pop(t), holder' = holder
  PROVE  SoundInv' /\ Service!Return(t)
<1>1. /\ calls \in [Threads -> Seq(Env)] /\ Top(t).pc = "ret"
      /\ Top(t) = calls[t][Len(calls[t])] /\ Len(calls[t]) > 0
      /\ calls[t] \in Seq(Env) /\ Len(calls[t]) \in Nat
  BY TopSound DEF At, Depth, Top
<1>2. calls' = [calls EXCEPT ![t] = SubSeq(@, 1, Len(calls[t]) - 1)]
  BY DEF Pop, Depth
<1>3. SoundInv'
  <2>1. Sound([calls EXCEPT ![t] = SubSeq(@, 1, Len(calls[t]) - 1)], holder)
    BY <1>1, SoundPop DEF SoundInv, Section
  <2>2. QED
    BY <1>2, <2>1 DEF SoundInv
<1>4. Service!InState(t, "answered")
  BY <1>1, ViewTop, SeenLemma
<1> DEFINE V == View(calls)
           s == calls[t]
           m == Len(calls[t]) - 1
<1>5. m \in Nat /\ Len(s) = m + 1 /\ s \in Seq(Env)
  BY <1>1
<1>6. /\ calls'[t] = SubSeq(s, 1, m)
      /\ \A u \in Threads \ {t} : calls'[u] = calls[u]
  BY <1>1, <1>2
<1>7. /\ V = [u \in Threads |-> [d \in 1..Len(calls[u]) |-> Seen(calls[u][d])]]
      /\ View(calls') = [u \in Threads |->
                           [d \in 1..Len(calls'[u]) |-> Seen(calls'[u][d])]]
  BY DEF View
<1>8. V[t] = [d \in 1..Len(s) |-> Seen(s[d])]
  BY <1>7
<1> HIDE DEF V, s, m
<1>9. /\ Len(SubSeq(s, 1, m)) = m /\ \A d \in 1..m : SubSeq(s, 1, m)[d] = s[d]
  BY <1>5
<1>10. Len(V[t]) - 1 = m
  BY <1>5, <1>8
<1>11. SubSeq(V[t], 1, m) = [d \in 1..m |-> Seen(s[d])]
  BY <1>5, <1>8
<1>12. [d \in 1..Len(calls'[t]) |-> Seen(calls'[t][d])] = SubSeq(V[t], 1, m)
  <2>1. Len(calls'[t]) = m /\ \A d \in 1..m : calls'[t][d] = s[d]
    BY <1>6, <1>9
  <2>2. [d \in 1..Len(calls'[t]) |-> Seen(calls'[t][d])]
          = [d \in 1..m |-> Seen(s[d])]
    BY <2>1
  <2>3. QED
    BY <1>11, <2>2
<1>13. View(calls') = [V EXCEPT ![t] = SubSeq(V[t], 1, Len(V[t]) - 1)]
  <2>1. ASSUME NEW u \in Threads
        PROVE  [d \in 1..Len(calls'[u]) |-> Seen(calls'[u][d])]
                 = IF u = t THEN SubSeq(V[t], 1, m) ELSE V[u]
    <3>1. CASE u = t
      BY <1>12, <3>1
    <3>2. CASE u # t
      BY <1>6, <1>7, <3>2
    <3>3. QED
      BY <3>1, <3>2
  <2>2. View(calls') =
          [u \in Threads |-> IF u = t THEN SubSeq(V[t], 1, m) ELSE V[u]]
    BY <1>7, <2>1
  <2>3. View(calls') = [V EXCEPT ![t] = SubSeq(V[t], 1, m)]
    BY <1>7, <2>2
  <2>4. QED
    BY <1>10, <2>3
<1>14. QED
  BY <1>3, <1>4, <1>13 DEF V, Service!Return

(* What is in a step of the threads is one step of the service, or none.    *)
LEMMA ServiceStep ==
  ASSUME IInv, SoundInv, NEW t \in Threads, Step(t)
  PROVE  SoundInv' /\ [Service!Next]_(View(calls))
<1>1. CASE Take(t) \/ TakeWaits(t) \/ Store(t)
  BY <1>1, QuietStep
<1>2. CASE TakeBusy(t) \/ TakeTimeout(t)
  BY <1>2, TurnAwayStep DEF Service!Next
<1>3. CASE Give(t)
  BY <1>3, GiveStep
<1>4. CASE Notify(t) \/ NotifyNoHandler(t) \/ HandlerReturns(t)
  BY <1>4, DispatchStep DEF Service!Next
<1>5. CASE HandlerResumes(t)
  BY <1>5, ReturnStep DEF HandlerResumes, At, Service!Next
<1>6. CASE HandlerCalls(t)
  <2> DEFINE e == Top(t)
             n == Depth(t)
             f == [e EXCEPT !.nested = TRUE]
             C == Exchange(calls, t, n, f)
  <2>0. n > 0 /\ e.pc = "handler" /\ holder' = holder
    BY <1>6 DEF HandlerCalls, At
  <2>1. /\ n = Len(calls[t]) /\ n \in 1..Len(calls[t]) /\ e = calls[t][n]
        /\ e \in Env /\ e.z \in Insts
        /\ Placed(calls, holder, t, n, e)
        /\ calls \in [Threads -> Seq(Env)]
    BY <2>0, TopSound
  <2>2. PICK c \in Nested :
          calls' = [calls EXCEPT ![t] =
                      Append([@ EXCEPT ![n].nested = TRUE],
                             Envelope(c.z, c.method_id, "whole", c.timeout))]
    BY <1>6 DEF HandlerCalls
  <2> HIDE DEF e, n
  <2>3. /\ c.z \in Insts /\ c.method_id \in Nat /\ c.timeout \in Timeouts
        /\ c.method_id \in MethodIds
    BY DispatchAssumption DEF MethodIds
  <2>4. /\ f \in Env /\ f.z = e.z /\ f.method_id = e.method_id
        /\ f.timeout = e.timeout /\ f.pc = e.pc /\ f.err = e.err
        /\ f.return_code = e.return_code /\ f.resp = e.resp
    BY <2>1 DEF Env
  <2>5. calls' = [C EXCEPT ![t] =
                    Append(@, Envelope(c.z, c.method_id, "whole", c.timeout))]
    <3> DEFINE a == Envelope(c.z, c.method_id, "whole", c.timeout)
    <3> HIDE DEF a
    <3>1. calls' =
            [calls EXCEPT ![t] = Append([@ EXCEPT ![n].nested = TRUE], a)]
      BY <2>2 DEF a
    <3>2. calls' = [C EXCEPT ![t] = Append(@, a)]
      BY <2>1, <3>1 DEF Exchange
    <3>3. QED
      BY <3>2 DEF a
  <2> HIDE DEF f
  <2>6. Fresh(f) /\ Seen(f) = Seen(e)
    BY <2>0, <2>1, <2>4 DEF Placed, Fresh, Seen
  <2>7. Orderly(calls, holder, t, n, f, holder)
    BY <2>0, <2>1, <2>4, <2>6 DEF Orderly, Section
  <2>8. Sound(C, holder)
    BY <2>1, <2>4, <2>7, OrderlyLemma DEF SoundInv
  <2>9. View(C) = View(calls)
    BY <2>1, <2>4, <2>6, SameView
  <2>10. /\ C \in [Threads -> Seq(Env)] /\ Len(C[t]) = n /\ C[t][n] = f
    <3>1. [calls[t] EXCEPT ![n] = f] \in Seq(Env)
          /\ Len([calls[t] EXCEPT ![n] = f]) = Len(calls[t])
      BY <2>1, <2>4, ExceptSeq
    <3>2. QED
      BY <2>1, <3>1 DEF Exchange
  <2> HIDE DEF C
  <2>11. SoundInv' /\ Service!Issue(t)
    <3>1. C[t][Len(C[t])].pc = "handler"
      BY <2>0, <2>4, <2>10
    <3>2. "whole" \in {"none", "whole"}
      OBVIOUS
    <3>3. QED
      BY <2>0, <2>3, <2>5, <2>8, <2>9, <2>10, <3>1, <3>2, IssueStep
  <2>12. QED
    BY <2>11 DEF Service!Next
<1>7. QED
  BY <1>1, <1>2, <1>3, <1>4, <1>5, <1>6 DEF Step

(* A frontend issues a command from a thread that is in none.               *)
LEMMA FrontendIssues ==
  ASSUME IInv, SoundInv, NEW t \in Threads, Len(calls[t]) = 0,
         NEW z \in Insts, NEW id \in MethodIds, id \in Nat,
         NEW req \in {"none", "whole"}, NEW timeout \in Timeouts,
         calls' = Push(t, Envelope(z, id, req, timeout)), holder' = holder
  PROVE  SoundInv' /\ [Service!Next]_(View(calls))
<1> DEFINE C == calls
<1>1. /\ C \in [Threads -> Seq(Env)] /\ Sound(C, holder)
      /\ View(C) = View(calls) /\ ~(Len(C[t]) > 0)
  BY DEF IInv, Good, Typed, SoundInv
<1>2. calls' = [C EXCEPT ![t] = Append(@, Envelope(z, id, req, timeout))]
  BY DEF Push
<1> HIDE DEF C
<1>3. SoundInv' /\ Service!Issue(t)
  BY <1>1, <1>2, IssueStep
<1>4. QED
  BY <1>3 DEF Service!Next

(* What the CoAP server does to its thread is one step of the service.      *)
LEMMA CoapService ==
  ASSUME FrontendInv, SoundInv, Coap
  PROVE  SoundInv' /\ [Service!Next]_(View(calls))
<1> USE DEF FrontendInv
<1>1. CASE UNCHANGED channels
  BY <1>1 DEF channels, SoundInv
<1>2. ASSUME NEW req \in Requests, CoapPost(req)
      PROVE  SoundInv' /\ [Service!Next]_(View(calls))
  <2>1. /\ req.kind = "post" /\ Refusal(req) = "0" /\ holder' = holder
        /\ coap.st = "idle"
        /\ calls' = Push(coapThread, Envelope(req.inst, Command(req).id,
                                              Decoded(req), CoapTimeout))
    BY <1>2 DEF CoapPost
  <2>2. Decoded(req) \in {"none", "whole"}
    BY <2>1 DEF Refusal, Decoded
  <2>3. /\ req.inst \in Insts /\ Command(req).id \in Nat
        /\ CoapTimeout \in Timeouts /\ coapThread \in Threads
    BY <2>1, CallsAssumption, CoapAssumption
  <2>4. Command(req).id \in MethodIds
    BY <2>1 DEF MethodIds
  <2>5. Len(calls[coapThread]) = 0
    BY <2>1 DEF CoapInv
  <2>6. QED
    BY <2>1, <2>2, <2>3, <2>4, <2>5, FrontendIssues
<1>3. CASE CoapReply
  <2>1. /\ Depth(coapThread) > 0 /\ At(coapThread, "ret")
        /\ calls' = Pop(coapThread) /\ holder' = holder
        /\ coapThread \in Threads
    BY <1>3, CoapAssumption DEF CoapReply
  <2>2. QED
    BY <2>1, ReturnStep DEF Service!Next
<1>4. QED
  BY <1>1, <1>2, <1>3 DEF Coap, CoapRefuse, CoapDiscover, CoapNext

(* What the shell does to its thread is one step of the service.            *)
LEMMA ShellService ==
  ASSUME FrontendInv, SoundInv, Shell
  PROVE  SoundInv' /\ [Service!Next]_(View(calls))
<1> USE DEF FrontendInv
<1>1. CASE UNCHANGED channels
  BY <1>1 DEF channels, SoundInv
<1>2. ASSUME NEW line \in Lines, Call(line)
      PROVE  SoundInv' /\ [Service!Next]_(View(calls))
  <2>1. /\ ~Shape(line).req \/ Parsed(line)
        /\ shell.st = "idle" /\ holder' = holder
        /\ calls' = Push(shellThread, Envelope(line.z, Shape(line).id,
                                               Request(line), ShellTimeout))
    BY <1>2 DEF Call
  <2>2. Request(line) \in {"none", "whole"}
    BY <2>1 DEF Request, Parsed
  <2>3. /\ line.z \in Insts /\ Shape(line).id \in Nat
        /\ ShellTimeout \in Timeouts /\ shellThread \in Threads
    BY CallsAssumption, ShellAssumption
  <2>4. Shape(line).id \in MethodIds
    BY DEF MethodIds
  <2>5. Len(calls[shellThread]) = 0
    BY <2>1 DEF ShellInv, CallInv
  <2>6. QED
    BY <2>1, <2>2, <2>3, <2>4, <2>5, FrontendIssues
<1>3. CASE Return
  <2>1. /\ Depth(shellThread) > 0 /\ At(shellThread, "ret")
        /\ calls' = Pop(shellThread) /\ holder' = holder
        /\ shellThread \in Threads
    BY <1>3, ShellAssumption DEF Return
  <2>2. QED
    BY <2>1, ReturnStep DEF Service!Next
<1>4. QED
  BY <1>1, <1>2, <1>3
     DEF Shell, Usage, PrintBlock, PrettyOnly, NotPrettyOnly, PrintLine, Fmt,
         Prompt

(* No command is under way at first.                                        *)
LEMMA ServiceInit == Init => SoundInv /\ Service!Init
<1> SUFFICES ASSUME Init PROVE SoundInv /\ Service!Init
  OBVIOUS
<1>1. calls = [t \in Threads |-> <<>>] /\ holder = [z \in Insts |-> NULL]
  BY DEF Init, DispatchInit
<1>2. \A t \in Threads : Len(calls[t]) = 0
  BY <1>1
<1>3. SoundInv
  BY <1>1, <1>2 DEF SoundInv, Sound
<1>4. \A t \in Threads : [d \in 1..Len(calls[t]) |-> Seen(calls[t][d])] = <<>>
  BY <1>2
<1>5. View(calls) = [t \in Threads |-> <<>>]
  BY <1>4 DEF View
<1>6. QED
  BY <1>3, <1>5 DEF Service!Init

(* Every step of the system is one of the service, or none.                 *)
LEMMA ServiceNext ==
  FrontendInv /\ SoundInv /\ [Next]_vars
    => SoundInv' /\ [Service!Next]_(View(calls))
<1> SUFFICES ASSUME FrontendInv, SoundInv, [Next]_vars
             PROVE  SoundInv' /\ [Service!Next]_(View(calls))
  OBVIOUS
<1>1. CASE UNCHANGED channels
  BY <1>1 DEF channels, SoundInv
<1>2. ASSUME NEW t \in Threads, Step(t)
      PROVE  SoundInv' /\ [Service!Next]_(View(calls))
  BY <1>2, ServiceStep DEF FrontendInv
<1>3. QED
  BY <1>1, <1>2, CoapService, ShellService DEF Next, vars

\* Whatever the threads, the tables, the requests and the handlers, the
\* channels and the frontends together do what CommandService says.
THEOREM ServiceImplemented == Spec => ServiceSpec
<1>1. Spec => [](FrontendInv /\ SoundInv)
  <2>1. Init => FrontendInv /\ SoundInv
    BY FrontendInit, ServiceInit
  <2>2. (FrontendInv /\ SoundInv) /\ [Next]_vars => (FrontendInv /\ SoundInv)'
    BY FrontendNext, ServiceNext
  <2>3. QED
    BY <2>1, <2>2, PTL DEF Spec
<1>2. FrontendInv /\ SoundInv /\ [Next]_vars => [Service!Next]_(View(calls))
  BY ServiceNext
<1>3. Init => Service!Init
  BY ServiceInit
<1>4. QED
  BY <1>1, <1>2, <1>3, PTL DEF Spec, ServiceSpec, Service!Spec

=============================================================================
