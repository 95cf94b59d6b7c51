--------------------------- MODULE CommandService ---------------------------
(***************************************************************************)
(* What the command channels promise to whoever issues a command, whatever *)
(* semaphores, listeners and frontends are behind them.                    *)
(*                                                                         *)
(* An instance serves one command at a time.  A command is answered once:  *)
(* by the handler of its method, which has then run once, with ENOSYS if   *)
(* the method has none, or with an error of the publish, in which case     *)
(* nothing has run.  An instance with nothing else to do turns no command  *)
(* away, and a command without a timeout is never turned away.  While a    *)
(* handler runs it may issue commands of its own, one after the other.     *)
(***************************************************************************)
EXTENDS Naturals, Sequences

CONSTANTS
  Threads,    \* who issues commands
  Insts,      \* the instances
  MethodIds,  \* the ids that are issued
  Timeouts,   \* "none" not to wait at all, "forever", or between the two
  Handled,    \* per instance, the ids of the methods that have a handler
  Outcomes,   \* what a handler may return: its code and its response
  NULL

VARIABLE stack   \* per thread, its commands under way, the innermost last

Command(z, id, timeout) ==
  [z |-> z, id |-> id, timeout |-> timeout, st |-> "pending", answer |-> NULL]

Answer(err, code, resp, ran) ==
  [err |-> err, code |-> code, resp |-> resp, ran |-> ran]

Innermost(t) == stack[t][Len(stack[t])]

InState(t, st) == Len(stack[t]) > 0 /\ Innermost(t).st = st

Becomes(t, st, answer) ==
  stack' = [stack EXCEPT ![t][Len(stack[t])] =
              [@ EXCEPT !.st = st, !.answer = answer]]

\* The instance runs no handler.
Idle(z) ==
  \A t \in Threads : \A d \in 1..Len(stack[t]) :
    stack[t][d].st = "served" => stack[t][d].z # z

\* Another command for the instance is under way, maybe of the same thread.
Contended(t) ==
  \E u \in Threads : \E d \in 1..Len(stack[u]) :
    /\ u # t \/ d # Len(stack[t])
    /\ stack[u][d].z = Innermost(t).z

-----------------------------------------------------------------------------
Issue(t) ==
  /\ stack[t] = <<>> \/ InState(t, "served")
  /\ \E z \in Insts, id \in MethodIds, timeout \in Timeouts :
       stack' = [stack EXCEPT ![t] = Append(@, Command(z, id, timeout))]

\* The handler begins to run.
Serve(t) ==
  /\ InState(t, "pending")
  /\ Innermost(t).id \in Handled[Innermost(t).z]
  /\ Idle(Innermost(t).z)
  /\ Becomes(t, "served", NULL)

Finish(t) ==
  /\ InState(t, "served")
  /\ \E o \in Outcomes :
       Becomes(t, "answered", Answer("0", o.code, o.resp, 1))

NoSuchMethod(t) ==
  /\ InState(t, "pending")
  /\ Innermost(t).id \notin Handled[Innermost(t).z]
  /\ Idle(Innermost(t).z)
  /\ Becomes(t, "answered", Answer("0", "ENOSYS", "none", 0))

TurnAway(t) ==
  /\ InState(t, "pending")
  /\ Contended(t)
  /\ \/ /\ Innermost(t).timeout = "none"
        /\ Becomes(t, "answered", Answer("EBUSY", "0", "none", 0))
     \/ /\ Innermost(t).timeout = "finite"
        /\ Becomes(t, "answered", Answer("EAGAIN", "0", "none", 0))

Return(t) ==
  /\ InState(t, "answered")
  /\ stack' = [stack EXCEPT ![t] = SubSeq(@, 1, Len(@) - 1)]

-----------------------------------------------------------------------------
Init == stack = [t \in Threads |-> <<>>]

Next ==
  \E t \in Threads :
    \/ Issue(t) \/ Serve(t) \/ Finish(t) \/ NoSuchMethod(t) \/ TurnAway(t)
    \/ Return(t)

Spec == Init /\ [][Next]_stack

=============================================================================
