------------------------------ MODULE CoordFlow ------------------------------
(***************************************************************************)
(* What a coordinator promises to its callers (zephlet_coord.h), whatever  *)
(* threads and locks are behind it: one flow at a time, one step at a      *)
(* time, and a flow that is run again for a kick that came while it ran.   *)
(***************************************************************************)

VARIABLES
  phase,   \* of the flow: "idle", "ready" to step, "running", "waiting"
  pending  \* a kick came while the flow was in progress

vars == <<phase, pending>>

Move(from, to) == phase = from /\ phase' = to

Kick ==
  /\ phase' = IF phase = "idle" THEN "ready" ELSE phase
  /\ pending' = (phase # "idle" \/ pending)

Begin   == Move("ready", "running")   /\ UNCHANGED pending
NextUp  == Move("running", "ready")   /\ UNCHANGED pending
Suspend == Move("running", "waiting") /\ UNCHANGED pending
Resume  == Move("waiting", "ready")   /\ UNCHANGED pending

Done ==
  /\ Move("running", IF pending THEN "ready" ELSE "idle")
  /\ pending' = FALSE

Init == phase = "idle" /\ pending = FALSE
Next == Kick \/ Begin \/ NextUp \/ Suspend \/ Resume \/ Done

\* A flow that is ready starts its step, a step ends, a wait ends.
Fairness ==
  /\ WF_vars(Begin)
  /\ WF_vars(NextUp \/ Suspend \/ Done)
  /\ WF_vars(Resume)

Safety == Init /\ [][Next]_vars
Spec == Safety /\ Fairness

=============================================================================
