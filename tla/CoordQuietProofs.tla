--------------------------- MODULE CoordQuietProofs ---------------------------
(* Proofs about the coordinator when the removal of an observer and the     *)
(* scheduling of a timer do not fail, and about its refinement of CoordFlow *)
(* when no call fails, for any number of threads, channels and steps.       *)
EXTENDS CoordProofs

-----------------------------------------------------------------------------
(* The observer.                                                           *)

\* The await is past the attachment and before it is armed.
Storing == wpc \in {"store_dst", "store_match", "store_chan"}

\* The channel c is the one that the present driver of the flow holds.
HeldBy(c) ==
  \/ c = chan
  \/ Storing /\ c = wargs.chan
  \/ wpc = "timeout_rm" /\ c = wchan
  \/ \E p \in Publishers : Claimed(p) /\ c = pub[p].claimed
  \/ (Queued("cleanup") \/ wpc = "cleanup") /\ c = pending_rm

(* The inductive invariant: what is attached is held by a driver.  As the  *)
(* drivers exclude each other, at most one channel is attached.            *)
HeldInv ==
  /\ wpc \notin {"disarm", "undo"}
  /\ \A c \in attached : HeldBy(c)

\* The removal of the observer and the scheduling of the timer never fail.
Reliable == "rm_obs" \notin ApiErrors /\ "schedule" \notin ApiErrors

(* Initially nothing is attached.                                          *)
LEMMA InitHeld == Init => HeldInv
BY DEF Init, HeldInv

(* No step leaves a channel attached that no driver holds.                 *)
LEMMA NextHeld ==
  ASSUME Reliable
  PROVE  TypeOK /\ DriverInv /\ ~raced /\ HeldInv /\ [Next]_vars => HeldInv'
<1> SUFFICES ASSUME TypeOK, DriverInv, ~raced, HeldInv, [Next]_vars
             PROVE  HeldInv'
  OBVIOUS
<1> USE StepsAssumption, AwaitsAssumption
<1> USE DEF Reliable, DriverInv, Exclusive, KickerDrives, PublisherDrives,
            HeldInv, HeldBy, Storing, Claimed, Handling, Goto, PubGoto, flow,
            async, zephyr, locals, others
<1>1. ASSUME NEW k \in Kickers, Kick(k)
      PROVE  HeldInv'
  BY <1>1 DEF Kick, Queued, TypeOK
<1>2. ASSUME NEW k \in Kickers, KickSubmit(k)
      PROVE  HeldInv'
  BY <1>2, WithItemLemma DEF KickSubmit, Items, Queued, TypeOK
<1>3. CASE Take
  BY <1>3, TailLemma DEF Take, HandlerOf, Items, Queued, TypeOK
<1>4. CASE Dispatch
  BY <1>4 DEF Dispatch, Queued, TypeOK
<1>5. CASE Submit
  BY <1>5, WithItemLemma DEF Submit, Items, Queued, TypeOK
<1>6. CASE Done
  BY <1>6 DEF Done, Queued, TypeOK
<1>7. ASSUME NEW fn \in Steps, StepNext(fn)
      PROVE  HeldInv'
  BY <1>7 DEF StepNext, Queued, TypeOK
<1>8. ASSUME NEW a \in Awaits, NEW fn \in Steps, Await(a, fn)
      PROVE  HeldInv'
  BY <1>8 DEF Await, Queued, TypeOK
<1>9. CASE AddObs
  BY <1>9 DEF AddObs, Queued, TypeOK
<1>10. CASE AddObsFails
  BY <1>10 DEF AddObsFails, Queued, TypeOK
<1>11. CASE StoreDst
  BY <1>11 DEF StoreDst, Queued, TypeOK
<1>12. CASE StoreMatch
  BY <1>12 DEF StoreMatch, Queued, TypeOK
<1>13. CASE StoreChan
  BY <1>13 DEF StoreChan, Queued, TypeOK
<1>14. CASE Schedule
  BY <1>14 DEF Schedule, Queued, TypeOK
<1>15. CASE ScheduleFails
  BY <1>15 DEF ScheduleFails, Queued, TypeOK
<1>16. CASE Disarm
  BY <1>16 DEF Disarm, Queued, TypeOK
<1>17. CASE Undo
  BY <1>17 DEF Undo, Queued, TypeOK
<1>18. CASE Cleanup
  BY <1>18 DEF Cleanup, RmObs, Queued, TypeOK
<1>19. CASE TimeoutClaim
  BY <1>19 DEF TimeoutClaim, AsyncClaim, Queued, TypeOK
<1>20. CASE TimeoutRm
  BY <1>20 DEF TimeoutRm, RmObs, Queued, TypeOK
<1>21. CASE Expire
  BY <1>21, WithItemLemma DEF Expire, Items, Queued, TypeOK
<1>22. ASSUME NEW p \in Publishers, NEW c \in Chans, NEW m \in Msgs,
              PubLock(p, c, m)
      PROVE  HeldInv'
  BY <1>22 DEF PubLock, Queued, TypeOK
<1>23. ASSUME NEW p \in Publishers, PubMatch(p)
      PROVE  HeldInv'
  BY <1>23 DEF PubMatch, Queued, TypeOK
<1>24. ASSUME NEW p \in Publishers, PubCopy(p)
      PROVE  HeldInv'
  BY <1>24 DEF PubCopy, Queued, TypeOK
<1>25. ASSUME NEW p \in Publishers, PubClaim(p)
      PROVE  HeldInv'
  BY <1>25 DEF PubClaim, AsyncClaim, Queued, TypeOK
<1>26. ASSUME NEW p \in Publishers, PubCancel(p)
      PROVE  HeldInv'
  BY <1>26, WithoutItemLemma DEF PubCancel, Items, Queued, TypeOK
<1>27. ASSUME NEW p \in Publishers, PubDefer(p)
      PROVE  HeldInv'
  BY <1>27, WithItemLemma DEF PubDefer, Items, Queued, TypeOK
<1>28. ASSUME NEW p \in Publishers, PubUnlock(p)
      PROVE  HeldInv'
  BY <1>28 DEF PubUnlock, NoPub, Queued, TypeOK
<1>29. CASE UNCHANGED vars
  BY <1>29 DEF vars, Queued, TypeOK
<1>30. QED
  BY <1>1, <1>2, <1>3, <1>4, <1>5, <1>6, <1>7, <1>8, <1>9, <1>10, <1>11,
     <1>12, <1>13, <1>14, <1>15, <1>16, <1>17, <1>18, <1>19, <1>20, <1>21,
     <1>22, <1>23, <1>24, <1>25, <1>26, <1>27, <1>28, <1>29
     DEF Next, Workq, PubGoOn

(* The observer is attached by the driver of the flow alone, and each      *)
(* driver hands it on to the next one, or removes it.                      *)
LEMMA HeldInvariant ==
  ASSUME Reliable
  PROVE  Spec => []HeldInv
<1>1. Init => HeldInv
  BY InitHeld
<1>2. TypeOK /\ DriverInv /\ ~raced /\ HeldInv /\ [Next]_vars => HeldInv'
  BY NextHeld
<1>3. Spec => [](~raced)
  BY NeverRaced DEF Reliable
<1>4. QED
  BY <1>1, <1>2, <1>3, TypeCorrect, DriverInvariant, PTL DEF Spec

(* The step that follows an await never runs beside the listener: when the *)
(* flow is dispatched the observer is on no channel, unless the removal    *)
(* itself or the scheduling of the timer has failed.                       *)
THEOREM ObserverReleasedAlways ==
  ASSUME Reliable
  PROVE  Spec => []ObserverReleased
<1>1. TypeOK /\ DriverInv /\ ~raced /\ HeldInv => ObserverReleased
  BY AwaitsAssumption
     DEF TypeOK, DriverInv, Exclusive, PublisherDrives, Handling, HeldInv,
         HeldBy, Storing, ObserverReleased
<1>2. Spec => [](~raced)
  BY NeverRaced DEF Reliable
<1>3. QED
  BY <1>1, <1>2, HeldInvariant, TypeCorrect, DriverInvariant, PTL

-----------------------------------------------------------------------------
(* The publishers and the timer.                                           *)

\* The publisher is past a successful match.
Resolving(p) == pub[p].pc \in {"copy", "resolve", "cancel", "defer"}

(* A channel's semaphore has one holder, the channel of an await that is   *)
(* being armed none, and the channel of a resolving publisher keeps its    *)
(* observer, which RmObs cannot take away before the unlock.               *)
LockInv ==
  /\ \A p, q \in Publishers :
       pub[p].pc # "idle" /\ pub[q].pc # "idle" /\ pub[p].chan = pub[q].chan
         => p = q
  /\ Arming => ~Locked(wargs.chan)
  /\ \A p \in Publishers : Resolving(p) => pub[p].chan \in attached

(* What a resolving publisher publishes is what the match accepts, and the *)
(* destination holds it after the copy.                                    *)
MatchInv ==
  \A p \in Publishers : Resolving(p) =>
    /\ pub[p].msg \in match
    /\ Claimed(p) => pub[p].claimed = pub[p].chan
    /\ pub[p].pc # "copy" /\ dst # NULL => buf[dst] \in match

(* The timer is delayed or queued, never both; it is neither while its     *)
(* handler claims; and the timer is scheduled before the await is claimed. *)
TimerInv ==
  /\ Queued("timer") => timer = "off"
  /\ wpc = "timeout" => ~TimerPending
  /\ wpc = "schedule" => chan = wargs.chan
  /\ NoStaleTimer

(* Initially nobody holds a semaphore.                                     *)
LEMMA InitLock == Init => LockInv
BY DEF Init, LockInv, Arming, Resolving, Claimed, NoPub, Locked, Queued, Has,
       TimerPending, NoStaleTimer

(* Only a publisher takes a semaphore, and the observer waits for it.      *)
LEMMA NextLock ==
  ASSUME Reliable, QuietArm
  PROVE  TypeOK /\ DriverInv /\ ~raced /\ HeldInv /\ LockInv /\ [Next]_vars
           => LockInv'
<1> SUFFICES ASSUME TypeOK, DriverInv, ~raced, HeldInv, LockInv, [Next]_vars
             PROVE  LockInv'
  OBVIOUS
<1> USE StepsAssumption, AwaitsAssumption
<1> USE DEF Goto, PubGoto, flow, async, zephyr, locals, others
<1> USE DEF DriverInv, Exclusive, KickerDrives, PublisherDrives, Observed,
            HeldInv, HeldBy, Storing, Claimed, Handling, Reliable,
            LockInv, Arming, Locked, Resolving
<1>1. ASSUME NEW k \in Kickers, Kick(k)
      PROVE  LockInv'
  BY <1>1 DEF Kick, Queued, TypeOK
<1>2. ASSUME NEW k \in Kickers, KickSubmit(k)
      PROVE  LockInv'
  BY <1>2, WithItemLemma DEF KickSubmit, Items, Queued, TypeOK
<1>3. CASE Take
  BY <1>3, TailLemma DEF Take, HandlerOf, Items, Queued, TypeOK
<1>4. CASE Dispatch
  BY <1>4 DEF Dispatch, Queued, TypeOK
<1>5. CASE Submit
  BY <1>5, WithItemLemma DEF Submit, Items, Queued, TypeOK
<1>6. CASE Done
  BY <1>6 DEF Done, Queued, TypeOK
<1>7. ASSUME NEW fn \in Steps, StepNext(fn)
      PROVE  LockInv'
  BY <1>7 DEF StepNext, Queued, TypeOK
<1>8. ASSUME NEW a \in Awaits, NEW fn \in Steps, Await(a, fn)
      PROVE  LockInv'
  BY <1>8 DEF Await, Queued, TypeOK
<1>9. CASE AddObs
  BY <1>9 DEF AddObs, Queued, TypeOK
<1>10. CASE AddObsFails
  BY <1>10 DEF AddObsFails, Queued, TypeOK
<1>11. CASE StoreDst
  BY <1>11 DEF StoreDst, Queued, TypeOK
<1>12. CASE StoreMatch
  BY <1>12 DEF StoreMatch, Queued, TypeOK
<1>13. CASE StoreChan
  BY <1>13 DEF StoreChan, Queued, TypeOK
<1>14. CASE Schedule
  BY <1>14 DEF Schedule, Queued, TypeOK
<1>15. CASE ScheduleFails
  BY <1>15 DEF ScheduleFails, Queued, TypeOK
<1>16. CASE Disarm
  BY <1>16 DEF Disarm, Queued, TypeOK
<1>17. CASE Undo
  BY <1>17 DEF Undo, Queued, TypeOK
<1>18. CASE Cleanup
  BY <1>18 DEF Cleanup, RmObs, Queued, TypeOK
<1>19. CASE TimeoutClaim
  BY <1>19 DEF TimeoutClaim, AsyncClaim, Queued, TypeOK
<1>20. CASE TimeoutRm
  BY <1>20 DEF TimeoutRm, RmObs, Queued, TypeOK
<1>21. CASE Expire
  BY <1>21, WithItemLemma DEF Expire, Items, Queued, TypeOK
<1>22. ASSUME NEW p \in Publishers, NEW c \in Chans, NEW m \in Msgs,
              PubLock(p, c, m)
       PROVE  LockInv'
  BY <1>22 DEF PubLock, Queued, TypeOK
<1>23. ASSUME NEW p \in Publishers, PubMatch(p)
       PROVE  LockInv'
  BY <1>23 DEF PubMatch, Queued, TypeOK
<1>24. ASSUME NEW p \in Publishers, PubCopy(p)
       PROVE  LockInv'
  BY <1>24 DEF PubCopy, Queued, TypeOK
<1>25. ASSUME NEW p \in Publishers, PubClaim(p)
       PROVE  LockInv'
  BY <1>25 DEF PubClaim, AsyncClaim, Queued, TypeOK
<1>26. ASSUME NEW p \in Publishers, PubCancel(p)
       PROVE  LockInv'
  BY <1>26, WithoutItemLemma DEF PubCancel, Items, Queued, TypeOK
<1>27. ASSUME NEW p \in Publishers, PubDefer(p)
       PROVE  LockInv'
  BY <1>27, WithItemLemma DEF PubDefer, Items, Queued, TypeOK
<1>28. ASSUME NEW p \in Publishers, PubUnlock(p)
       PROVE  LockInv'
  BY <1>28 DEF PubUnlock, NoPub, Queued, TypeOK
<1>29. CASE UNCHANGED vars
  BY <1>29 DEF vars, Queued, TypeOK
<1>30. QED
  BY <1>1, <1>2, <1>3, <1>4, <1>5, <1>6, <1>7, <1>8, <1>9, <1>10, <1>11,
     <1>12, <1>13, <1>14, <1>15, <1>16, <1>17, <1>18, <1>19, <1>20, <1>21,
     <1>22, <1>23, <1>24, <1>25, <1>26, <1>27, <1>28, <1>29
     DEF Next, Workq, PubGoOn

(* Initially nobody resolves.                                              *)
LEMMA InitMatch == Init => MatchInv
BY DEF Init, MatchInv, Arming, Resolving, Claimed, NoPub, Locked, Queued, Has,
       TimerPending, NoStaleTimer

(* The match and the destination change while the await is being armed,    *)
(* when no publisher is resolving: its channel would be the one attached,  *)
(* and locked.                                                             *)
LEMMA NextMatch ==
  ASSUME Reliable, QuietArm
  PROVE  TypeOK /\ DriverInv /\ ~raced /\ HeldInv /\ LockInv /\ MatchInv
           /\ [Next]_vars
           => MatchInv'
<1> SUFFICES ASSUME TypeOK, DriverInv, ~raced, HeldInv, LockInv, MatchInv,
                    [Next]_vars
             PROVE  MatchInv'
  OBVIOUS
<1> USE StepsAssumption, AwaitsAssumption
<1> USE DEF Goto, PubGoto, flow, async, zephyr, locals, others
<1> USE DEF DriverInv, Exclusive, KickerDrives, PublisherDrives, Observed,
            HeldInv, HeldBy, Storing, Claimed, Handling, Reliable,
            LockInv, MatchInv, Arming, Locked, Resolving
<1>1. ASSUME NEW k \in Kickers, Kick(k)
      PROVE  MatchInv'
  BY <1>1 DEF Kick, Queued, TypeOK
<1>2. ASSUME NEW k \in Kickers, KickSubmit(k)
      PROVE  MatchInv'
  BY <1>2, WithItemLemma DEF KickSubmit, Items, Queued, TypeOK
<1>3. CASE Take
  BY <1>3, TailLemma DEF Take, HandlerOf, Items, Queued, TypeOK
<1>4. CASE Dispatch
  BY <1>4 DEF Dispatch, Queued, TypeOK
<1>5. CASE Submit
  BY <1>5, WithItemLemma DEF Submit, Items, Queued, TypeOK
<1>6. CASE Done
  BY <1>6 DEF Done, Queued, TypeOK
<1>7. ASSUME NEW fn \in Steps, StepNext(fn)
      PROVE  MatchInv'
  BY <1>7 DEF StepNext, Queued, TypeOK
<1>8. ASSUME NEW a \in Awaits, NEW fn \in Steps, Await(a, fn)
      PROVE  MatchInv'
  BY <1>8 DEF Await, Queued, TypeOK
<1>9. CASE AddObs
  BY <1>9 DEF AddObs, Queued, TypeOK
<1>10. CASE AddObsFails
  BY <1>10 DEF AddObsFails, Queued, TypeOK
<1>11. CASE StoreDst
  BY <1>11 DEF StoreDst, Queued, TypeOK
<1>12. CASE StoreMatch
  BY <1>12 DEF StoreMatch, Queued, TypeOK
<1>13. CASE StoreChan
  BY <1>13 DEF StoreChan, Queued, TypeOK
<1>14. CASE Schedule
  BY <1>14 DEF Schedule, Queued, TypeOK
<1>15. CASE ScheduleFails
  BY <1>15 DEF ScheduleFails, Queued, TypeOK
<1>16. CASE Disarm
  BY <1>16 DEF Disarm, Queued, TypeOK
<1>17. CASE Undo
  BY <1>17 DEF Undo, Queued, TypeOK
<1>18. CASE Cleanup
  BY <1>18 DEF Cleanup, RmObs, Queued, TypeOK
<1>19. CASE TimeoutClaim
  BY <1>19 DEF TimeoutClaim, AsyncClaim, Queued, TypeOK
<1>20. CASE TimeoutRm
  BY <1>20 DEF TimeoutRm, RmObs, Queued, TypeOK
<1>21. CASE Expire
  BY <1>21, WithItemLemma DEF Expire, Items, Queued, TypeOK
<1>22. ASSUME NEW p \in Publishers, NEW c \in Chans, NEW m \in Msgs,
              PubLock(p, c, m)
       PROVE  MatchInv'
  BY <1>22 DEF PubLock, Queued, TypeOK
<1>23. ASSUME NEW p \in Publishers, PubMatch(p)
       PROVE  MatchInv'
  BY <1>23 DEF PubMatch, Queued, TypeOK
<1>24. ASSUME NEW p \in Publishers, PubCopy(p)
       PROVE  MatchInv'
  BY <1>24 DEF PubCopy, Queued, TypeOK
<1>25. ASSUME NEW p \in Publishers, PubClaim(p)
       PROVE  MatchInv'
  BY <1>25 DEF PubClaim, AsyncClaim, Queued, TypeOK
<1>26. ASSUME NEW p \in Publishers, PubCancel(p)
       PROVE  MatchInv'
  BY <1>26, WithoutItemLemma DEF PubCancel, Items, Queued, TypeOK
<1>27. ASSUME NEW p \in Publishers, PubDefer(p)
       PROVE  MatchInv'
  BY <1>27, WithItemLemma DEF PubDefer, Items, Queued, TypeOK
<1>28. ASSUME NEW p \in Publishers, PubUnlock(p)
       PROVE  MatchInv'
  BY <1>28 DEF PubUnlock, NoPub, Queued, TypeOK
<1>29. CASE UNCHANGED vars
  BY <1>29 DEF vars, Queued, TypeOK
<1>30. QED
  BY <1>1, <1>2, <1>3, <1>4, <1>5, <1>6, <1>7, <1>8, <1>9, <1>10, <1>11,
     <1>12, <1>13, <1>14, <1>15, <1>16, <1>17, <1>18, <1>19, <1>20, <1>21,
     <1>22, <1>23, <1>24, <1>25, <1>26, <1>27, <1>28, <1>29
     DEF Next, Workq, PubGoOn

(* Initially there is no timer.                                            *)
LEMMA InitTimer == Init => TimerInv
BY DEF Init, TimerInv, Arming, Resolving, Claimed, NoPub, Locked, Queued, Has,
       TimerPending, NoStaleTimer

(* Only an armed await schedules the timer, and who claims it cancels it,  *)
(* or is the timer's own handler.                                          *)
LEMMA NextTimer ==
  ASSUME Reliable, QuietArm
  PROVE  TypeOK /\ DriverInv /\ ~raced /\ HeldInv /\ LockInv /\ MatchInv
           /\ TimerInv /\ [Next]_vars
           => TimerInv'
<1> SUFFICES ASSUME TypeOK, DriverInv, ~raced, HeldInv, LockInv, MatchInv,
                    TimerInv, [Next]_vars
             PROVE  TimerInv'
  OBVIOUS
<1> USE StepsAssumption, AwaitsAssumption
<1> USE DEF Goto, PubGoto, flow, async, zephyr, locals, others
<1> USE DEF DriverInv, Exclusive, KickerDrives, PublisherDrives, Observed,
            HeldInv, HeldBy, Storing, Claimed, Handling, Reliable,
            LockInv, TimerInv, NoStaleTimer, TimerPending, Arming,
            Locked, Resolving
<1>1. ASSUME NEW k \in Kickers, Kick(k)
      PROVE  TimerInv'
  BY <1>1 DEF Kick, Queued, TypeOK
<1>2. ASSUME NEW k \in Kickers, KickSubmit(k)
      PROVE  TimerInv'
  BY <1>2, WithItemLemma DEF KickSubmit, Items, Queued, TypeOK
<1>3. CASE Take
  BY <1>3, TailLemma DEF Take, HandlerOf, Items, Queued, TypeOK
<1>4. CASE Dispatch
  BY <1>4 DEF Dispatch, Queued, TypeOK
<1>5. CASE Submit
  BY <1>5, WithItemLemma DEF Submit, Items, Queued, TypeOK
<1>6. CASE Done
  BY <1>6 DEF Done, Queued, TypeOK
<1>7. ASSUME NEW fn \in Steps, StepNext(fn)
      PROVE  TimerInv'
  BY <1>7 DEF StepNext, Queued, TypeOK
<1>8. ASSUME NEW a \in Awaits, NEW fn \in Steps, Await(a, fn)
      PROVE  TimerInv'
  BY <1>8 DEF Await, Queued, TypeOK
<1>9. CASE AddObs
  BY <1>9 DEF AddObs, Queued, TypeOK
<1>10. CASE AddObsFails
  BY <1>10 DEF AddObsFails, Queued, TypeOK
<1>11. CASE StoreDst
  BY <1>11 DEF StoreDst, Queued, TypeOK
<1>12. CASE StoreMatch
  BY <1>12 DEF StoreMatch, Queued, TypeOK
<1>13. CASE StoreChan
  BY <1>13 DEF StoreChan, Queued, TypeOK
<1>14. CASE Schedule
  BY <1>14 DEF Schedule, Queued, TypeOK
<1>15. CASE ScheduleFails
  BY <1>15 DEF ScheduleFails, Queued, TypeOK
<1>16. CASE Disarm
  BY <1>16 DEF Disarm, Queued, TypeOK
<1>17. CASE Undo
  BY <1>17 DEF Undo, Queued, TypeOK
<1>18. CASE Cleanup
  BY <1>18 DEF Cleanup, RmObs, Queued, TypeOK
<1>19. CASE TimeoutClaim
  BY <1>19 DEF TimeoutClaim, AsyncClaim, Queued, TypeOK
<1>20. CASE TimeoutRm
  BY <1>20 DEF TimeoutRm, RmObs, Queued, TypeOK
<1>21. CASE Expire
  BY <1>21, WithItemLemma DEF Expire, Items, Queued, TypeOK
<1>22. ASSUME NEW p \in Publishers, NEW c \in Chans, NEW m \in Msgs,
              PubLock(p, c, m)
       PROVE  TimerInv'
  BY <1>22 DEF PubLock, Queued, TypeOK
<1>23. ASSUME NEW p \in Publishers, PubMatch(p)
       PROVE  TimerInv'
  BY <1>23 DEF PubMatch, Queued, TypeOK
<1>24. ASSUME NEW p \in Publishers, PubCopy(p)
       PROVE  TimerInv'
  BY <1>24 DEF PubCopy, Queued, TypeOK
<1>25. ASSUME NEW p \in Publishers, PubClaim(p)
       PROVE  TimerInv'
  BY <1>25 DEF PubClaim, AsyncClaim, Queued, TypeOK
<1>26. ASSUME NEW p \in Publishers, PubCancel(p)
       PROVE  TimerInv'
  BY <1>26, WithoutItemLemma DEF PubCancel, Items, Queued, TypeOK
<1>27. ASSUME NEW p \in Publishers, PubDefer(p)
       PROVE  TimerInv'
  BY <1>27, WithItemLemma DEF PubDefer, Items, Queued, TypeOK
<1>28. ASSUME NEW p \in Publishers, PubUnlock(p)
       PROVE  TimerInv'
  BY <1>28 DEF PubUnlock, NoPub, Queued, TypeOK
<1>29. CASE UNCHANGED vars
  BY <1>29 DEF vars, Queued, TypeOK
<1>30. QED
  BY <1>1, <1>2, <1>3, <1>4, <1>5, <1>6, <1>7, <1>8, <1>9, <1>10, <1>11,
     <1>12, <1>13, <1>14, <1>15, <1>16, <1>17, <1>18, <1>19, <1>20, <1>21,
     <1>22, <1>23, <1>24, <1>25, <1>26, <1>27, <1>28, <1>29
     DEF Next, Workq, PubGoOn

(* The three hold together.                                                *)
LEMMA QuietInvariant ==
  ASSUME Reliable, QuietArm
  PROVE  Spec => [](LockInv /\ MatchInv /\ TimerInv)
<1>1. Init => LockInv /\ MatchInv /\ TimerInv
  BY InitLock, InitMatch, InitTimer
<1>2. TypeOK /\ DriverInv /\ ~raced /\ HeldInv /\ LockInv /\ [Next]_vars
        => LockInv'
  BY NextLock
<1>3. TypeOK /\ DriverInv /\ ~raced /\ HeldInv /\ LockInv /\ MatchInv
        /\ [Next]_vars => MatchInv'
  BY NextMatch
<1>4. TypeOK /\ DriverInv /\ ~raced /\ HeldInv /\ LockInv /\ MatchInv
        /\ TimerInv /\ [Next]_vars => TimerInv'
  BY NextTimer
<1>5. Spec => [](~raced)
  BY NeverRaced DEF Reliable
<1>6. QED
  BY <1>1, <1>2, <1>3, <1>4, <1>5, TypeCorrect, DriverInvariant,
     HeldInvariant, PTL DEF Spec

(* A claimed await leaves no timer behind that could end a later one, when *)
(* nobody publishes on a channel that is being armed.                      *)
THEOREM NoStaleTimerAlways ==
  ASSUME Reliable, QuietArm
  PROVE  Spec => []NoStaleTimer
<1>1. TimerInv => NoStaleTimer
  BY DEF TimerInv
<1>2. QED
  BY <1>1, QuietInvariant, PTL

(* The publication that resolves an await is one on its channel that its   *)
(* match accepts, and so is the message that its destination holds.        *)
THEOREM EventQualifiesAlways ==
  ASSUME Reliable, QuietArm
  PROVE  Spec => []EventQualifies
<1>1. MatchInv => EventQualifies
  BY DEF MatchInv, EventQualifies, Claimed, Resolving
<1>2. QED
  BY <1>1, QuietInvariant, PTL

-----------------------------------------------------------------------------
(* The flow that the callers see.                                          *)

(* Initially there is no kick.                                             *)
LEMMA InitKick == Init => NoKickLeftBehind
BY DEF Init, NoKickLeftBehind

(* No await is dropped when no call fails, so that a flow ends by done     *)
(* alone, which takes the deferred kick along.                             *)
LEMMA NextKick ==
  ASSUME ApiErrors = {}
  PROVE  TypeOK /\ DriverInv /\ ~raced /\ HeldInv /\ NoKickLeftBehind
           /\ [Next]_vars => NoKickLeftBehind'
<1> SUFFICES ASSUME TypeOK, DriverInv, ~raced, HeldInv, NoKickLeftBehind,
                    [Next]_vars
             PROVE  NoKickLeftBehind'
  OBVIOUS
<1> USE StepsAssumption, AwaitsAssumption
<1> USE DEF NoKickLeftBehind, Goto, PubGoto, flow, async, zephyr, locals,
            others
<1>1. ASSUME NEW k \in Kickers, Kick(k)
      PROVE  NoKickLeftBehind'
  BY <1>1 DEF Kick
<1>2. ASSUME NEW k \in Kickers, KickSubmit(k)
      PROVE  NoKickLeftBehind'
  BY <1>2, WithItemLemma DEF KickSubmit, Items
<1>3. CASE Take
  BY <1>3, TailLemma DEF Take, HandlerOf, Items
<1>4. CASE Dispatch
  BY <1>4 DEF Dispatch
<1>5. CASE Submit
  BY <1>5, WithItemLemma DEF Submit, Items
<1>6. CASE Done
  BY <1>6 DEF Done
<1>7. ASSUME NEW fn \in Steps, StepNext(fn)
      PROVE  NoKickLeftBehind'
  BY <1>7 DEF StepNext, TypeOK
<1>8. ASSUME NEW a \in Awaits, NEW fn \in Steps, Await(a, fn)
      PROVE  NoKickLeftBehind'
  BY <1>8 DEF Await, TypeOK
<1>9. CASE AddObs
  BY <1>9 DEF AddObs
<1>10. CASE AddObsFails
  BY <1>10 DEF AddObsFails, DriverInv, Exclusive, PublisherDrives, Handling,
         HeldInv, HeldBy, Storing, TypeOK
<1>11. CASE StoreDst
  BY <1>11 DEF StoreDst
<1>12. CASE StoreMatch
  BY <1>12 DEF StoreMatch
<1>13. CASE StoreChan
  BY <1>13 DEF StoreChan
<1>14. CASE Schedule
  BY <1>14 DEF Schedule
<1>15. CASE ScheduleFails
  BY <1>15 DEF ScheduleFails
<1>16. CASE Disarm
  BY <1>16 DEF Disarm
<1>17. CASE Undo
  BY <1>17 DEF Undo, HeldInv
<1>18. CASE Cleanup
  BY <1>18 DEF Cleanup, RmObs
<1>19. CASE TimeoutClaim
  BY <1>19 DEF TimeoutClaim, AsyncClaim
<1>20. CASE TimeoutRm
  BY <1>20 DEF TimeoutRm, RmObs
<1>21. CASE Expire
  BY <1>21, WithItemLemma DEF Expire, Items
<1>22. ASSUME NEW p \in Publishers, NEW c \in Chans, NEW m \in Msgs,
              PubLock(p, c, m)
       PROVE  NoKickLeftBehind'
  BY <1>22 DEF PubLock
<1>23. ASSUME NEW p \in Publishers, PubMatch(p)
       PROVE  NoKickLeftBehind'
  BY <1>23 DEF PubMatch
<1>24. ASSUME NEW p \in Publishers, PubCopy(p)
       PROVE  NoKickLeftBehind'
  BY <1>24 DEF PubCopy
<1>25. ASSUME NEW p \in Publishers, PubClaim(p)
       PROVE  NoKickLeftBehind'
  BY <1>25 DEF PubClaim, AsyncClaim
<1>26. ASSUME NEW p \in Publishers, PubCancel(p)
       PROVE  NoKickLeftBehind'
  BY <1>26, WithoutItemLemma DEF PubCancel, Items
<1>27. ASSUME NEW p \in Publishers, PubDefer(p)
       PROVE  NoKickLeftBehind'
  BY <1>27, WithItemLemma DEF PubDefer, Items, TypeOK
<1>28. ASSUME NEW p \in Publishers, PubUnlock(p)
       PROVE  NoKickLeftBehind'
  BY <1>28 DEF PubUnlock, NoPub
<1>29. CASE UNCHANGED vars
  BY <1>29 DEF vars
<1>30. QED
  BY <1>1, <1>2, <1>3, <1>4, <1>5, <1>6, <1>7, <1>8, <1>9, <1>10, <1>11,
     <1>12, <1>13, <1>14, <1>15, <1>16, <1>17, <1>18, <1>19, <1>20, <1>21,
     <1>22, <1>23, <1>24, <1>25, <1>26, <1>27, <1>28, <1>29
     DEF Next, Workq, PubGoOn

(* A kick deferred while the flow ran is never left behind on an idle      *)
(* coordinator, when no call fails.                                        *)
THEOREM NoKickLeftBehindAlways ==
  ASSUME ApiErrors = {}
  PROVE  Spec => []NoKickLeftBehind
<1>1. Init => NoKickLeftBehind
  BY InitKick
<1>2. TypeOK /\ DriverInv /\ ~raced /\ HeldInv /\ NoKickLeftBehind
        /\ [Next]_vars => NoKickLeftBehind'
  BY NextKick
<1>3. Spec => [](~raced)
  BY NeverRaced
<1>4. Spec => []HeldInv
  BY HeldInvariant DEF Reliable
<1>5. QED
  BY <1>1, <1>2, <1>3, <1>4, TypeCorrect, DriverInvariant, PTL DEF Spec

(* The coordinator starts as an idle flow.                                 *)
LEMMA InitFlow == Init => Flow!Init
BY DEF Init, Flow!Init, Phase

(* One step of the coordinator is one step of the flow, or none.           *)
LEMMA NextFlow ==
  ASSUME ApiErrors = {}, QuietArm
  PROVE  TypeOK /\ DriverInv /\ ~raced /\ HeldInv /\ TimerInv
           /\ NoKickLeftBehind /\ [Next]_vars
           => [Flow!Next]_(Flow!vars)
<1> SUFFICES ASSUME TypeOK, DriverInv, ~raced, HeldInv, TimerInv,
                    NoKickLeftBehind, [Next]_vars
             PROVE  [Flow!Next]_(Flow!vars)
  OBVIOUS
<1> USE StepsAssumption, AwaitsAssumption
<1> USE DEF DriverInv, Exclusive, KickerDrives, PublisherDrives, Handling,
            Claimed, TimerInv, HeldInv, NoKickLeftBehind, Arming, Phase,
            Goto, PubGoto, flow, async, zephyr, locals, others, Flow!vars,
            Flow!Next, Flow!Move
<1>1. ASSUME NEW k \in Kickers, Kick(k)
      PROVE  [Flow!Next]_(Flow!vars)
  BY <1>1 DEF Kick, Flow!Kick, TypeOK
<1>2. ASSUME NEW k \in Kickers, KickSubmit(k)
      PROVE  [Flow!Next]_(Flow!vars)
  BY <1>2, WithItemLemma DEF KickSubmit, Items, TypeOK
<1>3. CASE Take
  BY <1>3, TailLemma DEF Take, HandlerOf, Items, TypeOK
<1>4. CASE Dispatch
  BY <1>4 DEF Dispatch, Flow!Begin, TypeOK
<1>5. CASE Submit
  BY <1>5, WithItemLemma DEF Submit, Items, TypeOK
<1>6. CASE Done
  BY <1>6 DEF Done, Flow!Done, TypeOK
<1>7. ASSUME NEW fn \in Steps, StepNext(fn)
      PROVE  [Flow!Next]_(Flow!vars)
  BY <1>7 DEF StepNext, Flow!NextUp, TypeOK
<1>8. ASSUME NEW a \in Awaits, NEW fn \in Steps, Await(a, fn)
      PROVE  [Flow!Next]_(Flow!vars)
  BY <1>8 DEF Await, TypeOK
<1>9. CASE AddObs
  BY <1>9 DEF AddObs, TypeOK
<1>10. CASE AddObsFails
  BY <1>10 DEF AddObsFails, HeldBy, Storing, TypeOK
<1>11. CASE StoreDst
  BY <1>11 DEF StoreDst, TypeOK
<1>12. CASE StoreMatch
  BY <1>12 DEF StoreMatch, TypeOK
<1>13. CASE StoreChan
  BY <1>13 DEF StoreChan, Flow!Suspend, TypeOK
<1>14. CASE Schedule
  BY <1>14 DEF Schedule, TypeOK
<1>15. CASE ScheduleFails
  BY <1>15 DEF ScheduleFails, TypeOK
<1>16. CASE Disarm
  BY <1>16 DEF Disarm, TypeOK
<1>17. CASE Undo
  BY <1>17 DEF Undo, TypeOK
<1>18. CASE Cleanup
  BY <1>18 DEF Cleanup, RmObs, TypeOK
<1>19. CASE TimeoutClaim
  BY <1>19 DEF TimeoutClaim, AsyncClaim, Flow!Resume, TypeOK
<1>20. CASE TimeoutRm
  BY <1>20 DEF TimeoutRm, RmObs, TypeOK
<1>21. CASE Expire
  BY <1>21, WithItemLemma DEF Expire, Items, TypeOK
<1>22. ASSUME NEW p \in Publishers, NEW c \in Chans, NEW m \in Msgs,
              PubLock(p, c, m)
       PROVE  [Flow!Next]_(Flow!vars)
  BY <1>22 DEF PubLock, TypeOK
<1>23. ASSUME NEW p \in Publishers, PubMatch(p)
       PROVE  [Flow!Next]_(Flow!vars)
  BY <1>23 DEF PubMatch, TypeOK
<1>24. ASSUME NEW p \in Publishers, PubCopy(p)
       PROVE  [Flow!Next]_(Flow!vars)
  BY <1>24 DEF PubCopy, TypeOK
<1>25. ASSUME NEW p \in Publishers, PubClaim(p)
       PROVE  [Flow!Next]_(Flow!vars)
  BY <1>25 DEF PubClaim, AsyncClaim, Flow!Resume, TypeOK
<1>26. ASSUME NEW p \in Publishers, PubCancel(p)
       PROVE  [Flow!Next]_(Flow!vars)
  BY <1>26, WithoutItemLemma DEF PubCancel, Items, TypeOK
<1>27. ASSUME NEW p \in Publishers, PubDefer(p)
       PROVE  [Flow!Next]_(Flow!vars)
  BY <1>27, WithItemLemma DEF PubDefer, Items, TypeOK
<1>28. ASSUME NEW p \in Publishers, PubUnlock(p)
       PROVE  [Flow!Next]_(Flow!vars)
  BY <1>28 DEF PubUnlock, NoPub, TypeOK
<1>29. CASE UNCHANGED vars
  BY <1>29 DEF vars, TypeOK
<1>30. QED
  BY <1>1, <1>2, <1>3, <1>4, <1>5, <1>6, <1>7, <1>8, <1>9, <1>10, <1>11,
     <1>12, <1>13, <1>14, <1>15, <1>16, <1>17, <1>18, <1>19, <1>20, <1>21,
     <1>22, <1>23, <1>24, <1>25, <1>26, <1>27, <1>28, <1>29
     DEF Next, Workq, PubGoOn

(* The coordinator implements the flow that zephlet_coord.h describes, as  *)
(* far as safety goes: each of its steps, whatever the threads, is one     *)
(* step of the flow or none, when no call fails and nobody publishes on a  *)
(* channel that is being armed.                                            *)
THEOREM FlowImplemented ==
  ASSUME ApiErrors = {}, QuietArm
  PROVE  Spec => Flow!Safety
<1>1. Init => Flow!Init
  BY InitFlow
<1>2. TypeOK /\ DriverInv /\ ~raced /\ HeldInv /\ TimerInv
        /\ NoKickLeftBehind /\ [Next]_vars => [Flow!Next]_(Flow!vars)
  BY NextFlow
<1>3. Spec => [](~raced)
  BY NeverRaced
<1>4. Spec => []HeldInv
  BY HeldInvariant DEF Reliable
<1>5. Spec => [](LockInv /\ MatchInv /\ TimerInv)
  BY QuietInvariant DEF Reliable
<1>6. Spec => []NoKickLeftBehind
  BY NoKickLeftBehindAlways
<1>7. QED
  BY <1>1, <1>2, <1>3, <1>4, <1>5, <1>6, TypeCorrect, DriverInvariant, PTL
     DEF Spec, Flow!Safety

===============================================================================
