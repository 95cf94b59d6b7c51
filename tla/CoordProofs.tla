----------------------------- MODULE CoordProofs -----------------------------
(* Proofs about the coordinator, for any number of kickers, publishers,     *)
(* channels, messages and steps, and with every Zephyr call allowed to fail.*)
EXTENDS Coord, SequenceTheorems, TLAPS

-----------------------------------------------------------------------------
(* The list of the work queue.                                             *)

(* Submitting an item adds it at most once.                                *)
LEMMA WithItemLemma ==
  ASSUME workq \in Seq(Items), Distinct(workq), NEW item \in Items
  PROVE  /\ WithItem(item) \in Seq(Items)
         /\ Distinct(WithItem(item))
         /\ \A x : Has(WithItem(item), x) <=> Queued(x) \/ x = item
<1>1. CASE Queued(item)
  BY <1>1 DEF WithItem, Queued
<1>2. CASE ~Queued(item)
  <2> DEFINE q == Append(workq, item)
  <2>1. WithItem(item) = q
    BY <1>2 DEF WithItem
  <2>2. /\ q \in Seq(Items)
        /\ Len(q) = Len(workq) + 1
        /\ q[Len(workq) + 1] = item
        /\ \A i \in 1..Len(workq) : q[i] = workq[i]
    OBVIOUS
  <2>3. Len(workq) \in Nat
    OBVIOUS
  <2> HIDE DEF q
  <2>4. \A i \in 1..Len(q) : i \in 1..Len(workq) \/ i = Len(workq) + 1
    BY <2>2, <2>3
  <2>5. Distinct(q)
    BY <1>2, <2>2, <2>3, <2>4 DEF Distinct, Queued, Has
  <2>6. \A x : Has(q, x) <=> Queued(x) \/ x = item
    BY <2>2, <2>3, <2>4 DEF Queued, Has
  <2>7. QED
    BY <2>1, <2>2, <2>5, <2>6
<1>3. QED
  BY <1>1, <1>2

(* Taking the oldest item leaves the other ones.                           *)
LEMMA TailLemma ==
  ASSUME workq \in Seq(Items), Distinct(workq), workq # <<>>
  PROVE  /\ Head(workq) \in Items
         /\ Queued(Head(workq))
         /\ Tail(workq) \in Seq(Items)
         /\ Distinct(Tail(workq))
         /\ \A x : Has(Tail(workq), x) <=> Queued(x) /\ x # Head(workq)
<1> DEFINE q == Tail(workq)
<1>1. /\ q \in Seq(Items)
      /\ Len(q) = Len(workq) - 1
      /\ \A i \in 1..Len(q) : q[i] = workq[i + 1]
      /\ Len(workq) \in Nat
      /\ Len(workq) # 0
      /\ Head(workq) = workq[1]
      /\ Head(workq) \in Items
  OBVIOUS
<1> HIDE DEF q
<1>2. Queued(Head(workq))
  BY <1>1 DEF Queued, Has
<1>3. Distinct(q)
  <2>1. SUFFICES ASSUME NEW i \in 1..Len(q), NEW j \in 1..Len(q), q[i] = q[j]
                 PROVE  i = j
    BY DEF Distinct
  <2>2. i + 1 \in 1..Len(workq) /\ j + 1 \in 1..Len(workq)
    BY <1>1
  <2>3. QED
    BY <1>1, <2>1, <2>2 DEF Distinct
<1>4. ASSUME NEW x PROVE Has(q, x) <=> Queued(x) /\ x # Head(workq)
  <2>1. ASSUME NEW i \in 1..Len(q), q[i] = x
        PROVE  Queued(x) /\ x # Head(workq)
    <3>1. i + 1 \in 1..Len(workq) /\ 1 \in 1..Len(workq) /\ i + 1 # 1
      BY <1>1
    <3>2. workq[i + 1] = x
      BY <1>1, <2>1
    <3>3. QED
      BY <1>1, <3>1, <3>2 DEF Queued, Has, Distinct
  <2>2. ASSUME NEW i \in 1..Len(workq), workq[i] = x, x # Head(workq)
        PROVE  Has(q, x)
    <3>1. i - 1 \in 1..Len(q) /\ (i - 1) + 1 = i
      BY <1>1, <2>2
    <3>2. QED
      BY <1>1, <2>2, <3>1 DEF Has
  <2>3. QED
    BY <2>1, <2>2 DEF Has, Queued
<1>5. QED
  BY <1>1, <1>2, <1>3, <1>4 DEF q

(* Cancelling the timer removes its item and no other.                     *)
LEMMA WithoutItemLemma ==
  ASSUME workq \in Seq(Items), Distinct(workq), NEW item \in Items
  PROVE  /\ WithoutItem(item) \in Seq(Items)
         /\ Distinct(WithoutItem(item))
         /\ \A x : Has(WithoutItem(item), x) <=> Queued(x) /\ x # item
<1>1. CASE ~Queued(item)
  BY <1>1 DEF WithoutItem, Queued, Has
<1>2. CASE Queued(item)
  <2> DEFINE k == CHOOSE i \in 1..Len(workq) : workq[i] = item
             n == Len(workq) - 1
             q == [i \in 1..n |-> IF i < k THEN workq[i] ELSE workq[i + 1]]
  <2>1. WithoutItem(item) = q
    BY <1>2 DEF WithoutItem
  <2>2. k \in 1..Len(workq) /\ workq[k] = item
    BY <1>2 DEF Queued, Has
  <2>3. Len(workq) \in Nat /\ n \in Nat /\ k \in Nat
    BY <2>2
  <2>4. \A i \in 1..n : q[i] = IF i < k THEN workq[i] ELSE workq[i + 1]
    OBVIOUS
  <2>5. \A i \in 1..Len(workq) : workq[i] \in Items
    OBVIOUS
  <2>6. q \in [1..n -> Items]
    BY <2>2, <2>3, <2>5
  <2>7. q \in Seq(Items) /\ Len(q) = n
    BY <2>3, <2>6
  <2> HIDE DEF k, q
  <2>8. Distinct(q)
    <3>1. SUFFICES ASSUME NEW i \in 1..n, NEW j \in 1..n, q[i] = q[j]
                   PROVE  i = j
      BY <2>7 DEF Distinct
    <3>2. /\ i \in 1..Len(workq) /\ i + 1 \in 1..Len(workq)
          /\ j \in 1..Len(workq) /\ j + 1 \in 1..Len(workq)
      BY <2>3
    <3>3. QED
      BY <2>3, <2>4, <3>1, <3>2 DEF Distinct
  <2>9. ASSUME NEW x PROVE Has(q, x) <=> Queued(x) /\ x # item
    <3>1. ASSUME NEW i \in 1..n, q[i] = x
          PROVE  Queued(x) /\ x # item
      <4>1. i \in 1..Len(workq) /\ i + 1 \in 1..Len(workq)
        BY <2>3
      <4>2. QED
        BY <2>2, <2>3, <2>4, <3>1, <4>1 DEF Queued, Has, Distinct
    <3>2. ASSUME NEW i \in 1..Len(workq), workq[i] = x, x # item
          PROVE  Has(q, x)
      <4>1. CASE i < k
        <5>1. i \in 1..n
          BY <2>2, <2>3, <4>1
        <5>2. QED
          BY <2>4, <2>7, <3>2, <4>1, <5>1 DEF Has
      <4>2. CASE i > k
        <5>1. i - 1 \in 1..n /\ ~(i - 1 < k) /\ (i - 1) + 1 = i
          BY <2>2, <2>3, <4>2
        <5>2. QED
          BY <2>4, <2>7, <3>2, <5>1 DEF Has
      <4>3. QED
        BY <2>2, <2>3, <3>2, <4>1, <4>2
    <3>3. QED
      BY <2>7, <3>1, <3>2 DEF Has, Queued
  <2>10. QED
    BY <2>1, <2>7, <2>8, <2>9
<1>3. QED
  BY <1>1, <1>2

-----------------------------------------------------------------------------
(* Types.                                                                  *)

LEMMA InitTypes == Init => TypeOK
<1> SUFFICES ASSUME Init
             PROVE  TypeOK
  OBVIOUS
<1>1. workq \in Seq(Items) /\ Distinct(workq)
  BY DEF Init, Distinct
<1>2. /\ wpc \in WorkqPoints
      /\ wpc \in {"add_obs", "disarm", "undo"} \/ Arming => wargs \in Awaits
      /\ wpc = "step" => current \in Steps
      /\ wpc = "timeout_rm" => wchan \in Chans
  BY DEF Init, WorkqPoints, Arming
<1>3. pub \in [Publishers -> [pc: PubPoints, chan: Chans \cup {NULL},
                              msg: Msgs \cup {NULL},
                              claimed: Chans \cup {NULL}]]
  BY DEF Init, NoPub, PubPoints
<1>4. \A p \in Publishers : pub[p].pc = "idle"
  BY DEF Init, NoPub
<1>5. QED
  BY <1>1, <1>2, <1>3, <1>4 DEF Init, TypeOK, Claimed

(* The removal of an observer keeps the set of attached channels.          *)
LEMMA RmObsTypes ==
  ASSUME attached \in SUBSET Chans, NEW c, RmObs(c)
  PROVE  attached' \in SUBSET Chans
BY DEF RmObs

LEMMA NextTypes == TypeOK /\ [Next]_vars => TypeOK'
<1> SUFFICES ASSUME TypeOK, [Next]_vars
             PROVE  TypeOK'
  OBVIOUS
<1> USE StepsAssumption, AwaitsAssumption
<1> USE DEF TypeOK, flow, async, zephyr, locals, others, Arming, Claimed,
            WorkqPoints, Handling, PubPoints, Goto, PubGoto
<1>1. ASSUME NEW k \in Kickers, Kick(k)
      PROVE  TypeOK'
  <2>1. CASE current # NULL
    BY <1>1, <2>1 DEF Kick
  <2>2. CASE current = NULL
    BY <1>1, <2>2 DEF Kick
  <2>3. QED
    BY <2>1, <2>2
<1>2. ASSUME NEW k \in Kickers, KickSubmit(k)
      PROVE  TypeOK'
  BY <1>2, WithItemLemma DEF KickSubmit, Items
<1>3. CASE Take
  BY <1>3, TailLemma DEF Take, HandlerOf, Items
<1>4. CASE Dispatch
  BY <1>4 DEF Dispatch
<1>5. CASE Submit
  BY <1>5, WithItemLemma DEF Submit, Items
<1>6. CASE Done
  BY <1>6 DEF Done
<1>7. ASSUME NEW fn \in Steps, StepNext(fn)
      PROVE  TypeOK'
  BY <1>7 DEF StepNext
<1>8. ASSUME NEW a \in Awaits, NEW fn \in Steps, Await(a, fn)
      PROVE  TypeOK'
  BY <1>8 DEF Await
<1>9. CASE AddObs
  BY <1>9 DEF AddObs
<1>10. CASE AddObsFails
  BY <1>10 DEF AddObsFails
<1>11. CASE StoreDst
  BY <1>11 DEF StoreDst
<1>12. CASE StoreMatch
  BY <1>12 DEF StoreMatch
<1>13. CASE StoreChan
  BY <1>13 DEF StoreChan
<1>14. CASE Schedule
  BY <1>14 DEF Schedule
<1>15. CASE ScheduleFails
  BY <1>15 DEF ScheduleFails
<1>16. CASE Disarm
  BY <1>16 DEF Disarm
<1>17. CASE Undo
  BY <1>17, RmObsTypes DEF Undo
<1>18. CASE Cleanup
  BY <1>18, RmObsTypes DEF Cleanup
<1>19. CASE TimeoutClaim
  BY <1>19 DEF TimeoutClaim, AsyncClaim
<1>20. CASE TimeoutRm
  BY <1>20, RmObsTypes DEF TimeoutRm
<1>21. CASE Expire
  BY <1>21, WithItemLemma DEF Expire, Items
<1>22. ASSUME NEW p \in Publishers, NEW c \in Chans, NEW m \in Msgs,
              PubLock(p, c, m)
       PROVE  TypeOK'
  BY <1>22 DEF PubLock
<1>23. ASSUME NEW p \in Publishers, PubMatch(p)
       PROVE  TypeOK'
  <2>1. PICK to \in {"copy", "unlock"} : pub' = [pub EXCEPT ![p].pc = to]
    BY <1>23 DEF PubMatch
  <2>2. pub[p].pc = "listen"
    BY <1>23 DEF PubMatch
  <2>3. QED
    BY <1>23, <2>1, <2>2 DEF PubMatch
<1>24. ASSUME NEW p \in Publishers, PubCopy(p)
       PROVE  TypeOK'
  BY <1>24 DEF PubCopy
<1>25. ASSUME NEW p \in Publishers, PubClaim(p)
       PROVE  TypeOK'
  BY <1>25 DEF PubClaim, AsyncClaim
<1>26. ASSUME NEW p \in Publishers, PubCancel(p)
       PROVE  TypeOK'
  BY <1>26, WithoutItemLemma DEF PubCancel, Items
<1>27. ASSUME NEW p \in Publishers, PubDefer(p)
       PROVE  TypeOK'
  <2>1. /\ pub[p].pc = "defer"
        /\ pub' = [pub EXCEPT ![p].pc = "unlock"]
        /\ pending_rm' \in Chans
    BY <1>27 DEF PubDefer
  <2>2. workq' \in Seq(Items) /\ Distinct(workq')
    BY <1>27, WithItemLemma DEF PubDefer, Items
  <2>3. pub' \in [Publishers -> [pc: PubPoints, chan: Chans \cup {NULL},
                                 msg: Msgs \cup {NULL},
                                 claimed: Chans \cup {NULL}]]
    BY <2>1
  <2>4. ASSUME NEW q \in Publishers
        PROVE  /\ (pub[q].pc # "idle")' =>
                     (pub[q].chan \in Chans /\ pub[q].msg \in Msgs)'
               /\ Claimed(q)' => (pub[q].claimed \in Chans)'
    BY <2>1
  <2>5. QED
    BY <1>27, <2>1, <2>2, <2>3, <2>4 DEF PubDefer
<1>28. ASSUME NEW p \in Publishers, PubUnlock(p)
       PROVE  TypeOK'
  BY <1>28 DEF PubUnlock, NoPub
<1>29. CASE UNCHANGED vars
  BY <1>29 DEF vars
<1>30. QED
  BY <1>1, <1>2, <1>3, <1>4, <1>5, <1>6, <1>7, <1>8, <1>9, <1>10, <1>11,
     <1>12, <1>13, <1>14, <1>15, <1>16, <1>17, <1>18, <1>19, <1>20, <1>21,
     <1>22, <1>23, <1>24, <1>25, <1>26, <1>27, <1>28, <1>29
     DEF Next, Workq, PubGoOn

(* Every variable keeps its type, the list of the work queue holds an item *)
(* at most once, and whoever goes on after a claim holds a channel.        *)
THEOREM TypeCorrect == Spec => []TypeOK
BY InitTypes, NextTypes, PTL DEF Spec

-----------------------------------------------------------------------------
(* One driver.                                                             *)

KickerDrives    == \E k \in Kickers : kpc[k] = "submit"
PublisherDrives == \E p \in Publishers : Claimed(p)

(* OneDriver without sets: each kind of driver excludes the others.        *)
Exclusive ==
  /\ Queued("work") \/ Queued("cleanup") \/ KickerDrives \/ PublisherDrives
       \/ wpc \in Handling \/ chan # NULL
     <=> current # NULL
  /\ Queued("work") =>
       /\ ~Queued("cleanup") /\ ~KickerDrives /\ ~PublisherDrives
       /\ wpc \notin Handling /\ chan = NULL
  /\ Queued("cleanup") =>
       /\ ~KickerDrives /\ ~PublisherDrives
       /\ wpc \notin Handling /\ chan = NULL
  /\ KickerDrives => ~PublisherDrives /\ wpc \notin Handling /\ chan = NULL
  /\ PublisherDrives => wpc \notin Handling /\ chan = NULL
  /\ wpc \in Handling => chan = NULL
  /\ \A k, l \in Kickers :
       kpc[k] = "submit" /\ kpc[l] = "submit" => k = l
  /\ \A p, q \in Publishers : Claimed(p) /\ Claimed(q) => p = q

(* The observer is on the channel from its attachment to the claim.        *)
Observed ==
  /\ chan # NULL => chan \in attached
  /\ wpc \in {"store_dst", "store_match", "store_chan"} =>
       wargs.chan \in attached

(* The inductive invariant.                                                *)
DriverInv == ~raced => Exclusive /\ Observed

LEMMA InitDriver == Init => DriverInv
BY DEF Init, DriverInv, Exclusive, Observed, KickerDrives, PublisherDrives,
       Claimed, NoPub, Queued, Has, Handling

LEMMA NextDriver == TypeOK /\ DriverInv /\ [Next]_vars => DriverInv'
<1> SUFFICES ASSUME TypeOK, DriverInv, [Next]_vars
             PROVE  DriverInv'
  OBVIOUS
<1> USE StepsAssumption, AwaitsAssumption
<1> USE DEF DriverInv, Exclusive, Observed, KickerDrives, PublisherDrives,
            Claimed, Handling, Goto, PubGoto, flow, async, zephyr, locals,
            others
<1>1. ASSUME NEW k \in Kickers, Kick(k)
      PROVE  DriverInv'
  BY <1>1 DEF Kick, Queued, TypeOK
<1>2. ASSUME NEW k \in Kickers, KickSubmit(k)
      PROVE  DriverInv'
  BY <1>2, WithItemLemma DEF KickSubmit, Queued, Items, TypeOK
<1>3. CASE Take
  BY <1>3, TailLemma DEF Take, Queued, HandlerOf, Items, TypeOK
<1>4. CASE Dispatch
  BY <1>4 DEF Dispatch, Queued, TypeOK
<1>5. CASE Submit
  BY <1>5, WithItemLemma DEF Submit, Queued, Items, TypeOK
<1>6. CASE Done
  BY <1>6 DEF Done, Queued, TypeOK
<1>7. ASSUME NEW fn \in Steps, StepNext(fn)
      PROVE  DriverInv'
  BY <1>7 DEF StepNext, Queued, TypeOK
<1>8. ASSUME NEW a \in Awaits, NEW fn \in Steps,
              Await(a, fn)
      PROVE  DriverInv'
  BY <1>8 DEF Await, Queued, TypeOK
<1>9. CASE AddObs
  BY <1>9 DEF AddObs, Queued, TypeOK
<1>10. CASE AddObsFails
  BY <1>10 DEF AddObsFails, Queued, TypeOK
<1>11. CASE StoreDst
  BY <1>11 DEF StoreDst, Queued, TypeOK
<1>12. CASE StoreMatch
  BY <1>12 DEF StoreMatch, Queued, TypeOK
<1>13. CASE StoreChan
  BY <1>13 DEF StoreChan, Queued, TypeOK
<1>14. CASE Schedule
  BY <1>14 DEF Schedule, Queued, TypeOK
<1>15. CASE ScheduleFails
  BY <1>15 DEF ScheduleFails, Queued, TypeOK
<1>16. CASE Disarm
  BY <1>16 DEF Disarm, Queued, TypeOK
<1>17. CASE Undo
  BY <1>17 DEF Undo, Queued, TypeOK, RmObs
<1>18. CASE Cleanup
  BY <1>18 DEF Cleanup, Queued, TypeOK, RmObs
<1>19. CASE TimeoutClaim
  BY <1>19 DEF TimeoutClaim, AsyncClaim, Queued, TypeOK
<1>20. CASE TimeoutRm
  BY <1>20 DEF TimeoutRm, Queued, TypeOK, RmObs
<1>21. CASE Expire
  BY <1>21, WithItemLemma DEF Expire, Queued, Items, TypeOK
<1>22. ASSUME NEW p \in Publishers, NEW c \in Chans, NEW m \in Msgs,
              PubLock(p, c, m)
      PROVE  DriverInv'
  BY <1>22 DEF PubLock, Queued, TypeOK
<1>23. ASSUME NEW p \in Publishers, PubMatch(p)
      PROVE  DriverInv'
  BY <1>23 DEF PubMatch, Queued, TypeOK
<1>24. ASSUME NEW p \in Publishers, PubCopy(p)
      PROVE  DriverInv'
  BY <1>24 DEF PubCopy, Queued, TypeOK
<1>25. ASSUME NEW p \in Publishers, PubClaim(p)
      PROVE  DriverInv'
  BY <1>25 DEF PubClaim, AsyncClaim, Queued, TypeOK
<1>26. ASSUME NEW p \in Publishers, PubCancel(p)
      PROVE  DriverInv'
  BY <1>26, WithoutItemLemma DEF PubCancel, Queued, Items, TypeOK
<1>27. ASSUME NEW p \in Publishers, PubDefer(p)
      PROVE  DriverInv'
  BY <1>27, WithItemLemma DEF PubDefer, Queued, Items, TypeOK
<1>28. ASSUME NEW p \in Publishers, PubUnlock(p)
      PROVE  DriverInv'
  BY <1>28 DEF PubUnlock, Queued, TypeOK, NoPub
<1>29. CASE UNCHANGED vars
  BY <1>29 DEF vars, Queued
<1>30. QED
  BY <1>1, <1>2, <1>3, <1>4, <1>5, <1>6, <1>7, <1>8, <1>9, <1>10, <1>11, <1>12, <1>13, <1>14, <1>15, <1>16, <1>17, <1>18, <1>19, <1>20, <1>21, <1>22, <1>23, <1>24, <1>25, <1>26, <1>27, <1>28, <1>29
     DEF Next, Workq, PubGoOn

LEMMA DriverInvariant == Spec => []DriverInv
<1>1. Init => DriverInv
  BY InitDriver
<1>2. TypeOK /\ DriverInv /\ [Next]_vars => DriverInv'
  BY NextDriver
<1>3. QED
  BY <1>1, <1>2, TypeCorrect, PTL DEF Spec

(* The set of drivers of the property is the one the invariant speaks of.  *)
LEMMA ExclusiveIsOneDriver == Exclusive => OneDriver
<1> SUFFICES ASSUME Exclusive
             PROVE  OneDriver
  OBVIOUS
<1>1. \A d : d \in Drivers <=>
        \/ Queued("work") /\ d = <<"queued", "work">>
        \/ Queued("cleanup") /\ d = <<"queued", "cleanup">>
        \/ \E k \in Kickers : kpc[k] = "submit" /\ d = <<"kicker", k>>
        \/ \E p \in Publishers : Claimed(p) /\ d = <<"publisher", p>>
        \/ wpc \in Handling /\ d = <<"thread", "handler">>
        \/ chan # NULL /\ d = <<"armed", "await">>
  BY DEF Drivers
<1>2. ASSUME current = NULL
      PROVE  Drivers = {}
  BY <1>1, <1>2 DEF Exclusive, KickerDrives, PublisherDrives
<1>3. ASSUME current # NULL
      PROVE  \E d \in Drivers : Drivers = {d}
  <2>1. CASE Queued("work")
    <3>1. Drivers = {<<"queued", "work">>}
      BY <1>1, <2>1 DEF Exclusive, KickerDrives, PublisherDrives
    <3>2. QED
      BY <3>1
  <2>2. CASE Queued("cleanup")
    <3>1. Drivers = {<<"queued", "cleanup">>}
      BY <1>1, <2>2 DEF Exclusive, KickerDrives, PublisherDrives
    <3>2. QED
      BY <3>1
  <2>3. CASE KickerDrives
    <3>1. PICK k \in Kickers : kpc[k] = "submit"
      BY <2>3 DEF KickerDrives
    <3>2. Drivers = {<<"kicker", k>>}
      BY <1>1, <2>3, <3>1 DEF Exclusive, PublisherDrives
    <3>3. QED
      BY <3>2
  <2>4. CASE PublisherDrives
    <3>1. PICK p \in Publishers : Claimed(p)
      BY <2>4 DEF PublisherDrives
    <3>2. Drivers = {<<"publisher", p>>}
      BY <1>1, <2>4, <3>1 DEF Exclusive, KickerDrives
    <3>3. QED
      BY <3>2
  <2>5. CASE wpc \in Handling
    <3>1. Drivers = {<<"thread", "handler">>}
      BY <1>1, <2>5 DEF Exclusive, KickerDrives, PublisherDrives
    <3>2. QED
      BY <3>1
  <2>6. CASE chan # NULL
    <3>1. Drivers = {<<"armed", "await">>}
      BY <1>1, <2>6 DEF Exclusive, KickerDrives, PublisherDrives
    <3>2. QED
      BY <3>1
  <2>7. QED
    BY <1>3, <2>1, <2>2, <2>3, <2>4, <2>5, <2>6 DEF Exclusive
<1>4. QED
  BY <1>2, <1>3 DEF OneDriver

(* A flow in progress has exactly one driver, an idle coordinator none: no *)
(* step is dispatched twice and no resume is lost, whatever the threads    *)
(* and the failing calls do, short of a disarm behind a claim.             *)
THEOREM OneDriverAlways == Spec => []OneDriver
<1>1. DriverInv => OneDriver
  BY ExclusiveIsOneDriver DEF DriverInv, OneDriver
<1>2. QED
  BY <1>1, DriverInvariant, PTL

(* The channel of an armed await carries the coordinator's observer.       *)
THEOREM ArmedIsObservedAlways == Spec => []ArmedIsObserved
<1>1. DriverInv => ArmedIsObserved
  BY DEF DriverInv, Observed, ArmedIsObserved
<1>2. QED
  BY <1>1, DriverInvariant, PTL

(* A timer that is always scheduled leaves no room for the disarm race, so *)
(* that the two theorems above hold of every state without a proviso.      *)
THEOREM NeverRaced ==
  ASSUME "schedule" \notin ApiErrors
  PROVE  Spec => [](~raced)
<1> DEFINE Quiet == ~raced /\ wpc # "disarm"
<1>1. Init => Quiet
  BY DEF Init
<1>2. TypeOK /\ Quiet /\ [Next]_vars => Quiet'
  <2> SUFFICES ASSUME TypeOK, Quiet, [Next]_vars
               PROVE  Quiet'
    OBVIOUS
  <2> USE DEF Goto, flow, async, zephyr, locals, others
  <2>1. ASSUME Take
        PROVE  Quiet'
    <3>1. Head(workq) \in Items
      BY <2>1, TailLemma DEF Take, TypeOK
    <3>2. QED
      BY <2>1, <3>1 DEF Take, HandlerOf, Items
  <2>2. ASSUME Workq, ~Take
        PROVE  Quiet'
    BY <2>2 DEF Workq, Dispatch, Submit, Done, StepNext, Await, AddObs,
       AddObsFails, StoreDst, StoreMatch, StoreChan, Schedule, ScheduleFails,
       Disarm, Undo, Cleanup, TimeoutClaim, TimeoutRm
  <2>3. ASSUME NEW k \in Kickers, Kick(k) \/ KickSubmit(k)
        PROVE  Quiet'
    BY <2>3 DEF Kick, KickSubmit
  <2>4. ASSUME NEW p \in Publishers, NEW c \in Chans, NEW m \in Msgs,
               PubLock(p, c, m)
        PROVE  Quiet'
    BY <2>4 DEF PubLock
  <2>5. ASSUME NEW p \in Publishers, PubGoOn(p)
        PROVE  Quiet'
    BY <2>5 DEF PubGoOn, PubMatch, PubCopy, PubClaim, PubCancel, PubDefer,
       PubUnlock
  <2>6. CASE Expire
    BY <2>6 DEF Expire
  <2>7. CASE UNCHANGED vars
    BY <2>7 DEF vars
  <2>8. QED
    BY <2>1, <2>2, <2>3, <2>4, <2>5, <2>6, <2>7 DEF Next
<1>3. Quiet => ~raced
  OBVIOUS
<1>4. QED
  BY <1>1, <1>2, <1>3, TypeCorrect, PTL DEF Spec

==============================================================================
