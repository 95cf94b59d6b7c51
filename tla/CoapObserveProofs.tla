-------------------------- MODULE CoapObserveProofs --------------------------
(* Proofs about the Observe subscribers, for any instances, peers, blocks   *)
(* and any width of the sequence values.                                    *)
EXTENDS CoapObserve, FiniteSetTheorems, TLAPS

-----------------------------------------------------------------------------
(* Types.                                                                  *)

(* A counter cut to the option's width fits the option.                    *)
LEMMA WireLemma ==
  ASSUME NEW n \in Nat
  PROVE  Wire(n) \in 0 .. SeqMod - 1
  BY ObserveAssumption DEF Wire

LEMMA InitTypes == Init => TypeOK
<1> SUFFICES ASSUME Init PROVE TypeOK
  OBVIOUS
<1>1. observers \in [Insts -> SUBSET Sub]
  BY DEF Init
<1>2. /\ handed \in [Insts -> [Peers -> SUBSET Handed]]
      /\ lost \in [Insts -> [Peers -> Nat]]
  BY DEF Init
<1>3. netmgmt \in [pc: {"idle", "start", "gate", "purge"},
                  todo: SUBSET Insts, freed: SUBSET Blocks]
  BY DEF Init
<1>4. QED
  BY <1>1, <1>2, <1>3 DEF Init, TypeOK

(* The history of a peer starts over, or ends.                             *)
LEMMA HandOutTypes ==
  ASSUME TypeOK, NEW i \in Insts, NEW p \in Peers, NEW v \in 0 .. SeqMod - 1,
         NEW kind \in {"answer", "notification"}, HandOut(i, p, v, kind)
  PROVE  /\ handed' \in [Insts -> [Peers -> SUBSET Handed]]
         /\ lost' \in [Insts -> [Peers -> Nat]]
<1>1. {[seq |-> v, by |-> kind]} \in SUBSET Handed
  BY DEF Handed
<1>2. QED
  BY <1>1 DEF HandOut, TypeOK

LEMMA ForgetTypes ==
  ASSUME TypeOK, NEW i \in Insts, NEW P, Forget(i, P)
  PROVE  /\ handed' \in [Insts -> [Peers -> SUBSET Handed]]
         /\ lost' \in [Insts -> [Peers -> Nat]]
<1>1. [p \in Peers |-> IF p \in P THEN {} ELSE handed[i][p]]
        \in [Peers -> SUBSET Handed]
  BY DEF TypeOK
<1>2. [p \in Peers |-> IF p \in P THEN 0 ELSE lost[i][p]] \in [Peers -> Nat]
  BY DEF TypeOK
<1>3. QED
  BY <1>1, <1>2 DEF Forget, TypeOK

(* Every step keeps the threads where their code can be.                   *)
LEMMA NextTypes == TypeOK /\ [Next]_vars => TypeOK'
<1> SUFFICES ASSUME TypeOK, [Next]_vars PROVE TypeOK'
  OBVIOUS
<1> USE DEF TypeOK, lists, history, NoGet, NoEvent
<1>1. ASSUME NEW i \in Insts, NEW p \in Peers,
             Get(i, p, "register") \/ Get(i, p, "deregister")
      PROVE  TypeOK'
  BY <1>1 DEF Get
<1>2. CASE RegisterRejected
  BY <1>2 DEF RegisterRejected
<1>3. CASE Refresh
  <2>1. server.inst \in Insts /\ server.peer \in Peers
    BY <1>3 DEF Refresh
  <2>2. Wire(observe_seq[server.inst]) \in 0 .. SeqMod - 1
    BY <2>1, WireLemma
  <2>3. /\ handed' \in [Insts -> [Peers -> SUBSET Handed]]
        /\ lost' \in [Insts -> [Peers -> Nat]]
    BY <1>3, <2>1, <2>2, HandOutTypes DEF Refresh, ReadValue
  <2>4. QED
    BY <1>3, <2>2, <2>3 DEF Refresh, ReadValue
<1>4. ASSUME NEW b \in Blocks, Register(b)
      PROVE  TypeOK'
  <2>1. server.inst \in Insts /\ server.peer \in Peers
    BY <1>4 DEF Register
  <2>2. Wire(observe_seq[server.inst]) \in 0 .. SeqMod - 1
    BY <2>1, WireLemma
  <2>3. [block |-> b, peer |-> server.peer] \in Sub
    BY <2>1 DEF Sub
  <2>4. observers' \in [Insts -> SUBSET Sub]
    BY <1>4, <2>1, <2>3 DEF Register
  <2>5. /\ handed' \in [Insts -> [Peers -> SUBSET Handed]]
        /\ lost' \in [Insts -> [Peers -> Nat]]
    BY <1>4, <2>1, <2>2, HandOutTypes DEF Register, ReadValue
  <2>6. QED
    BY <1>4, <2>2, <2>4, <2>5 DEF Register, ReadValue
<1>5. CASE Unlink
  <2>1. server.inst \in Insts /\ server.peer \in Peers
    BY <1>5 DEF Unlink
  <2>2. observers' \in [Insts -> SUBSET Sub]
    BY <1>5, <2>1 DEF Unlink
  <2>3. {s.block : s \in FindSub(server.inst, server.peer)} \subseteq Blocks
    BY <2>1 DEF FindSub, Sub
  <2>4. server' \in [pc: {"free"}, blocks: SUBSET Blocks]
    BY <1>5, <2>3 DEF Unlink
  <2>5. /\ handed' \in [Insts -> [Peers -> SUBSET Handed]]
        /\ lost' \in [Insts -> [Peers -> Nat]]
    BY <1>5, <2>1, ForgetTypes DEF Unlink
  <2>6. QED
    BY <1>5, <2>2, <2>4, <2>5 DEF Unlink
<1>6. CASE Free
  BY <1>6 DEF Free
<1>6a. CASE Answer
  BY <1>6a DEF Answer
<1>7. ASSUME NEW i \in Insts, Count(i)
      PROVE  TypeOK'
  <2>1. observe_seq[i] + 1 \in Nat
    OBVIOUS
  <2>2. Wire(observe_seq[i] + 1) \in 0 .. SeqMod - 1
    BY <2>1, WireLemma
  <2>3. QED
    BY <1>7, <2>1, <2>2 DEF Count
<1>8. CASE Snapshot
  <2>1. PICK T \in SUBSET observers[notifier.inst] :
          notifier' = [pc |-> "send", inst |-> notifier.inst,
                       seq |-> notifier.seq, targets |-> {s.peer : s \in T}]
    BY <1>8 DEF Snapshot
  <2>2. notifier.inst \in Insts /\ notifier.seq \in 0 .. SeqMod - 1
    BY <1>8 DEF Snapshot
  <2>3. {s.peer : s \in T} \subseteq Peers
    BY <2>2 DEF Sub
  <2>4. notifier' \in [pc: {"send"}, inst: Insts, seq: 0 .. SeqMod - 1,
                       targets: SUBSET Peers]
    BY <2>1, <2>2, <2>3
  <2>5. QED
    BY <1>8, <2>4 DEF Snapshot
<1>9. ASSUME NEW p \in Peers, Send(p)
      PROVE  TypeOK'
  <2>1. notifier \in [pc: {"send"}, inst: Insts, seq: 0 .. SeqMod - 1,
                      targets: SUBSET Peers]
    BY <1>9 DEF Send
  <2>2. notifier' \in [pc: {"send"}, inst: Insts, seq: 0 .. SeqMod - 1,
                       targets: SUBSET Peers]
    BY <1>9, <2>1 DEF Send
  <2>3. /\ handed' \in [Insts -> [Peers -> SUBSET Handed]]
        /\ lost' \in [Insts -> [Peers -> Nat]]
    BY <1>9, <2>1, HandOutTypes DEF Send
  <2>4. QED
    BY <1>9, <2>2, <2>3 DEF Send
<1>9a. ASSUME NEW p \in Peers, Drop(p)
       PROVE  TypeOK'
  <2>1. notifier \in [pc: {"send"}, inst: Insts, seq: 0 .. SeqMod - 1,
                      targets: SUBSET Peers]
    BY <1>9a DEF Drop
  <2>2. notifier' \in [pc: {"send"}, inst: Insts, seq: 0 .. SeqMod - 1,
                       targets: SUBSET Peers]
    BY <1>9a, <2>1 DEF Drop
  <2>3. lost' \in [Insts -> [Peers -> Nat]]
    BY <1>9a, <2>1 DEF Drop
  <2>4. QED
    BY <1>9a, <2>2, <2>3 DEF Drop
<1>10. CASE Sent
  BY <1>10 DEF Sent
<1>11. CASE Reopen
  BY <1>11 DEF Reopen
<1>12. CASE Start
  BY <1>12 DEF Start
<1>13. CASE Stop
  BY <1>13 DEF Stop
<1>14. CASE CloseGate
  BY <1>14 DEF CloseGate
<1>15. ASSUME NEW i \in Insts, TakeList(i)
       PROVE  TypeOK'
  <2>1. {s.block : s \in observers[i]} \subseteq Blocks
    BY DEF Sub
  <2>2. netmgmt' \in [pc: {"idle", "start", "gate", "purge"},
                      todo: SUBSET Insts, freed: SUBSET Blocks]
    BY <1>15, <2>1 DEF TakeList
  <2>3. observers' \in [Insts -> SUBSET Sub]
    BY <1>15 DEF TakeList
  <2>4. /\ handed' \in [Insts -> [Peers -> SUBSET Handed]]
        /\ lost' \in [Insts -> [Peers -> Nat]]
    BY <1>15, ForgetTypes DEF TakeList
  <2>5. QED
    BY <1>15, <2>2, <2>3, <2>4 DEF TakeList
<1>16. ASSUME NEW b \in Blocks, FreeTaken(b)
       PROVE  TypeOK'
  BY <1>16 DEF FreeTaken
<1>17. CASE Purged
  BY <1>17 DEF Purged
<1>18. CASE UNCHANGED vars
  BY <1>18 DEF vars
<1>19. QED
  BY <1>1, <1>2, <1>3, <1>4, <1>5, <1>6, <1>6a, <1>7, <1>8, <1>9, <1>9a,
     <1>10, <1>11, <1>12, <1>13, <1>14, <1>15, <1>16, <1>17, <1>18 DEF Next

(* The three threads are where their code can be, and every sequence value  *)
(* fits the Observe option.                                                 *)
THEOREM TypeCorrect == Spec => []TypeOK
  BY InitTypes, NextTypes, PTL DEF Spec

-----------------------------------------------------------------------------
(* The slab.                                                               *)

(* Between purges the network management thread holds no block.            *)
PurgeOnly == netmgmt.pc # "purge" => netmgmt.freed = {}

LEMMA InitPartition == Init => SlabPartition /\ PurgeOnly
  BY DEF Init, SlabPartition, PurgeOnly, Chained, Unlinked, NoGet

(* A step that leaves the slab, the lists and the holders alone.           *)
LEMMA PartitionStutter ==
  ASSUME SlabPartition, PurgeOnly, UNCHANGED <<observers, free>>,
         Unlinked' = Unlinked, netmgmt'.freed = netmgmt.freed,
         PurgeOnly'
  PROVE  SlabPartition' /\ PurgeOnly'
  BY DEF SlabPartition, Chained

LEMMA NextPartition ==
  TypeOK /\ SlabPartition /\ PurgeOnly /\ [Next]_vars
    => SlabPartition' /\ PurgeOnly'
<1> SUFFICES ASSUME TypeOK, SlabPartition, PurgeOnly, [Next]_vars
             PROVE  SlabPartition' /\ PurgeOnly'
  OBVIOUS
<1>1. ASSUME NEW i \in Insts, NEW p \in Peers,
             Get(i, p, "register") \/ Get(i, p, "deregister")
      PROVE  SlabPartition' /\ PurgeOnly'
  <2>1. Unlinked' = Unlinked
    BY <1>1 DEF Get, Unlinked, NoGet
  <2>2. QED
    BY <1>1, <2>1, PartitionStutter DEF Get, lists, PurgeOnly
<1>2. CASE RegisterRejected \/ Refresh \/ Answer
  <2>1. Unlinked' = Unlinked
    BY <1>2 DEF RegisterRejected, Refresh, ReadValue, Answer, Unlinked, NoGet
  <2>2. QED
    BY <1>2, <2>1, PartitionStutter DEF RegisterRejected, Refresh, Answer,
       lists, PurgeOnly
<1>3. ASSUME NEW b \in Blocks, Register(b)
      PROVE  SlabPartition' /\ PurgeOnly'
  <2> DEFINE inst == server.inst
             new == [block |-> b, peer |-> server.peer]
  <2>1. inst \in Insts /\ server.peer \in Peers
    BY <1>3 DEF Register, TypeOK, NoGet
  <2>2. /\ free' = free \ {b}
        /\ b \in free
        /\ observers' = [observers EXCEPT ![inst] = @ \cup {new}]
        /\ netmgmt' = netmgmt
        /\ observers \in [Insts -> SUBSET Sub]
    BY <1>3 DEF Register, TypeOK
  <2>3. Unlinked' = {} /\ Unlinked = {}
    BY <1>3 DEF Register, ReadValue, Unlinked
  <2>4. \A i \in Insts : observers'[i] =
          IF i = inst THEN observers[i] \cup {new} ELSE observers[i]
    BY <2>2
  <2>5. new.block = b
    OBVIOUS
  <2> HIDE DEF new, inst
  <2>6. \A i \in Insts : Chained(i)' =
          IF i = inst THEN Chained(i) \cup {b} ELSE Chained(i)
    BY <2>4, <2>5 DEF Chained
  <2>7. \A i \in Insts : b \notin Chained(i)
    BY <2>2 DEF SlabPartition
  <2>8. b \notin netmgmt.freed
    BY <2>2 DEF SlabPartition
  <2>9. \A i \in Insts : \A s, t \in observers'[i] :
          s.block = t.block => s = t
    <3>1. \A i \in Insts : \A s \in observers[i] : s.block # b
      BY <2>7 DEF Chained
    <3>2. \A i \in Insts : \A s, t \in observers[i] :
            s.block = t.block => s = t
      BY DEF SlabPartition
    <3>3. QED
      BY <2>4, <2>5, <3>1, <3>2
  <2>10. \A i \in Insts :
           /\ Chained(i)' \cap (free' \cup Unlinked' \cup netmgmt'.freed) = {}
           /\ \A j \in Insts \ {i} : Chained(i)' \cap Chained(j)' = {}
    BY <2>2, <2>3, <2>6, <2>7, <2>8 DEF SlabPartition
  <2>11. Blocks \subseteq free' \cup Unlinked' \cup netmgmt'.freed
                           \cup UNION {Chained(i)' : i \in Insts}
    BY <2>1, <2>2, <2>3, <2>6 DEF SlabPartition
  <2>12. QED
    BY <2>2, <2>3, <2>9, <2>10, <2>11 DEF SlabPartition, PurgeOnly
<1>4. CASE Unlink
  <2> DEFINE inst == server.inst
             gone == FindSub(server.inst, server.peer)
             blocks == {s.block : s \in gone}
  <2>1. inst \in Insts
    BY <1>4 DEF Unlink, TypeOK, NoGet
  <2>2. /\ free' = free
        /\ observers' = [observers EXCEPT ![inst] = @ \ gone]
        /\ netmgmt' = netmgmt
        /\ observers \in [Insts -> SUBSET Sub]
        /\ gone \subseteq observers[inst]
    BY <1>4 DEF Unlink, TypeOK, FindSub
  <2>3. Unlinked' = blocks /\ Unlinked = {}
    BY <1>4 DEF Unlink, Unlinked
  <2>4. \A i \in Insts : observers'[i] =
          IF i = inst THEN observers[i] \ gone ELSE observers[i]
    BY <2>2
  <2>5. \A s \in gone : s.block \in blocks
    OBVIOUS
  <2>6. \A b \in blocks : \E s \in gone : s.block = b
    OBVIOUS
  <2> HIDE DEF gone, inst, blocks
  <2>7. blocks \subseteq Chained(inst)
    BY <2>2, <2>6 DEF Chained
  <2>8. \A i \in Insts : Chained(i)' =
          IF i = inst THEN Chained(i) \ blocks ELSE Chained(i)
    <3>1. ASSUME NEW s \in observers[inst], s.block \in blocks
          PROVE  s \in gone
      BY <2>1, <2>2, <2>6, <3>1 DEF SlabPartition
    <3>2. QED
      BY <2>1, <2>4, <2>5, <3>1 DEF Chained
  <2>9. \A i \in Insts : \A s, t \in observers'[i] :
          s.block = t.block => s = t
    BY <2>4 DEF SlabPartition
  <2>10. \A i \in Insts :
           /\ Chained(i)' \cap (free' \cup Unlinked' \cup netmgmt'.freed) = {}
           /\ \A j \in Insts \ {i} : Chained(i)' \cap Chained(j)' = {}
    BY <2>1, <2>2, <2>3, <2>7, <2>8 DEF SlabPartition
  <2>11. /\ free' \cap Unlinked' = {}
         /\ Unlinked' \cap netmgmt'.freed = {}
    BY <2>1, <2>2, <2>3, <2>7 DEF SlabPartition
  <2>12. Blocks \subseteq free' \cup Unlinked' \cup netmgmt'.freed
                           \cup UNION {Chained(i)' : i \in Insts}
    BY <2>1, <2>2, <2>3, <2>7, <2>8 DEF SlabPartition
  <2>13. QED
    BY <2>2, <2>9, <2>10, <2>11, <2>12 DEF SlabPartition, PurgeOnly
<1>5. CASE Free
  <2>1. Unlinked = server.blocks /\ Unlinked' = {}
    BY <1>5 DEF Free, Unlinked, NoGet
  <2>2. free' = free \cup Unlinked /\ UNCHANGED <<observers, netmgmt>>
    BY <1>5, <2>1 DEF Free
  <2>3. QED
    BY <2>1, <2>2 DEF SlabPartition, PurgeOnly, Chained
<1>6. ASSUME NEW i \in Insts, Count(i)
      PROVE  SlabPartition' /\ PurgeOnly'
  BY <1>6, PartitionStutter DEF Count, lists, Unlinked, PurgeOnly
<1>7. CASE Snapshot \/ Sent
  BY <1>7, PartitionStutter DEF Snapshot, Sent, lists, Unlinked, PurgeOnly
<1>8. ASSUME NEW p \in Peers, Send(p) \/ Drop(p)
      PROVE  SlabPartition' /\ PurgeOnly'
  BY <1>8, PartitionStutter DEF Send, Drop, lists, Unlinked, PurgeOnly
<1>9. CASE Reopen \/ Start \/ Stop
  <2>1. netmgmt.pc # "purge" /\ netmgmt'.pc # "purge"
        /\ netmgmt'.freed = netmgmt.freed
    BY <1>9 DEF Reopen, Start, Stop, TypeOK
  <2>2. QED
    BY <1>9, <2>1, PartitionStutter DEF Reopen, Start, Stop, lists, Unlinked,
       PurgeOnly
<1>10. CASE CloseGate
  <2>1. netmgmt.freed = {} /\ netmgmt'.freed = {}
    BY <1>10 DEF CloseGate, PurgeOnly
  <2>2. netmgmt'.pc = "purge"
    BY <1>10 DEF CloseGate
  <2>3. QED
    BY <1>10, <2>1, <2>2, PartitionStutter DEF CloseGate, Unlinked, PurgeOnly
<1>11. ASSUME NEW i \in Insts, TakeList(i)
       PROVE  SlabPartition' /\ PurgeOnly'
  <2>1. /\ free' = free
        /\ observers' = [observers EXCEPT ![i] = {}]
        /\ observers \in [Insts -> SUBSET Sub]
        /\ netmgmt'.freed = Chained(i)
        /\ netmgmt'.pc = "purge"
        /\ netmgmt.freed = {}
        /\ Unlinked' = Unlinked
    BY <1>11 DEF TakeList, TypeOK, Chained, Unlinked
  <2>2. \A j \in Insts : observers'[j] = IF j = i THEN {} ELSE observers[j]
    BY <2>1
  <2>3. \A j \in Insts : Chained(j)' = IF j = i THEN {} ELSE Chained(j)
    BY <2>2 DEF Chained
  <2>4. \A j \in Insts : \A s, t \in observers'[j] :
          s.block = t.block => s = t
    BY <2>2 DEF SlabPartition
  <2>5. Blocks \subseteq free' \cup Unlinked' \cup netmgmt'.freed
                          \cup UNION {Chained(j)' : j \in Insts}
    BY <2>1, <2>3 DEF SlabPartition
  <2>6. QED
    BY <2>1, <2>3, <2>4, <2>5 DEF SlabPartition, PurgeOnly
<1>12. ASSUME NEW b \in Blocks, FreeTaken(b)
       PROVE  SlabPartition' /\ PurgeOnly'
  <2>1. /\ free' = free \cup {b}
        /\ b \in netmgmt.freed
        /\ netmgmt'.freed = netmgmt.freed \ {b}
        /\ netmgmt'.pc = "purge"
        /\ Unlinked' = Unlinked
        /\ observers' = observers
    BY <1>12 DEF FreeTaken, TypeOK, Unlinked
  <2>2. QED
    BY <2>1 DEF SlabPartition, PurgeOnly, Chained
<1>13. CASE Purged
  <2>1. netmgmt.freed = {} /\ netmgmt'.freed = {}
    BY <1>13 DEF Purged, TypeOK
  <2>2. QED
    BY <1>13, <2>1, PartitionStutter DEF Purged, lists, Unlinked, PurgeOnly
<1>14. CASE UNCHANGED vars
  BY <1>14, PartitionStutter DEF vars, lists, Unlinked, PurgeOnly
<1>15. QED
  BY <1>1, <1>2, <1>3, <1>4, <1>5, <1>6, <1>7, <1>8, <1>9, <1>10, <1>11,
     <1>12, <1>13, <1>14 DEF Next

(* The threads that free blocks outside the lock never free a block twice,  *)
(* nor one that is chained, nor lose one.                                   *)
THEOREM SlabPartitioned == Spec => []SlabPartition
<1>1. Init => TypeOK /\ SlabPartition /\ PurgeOnly
  BY InitTypes, InitPartition
<1>2. TypeOK /\ SlabPartition /\ PurgeOnly /\ [Next]_vars
        => TypeOK' /\ SlabPartition' /\ PurgeOnly'
  BY NextTypes, NextPartition
<1>3. QED
  BY <1>1, <1>2, PTL DEF Spec

-----------------------------------------------------------------------------
(* The purge, and subscribing twice.                                       *)

(* The lists grow in Register only: every other step leaves each list as it *)
(* is or makes it smaller.                                                  *)
LEMMA OnlyRegisterAdds ==
  ASSUME TypeOK, [Next]_vars, ~ \E b \in Blocks : Register(b)
  PROVE  \A i \in Insts : observers'[i] \subseteq observers[i]
<1>1. CASE Unlink
  <2>1. /\ server.inst \in Insts
        /\ observers \in [Insts -> SUBSET Sub]
        /\ observers' = [observers EXCEPT ![server.inst] =
                           @ \ FindSub(server.inst, server.peer)]
    BY <1>1 DEF Unlink, TypeOK, NoGet
  <2>2. QED
    BY <2>1
<1>2. CASE \E j \in Insts : TakeList(j)
  <2>1. PICK j \in Insts : TakeList(j)
    BY <1>2
  <2>2. /\ observers \in [Insts -> SUBSET Sub]
        /\ observers' = [observers EXCEPT ![j] = {}]
    BY <2>1 DEF TakeList, TypeOK
  <2>3. QED
    BY <2>2
<1>3. CASE ~Unlink /\ ~ \E j \in Insts : TakeList(j)
  <2>1. observers' = observers
    BY <1>3 DEF Next, vars, lists, Get, RegisterRejected, Refresh, Answer,
       Free, FreeTaken, Count, Send, Drop, Snapshot, Sent, Reopen, Start, Stop,
       CloseGate, Purged
  <2>2. QED
    BY <2>1
<1>4. QED
  BY <1>1, <1>2, <1>3

(* What Register adds, and when.                                            *)
LEMMA RegisterAdds ==
  ASSUME TypeOK, NEW b \in Blocks, Register(b)
  PROVE  /\ open /\ open' /\ server.inst \in Insts
         /\ FindSub(server.inst, server.peer) = {}
         /\ \A i \in Insts : observers'[i] =
              IF i = server.inst
              THEN observers[i] \cup {[block |-> b, peer |-> server.peer]}
              ELSE observers[i]
<1>1. /\ server.inst \in Insts
      /\ observers \in [Insts -> SUBSET Sub]
      /\ observers' = [observers EXCEPT ![server.inst] =
                         @ \cup {[block |-> b, peer |-> server.peer]}]
  BY DEF Register, TypeOK, NoGet
<1>2. \A i \in Insts : observers'[i] =
        IF i = server.inst
        THEN observers[i] \cup {[block |-> b, peer |-> server.peer]}
        ELSE observers[i]
  BY <1>1
<1>3. QED
  BY <1>1, <1>2 DEF Register

LEMMA NextPurged ==
  TypeOK /\ PurgedStaysEmpty /\ [Next]_vars => PurgedStaysEmpty'
<1> SUFFICES ASSUME TypeOK, PurgedStaysEmpty, [Next]_vars,
                    NEW i \in Insts, ~open',
                    netmgmt'.pc = "purge" => i \notin netmgmt'.todo
             PROVE  observers'[i] = {}
  BY DEF PurgedStaysEmpty
<1>1. CASE \E b \in Blocks : Register(b)
  BY <1>1, RegisterAdds
<1>2. CASE \E j \in Insts : TakeList(j)
  <2>1. PICK j \in Insts : TakeList(j)
    BY <1>2
  <2>2. CASE i = j
    BY <2>1, <2>2 DEF TakeList, TypeOK
  <2>3. CASE i # j
    <3>1. /\ netmgmt.pc = "purge" /\ netmgmt'.pc = "purge"
          /\ netmgmt'.todo = netmgmt.todo \ {j}
          /\ ~open
          /\ observers'[i] = observers[i]
      BY <2>1, <2>3 DEF TakeList, TypeOK
    <3>2. QED
      BY <2>3, <3>1 DEF PurgedStaysEmpty
  <2>4. QED
    BY <2>2, <2>3
<1>3. CASE ~ (\E b \in Blocks : Register(b)) /\ ~ \E j \in Insts : TakeList(j)
  <2>1. ~open /\ (netmgmt.pc = "purge" => i \notin netmgmt.todo)
    <3>1. CASE UNCHANGED <<open, netmgmt>>
      BY <3>1
    <3>2. CASE \E b \in Blocks : FreeTaken(b)
      BY <3>2 DEF FreeTaken, TypeOK
    <3>3. CASE Reopen \/ Start \/ Stop \/ CloseGate
      <4>1. CASE Reopen
        BY <4>1 DEF Reopen
      <4>2. CASE Start \/ Stop
        <5>1. open' = open
          BY <4>2 DEF Start, Stop, lists
        <5>2. netmgmt.pc # "purge"
          BY <4>2 DEF Start, Stop
        <5>3. QED
          BY <5>1, <5>2
      <4>3. CASE CloseGate
        <5>1. netmgmt'.pc = "purge" /\ netmgmt'.todo = Insts
          BY <4>3 DEF CloseGate
        <5>2. QED
          BY <5>1
      <4>4. QED
        BY <3>3, <4>1, <4>2, <4>3
    <3>4. CASE Purged
      BY <3>4 DEF Purged, lists
    <3>5. QED
      BY <1>3, <3>1, <3>2, <3>3, <3>4 DEF Next, vars, lists, Get,
         RegisterRejected, Refresh, Answer, Unlink, Free, Count, Send, Drop,
         Snapshot, Sent
  <2>2. observers'[i] \subseteq observers[i]
    BY <1>3, OnlyRegisterAdds
  <2>3. QED
    BY <2>1, <2>2 DEF PurgedStaysEmpty
<1>4. QED
  BY <1>1, <1>2, <1>3

(* No subscriber survives the purge meant to catch it, and none is chained  *)
(* behind it while the gate is closed.                                      *)
THEOREM PurgeIsComplete == Spec => []PurgedStaysEmpty
<1>1. Init => TypeOK /\ PurgedStaysEmpty
  BY InitTypes DEF Init, PurgedStaysEmpty
<1>2. TypeOK /\ PurgedStaysEmpty /\ [Next]_vars
        => TypeOK' /\ PurgedStaysEmpty'
  BY NextTypes, NextPurged
<1>3. QED
  BY <1>1, <1>2, PTL DEF Spec

(* A peer that registers again is answered again, not chained again.        *)
THEOREM SubscribedOnce == Spec => []OneSubscription
<1>1. Init => TypeOK /\ OneSubscription
  BY InitTypes DEF Init, OneSubscription
<1>2. TypeOK /\ OneSubscription /\ [Next]_vars
        => TypeOK' /\ OneSubscription'
  <2> SUFFICES ASSUME TypeOK, OneSubscription, [Next]_vars
               PROVE  OneSubscription'
    BY NextTypes
  <2>1. CASE \E b \in Blocks : Register(b)
    <3>1. PICK b \in Blocks : Register(b)
      BY <2>1
    <3>2. \A s \in observers[server.inst] : s.peer # server.peer
      BY <3>1, RegisterAdds DEF FindSub
    <3>3. ASSUME NEW i \in Insts, NEW s \in observers'[i],
                 NEW t \in observers'[i], s.peer = t.peer
          PROVE  s = t
      <4>1. CASE i = server.inst
        <5>1. \A u \in observers'[i] :
                \/ u \in observers[i]
                \/ u = [block |-> b, peer |-> server.peer]
          BY <3>1, <4>1, RegisterAdds
        <5>2. QED
          BY <3>2, <3>3, <4>1, <5>1 DEF OneSubscription
      <4>2. CASE i # server.inst
        BY <3>1, <3>3, <4>2, RegisterAdds DEF OneSubscription
      <4>3. QED
        BY <4>1, <4>2
    <3>4. QED
      BY <3>3 DEF OneSubscription
  <2>2. CASE ~ \E b \in Blocks : Register(b)
    BY <2>2, OnlyRegisterAdds DEF OneSubscription
  <2>3. QED
    BY <2>1, <2>2
<1>3. QED
  BY <1>1, <1>2, PTL DEF Spec

-----------------------------------------------------------------------------
(* The sequence values.                                                    *)

\* The value after v on the wire.
After(v) == IF v = SeqMod - 1 THEN 0 ELSE v + 1

(* Stepping the counter steps the value on the wire, also across its wrap: *)
(* the quotient grows by one when the remainder starts over, and not else. *)
LEMMA WireStep ==
  ASSUME NEW n \in Nat
  PROVE  Wire(n + 1) = After(Wire(n))
<1> DEFINE q == n \div SeqMod
           p == (n + 1) \div SeqMod
           r == n % SeqMod
           s == (n + 1) % SeqMod
           d == p - q
<1> USE ObserveAssumption
<1>1. /\ q \in Int /\ r \in 0 .. SeqMod - 1
      /\ p \in Int /\ s \in 0 .. SeqMod - 1
      /\ n = SeqMod * q + r
      /\ n + 1 = SeqMod * p + s
  OBVIOUS
<1>2. d \in Int /\ SeqMod * d = r + 1 - s
  BY <1>1
<1> HIDE DEF d
<1>3. CASE d = 0
  BY <1>1, <1>2, <1>3 DEF Wire, After
<1>4. CASE d = 1
  BY <1>1, <1>2, <1>4 DEF Wire, After
<1>5. CASE d >= 2
  <2>1. SeqMod * d >= SeqMod + SeqMod
    BY <1>2, <1>5
  <2>2. QED
    BY <1>1, <1>2, <2>1
<1>6. CASE d <= -1
  <2>1. SeqMod * d <= -SeqMod
    BY <1>2, <1>6
  <2>2. QED
    BY <1>1, <1>2, <2>1
<1>7. QED
  BY <1>2, <1>3, <1>4, <1>5, <1>6

(* Cutting a value a second time changes nothing, and a value cut before it *)
(* is stepped steps like the value itself.                                 *)
LEMMA WireCut ==
  ASSUME NEW n \in Nat
  PROVE  Wire(Wire(n)) = Wire(n) /\ Wire(Wire(n) + 1) = Wire(n + 1)
<1> DEFINE v == Wire(n)
<1>1. v \in 0 .. SeqMod - 1 /\ v \in Nat
  BY WireLemma, ObserveAssumption
<1>2. Wire(v) = v
  <2> HIDE DEF v
  <2>1. QED
    BY <1>1, ObserveAssumption DEF Wire
<1>3. Wire(v + 1) = After(Wire(v))
  BY <1>1, WireStep
<1>4. QED
  BY <1>2, <1>3, WireStep

(* The array of targets has the size of the slab, and each block is in one *)
(* subscriber at most: the snapshot leaves no subscriber out.              *)
LEMMA SnapshotTakesAll ==
  ASSUME TypeOK, SlabPartition, NEW i \in Insts, NEW T \in SUBSET observers[i],
         T # observers[i] => Cardinality(T) = Cardinality(Blocks)
  PROVE  T = observers[i]
<1> DEFINE O == observers[i]
           f == [s \in O |-> s.block]
<1>1. IsFiniteSet(Blocks)
  BY ObserveAssumption
<1>2. f \in [O -> Blocks]
  BY DEF TypeOK, Sub
<1>3. \A s, t \in O : f[s] = f[t] => s = t
  BY DEF SlabPartition
<1>4. f \in Injection(O, Blocks)
  BY <1>2, <1>3 DEF Injection, IsInjective
<1> HIDE DEF f
<1>5. IsFiniteSet(O) /\ Cardinality(O) <= Cardinality(Blocks)
  BY <1>1, <1>4, FS_Injection
<1>6. /\ IsFiniteSet(T)
      /\ Cardinality(T) <= Cardinality(O)
      /\ Cardinality(O) = Cardinality(T) => O = T
  BY <1>5, FS_Subset
<1>7. /\ Cardinality(T) \in Nat
      /\ Cardinality(O) \in Nat
      /\ Cardinality(Blocks) \in Nat
  BY <1>1, <1>5, <1>6, FS_CardinalityType
<1>8. QED
  BY <1>5, <1>6, <1>7

\* The notification in progress will reach the peer if it is subscribed.
Due(i, p) ==
  \/ notifier.pc = "snapshot" /\ notifier.inst = i
  \/ notifier.pc = "send" /\ notifier.inst = i /\ p \in notifier.targets

\* The event the peer will be notified of next.
NextEvent(i, p) ==
  IF Due(i, p) THEN observe_seq[i] ELSE observe_seq[i] + 1

\* The peer is going to be notified.
Expects(i, p) ==
  \/ \E s \in observers[i] : s.peer = p
  \/ notifier.pc = "send" /\ notifier.inst = i /\ p \in notifier.targets

\* The value of event e tells the peer how many notifications it lost.
Tells(e, i, p) ==
  \A n \in handed[i][p] :
    \/ Wire(e) = Wire(n.seq + lost[i][p] + 1)
    \/ n.by = "answer" /\ Wire(e) = Wire(n.seq + lost[i][p])

CarriesCounter ==
  notifier.pc # "idle" => notifier.seq = Wire(observe_seq[notifier.inst])

(* The inductive invariant: the notification in progress carries the value *)
(* of the counter, and the next notification of a peer will tell its loss. *)
SeqInv ==
  /\ CarriesCounter
  /\ \A i \in Insts, p \in Peers : Expects(i, p) => Tells(NextEvent(i, p), i, p)

(* Initially nobody subscribes.                                            *)
LEMMA InitSeq == Init => SeqInv
BY DEF Init, SeqInv, CarriesCounter, Expects, NoEvent

(* A step that counts no event and sends none keeps the invariant for each *)
(* peer whose history it leaves alone or ends.                             *)
LEMMA SeqStutter ==
  ASSUME TypeOK, SeqInv, UNCHANGED <<observe_seq, notifier>>,
         NEW i \in Insts, NEW p \in Peers, Expects(i, p),
         \/ handed'[i][p] = {}
         \/ handed'[i][p] = handed[i][p] /\ lost'[i][p] = lost[i][p]
  PROVE  Tells(NextEvent(i, p), i, p)'
<1>1. NextEvent(i, p)' = NextEvent(i, p)
  BY DEF NextEvent, Due
<1>2. Tells(NextEvent(i, p), i, p)
  BY DEF SeqInv
<1>3. QED
  BY <1>1, <1>2 DEF Tells

(* What a step makes of the histories.                                     *)
LEMMA HandOutLemma ==
  ASSUME TypeOK, NEW i \in Insts, NEW p \in Peers, NEW v, NEW kind,
         HandOut(i, p, v, kind)
  PROVE  \A j \in Insts, q \in Peers :
           IF j = i /\ q = p
           THEN handed'[j][q] = {[seq |-> v, by |-> kind]} /\ lost'[j][q] = 0
           ELSE handed'[j][q] = handed[j][q] /\ lost'[j][q] = lost[j][q]
  BY DEF HandOut, TypeOK

LEMMA ForgetLemma ==
  ASSUME TypeOK, NEW i \in Insts, NEW P, Forget(i, P)
  PROVE  \A j \in Insts, q \in Peers :
           \/ handed'[j][q] = {}
           \/ handed'[j][q] = handed[j][q] /\ lost'[j][q] = lost[j][q]
  BY DEF Forget, TypeOK

(* A value handed out tells that nothing is lost: the event after it may   *)
(* come next, and after an answer the event itself.                        *)
LEMMA FreshTells ==
  ASSUME NEW i, NEW p, NEW c \in Nat,
         NEW kind \in {"answer", "notification"},
         handed'[i][p] = {[seq |-> Wire(c), by |-> kind]}, lost'[i][p] = 0
  PROVE  /\ Tells(c + 1, i, p)'
         /\ kind = "answer" => Tells(c, i, p)'
<1>1. Wire(c) \in Nat
  BY WireLemma, ObserveAssumption
<1>2. Wire(c) + 0 = Wire(c) /\ Wire(c) + 0 + 1 = Wire(c) + 1
  BY <1>1
<1>3. Wire(Wire(c)) = Wire(c) /\ Wire(Wire(c) + 1) = Wire(c + 1)
  BY WireCut
<1>4. \A n \in handed'[i][p] : n.seq = Wire(c) /\ n.by = kind
  OBVIOUS
<1>5. QED
  BY <1>2, <1>3, <1>4 DEF Tells

(* A registration, of a new subscriber or again.                           *)
LEMMA SeqRegister ==
  ASSUME TypeOK, SeqInv, NEW i \in Insts, NEW p \in Peers,
         HandOut(i, p, Wire(observe_seq[i]), "answer"),
         UNCHANGED <<observe_seq, notifier>>,
         \A j \in Insts, q \in Peers :
           Expects(j, q)' => Expects(j, q) \/ (j = i /\ q = p)
  PROVE  SeqInv'
<1>1. CarriesCounter'
  BY DEF SeqInv, CarriesCounter
<1>2. ASSUME NEW j \in Insts, NEW q \in Peers, Expects(j, q)'
      PROVE  Tells(NextEvent(j, q), j, q)'
  <2>1. CASE j = i /\ q = p
    <3>1. PICK c \in Nat : c = observe_seq[i] /\ c = observe_seq'[i]
      BY DEF TypeOK
    <3>2. /\ handed'[i][p] = {[seq |-> Wire(c), by |-> "answer"]}
          /\ lost'[i][p] = 0
      BY <3>1, HandOutLemma
    <3>3. Tells(c + 1, i, p)' /\ Tells(c, i, p)'
      BY <3>2, FreshTells
    <3>4. QED
      BY <2>1, <3>1, <3>3 DEF NextEvent
  <2>2. CASE ~(j = i /\ q = p)
    BY <1>2, <2>2, HandOutLemma, SeqStutter
  <2>3. QED
    BY <2>1, <2>2
<1>3. QED
  BY <1>1, <1>2 DEF SeqInv

(* No step leaves a loss untold.                                           *)
LEMMA NextSeq ==
  TypeOK /\ SlabPartition /\ SeqInv /\ [Next]_vars => SeqInv'
<1> SUFFICES ASSUME TypeOK, SlabPartition, SeqInv, [Next]_vars
             PROVE  SeqInv'
  OBVIOUS
<1>1. CASE \E b \in Blocks : Register(b)
  <2>1. PICK b \in Blocks : Register(b)
    BY <1>1
  <2>2. PICK i \in Insts, p \in Peers :
          /\ i = server.inst /\ p = server.peer
          /\ HandOut(i, p, Wire(observe_seq[i]), "answer")
          /\ UNCHANGED <<observe_seq, notifier>>
    BY <2>1 DEF Register, ReadValue, TypeOK, NoGet
  <2>3. \A j \in Insts : observers'[j] =
          IF j = i THEN observers[j] \cup {[block |-> b, peer |-> p]}
                   ELSE observers[j]
    BY <2>1, <2>2, RegisterAdds
  <2>4. [block |-> b, peer |-> p].peer = p
    OBVIOUS
  <2>5. \A j \in Insts, q \in Peers :
          Expects(j, q)' => Expects(j, q) \/ (j = i /\ q = p)
    BY <2>2, <2>3, <2>4 DEF Expects
  <2>6. QED
    BY <2>2, <2>5, SeqRegister
<1>2. CASE Refresh
  <2>1. PICK i \in Insts, p \in Peers :
          /\ HandOut(i, p, Wire(observe_seq[i]), "answer")
          /\ UNCHANGED <<observers, observe_seq, notifier>>
    BY <1>2 DEF Refresh, ReadValue, TypeOK, NoGet, lists
  <2>2. \A j \in Insts, q \in Peers : Expects(j, q)' => Expects(j, q)
    BY <2>1 DEF Expects
  <2>3. QED
    BY <2>1, <2>2, SeqRegister
<1>3. ASSUME NEW i \in Insts, Count(i)
      PROVE  SeqInv'
  <2>1. /\ notifier.pc = "idle"
        /\ notifier'.pc = "snapshot"
        /\ notifier'.inst = i
        /\ notifier'.seq = Wire(observe_seq'[i])
        /\ UNCHANGED <<observers, handed, lost>>
        /\ observe_seq'[i] = observe_seq[i] + 1
        /\ \A j \in Insts \ {i} : observe_seq'[j] = observe_seq[j]
    BY <1>3 DEF Count, NoEvent, lists, history, TypeOK
  <2>2. \A j \in Insts, q \in Peers : NextEvent(j, q)' = NextEvent(j, q)
    BY <2>1 DEF NextEvent, Due
  <2>3. \A j \in Insts, q \in Peers : Expects(j, q)' => Expects(j, q)
    BY <2>1 DEF Expects
  <2>4. CarriesCounter'
    BY <2>1 DEF CarriesCounter
  <2>5. QED
    BY <2>1, <2>2, <2>3, <2>4 DEF SeqInv, Tells
<1>4. CASE Snapshot
  <2>1. PICK i \in Insts : notifier.pc = "snapshot" /\ i = notifier.inst
    BY <1>4 DEF Snapshot, TypeOK, NoEvent
  <2>2. PICK T \in SUBSET observers[i] :
          /\ T # observers[i] => Cardinality(T) = Cardinality(Blocks)
          /\ notifier' = [pc |-> "send", inst |-> i, seq |-> notifier.seq,
                          targets |-> {s.peer : s \in T}]
    BY <1>4, <2>1 DEF Snapshot
  <2>3. T = observers[i]
    BY <2>1, <2>2, SnapshotTakesAll
  <2>4. UNCHANGED <<observers, observe_seq, handed, lost>>
    BY <1>4 DEF Snapshot, lists, history
  <2>5. /\ notifier'.pc = "send"
        /\ notifier'.inst = i
        /\ notifier'.seq = notifier.seq
        /\ \A q : q \in notifier'.targets <=> \E s \in observers[i] : s.peer = q
    BY <2>2, <2>3
  <2>6. \A j \in Insts, q \in Peers : Expects(j, q)' =>
          Expects(j, q) /\ NextEvent(j, q)' = NextEvent(j, q)
    BY <2>1, <2>4, <2>5 DEF Expects, NextEvent, Due
  <2>7. CarriesCounter'
    BY <2>1, <2>4, <2>5 DEF SeqInv, CarriesCounter
  <2>8. QED
    BY <2>4, <2>6, <2>7 DEF SeqInv, Tells
<1>5. ASSUME NEW p \in Peers, Send(p) \/ Drop(p)
      PROVE  SeqInv'
  <2>1. PICK i \in Insts :
        /\ notifier.pc = "send" /\ i = notifier.inst
        /\ p \in notifier.targets
        /\ notifier.seq = Wire(observe_seq[i])
    BY <1>5 DEF Send, Drop, TypeOK, NoEvent, SeqInv, CarriesCounter
  <2>2. notifier \in [pc: {"send"}, inst: Insts, seq: 0 .. SeqMod - 1,
                      targets: SUBSET Peers]
    BY <2>1 DEF TypeOK, NoEvent
  <2>3. /\ notifier'.pc = "send" /\ notifier'.inst = i
        /\ notifier'.seq = notifier.seq
        /\ notifier'.targets = notifier.targets \ {p}
        /\ UNCHANGED <<observers, observe_seq>>
    BY <1>5, <2>1, <2>2 DEF Send, Drop, lists
  <2>4. CarriesCounter'
    BY <2>1, <2>3 DEF CarriesCounter
  <2>5. \A j \in Insts, q \in Peers : Expects(j, q)' => Expects(j, q)
    BY <2>1, <2>3 DEF Expects
  <2>6. /\ NextEvent(i, p) = observe_seq[i]
        /\ NextEvent(i, p)' = observe_seq[i] + 1
        /\ Expects(i, p)
    BY <2>1, <2>3 DEF NextEvent, Due, Expects
  <2>7. \A j \in Insts, q \in Peers : ~(j = i /\ q = p) =>
          /\ NextEvent(j, q)' = NextEvent(j, q)
          /\ handed'[j][q] = handed[j][q] /\ lost'[j][q] = lost[j][q]
    <3>1. \A j \in Insts, q \in Peers : ~(j = i /\ q = p) =>
            NextEvent(j, q)' = NextEvent(j, q)
      BY <2>1, <2>3 DEF NextEvent, Due
    <3>2. CASE Send(p)
      BY <2>1, <3>1, <3>2, HandOutLemma DEF Send
    <3>3. CASE Drop(p)
      BY <2>1, <3>1, <3>3 DEF Drop, TypeOK
    <3>4. QED
      BY <1>5, <3>2, <3>3
  <2>8. \A j \in Insts, q \in Peers : ~(j = i /\ q = p) /\ Expects(j, q) =>
          Tells(NextEvent(j, q), j, q)'
    BY <2>7 DEF SeqInv, Tells
  <2>9. observe_seq[i] \in Nat
    BY DEF TypeOK
  <2>10. Tells(observe_seq[i] + 1, i, p)'
    <3>1. CASE Send(p)
      <4>1. /\ handed'[i][p] = {[seq |-> notifier.seq, by |-> "notification"]}
            /\ lost'[i][p] = 0
        BY <2>1, <3>1, HandOutLemma DEF Send
      <4>2. QED
        BY <2>1, <2>3, <2>9, <4>1, FreshTells
    <3>2. CASE Drop(p)
      <4>1. handed'[i][p] = handed[i][p] /\ lost'[i][p] = lost[i][p] + 1
        BY <2>1, <3>2 DEF Drop, TypeOK
      <4>2. lost[i][p] \in Nat /\ \A n \in handed[i][p] : n.seq \in Nat
        BY DEF TypeOK, Handed
      <4>3. \A x, y \in Nat : Wire(x) = Wire(y) => Wire(x + 1) = Wire(y + 1)
        BY WireStep
      <4>4. Tells(observe_seq[i], i, p)
        BY <2>6 DEF SeqInv
      <4>5. ASSUME NEW n \in handed[i][p]
            PROVE  \/ Wire(observe_seq[i] + 1) = Wire(n.seq + (lost[i][p] + 1) + 1)
                   \/ /\ n.by = "answer"
                      /\ Wire(observe_seq[i] + 1) = Wire(n.seq + (lost[i][p] + 1))
        <5>1. /\ n.seq + lost[i][p] + 1 \in Nat
              /\ n.seq + lost[i][p] \in Nat
              /\ n.seq + (lost[i][p] + 1) + 1 = (n.seq + lost[i][p] + 1) + 1
              /\ n.seq + (lost[i][p] + 1) = (n.seq + lost[i][p]) + 1
          BY <4>2
        <5>2. QED
          BY <2>9, <4>3, <4>4, <5>1 DEF Tells
      <4>6. QED
        BY <2>3, <4>1, <4>5 DEF Tells
    <3>3. QED
      BY <1>5, <3>1, <3>2
  <2>11. QED
    BY <2>3, <2>4, <2>5, <2>6, <2>8, <2>10 DEF SeqInv
<1>6. CASE Sent
  <2>1. /\ notifier.pc = "send" /\ notifier.targets = {}
        /\ notifier'.pc = "idle"
        /\ UNCHANGED <<observers, observe_seq, handed, lost>>
    BY <1>6 DEF Sent, lists, history, NoEvent
  <2>2. \A j \in Insts, q \in Peers : NextEvent(j, q)' = NextEvent(j, q)
    BY <2>1 DEF NextEvent, Due
  <2>3. \A j \in Insts, q \in Peers : Expects(j, q)' => Expects(j, q)
    BY <2>1 DEF Expects
  <2>4. CarriesCounter'
    BY <2>1 DEF CarriesCounter
  <2>5. QED
    BY <2>1, <2>2, <2>3, <2>4 DEF SeqInv, Tells
<1>7. CASE /\ UNCHANGED <<observe_seq, notifier>>
           /\ ~ \E b \in Blocks : Register(b)
           /\ \A j \in Insts, q \in Peers :
                \/ handed'[j][q] = {}
                \/ handed'[j][q] = handed[j][q] /\ lost'[j][q] = lost[j][q]
  <2>1. \A j \in Insts : observers'[j] \subseteq observers[j]
    BY <1>7, OnlyRegisterAdds
  <2>2. \A j \in Insts, q \in Peers : Expects(j, q)' => Expects(j, q)
    BY <1>7, <2>1 DEF Expects
  <2>3. CarriesCounter'
    BY <1>7 DEF SeqInv, CarriesCounter
  <2>4. QED
    BY <1>7, <2>2, <2>3, SeqStutter DEF SeqInv
<1>8. CASE Unlink \/ \E j \in Insts : TakeList(j)
  <2>1. \A j \in Insts, q \in Peers :
          \/ handed'[j][q] = {}
          \/ handed'[j][q] = handed[j][q] /\ lost'[j][q] = lost[j][q]
    <3>1. CASE Unlink
      <4>1. server.inst \in Insts
        BY <3>1 DEF Unlink, TypeOK, NoGet
      <4>2. QED
        BY <3>1, <4>1, ForgetLemma DEF Unlink
    <3>2. CASE \E j \in Insts : TakeList(j)
      BY <3>2, ForgetLemma DEF TakeList
    <3>3. QED
      BY <1>8, <3>1, <3>2
  <2>2. UNCHANGED <<observe_seq, notifier>>
    BY <1>8 DEF Unlink, TakeList
  <2>3. CASE \E b \in Blocks : Register(b)
    BY <1>1, <2>3
  <2>4. CASE ~ \E b \in Blocks : Register(b)
    BY <1>7, <2>1, <2>2, <2>4
  <2>5. QED
    BY <2>3, <2>4
<1>9. CASE UNCHANGED <<observe_seq, notifier, handed, lost>>
  BY <1>1, <1>7, <1>9
<1>10. QED
  BY <1>1, <1>2, <1>3, <1>4, <1>5, <1>6, <1>8, <1>9
     DEF Next, vars, lists, history, Get, RegisterRejected, Answer, Free,
         FreeTaken, Reopen, Start, Stop, CloseGate, Purged

(* The gap in the values a subscriber receives is the number of            *)
(* notifications it lost, for any width of the option, across its wrap,    *)
(* whatever fails and whatever registrations come in the middle.           *)
THEOREM GapTellsLossAlways == Spec => []GapTellsLoss
<1>1. TypeOK /\ SeqInv => GapTellsLoss
  <2> SUFFICES ASSUME TypeOK, SeqInv, notifier.pc = "send",
                      NEW p \in notifier.targets
               PROVE  \A n \in handed[notifier.inst][p] :
                        \/ notifier.seq = Wire(n.seq + lost[notifier.inst][p] + 1)
                        \/ /\ n.by = "answer"
                           /\ notifier.seq = Wire(n.seq + lost[notifier.inst][p])
    BY DEF GapTellsLoss
  <2>1. notifier.inst \in Insts /\ p \in Peers
    BY DEF TypeOK, NoEvent
  <2>2. /\ Expects(notifier.inst, p)
        /\ NextEvent(notifier.inst, p) = observe_seq[notifier.inst]
        /\ notifier.seq = Wire(observe_seq[notifier.inst])
    BY DEF SeqInv, Expects, NextEvent, Due, CarriesCounter
  <2>3. QED
    BY <2>1, <2>2 DEF SeqInv, Tells
<1>2. Init => SeqInv
  BY InitSeq
<1>3. TypeOK /\ SlabPartition /\ SeqInv /\ [Next]_vars => SeqInv'
  BY NextSeq
<1>4. QED
  BY <1>1, <1>2, <1>3, TypeCorrect, SlabPartitioned, PTL DEF Spec

=============================================================================
