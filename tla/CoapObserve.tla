----------------------------- MODULE CoapObserve -----------------------------
(***************************************************************************)
(* The Observe subscribers of the CoAP frontend (zephlet_coap_observe.c)   *)
(* and the three threads that share them:                                  *)
(*                                                                         *)
(*   - the CoAP server thread, with one GET at a time: it registers and    *)
(*     deregisters subscribers;                                            *)
(*   - the system workqueue, with one event at a time: it notifies them;   *)
(*   - the network management thread, which opens the gate and starts the  *)
(*     service on L4 connect, stops it and purges on L4 disconnect.        *)
(*                                                                         *)
(* A section under zlet_observe_lock is one action.  A subscriber is its   *)
(* peer: address and token together.  A GET that is already in its handler *)
(* when the service is stopped runs on.  Its answer is sent after the lock *)
(* is released.  Answers and notifications that cannot be built or sent    *)
(* are lost.                                                               *)
(***************************************************************************)
EXTENDS Integers, FiniteSets, Functions

CONSTANTS
  Insts,      \* instances with an events resource
  Peers,      \* address and token of the possible subscribers
  Blocks,     \* blocks of zlet_observe_slab
  SeqMod,     \* sequence values on the wire are taken modulo this (2^24)
  MaxEvents   \* bound on the events of all instances

ASSUME ObserveAssumption ==
  /\ IsFiniteSet(Blocks)
  /\ SeqMod \in Nat \ {0, 1}
  /\ MaxEvents \in Nat

VARIABLES
  open,         \* zlet_observe_open
  observers,    \* per instance, the chained subscribers
  free,         \* free blocks of the slab
  observe_seq,  \* per instance, the events counted so far
  running,      \* the CoAP service is started
  server,       \* the GET in progress
  notifier,     \* the notification in progress
  netmgmt,      \* the L4 event in progress
  handed,       \* history: per instance and peer, the last value handed
                \* out, by the answer to a registration or a notification
  lost          \* history: the notifications lost since

lists   == <<open, observers, free>>
history == <<handed, lost>>
vars    == <<lists, observe_seq, running, server, notifier, netmgmt, history>>

Sub == [block: Blocks, peer: Peers]

Wire(n) == n % SeqMod

\* zlet_find_sub, as the set of at most one subscriber.
FindSub(i, p) == {s \in observers[i] : s.peer = p}

-----------------------------------------------------------------------------
(* zephlet_coap_observe_handle_get, on the CoAP server thread.             *)

NoGet == [pc |-> "idle"]

\* A GET on the events resource of instance i reaches its handler.
Get(i, p, op) ==
  /\ running
  /\ server = NoGet
  /\ server' = [pc |-> op, inst |-> i, peer |-> p]
  /\ UNCHANGED <<lists, observe_seq, running, notifier, netmgmt, history>>

\* The history of peer p on instance i starts over with a value.
HandOut(i, p, v, kind) ==
  /\ handed' = [handed EXCEPT ![i][p] = {[seq |-> v, by |-> kind]}]
  /\ lost' = [lost EXCEPT ![i][p] = 0]

\* The history of a subscriber ends when it is deregistered or purged.
Forget(i, P) ==
  /\ handed' = [handed EXCEPT ![i] =
                  [p \in Peers |-> IF p \in P THEN {} ELSE handed[i][p]]]
  /\ lost' = [lost EXCEPT ![i] =
                [p \in Peers |-> IF p \in P THEN 0 ELSE lost[i][p]]]

\* The instance's current value is read under the lock, to be answered.
ReadValue(i, p) ==
  /\ HandOut(i, p, Wire(observe_seq[i]), "answer")
  /\ server' = [pc |-> "answer", seq |-> Wire(observe_seq[i])]

\* The gate is closed, or there is no block for a new subscriber: -EBUSY.
RegisterRejected ==
  /\ server.pc = "register"
  /\ \/ ~open
     \/ free = {} /\ FindSub(server.inst, server.peer) = {}
  /\ server' = NoGet
  /\ UNCHANGED <<lists, observe_seq, running, notifier, netmgmt, history>>

\* A peer that is already subscribed is answered again.
Refresh ==
  /\ server.pc = "register"
  /\ open
  /\ FindSub(server.inst, server.peer) # {}
  /\ ReadValue(server.inst, server.peer)
  /\ UNCHANGED <<lists, observe_seq, running, notifier, netmgmt>>

\* Faulty variant: the subscriber is chained without a look at the gate.
RegisterUngated(b) ==
  /\ server.pc = "register"
  /\ FindSub(server.inst, server.peer) = {}
  /\ b \in free
  /\ free' = free \ {b}
  /\ observers' = [observers EXCEPT ![server.inst] =
                     @ \cup {[block |-> b, peer |-> server.peer]}]
  /\ ReadValue(server.inst, server.peer)
  /\ UNCHANGED <<open, observe_seq, running, notifier, netmgmt>>

\* Faulty variant: a peer already subscribed is chained a second time.
RegisterAgain(b) ==
  /\ server.pc = "register"
  /\ open
  /\ b \in free
  /\ free' = free \ {b}
  /\ observers' = [observers EXCEPT ![server.inst] =
                     @ \cup {[block |-> b, peer |-> server.peer]}]
  /\ ReadValue(server.inst, server.peer)
  /\ UNCHANGED <<open, observe_seq, running, notifier, netmgmt>>

\* A new subscriber takes a block and is chained.
Register(b) ==
  /\ server.pc = "register"
  /\ open
  /\ FindSub(server.inst, server.peer) = {}
  /\ b \in free
  /\ free' = free \ {b}
  /\ observers' = [observers EXCEPT ![server.inst] =
                     @ \cup {[block |-> b, peer |-> server.peer]}]
  /\ ReadValue(server.inst, server.peer)
  /\ UNCHANGED <<open, observe_seq, running, notifier, netmgmt>>

\* The answer to a registration leaves, or is lost: a notification with a
\* later value may have left first.
Answer ==
  /\ server.pc = "answer"
  /\ server' = NoGet
  /\ UNCHANGED <<lists, observe_seq, running, notifier, netmgmt, history>>

\* Faulty variant: the subscriber is only looked up under the lock.
UnlinkLate ==
  /\ server.pc = "deregister"
  /\ server' = [pc |-> "free", blocks |->
                  {s.block : s \in FindSub(server.inst, server.peer)}]
  /\ UNCHANGED <<lists, observe_seq, running, notifier, netmgmt, history>>

\* The subscriber is unlinked under the lock, its block freed after it.
Unlink ==
  /\ server.pc = "deregister"
  /\ LET gone == FindSub(server.inst, server.peer)
     IN  /\ observers' = [observers EXCEPT ![server.inst] = @ \ gone]
         /\ server' = [pc |-> "free", blocks |-> {s.block : s \in gone}]
  /\ Forget(server.inst, {server.peer})
  /\ UNCHANGED <<open, free, observe_seq, running, notifier, netmgmt>>

Free ==
  /\ server.pc = "free"
  /\ free' = free \cup server.blocks
  /\ server' = NoGet
  /\ UNCHANGED <<open, observers, observe_seq, running, notifier, netmgmt,
                 history>>

-----------------------------------------------------------------------------
(* zephlet_coap_observe_notify, on the system workqueue.                   *)

NoEvent == [pc |-> "idle"]

\* The events of all instances, for the bound.
Events == FoldFunction(+, 0, observe_seq)

\* Faulty variant: the notification carries the value before the increment.
CountBefore(i) ==
  /\ notifier = NoEvent
  /\ Events < MaxEvents
  /\ observe_seq' = [observe_seq EXCEPT ![i] = @ + 1]
  /\ notifier' = [pc |-> "snapshot", inst |-> i, seq |-> Wire(observe_seq[i])]
  /\ UNCHANGED <<lists, running, server, netmgmt, history>>

\* Faulty variant: the value is not cut to the option's 24 bits.
CountUncut(i) ==
  /\ notifier = NoEvent
  /\ Events < MaxEvents
  /\ observe_seq' = [observe_seq EXCEPT ![i] = @ + 1]
  /\ notifier' = [pc |-> "snapshot", inst |-> i, seq |-> observe_seq[i] + 1]
  /\ UNCHANGED <<lists, running, server, netmgmt, history>>

\* An event of instance i: the counter is stepped before the lock is taken.
Count(i) ==
  /\ notifier = NoEvent
  /\ Events < MaxEvents
  /\ observe_seq' = [observe_seq EXCEPT ![i] = @ + 1]
  /\ notifier' = [pc |-> "snapshot", inst |-> i,
                  seq |-> Wire(observe_seq[i] + 1)]
  /\ UNCHANGED <<lists, running, server, netmgmt, history>>

\* The subscribers to notify are copied under the lock, as many as the
\* target array holds: it has the size of the slab.
Snapshot ==
  /\ notifier.pc = "snapshot"
  /\ \E T \in SUBSET observers[notifier.inst] :
       /\ T # observers[notifier.inst] => Cardinality(T) = Cardinality(Blocks)
       /\ notifier' = [pc |-> "send", inst |-> notifier.inst,
                       seq |-> notifier.seq, targets |-> {s.peer : s \in T}]
  /\ UNCHANGED <<lists, observe_seq, running, server, netmgmt, history>>

\* One notification leaves.
Send(p) ==
  /\ notifier.pc = "send"
  /\ p \in notifier.targets
  /\ notifier' = [notifier EXCEPT !.targets = @ \ {p}]
  /\ HandOut(notifier.inst, p, notifier.seq, "notification")
  /\ UNCHANGED <<lists, observe_seq, running, server, netmgmt>>

\* One notification cannot be built or sent: it is logged, and the loop
\* goes on with the next subscriber.
Drop(p) ==
  /\ notifier.pc = "send"
  /\ p \in notifier.targets
  /\ notifier' = [notifier EXCEPT !.targets = @ \ {p}]
  /\ lost' = [lost EXCEPT ![notifier.inst][p] = @ + 1]
  /\ UNCHANGED <<lists, observe_seq, running, server, netmgmt, handed>>

Sent ==
  /\ notifier.pc = "send"
  /\ notifier.targets = {}
  /\ notifier' = NoEvent
  /\ UNCHANGED <<lists, observe_seq, running, server, netmgmt, history>>

-----------------------------------------------------------------------------
(* zlet_coap_on_l4_event, on the network management thread.                *)

\* L4 connect: the gate is opened before the service is started.
Reopen ==
  /\ netmgmt.pc = "idle"
  /\ open' = TRUE
  /\ netmgmt' = [netmgmt EXCEPT !.pc = "start"]
  /\ UNCHANGED <<observers, free, observe_seq, running, server, notifier,
                 history>>

\* coap_service_start may fail; the failure is logged.
Start ==
  /\ netmgmt.pc = "start"
  /\ running' \in {running, TRUE}
  /\ netmgmt' = [netmgmt EXCEPT !.pc = "idle"]
  /\ UNCHANGED <<lists, observe_seq, server, notifier, history>>

\* L4 disconnect: coap_service_stop may fail too, and the purge goes on.
Stop ==
  /\ netmgmt.pc = "idle"
  /\ running' \in {running, FALSE}
  /\ netmgmt' = [netmgmt EXCEPT !.pc = "gate"]
  /\ UNCHANGED <<lists, observe_seq, server, notifier, history>>

\* zephlet_coap_observe_purge_all closes the gate first.
CloseGate ==
  /\ netmgmt.pc = "gate"
  /\ open' = FALSE
  /\ netmgmt' = [pc |-> "purge", todo |-> Insts, freed |-> {}]
  /\ UNCHANGED <<observers, free, observe_seq, running, server, notifier,
                 history>>

\* The list of an instance is taken under the lock.
TakeList(i) ==
  /\ netmgmt.pc = "purge"
  /\ netmgmt.freed = {}
  /\ i \in netmgmt.todo
  /\ observers' = [observers EXCEPT ![i] = {}]
  /\ netmgmt' = [netmgmt EXCEPT !.todo = @ \ {i},
                                !.freed = {s.block : s \in observers[i]}]
  /\ Forget(i, Peers)
  /\ UNCHANGED <<open, free, observe_seq, running, server, notifier>>

\* Its blocks are freed one by one outside the lock.
FreeTaken(b) ==
  /\ netmgmt.pc = "purge"
  /\ b \in netmgmt.freed
  /\ free' = free \cup {b}
  /\ netmgmt' = [netmgmt EXCEPT !.freed = @ \ {b}]
  /\ UNCHANGED <<open, observers, observe_seq, running, server, notifier,
                 history>>

Purged ==
  /\ netmgmt.pc = "purge"
  /\ netmgmt.todo = {}
  /\ netmgmt.freed = {}
  /\ netmgmt' = [netmgmt EXCEPT !.pc = "idle"]
  /\ UNCHANGED <<lists, observe_seq, running, server, notifier, history>>

-----------------------------------------------------------------------------

\* The gate starts open; the service is started by the first L4 connect.
Init ==
  /\ open = TRUE
  /\ observers = [i \in Insts |-> {}]
  /\ free = Blocks
  /\ observe_seq = [i \in Insts |-> 0]
  /\ running = FALSE
  /\ server = NoGet
  /\ notifier = NoEvent
  /\ netmgmt = [pc |-> "idle", todo |-> {}, freed |-> {}]
  /\ handed = [i \in Insts |-> [p \in Peers |-> {}]]
  /\ lost = [i \in Insts |-> [p \in Peers |-> 0]]

Next ==
  \/ \E i \in Insts, p \in Peers :
       Get(i, p, "register") \/ Get(i, p, "deregister")
  \/ RegisterRejected \/ Refresh \/ Answer \/ Unlink \/ Free
  \/ \E b \in Blocks : Register(b) \/ FreeTaken(b)
  \/ \E i \in Insts : Count(i) \/ TakeList(i)
  \/ \E p \in Peers : Send(p) \/ Drop(p)
  \/ Snapshot \/ Sent
  \/ Reopen \/ Start \/ Stop \/ CloseGate \/ Purged

Spec == Init /\ [][Next]_vars

-----------------------------------------------------------------------------
(* Properties                                                              *)

Handed == [seq: 0 .. SeqMod - 1, by: {"answer", "notification"}]

\* The three threads are where their code can be, and every sequence value
\* fits the option it is sent in.
TypeOK ==
  /\ open \in BOOLEAN /\ running \in BOOLEAN
  /\ observers \in [Insts -> SUBSET Sub]
  /\ free \subseteq Blocks
  /\ observe_seq \in [Insts -> Nat]
  /\ server \in {NoGet}
       \cup [pc: {"register", "deregister"}, inst: Insts, peer: Peers]
       \cup [pc: {"answer"}, seq: 0 .. SeqMod - 1]
       \cup [pc: {"free"}, blocks: SUBSET Blocks]
  /\ notifier \in {NoEvent}
       \cup [pc: {"snapshot"}, inst: Insts, seq: 0 .. SeqMod - 1]
       \cup [pc: {"send"}, inst: Insts, seq: 0 .. SeqMod - 1,
             targets: SUBSET Peers]
  /\ netmgmt \in [pc: {"idle", "start", "gate", "purge"},
                  todo: SUBSET Insts, freed: SUBSET Blocks]
  /\ handed \in [Insts -> [Peers -> SUBSET Handed]]
  /\ lost \in [Insts -> [Peers -> Nat]]

Chained(i) == {s.block : s \in observers[i]}

\* Blocks the server thread unlinked and has not freed yet.
Unlinked == IF server.pc = "free" THEN server.blocks ELSE {}

\* A block is free, chained once, or held by the thread about to free it:
\* deregistration and purge free outside the lock, and neither may free a
\* block the other one has, lose one, or free one still chained.
SlabPartition ==
  /\ free \cap Unlinked = {}
  /\ free \cap netmgmt.freed = {}
  /\ Unlinked \cap netmgmt.freed = {}
  /\ \A i \in Insts :
       /\ Chained(i) \cap (free \cup Unlinked \cup netmgmt.freed) = {}
       /\ \A j \in Insts \ {i} : Chained(i) \cap Chained(j) = {}
       /\ \A s, t \in observers[i] : s.block = t.block => s = t
  /\ Blocks \subseteq
       free \cup Unlinked \cup netmgmt.freed \cup UNION {Chained(i) : i \in Insts}

\* A peer is chained at most once on an instance, however often it
\* registers: it gets one notification per event, and one deregistration
\* ends them.
OneSubscription ==
  \A i \in Insts : \A s, t \in observers[i] : s.peer = t.peer => s = t

\* No subscriber survives the purge meant to catch it: an instance whose
\* list the purge took stays empty until the gate is opened again, whatever
\* registration was in its handler when the service stopped.
PurgedStaysEmpty ==
  \A i \in Insts :
    ~open /\ (netmgmt.pc = "purge" => i \notin netmgmt.todo)
      => observers[i] = {}

\* The gap in the values a subscriber receives is the number of notifications
\* it lost, whatever failed in between, across the wrap of the counter and
\* registrations in the middle of a notification.  A gap is measured from the
\* last notification sent, or from the value read for the last registration;
\* after a registration the first notification may carry that value again.
GapTellsLoss ==
  notifier.pc = "send" =>
    \A p \in notifier.targets : \A n \in handed[notifier.inst][p] :
      \/ notifier.seq = Wire(n.seq + lost[notifier.inst][p] + 1)
      \/ /\ n.by = "answer"
         /\ notifier.seq = Wire(n.seq + lost[notifier.inst][p])

\* What the code says of the value of a notification: once the answer to a
\* registration has left, it is not the value handed out in that answer.
StrictlyNewer ==
  notifier.pc = "send" /\ server.pc # "answer" =>
    \A p \in notifier.targets : \A n \in handed[notifier.inst][p] :
      n.by = "answer" => notifier.seq # n.seq

=============================================================================
