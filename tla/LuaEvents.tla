------------------------------ MODULE LuaEvents ------------------------------
(***************************************************************************)
(* The path of an event into the Lua frontend (zephlet_lua_events.c,       *)
(* zephlet_lua_await.c, the prelude, and the seal and the stop around      *)
(* them):                                                                  *)
(*                                                                         *)
(*   - the system workqueue runs the listeners, one at a time: they stage  *)
(*     an event and ring the doorbell;                                     *)
(*   - the owner thread runs the main chunk, the seal and then one task at *)
(*     a time: the pump, the dispatcher of the policies and the script's   *)
(*     tasks. A task keeps the thread until it parks, sleeps or ends.      *)
(*                                                                         *)
(* What both threads touch, the staging queue, the flags, bell_pending and *)
(* the counters, is read and written in the order of the code, one lock    *)
(* section or atomic operation per action.  The scheduler zephyr.async is  *)
(* modelled by what the prelude relies on: a task that watches the         *)
(* doorbell is woken by each doorbell, also one that rang before it        *)
(* parked.  Events are told apart by their source only, and the order of   *)
(* the serials is that of one queue per task.                              *)
(***************************************************************************)
EXTENDS Naturals, Sequences, FiniteSets

CONSTANTS
  Insts,         \* zephlet instances with a record of the frontend
  Scripts,       \* tasks of the script
  Finalized,     \* instances that a finalizer of the script may await
  StagingDepth,  \* CONFIG_ZEPHLETS_LUA_STAGING_DEPTH
  FifoDepth,     \* CONFIG_ZEPHLETS_LUA_FIFO_DEPTH
  AwaitDepth,    \* CONFIG_ZEPHLETS_LUA_AWAIT_DEPTH
  MaxEvents,     \* bound on the events of one instance
  Polls,         \* whether POLL_MS is set
  Timed,         \* whether an await of the script has a timeout
  NULL

ASSUME DepthAssumption ==
  /\ StagingDepth \in Nat \ {0} /\ FifoDepth \in Nat \ {0}
  /\ AwaitDepth \in Nat \ {0} /\ MaxEvents \in Nat

ASSUME NameAssumption ==
  /\ NULL \notin Insts
  /\ Polls \subseteq BOOLEAN /\ Timed \subseteq BOOLEAN
  /\ Finalized \subseteq Insts
  /\ Scripts \cap {"pump", "dispatch"} = {}

Tasks  == Scripts \cup {"pump", "dispatch"}
OffCpu == {"start", "park", "sleep", "done"}
Flags  == {"CONNECTED", "POLICY", "AWAITED"}

VARIABLES
  phase,         \* of zephlet_lua_coordinate, on the owner thread
  todo,          \* instances its loop over the instances has not visited
  sealed,        \* zlet_lua_sealed
  policies,      \* instances with a handler list
  flags,         \* inst->flags
  staging,       \* the staged events, by source, oldest first
  stager,        \* the listener in progress
  bell_pending,  \* a doorbell is outstanding
  watching,      \* tasks that watch the doorbell
  rung,          \* tasks the doorbell rang for since they last looked
  refused,       \* history: the last doorbell could not be published
  emitted, staged_drop, fifo_drop, delivered,   \* inst->stats
  preseal_drop,  \* inst->preseal_drop
  fifo,          \* the policies' events, by source
  tables,        \* instances with a weak table for their queues
  queues,        \* per task, the instances it has a queue for
  arrived,       \* per task, the events in its queues in order of arrival
  draining,      \* the guard of zlet_lua_drain
  slot,          \* drain_slot, and where its event goes
  pc,            \* where each task is
  calls,         \* where the drains it is in return to
  ask,           \* the await a task is in
  poll,          \* POLL_MS is set
  reopened       \* instances that lua_close's finalizers have a queue for

start  == <<phase, todo, policies, poll, reopened>>
shared == <<start, sealed, flags>>
bell   == <<bell_pending, watching, rung, refused>>
counts == <<emitted, staged_drop, fifo_drop, delivered, preseal_drop>>
heap   == <<fifo, tables, queues, arrived>>
drain  == <<draining, slot>>
tasks  == <<pc, calls, ask>>
vars   == <<shared, staging, stager, bell, counts, heap, drain, tasks>>

Inc(counter, i) == [counter EXCEPT ![i] = @ + 1]

-----------------------------------------------------------------------------
(* zephlet_lua_stage, on the system workqueue.                             *)

Idle == [pc |-> "idle", inst |-> NULL, over |-> NULL]

StagerAt(p) == stager.pc = p

\* An instance emits: the listener counts the event.
Emit(i) ==
  /\ stager = Idle
  /\ emitted[i] < MaxEvents
  /\ emitted' = Inc(emitted, i)
  /\ stager' = [Idle EXCEPT !.pc = "filter", !.inst = i]
  /\ UNCHANGED <<shared, staging, bell, staged_drop, fifo_drop, delivered,
                 preseal_drop, heap, drain, tasks>>

\* Once sealed, the events of a source nobody listens to end here.
Filter ==
  /\ StagerAt("filter")
  /\ stager' = IF sealed /\ "CONNECTED" \notin flags[stager.inst]
                 THEN Idle ELSE [stager EXCEPT !.pc = "stage"]
  /\ UNCHANGED <<shared, staging, bell, counts, heap, drain, tasks>>

Full == Len(staging) = StagingDepth

\* The locked section, with room for the event.
Stage ==
  /\ StagerAt("stage")
  /\ ~Full
  /\ staging' = Append(staging, stager.inst)
  /\ stager' = [stager EXCEPT !.pc = "bell"]
  /\ UNCHANGED <<shared, bell, counts, heap, drain, tasks>>

\* Without room, after the seal: the new event is dropped.
StageDrops ==
  /\ StagerAt("stage")
  /\ Full /\ sealed
  /\ staged_drop' = Inc(staged_drop, stager.inst)
  /\ stager' = Idle
  /\ UNCHANGED <<shared, staging, bell, emitted, fifo_drop, delivered,
                 preseal_drop, heap, drain, tasks>>

\* Without room, before the seal: the oldest event makes room.
StageOverwrites ==
  /\ StagerAt("stage")
  /\ Full /\ ~sealed
  /\ staging' = Append(Tail(staging), stager.inst)
  /\ stager' = [stager EXCEPT !.pc = "count", !.over = Head(staging)]
  /\ UNCHANGED <<shared, bell, counts, heap, drain, tasks>>

\* The overwritten event is counted after the unlock.
CountOverwritten ==
  /\ StagerAt("count")
  /\ preseal_drop' = Inc(preseal_drop, stager.over)
  /\ stager' = [stager EXCEPT !.pc = "bell", !.over = NULL]
  /\ UNCHANGED <<shared, staging, bell, emitted, staged_drop, fifo_drop,
                 delivered, heap, drain, tasks>>

\* A burst rings once.
Ring ==
  /\ StagerAt("bell")
  /\ bell_pending' = TRUE
  /\ stager' = IF bell_pending THEN Idle ELSE [stager EXCEPT !.pc = "publish"]
  /\ UNCHANGED <<shared, staging, watching, rung, refused, counts, heap,
                 drain, tasks>>

Publish ==
  /\ StagerAt("publish")
  /\ rung' = rung \cup watching
  /\ refused' = FALSE
  /\ stager' = Idle
  /\ UNCHANGED <<shared, staging, bell_pending, watching, counts, heap, drain,
                 tasks>>

\* The doorbell is refused: the next event rings again.
PublishFails ==
  /\ StagerAt("publish")
  /\ bell_pending' = FALSE
  /\ refused' = TRUE
  /\ stager' = Idle
  /\ UNCHANGED <<shared, staging, watching, rung, counts, heap, drain, tasks>>

Listener ==
  \/ Filter \/ Stage \/ StageDrops \/ StageOverwrites \/ CountOverwritten
  \/ Ring \/ Publish \/ PublishFails

-----------------------------------------------------------------------------
(* The start and the stop of the frontend, on the owner thread.            *)

Phase(from, to) == phase = from /\ phase' = to

Work == <<staging, stager, bell, heap, drain, tasks>>

\* The main chunk adds a policy.
AddPolicy(i) ==
  /\ phase = "main"
  /\ policies' = policies \cup {i}
  /\ UNCHANGED <<phase, todo, poll, reopened, sealed, flags, counts, Work>>

\* zlet_lua_seal: the flags first, ...
SealFlags ==
  /\ Phase("main", "seal")
  /\ flags' = [i \in Insts |->
                 flags[i] \cup IF i \in policies THEN {"CONNECTED", "POLICY"}
                                                ELSE {}]
  /\ UNCHANGED <<todo, policies, poll, reopened, sealed, counts, Work>>

\* ... then the seal, ...
Seal ==
  /\ Phase("seal", "fold")
  /\ sealed' = TRUE
  /\ todo' = Insts
  /\ UNCHANGED <<policies, poll, reopened, flags, counts, Work>>

\* ... then zlet_lua_fold_preseal_drops, one instance after the other.
Fold(i) ==
  /\ phase = "fold"
  /\ i \in todo
  /\ todo' = todo \ {i}
  /\ preseal_drop' = [preseal_drop EXCEPT ![i] = 0]
  /\ staged_drop' = [staged_drop EXCEPT
       ![i] = IF "CONNECTED" \in flags[i] THEN @ + preseal_drop[i] ELSE @]
  /\ UNCHANGED <<phase, policies, poll, reopened, sealed, flags, emitted,
                 fifo_drop, delivered, Work>>

Folded ==
  /\ Phase("fold", "run")
  /\ todo = {}
  /\ UNCHANGED <<todo, policies, poll, reopened, sealed, flags, counts, Work>>

NoSlot == [inst |-> NULL, fifo |-> FALSE, await |-> FALSE]
NoAsk  == [insts |-> {}, making |-> NULL, timed |-> FALSE]

\* No task runs any more: what they wait for and what is queued for them is
\* lost with the Lua state.
Abandon ==
  /\ watching' = {} /\ rung' = {} /\ fifo' = <<>> /\ tables' = {}
  /\ queues' = [t \in Tasks |-> {}] /\ arrived' = [t \in Tasks |-> <<>>]
  /\ draining' = FALSE /\ slot' = NoSlot
  /\ pc' = [t \in Tasks |-> "start"] /\ calls' = [t \in Tasks |-> <<>>]
  /\ ask' = [t \in Tasks |-> NoAsk]

AllOffCpu == \A t \in Tasks : pc[t] \in OffCpu

\* The main chunk does not load or run, or the scheduler stops on a fault:
\* zlet_lua_shutdown seals, ...
Fail ==
  /\ phase \in {"main", "run"}
  /\ AllOffCpu
  /\ phase' = "clear"
  /\ sealed' = TRUE
  /\ todo' = Insts
  /\ UNCHANGED <<policies, poll, reopened, flags, counts, Work>>

\* ... clears the flags ...
Clear(i) ==
  /\ phase = "clear"
  /\ i \in todo
  /\ todo' = todo \ {i}
  /\ flags' = [flags EXCEPT ![i] = {}]
  /\ UNCHANGED <<phase, policies, poll, reopened, sealed, counts, Work>>

\* Faulty variant: staging is emptied before the flags are cleared.
EmptyEarly ==
  /\ Phase("clear", "close")
  /\ staging' = <<>>
  /\ Abandon
  /\ UNCHANGED <<todo, policies, poll, reopened, sealed, flags, stager,
                 bell_pending, refused, counts>>

\* ... and empties staging.
Empty ==
  /\ Phase("clear", "close")
  /\ todo = {}
  /\ staging' = <<>>
  /\ Abandon
  /\ UNCHANGED <<todo, policies, poll, reopened, sealed, flags, stager,
                 bell_pending, refused, counts>>

\* lua_close runs the finalizers that are left, one after the other. One that
\* awaits j gets the main thread a queue for j, which connects j, ...
CloseAwait(j) ==
  /\ Phase("close", "close drain")
  /\ reopened' = reopened \cup {j}
  /\ flags' = [flags EXCEPT ![j] = @ \cup {"CONNECTED", "AWAITED"}]
  /\ UNCHANGED <<todo, policies, poll, sealed, counts, Work>>

\* ... and drains: the events end in the queues that are lost, or nowhere. No
\* flag is turned off: the main thread is not a task that has finished.
CloseDrain ==
  /\ Phase("close drain", "close take")
  /\ bell_pending' = FALSE
  /\ UNCHANGED <<todo, policies, poll, reopened, sealed, flags, counts,
                 staging, stager, watching, rung, refused, heap, drain, tasks>>

CloseTake ==
  /\ phase = "close take"
  /\ staging # <<>>
  /\ staging' = Tail(staging)
  /\ UNCHANGED <<shared, stager, bell, counts, heap, drain, tasks>>

CloseDrained ==
  /\ Phase("close take", "close")
  /\ staging = <<>>
  /\ UNCHANGED <<todo, policies, poll, reopened, sealed, flags, counts, Work>>

\* lua_close and zephlet_lua_coordinate return.
Closed ==
  /\ Phase("close", "stopped")
  /\ UNCHANGED <<todo, policies, poll, reopened, sealed, flags, counts, Work>>

Closing ==
  \/ \E j \in Finalized : CloseAwait(j)
  \/ CloseDrain \/ CloseTake \/ CloseDrained \/ Closed

Coordinate ==
  \/ SealFlags \/ Seal \/ Folded \/ Empty \/ Closing
  \/ \E i \in Insts : Fold(i) \/ Clear(i)

-----------------------------------------------------------------------------
(* zlet_lua_drain, by whichever task is on the thread.                     *)

Others(t) == Tasks \ {t}

\* Task t has the thread and is at p.
At(t, p) ==
  /\ phase = "run"
  /\ pc[t] = p
  /\ \A u \in Others(t) : pc[u] \in OffCpu

Goto(t, p) == pc' = [pc EXCEPT ![t] = p]

Step(t, p, q) == At(t, p) /\ Goto(t, q)

\* The task enters a drain that returns to p.
Drain(t, p) ==
  /\ Goto(t, "drain")
  /\ calls' = [calls EXCEPT ![t] = <<p>> \o @]

Return(t) ==
  /\ Goto(t, Head(calls[t]))
  /\ calls' = [calls EXCEPT ![t] = Tail(@)]

\* Faulty variant: the outstanding doorbell is not cleared.
DrainUncleared(t) ==
  /\ Step(t, "drain", "take")
  /\ ~draining
  /\ draining' = TRUE
  /\ UNCHANGED <<shared, staging, stager, bell, counts, heap, slot, calls, ask>>

\* Faulty variant: a drain inside a drain is not refused.
DrainNested(t) ==
  /\ Step(t, "drain", "take")
  /\ draining' = TRUE
  /\ bell_pending' = FALSE
  /\ UNCHANGED <<shared, staging, stager, watching, rung, refused, counts,
                 heap, slot, calls, ask>>

\* The doorbell is cleared before the first event is taken.
DrainBegin(t) ==
  /\ Step(t, "drain", "take")
  /\ ~draining
  /\ draining' = TRUE
  /\ bell_pending' = FALSE
  /\ UNCHANGED <<shared, staging, stager, watching, rung, refused, counts,
                 heap, slot, calls, ask>>

\* A drain inside a drain returns at once.
DrainRefused(t) ==
  /\ At(t, "drain")
  /\ draining
  /\ Return(t)
  /\ UNCHANGED <<shared, staging, stager, bell, counts, heap, drain, ask>>

\* staging_take.
StagingTake(t) ==
  /\ Step(t, "take", "prune")
  /\ staging # <<>>
  /\ staging' = Tail(staging)
  /\ slot' = [inst |-> Head(staging), fifo |-> FALSE, await |-> FALSE]
  /\ UNCHANGED <<shared, stager, bell, counts, heap, draining, calls, ask>>

DrainEnd(t) ==
  /\ At(t, "take")
  /\ staging = <<>>
  /\ draining' = FALSE
  /\ slot' = NoSlot
  /\ Return(t)
  /\ UNCHANGED <<shared, staging, stager, bell, counts, heap, ask>>

\* Faulty variant: a task that is not suspended is taken for a finished one.
NotYielded(u) == pc[u] \notin {"park", "sleep"}

TaskFinished(u) == pc[u] = "done"

\* zlet_lua_await_prune: the queues that finished tasks have for i are
\* dropped; without any other, i is no longer awaited, and without a policy
\* no longer staged. Nobody reads what else has arrived for a finished task,
\* so that the order of it is not kept either.
Prune(i, live) ==
  LET gone == {u \in Tasks : i \in queues[u] /\ TaskFinished(u)}
  IN  /\ queues' = [u \in Tasks |-> queues[u] \ {j \in {i} : u \in gone}]
      /\ arrived' = [u \in Tasks |-> IF u \in gone THEN <<>> ELSE arrived[u]]
      /\ flags' = [flags EXCEPT ![i] =
                     CASE live -> @
                       [] ~live /\ "POLICY" \in @ -> @ \ {"AWAITED"}
                       [] OTHER -> @ \ {"AWAITED", "CONNECTED"}]

\* Where the event goes: to the policies' FIFO if it has room, to the waiting
\* tasks' queues if there are any, or nowhere.
DrainPrune(t) ==
  /\ At(t, "prune")
  /\ LET i       == slot.inst
         policy  == "POLICY" \in flags[i]
         awaited == "AWAITED" \in flags[i]
         live    == \E u \in Tasks : i \in queues[u] /\ ~TaskFinished(u)
         toFifo  == policy /\ Len(fifo) < FifoDepth
         toAwait == awaited /\ live
     IN  /\ IF awaited THEN Prune(i, live)
                       ELSE UNCHANGED <<queues, arrived, flags>>
         /\ fifo_drop' = IF policy /\ ~toFifo THEN Inc(fifo_drop, i)
                                              ELSE fifo_drop
         /\ slot' = [inst |-> i, fifo |-> toFifo, await |-> toAwait]
         /\ Goto(t, IF toFifo \/ toAwait THEN "convert" ELSE "take")
  /\ UNCHANGED <<start, sealed, staging, stager, bell, emitted, staged_drop,
                 delivered, preseal_drop, fifo, tables, draining, calls, ask>>

\* The event object is being made, before or after a finalizer.
Converting(t) == At(t, "convert") \/ At(t, "reconvert")

\* The heap is full and the event lost.
ConvertFails(t) ==
  /\ Converting(t)
  /\ Goto(t, "take")
  /\ fifo_drop' = IF slot.fifo THEN Inc(fifo_drop, slot.inst) ELSE fifo_drop
  /\ UNCHANGED <<shared, staging, stager, bell, emitted, staged_drop,
                 delivered, preseal_drop, heap, drain, calls, ask>>

Count(q, i) == Cardinality({k \in DOMAIN q : q[k] = i})

\* Faulty variant: an event is queued without a look at the queue's length.
RouteUnbounded(t) ==
  /\ Converting(t)
  /\ Goto(t, "take")
  /\ LET i    == slot.inst
         open == {u \in Tasks : slot.await /\ i \in queues[u]}
     IN  /\ fifo' = IF slot.fifo THEN Append(fifo, i) ELSE fifo
         /\ arrived' = [u \in Tasks |->
              IF u \in open THEN Append(arrived[u], i) ELSE arrived[u]]
  /\ UNCHANGED <<shared, staging, stager, bell, counts, tables, queues, drain,
                 calls, ask>>

\* zlet_lua_await_route, and the FIFO: a full queue drops the event.
Route(t) ==
  /\ Converting(t)
  /\ Goto(t, "take")
  /\ LET i    == slot.inst
         open == {u \in Tasks : /\ slot.await /\ i \in queues[u]
                                /\ Count(arrived[u], i) < AwaitDepth}
     IN  /\ fifo' = IF slot.fifo THEN Append(fifo, i) ELSE fifo
         /\ arrived' = [u \in Tasks |->
              IF u \in open THEN Append(arrived[u], i) ELSE arrived[u]]
  /\ UNCHANGED <<shared, staging, stager, bell, counts, tables, queues, drain,
                 calls, ask>>

\* An allocation runs a finalizer that awaits j in the name of the task: the
\* task gets a queue for j, and drains. Lua runs no finalizer inside another.
\* One that runs in the pump or the dispatcher is left out: their queues for j
\* would never be read.
Finalizer(t, j, p) ==
  /\ At(t, pc[t]) /\ t \in Scripts
  /\ \A k \in DOMAIN calls[t] :
       calls[t][k] \notin {"reconvert", "tabled", "store"}
  /\ tables' = tables \cup {j}
  /\ queues' = [queues EXCEPT ![t] = @ \cup {j}]
  /\ flags' = [flags EXCEPT ![j] = IF j \in queues[t] THEN @
                                   ELSE @ \cup {"CONNECTED", "AWAITED"}]
  /\ Drain(t, p)
  /\ UNCHANGED <<start, sealed, staging, stager, bell, counts, fifo, arrived,
                 drain, ask>>

Draining(t) ==
  \/ DrainBegin(t) \/ DrainRefused(t) \/ StagingTake(t) \/ DrainEnd(t)
  \/ DrainPrune(t) \/ ConvertFails(t) \/ Route(t)
  \/ \E j \in Finalized : pc[t] = "convert" /\ Finalizer(t, j, "reconvert")

-----------------------------------------------------------------------------
(* core.prepare and core.take: a task awaits any of the instances S.       *)

SetAsk(t, a) == ask' = [ask EXCEPT ![t] = a]

Await(t, S, timed) ==
  /\ Step(t, "run", "prepare")
  /\ SetAsk(t, [insts |-> S, making |-> NULL, timed |-> timed])
  /\ UNCHANGED <<shared, staging, stager, bell, counts, heap, drain, calls>>

\* The instances that the task has no queue for.
Lacking(t) == ask[t].insts \ queues[t]

\* push_queue allocates a queue for such an instance, and before it the table
\* of the instance's queues if there is none, ...
QueueAlloc(t, i) ==
  /\ At(t, "prepare")
  /\ i \in Lacking(t)
  /\ Goto(t, IF i \in tables THEN "alloc" ELSE "table")
  /\ SetAsk(t, [ask[t] EXCEPT !.making = i])
  /\ UNCHANGED <<shared, staging, stager, bell, counts, heap, drain, calls>>

\* The element k of q is taken out.
Without(q, k) == SubSeq(q, 1, k - 1) \o SubSeq(q, k + 1, Len(q))

\* ... which takes the place of one that a finalizer made meanwhile: the events
\* in its queue are lost, one after the other, ...
TableLoses(t) ==
  /\ At(t, "tabled")
  /\ \E k \in DOMAIN arrived[t] :
       /\ arrived[t][k] = ask[t].making
       /\ arrived' = [arrived EXCEPT ![t] = Without(@, k)]
  /\ UNCHANGED <<shared, staging, stager, bell, counts, fifo, tables, queues,
                 drain, tasks>>

\* ... and the queue with them, ...
TableStore(t) ==
  /\ At(t, "table") \/ At(t, "tabled")
  /\ Goto(t, "alloc")
  /\ Count(arrived[t], ask[t].making) = 0
  /\ tables' = tables \cup {ask[t].making}
  /\ queues' = [queues EXCEPT ![t] = @ \ {ask[t].making}]
  /\ UNCHANGED <<shared, staging, stager, bell, counts, fifo, arrived, drain,
                 calls, ask>>

\* before or after a finalizer that the allocation runs
Storing(t) == At(t, "alloc") \/ At(t, "store")

Made(t) == SetAsk(t, [ask[t] EXCEPT !.making = NULL])

\* ... keeps the one that a finalizer made meanwhile, ...
QueueKept(t) ==
  /\ Storing(t)
  /\ Goto(t, "prepare")
  /\ ask[t].making \in queues[t]
  /\ Made(t)
  /\ UNCHANGED <<shared, staging, stager, bell, counts, heap, drain, calls>>

\* ... or stores its own, before it sets the flags, ...
QueueStore(t) ==
  /\ Storing(t)
  /\ Goto(t, "flags")
  /\ ask[t].making \notin queues[t]
  /\ queues' = [queues EXCEPT ![t] = @ \cup {ask[t].making}]
  /\ UNCHANGED <<shared, staging, stager, bell, counts, fifo, tables, arrived,
                 drain, calls, ask>>

\* ... and drains.
QueueFlags(t) ==
  /\ At(t, "flags")
  /\ flags' = [flags EXCEPT ![ask[t].making] = @ \cup {"CONNECTED", "AWAITED"}]
  /\ Made(t)
  /\ Drain(t, "prepare")
  /\ UNCHANGED <<start, sealed, staging, stager, bell, counts, heap, drain>>

\* Where a task goes on that has drained: the pump parks, a task in an await
\* looks at its queues, the dispatcher at the FIFO.
Loop(t) ==
  CASE t = "pump" -> "park"
    [] t # "pump" /\ ask[t].insts # {} -> "pick"
    [] OTHER -> "pop"

\* Faulty variant: the doorbell is not watched before the drain.
AttachUnwatched(t) ==
  /\ Drain(t, Loop(t))
  /\ UNCHANGED <<shared, staging, stager, bell, counts, heap, drain, ask>>

\* attach: the doorbell is watched before the drain that follows.
Attach(t) ==
  /\ watching' = watching \cup {t}
  /\ rung' = rung \ {t}
  /\ Drain(t, Loop(t))
  /\ UNCHANGED <<shared, staging, stager, bell_pending, refused, counts, heap,
                 drain, ask>>

Prepared(t) ==
  /\ At(t, "prepare")
  /\ Lacking(t) = {}
  /\ Attach(t)

Mine(t) == {k \in DOMAIN arrived[t] : arrived[t][k] \in ask[t].insts}

\* core.take returns the oldest event of the await's queues, ...
TakeEvent(t) ==
  /\ Step(t, "pick", "run")
  /\ \E k \in Mine(t) :
       /\ \A l \in Mine(t) : k <= l
       /\ arrived' = [arrived EXCEPT ![t] = Without(@, k)]
  /\ SetAsk(t, NoAsk)
  /\ UNCHANGED <<shared, staging, stager, bell, counts, fifo, tables, queues,
                 drain, calls>>

\* ... or a timeout, once the deadline has passed, ...
TakeTimeout(t) ==
  /\ Step(t, "pick", "run")
  /\ Mine(t) = {} /\ ask[t].timed
  /\ SetAsk(t, NoAsk)
  /\ UNCHANGED <<shared, staging, stager, bell, counts, heap, drain, calls>>

\* ... or how long to park.
TakePark(t) ==
  /\ Step(t, "pick", "park")
  /\ Mine(t) = {}
  /\ UNCHANGED <<shared, staging, stager, bell, counts, heap, drain, calls, ask>>

Awaiting(t) ==
  \/ \E i \in Insts : QueueAlloc(t, i)
  \/ TableLoses(t) \/ TableStore(t)
  \/ QueueKept(t) \/ QueueStore(t) \/ QueueFlags(t)
  \/ \E j \in Finalized : \/ pc[t] = "table" /\ Finalizer(t, j, "tabled")
                          \/ pc[t] = "alloc" /\ Finalizer(t, j, "store")
  \/ Prepared(t) \/ TakeEvent(t) \/ TakeTimeout(t) \/ TakePark(t)

-----------------------------------------------------------------------------
(* The dispatcher, and the scheduler around the tasks.                     *)

\* core.pop takes the event off before it allocates anything, ...
Pop ==
  /\ Step("dispatch", "pop", "run")
  /\ fifo # <<>>
  /\ fifo' = Tail(fifo)
  /\ delivered' = Inc(delivered, Head(fifo))
  /\ UNCHANGED <<shared, staging, stager, bell, emitted, staged_drop,
                 fifo_drop, preseal_drop, tables, queues, arrived, drain, calls,
                 ask>>

\* ... and core.lost counts it if core.pop raises.
PopFails ==
  /\ At("dispatch", "pop")
  /\ fifo # <<>>
  /\ fifo' = Tail(fifo)
  /\ fifo_drop' = Inc(fifo_drop, Head(fifo))
  /\ Drain("dispatch", "pop")
  /\ UNCHANGED <<shared, staging, stager, bell, emitted, staged_drop,
                 delivered, preseal_drop, tables, queues, arrived, drain, ask>>

PopNothing ==
  /\ Step("dispatch", "pop", "park")
  /\ fifo = <<>>
  /\ UNCHANGED <<shared, staging, stager, bell, counts, heap, drain, calls, ask>>

\* The handlers of the event have returned or raised.
HandlersReturn ==
  /\ At("dispatch", "run")
  /\ Drain("dispatch", "pop")
  /\ UNCHANGED <<shared, staging, stager, bell, counts, heap, drain, ask>>

\* The pump and the dispatcher begin by attaching to the doorbell.
BeginInternal(t) ==
  /\ At(t, "start")
  /\ Attach(t)

BeginScript(t) ==
  /\ Step(t, "start", "run")
  /\ UNCHANGED <<shared, staging, stager, bell, counts, heap, drain, calls, ask>>

Begin(t) == IF t \in Scripts THEN BeginScript(t) ELSE BeginInternal(t)

\* A handler sleeps.
Sleep ==
  /\ Step("dispatch", "run", "sleep")
  /\ UNCHANGED <<shared, staging, stager, bell, counts, heap, drain, calls, ask>>

WakeUp ==
  /\ Step("dispatch", "sleep", "run")
  /\ UNCHANGED <<shared, staging, stager, bell, counts, heap, drain, calls, ask>>

Dispatcher == Pop \/ PopFails \/ PopNothing \/ HandlersReturn \/ Sleep

\* A task of the script ends.
Finish(t) ==
  /\ Step(t, "run", "done")
  /\ watching' = watching \ {t}
  /\ rung' = rung \ {t}
  /\ UNCHANGED <<shared, staging, stager, bell_pending, refused, counts, heap,
                 drain, calls, ask>>

\* The collector frees the queues of a finished task.
Collect(t) ==
  /\ phase = "run" /\ AllOffCpu
  /\ pc[t] = "done"
  /\ queues[t] # {}
  /\ queues' = [queues EXCEPT ![t] = {}]
  /\ arrived' = [arrived EXCEPT ![t] = <<>>]
  /\ UNCHANGED <<shared, staging, stager, bell, counts, fifo, tables, drain,
                 tasks>>

\* A script or a handler spawns a task anew.
Spawn(t) ==
  /\ \E u \in Others(t) : At(u, "run")
  /\ pc[t] = "done" /\ queues[t] = {}
  /\ Goto(t, "start")
  /\ UNCHANGED <<shared, staging, stager, bell, counts, heap, drain, calls, ask>>

\* Faulty variant: the task parks for the poll period, whatever its deadline.
WakeableLate(t) == t \in rung \/ poll

\* What ends bell:await: the doorbell, the poll, the deadline.
Wakeable(t) == t \in rung \/ poll \/ ask[t].timed

Wake(t) ==
  /\ At(t, "park")
  /\ Wakeable(t)
  /\ rung' = rung \ {t}
  /\ Drain(t, Loop(t))
  /\ UNCHANGED <<shared, staging, stager, bell_pending, watching, refused,
                 counts, heap, drain, ask>>

-----------------------------------------------------------------------------

Init ==
  /\ phase = "main" /\ todo = {} /\ policies = {} /\ poll \in Polls
  /\ reopened = {}
  /\ sealed = FALSE
  /\ flags = [i \in Insts |-> {}]
  /\ staging = <<>>
  /\ stager = Idle
  /\ bell_pending = FALSE /\ refused = FALSE
  /\ LET zero == [i \in Insts |-> 0]
     IN  /\ emitted = zero /\ staged_drop = zero /\ fifo_drop = zero
         /\ delivered = zero /\ preseal_drop = zero
  /\ watching = {} /\ rung = {} /\ fifo = <<>> /\ tables = {}
  /\ queues = [t \in Tasks |-> {}] /\ arrived = [t \in Tasks |-> <<>>]
  /\ draining = FALSE /\ slot = NoSlot
  /\ pc = [t \in Tasks |-> "start"] /\ calls = [t \in Tasks |-> <<>>]
  /\ ask = [t \in Tasks |-> NoAsk]

\* What the script does between its awaits.
Script(t) ==
  \/ \E S \in (SUBSET Insts) \ {{}}, timed \in Timed : Await(t, S, timed)
  \/ Finish(t)

\* The task that has the thread goes on.
Running ==
  \/ \E t \in Tasks : Draining(t) \/ Awaiting(t)
  \/ Dispatcher
  \/ \E t \in Scripts : Script(t)

Next ==
  \/ \E i \in Insts : Emit(i) \/ AddPolicy(i)
  \/ Listener \/ Coordinate \/ Fail \/ Running \/ WakeUp
  \/ \E t \in Tasks : Begin(t) \/ Wake(t)
  \/ \E t \in Scripts : Collect(t) \/ Spawn(t)

Spec == Init /\ [][Next]_vars

(* A listener and the task on the thread go on; the scheduler starts and   *)
(* wakes every task whose wait is over; a deadline passes in the end.      *)
(* Nothing wakes a task that sleeps.  The thread is free again and again:  *)
(* no script awaits without a wait for ever.                               *)
Fairness ==
  /\ WF_vars(Listener)
  /\ WF_vars(Coordinate)
  /\ WF_vars(Running)
  /\ \A t \in Tasks : SF_vars(Begin(t) \/ Wake(t))
  /\ \A t \in Scripts : SF_vars(TakeTimeout(t))
  /\ []<>AllOffCpu

FairSpec == Spec /\ Fairness

-----------------------------------------------------------------------------
(* Properties.                                                             *)

Points == OffCpu \cup {"run", "drain", "take", "prune", "convert",
                       "reconvert", "prepare", "table", "tabled", "alloc",
                       "store", "flags", "pick", "pop"}

\* The frontend has shut down: lua_close is in progress, or has returned.
Ended == {"close", "close drain", "close take", "stopped"}

(* The types of the variables; every queue keeps within its depth, and a   *)
(* task has events of the sources only that it has a queue for.            *)
TypeOK ==
  /\ phase \in {"main", "seal", "fold", "run", "clear"} \cup Ended
  /\ {todo, policies, reopened, tables} \subseteq SUBSET Insts
  /\ poll \in BOOLEAN /\ sealed \in BOOLEAN
  /\ flags \in [Insts -> SUBSET Flags]
  /\ staging \in Seq(Insts) /\ Len(staging) <= StagingDepth
  /\ stager \in [pc: {"idle", "filter", "stage", "count", "bell", "publish"},
                 inst: Insts \cup {NULL}, over: Insts \cup {NULL}]
  /\ bell_pending \in BOOLEAN /\ refused \in BOOLEAN /\ draining \in BOOLEAN
  /\ watching \subseteq Tasks /\ rung \subseteq watching
  /\ {emitted, staged_drop, fifo_drop, delivered, preseal_drop}
       \subseteq [Insts -> Nat]
  /\ fifo \in Seq(Insts) /\ Len(fifo) <= FifoDepth
  /\ queues \in [Tasks -> SUBSET Insts]
  /\ arrived \in [Tasks -> Seq(Insts)] /\ calls \in [Tasks -> Seq(Points)]
  /\ \A t \in Tasks, i \in Insts :
       Count(arrived[t], i) <= IF i \in queues[t] THEN AwaitDepth ELSE 0
  /\ slot \in [inst: Insts \cup {NULL}, fifo: BOOLEAN, await: BOOLEAN]
  /\ pc \in [Tasks -> Points]
  /\ ask \in [Tasks -> [insts: SUBSET Insts, making: Insts \cup {NULL},
                        timed: BOOLEAN]]

One(b) == IF b THEN 1 ELSE 0

\* The event of i that the listener holds, or is about to count as lost.
InListener(i) ==
  One(stager.inst = i /\ stager.pc \in {"filter", "stage"}) + One(stager.over = i)

\* The event of i that a drain holds, until it is known not to fit the FIFO.
InDrain(i) ==
  LET at == {pc[t] : t \in Tasks}
              \cup UNION {{calls[t][k] : k \in DOMAIN calls[t]} : t \in Tasks}
  IN  One(slot.inst = i /\ \/ "prune" \in at
                           \/ slot.fifo /\ at \cap {"convert", "reconvert"} # {})

(* Every event of a source with policies is on its way, delivered, or      *)
(* counted as dropped, until the frontend stops: the seal filters none of  *)
(* them, no queue loses one or gives it twice, not even when a finalizer   *)
(* drains inside zlet_lua_drain or when core.pop raises.                   *)
Accounted ==
  phase \notin {"clear"} \cup Ended =>
    \A i \in Insts : ~sealed \/ i \in policies =>
      emitted[i] = InListener(i) + Count(staging, i) + InDrain(i)
                     + Count(fifo, i) + delivered[i]
                     + preseal_drop[i] + staged_drop[i] + fifo_drop[i]

(* A source is staged as long as somebody listens: one with policies, one  *)
(* a task has a queue for, and a parked task has one for every source it   *)
(* waits on. So zlet_lua_await_prune never turns off what a live task      *)
(* waits for, however its queues were made.                                *)
ListenersConnected ==
  phase = "run" =>
    /\ \A i \in policies : {"CONNECTED", "POLICY"} \subseteq flags[i]
    /\ \A t \in Tasks :
         /\ pc[t] = "park" => ask[t].insts \subseteq queues[t]
         /\ pc[t] # "done" =>
              \A i \in queues[t] :
                \/ {"CONNECTED", "AWAITED"} \subseteq flags[i]
                \/ pc[t] = "flags" /\ ask[t].making = i

\* A step counts no drop of source i, and leaves at most one event of it staged.
Quiet(i) == staged_drop'[i] = staged_drop[i] /\ Count(staging', i) <= 1

(* After the shutdown a source is staged again only if a finalizer that     *)
(* lua_close ran has awaited it: of any other source at most the one event  *)
(* that was past the filter is staged, and no drop is counted, whatever the *)
(* sources emit and wherever the listener was meanwhile.                    *)
QuietOnceStopped ==
  [][(phase \in Ended) => \A i \in Insts \ reopened : Quiet(i)]_vars

\* What the doorbell promises: it was not refused, or the poll is there.
Heard == phase = "run" /\ (poll \/ ~refused)

(* Staged events are taken, also while the dispatcher or a script sleeps:  *)
(* no doorbell is lost between zephlet_lua_stage and zlet_lua_drain.       *)
StagingEmptied == staging # <<>> ~> staging = <<>> \/ ~Heard

\* There is something for the task in the queues it looks at.
Due(t) ==
  CASE ask[t].insts # {} -> Mine(t) # {}
    [] OTHER -> t = "dispatch" /\ fifo # <<>>

(* A parked task is woken for an event that another task's drain put in    *)
(* its queue.                                                              *)
WaitersWoken ==
  \A t \in Tasks \ {"pump"} :
    pc[t] = "park" /\ Due(t) ~> pc[t] # "park" \/ ~Heard

(* A timed await returns, with or without a doorbell or a poll.            *)
TimedWaitEnds ==
  \A t \in Scripts : ask[t].timed ~> ~ask[t].timed \/ phase # "run"

(* After the seal no dropped event of a source with policies is left out   *)
(* of the counters that z.stats() shows.                                   *)
NoSilentDrop ==
  phase = "run" => \A i \in policies : preseal_drop[i] = 0
=============================================================================
