# TLA+ models of zephlet

Zephlet is a small service framework on top of Zephyr's zbus. A *zephlet* is a
service with a protobuf interface; a code generator turns the `.proto` into a
command channel, an event channel, typed wrappers and a method table. Three
frontends (shell, CoAP, Lua) reach the instances, and a *coordinator* runs
asynchronous flows over several of them.

The project models the parts of this code where threads meet: what TLC checks
on small instances is stated in the `*.cfg` files, what TLAPS proves for every
value of the constants in the `*Proofs.tla` modules. `PROJECT.json` lists the
runs, the faulty variants each property is known to catch, the source lines of
every definition, the hazards, the disagreements between the code and its
documentation, and the theorems.

## 1. Inventory

| Component | State | Operations | Talks to |
|---|---|---|---|
| Coordinator (`zephlet_coord.c/.h`) | `current`, `kick_pending`; sidecar `chan`, `match`, `dst`, `pending_rm`, timer, runtime observer | `kick`, `next`, `done`, `await`, the generated listener and `resolve`, timeout, deferred cleanup | its own single work queue thread, zbus channels, publishers of any thread |
| CoAP Observe (`zephlet_coap_observe.c`, `zephlet_coap_frontend.c`) | slab of subscribers, list per instance, sequence counter per instance, purge gate | GET with Observe (register, refresh, deregister), notify, purge, reopen | CoAP server thread, event listener work, L4 network events |
| Lua events and await (`zephlet_lua_events.c`, `_await.c`, `_prelude.lua`) | per instance: staging queue, flags, `bell_pending`, counters, policy FIFO; queues of the waiting tasks | stage (listener), drain, fold of the start-up drops, pop, lost, `await`, `await_any`, shutdown | system work queue (listeners), Lua thread (scheduler, pump, dispatch and script tasks), a zbus doorbell |
| Lua module, commands, start (`zephlet_lua_module.c`, `_coordinate.c`) | seal, policy registry, `in_command`, start-once flag | handler registration, seal, add_policy, command call, coordinate | the command wrappers, the Lua state |
| Core dispatch, init walker (`zephlet.c`) | the walker's table at boot, otherwise none | dispatch by method id, lookup by name, init of all instances in priority order | the generated interface |
| Generated interface (`zephlet_interface.c.jinja`) | command channel message: the address of the caller's envelope (method id, request and response pointers, `return_code`) | wrappers, listener, trampolines, emit, is_ready | callers' threads, zbus |
| CoAP RPC path, discovery | the request being served | resolve, decode, call, encode, answer; instance lists; `.well-known/core` | CoAP server thread, the wrappers |
| Shell frontend | `zlet_shell_selected`, the selected form of output | parse, call, print; `zlet_fmt` | shell threads, the wrappers |
| Lua message conversion (`zephlet_lua_pb.c`, `_event.c`) | none | table to message and back, range checks; index and iteration of an event object | nanopb descriptors |
| Sample zephlets, code generator, west commands, build | | | |

### What is hard in it

* **Coordinator.** A publish, a timer and a step meet on three threads, with
  one lock around the claim of an await and another around `current`. The await
  is armed by plain stores after its observer is attached. Correct means: one
  driver per flow, an event and a timeout never both advance it, no kick is
  lost, no timer or observer of one await reaches into the next.
* **CoAP Observe.** Registrations, notifications and the purge of a disconnect
  run on three threads; blocks are freed outside the lock, the counter is
  stepped outside the lock. Correct means: no block is lost or freed twice,
  a purge leaves nobody behind, and a subscriber can tell from the values it gets
  how many notifications it lost.
* **Lua events.** A producer at interrupt-like urgency and a consumer that
  sleeps, with a bell that may fail to ring, bounded queues at three levels, a
  seal that changes what overflow means, and queues that a garbage collector
  takes away. Correct means: every event of a connected source is delivered or
  counted, in order, and nobody sleeps on a staged event.
* **Commands.** The handler runs on the caller's thread with the channel held;
  nesting and time limits decide whether two instances that call each other
  ever return. Three things can go wrong with one command (the publish, the
  handler, the conversion of the response) and every frontend folds them into
  one code of its own. Correct means: handlers of an instance exclude one
  another, a caller is told what happened to its own command, and no request
  reaches a handler half decoded.
* **Conversion.** Two directions, every kind of field, four widths, oneofs that
  share a slot, buffers that are reused and an allocator that may run the
  script's finalizers half way. Correct means: what a table says arrives, what
  a message says is shown, and nothing is left over from the command before.

## 2. Plan

Modules, in the order they are written; a module is finished (checked, its
properties shown to fail on faulty variants) before the next one is begun.

1. `CoordFlow`, `Coord`: the coordinator, the abstract flow it promises and the
   proof that it has one driver. *Done.*
2. `CoapObserve`: subscribers, notification and purge, with the slab proof.
   *Done.*
3. `LuaEvents`: the event path into the Lua frontend, with the seal and the
   stop around it. *Done, with the proofs of its accounting, of who stays
   connected and of the stop.*
4. `Dispatch`: the command channel of an instance as the generated wrappers
   drive it. *Done, with the proofs of its three safety properties.*
5. `InitWalker`, `CoapRpc`, `ShellCmd`, composed by `Commands`: the boot and
   the two frontends that issue commands from threads of their own. *Done, with
   the proofs of the walk, of what the frontends tell and of the discovery.*
   `CommandService`: what the channels promise, implemented by `Commands`.
   *Done, with the proof of the refinement.*
6. `LuaValues`, `LuaPb`, `LuaMeaning`: the conversion between tables and
   messages, and a reference for it that knows neither order nor casts.
   `LuaCommand`: the commands that use a conversion, whichever it is. *Done,
   with the proofs of what a command does with a right conversion.*

The plan is carried out. Liveness, and what `LuaPb` computes for tables of any
depth, stay with TLC (section 6); section 8 says what has no model.

Composition: `CoordFlow` is implemented by `Coord` (`FlowSpec`). `Commands`
puts `InitWalker` and the frontends `CoapRpc` and `ShellCmd` on the channels of
`Dispatch`, and implements `CommandService` (`ServiceSpec`). `LuaCommand` issues
its commands one at a time from one thread, so that all it needs of `Dispatch` is what a call may come back with; the
conversion is a parameter of it (operators as constants), which
`MCLuaCommand` and `lua_command.cfg` bind to `LuaPb` and `LuaMeaning`. The event
paths (`CoapObserve`, `LuaEvents`) start where a listener of the event channel
calls the frontend, and need nothing of `Dispatch`.

## 3. The models and the code

### Coord

One coordinator, its async sidecar, the work queue thread, kickers and
publishers. The variables carry the names of the struct fields; the Zephyr
objects they stand on (`attached`, `timer`, `workq`) and the place where each
thread is (`wpc`, `kpc`, `pub`) are next to them. `raced` is a history variable.

* A spinlock section is one action (`Kick`, `Done`, `AsyncClaim`). Everything
  outside a lock is cut where another thread can look: the await is `Await`,
  `AddObs`, `StoreDst`, `StoreMatch`, `StoreChan`, `Schedule`, because the code
  attaches the observer first and stores its arguments afterwards.
* A publisher holds the channel from `PubLock` to `PubUnlock`; the listener of
  the framework (`PubMatch`, `PubCopy`, `PubClaim`, `PubCancel`, `PubDefer`)
  runs in between, on the publisher's thread. `zbus_chan_add_obs` and
  `zbus_chan_rm_obs` wait for the channel, or give up (`ApiErrors`).
* A work item that is on the list is not added again; `k_work_schedule` leaves
  a pending timer alone; an expired timer is an item like the others.
* The author's flow is a graph (`Follows`) and a set of argument tuples
  (`Awaits`). The step zeroes its destination before an await, as the header
  advises.
* `ApiErrors` and `QuietArm` are the assumptions a run makes about its
  environment: which Zephyr calls may fail, and whether somebody publishes on a
  channel in the window in which an await on it is being armed.

### CoapObserve

Three threads: the CoAP server (one GET at a time), the system work queue (one
event at a time), network management. Each thread has one variable with its
place and its locals; a section under `zlet_observe_lock` is one action. Blocks
are freed outside the lock, so `Free` and `FreeTaken` are actions of their own.
Peers stand for address and token together.

* A registration reads the counter under the lock (`ReadValue`) and its answer
  leaves after it (`Answer`), or is lost: a notification with a later value may
  leave first.
* For each subscriber of the snapshot the notification leaves (`Send`), or one of
  the error paths of the loop is taken and nothing does (`Drop`). Nothing is sent
  again.
* `handed` and `lost` are history variables: the last value given to a peer, by
  the reading of an answer or by a notification, and how many of its
  notifications were lost since. They begin anew with a registration and end
  with a deregistration or a purge.

### LuaEvents

The system work queue runs the listeners, one at a time (`stager`); the owner
thread runs the main chunk, the seal, then the pump, the dispatcher and the
script's tasks, one at a time until it parks, sleeps or ends (`pc`, `At`). The
two threads share staging, the flags, `bell_pending` and the counters: each
lock section or atomic operation on them is an action, in the order of the code
(`Stage`/`StageOverwrites`, `CountOverwritten`, `Ring`, `Publish`;
`SealFlags`, `Seal`, `Fold`; `Clear`, `Empty`).

* After the shutdown `lua_close` runs the finalizers that are left, and one of
  them may await: the main thread gets a queue, the source is connected again,
  and a drain takes what is staged (`CloseAwait`, `CloseDrain`, `CloseTake`,
  `CloseDrained`), as often as finalizers do so. `reopened` are these sources.
  Nothing turns their flags off afterwards.
* `tables` are the instances with a weak table for their queues. `push_queue`
  allocates that table before the queue (`QueueAlloc`, `TableStore`); a finalizer
  that an allocation of it runs may have made a table and a queue of its own
  meanwhile, which the store replaces, with the events in it (`TableLoses`).

* `calls` is the stack of places a drain returns to: a finalizer that awaits
  drains inside a drain or inside an allocation of `push_queue`
  (`Finalizer`). Lua runs no finalizer inside another. Finalizers in the pump
  and the dispatcher are left out: the queues they would make are never read.
* `slot` is the one drain slot with its two destinations, `draining` its guard.
* `queues` and `arrived` are the queues of each task with their events in order
  of arrival, which is what the serials of the code decide. `Collect` is the
  collector taking the queues of a finished task, `Prune` the drain doing it;
  with a finished task's queues goes all that has arrived in them, since nobody
  reads it any more.
* `watching` and `rung` are the doorbell as zephyr.async keeps it: a task that
  has attached is woken by every later doorbell, also by one that rang before
  it parked.
* `POLL_MS` is either set or not; a timeout may fire whenever the queues that
  the task looks at are empty. Time itself is not modelled.

### Dispatch

The envelope (`struct zephlet_call`) lives on its caller's stack and zbus
carries its address. `calls` is the stack of the envelopes of each thread;
`holder` and `message` are the semaphore and the stored address of each
channel. One command of a thread goes through

    take - [wait] - store - notify - handler - give - ret

where `Take`, `TakeBusy`, `TakeWaits`, `TakeTimeout`, `Store` and `Give` are
what `zbus_chan_pub` does as far as a command depends on it (external code),
and `Notify`, `NotifyNoHandler` and `HandlerReturns` are the generated listener
with `zephlet_dispatch` in it. The listener reads the address from the channel,
not from its caller: that it is the caller's own is a property
(`OwnWholeRequest`), not the shape of the model. A handler may issue commands
of its own (`HandlerCalls`, `HandlerResumes`), which is what makes `calls` a
stack. `Give` hands the semaphore to a waiter if there is one. The address that
a publish leaves in the channel is never read before the next one is stored, so
`Give` forgets it.

The errors of the publish (`err`) and of the handler (`return_code`) are kept
apart as the code keeps them apart; `ran` is a history variable: how often a
handler has run for the envelope.

### InitWalker

The walk over the section of instances: collect up to `MaxInstances`, the
insertion sort, one `init_fn` at a time. A failing `init_fn` is only logged.

### CoapRpc, ShellCmd, Commands

The CoAP server serves one request at a time (`coap`), a shell one line at a
time (`shell`). A request is refused before any command (`CoapRefuse`, `Usage`),
or becomes an envelope (`CoapPost`, `Call`) that `Dispatch` carries until the
wrapper is back (`CoapReply`, `Return`). `Refusal` and `Reply` are the generated
handler, in its order of checks; `decode_request`, `encode_response` and
`send_error` are the translation helpers that the repository tests on their
own, and `CoapMirrorsHelpers` holds the two against each other. Requests and
responses are told apart by what the code tells apart: whether a body fits and
decodes, whether a response encodes, is empty, or is too large for the packet.
A request carries the room that the packet of its answer has for a payload
(`room`): the header, the token that the peer chose and the options are off it
already. A list of instances has two limits, the text buffer (4.13) and that
room (no answer); the links of `/.well-known/core` have the second.
The printing of a response reads the selected form three times; `Fmt` is the
`zlet_fmt` of another shell backend, at any moment.

The walker shares no state with the frontends and the code makes nobody wait
for it. `Commands` lets them begin when it is done, and only in the boots in
`Serving`, so that the two state spaces add up instead of multiplying.

The walk over the section that makes a list of instances (`ListWalk`) and the
one over the resources (`CoreWalk`) are functions of the place they have come
to; `AddName` and `AddResource` are the bodies of the loops.

### CommandService

What a caller can rely on, without semaphores, listeners or frontends. The
state is, per thread, the stack of its commands under way, each *pending*,
*served* or *answered*. `Serve` needs an instance that runs no handler;
`NoSuchMethod` answers ENOSYS to an id without a handler; `TurnAway` answers
EBUSY to a command that does not wait and EAGAIN to one with a time limit, and
only while another command for the same instance is under way; `Finish` is the
one end of a served command. `View`, in `Commands`, maps the channels to it: an
envelope is pending until its handler runs, and answered once its answer is
decided, whether or not the semaphore has been given back. The step map:

| Commands | CommandService |
|---|---|
| `CoapPost`, `Call`, `HandlerCalls` | `Issue` |
| `Take`, `TakeWaits`, `Store`, `Give` | nothing |
| `TakeBusy`, `TakeTimeout` | `TurnAway` |
| `Notify` / `NotifyNoHandler` | `Serve` / `NoSuchMethod` |
| `HandlerReturns` | `Finish` |
| `CoapReply`, `Return`, `HandlerResumes` | `Return` |
| the walker, refusals, discovery, printing | nothing |

### LuaValues, LuaPb, LuaMeaning, LuaCommand

`LuaValues` holds what both sides of the conversion share: a Lua value is a
record with its type, a struct maps slots to values, the members of a oneof
share a slot. Integer widths of 1, 2, 4 and 8 bytes are `Bits`, the precision
of a `lua_Number` is `Mantissa`, so that every boundary of the code (a field
narrower than a Lua integer, one wider, an integer that a float cannot hold)
exists with a few bits. A cast that is out of range in C saturates, as it does
on ARM.

`LuaPb` is `zephlet_lua_pb.c` operator by operator: `read_*` from a Lua value
into a struct, `push_*` the other way.

`LuaMeaning` says the same without the code: which tables stand for a message
(`Accepts`), which message (`Meaning`), which tables show a message
(`ShowsMsg`).

`LuaCommand` is a command of a script (`zephlet_lua_module.c`), the start-once
flag and the owner (`zephlet_lua_coordinate.c`) and the event object
(`zephlet_lua_event.c`). `frames` is the stack of the commands in progress: a
table is read and a message pushed one field at a time, and between two of them
a finalizer of the script may run and try a command of its own. `in_command`
refuses it; without that guard the second command would use the first one's
buffers (`LCallUnguarded`), which is why they are variables here.

`LuaCommand` takes the conversion as constant operators: one round of reading
(`read_round`), one of pushing (`pushed_field`), the whole table of a message
(`pushed_msg`), and what all of it is meant to do (`accepts`, `meaning`,
`shows`). `ReadsAsMeant` and `PushesAsShown` say of one round what
`InvokedAsCalled`, `ResponseShown` and `EventWalked` say of a whole command: a
round carries the meaning of the entries read so far one entry further, or
refuses where none is left; a round of pushing adds the next field that is
present. TLC evaluates both for `LuaPb` against `LuaMeaning` on every table and
message of the run (`RoundsAsMeant`), and the theorems take them as hypotheses.

## 4. What TLC checks

| Run | Shows | Bounds |
|---|---|---|
| `coord_races` | types, `OneDriver`, `ArmedIsObserved`, with every call allowed to fail and publishes anywhere | 2 kickers, 1 publisher, 2 channels, 2 messages, a step that follows itself, a bounded await that filters and an unbounded one that does not |
| `coord_quiet` | no stale timer, only qualifying events, observer gone before the next step, no kick lost, awaits end, `Coord` implements `CoordFlow` (with its fairness) | 2 kickers, 2 publishers, 2 channels, 2 messages, 2 buffers, a flow of three steps, no failing call, no publish into the arming window |
| `coord_stale_timer`, `coord_stale_match`, `coord_lost_kick` | a disagreement each, see section 7 | as in their `.cfg` |
| `coap_observe` | no block lost or freed twice, one subscription per peer, a complete purge, values whose gaps tell what was lost | 2 instances, 2 peers, 2 blocks, 4 events in all, counter modulo 3 |
| `coap_seq` | a disagreement, see section 7 | 1 instance, 1 peer, 1 block |
| `lua_events` | every event of a policied source accounted for, whoever waits is connected, a stopped frontend is quiet but for what finalizers await again | 2 instances that finalizers may await, 1 script task beside the pump and the dispatcher, every queue of depth 1, one event per instance |
| `lua_wakeup` | types, staging is emptied, waiters are woken, timed awaits end | 1 instance, 2 events, queues of depth 1, awaits with and without a limit, no poll |
| `lua_preseal` | a disagreement, see section 7 | 2 instances, 1 event each |
| `commands` | handlers exclude one another and work for their own, whole request; wrapper, CoAP answer and shell line tell what happened; the generated CoAP handler agrees with the helpers; instance lists and `.well-known/core` are whole, refused or unanswered for want of room; a response is printed in the selected form; the walker's order; every command returns; `Commands` implements `CommandService` | 3 instances of 2 types, 2 threads, 17 requests, 4 lines, 27 boots of 4 instances with priorities -1..1 and one without any |
| `lua_command` | each round of the conversion does what the reference says; the wrapper gets what the table says, the script what the handler wrote; the guard follows the command; one run; an event object gives what its table would | 27 tables and 9 other calls on 3 methods, messages in messages up to `MaxDepth` 1, widths of 2, 3, 4 and 6 bits, 2 threads |

Why these are enough:

* Coordinator: two kickers are one that starts the flow and one that comes
  while it runs; the flow has one await at a time, so two channels give an
  await and the one before it, which is where timers, observers and buffers of
  two awaits can be confused. One publisher suffices for the claim against the
  timer, two (in `coord_quiet`) for the claim against another claim. The
  self-following step reaches any sequence of awaits. The state space is
  finite without a bound on steps or publishes.
* CoAP: two peers on two instances compete for two blocks, so the pool is full
  with subscribers of one instance, of the other, or of both. The counter of an
  instance wraps (four events, modulo 3), with up to four notifications lost in a
  row. `MaxEvents` is the only cut. With modulus 3 a value, the next one and an
  older one are different.
* Lua: with depth 1, one event fills a queue and the event of the other source
  overflows it; overflow of staging before and after the seal, of the FIFO and
  of a task's queue all occur. `MaxEvents` is the only cut; the counters of
  drops are bounded by it. For the wake-ups one source is enough, since the
  doorbell is common to all; the second event is the one staged while the first
  one's doorbell is still outstanding.

* Commands: two threads meet on a channel; nested commands take a channel from
  inside another, take their own (`K_NO_WAIT`, which fails), name the reserved
  row 0 and a row past the end. Each outcome of a handler that a frontend
  treats differently occurs once, each limit (`BufSize`, `room`, `MaxVisible`,
  `MaxSegments`, `MaxInstances`, the size of a body) is met, missed by one and
  exceeded by one. Where handlers could wait for each other in a circle one of
  the commands has a time limit: two handlers that wait for ever for each other
  do not return, and the code leaves that to the author.
* Lua commands: the tables hold both ends of every width and the values beyond
  them, as integers and as floats, in either order; every reason to refuse a
  field; a oneof set once, twice and in a nested message. `MaxFrames` is 2 and
  is reached only by the variant without the guard.

Symmetry is used for safety only (kickers; instances, peers and blocks;
instances; the threads of `lua_command`). `CHECK_DEADLOCK FALSE` stands in the
Lua runs, whose frontend may stop and whose events may be all there are, and in
`commands`, where a boot that serves nobody ends with the walk.

Every property has a faulty variant of the code next to the definition it
replaces (`\* Faulty variant: ...`); `PROJECT.json` names the pairs. They are
not part of `Next`.

## 5. Fairness

* `Coord`: kickers finish their submit, publishers finish a publish they are
  in, the kernel expires timers and a step of the author returns (weak
  fairness). The work queue thread is *strongly* fair: `zbus_chan_add_obs` and
  `zbus_chan_rm_obs` wait for the channel's semaphore, which other publishers
  may take over and over; the kernel hands a given semaphore to the waiting
  thread. Nobody is assumed to kick or to publish.
* `LuaEvents`: a listener and the owner thread, once in a task, go on (weak
  fairness). zephyr.async starts and resumes every task that is ready again
  and again (strong fairness), and a deadline passes in the end
  (`TakeTimeout`, strong). `[]<>AllOffCpu` says that no script occupies the
  thread for ever without a wait: the code cannot preempt one that does.
  Nothing is assumed about a handler that sleeps: it may never wake, and
  `StagingEmptied` holds nevertheless because the pump is a task of its own.
  Publishing the doorbell may fail; the promises are then only those of the
  poll (`Heard`).

* `Commands`: the walker goes on, and so does each thread inside a publish,
  the CoAP server and the shell once their wrapper is back (weak fairness).
  A `k_sem_take` with a time limit ends, and one without ends when the
  semaphore is handed over, which `Give` does and nobody can overtake. Nobody is
  assumed to send a request or to type a line.

## 6. What is proved

Eight modules hold the theorems: `CoordProofs` and `CoordQuietProofs`,
`CoapObserveProofs`, `LuaEventsProofs`, `CommandsProofs` and `FrontendProofs`,
`InitWalkerProofs`, `LuaCommandProofs`. They hold for every value of the
constants that satisfies the assumptions the modules name: any number of
threads, channels, messages, instances, tasks, types, methods, peers and
blocks, any depth of a queue, any width of the sequence value, any sections of
any length, any commands that handlers issue in their turn. All safety
properties of the passing runs are theorems but `RoundsAsMeant`, which concerns
what recursive definitions compute, and so are the two refinements, that of
`CoordFlow` without its fairness.

The assumptions on constants (each `ASSUME` is evaluated by TLC on the runs):
`StepsAssumption`, `AwaitsAssumption`, `EnvAssumption` (the flow's graph is one
and an await's arguments are of their types); `ObserveAssumption` (a finite pool
and a counter of at least two values); `DepthAssumption`, `NameAssumption`
(queues have room for one event, names differ); `DispatchAssumption`,
`EnvelopeAssumption`, `CallsAssumption`, `TableAssumption` (what the generator
guarantees: every instance has a table and every row but 0 a handler);
`CoapAssumption`, `AnswerAssumption`, `ShellAssumption`, `ServingAssumption`
(bounds are numbers, the two frontends are threads, a response is not the
absence of one), `ListAssumption` (nor is an answer with a list);
`SectionAssumption` (an instance has one place in the linker section, a resource
one in the service, a name has a length and is not empty);
`WalkerAssumption`,
`SectionsAssumption` (the linker gives each instance a name of its own);
`ValuesAssumption`, `CommandAssumption` (what `lua_type` can find on the stack;
the fields of a message have names of their own). Theorems about one
environment say so in an `ASSUME` of their own.

### Coordinator

* `TypeCorrect`, from three lemmas about the work queue's list: what
  submitting, cancelling and taking an item leave on it, and that an item is
  never on it twice.
* `OneDriverAlways`, `ArmedIsObservedAlways`. `OneDriver` speaks of the set of
  all drivers and is not inductive by itself. `DriverInv` names the five kinds
  of driver (an item on the list, a kicker before its submit, a publisher after
  its claim, the thread inside a handler, the armed await) and says that they
  exclude one another and that one is there exactly when a flow is
  (`Exclusive`), and that an armed await has its observer (`Observed`): the late
  removal of an observer is itself a driver, so no await can be armed beside it.
  Both carry the proviso `~raced`, which `NeverRaced` discharges when
  `k_work_schedule_for_queue` does not fail.
* `ObserverReleasedAlways`, when neither the removal of an observer nor the
  scheduling fails (`Reliable`). `HeldInv`: what is attached is held by a
  driver, and of drivers there is one.
* `NoStaleTimerAlways`, `EventQualifiesAlways`, when moreover no publish falls
  into the arming of an await (`QuietArm`). `LockInv` (a channel's semaphore has
  one holder, nobody holds it while its await is being armed, the observer stays
  as long as a publish it let through is in progress), `MatchInv` (what such a
  publish carries passes the match, and the buffer has it after the copy) and
  `TimerInv` (an await is claimed after its timer has been scheduled, and a
  timer is delayed, on the list or in its handler). The proviso is no
  convenience: without it the two properties are false of the code, which the
  runs `coord_stale_timer` and `coord_stale_match` show.
* `NoKickLeftBehindAlways`, when no call fails; `coord_lost_kick` shows that it
  is false otherwise.
* `FlowImplemented`: under `ApiErrors = {}` and `QuietArm` every behaviour of
  `Coord` is one of `CoordFlow` without its fairness (`Flow!Safety`). The step
  simulation goes action by action; most steps are stutters of the flow. What
  needs the invariants is that the flow waits exactly while its await is neither
  resolved nor late: a timer handler or a publisher that comes too late changes
  nothing of the flow, and a deferred kick is there only while one is in
  progress (`NoKickLeftBehind`).

### CoAP Observe

* `TypeCorrect`, `SlabPartitioned`, `PurgeIsComplete`, `SubscribedOnce`.
  `SlabPartition` needs `PurgeOnly`: outside a purge the network thread holds no
  block. The other two are inductive with the types.
* `GapTellsLossAlways`. `SeqInv`: what a subscriber was handed last, and the
  losses since, add up to the counter, or to one less while the notification of
  the last event is due to it. The snapshot takes every subscriber of the
  instance, since its array has room for as many as the slab has blocks
  (`SnapshotTakesAll`, from `SlabPartition`);
  a value is one step behind the next across the wrap too (`WireStep`).

### Lua events

One invariant (`IInv`) carries all four theorems, because the accounting of
events depends on who holds the drain slot, and that on the stacks.

* `StackInv`: the four shapes of a task's stack, with the guard `draining` and
  the fact that one task has the thread. `SlotInv`: who takes or converts an
  event has it in the slot, and the place it will go to has room. `AskInv`: what
  a task prepares to wait for, and which queues it has made so far. `FlagsInv`:
  what is listened to is connected. `StagerInv`, `QuietInv`: the listener's one
  event.
* `AccountedAlways`: for each source, emitted equals in the listener, staged, in
  the slot, in the policy FIFO, delivered, and the three counters of drops. Each
  step moves one event from one term to another; the lemmas about `Count` say
  what appending, taking the head and overwriting do to a queue.
* `QuietOnceStoppedAlways`, a property of steps. After the shutdown a source that
  is not `reopened` has no flag (`FlagsInv`), and of its events at most one is
  staged or past the filter in the listener (`Past`), the latter only while
  staging is empty (`QuietInv`); so no overflow can be counted for it. What
  finalizers connect again is the proviso, and it is needed (section 7).
* `ListenersConnectedAlways`, `TypeCorrect` (which bounds every queue by its
  depth).

### Commands and frontends

* `ExclusionTheorem`, `OwnRequestTheorem`, `AnswerTheorem`. None of them is
  inductive: a handler that works for its own envelope is a matter of what the
  channel holds when the listener reads it, and that of who has its semaphore.
  The invariant `IInv` joins the three for every publish of every stack
  (`Fine`: whoever is past the semaphore has it, between the store and the
  listener the channel holds its address, a failed publish has run nothing, an
  answered one has run its handler once or has none) with the rule that no
  channel has two publishes past its semaphore, on one stack or on two
  (`Alone`). The argument is three lemmas about the stacks, whatever the
  action: one envelope is exchanged for another (`ChangeLemma`), one is pushed
  (`PushLemma`), one is popped (`PopLemma`). `Give` is the one step of two
  threads, and is taken as two exchanges.
* `CoapTruthfulAlways`, `CoapMirrorsAlways`, `ShellTruthfulAlways`,
  `PrintedInFormAlways`. `FrontendInv` adds to that invariant what a frontend
  knows about its own thread: the outermost publish is that of its command
  (`Root`), handlers of other commands only push on top of it, and what comes
  back is that envelope, served or not begun (`Back`). `PrintInv` follows the
  three readings of the selected form.
* `DiscoveryWholeAlways`. That an answer is the list of a whole walk is an
  invariant of the CoAP thread; what is in such a list is a fact about the walk
  at each place of the section: the instances of the type so far, in their
  order, in exactly the room their names take and within the buffer, or an
  overflow, where the names take more, which nothing afterwards takes back.
  Hence `TextInv` decides between the three ends of a request: refused for the
  buffer, unanswered for the packet, or the whole list. The prover has no
  induction rule, so each such fact is proved by its least counterexample. For `.well-known/core`: the first
  visible resources, as many as the table holds.
* `ServiceImplemented`. That a command is served only by an idle instance, and
  that what comes back is its own, are the invariants above. Two things need
  more (`SoundInv`): that a command which is turned away was turned away by
  another one, for which whoever waits at a semaphore waits for somebody and a
  semaphore that is taken is with a publish in progress; and that nothing is in
  an envelope before its answer, for which below the top of a stack there are
  only handlers. The invariant is preserved for each way an envelope changes
  (`SoundMove`, `SoundPush`, `SoundPop`), and each of those is a step of the
  service or none as far as the service sees it (`ViewMove`, `ViewTop`).

### Init walker

`InitOrderAlways`, `InitCompleteAlways`. `WalkInv`: the table is a permutation
of the instances it had room for; during the sort it is ascending up to the
place the sort has come to, equal priorities by their place in the section, and
untouched behind it; afterwards the called `init_fn`s are those of its front.
What the inner loop finds (`InnerLoopLemma`) keeps the table a permutation
(`ShiftPerm`) and ascending (`ShiftAscends`), for a stable sort of any length.

### Lua commands

* `GuardFollowsAlways`, `OneRunAlways`: no hypothesis about the conversion.
  `Alone`: there is no command inside another and the guard says whether there
  is one. `Owned`: a run that was not refused is the owner's.
* `InvokedAlways`, `ResponseShownAlways`, from `ReadsAsMeant` and
  `PushesAsShown`. `InProgress` says for the one frame what its buffer holds:
  while reading, the meaning of the entries read, so that one more round keeps
  it; at the call of the wrapper, the meaning of the table, whatever an earlier
  command left; while pushing, the zeroed response with what the handler wrote.
* `EventWalkedAlways`, from `PushesAsShown`. The iterator keeps a name and finds
  its place again by it; `Walking` says that what it gave so far are the present
  fields up to there, and the fields it skips are absent by least
  counterexample.

The hypotheses are predicates of constants, and `RoundsAsMeant` has TLC evaluate
them for the conversion of the code, for each call, answer and event of the run
when it begins. They speak of one round, so that the theorems are about what the
commands make of rounds: buffers, guard, finalizers, errors in the middle. That
entries without a meaning cannot begin a table with one (`Meaningless`) is
derived, again by least counterexample.

### What stays with TLC, and why

* Liveness under fairness (`KickServed`, `AwaitEnds`, `StagingEmptied`,
  `WaitersWoken`, `TimedWaitEnds`, `CommandsReturn`, and the fairness of
  `FlowSpec`): fairness speaks of `ENABLED`, which the prover does
  not reason about.
* `RoundsAsMeant` for tables of any size, and `LuaPb` as a whole: it recurs over
  messages in messages, and what a recursive definition computes needs an
  induction over data that the prover cannot instantiate.
* The runs that expect a violation. The theorems about their properties carry
  the hypothesis that excludes the case, or there is none.

## 7. Where the code and its documentation disagree

* `coord_stale_timer`: a publish between the store of `async->chan` and the
  scheduling of the timer leaves a timer that no await owns. It is still pending
  when the next await schedules its own and can end that one early.
* `coord_stale_match`: a publish between the attaching of the observer and the
  stores is filtered with the previous await's `match` and copied into its
  `dst`.
* `coord_lost_kick`: an await that cannot attach its observer goes idle without
  looking at the deferred kick.
* `coap_seq`: the counter of an event is stepped before the lock is taken, so
  that a registration in between is handed the value its first notification
  carries. RFC 7641 tolerates it; the comment in the code says otherwise.
* `lua_preseal`: the seal and its fold can fall between the overwrite of a
  staged event and its count. The drop is reported nowhere.
* Without a run of its own: `src/frontends/lua/README.md:310-311` says:
  "Once it has returned, for whatever reason, the frontend stays stopped: the
  listeners no longer stage events, so nothing fills up or counts drops". A finalizer that `lua_close` runs after the
  shutdown (`zephlet_lua_coordinate.c:199`) and that awaits an instance connects
  it again (`zephlet_lua_await.c:173`): its listener stages from then on, nobody
  drains, and what overflows is counted. `QuietOnceStopped` leaves out exactly
  these instances (`reopened`).

The first two are what `QuietArm` excludes in `coord_quiet`, the third what
`ApiErrors = {}` excludes.

## 8. What is not modelled

* The sample zephlets (application code, which `Outcomes` and `Nested` stand
  for), the code generator (what it generates is modelled, not how), the west
  commands and the build. `emit` is one publish on an event channel and
  `is_ready` one read; they have no model of their own.
* Of the commands: the `NULL` checks of `zephlet_dispatch`, which the generated
  listener cannot reach; the contents of requests and responses beyond what a
  frontend tells apart; the texts of the two `/apis` resources, of templates
  and of error reports. Two shells that issue commands at the same time: the
  code serves one console, of which only the selected form is shared. A circle
  of handlers that wait for one another without a limit deadlocks, as it does
  on the target; the run leaves it out, as the code leaves it to the author.
  A CoAP response too large for the packet gets no answer at all, where
  `encode_response` would report `ENOMEM`; `CoapTruthful` and
  `CoapMirrorsHelpers` name it as the one exception. A list of the discovery too
  large for the packet gets none either (`DiscoveryWhole`). An error always has
  room, and what becomes of an answer after `coap_resource_send` is the
  network's. `coap_well_known_core_get_len` is external: `Links` is the length
  it must fit, for a request without a query and without blocks. URI segments beyond
  `MaxSegments` are not seen, so a longer path is refused for its number.
* Of the Lua commands: doubles (they differ from floats in rounding only),
  finalizers in the middle of a nested table (they run between fields of the
  top level), the module table, the instance cache and `stats()`, the event
  object's `tostring` and its refusal of assignments, and the texts of errors.
  Calls that the guard or the owner check refuses change nothing and are not
  actions.
* Hazards without a property. The models take these steps, and no property holds
  or is promised after them: the arming that is undone behind a claim (`raced`),
  a second qualifying publish over `dst`, a change of the selected form while a
  response is printed, and a doorbell that could not be published (that the poll
  or the next event makes up for it is not checked). Not in a model: the wrap of
  the 32-bit serials, which takes two billion events between two waits. That an
  event already staged wins against a deadline is modelled (`TakeTimeout` needs
  empty queues) and no property says it. A notification goes to the peers of a
  snapshot, some of whom have gone since, which RFC 7641 tolerates.
* Of the coordinator: two coordinators on the same work queue (each has its own
  items; they only delay one another), and the logging of errors.
* Of CoAP Observe: the contents of messages, the other answers that the server
  sends (of a rejection, of a deregistration), whatever the CoAP library does
  below `handle_get` and the sending of a notification, and the way of a message
  to its peer (a datagram may be lost or overtaken there too); the build without the
  connection manager, in which the service starts at boot and nobody purges.
* Of the Lua event path: the contents of events and their conversion, the
  wrap of the 32-bit serials and of the uptime, the counters `await_drop`,
  `handler_err` and `doorbell_fail`, an allocation that fails in `push_queue`
  or in the prelude's own tasks, awaits inside a policy handler, cancellation
  of a task (it ends the task as `Finish` does), and the build without the
  pump.
