-------------------------------- MODULE Coord --------------------------------
(***************************************************************************)
(* One coordinator of zephlet_coord.c with its async sidecar, and the      *)
(* threads that touch it:                                                  *)
(*                                                                         *)
(*   - the single thread of zephlet_coord_workq, which runs the work item, *)
(*     the cleanup item and the expired timer of the coordinator, and,     *)
(*     inside the work item, the author's steps;                           *)
(*   - the kickers, threads that call zephlet_coord_kick;                  *)
(*   - the publishers, threads inside zbus_chan_pub: they hold the         *)
(*     channel's semaphore while the framework's listener runs.            *)
(*                                                                         *)
(* A spinlock section is one action. Everything the code does outside a    *)
(* lock is split where another thread can look at it in between.  Zephyr's *)
(* work queue, delayable work and zbus channel are modelled by what the    *)
(* calls in src/ rely on.                                                  *)
(***************************************************************************)
EXTENDS Naturals, Sequences

CONSTANTS
  Kickers,     \* threads that may start the flow
  Publishers,  \* threads that may publish on a channel
  Chans,       \* zbus channels the flow may await
  Msgs,        \* messages, told apart only by the match predicates
  Dsts,        \* destination buffers of the awaits
  Steps,       \* the author's step functions
  Entry,       \* the entry step
  Follows,     \* Follows[s]: the steps that s may hand over to
  Awaits,      \* the argument tuples the author's awaits use
  ApiErrors,   \* the Zephyr calls that may fail
  QuietArm,    \* TRUE: no publish on the awaited channel while it is armed
  NULL         \* the null pointer, and the zeroed buffer

Calls    == {"add_obs", "rm_obs", "schedule"}
Timeouts == {"bounded", "forever"}
Items    == {"work", "cleanup", "timer"}

ASSUME StepsAssumption ==
  /\ NULL \notin Steps
  /\ Entry \in Steps
  /\ Follows \in [Steps -> SUBSET Steps]

ASSUME AwaitsAssumption ==
  /\ NULL \notin Chans \cup Dsts \cup Msgs
  /\ Awaits \subseteq [chan: Chans, dst: Dsts \cup {NULL},
                       match: SUBSET Msgs, timeout: Timeouts]

ASSUME EnvAssumption ==
  /\ ApiErrors \subseteq Calls
  /\ QuietArm \in BOOLEAN

VARIABLES
  current,       \* c->current: the step to run, NULL when idle
  kick_pending,  \* c->kick_pending
  chan,          \* async->chan: the armed channel, NULL once claimed
  pending_rm,    \* async->pending_rm
  match,         \* async->match, as the set of messages it accepts
  dst,           \* async->dst
  buf,           \* contents of the destination buffers
  attached,      \* channels on which async->obs is a runtime observer
  timer,         \* async->timer: "off", or the timeout it is delayed for
  workq,         \* pending items of zephlet_coord_workq, oldest first
  wpc,           \* where the workqueue thread is
  wargs,         \* arguments of the await it is executing
  wchan,         \* channel claimed by the timeout handler
  kpc,           \* where each kicker is
  pub,           \* where each publisher is, and what it publishes
  raced          \* history: an await was disarmed after it had been claimed

flow   == <<current, kick_pending>>
async  == <<chan, pending_rm, match, dst>>
zephyr == <<attached, timer, workq>>
locals == <<wargs, wchan>>
others == <<kpc, pub, raced>>
vars   == <<flow, async, buf, zephyr, wpc, locals, others>>

-----------------------------------------------------------------------------
(* The services of Zephyr.                                                 *)

Has(q, item) == \E i \in 1..Len(q) : q[i] = item

\* The item is on the queue's list.
Queued(item) == Has(workq, item)

\* k_work_submit_to_queue: an item already on the list is not added again.
WithItem(item) == IF Queued(item) THEN workq ELSE Append(workq, item)

\* The list without the item, the others in their order.
WithoutItem(item) ==
  IF Queued(item)
    THEN LET k == CHOOSE i \in 1..Len(workq) : workq[i] = item
         IN  [i \in 1..(Len(workq) - 1) |->
                IF i < k THEN workq[i] ELSE workq[i + 1]]
    ELSE workq

\* A delayable item is pending from its scheduling until its handler starts.
TimerPending == timer # "off" \/ Queued("timer")

\* A publisher holds the channel's semaphore from the lock to the unlock.
Locked(c) == \E p \in Publishers : pub[p].pc # "idle" /\ pub[p].chan = c

\* zbus_chan_rm_obs waits for the semaphore, and may give up if it is held.
RmObs(c) ==
  \/ /\ ~Locked(c)
     /\ attached' = attached \ {c}
  \/ /\ Locked(c)
     /\ "rm_obs" \in ApiErrors
     /\ UNCHANGED attached

-----------------------------------------------------------------------------
(* zephlet_coord_kick, on the kicker's thread.                             *)

\* Faulty variant: the test of current is missing.
KickRestarts(k) ==
  /\ kpc[k] = "idle"
  /\ current' = Entry
  /\ kpc' = [kpc EXCEPT ![k] = "submit"]
  /\ UNCHANGED <<kick_pending, async, buf, zephyr, wpc, locals, pub, raced>>

\* The locked section: claim the idle coordinator, or defer the kick.
Kick(k) ==
  /\ kpc[k] = "idle"
  /\ IF current # NULL
       THEN /\ kick_pending' = TRUE
            /\ UNCHANGED <<current, kpc>>
       ELSE /\ current' = Entry
            /\ kpc' = [kpc EXCEPT ![k] = "submit"]
            /\ UNCHANGED kick_pending
  /\ UNCHANGED <<async, buf, zephyr, wpc, locals, pub, raced>>

\* The submit, after the unlock.
KickSubmit(k) ==
  /\ kpc[k] = "submit"
  /\ workq' = WithItem("work")
  /\ kpc' = [kpc EXCEPT ![k] = "idle"]
  /\ UNCHANGED <<flow, async, buf, attached, timer, wpc, locals, pub, raced>>

-----------------------------------------------------------------------------
(* The workqueue thread: one item at a time.                               *)

\* The thread goes from one point of a handler to the next.
Goto(from, to) == wpc = from /\ wpc' = to

\* The handler of each of the coordinator's items.
HandlerOf(item) ==
  CASE item = "work"    -> "dispatch"
    [] item = "cleanup" -> "cleanup"
    [] item = "timer"   -> "timeout"

\* The thread takes the oldest item and enters its handler.
Take ==
  /\ wpc = "idle"
  /\ workq # <<>>
  /\ workq' = Tail(workq)
  /\ wpc' = HandlerOf(Head(workq))
  /\ UNCHANGED <<flow, async, buf, attached, timer, locals, others>>

\* zephlet_coord_dispatch: run the current step, if there is one.
Dispatch ==
  /\ Goto("dispatch", IF current = NULL THEN "idle" ELSE "step")
  /\ UNCHANGED <<flow, async, buf, zephyr, locals, others>>

\* The submission of the work item that ends next, done, cleanup and timeout.
Submit ==
  /\ Goto("submit", "idle")
  /\ workq' = WithItem("work")
  /\ UNCHANGED <<flow, async, buf, attached, timer, locals, others>>

\* A step ends by zephlet_coord_next.
StepNext(fn) ==
  /\ Goto("step", "submit")
  /\ fn \in Follows[current]
  /\ current' = fn
  /\ UNCHANGED <<kick_pending, async, buf, zephyr, locals, others>>

\* Faulty variant: the deferred kick is not looked at.
DoneForgets ==
  /\ Goto("step", "idle")
  /\ current' = NULL
  /\ UNCHANGED <<kick_pending, async, buf, zephyr, locals, others>>

\* A step ends by zephlet_coord_done: idle, or again for the deferred kick.
Done ==
  /\ Goto("step", IF kick_pending THEN "submit" ELSE "idle")
  /\ current' = IF kick_pending THEN Entry ELSE NULL
  /\ kick_pending' = FALSE
  /\ UNCHANGED <<async, buf, zephyr, locals, others>>

-----------------------------------------------------------------------------
(* zephlet_coord_await, called by a step.                                  *)

\* The step zeroes the destination, as the header advises, and calls await.
Await(a, fn) ==
  /\ Goto("step", "add_obs")
  /\ fn \in Follows[current]
  /\ current' = fn
  /\ wargs' = a
  /\ buf' = [d \in Dsts |-> IF d = a.dst THEN NULL ELSE buf[d]]
  /\ UNCHANGED <<kick_pending, async, zephyr, wchan, others>>

\* zbus_chan_add_obs, under the channel's semaphore.
AddObs ==
  /\ Goto("add_obs", "store_dst")
  /\ ~Locked(wargs.chan)
  /\ wargs.chan \notin attached
  /\ attached' = attached \cup {wargs.chan}
  /\ UNCHANGED <<flow, async, buf, timer, workq, locals, others>>

\* Faulty variant: the return code is not looked at.
AddObsIgnored ==
  /\ Goto("add_obs", "store_dst")
  /\ UNCHANGED <<flow, async, buf, zephyr, locals, others>>

\* It fails on an observer left behind, on a held semaphore or a full pool.
AddObsFails ==
  /\ Goto("add_obs", "idle")
  /\ \/ wargs.chan \in attached /\ ~Locked(wargs.chan)
     \/ "add_obs" \in ApiErrors
  /\ current' = NULL
  /\ wargs' = NULL
  /\ UNCHANGED <<kick_pending, async, buf, zephyr, wchan, others>>

\* The three plain stores: the observer is already attached.
StoreDst ==
  /\ Goto("store_dst", "store_match")
  /\ dst' = wargs.dst
  /\ UNCHANGED <<flow, chan, pending_rm, match, buf, zephyr, locals, others>>

StoreMatch ==
  /\ Goto("store_match", "store_chan")
  /\ match' = wargs.match
  /\ UNCHANGED <<flow, chan, pending_rm, dst, buf, zephyr, locals, others>>

StoreChan ==
  /\ Goto("store_chan", "schedule")
  /\ chan' = wargs.chan
  /\ UNCHANGED <<flow, pending_rm, match, dst, buf, zephyr, locals, others>>

\* Faulty variant: the timer is not scheduled.
ScheduleSkipped ==
  /\ Goto("schedule", "idle")
  /\ wargs' = NULL
  /\ UNCHANGED <<flow, async, buf, zephyr, wchan, others>>

\* k_work_schedule_for_queue leaves a timer that is still pending as it is.
Schedule ==
  /\ Goto("schedule", "idle")
  /\ timer' = IF TimerPending THEN timer ELSE wargs.timeout
  /\ wargs' = NULL
  /\ UNCHANGED <<flow, async, buf, attached, workq, wchan, others>>

ScheduleFails ==
  /\ "schedule" \in ApiErrors
  /\ Goto("schedule", "disarm")
  /\ UNCHANGED <<flow, async, buf, zephyr, locals, others>>

\* async->chan = NULL, without the lock of the claim.
Disarm ==
  /\ Goto("disarm", "undo")
  /\ chan' = NULL
  /\ raced' = (raced \/ chan = NULL)
  /\ UNCHANGED <<flow, pending_rm, match, dst, buf, zephyr, locals, kpc, pub>>

\* The observer is removed and the flow dropped.
Undo ==
  /\ Goto("undo", "idle")
  /\ RmObs(wargs.chan)
  /\ current' = NULL
  /\ wargs' = NULL
  /\ UNCHANGED <<kick_pending, async, buf, timer, workq, wchan, others>>

-----------------------------------------------------------------------------
(* zephlet_coord_cleanup_dispatch and zephlet_coord_await_timeout.         *)

\* Faulty variant: pending_rm is cleared before it is used.
CleanupForgets ==
  /\ Goto("cleanup", "submit")
  /\ pending_rm' = NULL
  /\ UNCHANGED <<flow, chan, match, dst, buf, zephyr, locals, others>>

Cleanup ==
  /\ Goto("cleanup", "submit")
  /\ IF pending_rm = NULL
       THEN UNCHANGED attached
       ELSE RmObs(pending_rm)
  /\ pending_rm' = NULL
  /\ UNCHANGED <<flow, chan, match, dst, buf, timer, workq, locals, others>>

\* The kernel's timeout puts the expired delayable item on the list.
Expire ==
  /\ timer = "bounded"
  /\ timer' = "off"
  /\ workq' = WithItem("timer")
  /\ UNCHANGED <<flow, async, buf, attached, wpc, locals, others>>

\* zephlet_coord_async_claim: under the lock, chan is swapped to NULL and the
\* caller keeps the value it had; who finds NULL has lost.
AsyncClaim == chan' = NULL

\* Faulty variant: the claim reads chan and does not swap it to NULL.
TimeoutPeek ==
  /\ Goto("timeout", IF chan = NULL THEN "idle" ELSE "timeout_rm")
  /\ wchan' = chan
  /\ UNCHANGED <<flow, async, buf, zephyr, wargs, others>>

\* zephlet_coord_await_timeout up to the claim: the loser leaves.
TimeoutClaim ==
  /\ Goto("timeout", IF chan = NULL THEN "idle" ELSE "timeout_rm")
  /\ wchan' = chan
  /\ AsyncClaim
  /\ UNCHANGED <<flow, pending_rm, match, dst, buf, zephyr, wargs, others>>

TimeoutRm ==
  /\ Goto("timeout_rm", "submit")
  /\ RmObs(wchan)
  /\ wchan' = NULL
  /\ UNCHANGED <<flow, async, buf, timer, workq, wargs, others>>

Workq ==
  \/ Take \/ Dispatch \/ Submit \/ Done
  \/ \E fn \in Steps : StepNext(fn)
  \/ \E a \in Awaits, fn \in Steps : Await(a, fn)
  \/ AddObs \/ AddObsFails \/ StoreDst \/ StoreMatch \/ StoreChan
  \/ Schedule \/ ScheduleFails \/ Disarm \/ Undo
  \/ Cleanup \/ TimeoutClaim \/ TimeoutRm

-----------------------------------------------------------------------------
(* zbus_chan_pub with the framework's listener, on the publisher's thread. *)

NoPub == [pc |-> "idle", chan |-> NULL, msg |-> NULL, claimed |-> NULL]

PubGoto(p, from, to) ==
  /\ pub[p].pc = from
  /\ pub' = [pub EXCEPT ![p].pc = to]

\* An await on the channel is being set up.
Arming == wpc \in {"store_dst", "store_match", "store_chan", "schedule"}

PubLock(p, c, m) ==
  /\ pub[p].pc = "idle"
  /\ ~Locked(c)
  /\ ~(QuietArm /\ Arming /\ c = wargs.chan)
  /\ pub' = [pub EXCEPT ![p] =
               [pc |-> "listen", chan |-> c, msg |-> m, claimed |-> NULL]]
  /\ UNCHANGED <<flow, async, buf, zephyr, wpc, locals, kpc, raced>>

\* Faulty variant: the predicate is not consulted.
PubMatchAny(p) ==
  /\ PubGoto(p, "listen",
             IF pub[p].chan \in attached THEN "copy" ELSE "unlock")
  /\ UNCHANGED <<flow, async, buf, zephyr, wpc, locals, kpc, raced>>

\* The listener's match, which also decides whether there is a listener.
PubMatch(p) ==
  /\ PubGoto(p, "listen",
             IF pub[p].chan \in attached /\ pub[p].msg \in match
               THEN "copy" ELSE "unlock")
  /\ UNCHANGED <<flow, async, buf, zephyr, wpc, locals, kpc, raced>>

PubCopy(p) ==
  /\ PubGoto(p, "copy", "resolve")
  /\ buf' = [d \in Dsts |-> IF d = dst THEN pub[p].msg ELSE buf[d]]
  /\ UNCHANGED <<flow, async, zephyr, wpc, locals, kpc, raced>>

\* Faulty variant: the loser of the claim goes on.
PubClaimUnchecked(p) ==
  /\ pub[p].pc = "resolve"
  /\ pub' = [pub EXCEPT ![p].claimed = chan, ![p].pc = "cancel"]
  /\ AsyncClaim
  /\ UNCHANGED <<flow, pending_rm, match, dst, buf, zephyr, wpc, locals, kpc,
                 raced>>

\* zephlet_coord_resolve: the claim, and the loser leaves.
PubClaim(p) ==
  /\ pub[p].pc = "resolve"
  /\ pub' = [pub EXCEPT ![p].claimed = chan,
                        ![p].pc = IF chan = NULL THEN "unlock" ELSE "cancel"]
  /\ AsyncClaim
  /\ UNCHANGED <<flow, pending_rm, match, dst, buf, zephyr, wpc, locals, kpc,
                 raced>>

\* Faulty variant: the timer is left to expire.
PubCancelSkipped(p) ==
  /\ PubGoto(p, "cancel", "defer")
  /\ UNCHANGED <<flow, async, buf, zephyr, wpc, locals, kpc, raced>>

\* k_work_cancel_delayable: neither delayed nor queued any more.
PubCancel(p) ==
  /\ PubGoto(p, "cancel", "defer")
  /\ timer' = "off"
  /\ workq' = WithoutItem("timer")
  /\ UNCHANGED <<flow, async, buf, attached, wpc, locals, kpc, raced>>

\* The observer's removal is left to the cleanup item.
PubDefer(p) ==
  /\ PubGoto(p, "defer", "unlock")
  /\ pending_rm' = pub[p].claimed
  /\ workq' = WithItem("cleanup")
  /\ UNCHANGED <<flow, chan, match, dst, buf, attached, timer, wpc, locals,
                 kpc, raced>>

PubUnlock(p) ==
  /\ pub[p].pc = "unlock"
  /\ pub' = [pub EXCEPT ![p] = NoPub]
  /\ UNCHANGED <<flow, async, buf, zephyr, wpc, locals, kpc, raced>>

\* A publication under way goes on by itself.
PubGoOn(p) ==
  \/ PubMatch(p) \/ PubCopy(p) \/ PubClaim(p) \/ PubCancel(p) \/ PubDefer(p)
  \/ PubUnlock(p)

-----------------------------------------------------------------------------

\* The sidecar of ZEPHLET_COORD_ASYNC_DEFINE: a null match accepts anything.
Init ==
  /\ current = NULL
  /\ kick_pending = FALSE
  /\ chan = NULL
  /\ pending_rm = NULL
  /\ match = Msgs
  /\ dst = NULL
  /\ buf = [d \in Dsts |-> NULL]
  /\ attached = {}
  /\ timer = "off"
  /\ workq = <<>>
  /\ wpc = "idle"
  /\ wargs = NULL
  /\ wchan = NULL
  /\ kpc = [k \in Kickers |-> "idle"]
  /\ pub = [p \in Publishers |-> NoPub]
  /\ raced = FALSE

Next ==
  \/ \E k \in Kickers : Kick(k) \/ KickSubmit(k)
  \/ Workq
  \/ Expire
  \/ \E p \in Publishers, c \in Chans, m \in Msgs : PubLock(p, c, m)
  \/ \E p \in Publishers : PubGoOn(p)

Spec == Init /\ [][Next]_vars

(* The kicker's and the publisher's threads finish the call they are in,   *)
(* the kernel fires the timers, a step returns.  The workqueue thread is   *)
(* strongly fair: waiting in k_sem_take it is handed the semaphore when a  *)
(* publisher gives it, whoever takes it next.  Nobody has to kick or to    *)
(* publish.                                                                *)
Fairness ==
  /\ \A k \in Kickers : WF_vars(KickSubmit(k))
  /\ SF_vars(Workq)
  /\ WF_vars(Expire)
  /\ \A p \in Publishers : WF_vars(PubGoOn(p))

FairSpec == Spec /\ Fairness

-----------------------------------------------------------------------------
(* Properties.                                                             *)

Handling    == {"dispatch", "step", "submit", "add_obs", "store_dst",
                "store_match", "store_chan", "undo", "cleanup", "timeout_rm"}
WorkqPoints == Handling \cup {"idle", "schedule", "disarm", "timeout"}
PubPoints   == {"idle", "listen", "copy", "resolve", "cancel", "defer",
                "unlock"}
Claimed(p)  == pub[p].pc \in {"cancel", "defer"}

Distinct(q) == \A i, j \in 1..Len(q) : q[i] = q[j] => i = j

(* The types of the variables; besides, the await's arguments are there    *)
(* while the await executes, an item is on the list at most once, and      *)
(* whoever acts on a claim holds a channel (zephlet_coord_async_claim).    *)
TypeOK ==
  /\ current \in Steps \cup {NULL}
  /\ kick_pending \in BOOLEAN
  /\ chan \in Chans \cup {NULL}
  /\ pending_rm \in Chans \cup {NULL}
  /\ match \in SUBSET Msgs
  /\ dst \in Dsts \cup {NULL}
  /\ buf \in [Dsts -> Msgs \cup {NULL}]
  /\ attached \in SUBSET Chans
  /\ timer \in Timeouts \cup {"off"}
  /\ workq \in Seq(Items)
  /\ Distinct(workq)
  /\ wpc \in WorkqPoints
  /\ wargs \in Awaits \cup {NULL}
  /\ wpc \in {"add_obs", "disarm", "undo"} \/ Arming => wargs \in Awaits
  /\ wpc = "step" => current \in Steps
  /\ wchan \in Chans \cup {NULL}
  /\ wpc = "timeout_rm" => wchan \in Chans
  /\ kpc \in [Kickers -> {"idle", "submit"}]
  /\ pub \in [Publishers -> [pc: PubPoints, chan: Chans \cup {NULL},
                             msg: Msgs \cup {NULL},
                             claimed: Chans \cup {NULL}]]
  /\ \A p \in Publishers :
       /\ pub[p].pc # "idle" => pub[p].chan \in Chans /\ pub[p].msg \in Msgs
       /\ Claimed(p) => pub[p].claimed \in Chans
  /\ raced \in BOOLEAN

(* Whoever is bound to bring the flow forward: the item on the list, a     *)
(* kicker before its submit, a publisher between its claim and its submit, *)
(* the workqueue thread inside a handler, or the armed await.              *)
Drivers ==
       {<<"queued", i>> : i \in {j \in {"work", "cleanup"} : Queued(j)}}
  \cup {<<"kicker", k>> : k \in {j \in Kickers : kpc[j] = "submit"}}
  \cup {<<"publisher", p>> : p \in {q \in Publishers : Claimed(q)}}
  \cup (IF wpc \in Handling THEN {<<"thread", "handler">>} ELSE {})
  \cup (IF chan # NULL THEN {<<"armed", "await">>} ELSE {})

(* A flow in progress has exactly one driver and an idle coordinator none: *)
(* no step is dispatched twice, no resume is lost, no event and timeout    *)
(* both advance the flow.  It is what kick's lock and the claim in         *)
(* zephlet_coord_async_claim are for.  It stops being true only after an   *)
(* await whose scheduling failed was disarmed behind a publisher's claim.  *)
OneDriver ==
  ~raced =>
    /\ current = NULL => Drivers = {}
    /\ current # NULL => \E d \in Drivers : Drivers = {d}

(* An armed await has its observer on the channel, so that a publish can   *)
(* resolve it: no late removal, by the cleanup or the timeout handler,     *)
(* takes away the observer that a newer await has just attached.           *)
ArmedIsObserved == ~raced /\ chan # NULL => chan \in attached

(* A claimed await leaves no timer behind: the one it scheduled is         *)
(* cancelled by the publisher that claims it (zephlet_coord_resolve), so   *)
(* that it cannot end a later await.                                       *)
NoStaleTimer ==
  TimerPending => chan # NULL \/ \E p \in Publishers : pub[p].pc = "cancel"

(* The publish that resolves an await is one on its channel that its match *)
(* accepts, and the message the flow finds in dst is such a one.           *)
EventQualifies ==
  \A p \in Publishers : Claimed(p) =>
    /\ pub[p].msg \in match
    /\ pub[p].claimed = pub[p].chan
    /\ dst # NULL => buf[dst] \in match

(* A kick deferred while the flow ran is not left behind on an idle        *)
(* coordinator: zephlet_coord_done re-runs the entry step for it.          *)
NoKickLeftBehind == current = NULL => ~kick_pending

(* The observer is gone when the flow resumes: the step that follows an    *)
(* await never runs beside the listener that writes into its buffer.       *)
ObserverReleased == wpc \in {"dispatch", "step"} => attached = {}

(* A kick deferred after the entry step has started is served: the entry   *)
(* step is dispatched again, once the flow is done.                        *)
KickServed ==
  kick_pending /\ (current # Entry \/ wpc = "step")
    ~> wpc = "dispatch" /\ current = Entry

(* An await ends, by an event or by its timer, when every wait is bounded: *)
(* the timer zephlet_coord_await schedules is there until the claim.       *)
AwaitEnds == chan # NULL ~> chan = NULL

-----------------------------------------------------------------------------
(* The flow as its callers see it.                                         *)

Phase ==
  CASE current = NULL -> "idle"
    [] current # NULL /\ chan # NULL -> "waiting"
    [] OTHER ->
         IF wpc \in {"step", "add_obs"} \/ (Arming /\ wpc # "schedule")
           THEN "running"
           ELSE "ready"

Flow == INSTANCE CoordFlow WITH phase <- Phase, pending <- kick_pending

(* Without failing calls and without publishes in the arming window, the   *)
(* coordinator is the one zephlet_coord.h describes.                       *)
FlowSpec == Flow!Spec
=============================================================================
