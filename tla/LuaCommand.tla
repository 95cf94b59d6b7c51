----------------------------- MODULE LuaCommand -----------------------------
(***************************************************************************)
(* Commands from a Lua script (zephlet_lua_module.c), the start and end of *)
(* the frontend around them (zephlet_lua_coordinate.c), and the reading of *)
(* an event object (zephlet_lua_event.c).                                  *)
(*                                                                         *)
(* Commands in progress form a stack: while one converts, an allocation    *)
(* may run a finalizer of the script, which may issue another.  A table is *)
(* read and a message is pushed one field of the top level at a time, and  *)
(* a finalizer may run between any two.  A handler is told by what it      *)
(* returns and which slots of the response it sets; Dispatch models the    *)
(* way to it.                                                              *)
(*                                                                         *)
(* The conversion is a parameter: its rounds (zlet_lua_read_msg and        *)
(* zlet_lua_push_msg of zephlet_lua_pb.c, which LuaPb models) and what it  *)
(* is meant to do (LuaMeaning).                                            *)
(***************************************************************************)
EXTENDS LuaValues, FiniteSets, SequencesExt

CONSTANTS
  zeroed(_),           \* the struct of a descriptor after its memset
  read_round(_, _, _), \* descriptor, struct, entry of a table: one is read
  pushed_field(_, _),  \* struct, field: its value, Nil when it is absent
  pushed_msg(_, _)     \* descriptor, struct: its table

CONSTANTS
  accepts(_, _),       \* descriptor, table: it stands for a message
  meaning(_, _),       \* descriptor, table: that message
  shows(_, _, _)       \* descriptor, struct, table: it shows the message

CONSTANTS
  Threads,     \* threads that start the frontend
  Calls,       \* calls of a script: method, self and the other arguments
  handlers,    \* per method, what its invoke may do
  Events,      \* events the script is handed: descriptor and struct
  MaxFrames,   \* bound on the commands in progress
  NULL

IsSequence(s) == s \in Seq({s[n] : n \in DOMAIN s})

\* What lua_type and lua_rawget can find, and what the generator emits.
ASSUME CommandAssumption ==
  /\ NULL \notin Threads /\ MaxFrames \in Nat
  /\ \A c \in Calls :
       /\ IsSequence(c.m.resp_tf) /\ IsSequence(c.args)
       /\ \A n \in DOMAIN c.args :
            LET x == c.args[n] IN
            /\ x.type = "integer" => x.i \in LuaInts
            /\ x.type = "table" => x = Table(x.e) /\ IsSequence(x.e)
  /\ \A ev \in Events :
       /\ IsSequence(ev.tf)
       /\ \A n \in DOMAIN ev.tf : ev.tf[n].name # NULL
       /\ \A m, n \in DOMAIN ev.tf : ev.tf[m].name = ev.tf[n].name => m = n

VARIABLES
  started,          \* the atomic the first start sets
  zlet_lua_owner,   \* the thread that owns the Lua state
  run,              \* per thread, where its zephlet_lua_coordinate is
  frames,           \* the commands in progress, the innermost last
  in_command,
  req_buf, resp_buf,
  walk              \* the event object being iterated, and what it gave

lua     == <<started, zlet_lua_owner, run>>
buffers == <<req_buf, resp_buf>>
vars    == <<lua, frames, in_command, buffers, walk>>

NoBytes == [s \in {} |-> Nil]

Top      == frames[Len(frames)]
At(pc)   == frames # <<>> /\ Top.pc = pc
Goes(f)  == frames' = [frames EXCEPT ![Len(frames)] = f]
Ends(kind, why) ==
  Goes([Top EXCEPT !.pc = "return", !.result = [kind |-> kind, why |-> why]])

-----------------------------------------------------------------------------
(* zephlet_lua_coordinate.                                                 *)

StartUnchecked(t) ==
  /\ run[t] = "none"
  /\ started' = TRUE /\ zlet_lua_owner' = t
  /\ run' = [run EXCEPT ![t] = "running"]
  /\ UNCHANGED <<frames, in_command, buffers, walk>>

Start(t) ==
  /\ run[t] = "none"
  /\ ~started
  /\ started' = TRUE /\ zlet_lua_owner' = t
  /\ run' = [run EXCEPT ![t] = "running"]
  /\ UNCHANGED <<frames, in_command, buffers, walk>>

StartRefused(t) ==
  /\ run[t] = "none"
  /\ started
  /\ run' = [run EXCEPT ![t] = "EALREADY"]
  /\ UNCHANGED <<started, zlet_lua_owner, frames, in_command, buffers, walk>>

\* The script ends, or fails, or there was no memory for a Lua state.
Shutdown(t) ==
  /\ run[t] = "running" /\ frames = <<>> /\ walk = NULL
  /\ run' = [run EXCEPT ![t] = "closing"]
  /\ UNCHANGED <<started, zlet_lua_owner, frames, in_command, buffers, walk>>

\* lua_close has run the finalizers that were left.
Closed(t) ==
  /\ run[t] = "closing" /\ frames = <<>>
  /\ run' = [run EXCEPT ![t] = "returned"]
  /\ UNCHANGED <<started, zlet_lua_owner, frames, in_command, buffers, walk>>

-----------------------------------------------------------------------------
(* l_call and call_protected.                                              *)

LCallUnguarded(t, c) ==
  /\ t = zlet_lua_owner /\ run[t] \in {"running", "closing"}
  /\ Len(frames) < MaxFrames
  /\ frames' = Append(frames, [call |-> c, pc |-> "args", todo |-> <<>>,
                               timeout |-> NULL, handled |-> NULL, out |-> <<>>,
                               result |-> NULL])
  /\ in_command' = TRUE
  /\ UNCHANGED <<lua, buffers, walk>>

\* Another thread, and a call while a command is in progress, are refused
\* with an error of their own that changes nothing.
LCall(t, c) ==
  /\ t = zlet_lua_owner /\ run[t] \in {"running", "closing"}
  /\ ~in_command
  /\ Len(frames) < MaxFrames
  /\ frames' = Append(frames, [call |-> c, pc |-> "args", todo |-> <<>>,
                               timeout |-> NULL, handled |-> NULL, out |-> <<>>,
                               result |-> NULL])
  /\ in_command' = TRUE
  /\ UNCHANGED <<lua, buffers, walk>>

\* lua_tointegerx also takes a float that is an integer of Lua.
tointegerx(x) ==
  CASE x.type = "integer" -> Ok(x.i)
    [] x.type = "float" /\ x.h % 2 = 0
         /\ x.h \div 2 \in LowestOf(Bits[4])..HighestOf(Bits[4]) -> Ok(x.h \div 2)
    [] OTHER -> Error

check_timeout(x) ==
  LET ms == tointegerx(x) IN
  IF ~ms.ok THEN "invalid"
  ELSE CASE ms.v < -1 -> "invalid"
         [] ms.v = -1 -> "forever"
         [] ms.v = 0  -> "no_wait"
         [] OTHER     -> "msec"

nargs(m) == IF m.takes THEN 2 ELSE 1

ArgsValid(c) ==
  /\ c.self = "own"
  /\ Len(c.args) = nargs(c.m)
  /\ check_timeout(c.args[nargs(c.m)]) # "invalid"
  /\ c.m.takes => c.args[1].type = "table"

ArgsRefused ==
  /\ At("args") /\ ~ArgsValid(Top.call)
  /\ Ends("raised", "args")
  /\ UNCHANGED <<lua, in_command, buffers, walk>>

MemsetSkipped(buf, tf) ==
  IF DOMAIN buf = DOMAIN zeroed(tf) THEN buf ELSE zeroed(tf)

memset(buf, tf) == zeroed(tf)

Args ==
  LET c == Top.call IN
  /\ At("args") /\ ArgsValid(c)
  /\ Goes([Top EXCEPT !.pc = "read",
                      !.timeout = check_timeout(c.args[nargs(c.m)]),
                      !.todo = IF c.m.takes THEN c.args[1].e ELSE <<>>])
  /\ req_buf' = IF c.m.takes THEN memset(req_buf, c.m.req_tf) ELSE req_buf
  /\ UNCHANGED <<lua, in_command, resp_buf, walk>>

\* One round of the loop of read_msg_at.
ReadEntry ==
  LET r == read_round(Top.call.m.req_tf, req_buf, Head(Top.todo)) IN
  /\ At("read") /\ Top.todo # <<>>
  /\ IF r.ok THEN /\ req_buf' = r.v
                  /\ Goes([Top EXCEPT !.todo = Tail(@)])
             ELSE Ends("raised", "read") /\ UNCHANGED req_buf
  /\ UNCHANGED <<lua, in_command, resp_buf, walk>>

ReadEnds ==
  /\ At("read") /\ Top.todo = <<>>
  /\ Goes([Top EXCEPT !.pc = "invoke"])
  /\ UNCHANGED <<lua, in_command, buffers, walk>>

errno_name(rc) ==
  IF rc \in {"EPERM", "ENOENT", "EIO", "EAGAIN", "ENOMEM", "EACCES", "EFAULT",
             "EBUSY", "ENODEV", "EINVAL", "ENOSPC", "ERANGE", "ENOSYS",
             "ENOMSG", "ENODATA", "ETIME", "ENOBUFS", "ENOTSUP", "ETIMEDOUT",
             "EALREADY", "EINPROGRESS", "ECANCELED", "EMSGSIZE", "EBADMSG"}
  THEN rc ELSE "EUNKNOWN"

ClearedOnce(buf, tf) ==
  IF DOMAIN buf = DOMAIN zeroed(tf) THEN buf ELSE zeroed(tf)

Cleared(buf, tf) == IF tf = <<>> THEN buf ELSE memset(buf, tf)

\* The response is zeroed and the wrapper called, with no Lua in between.
Invoke ==
  /\ At("invoke")
  /\ \E h \in handlers[Top.call.m.name] :
       LET tf   == Top.call.m.resp_tf
           zero == Cleared(resp_buf, tf)
       IN
       /\ h.ran \/ Top.timeout # "forever"
       /\ resp_buf' = [s \in DOMAIN zero |->
                         IF s \in DOMAIN h.sets THEN h.sets[s] ELSE zero[s]]
       /\ IF h.rc # "0"
          THEN Ends("failed", errno_name(h.rc))
          ELSE Goes([Top EXCEPT !.pc = "push", !.handled = h,
                                !.todo = Top.call.m.resp_tf])
  /\ UNCHANGED <<lua, in_command, req_buf, walk>>

\* One round of the loop of push_msg_at.
PushField ==
  LET f == Head(Top.todo)
      r == set_field(Ok(Table(Top.out)), f, pushed_field(resp_buf, f)) IN
  /\ At("push") /\ Top.todo # <<>>
  /\ IF r.ok THEN Goes([Top EXCEPT !.todo = Tail(@), !.out = r.v.e])
             ELSE Ends("raised", "push")
  /\ UNCHANGED <<lua, in_command, buffers, walk>>

PushEnds ==
  /\ At("push") /\ Top.todo = <<>>
  /\ Ends("returned", "")
  /\ UNCHANGED <<lua, in_command, buffers, walk>>

\* lua_pcall is back, with an error or without.
Return ==
  /\ At("return")
  /\ frames' = SubSeq(frames, 1, Len(frames) - 1)
  /\ in_command' = FALSE
  /\ UNCHANGED <<lua, buffers, walk>>

-----------------------------------------------------------------------------
(* Event objects.  An iteration goes from key to key with l_event_next.    *)

PushEvent(t, ev) ==
  /\ t = zlet_lua_owner /\ run[t] = "running"
  /\ frames = <<>> /\ walk = NULL
  /\ walk' = [ev |-> ev, key |-> NULL, seen |-> <<>>, done |-> FALSE]
  /\ UNCHANGED <<lua, frames, in_command, buffers>>

NextFieldOnly(tf, msg, from) ==
  IF from \in DOMAIN tf /\ pushed_field(msg, tf[from]).v # Nil
  THEN from ELSE 0

\* The first field from one on that is present, 0 if there is none.
next_msg_field(tf, msg, from) ==
  LET rest == {n \in from..Len(tf) : pushed_field(msg, tf[n]).v # Nil}
  IN IF rest = {} THEN 0 ELSE CHOOSE n \in rest : \A k \in rest : n <= k

\* Where l_event_next starts to look.
From == IF walk.key = NULL THEN 1 ELSE msg_field_index(walk.ev.tf, walk.key) + 1

EventNext ==
  /\ frames = <<>> /\ walk # NULL /\ ~walk.done
  /\ LET tf == walk.ev.tf
         n  == next_msg_field(tf, walk.ev.msg, From)
     IN walk' = IF n = 0 THEN [walk EXCEPT !.done = TRUE]
                ELSE [walk EXCEPT
                        !.key = tf[n].name,
                        !.seen = Append(@, <<String(tf[n].name),
                          pushed_field(walk.ev.msg, tf[n]).v>>)]
  /\ UNCHANGED <<lua, frames, in_command, buffers>>

EventDropped ==
  /\ frames = <<>> /\ walk # NULL /\ walk.done
  /\ walk' = NULL
  /\ UNCHANGED <<lua, frames, in_command, buffers>>

\* The value of a field, Nil when it is absent, an error when there is none.
push_msg_field(tf, msg, name) ==
  LET n == msg_field_index(tf, name)
  IN IF n = 0 THEN Error ELSE pushed_field(msg, tf[n])

\* l_event_index with a key that is a string.
event_index(ev, name) == push_msg_field(ev.tf, ev.msg, name)

-----------------------------------------------------------------------------
Init ==
  /\ started = FALSE /\ zlet_lua_owner = NULL
  /\ run = [t \in Threads |-> "none"]
  /\ frames = <<>> /\ in_command = FALSE
  /\ req_buf = NoBytes /\ resp_buf = NoBytes
  /\ walk = NULL

Command ==
  \/ ArgsRefused \/ Args \/ ReadEntry \/ ReadEnds
  \/ Invoke \/ PushField \/ PushEnds \/ Return

Next ==
  \/ \E t \in Threads : Start(t) \/ StartRefused(t) \/ Shutdown(t) \/ Closed(t)
  \/ \E t \in Threads, c \in Calls : LCall(t, c)
  \/ Command
  \/ \E t \in Threads, ev \in Events : PushEvent(t, ev)
  \/ EventNext \/ EventDropped

Spec == Init /\ [][Next]_vars

-----------------------------------------------------------------------------
(* What is right about the conversion, table by table and message by       *)
(* message.                                                                *)

\* What a table stands for, if it stands for a message.
Sense(tf, x) == IF accepts(tf, x) THEN Ok(meaning(tf, x)) ELSE Error

\* No entry means all zero, and what the first k entries mean, if they mean
\* anything, is what one round of reading makes of the first k - 1 and the k-th.
Carried(tf, e, sense) ==
  /\ sense[0] = Ok(zeroed(tf))
  /\ \A k \in DOMAIN e :
       sense[k] = IF sense[k - 1].ok
                  THEN read_round(tf, sense[k - 1].v, e[k]) ELSE Error

TableAsMeant(c) ==
  LET tf == c.m.req_tf
      e  == c.args[1].e
  IN Carried(tf, e, [k \in 0..Len(e) |-> Sense(tf, Table(SubSeq(e, 1, k)))])

\* So it is for the table of every call.
ReadsAsMeant ==
  \A c \in Calls : c.m.takes /\ ArgsValid(c) => TableAsMeant(c)

\* What the handler has made of a zeroed response.
Response(h, tf) ==
  [s \in DOMAIN zeroed(tf) |->
     IF s \in DOMAIN h.sets THEN h.sets[s] ELSE zeroed(tf)[s]]

\* A table grows by the fields that are present, and when none is left it
\* shows the message.
Grown(tf, msg, built, x) ==
  /\ built[0] = Ok(Table(<<>>))
  /\ \A k \in DOMAIN tf :
       /\ built[k] = set_field(built[k - 1], tf[k], x[k])
       /\ x[k].ok => x[k] = Ok(x[k].v)
  /\ built[Len(tf)].ok => shows(tf, msg, built[Len(tf)].v)

MessageAsShown(tf, msg) ==
  Grown(tf, msg, [k \in 0..Len(tf) |-> pushed_msg(SubSeq(tf, 1, k), msg)],
                 [k \in DOMAIN tf |-> pushed_field(msg, tf[k])])

\* No field of an event fails.
EventAsShown(ev) ==
  /\ MessageAsShown(ev.tf, ev.msg)
  /\ \A n \in DOMAIN ev.tf : pushed_field(ev.msg, ev.tf[n]).ok

\* So it is for what any handler answers, and for every event.
PushesAsShown ==
  /\ \A c \in Calls : \A h \in handlers[c.m.name] :
       h.rc = "0" => MessageAsShown(c.m.resp_tf, Response(h, c.m.resp_tf))
  /\ \A ev \in Events : EventAsShown(ev)

\* Whatever a script passes, a handler answers or an event carries, the rounds
\* of its conversion that are ahead when it begins will do what the whole is
\* said to do: an integer is kept, or refused where it does not fit, in
\* whatever order a table gives its entries.
RoundsAsMeant ==
  /\ At("read") /\ Top.call.m.takes /\ Top.todo = Top.call.args[1].e =>
       TableAsMeant(Top.call)
  /\ At("push") /\ Top.todo = Top.call.m.resp_tf =>
       MessageAsShown(Top.todo, Response(Top.handled, Top.todo))
  /\ walk # NULL /\ frames = <<>> /\ walk.seen = <<>> =>
       EventAsShown(walk.ev)

-----------------------------------------------------------------------------
(* What is right about a script's commands.                                *)

\* A timeout of a script: -1, 0 or more, whole.
IsTimeout(x, class) ==
  \E ms \in Integers(x) \cap LuaInts :
    \/ class = "forever" /\ ms = -1
    \/ class = "no_wait" /\ ms = 0
    \/ class = "msec" /\ ms > 0

\* The wrapper is called with what the script wrote: a valid timeout, and a
\* request that is the meaning of the table and holds nothing of an earlier
\* command or of one that a finalizer tried to run in between; a table that
\* has no meaning is refused, and no other.
InvokedAsCalled ==
  frames # <<>> =>
    LET c == Top.call IN
    /\ Top.pc = "invoke" =>
         /\ IsTimeout(Last(c.args), Top.timeout)
         /\ c.m.takes => /\ accepts(c.m.req_tf, c.args[1])
                         /\ req_buf = meaning(c.m.req_tf, c.args[1])
    /\ Top.pc = "return" /\ Top.result = [kind |-> "raised", why |-> "read"] =>
         ~accepts(c.m.req_tf, c.args[1])

\* The script gets the response that the handler of its own command wrote,
\* nothing of an earlier one in the slots the handler left alone, and every
\* integer exactly or, beyond Lua's, as the nearest number.
ResponseShown ==
  At("return") /\ Top.result.kind = "returned" =>
    LET tf == Top.call.m.resp_tf
    IN shows(tf, Response(Top.handled, tf), Table(Top.out))

\* The guard is up exactly while a command is in progress, however the
\* commands before it have ended: no error locks the script out, and none
\* lets a finalizer in.
GuardFollowsCommand == in_command <=> frames # <<>>

\* Of all threads and in all time, one runs the Lua state; commands are in
\* progress only between its start and its return.
OneRun ==
  /\ Cardinality({t \in Threads : run[t] \notin {"none", "EALREADY"}}) <= 1
  /\ frames # <<>> => run[zlet_lua_owner] \in {"running", "closing"}

\* Iterating an event gives what a table of it would have, in the same
\* order; a field that is absent does not end it; and an index gives the
\* same value as the iteration.
EventWalked ==
  walk # NULL /\ walk.done =>
    /\ Ok(Table(walk.seen)) = pushed_msg(walk.ev.tf, walk.ev.msg)
    /\ \A n \in DOMAIN walk.seen :
         event_index(walk.ev, walk.seen[n][1].s) = Ok(walk.seen[n][2])
=============================================================================
