-------------------------- MODULE LuaCommandProofs --------------------------
(***************************************************************************)
(* The commands of a script, for any conversion.                           *)
(***************************************************************************)
EXTENDS LuaCommand, FiniteSetTheorems, SequenceTheorems,
        WellFoundedInduction, TLAPS

-----------------------------------------------------------------------------
(* One command at a time.                                                  *)

\* No command is inside another, and the guard says whether there is one.
Alone ==
  /\ frames = <<>> \/ frames = <<frames[1]>>
  /\ in_command <=> frames # <<>>

\* A run that was not refused is the owner's.
Owned ==
  /\ run \in [Threads -> {"none", "EALREADY", "running", "closing", "returned"}]
  /\ \A t \in Threads :
       run[t] \notin {"none", "EALREADY"} => started /\ zlet_lua_owner = t
  /\ ~started => frames = <<>>
  /\ started => zlet_lua_owner \in Threads
  /\ frames # <<>> => run[zlet_lua_owner] \in {"running", "closing"}

\* What a step does with the frame it finds.
LEMMA SingleFrame ==
  ASSUME NEW f
  PROVE  /\ Len(<<f>>) = 1 /\ <<f>>[1] = f /\ <<f>> # <<>>
         /\ \A g : [<<f>> EXCEPT ![1] = g] = <<g>>
         /\ SubSeq(<<f>>, 1, 0) = <<>>
         /\ Append(<<>>, f) = <<f>>
OBVIOUS

LEMMA AloneInit == Init => Alone /\ Owned
BY DEF Init, Alone, Owned

LEMMA AloneStep == Alone /\ Owned /\ [Next]_vars => Alone' /\ Owned'
<1> SUFFICES ASSUME Alone, Owned, [Next]_vars PROVE Alone' /\ Owned'
  OBVIOUS
<1> USE DEF lua, buffers
<1>1. ASSUME NEW t \in Threads, Start(t) PROVE Alone' /\ Owned'
  BY <1>1 DEF Start, Alone, Owned
<1>2. ASSUME NEW t \in Threads, StartRefused(t) PROVE Alone' /\ Owned'
  BY <1>2 DEF StartRefused, Alone, Owned
<1>3. ASSUME NEW t \in Threads, Shutdown(t) PROVE Alone' /\ Owned'
  BY <1>3 DEF Shutdown, Alone, Owned
<1>4. ASSUME NEW t \in Threads, Closed(t) PROVE Alone' /\ Owned'
  BY <1>4 DEF Closed, Alone, Owned
<1>5. ASSUME NEW t \in Threads, NEW c \in Calls, LCall(t, c)
      PROVE  Alone' /\ Owned'
  <2>1. frames = <<>> /\ \E g : frames' = Append(frames, g)
    BY <1>5 DEF LCall, Alone
  <2>2. PICK g : frames' = <<g>>
    BY <2>1, SingleFrame
  <2>3. frames' # <<>> /\ frames' = <<frames'[1]>>
    BY <2>2, SingleFrame
  <2>4. /\ in_command' = TRUE /\ t = zlet_lua_owner
        /\ run[t] \in {"running", "closing"} /\ UNCHANGED lua
    BY <1>5 DEF LCall
  <2> QED BY <2>3, <2>4 DEF Alone, Owned
<1>6. ASSUME NEW g, frames # <<>>, Goes(g), UNCHANGED <<lua, in_command>>
      PROVE  Alone' /\ Owned'
  <2>1. frames = <<frames[1]>> /\ Len(frames) = 1
    BY <1>6, SingleFrame DEF Alone
  <2>2. frames' = <<g>>
    BY <1>6, <2>1, SingleFrame DEF Goes
  <2> QED BY <1>6, <2>2, SingleFrame DEF Alone, Owned
<1>7. CASE Command
  <2>1. CASE ArgsRefused
    BY <2>1, <1>6 DEF ArgsRefused, At, Ends
  <2>2. CASE Args
    BY <2>2, <1>6 DEF Args, At
  <2>3. CASE ReadEntry
    BY <2>3, <1>6 DEF ReadEntry, At, Ends
  <2>4. CASE ReadEnds
    BY <2>4, <1>6 DEF ReadEnds, At
  <2>5. CASE Invoke
    <3>1. frames # <<>> /\ UNCHANGED <<lua, in_command>> /\ \E g : Goes(g)
      BY <2>5 DEF Invoke, At, Ends
    <3> QED BY <3>1, <1>6
  <2>6. CASE PushField
    BY <2>6, <1>6 DEF PushField, At, Ends
  <2>7. CASE PushEnds
    BY <2>7, <1>6 DEF PushEnds, At, Ends
  <2>8. CASE Return
    BY <2>8, SingleFrame DEF Return, At, Alone, Owned
  <2> QED BY <1>7, <2>1, <2>2, <2>3, <2>4, <2>5, <2>6, <2>7, <2>8 DEF Command
<1>8. ASSUME NEW t \in Threads, NEW ev \in Events, PushEvent(t, ev)
      PROVE  Alone' /\ Owned'
  BY <1>8 DEF PushEvent, Alone, Owned
<1>9. CASE EventNext
  BY <1>9 DEF EventNext, Alone, Owned
<1>10. CASE EventDropped
  BY <1>10 DEF EventDropped, Alone, Owned
<1>11. CASE UNCHANGED vars
  BY <1>11 DEF vars, Alone, Owned
<1> QED
  BY <1>1, <1>2, <1>3, <1>4, <1>5, <1>7, <1>8, <1>9, <1>10, <1>11 DEF Next

\* GuardFollowsCommand for any conversion and any handlers: l_call lowers the
\* guard on every way out of lua_pcall, and a command inside another cannot
\* be there to lower it too early.
THEOREM GuardFollowsAlways == Spec => []GuardFollowsCommand
<1>1. Alone /\ Owned => GuardFollowsCommand
  BY DEF Alone, GuardFollowsCommand
<1> QED BY AloneInit, AloneStep, <1>1, PTL DEF Spec

\* OneRun for any number of threads: the flag that zephlet_lua_coordinate
\* exchanges lets one of them through, ever.
THEOREM OneRunAlways == Spec => []OneRun
<1>1. ASSUME Alone, Owned PROVE OneRun
  <2> DEFINE S == {t \in Threads : run[t] \notin {"none", "EALREADY"}}
  <2>1. S = {} \/ S = {zlet_lua_owner}
    BY <1>1 DEF Owned
  <2>2. Cardinality(S) \in {0, 1}
    <3> HIDE DEF S
    <3> QED BY <2>1, FS_EmptySet, FS_Singleton
  <2> QED BY <1>1, <2>2 DEF OneRun, Owned
<1> QED BY AloneInit, AloneStep, <1>1, PTL DEF Spec

-----------------------------------------------------------------------------
(* What a command holds at each place, when the conversion is right table  *)
(* by table (ReadsAsMeant) and message by message (PushesAsShown).         *)

First(s, k) == SubSeq(s, 1, k)
Rest(s, k)  == SubSeq(s, k + 1, Len(s))

\* The table of a command that takes one.
Entries(c) == c.args[1].e

Answer(f) == Response(f.handled, f.call.m.resp_tf)

\* The arguments are right and the timeout is theirs.
Checked(f) ==
  /\ ArgsValid(f.call)
  /\ f.timeout = check_timeout(f.call.args[nargs(f.call.m)])

\* The request is what the entries read so far mean.
Reading(f, req) ==
  /\ Checked(f)
  /\ ~f.call.m.takes => f.todo = <<>>
  /\ f.call.m.takes =>
       \E k \in 0..Len(Entries(f.call)) :
         /\ f.todo = Rest(Entries(f.call), k)
         /\ accepts(f.call.m.req_tf, Table(First(Entries(f.call), k)))
         /\ req = meaning(f.call.m.req_tf, Table(First(Entries(f.call), k)))

\* The request is what the whole table means.
Invoking(f, req) ==
  /\ Checked(f)
  /\ f.call.m.takes => /\ accepts(f.call.m.req_tf, f.call.args[1])
                       /\ req = meaning(f.call.m.req_tf, f.call.args[1])

\* The table is that of the fields pushed so far, and the response is still
\* the one the handler wrote.
Pushing(f, resp) ==
  /\ f.handled \in handlers[f.call.m.name] /\ f.handled.rc = "0"
  /\ f.call.m.resp_tf # <<>> => resp = Answer(f)
  /\ \E k \in 0..Len(f.call.m.resp_tf) :
       /\ f.todo = Rest(f.call.m.resp_tf, k)
       /\ pushed_msg(First(f.call.m.resp_tf, k), Answer(f)) = Ok(Table(f.out))

\* What has come of it.
Returning(f) ==
  /\ f.result = [kind |-> "raised", why |-> "read"] =>
       ~accepts(f.call.m.req_tf, f.call.args[1])
  /\ f.result.kind = "returned" =>
       shows(f.call.m.resp_tf, Answer(f), Table(f.out))

Whole(f) ==
  f = [call |-> f.call, pc |-> f.pc, todo |-> f.todo, timeout |-> f.timeout,
       handled |-> f.handled, out |-> f.out, result |-> f.result]

Fine(f, req, resp) ==
  /\ Whole(f) /\ f.call \in Calls
  /\ f.pc \in {"args", "read", "invoke"} => f.out = <<>>
  /\ f.pc = "read" => Reading(f, req)
  /\ f.pc = "invoke" => Invoking(f, req)
  /\ f.pc = "push" => Pushing(f, resp)
  /\ f.pc = "return" => Returning(f)

InProgress == frames # <<>> => Fine(frames[1], req_buf, resp_buf)

\* The next element of what is left of a sequence.
LEMMA RestStep ==
  ASSUME NEW s, IsSequence(s), NEW k \in 0..Len(s)
  PROVE  /\ Rest(s, k) = <<>> => k = Len(s)
         /\ Rest(s, k) # <<>> => /\ k + 1 \in 0..Len(s) /\ k + 1 \in DOMAIN s
                                 /\ Head(Rest(s, k)) = s[k + 1]
                                 /\ Tail(Rest(s, k)) = Rest(s, k + 1)
         /\ Rest(s, 0) = s /\ First(s, Len(s)) = s /\ 0 \in 0..Len(s)
         /\ Len(s) \in 0..Len(s)
<1> DEFINE S == {s[n] : n \in DOMAIN s}
<1>1. s \in Seq(S) /\ Len(s) \in Nat
  BY DEF IsSequence
<1> HIDE DEF S
<1>2. Rest(s, k) \in Seq(S) /\ Len(Rest(s, k)) = Len(s) - k
  BY <1>1 DEF Rest
<1>3. Rest(s, k) = <<>> => k = Len(s)
  BY <1>1, <1>2
<1>4. ASSUME Rest(s, k) # <<>>
      PROVE  /\ k + 1 \in 0..Len(s) /\ k + 1 \in DOMAIN s
             /\ Head(Rest(s, k)) = s[k + 1]
             /\ Tail(Rest(s, k)) = Rest(s, k + 1)
  <2>1. k < Len(s)
    BY <1>1, <1>2, <1>4, EmptySeq
  <2>2. k + 1 \in 0..Len(s) /\ k + 1 \in DOMAIN s
    BY <1>1, <2>1
  <2>3. Head(Rest(s, k)) = s[k + 1]
    BY <1>1, <2>1 DEF Rest
  <2>4. Tail(Rest(s, k)) = Rest(s, k + 1)
    BY <1>1, <2>1 DEF Rest
  <2> QED BY <2>2, <2>3, <2>4
<1>5. Rest(s, 0) = s /\ First(s, Len(s)) = s
  BY <1>1 DEF Rest, First
<1> QED BY <1>1, <1>3, <1>4, <1>5

\* The least element of a set of numbers.
LEMMA LeastOf ==
  ASSUME NEW T, T \subseteq Nat, T # {}
  PROVE  \E n \in T : \A k \in T : n <= k
<1> DEFINE R == OpToRel(<, Nat)
<1>1. \A k, n \in Nat : k < n => <<k, n>> \in R
  BY DEF OpToRel
<1>2. IsWellFoundedOn(R, Nat)
  BY NatLessThanWellFounded
<1> HIDE DEF R
<1>3. PICK n \in T : \A k \in T : ~(<<k, n>> \in R)
  BY <1>2, WFMin
<1>4. ASSUME NEW k \in T PROVE n <= k
  <2>1. k \in Nat /\ n \in Nat /\ ~(k < n)
    BY <1>1, <1>3
  <2> QED BY <2>1
<1> QED BY <1>4

\* What the hypotheses say of each round, read off their sequences.
Read(e, k)        == Table(First(e, k))
Built(tf, msg, k) == pushed_msg(First(tf, k), msg)

MeansOn(tf, e) ==
  /\ accepts(tf, Read(e, 0)) /\ meaning(tf, Read(e, 0)) = zeroed(tf)
  /\ \A k \in DOMAIN e :
       /\ ~accepts(tf, Read(e, k - 1)) => ~accepts(tf, Read(e, k))
       /\ accepts(tf, Read(e, k - 1)) =>
            LET r == read_round(tf, meaning(tf, Read(e, k - 1)), e[k])
            IN /\ r.ok <=> accepts(tf, Read(e, k))
               /\ r.ok => r.v = meaning(tf, Read(e, k))

BuiltUp(tf, msg) ==
  /\ Built(tf, msg, 0) = Ok(Table(<<>>))
  /\ \A k \in DOMAIN tf :
       LET x == pushed_field(msg, tf[k])
       IN /\ Built(tf, msg, k) = set_field(Built(tf, msg, k - 1), tf[k], x)
          /\ x.ok => x = Ok(x.v)
  /\ Built(tf, msg, Len(tf)).ok => shows(tf, msg, Built(tf, msg, Len(tf)).v)

\* What a conversion gives tells whether it fails.
LEMMA SenseOf ==
  ASSUME NEW tf, NEW x
  PROVE  /\ accepts(tf, x) => Sense(tf, x).ok /\ Sense(tf, x).v = meaning(tf, x)
         /\ ~accepts(tf, x) => ~Sense(tf, x).ok
BY DEF Sense, Ok, Error

LEMMA TableMeans ==
  ASSUME NEW c, IsSequence(Entries(c)), TableAsMeant(c)
  PROVE  MeansOn(c.m.req_tf, Entries(c))
<1> DEFINE tf == c.m.req_tf
           e  == Entries(c)
           sense == [k \in 0..Len(e) |-> Sense(tf, Read(e, k))]
<1>1. Len(e) \in Nat /\ DOMAIN e = 1..Len(e)
  BY DEF IsSequence
<1>2. Carried(tf, e, sense)
  BY DEF TableAsMeant, Read, First, Entries
<1>3. \A k \in 0..Len(e) : sense[k] = Sense(tf, Read(e, k))
  OBVIOUS
<1> HIDE DEF sense
<1>4. Sense(tf, Read(e, 0)) = Ok(zeroed(tf))
  BY <1>1, <1>2, <1>3 DEF Carried
<1>5. accepts(tf, Read(e, 0)) /\ meaning(tf, Read(e, 0)) = zeroed(tf)
  BY <1>4 DEF Sense, Ok, Error
<1>6. ASSUME NEW k \in DOMAIN e
      PROVE  /\ ~accepts(tf, Read(e, k - 1)) => ~accepts(tf, Read(e, k))
             /\ accepts(tf, Read(e, k - 1)) =>
                  LET r == read_round(tf, meaning(tf, Read(e, k - 1)), e[k])
                  IN /\ r.ok <=> accepts(tf, Read(e, k))
                     /\ r.ok => r.v = meaning(tf, Read(e, k))
  <2>1. k \in 0..Len(e) /\ k - 1 \in 0..Len(e)
    BY <1>1
  <2>2. Sense(tf, Read(e, k)) =
          IF Sense(tf, Read(e, k - 1)).ok
          THEN read_round(tf, Sense(tf, Read(e, k - 1)).v, e[k]) ELSE Error
    BY <1>2, <1>3, <2>1 DEF Carried
  <2>3. Error.ok = FALSE
    BY DEF Error
  <2>4. CASE ~accepts(tf, Read(e, k - 1))
    BY <2>2, <2>3, <2>4, SenseOf
  <2>5. CASE accepts(tf, Read(e, k - 1))
    <3>1. Sense(tf, Read(e, k)) =
            read_round(tf, meaning(tf, Read(e, k - 1)), e[k])
      BY <2>2, <2>5, SenseOf
    <3> QED BY <2>5, <3>1, SenseOf
  <2> QED BY <2>4, <2>5
<1> QED BY <1>5, <1>6 DEF MeansOn

\* Entries that stand for no message do not begin a table that does.
LEMMA Meaningless ==
  ASSUME NEW tf, NEW e, IsSequence(e), MeansOn(tf, e), NEW k \in 0..Len(e),
         ~accepts(tf, Read(e, k))
  PROVE  ~accepts(tf, Read(e, Len(e)))
<1> DEFINE T == {j \in k..Len(e) : accepts(tf, Read(e, j))}
<1>0. Len(e) \in Nat /\ DOMAIN e = 1..Len(e) /\ k \in Nat
  BY DEF IsSequence
<1>1. SUFFICES ASSUME T # {} PROVE FALSE
  BY <1>0
<1>2. PICK j \in T : \A i \in T : j <= i
  <2>1. T \subseteq Nat
    BY <1>0
  <2> HIDE DEF T
  <2> QED BY <1>1, <2>1, LeastOf
<1>3. j # k /\ j \in k..Len(e) /\ accepts(tf, Read(e, j))
  BY <1>2
<1>4. j \in DOMAIN e /\ j - 1 \in k..Len(e)
  BY <1>0, <1>3
<1>5. ~accepts(tf, Read(e, j - 1))
  <2>1. j - 1 \notin T
    BY <1>0, <1>2
  <2> QED BY <1>4, <2>1
<1> QED BY <1>3, <1>4, <1>5 DEF MeansOn

LEMMA MessageBuilds ==
  ASSUME NEW tf, NEW msg, IsSequence(tf), MessageAsShown(tf, msg)
  PROVE  BuiltUp(tf, msg)
<1> DEFINE built == [k \in 0..Len(tf) |-> Built(tf, msg, k)]
           x     == [k \in DOMAIN tf |-> pushed_field(msg, tf[k])]
<1>1. Len(tf) \in Nat /\ DOMAIN tf = 1..Len(tf)
  BY DEF IsSequence
<1>2. Grown(tf, msg, built, x)
  BY DEF MessageAsShown, Built, First
<1>3. /\ \A k \in 0..Len(tf) : built[k] = Built(tf, msg, k)
      /\ \A k \in DOMAIN tf : x[k] = pushed_field(msg, tf[k])
  OBVIOUS
<1> HIDE DEF built, x
<1>4. 0 \in 0..Len(tf) /\ Len(tf) \in 0..Len(tf)
  BY <1>1
<1>5. \A k \in DOMAIN tf : k \in 0..Len(tf) /\ k - 1 \in 0..Len(tf)
  BY <1>1
<1> QED BY <1>2, <1>3, <1>4, <1>5 DEF BuiltUp, Grown

\* The ways a frame changes.
EndedWith(f, r) == [f EXCEPT !.pc = "return", !.result = r]
ReadTo(f, d) == [f EXCEPT !.todo = d]
PushedTo(f, d, o) == [f EXCEPT !.todo = d, !.out = o]
Reads(f, m, d) == [f EXCEPT !.pc = "read", !.timeout = m, !.todo = d]
Invokes(f) == [f EXCEPT !.pc = "invoke"]
Pushes(f, h, d) == [f EXCEPT !.pc = "push", !.handled = h, !.todo = d]

LEMMA Ended ==
  ASSUME NEW f, Whole(f), NEW r
  PROVE  LET g == EndedWith(f, r) IN
         /\ Whole(g) /\ g.pc = "return" /\ g.call = f.call
         /\ g.handled = f.handled /\ g.out = f.out /\ g.result = r
<1>1. PICK g : g = EndedWith(f, r)
  OBVIOUS
<1>2. g = [f EXCEPT !.pc = "return", !.result = r]
  BY <1>1 DEF EndedWith
<1>3. /\ Whole(g) /\ g.pc = "return" /\ g.call = f.call
      /\ g.handled = f.handled /\ g.out = f.out /\ g.result = r
  BY <1>2 DEF Whole
<1> QED BY <1>1, <1>3

LEMMA ReadOn ==
  ASSUME NEW f, Whole(f), NEW d
  PROVE  LET g == ReadTo(f, d) IN
         /\ Whole(g) /\ g.pc = f.pc /\ g.call = f.call /\ g.todo = d
         /\ g.timeout = f.timeout /\ g.out = f.out
BY DEF Whole, ReadTo

LEMMA PushedOn ==
  ASSUME NEW f, Whole(f), NEW d, NEW o
  PROVE  LET g == PushedTo(f, d, o) IN
         /\ Whole(g) /\ g.pc = f.pc /\ g.call = f.call /\ g.todo = d
         /\ g.handled = f.handled /\ g.out = o
<1>1. PICK g : g = PushedTo(f, d, o)
  OBVIOUS
<1>2. g = [f EXCEPT !.todo = d, !.out = o]
  BY <1>1 DEF PushedTo
<1>3. /\ Whole(g) /\ g.pc = f.pc /\ g.call = f.call /\ g.todo = d
      /\ g.handled = f.handled /\ g.out = o
  BY <1>2 DEF Whole
<1> QED BY <1>1, <1>3

LEMMA ToRead ==
  ASSUME NEW f, Whole(f), NEW m, NEW d
  PROVE  LET g == Reads(f, m, d) IN
         /\ Whole(g) /\ g.pc = "read" /\ g.call = f.call /\ g.todo = d
         /\ g.timeout = m /\ g.out = f.out
<1>1. PICK g : g = Reads(f, m, d)
  OBVIOUS
<1>2. g = [f EXCEPT !.pc = "read", !.timeout = m, !.todo = d]
  BY <1>1 DEF Reads
<1>3. /\ Whole(g) /\ g.pc = "read" /\ g.call = f.call /\ g.todo = d
      /\ g.timeout = m /\ g.out = f.out
  BY <1>2 DEF Whole
<1> QED BY <1>1, <1>3

LEMMA ToInvoke ==
  ASSUME NEW f, Whole(f)
  PROVE  LET g == Invokes(f) IN
         /\ Whole(g) /\ g.pc = "invoke" /\ g.call = f.call
         /\ g.timeout = f.timeout /\ g.out = f.out
BY DEF Whole, Invokes

LEMMA ToPush ==
  ASSUME NEW f, Whole(f), NEW h, NEW d
  PROVE  LET g == Pushes(f, h, d) IN
         /\ Whole(g) /\ g.pc = "push" /\ g.call = f.call /\ g.todo = d
         /\ g.handled = h /\ g.out = f.out
<1>1. PICK g : g = Pushes(f, h, d)
  OBVIOUS
<1>2. g = [f EXCEPT !.pc = "push", !.handled = h, !.todo = d]
  BY <1>1 DEF Pushes
<1>3. /\ Whole(g) /\ g.pc = "push" /\ g.call = f.call /\ g.todo = d
      /\ g.handled = h /\ g.out = f.out
  BY <1>2 DEF Whole
<1> QED BY <1>1, <1>3

\* A table of a call is a table and its entries are a sequence.
LEMMA TakenTable ==
  ASSUME NEW c \in Calls, c.m.takes, ArgsValid(c)
  PROVE  c.args[1] = Table(Entries(c)) /\ IsSequence(Entries(c))
<1>1. Len(c.args) = 2 /\ IsSequence(c.args) /\ c.args[1].type = "table"
  BY CommandAssumption DEF ArgsValid, nargs
<1>2. 1 \in DOMAIN c.args
  BY <1>1 DEF IsSequence
<1> QED BY <1>1, <1>2, CommandAssumption DEF Entries

\* The hypotheses, for a call and for what answers it.
LEMMA CallMeans ==
  ASSUME ReadsAsMeant, NEW c \in Calls, c.m.takes, ArgsValid(c)
  PROVE  MeansOn(c.m.req_tf, Entries(c))
BY TakenTable, TableMeans DEF ReadsAsMeant

LEMMA AnswerBuilds ==
  ASSUME PushesAsShown, NEW c \in Calls, NEW h \in handlers[c.m.name],
         h.rc = "0"
  PROVE  BuiltUp(c.m.resp_tf, Response(h, c.m.resp_tf))
BY MessageBuilds, CommandAssumption DEF PushesAsShown

\* A command that has just begun.
LEMMA FineNew ==
  ASSUME Alone, NEW t \in Threads, NEW c \in Calls, LCall(t, c)
  PROVE  InProgress'
<1> DEFINE g == [call |-> c, pc |-> "args", todo |-> <<>>, timeout |-> NULL,
                 handled |-> NULL, out |-> <<>>, result |-> NULL]
<1>1. frames = <<>> /\ frames' = Append(frames, g)
  BY DEF LCall, Alone
<1>2. Whole(g) /\ g.out = <<>> /\ g.pc = "args" /\ g.call = c
  BY DEF Whole
<1> HIDE DEF g
<1>3. frames' = <<g>>
  BY <1>1, SingleFrame
<1>4. Fine(g, req_buf', resp_buf')
  BY <1>2 DEF Fine
<1> QED BY <1>3, <1>4, SingleFrame DEF InProgress

\* The command in progress is the one frame there is.
LEMMA TopFrame ==
  ASSUME Alone, frames # <<>>
  PROVE  /\ Top = frames[1]
         /\ \A g : Goes(g) => frames' = <<g>>
<1>1. frames = <<frames[1]>> /\ Len(frames) = 1
  BY SingleFrame DEF Alone
<1> QED BY <1>1, SingleFrame DEF Top, Goes

\* A step of the command in progress.
LEMMA FineGoes ==
  ASSUME Alone, frames # <<>>, NEW g, Goes(g), Fine(g, req_buf', resp_buf')
  PROVE  InProgress'
<1>1. frames' = <<g>>
  BY TopFrame
<1> QED BY <1>1, SingleFrame DEF InProgress

\* A command that raises for another reason than its table, or fails.
LEMMA FineEnds ==
  ASSUME Alone, InProgress, frames # <<>>, NEW kind, NEW why,
         kind \in {"raised", "failed"}, kind = "raised" => why # "read",
         Ends(kind, why)
  PROVE  InProgress'
<1> DEFINE r == [kind |-> kind, why |-> why]
<1>0. PICK g : g = EndedWith(Top, r)
  OBVIOUS
<1>1. Goes(g) /\ Whole(Top) /\ Top.call \in Calls
  BY <1>0, TopFrame DEF Ends, EndedWith, InProgress, Fine
<1>2. Whole(g) /\ g.pc = "return" /\ g.call = Top.call /\ g.result = r
  BY <1>0, <1>1, Ended
<1>3. Returning(g)
  BY <1>2 DEF Returning
<1>4. Fine(g, req_buf', resp_buf')
  BY <1>1, <1>2, <1>3 DEF Fine
<1> QED BY <1>1, <1>4, FineGoes

LEMMA FineArgs ==
  ASSUME ReadsAsMeant, Alone, InProgress, Args
  PROVE  InProgress'
<1> DEFINE c == Top.call
           d == IF c.m.takes THEN Entries(c) ELSE <<>>
           ms == check_timeout(c.args[nargs(c.m)])
<1>0. PICK g : g = Reads(Top, ms, d)
  OBVIOUS
<1>1. /\ frames # <<>> /\ Goes(g) /\ ArgsValid(c) /\ Top.pc = "args"
      /\ req_buf' = IF c.m.takes THEN zeroed(c.m.req_tf) ELSE req_buf
  BY <1>0 DEF Reads, Args, At, Entries, memset
<1>2. Whole(Top) /\ c \in Calls /\ Top.out = <<>>
  BY <1>1, TopFrame DEF InProgress, Fine
<1>3. /\ Whole(g) /\ g.pc = "read" /\ g.call = c /\ g.todo = d
      /\ g.timeout = ms /\ g.out = <<>>
  BY <1>0, <1>2, ToRead
<1>4. ASSUME c.m.takes
      PROVE  /\ 0 \in 0..Len(Entries(c)) /\ d = Rest(Entries(c), 0)
             /\ accepts(c.m.req_tf, Table(First(Entries(c), 0)))
             /\ req_buf' = meaning(c.m.req_tf, Table(First(Entries(c), 0)))
  <2>1. IsSequence(Entries(c))
    BY <1>1, <1>2, <1>4, TakenTable
  <2>2. 0 \in 0..Len(Entries(c))
    BY <2>1 DEF IsSequence
  <2>3. Rest(Entries(c), 0) = Entries(c)
    BY <2>1, <2>2, RestStep
  <2>4. /\ accepts(c.m.req_tf, Table(First(Entries(c), 0)))
        /\ meaning(c.m.req_tf, Table(First(Entries(c), 0))) = zeroed(c.m.req_tf)
    BY <1>1, <1>2, <1>4, CallMeans DEF MeansOn, Read
  <2> QED BY <1>1, <1>4, <2>2, <2>3, <2>4
<1>5. Reading(g, req_buf')
  BY <1>1, <1>3, <1>4 DEF Reading, Checked
<1>6. Fine(g, req_buf', resp_buf')
  BY <1>2, <1>3, <1>5 DEF Fine
<1> QED BY <1>1, <1>6, FineGoes

LEMMA FineReadEntry ==
  ASSUME ReadsAsMeant, Alone, InProgress, ReadEntry
  PROVE  InProgress'
<1> DEFINE c == Top.call
           e == Entries(c)
           tf == c.m.req_tf
           r == read_round(tf, req_buf, Head(Top.todo))
<1>1. /\ frames # <<>> /\ Top.pc = "read" /\ Top.todo # <<>>
      /\ IF r.ok THEN req_buf' = r.v /\ Goes([Top EXCEPT !.todo = Tail(Top.todo)])
                 ELSE Ends("raised", "read")
  BY DEF ReadEntry, At
<1>2. Whole(Top) /\ c \in Calls /\ Top.out = <<>> /\ Reading(Top, req_buf)
  BY <1>1, TopFrame DEF InProgress, Fine
<1>3. c.m.takes /\ Checked(Top) /\ ArgsValid(c)
  BY <1>1, <1>2 DEF Reading, Checked
<1>4. c.args[1] = Table(e) /\ IsSequence(e)
  BY <1>2, <1>3, TakenTable
<1>5. PICK k \in 0..Len(e) :
        /\ Top.todo = Rest(e, k)
        /\ accepts(tf, Table(First(e, k)))
        /\ req_buf = meaning(tf, Table(First(e, k)))
  BY <1>2, <1>3 DEF Reading
<1>6. /\ k + 1 \in 0..Len(e) /\ k + 1 \in DOMAIN e
      /\ Head(Top.todo) = e[k + 1] /\ Tail(Top.todo) = Rest(e, k + 1)
  BY <1>1, <1>4, <1>5, RestStep
<1>7. /\ ~accepts(tf, Table(First(e, k + 1))) =>
           ~accepts(tf, Table(First(e, Len(e))))
      /\ r.ok <=> accepts(tf, Table(First(e, k + 1)))
      /\ r.ok => r.v = meaning(tf, Table(First(e, k + 1)))
  <2>1. (k + 1) - 1 = k
    OBVIOUS
  <2>2. MeansOn(tf, e)
    BY <1>2, <1>3, CallMeans
  <2>3. \A j \in DOMAIN e :
          accepts(tf, Table(First(e, j - 1))) =>
            LET x == read_round(tf, meaning(tf, Table(First(e, j - 1))), e[j])
            IN /\ x.ok <=> accepts(tf, Table(First(e, j)))
               /\ x.ok => x.v = meaning(tf, Table(First(e, j)))
    BY <2>2 DEF MeansOn, Read
  <2>4. ~accepts(tf, Table(First(e, k + 1))) =>
          ~accepts(tf, Table(First(e, Len(e))))
    BY <1>4, <1>6, <2>2, Meaningless DEF Read
  <2> QED BY <1>5, <1>6, <2>1, <2>3, <2>4
<1>8. CASE r.ok
  <2>0. PICK g : g = ReadTo(Top, Tail(Top.todo))
    OBVIOUS
  <2>1. Goes(g) /\ req_buf' = r.v
    BY <1>1, <1>8, <2>0 DEF ReadTo
  <2>2. /\ Whole(g) /\ g.pc = "read" /\ g.call = c /\ g.todo = Rest(e, k + 1)
        /\ g.timeout = Top.timeout /\ g.out = <<>>
    BY <2>0, <1>1, <1>2, <1>6, ReadOn
  <2>3. Reading(g, req_buf')
    BY <1>3, <1>6, <1>7, <1>8, <2>1, <2>2 DEF Reading, Checked
  <2>4. Fine(g, req_buf', resp_buf')
    BY <1>2, <2>2, <2>3 DEF Fine
  <2> QED BY <1>1, <2>1, <2>4, FineGoes
<1>9. CASE ~r.ok
  <2>0. PICK g : g = EndedWith(Top, [kind |-> "raised", why |-> "read"])
    OBVIOUS
  <2>1. Goes(g)
    BY <1>1, <1>9, <2>0 DEF Ends, EndedWith
  <2>2. /\ Whole(g) /\ g.pc = "return" /\ g.call = c
        /\ g.result = [kind |-> "raised", why |-> "read"]
    BY <2>0, <1>2, Ended
  <2>3. First(e, Len(e)) = e
    BY <1>4, RestStep
  <2>4. ~accepts(tf, c.args[1])
    BY <1>4, <1>7, <1>9, <2>3
  <2>5. Returning(g)
    BY <2>2, <2>4 DEF Returning
  <2>6. Fine(g, req_buf', resp_buf')
    BY <1>2, <2>2, <2>5 DEF Fine
  <2> QED BY <1>1, <2>1, <2>6, FineGoes
<1> QED BY <1>8, <1>9

LEMMA FineReadEnds ==
  ASSUME ReadsAsMeant, Alone, InProgress, ReadEnds
  PROVE  InProgress'
<1> DEFINE c == Top.call
           e == Entries(c)
           tf == c.m.req_tf
<1>0. PICK g : g = Invokes(Top)
  OBVIOUS
<1>1. /\ frames # <<>> /\ Goes(g) /\ Top.pc = "read" /\ Top.todo = <<>>
      /\ req_buf' = req_buf
  BY <1>0 DEF ReadEnds, At, Invokes, buffers
<1>2. Whole(Top) /\ c \in Calls /\ Top.out = <<>> /\ Reading(Top, req_buf)
  BY <1>1, TopFrame DEF InProgress, Fine
<1>3. /\ Whole(g) /\ g.pc = "invoke" /\ g.call = c
      /\ g.timeout = Top.timeout /\ g.out = <<>>
  BY <1>0, <1>2, ToInvoke
<1>4. Checked(Top) /\ ArgsValid(c)
  BY <1>2 DEF Reading, Checked
<1>5. ASSUME c.m.takes
      PROVE  accepts(tf, c.args[1]) /\ req_buf = meaning(tf, c.args[1])
  <2>1. c.args[1] = Table(e) /\ IsSequence(e)
    BY <1>2, <1>4, <1>5, TakenTable
  <2>2. PICK k \in 0..Len(e) :
          /\ Top.todo = Rest(e, k)
          /\ accepts(tf, Table(First(e, k)))
          /\ req_buf = meaning(tf, Table(First(e, k)))
    BY <1>2, <1>5 DEF Reading
  <2>3. First(e, k) = e
    BY <1>1, <2>1, <2>2, RestStep
  <2> QED BY <2>1, <2>2, <2>3
<1>6. Invoking(g, req_buf')
  BY <1>1, <1>3, <1>4, <1>5 DEF Invoking, Checked
<1>7. Fine(g, req_buf', resp_buf')
  BY <1>2, <1>3, <1>6 DEF Fine
<1> QED BY <1>1, <1>7, FineGoes

LEMMA FineInvoke ==
  ASSUME PushesAsShown, Alone, InProgress, Invoke
  PROVE  InProgress'
<1> DEFINE c == Top.call
           tf == c.m.resp_tf
<1>1. frames # <<>> /\ Top.pc = "invoke"
  BY DEF Invoke, At
<1>2. Whole(Top) /\ c \in Calls /\ Top.out = <<>>
  BY <1>1, TopFrame DEF InProgress, Fine
<1>3. PICK h \in handlers[c.m.name] :
        /\ resp_buf' = [s \in DOMAIN Cleared(resp_buf, tf) |->
                          IF s \in DOMAIN h.sets THEN h.sets[s]
                          ELSE Cleared(resp_buf, tf)[s]]
        /\ IF h.rc # "0" THEN Ends("failed", errno_name(h.rc))
           ELSE Goes(Pushes(Top, h, tf))
  BY DEF Invoke, Pushes
<1>4. CASE h.rc # "0"
  BY <1>1, <1>3, <1>4, FineEnds
<1>5. CASE h.rc = "0"
  <2>1. PICK g : g = Pushes(Top, h, tf)
    OBVIOUS
  <2>2. Goes(g)
    BY <1>3, <1>5, <2>1
  <2>3. /\ Whole(g) /\ g.pc = "push" /\ g.call = c /\ g.todo = tf
        /\ g.handled = h /\ g.out = <<>>
    BY <1>2, <2>1, ToPush
  <2>4. Answer(g) = Response(h, tf)
    BY <2>3 DEF Answer
  <2>5. tf # <<>> => resp_buf' = Response(h, tf)
    BY <1>3 DEF Cleared, memset, Response
  <2>6. IsSequence(tf)
    BY <1>2, CommandAssumption
  <2>7. 0 \in 0..Len(tf)
    BY <2>6 DEF IsSequence
  <2>8. tf = Rest(tf, 0)
    BY <2>6, <2>7, RestStep
  <2>9. pushed_msg(First(tf, 0), Response(h, tf)) = Ok(Table(<<>>))
    BY <1>2, <1>5, AnswerBuilds DEF BuiltUp, Built
  <2>10. Pushing(g, resp_buf')
    BY <1>5, <2>3, <2>4, <2>5, <2>7, <2>8, <2>9 DEF Pushing
  <2>11. Fine(g, req_buf', resp_buf')
    BY <1>2, <2>3, <2>10 DEF Fine
  <2> QED BY <1>1, <2>2, <2>11, FineGoes
<1> QED BY <1>4, <1>5

LEMMA FinePushField ==
  ASSUME PushesAsShown, Alone, InProgress, PushField
  PROVE  InProgress'
<1> DEFINE c == Top.call
           tf == c.m.resp_tf
           f == Head(Top.todo)
           r == set_field(Ok(Table(Top.out)), f, pushed_field(resp_buf, f))
<1>1. /\ frames # <<>> /\ Top.pc = "push" /\ Top.todo # <<>>
      /\ IF r.ok THEN Goes(PushedTo(Top, Tail(Top.todo), r.v.e))
                 ELSE Ends("raised", "push")
      /\ resp_buf' = resp_buf
  BY DEF PushField, At, buffers, PushedTo
<1>2. Whole(Top) /\ c \in Calls /\ Pushing(Top, resp_buf)
  BY <1>1, TopFrame DEF InProgress, Fine
<1>3. CASE ~r.ok
  BY <1>1, <1>3, FineEnds
<1>4. CASE r.ok
  <2> DEFINE msg == Answer(Top)
  <2>0. PICK g : g = PushedTo(Top, Tail(Top.todo), r.v.e)
    OBVIOUS
  <2>1. Goes(g)
    BY <1>1, <1>4, <2>0
  <2>2. /\ Whole(g) /\ g.pc = "push" /\ g.call = c /\ g.todo = Tail(Top.todo)
        /\ g.handled = Top.handled /\ g.out = r.v.e
    BY <1>1, <1>2, <2>0, PushedOn
  <2>3. IsSequence(tf)
    BY <1>2, CommandAssumption
  <2>4. PICK k \in 0..Len(tf) :
          /\ Top.todo = Rest(tf, k)
          /\ pushed_msg(First(tf, k), msg) = Ok(Table(Top.out))
    BY <1>2 DEF Pushing
  <2>5. /\ k + 1 \in 0..Len(tf) /\ k + 1 \in DOMAIN tf
        /\ f = tf[k + 1] /\ Tail(Top.todo) = Rest(tf, k + 1)
    BY <1>1, <2>3, <2>4, RestStep
  <2>6. /\ resp_buf = msg /\ tf # <<>>
        /\ Top.handled \in handlers[c.m.name] /\ Top.handled.rc = "0"
    BY <1>2, <2>5 DEF Pushing
  <2>7. pushed_msg(First(tf, k + 1), msg) = r
    <3>1. BuiltUp(tf, msg)
      BY <1>2, <2>6, AnswerBuilds DEF Answer
    <3>2. \A j \in DOMAIN tf :
            pushed_msg(First(tf, j), msg) =
              set_field(pushed_msg(First(tf, j - 1), msg), tf[j],
                        pushed_field(msg, tf[j]))
      BY <3>1 DEF BuiltUp, Built
    <3>3. (k + 1) - 1 = k
      OBVIOUS
    <3> QED BY <2>4, <2>5, <2>6, <3>2, <3>3
  <2>8. r = Ok(Table(r.v.e))
    BY <1>4 DEF set_field, Ok, Error, Table
  <2>9. Answer(g) = msg
    BY <2>2 DEF Answer
  <2>10. Pushing(g, resp_buf')
    BY <1>1, <2>2, <2>5, <2>6, <2>7, <2>8, <2>9 DEF Pushing
  <2>11. Fine(g, req_buf', resp_buf')
    BY <1>2, <2>2, <2>10 DEF Fine
  <2> QED BY <1>1, <2>1, <2>11, FineGoes
<1> QED BY <1>3, <1>4

LEMMA FinePushEnds ==
  ASSUME PushesAsShown, Alone, InProgress, PushEnds
  PROVE  InProgress'
<1> DEFINE c == Top.call
           tf == c.m.resp_tf
           msg == Answer(Top)
<1>a. PICK res : res = [kind |-> "returned", why |-> ""]
  OBVIOUS
<1>0. PICK g : g = EndedWith(Top, res)
  OBVIOUS
<1>1. frames # <<>> /\ Top.pc = "push" /\ Top.todo = <<>> /\ Goes(g)
  BY <1>a, <1>0 DEF PushEnds, At, Ends, EndedWith
<1>2. Whole(Top) /\ c \in Calls /\ Pushing(Top, resp_buf)
  BY <1>1, TopFrame DEF InProgress, Fine
<1>3. /\ Whole(g) /\ g.pc = "return" /\ g.call = c
      /\ g.handled = Top.handled /\ g.out = Top.out /\ g.result = res
  BY <1>0, <1>2, Ended
<1>4. IsSequence(tf)
  BY <1>2, CommandAssumption
<1>5. PICK k \in 0..Len(tf) :
        /\ Top.todo = Rest(tf, k)
        /\ pushed_msg(First(tf, k), msg) = Ok(Table(Top.out))
  BY <1>2 DEF Pushing
<1>6. k = Len(tf)
  <2>1. Rest(tf, k) = <<>>
    BY <1>1, <1>5
  <2> QED BY <1>4, <2>1, RestStep
<1>7. BuiltUp(tf, msg)
  BY <1>2, AnswerBuilds DEF Answer, Pushing
<1>8. shows(tf, msg, Table(Top.out))
  BY <1>5, <1>6, <1>7 DEF BuiltUp, Built, Ok
<1>9. Returning(g)
  <2>1. res.kind = "returned" /\ res # [kind |-> "raised", why |-> "read"]
    BY <1>a
  <2>2. Answer(g) = msg
    BY <1>3 DEF Answer
  <2> QED BY <1>3, <1>8, <2>1, <2>2 DEF Returning
<1>10. Fine(g, req_buf', resp_buf')
  BY <1>2, <1>3, <1>9 DEF Fine
<1> QED BY <1>1, <1>10, FineGoes

LEMMA InProgressStep ==
  ASSUME ReadsAsMeant, PushesAsShown, Alone, InProgress, [Next]_vars
  PROVE  InProgress'
<1>1. ASSUME UNCHANGED <<frames, buffers>> PROVE InProgress'
  BY <1>1 DEF InProgress, buffers
<1>2. ASSUME NEW t \in Threads,
             Start(t) \/ StartRefused(t) \/ Shutdown(t) \/ Closed(t)
      PROVE  InProgress'
  BY <1>1, <1>2 DEF Start, StartRefused, Shutdown, Closed
<1>3. ASSUME NEW t \in Threads, NEW c \in Calls, LCall(t, c)
      PROVE  InProgress'
  BY <1>3, FineNew
<1>4. CASE Command
  <2>1. CASE ArgsRefused
    BY <2>1, FineEnds DEF ArgsRefused, At
  <2>2. CASE Args
    BY <2>2, FineArgs
  <2>3. CASE ReadEntry
    BY <2>3, FineReadEntry
  <2>4. CASE ReadEnds
    BY <2>4, FineReadEnds
  <2>5. CASE Invoke
    BY <2>5, FineInvoke
  <2>6. CASE PushField
    BY <2>6, FinePushField
  <2>7. CASE PushEnds
    BY <2>7, FinePushEnds
  <2>8. CASE Return
    <3>1. frames' = <<>>
      BY <2>8, SingleFrame DEF Return, At, Alone
    <3> QED BY <3>1 DEF InProgress
  <2> QED BY <1>4, <2>1, <2>2, <2>3, <2>4, <2>5, <2>6, <2>7, <2>8 DEF Command
<1>5. ASSUME NEW t \in Threads, NEW ev \in Events, PushEvent(t, ev)
      PROVE  InProgress'
  BY <1>1, <1>5 DEF PushEvent
<1>6. CASE EventNext
  BY <1>1, <1>6 DEF EventNext
<1>7. CASE EventDropped
  BY <1>1, <1>7 DEF EventDropped
<1>8. CASE UNCHANGED vars
  BY <1>1, <1>8 DEF vars
<1> QED BY <1>2, <1>3, <1>4, <1>5, <1>6, <1>7, <1>8 DEF Next

LEMMA InProgressAlways ==
  ASSUME ReadsAsMeant, PushesAsShown
  PROVE  Spec => [](Alone /\ InProgress)
<1>1. Init => Alone /\ Owned /\ InProgress
  BY AloneInit DEF Init, InProgress
<1>2. Alone /\ Owned /\ InProgress /\ [Next]_vars => Alone' /\ Owned' /\ InProgress'
  BY AloneStep, InProgressStep
<1> QED BY <1>1, <1>2, PTL DEF Spec

\* A timeout that check_timeout takes is one, of its class.
LEMMA TimeoutChecked ==
  ASSUME NEW c \in Calls, ArgsValid(c)
  PROVE  IsTimeout(Last(c.args), check_timeout(c.args[nargs(c.m)]))
<1> DEFINE x == c.args[nargs(c.m)]
<1>1. IsSequence(c.args) /\ Len(c.args) = nargs(c.m) /\ nargs(c.m) \in {1, 2}
  BY CommandAssumption DEF ArgsValid, nargs
<1>2. nargs(c.m) \in DOMAIN c.args
  BY <1>1 DEF IsSequence
<1>3. Last(c.args) = x
  BY <1>1 DEF Last
<1>4. x.type = "integer" => x.i \in LuaInts
  BY <1>2, CommandAssumption
<1>5. check_timeout(x) # "invalid"
  BY DEF ArgsValid
<1> HIDE DEF x
<1>6. PICK ms \in Integers(x) \cap LuaInts : tointegerx(x) = Ok(ms)
  <2>1. tointegerx(x) # Error
    BY <1>5 DEF check_timeout, Error
  <2>2. x.type = "integer" \/ x.type = "float"
    BY <2>1 DEF tointegerx
  <2>3. CASE x.type = "integer"
    BY <2>3, <1>4 DEF tointegerx, Integers
  <2>4. CASE x.type = "float"
    <3>1. x.h % 2 = 0 /\ x.h \div 2 \in LuaInts
      BY <2>1, <2>4 DEF tointegerx, LuaInts
    <3> QED BY <2>4, <3>1 DEF tointegerx, Integers, LuaInts
  <2> QED BY <2>2, <2>3, <2>4
<1>7. ms \in Int
  BY DEF LuaInts
<1>8. ~(ms < -1)
  BY <1>5, <1>6, <1>7 DEF check_timeout, Ok
<1>9. check_timeout(x) = CASE ms = -1 -> "forever"
                           [] ms = 0 -> "no_wait"
                           [] OTHER -> "msec"
  BY <1>6, <1>7, <1>8 DEF check_timeout, Ok
<1>10. ms = -1 \/ ms = 0 \/ ms > 0
  BY <1>7, <1>8
<1>11. \/ check_timeout(x) = "forever" /\ ms = -1
       \/ check_timeout(x) = "no_wait" /\ ms = 0
       \/ check_timeout(x) = "msec" /\ ms > 0
  BY <1>7, <1>9, <1>10
<1> QED BY <1>3, <1>6, <1>11 DEF IsTimeout, x

\* InvokedAsCalled for any conversion that reads one entry at a time as it is
\* meant: whatever the commands before it left in the buffers and wherever a
\* finalizer tried to run another, call_protected hands its wrapper the
\* timeout and the message of its own table, or refuses a table without one.
THEOREM InvokedAlways ==
  ASSUME ReadsAsMeant, PushesAsShown
  PROVE  Spec => []InvokedAsCalled
<1>1. Alone /\ InProgress => InvokedAsCalled
  <2> SUFFICES ASSUME Alone, InProgress, frames # <<>>
               PROVE  LET c == Top.call IN
                      /\ Top.pc = "invoke" =>
                           /\ IsTimeout(Last(c.args), Top.timeout)
                           /\ c.m.takes => /\ accepts(c.m.req_tf, c.args[1])
                                           /\ req_buf = meaning(c.m.req_tf, c.args[1])
                      /\ Top.pc = "return" /\ Top.result = [kind |-> "raised", why |-> "read"] =>
                           ~accepts(c.m.req_tf, c.args[1])
    BY DEF InvokedAsCalled
  <2>1. Fine(Top, req_buf, resp_buf)
    BY TopFrame DEF InProgress
  <2>2. Top.pc = "invoke" => IsTimeout(Last(Top.call.args), Top.timeout)
    BY <2>1, TimeoutChecked DEF Fine, Invoking, Checked
  <2> QED BY <2>1, <2>2 DEF Fine, Invoking, Returning
<1> QED BY <1>1, InProgressAlways, PTL

\* ResponseShown for any conversion that pushes one field at a time as it
\* should: the table a script gets shows the zeroed response as the handler
\* of its own command wrote it, and nothing of another command.
THEOREM ResponseShownAlways ==
  ASSUME ReadsAsMeant, PushesAsShown
  PROVE  Spec => []ResponseShown
<1>1. Alone /\ InProgress => ResponseShown
  <2> SUFFICES ASSUME Alone, InProgress, At("return"), Top.result.kind = "returned"
               PROVE  LET tf == Top.call.m.resp_tf
                      IN shows(tf, Response(Top.handled, tf), Table(Top.out))
    BY DEF ResponseShown
  <2>1. Fine(Top, req_buf, resp_buf) /\ Top.pc = "return"
    BY TopFrame DEF InProgress, At
  <2> QED BY <2>1 DEF Fine, Returning, Answer
<1> QED BY <1>1, InProgressAlways, PTL

-----------------------------------------------------------------------------
(* The iteration of an event.                                              *)

Absent(msg, f) == pushed_field(msg, f).v = Nil

\* Fields that are absent leave a table as it is.
LEMMA Skipped ==
  ASSUME NEW tf, NEW msg, NEW s, IsSequence(tf), BuiltUp(tf, msg),
         NEW n \in 0..Len(tf), NEW m \in n..Len(tf),
         pushed_msg(First(tf, n), msg) = Ok(s),
         \A k \in (n + 1)..m : pushed_field(msg, tf[k]).ok /\ Absent(msg, tf[k])
  PROVE  pushed_msg(First(tf, m), msg) = Ok(s)
<1> DEFINE T == {k \in n..m : pushed_msg(First(tf, k), msg) # Ok(s)}
<1>0. Len(tf) \in Nat /\ DOMAIN tf = 1..Len(tf)
  BY DEF IsSequence
<1>1. SUFFICES ASSUME T # {} PROVE FALSE
  BY <1>0
<1>2. PICK k \in T : \A j \in T : k <= j
  <2>1. T \subseteq Nat
    BY <1>0
  <2> HIDE DEF T
  <2> QED BY <1>1, <2>1, LeastOf
<1>3. k \in (n + 1)..m /\ k \in DOMAIN tf /\ k - 1 \in n..m
  BY <1>0
<1>4. pushed_msg(First(tf, k - 1), msg) = Ok(s)
  <2>1. k - 1 \notin T
    BY <1>0, <1>2
  <2> QED BY <1>3, <2>1
<1>5. pushed_msg(First(tf, k), msg)
        = set_field(pushed_msg(First(tf, k - 1), msg), tf[k],
                    pushed_field(msg, tf[k]))
  BY <1>3 DEF BuiltUp, Built
<1>6. pushed_msg(First(tf, k), msg) = Ok(s)
  BY <1>3, <1>4, <1>5 DEF set_field, Absent, Ok
<1> QED BY <1>2, <1>6

\* The field that comes next.
LEMMA NextField ==
  ASSUME NEW tf, NEW msg, IsSequence(tf), NEW i \in 0..Len(tf),
         NEW n, n = next_msg_field(tf, msg, i + 1)
  PROVE  \/ n = 0 /\ \A k \in (i + 1)..Len(tf) : Absent(msg, tf[k])
         \/ /\ n \in (i + 1)..Len(tf) /\ ~Absent(msg, tf[n])
            /\ \A k \in (i + 1)..(n - 1) : Absent(msg, tf[k])
<1> DEFINE rest == {k \in (i + 1)..Len(tf) : pushed_field(msg, tf[k]).v # Nil}
<1>0. Len(tf) \in Nat
  BY DEF IsSequence
<1>1. n = IF rest = {} THEN 0 ELSE CHOOSE k \in rest : \A j \in rest : k <= j
  BY DEF next_msg_field
<1>2. CASE rest = {}
  BY <1>1, <1>2 DEF Absent
<1>3. CASE rest # {}
  <2>1. rest \subseteq Nat
    BY <1>0
  <2>2. n \in rest /\ \A j \in rest : n <= j
    <3> HIDE DEF rest
    <3>1. \E k \in rest : \A j \in rest : k <= j
      BY <1>3, <2>1, LeastOf
    <3> QED BY <1>1, <1>3, <3>1
  <2>3. \A k \in (i + 1)..(n - 1) : Absent(msg, tf[k])
    BY <1>0, <2>2 DEF Absent
  <2> QED BY <2>2, <2>3 DEF Absent
<1> QED BY <1>2, <1>3

\* A name finds its field.
LEMMA Named ==
  ASSUME NEW ev \in Events, NEW n \in DOMAIN ev.tf
  PROVE  msg_field_index(ev.tf, ev.tf[n].name) = n /\ n # 0
<1>1. IsSequence(ev.tf)
  BY CommandAssumption
<1>2. DOMAIN ev.tf = 1..Len(ev.tf) /\ Len(ev.tf) \in Nat
  BY <1>1 DEF IsSequence
<1>3. \A m \in DOMAIN ev.tf : ev.tf[m].name = ev.tf[n].name <=> m = n
  BY CommandAssumption
<1>4. ASSUME NEW k \in 1..(n - 1) PROVE ev.tf[k].name # ev.tf[n].name
  <2>1. k \in DOMAIN ev.tf /\ k # n
    BY <1>2
  <2> QED BY <1>3, <2>1
<1>5. \A m \in DOMAIN ev.tf :
        /\ ev.tf[m].name = ev.tf[n].name
        /\ \A k \in 1..(m - 1) : ev.tf[k].name # ev.tf[n].name
        <=> m = n
  BY <1>3, <1>4
<1> QED BY <1>2, <1>5 DEF msg_field_index

\* The hypothesis, for an event.
LEMMA EventBuilds ==
  ASSUME PushesAsShown, NEW ev \in Events
  PROVE  /\ BuiltUp(ev.tf, ev.msg)
         /\ \A n \in DOMAIN ev.tf : pushed_field(ev.msg, ev.tf[n]).ok
BY MessageBuilds, CommandAssumption DEF PushesAsShown, EventAsShown

\* The entries that an iteration may give.
Given(ev) == {<<String(ev.tf[k].name), pushed_field(ev.msg, ev.tf[k]).v>> :
                k \in DOMAIN ev.tf}

\* The n fields up to the key have been looked at, and what the iteration gave
\* is the table of them.
UpTo(w, n) ==
  /\ n = 0 => w.key = NULL
  /\ n # 0 => w.key = w.ev.tf[n].name
  /\ pushed_msg(First(w.ev.tf, n), w.ev.msg) = Ok(Table(w.seen))

WalkedSoFar(w) ==
  /\ w = [ev |-> w.ev, key |-> w.key, seen |-> w.seen, done |-> w.done]
  /\ w.ev \in Events /\ w.seen \in Seq(Given(w.ev))
  /\ \E n \in 0..Len(w.ev.tf) : UpTo(w, n)
  /\ w.done => pushed_msg(w.ev.tf, w.ev.msg) = Ok(Table(w.seen))

Walking == walk # NULL => WalkedSoFar(walk)

\* An iteration that has just begun.
LEMMA WalkBegins ==
  ASSUME PushesAsShown, NEW t \in Threads, NEW ev \in Events, PushEvent(t, ev)
  PROVE  WalkedSoFar(walk')
<1>1. PICK w : w = [ev |-> ev, key |-> NULL, seen |-> <<>>, done |-> FALSE]
  OBVIOUS
<1>2. walk' = w
  BY <1>1 DEF PushEvent
<1>3. /\ w = [ev |-> w.ev, key |-> w.key, seen |-> w.seen, done |-> w.done]
      /\ w.ev = ev /\ w.key = NULL /\ w.seen = <<>> /\ w.done = FALSE
  BY <1>1
<1>4. IsSequence(ev.tf)
  BY CommandAssumption
<1>5. 0 \in 0..Len(ev.tf)
  BY <1>4 DEF IsSequence
<1>6. pushed_msg(First(ev.tf, 0), ev.msg) = Ok(Table(<<>>))
  BY EventBuilds DEF BuiltUp, Built
<1>7. UpTo(w, 0)
  BY <1>3, <1>6 DEF UpTo
<1>8. w.seen \in Seq(Given(w.ev))
  BY <1>3
<1> QED BY <1>2, <1>3, <1>5, <1>7, <1>8 DEF WalkedSoFar

\* An iteration that finds no further field.
LEMMA WalkEnds ==
  ASSUME NEW w, w = [ev |-> w.ev, key |-> w.key, seen |-> w.seen, done |-> w.done],
         NEW v, v = [w EXCEPT !.done = TRUE]
  PROVE  /\ v = [ev |-> v.ev, key |-> v.key, seen |-> v.seen, done |-> v.done]
         /\ v.ev = w.ev /\ v.key = w.key /\ v.seen = w.seen /\ v.done = TRUE
OBVIOUS

\* An iteration that gives one more.
LEMMA WalkGives ==
  ASSUME NEW w, w = [ev |-> w.ev, key |-> w.key, seen |-> w.seen, done |-> w.done],
         NEW key, NEW x, NEW v,
         v = [w EXCEPT !.key = key, !.seen = Append(w.seen, x)]
  PROVE  /\ v = [ev |-> v.ev, key |-> v.key, seen |-> v.seen, done |-> v.done]
         /\ v.ev = w.ev /\ v.key = key /\ v.seen = Append(w.seen, x)
         /\ v.done = w.done
OBVIOUS

LEMMA WalkGoesOn ==
  ASSUME PushesAsShown, Walking, EventNext
  PROVE  WalkedSoFar(walk')
<1> DEFINE ev  == walk.ev
           tf  == ev.tf
           msg == ev.msg
           s   == Table(walk.seen)
<1>1. /\ walk = [ev |-> walk.ev, key |-> walk.key, seen |-> walk.seen,
                 done |-> walk.done]
      /\ ev \in Events /\ walk.seen \in Seq(Given(ev)) /\ ~walk.done
  BY DEF EventNext, Walking, WalkedSoFar
<1>2. PICK i \in 0..Len(tf) : UpTo(walk, i)
  BY DEF EventNext, Walking, WalkedSoFar
<1>3. IsSequence(tf)
  BY <1>1, CommandAssumption
<1>4. Len(tf) \in Nat /\ DOMAIN tf = 1..Len(tf) /\ i \in Nat
  BY <1>3 DEF IsSequence
<1>5. BuiltUp(tf, msg) /\ \A k \in DOMAIN tf : pushed_field(msg, tf[k]).ok
  BY <1>1, EventBuilds
<1>6. From = i + 1
  <2>1. CASE i = 0
    BY <1>2, <2>1 DEF UpTo, From
  <2>2. CASE i # 0
    <3>1. i \in DOMAIN tf
      BY <1>4, <2>2
    <3>2. walk.key = tf[i].name /\ walk.key # NULL
      BY <1>1, <1>2, <2>2, <3>1, CommandAssumption DEF UpTo
    <3>3. msg_field_index(tf, walk.key) = i
      BY <1>1, <3>1, <3>2, Named
    <3> QED BY <3>2, <3>3 DEF From
  <2> QED BY <2>1, <2>2
<1>7. PICK n : n = next_msg_field(tf, msg, i + 1)
  OBVIOUS
<1>8. \/ n = 0 /\ \A k \in (i + 1)..Len(tf) : Absent(msg, tf[k])
      \/ /\ n \in (i + 1)..Len(tf) /\ ~Absent(msg, tf[n])
         /\ \A k \in (i + 1)..(n - 1) : Absent(msg, tf[k])
  BY <1>2, <1>3, <1>7, NextField
<1>9. walk' = IF n = 0 THEN [walk EXCEPT !.done = TRUE]
              ELSE [walk EXCEPT
                      !.key = tf[n].name,
                      !.seen = Append(walk.seen, <<String(tf[n].name),
                                                   pushed_field(msg, tf[n]).v>>)]
  BY <1>6, <1>7 DEF EventNext
<1>10. pushed_msg(First(tf, i), msg) = Ok(s)
  BY <1>2 DEF UpTo
<1>11. CASE n = 0
  <2>1. PICK v : v = [walk EXCEPT !.done = TRUE]
    OBVIOUS
  <2>2. /\ v = [ev |-> v.ev, key |-> v.key, seen |-> v.seen, done |-> v.done]
        /\ v.ev = ev /\ v.key = walk.key /\ v.seen = walk.seen
    BY <1>1, <2>1, WalkEnds
  <2>3. UpTo(v, i)
    BY <1>2, <2>2 DEF UpTo
  <2>4. \A k \in (i + 1)..Len(tf) : pushed_field(msg, tf[k]).ok /\ Absent(msg, tf[k])
    BY <1>4, <1>5, <1>8, <1>11
  <2>5. pushed_msg(First(tf, Len(tf)), msg) = Ok(s)
    <3>1. Len(tf) \in i..Len(tf)
      BY <1>4
    <3> QED BY <1>3, <1>5, <1>10, <2>4, <3>1, Skipped
  <2>6. First(tf, Len(tf)) = tf
    BY <1>3, <1>4, RestStep
  <2>7. WalkedSoFar(v)
    BY <1>1, <1>2, <2>2, <2>3, <2>5, <2>6 DEF WalkedSoFar
  <2> QED BY <1>9, <1>11, <2>1, <2>7
<1>12. CASE n # 0
  <2> DEFINE x == <<String(tf[n].name), pushed_field(msg, tf[n]).v>>
  <2>1. PICK v : v = [walk EXCEPT !.key = tf[n].name, !.seen = Append(walk.seen, x)]
    OBVIOUS
  <2>2. /\ v = [ev |-> v.ev, key |-> v.key, seen |-> v.seen, done |-> v.done]
        /\ v.ev = ev /\ v.key = tf[n].name /\ v.seen = Append(walk.seen, x)
        /\ v.done = walk.done
    BY <1>1, <2>1, WalkGives
  <2>3. /\ n \in DOMAIN tf /\ n \in 0..Len(tf) /\ ~Absent(msg, tf[n])
        /\ n - 1 \in i..Len(tf)
    BY <1>4, <1>8, <1>12
  <2>4. pushed_msg(First(tf, n - 1), msg) = Ok(s)
    <3>1. PICK m \in i..Len(tf) : m = n - 1
      BY <2>3
    <3>2. ASSUME NEW k \in (i + 1)..m
          PROVE  pushed_field(msg, tf[k]).ok /\ Absent(msg, tf[k])
      <4>1. k \in (i + 1)..(n - 1) /\ k \in DOMAIN tf
        BY <1>4, <2>3, <3>1
      <4> QED BY <1>5, <1>8, <1>12, <4>1
    <3>3. pushed_msg(First(tf, m), msg) = Ok(s)
      BY <1>3, <1>5, <1>10, <3>2, Skipped
    <3> QED BY <3>1, <3>3
  <2>5. pushed_msg(First(tf, n), msg) = Ok(Table(v.seen))
    <3>1. pushed_msg(First(tf, n), msg)
            = set_field(Ok(s), tf[n], pushed_field(msg, tf[n]))
      BY <1>5, <2>3, <2>4 DEF BuiltUp, Built
    <3>2. pushed_field(msg, tf[n]).ok /\ pushed_field(msg, tf[n]).v # Nil
      BY <1>5, <2>3 DEF Absent
    <3>3. Ok(s).ok /\ Ok(s).v.e = walk.seen
      BY DEF Ok, Table
    <3> QED BY <2>2, <3>1, <3>2, <3>3 DEF set_field
  <2>6. UpTo(v, n)
    BY <1>12, <2>2, <2>5 DEF UpTo
  <2>7. v.seen \in Seq(Given(ev))
    <3>1. x \in Given(ev)
      BY <2>3 DEF Given
    <3> QED BY <1>1, <2>2, <3>1
  <2>8. WalkedSoFar(v)
    BY <1>1, <2>2, <2>3, <2>6, <2>7 DEF WalkedSoFar
  <2> QED BY <1>9, <1>12, <2>1, <2>8
<1> QED BY <1>11, <1>12

LEMMA WalkingStep ==
  ASSUME PushesAsShown, Walking, [Next]_vars
  PROVE  Walking'
<1>1. ASSUME UNCHANGED walk PROVE Walking'
  BY <1>1 DEF Walking
<1>2. ASSUME NEW t \in Threads,
             Start(t) \/ StartRefused(t) \/ Shutdown(t) \/ Closed(t)
      PROVE  Walking'
  BY <1>1, <1>2 DEF Start, StartRefused, Shutdown, Closed
<1>3. ASSUME NEW t \in Threads, NEW c \in Calls, LCall(t, c)
      PROVE  Walking'
  BY <1>1, <1>3 DEF LCall
<1>4. CASE Command
  BY <1>1, <1>4 DEF Command, ArgsRefused, Args, ReadEntry, ReadEnds, Invoke,
                    PushField, PushEnds, Return
<1>5. ASSUME NEW t \in Threads, NEW ev \in Events, PushEvent(t, ev)
      PROVE  Walking'
  BY <1>5, WalkBegins DEF Walking
<1>6. CASE EventNext
  BY <1>6, WalkGoesOn DEF Walking
<1>7. CASE EventDropped
  BY <1>7 DEF EventDropped, Walking
<1>8. CASE UNCHANGED vars
  BY <1>1, <1>8 DEF vars
<1> QED BY <1>2, <1>3, <1>4, <1>5, <1>6, <1>7, <1>8 DEF Next

\* EventWalked for any event and any conversion that pushes one field at a
\* time as it should: going from key to key with l_event_next gives the table
\* that zlet_lua_push_msg would have built, absent fields in between or not,
\* and l_event_index agrees with every entry of it.
THEOREM EventWalkedAlways ==
  ASSUME PushesAsShown
  PROVE  Spec => []EventWalked
<1>1. Init => Walking
  BY DEF Init, Walking
<1>2. Walking => EventWalked
  <2> SUFFICES ASSUME Walking, walk # NULL, walk.done
               PROVE  /\ Ok(Table(walk.seen)) = pushed_msg(walk.ev.tf, walk.ev.msg)
                      /\ \A n \in DOMAIN walk.seen :
                           event_index(walk.ev, walk.seen[n][1].s) = Ok(walk.seen[n][2])
    BY DEF EventWalked
  <2> DEFINE ev == walk.ev
  <2>1. /\ ev \in Events /\ walk.seen \in Seq(Given(ev))
        /\ pushed_msg(ev.tf, ev.msg) = Ok(Table(walk.seen))
    BY DEF Walking, WalkedSoFar
  <2>2. ASSUME NEW n \in DOMAIN walk.seen
        PROVE  event_index(ev, walk.seen[n][1].s) = Ok(walk.seen[n][2])
    <3>1. PICK k \in DOMAIN ev.tf :
            walk.seen[n] = <<String(ev.tf[k].name), pushed_field(ev.msg, ev.tf[k]).v>>
      BY <2>1 DEF Given
    <3>2. walk.seen[n][1].s = ev.tf[k].name
      BY <3>1 DEF String
    <3>3. event_index(ev, ev.tf[k].name) = pushed_field(ev.msg, ev.tf[k])
      BY <2>1, Named DEF event_index, push_msg_field
    <3>4. pushed_field(ev.msg, ev.tf[k]) = Ok(pushed_field(ev.msg, ev.tf[k]).v)
      BY <2>1, EventBuilds DEF BuiltUp
    <3> QED BY <3>1, <3>2, <3>3, <3>4
  <2> QED BY <2>1, <2>2
<1> QED BY <1>1, <1>2, WalkingStep, PTL DEF Spec
=============================================================================
