---------------------------- MODULE MCLuaCommand ----------------------------
(* LuaCommand for TLC.  Integers of 1, 2, 4 and 8 bytes have 2, 3, 4 and 6  *)
(* bits and a float keeps 3, so that there are fields narrower than a Lua   *)
(* integer and wider, and integers that a float holds and cannot hold.      *)
EXTENDS LuaCommand, LuaMeaning

CONSTANTS t1, t2

\* The conversion at the top level.
ReadRound(tf, msg, entry) == read_entry(tf, msg, entry, 0)
PushedField(msg, f)       == push_field(msg, f, 0)
PushedMsg(tf, msg)        == push_msg_at(tf, msg, 0)
AcceptsTable(tf, x)       == Accepts(tf, x, 0)

Bits_ == (1 :> 2) @@ (2 :> 3) @@ (4 :> 4) @@ (8 :> 6)

Field(name, tag, vtype, size) ==
  [name |-> name, tag |-> tag, vtype |-> vtype, size |-> size, static |-> TRUE,
   ht |-> "SINGULAR", slot |-> name, count |-> 1, sub |-> <<>>]
Optional(f)      == [f EXCEPT !.ht = "OPTIONAL"]
Repeated(f, n)   == [f EXCEPT !.ht = "REPEATED", !.count = n]
Oneof(f, o)      == [f EXCEPT !.ht = "ONEOF", !.slot = o]
Of(f, tf)        == [f EXCEPT !.sub = tf]

\* A message in a message is as deep as the bound allows, one in that deeper.
Inner == << Oneof(Field("a", 1, "UINT32", 2), "o"),
            Oneof(Field("b", 2, "STRING", 3), "o") >>
Outer == << Optional(Of(Field("in", 1, "MESSAGE", 0), Inner)) >>

ReqTf == << Field("s", 1, "INT32", 1), Field("u", 2, "UINT64", 8),
            Optional(Of(Field("in", 3, "MESSAGE", 0), Inner)),
            Repeated(Field("r", 4, "SINT64", 8), 2),
            Oneof(Field("x", 5, "BOOL", 1), "c"),
            Oneof(Field("y", 6, "ENUM", 2), "c"),
            [Field("cb", 7, "STRING", 0) EXCEPT !.static = FALSE],
            Optional(Of(Field("deep", 8, "MESSAGE", 0), Outer)),
            Field("f", 9, "FLOAT", 4), Field("t", 10, "BYTES", 4),
            Field("k", 11, "FIXED_LENGTH_BYTES", 2) >>

RespTf == << Field("u", 1, "UINT32", 4), Optional(Field("p", 2, "INT64", 8)),
             Field("t", 3, "STRING", 3), Repeated(Field("r", 4, "UINT64", 8), 2),
             Oneof(Of(Field("m", 5, "MESSAGE", 0), Inner), "c"),
             Oneof(Field("n", 6, "BYTES", 3), "c") >>

DeepTf == << Optional(Of(Field("deep", 1, "MESSAGE", 0), Outer)) >>

set  == [name |-> "set", takes |-> TRUE, req_tf |-> ReqTf, resp_tf |-> <<>>]
get  == [name |-> "get", takes |-> FALSE, req_tf |-> <<>>, resp_tf |-> RespTf]
dump == [name |-> "dump", takes |-> FALSE, req_tf |-> <<>>, resp_tf |-> DeepTf]

Entry(name, x) == <<String(name), x>>
Array(vals) == Table([i \in DOMAIN vals |-> <<Integer(i), vals[i]>>])

Tables ==
  { Table(<<>>),
    \* Both ends of a width, in either order, and beyond them.
    Table(<<Entry("s", Integer(-2)), Entry("u", Integer(7))>>),
    Table(<<Entry("u", Float(2 * 56)), Entry("s", Float(2))>>),
    Table(<<Entry("s", Integer(2))>>), Table(<<Entry("u", Integer(-1))>>),
    Table(<<Entry("u", Float(2 * 64))>>), Table(<<Entry("u", Float(-1))>>),
    Table(<<Entry("u", Float(3))>>), Table(<<Entry("u", NaN)>>),
    Table(<<Entry("r", Array(<<Float(-2 * 32), Float(2 * 28)>>))>>),
    Table(<<Entry("r", Array(<<Float(2 * 32)>>))>>),
    Table(<<Entry("r", Array(<<Integer(1), Integer(2), Integer(3)>>))>>),
    \* A oneof, twice the same way and two ways, and one inside a message.
    Table(<<Entry("x", Boolean(TRUE)), Entry("s", Integer(1))>>),
    Table(<<Entry("y", Integer(-4)), Entry("x", Boolean(FALSE))>>),
    Table(<<Entry("in", Table(<<Entry("a", Integer(6))>>)),
            Entry("y", Integer(3))>>),
    Table(<<Entry("in", Table(<<Entry("b", String(<<1, 1>>)),
                                Entry("a", Integer(0))>>))>>),
    Table(<<Entry("in", Table(<<Entry("b", String(<<1, 1, 1>>))>>))>>),
    \* The rest of what a field may refuse.
    Table(<<Entry("f", Integer(7)), Entry("t", String(<<0, 1>>)),
            Entry("k", String(<<1, 0>>))>>),
    Table(<<Entry("t", String(<<0, 1, 0>>))>>),
    Table(<<Entry("k", String(<<1>>))>>),
    Table(<<Entry("f", NaN)>>), Table(<<Entry("f", Boolean(TRUE))>>),
    Table(<<Entry("cb", String(<<1>>))>>), Table(<<Entry("z", Integer(1))>>),
    Table(<<<<Integer(1), Integer(1)>>>>),
    Table(<<Entry("deep", Table(<<>>))>>),
    Table(<<Entry("deep", Table(<<Entry("in", Table(<<>>))>>))>>) }

Call(m, args) == [m |-> m, self |-> "own", args |-> args]
Calls_ ==
  {Call(set, <<x, Integer(0)>>) : x \in Tables} \cup
  { Call(get, <<Integer(-1)>>), Call(get, <<Float(4)>>), Call(get, <<Float(3)>>),
    Call(get, <<Integer(-2)>>), Call(get, <<>>), Call(set, <<Integer(1)>>),
    Call(set, <<Integer(1), Integer(1)>>), Call(dump, <<Integer(5)>>),
    [Call(get, <<Integer(1)>>) EXCEPT !.self = "other"] }

Done(sets) == [ran |-> TRUE, rc |-> "0", sets |-> sets]
None == [s \in {} |-> Nil]
In(m) == [has |-> TRUE, val |-> Msg(m)]

\* What the handlers of get write; events carry two of them.
Absent  == [u |-> Integer(7),
            r |-> [n |-> 2, vals |-> <<Integer(63), Integer(8)>>]]
Crooked == [p |-> [has |-> TRUE, val |-> Integer(31)],
            t |-> String(<<1, 0, 1>>),
            r |-> [n |-> 3, vals |-> <<Integer(1), Integer(40)>>],
            c |-> [which |-> 6, val |-> String(<<1, 1>>)]]
Responses ==
  { None, Absent, Crooked,
    [u |-> Integer(15), p |-> [has |-> TRUE, val |-> Integer(63)],
     t |-> String(<<1, 1, 1>>)],
    [u |-> Integer(8), c |-> [which |-> 5, val |->
       Msg([o |-> [which |-> 2, val |-> String(<<1, 0>>)]])]] }

handlers_ ==
  [ set  |-> { Done(None), [ran |-> FALSE, rc |-> "EBUSY", sets |-> None] },
    get  |-> {Done(r) : r \in Responses} \cup
             { [ran |-> TRUE, rc |-> "EOTHER", sets |-> [u |-> Integer(1)]],
               [ran |-> FALSE, rc |-> "EAGAIN", sets |-> None] },
    dump |-> { Done(None), Done([deep |-> In([in |-> In(ZeroMsg(Inner))])]) } ]

Events_ ==
  {[tf |-> RespTf, msg |-> Response(Done(r), RespTf)] : r \in {Absent, Crooked}}

Alike == Permutations(Threads)
=============================================================================
