----------------------------- MODULE LuaMeaning -----------------------------
(***************************************************************************)
(* What the Lua frontend's README promises of messages as tables, without  *)
(* reference to the order in which a table is read or a message is built,  *)
(* nor to the casts and bounds of the code: which tables stand for a       *)
(* message, which message each stands for, and which table shows a         *)
(* message.                                                                *)
(***************************************************************************)
EXTENDS LuaPb

\* The integers of a field, whatever its width.
IntRange(f) ==
  IF vtype_is_signed(f.vtype)
  THEN -(2^(Bits[f.size] - 1)) .. (2^(Bits[f.size] - 1) - 1)
  ELSE 0 .. (2^Bits[f.size] - 1)

IsInt(f) == vtype_is_signed(f.vtype) \/ vtype_is_unsigned(f.vtype)

\* The lua_Numbers, in halves, as far as the widths go.
Floats ==
  LET Pos == {q * 2^e : q \in 0..(2^Mantissa), e \in 0..(Bits[8] + 1)}
  IN Pos \cup {-h : h \in Pos}

Nearest(v) ==
  {h \in Floats : \A g \in Floats : Abs(h - 2 * v) <= Abs(g - 2 * v)}

-----------------------------------------------------------------------------
(* Tables that are read.                                                   *)

Fields(tf, entry) ==
  {f \in Supported(tf) : entry[1].type = "string" /\ f.name = entry[1].s}

RECURSIVE Takes(_, _, _), TakesAll(_, _, _), Accepts(_, _, _)

\* Whether a field takes a value.
Takes(f, x, depth) ==
  CASE vtype_is_msg(f.vtype) ->
         x.type = "table" /\ Accepts(f.sub, x, depth + 1)
    [] IsInt(f)              -> Integers(x) \cap IntRange(f) # {}
    [] f.vtype = "BOOL"      -> x.type = "boolean"
    [] f.vtype = "FLOAT"     -> x.type \in {"integer", "float", "nan"}
    [] OTHER ->
         /\ x.type = "string"
         /\ CASE f.vtype = "STRING" -> Len(x.s) <= f.size - 1
              [] f.vtype = "BYTES"  -> Len(x.s) + Header <= f.size
              [] OTHER              -> Len(x.s) = f.size

TakesAll(f, x, depth) ==
  IF f.ht # "REPEATED" THEN Takes(f, x, depth)
  ELSE /\ x.type = "table" /\ rawlen(x) <= f.count
       /\ \A i \in 1..rawlen(x) : Takes(f, Get(x, Integer(i)), depth)

\* Every entry names a field that takes its value, and no two entries name
\* members of one oneof.
Accepts(tf, x, depth) ==
  /\ depth <= MaxDepth
  /\ \A n \in DOMAIN x.e :
       \E f \in Fields(tf, x.e[n]) : TakesAll(f, x.e[n][2], depth)
  /\ \A m, n \in DOMAIN x.e :
       \A f \in Fields(tf, x.e[m]), g \in Fields(tf, x.e[n]) :
         m # n => f.slot # g.slot

RECURSIVE Holds(_, _), HoldsAll(_, _), Meaning(_, _)

\* What a field holds for a value it takes.
Holds(f, x) ==
  CASE vtype_is_msg(f.vtype) -> Msg(Meaning(f.sub, x))
    [] IsInt(f) -> Integer((CHOOSE v \in Integers(x) : TRUE) % 2^Bits[f.size])
    [] f.vtype = "FLOAT" /\ x.type = "integer" ->
         Float(CHOOSE h \in Nearest(x.i) : h = ToFloat(x.i))
    [] OTHER    -> x

HoldsAll(f, x) ==
  CASE f.ht = "OPTIONAL" -> [has |-> TRUE, val |-> Holds(f, x)]
    [] f.ht = "ONEOF"    -> [which |-> f.tag, val |-> Holds(f, x)]
    [] f.ht = "REPEATED" ->
         [n |-> rawlen(x),
          vals |-> [i \in 1..f.count |-> IF i <= rawlen(x)
                                         THEN Holds(f, Get(x, Integer(i)))
                                         ELSE Zero(f)]]
    [] OTHER             -> Holds(f, x)

\* The message an accepted table stands for: every field it does not name
\* is zero.
Meaning(tf, x) ==
  [s \in DOMAIN ZeroMsg(tf) |->
     IF \E f \in Supported(tf) : f.slot = s /\ HasKey(x, String(f.name))
     THEN LET f == CHOOSE g \in Supported(tf) :
                     g.slot = s /\ HasKey(x, String(g.name))
          IN HoldsAll(f, Get(x, String(f.name)))
     ELSE ZeroMsg(tf)[s]]

-----------------------------------------------------------------------------
(* Tables that are shown.                                                  *)

RECURSIVE Shows(_, _, _), ShowsAll(_, _, _), ShowsMsg(_, _, _)

\* Whether a Lua value shows what a field holds.
Shows(f, v, x) ==
  CASE vtype_is_msg(f.vtype) -> x.type = "table" /\ ShowsMsg(f.sub, v.m, x)
    [] IsInt(f) ->
         LET n == CHOOSE k \in IntRange(f) : k % 2^Bits[f.size] = v.i
         IN IF n \in LuaInts THEN x = Integer(n)
            ELSE x.type = "float" /\ x.h \in Nearest(n)
    [] f.vtype = "STRING" ->
         /\ x.type = "string" /\ IsPrefix(x.s, v.s) /\ 0 \notin ToSet(x.s)
         /\ Len(x.s) \in {f.size, Len(v.s)} \/ v.s[Len(x.s) + 1] = 0
    [] f.vtype = "BYTES" ->
         /\ x.type = "string" /\ IsPrefix(x.s, v.s)
         /\ Len(x.s) = Least(Len(v.s), f.size - Header)
    [] OTHER -> x = v

ShowsAll(f, slot, x) ==
  CASE f.ht \in {"OPTIONAL", "ONEOF"} -> Shows(f, slot.val, x)
    [] f.ht = "REPEATED" ->
         /\ x.type = "table"
         /\ Len(x.e) = rawlen(x) /\ rawlen(x) = Least(slot.n, f.count)
         /\ \A i \in 1..rawlen(x) : Shows(f, slot.vals[i], Get(x, Integer(i)))
    [] OTHER -> Shows(f, slot, x)

\* The table has the fields that are present and no other: a proto3 scalar
\* always, an optional one if it is set, of a oneof the member that is.
ShowsMsg(tf, msg, x) ==
  /\ Len(x.e) = Cardinality({f \in Supported(tf) : Present(msg, f)})
  /\ \A f \in Supported(tf) :
       Present(msg, f) =>
         /\ HasKey(x, String(f.name))
         /\ ShowsAll(f, msg[f.slot], Get(x, String(f.name)))
=============================================================================
