------------------------------- MODULE LuaPb -------------------------------
(***************************************************************************)
(* nanopb struct <-> Lua table (zephlet_lua_pb.c), over the values and     *)
(* descriptors of LuaValues.                                               *)
(***************************************************************************)
EXTENDS LuaValues, SequencesExt

CONSTANT MaxDepth   \* ZLET_LUA_PB_MAX_DEPTH

ASSUME PbAssumption == MaxDepth \in Nat

-----------------------------------------------------------------------------
(* C -> Lua.                                                               *)

push_signed(v) ==
  IF v >= LowestOf(Bits[4]) /\ v <= HighestOf(Bits[4]) THEN Integer(v)
                                                       ELSE Float(ToFloat(v))

push_unsigned(v) ==
  IF v <= HighestOf(Bits[4]) THEN Integer(v) ELSE Float(ToFloat(v))

bounded_strlen(s, max) ==
  CHOOSE n \in 0..Least(Len(s), max) :
    /\ \A i \in 1..n : s[i] # 0
    /\ n < Least(Len(s), max) => s[n + 1] = 0

RECURSIVE push_value(_, _, _), push_elements(_, _, _, _), push_field(_, _, _),
          push_msg_at(_, _, _)

push_value(f, v, depth) ==
  CASE vtype_is_msg(f.vtype)       -> push_msg_at(f.sub, v.m, depth + 1)
    [] vtype_is_signed(f.vtype)    -> Ok(push_signed(load_signed(v.i, f.size)))
    [] vtype_is_unsigned(f.vtype)  -> Ok(push_unsigned(v.i))
    [] f.vtype = "STRING" ->
         Ok(String(SubSeq(v.s, 1, bounded_strlen(v.s, f.size))))
    [] f.vtype = "BYTES"  ->
         Ok(String(SubSeq(v.s, 1, Least(Len(v.s), f.size - Header))))
    [] OTHER -> Ok(v)

\* The first n elements, as the entries of a table from 1.
push_elements(f, vals, n, depth) ==
  LET Add(r, i) ==
        LET x == push_value(f, vals[i], depth) IN
        IF r.ok /\ x.ok THEN Ok(Append(r.v, <<Integer(i), x.v>>)) ELSE Error
  IN FoldLeft(Add, Ok(<<>>), [i \in 1..n |-> i])

Present(msg, f) ==
  CASE f.ht = "OPTIONAL" -> msg[f.slot].has
    [] f.ht = "ONEOF"    -> msg[f.slot].which = f.tag
    [] OTHER             -> TRUE

\* Nil when the field is absent.
push_field(msg, f, depth) ==
  IF ~field_supported(f) \/ ~Present(msg, f) THEN Ok(Nil)
  ELSE CASE f.ht = "REPEATED" ->
              LET r == push_elements(f, msg[f.slot].vals,
                                     Least(msg[f.slot].n, f.count), depth)
              IN IF r.ok THEN Ok(Table(r.v)) ELSE Error
         [] f.ht \in {"OPTIONAL", "ONEOF"} ->
              push_value(f, msg[f.slot].val, depth)
         [] OTHER -> push_value(f, msg[f.slot], depth)

push_msg_at(tf, msg, depth) ==
  IF depth > MaxDepth THEN Error
  ELSE FoldLeft(LAMBDA r, f : set_field(r, f, push_field(msg, f, depth)),
                Ok(Table(<<>>)), tf)

-----------------------------------------------------------------------------
(* Lua -> C.                                                               *)

check_signed(x) ==
  LET v == Cast(x.h, LowestOf(Bits[8]), HighestOf(Bits[8])) IN
  CASE x.type = "integer" -> Ok(x.i)
    [] x.type = "float"   -> IF /\ x.h >= -TwoPow63 /\ x.h < TwoPow63
                                /\ ToFloat(v) = x.h
                             THEN Ok(v) ELSE Error
    [] OTHER              -> Error

check_unsigned(x) ==
  LET v == Cast(x.h, 0, 2^Bits[8] - 1) IN
  CASE x.type = "integer" -> IF x.i < 0 THEN Error ELSE Ok(x.i)
    [] x.type = "float"   -> IF /\ x.h > -2 /\ x.h < TwoPow64
                                /\ ToFloat(v) = x.h
                             THEN Ok(v) ELSE Error
    [] OTHER              -> Error

\* The bits that a store of the width keeps.
StoreSignedAny(size, v) == Ok(Integer(v % 2^Bits[size]))

store_signed(size, v) ==
  IF v < LowestOf(Bits[size]) \/ v > HighestOf(Bits[size]) THEN Error
  ELSE Ok(Integer(v % 2^Bits[size]))

store_unsigned(size, v) ==
  IF v > 2^Bits[size] - 1 THEN Error ELSE Ok(Integer(v % 2^Bits[size]))

RECURSIVE read_value(_, _, _, _), read_repeated(_, _, _, _),
          read_oneof(_, _, _, _), read_slot(_, _, _, _),
          read_entry(_, _, _, _), read_msg_at(_, _, _, _)

read_value(f, x, dst, depth) ==
  CASE vtype_is_msg(f.vtype) ->
         IF x.type # "table" THEN Error
         ELSE LET r == read_msg_at(x, f.sub, dst.m, depth + 1)
              IN IF r.ok THEN Ok(Msg(r.v)) ELSE Error
    [] vtype_is_signed(f.vtype) ->
         LET r == check_signed(x)
         IN IF r.ok THEN store_signed(f.size, r.v) ELSE Error
    [] vtype_is_unsigned(f.vtype) ->
         LET r == check_unsigned(x)
         IN IF r.ok THEN store_unsigned(f.size, r.v) ELSE Error
    [] f.vtype = "BOOL" -> IF x.type = "boolean" THEN Ok(x) ELSE Error
    [] f.vtype = "FLOAT" ->
         CASE x.type = "integer"         -> Ok(Float(ToFloat(x.i)))
           [] x.type \in {"float", "nan"} -> Ok(x)
           [] OTHER                      -> Error
    [] f.vtype = "STRING" ->
         IF x.type = "string" /\ Len(x.s) < f.size THEN Ok(x) ELSE Error
    [] f.vtype = "BYTES" ->
         IF x.type = "string" /\ Len(x.s) <= f.size - Header THEN Ok(x)
                                                            ELSE Error
    [] f.vtype = "FIXED_LENGTH_BYTES" ->
         IF x.type = "string" /\ Len(x.s) = f.size THEN Ok(x) ELSE Error
    [] OTHER -> Error

\* The count is stored behind the elements; what is beyond it stays.
read_repeated(f, x, slot, depth) ==
  LET n == rawlen(x)
      Store(r, i) ==
        LET v == read_value(f, Get(x, Integer(i)), r.v[i], depth) IN
        IF r.ok /\ v.ok THEN Ok([r.v EXCEPT ![i] = v.v]) ELSE Error
      all == FoldLeft(Store, Ok(slot.vals), [i \in 1..n |-> i])
  IN IF x.type # "table" THEN Error
     ELSE IF n > f.count \/ ~all.ok THEN Error
     ELSE Ok([n |-> n, vals |-> all.v])

\* memset: all bytes zero.
RECURSIVE Zero(_), ZeroSlot(_), ZeroMsg(_)

Zero(f) ==
  CASE vtype_is_msg(f.vtype)            -> Msg(ZeroMsg(f.sub))
    [] f.vtype = "BOOL"                 -> Boolean(FALSE)
    [] f.vtype = "FLOAT"                -> Float(0)
    [] f.vtype = "STRING"               -> String(<<>>)
    [] f.vtype = "BYTES"                -> String(<<>>)
    [] f.vtype = "FIXED_LENGTH_BYTES"   -> String([i \in 1..f.size |-> 0])
    [] OTHER                            -> Integer(0)

ZeroSlot(f) ==
  CASE f.ht = "OPTIONAL" -> [has |-> FALSE, val |-> Zero(f)]
    [] f.ht = "ONEOF"    -> [which |-> 0, val |-> Nil]
    [] f.ht = "REPEATED" -> [n |-> 0, vals |-> [i \in 1..f.count |-> Zero(f)]]
    [] OTHER             -> Zero(f)

Supported(tf) == {f \in ToSet(tf) : field_supported(f)}

ZeroMsg(tf) ==
  [s \in {f.slot : f \in Supported(tf)} |->
     ZeroSlot(CHOOSE f \in Supported(tf) : f.slot = s)]

\* A second member of a oneof is refused; the slot is zeroed before the read.
read_oneof(f, x, msg, depth) ==
  LET r == read_value(f, x, Zero(f), depth)
  IN IF msg[f.slot].which \notin {0, f.tag} \/ ~r.ok THEN Error
     ELSE Ok([which |-> f.tag, val |-> r.v])

\* What a field's slot holds after its value has been read.
read_slot(f, x, msg, depth) ==
  CASE f.ht = "OPTIONAL" ->
         LET r == read_value(f, x, msg[f.slot].val, depth)
         IN IF r.ok THEN Ok([has |-> TRUE, val |-> r.v]) ELSE Error
    [] f.ht = "ONEOF"    -> read_oneof(f, x, msg, depth)
    [] f.ht = "REPEATED" -> read_repeated(f, x, msg[f.slot], depth)
    [] OTHER             -> read_value(f, x, msg[f.slot], depth)

\* One entry of the table.
read_entry(tf, msg, entry, depth) ==
  LET key == entry[1]
      n   == IF key.type = "string" THEN msg_field_index(tf, key.s) ELSE 0
      f   == tf[n]
  IN IF n = 0 THEN Error
     ELSE IF ~field_supported(f) THEN Error
     ELSE LET r == read_slot(f, entry[2], msg, depth)
          IN IF r.ok THEN Ok([msg EXCEPT ![f.slot] = r.v]) ELSE Error

read_msg_at(x, tf, msg, depth) ==
  IF depth > MaxDepth THEN Error
  ELSE FoldLeft(LAMBDA r, entry : IF r.ok THEN read_entry(tf, r.v, entry, depth)
                                          ELSE Error,
                Ok(msg), x.e)
=============================================================================
