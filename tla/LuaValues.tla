----------------------------- MODULE LuaValues -----------------------------
(***************************************************************************)
(* Lua values, structs and their descriptors, and the numbers of C: what   *)
(* the conversion (LuaPb) and the commands around it (LuaCommand) share.   *)
(*                                                                         *)
(* A descriptor is the sequence of its fields; a message without fields    *)
(* has the empty one.  A field is a record of name, tag, vtype, size,      *)
(* static (its allocation), ht, slot, count and sub.                       *)
(* A struct maps its slots to what they hold: a field's own name, or the   *)
(* name of its oneof, whose members share one slot.  An integer is held as *)
(* the bits of its width.                                                  *)
(*                                                                         *)
(* A Lua value is a record with its type; floats count halves, a string is *)
(* the sequence of its bytes, and a table the sequence of its entries in   *)
(* the order lua_next finds them.  Structs hold the same records.  The     *)
(* integer widths and the float's precision are scaled by the constants;   *)
(* a double is left out, whose only difference is that it is rounded.      *)
(***************************************************************************)
EXTENDS Integers, Sequences

CONSTANTS
  Bits,       \* width of an integer of 1, 2, 4 and 8 bytes
  Mantissa    \* significant bits of a lua_Number

ASSUME ValuesAssumption ==
  /\ DOMAIN Bits = {1, 2, 4, 8} /\ \A n \in DOMAIN Bits : Bits[n] \in Nat \ {0}
  /\ Mantissa \in Nat \ {0}

Integer(v) == [type |-> "integer", i |-> v]
Float(h)   == [type |-> "float", h |-> h]
NaN        == [type |-> "nan"]
Boolean(b) == [type |-> "boolean", b |-> b]
String(s)  == [type |-> "string", s |-> s]
Table(e)   == [type |-> "table", e |-> e]
Nil        == [type |-> "nil"]
Msg(m)     == [type |-> "message", m |-> m]

\* A conversion that raises, and one that does not.
Error == [ok |-> FALSE, v |-> Nil]
Ok(v) == [ok |-> TRUE, v |-> v]

\* lua_rawlen, up to the first hole.
HasKey(t, key) == \E n \in DOMAIN t.e : t.e[n][1] = key
Get(t, key)    == t.e[CHOOSE n \in DOMAIN t.e : t.e[n][1] = key][2]
rawlen(t)      == CHOOSE n \in 0..Len(t.e) :
                    /\ \A i \in 1..n : HasKey(t, Integer(i))
                    /\ ~HasKey(t, Integer(n + 1))

Least(m, n) == IF m < n THEN m ELSE n

-----------------------------------------------------------------------------
(* Fields.                                                                 *)

vtype_is_msg(vt) == vt \in {"MESSAGE", "MSG_W_CB"}
vtype_is_signed(vt) ==
  vt \in {"INT32", "SINT32", "SFIXED32", "INT64", "SINT64", "SFIXED64", "ENUM"}
vtype_is_unsigned(vt) ==
  vt \in {"UINT32", "FIXED32", "UINT64", "FIXED64", "UENUM"}

field_supported(f) ==
  f.static /\ f.ht # "FIXARRAY" /\ f.vtype # "EXTENSION"

\* zlet_lua_msg_field_index, from 1, 0 if there is none.
msg_field_index(tf, name) ==
  IF \E n \in DOMAIN tf : tf[n].name = name
  THEN CHOOSE n \in DOMAIN tf : /\ tf[n].name = name
                                /\ \A k \in 1..(n - 1) : tf[k].name # name
  ELSE 0

\* The offset of the bytes in pb_bytes_array_t, its size being a pb_size_t.
Header == 2

\* One more field of a table, if it is present: absent, it was pushed as Nil.
set_field(r, f, x) ==
  IF ~r.ok \/ ~x.ok THEN Error
  ELSE IF x.v = Nil THEN r
  ELSE Ok(Table(Append(r.v.e, <<String(f.name), x.v>>)))

-----------------------------------------------------------------------------
(* C numbers.                                                              *)

Abs(v) == IF v < 0 THEN -v ELSE v

\* The float nearest to an integer, to even if two are.
ToFloat(v) ==
  LET a    == Abs(v)
      e    == CHOOSE n \in 0..Bits[8] :
                /\ a < 2^(Mantissa + n)
                /\ n = 0 \/ a >= 2^(Mantissa + n - 1)
      q    == a \div 2^e
      r    == 2 * (a % 2^e)
      near == IF r > 2^e \/ (r = 2^e /\ q % 2 = 1) THEN q + 1 ELSE q
  IN 2 * (IF v < 0 THEN -1 ELSE 1) * near * 2^e

\* A cast of a float cuts its fraction. One out of range is undefined: here
\* it saturates, as it does on ARM.
Cast(h, lo, hi) ==
  LET v == IF h < 0 THEN -((-h) \div 2) ELSE h \div 2
  IN IF v < lo THEN lo ELSE IF v > hi THEN hi ELSE v

LowestOf(b)  == -(2^(b - 1))
HighestOf(b) == 2^(b - 1) - 1

\* TWO_POW_63 and TWO_POW_64.
TwoPow63 == 2 * 2^(Bits[8] - 1)
TwoPow64 == 2 * 2^Bits[8]

load_signed(raw, size) ==
  IF raw > HighestOf(Bits[size]) THEN raw - 2^Bits[size] ELSE raw

\* The integers of Lua, and the integer that a value is, if it is one.
LuaInts == LowestOf(Bits[4]) .. HighestOf(Bits[4])

Integers(x) ==
  CASE x.type = "integer" -> {x.i}
    [] x.type = "float"   -> IF x.h % 2 = 0 THEN {x.h \div 2} ELSE {}
    [] OTHER              -> {}
=============================================================================
