------------------------------ MODULE ByteSize ------------------------------
(***************************************************************************)
(* internal/configtype/bytesize.go: byte counts with a unit, as integers   *)
(* of Width bits.                                                          *)
(*                                                                         *)
(* A text is a record: the number its digits spell and its suffix, "none"  *)
(* without one.                                                            *)
(***************************************************************************)
EXTENDS Integers, Sequences

CONSTANTS
  Width,       \* 64 in the code
  ByteUnits,   \* byteUnits: suffix -> multiplier
  RenderUnits  \* renderUnits: the binary suffixes, largest first

MaxInt == 2^(Width - 1) - 1
MinInt == -(2^(Width - 1))

ASSUME UnitsAssumption ==
  /\ Width \in Nat \ {0}
  /\ \A u \in DOMAIN ByteUnits : ByteUnits[u] \in 1..MaxInt
  /\ "b" \in DOMAIN ByteUnits /\ ByteUnits["b"] = 1
  /\ "none" \notin DOMAIN ByteUnits
  /\ RenderUnits \in Seq(DOMAIN ByteUnits)

(* Multiplication wraps, modulo 2^Width, the number of the values, and     *)
(* division truncates toward zero.                                         *)
Wrap(x) == ((x - MinInt) % (MaxInt - MinInt + 1)) + MinInt
Quot(x, m) == IF x >= 0 THEN x \div m ELSE -((-x) \div m)

(* An error, as a number no value of the type equals.                      *)
Fail == MaxInt + 1

(* UnmarshalText on text that is not blank.                                *)
(* Faulty variant: the product is not checked. *)
UnmarshalWrapping(t) ==
  IF t.count \notin MinInt..MaxInt THEN Fail
  ELSE IF t.unit = "none" THEN t.count
  ELSE IF t.unit \notin DOMAIN ByteUnits THEN Fail
  ELSE Wrap(t.count * ByteUnits[t.unit])

UnmarshalText(t) ==
  LET scaled == Wrap(t.count * ByteUnits[t.unit])
  IN  IF t.count \notin MinInt..MaxInt THEN Fail
      ELSE IF t.unit = "none" THEN t.count
      ELSE IF t.unit \notin DOMAIN ByteUnits THEN Fail
      ELSE IF Quot(scaled, ByteUnits[t.unit]) # t.count THEN Fail
      ELSE scaled

(* String, which MarshalText returns: the first unit that divides b.       *)
(* Faulty variant: the largest unit that is not larger than b. *)
StringRounded(b) ==
  LET fits == {i \in 1..Len(RenderUnits) : b >= ByteUnits[RenderUnits[i]]}
      unit == RenderUnits[CHOOSE i \in fits : \A j \in fits : i <= j]
  IN  IF fits = {} THEN [count |-> b, unit |-> "b"]
      ELSE [count |-> Quot(b, ByteUnits[unit]), unit |-> unit]

String(b) ==
  LET exact == {i \in 1..Len(RenderUnits) : b # 0 /\ b % ByteUnits[RenderUnits[i]] = 0}
      unit == RenderUnits[CHOOSE i \in exact : \A j \in exact : i <= j]
  IN  IF exact = {} THEN [count |-> b, unit |-> "b"]
      ELSE [count |-> Quot(b, ByteUnits[unit]), unit |-> unit]
=============================================================================
