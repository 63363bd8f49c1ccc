------------------------------ MODULE WireInts ------------------------------
(***************************************************************************)
(* The integer conversions of the codecs at the model's width.  A varint   *)
(* is at most MaxVarintLen bytes and holds Width = 7 * (MaxVarintLen - 1)  *)
(* + 1 bits, so that MaxVarintLen = 10 is Go's uint64.  wire.go and        *)
(* wire_mq.go write a signed value as uint64(x) and read it back as        *)
(* int64(v); wire_mq.go reads event_type back as EventType(v), an int32,   *)
(* which keeps the low half of the width.                                  *)
(***************************************************************************)
EXTENDS Integers

CONSTANT MaxVarintLen   \* protowire.MaxVarintLen64 (10), scaled down

ASSUME MaxVarintLenAssumption == MaxVarintLen \in Nat \ {0, 1}

Width == 7 * (MaxVarintLen - 1) + 1
U == 2^Width
Width32 == (Width + 1) \div 2

(* The facts about powers of two that the conversions rest on: each power *)
(* is positive, doubling adds one to the exponent, and the int32 range    *)
(* divides the uint64 range.  They hold for every MaxVarintLen the        *)
(* assumption above allows; TLC evaluates them on every run of the codec. *)
ASSUME PowersAssumption ==
    /\ 2^(Width - 1) \in Nat \ {0}
    /\ 2^Width = 2 * 2^(Width - 1)
    /\ 2^(Width32 - 1) \in Nat \ {0}
    /\ 2^Width32 = 2 * 2^(Width32 - 1)
    /\ 2^(Width - Width32) \in Nat \ {0}
    /\ 2^Width = 2^Width32 * 2^(Width - Width32)

\* uint64(x) and int64(v) at the model's width
Uint64(x) == x % U
Int64(v) == IF v >= U \div 2 THEN v - U ELSE v

\* EventType(v): int32 keeps the low half of the width
Int32(v) == LET w == v % 2^Width32 IN IF w >= 2^(Width32 - 1) THEN w - 2^Width32 ELSE w
=============================================================================
