--------------------------- MODULE WireIntsProofs ---------------------------
(***************************************************************************)
(* Proofs about the integer conversions of WireInts, for every width.  A   *)
(* timestamp written as uint64(ts) and read back as int64(v) is the same   *)
(* timestamp, and an event type written as uint64(int64(t)) and read back  *)
(* as EventType(v) is the same event type.  The facts about % and powers   *)
(* of two they need are stated once as lemmas.                             *)
(***************************************************************************)
EXTENDS WireInts, TLAPS

Half == 2^(Width - 1)      \* U \div 2: the first value int64 makes negative
U32 == 2^Width32
Half32 == 2^(Width32 - 1)
K == 2^(Width - Width32)   \* U = U32 * K

(* A remainder is the r of any x = u * q + r with 0 <= r < u. *)
LEMMA ModUnique ==
    \A u \in Nat \ {0}, q \in Int, r \in Int : 0 <= r /\ r < u => (u * q + r) % u = r
  BY SMT

(* The powers of two named above, as numbers. *)
LEMMA Powers ==
    /\ Half \in Nat \ {0} /\ U = 2 * Half /\ U \div 2 = Half
    /\ Half32 \in Nat \ {0} /\ U32 = 2 * Half32
    /\ K \in Nat \ {0} /\ U = U32 * K
  <1>1. /\ Half \in Nat \ {0} /\ U = 2 * Half
        /\ Half32 \in Nat \ {0} /\ U32 = 2 * Half32
        /\ K \in Nat \ {0} /\ U = U32 * K
    BY PowersAssumption DEF Half, U, U32, Half32, K
  <1>2. U \div 2 = Half
    BY <1>1
  <1>. QED  BY <1>1, <1>2

(* Every signed timestamp of the width survives appendHookMeta's           *)
(* AppendVarint(uint64(ts)) and decodeHookMeta's int64(v) (and the same    *)
(* pair for MqEvent.timestamp in wire_mq.go).                              *)
THEOREM TimestampRoundTrip ==
    \A ts \in -(U \div 2)..(U \div 2 - 1) : Int64(Uint64(ts)) = ts
  <1> SUFFICES ASSUME NEW ts \in -Half..(Half - 1) PROVE Int64(Uint64(ts)) = ts
    BY Powers
  <1>1. CASE ts >= 0
    <2>1. Uint64(ts) = ts  BY <1>1, Powers, ModUnique DEF Uint64
    <2>. QED  BY <2>1, <1>1, Powers DEF Int64
  <1>2. CASE ts < 0
    <2>1. Uint64(ts) = ts + U  BY <1>2, Powers, ModUnique DEF Uint64
    <2>. QED  BY <2>1, <1>2, Powers DEF Int64
  <1>. QED  BY <1>1, <1>2

(* Every uint64 of the width is the encoding of exactly one signed value:  *)
(* int64 then uint64 gives back the bits that were read.                   *)
THEOREM Int64Inverse == \A v \in 0..(U - 1) : Uint64(Int64(v)) = v
  <1> SUFFICES ASSUME NEW v \in 0..(U - 1) PROVE Uint64(Int64(v)) = v
    OBVIOUS
  <1>1. CASE v >= Half
    <2>1. Int64(v) = U * (-1) + v  BY <1>1, Powers DEF Int64
    <2>2. U \in Nat \ {0} /\ -1 \in Int /\ v \in Int /\ 0 <= v /\ v < U  BY Powers
    <2>3. (U * (-1) + v) % U = v  BY <2>2, ModUnique
    <2>. QED  BY <2>1, <2>3 DEF Uint64
  <1>2. CASE v < Half
    <2>1. Int64(v) = v  BY <1>2, Powers DEF Int64
    <2>. QED  BY <2>1, <1>2, Powers, ModUnique DEF Uint64
  <1>. QED  BY <1>1, <1>2, Powers

(* Every int32 event type survives encodeMqEvent's AppendVarint(uint64(   *)
(* evt.EventType)), which sign-extends it to the full width, and           *)
(* decodeMqEvent's EventType(v), which keeps the low half of the bits.     *)
THEOREM EventTypeRoundTrip ==
    \A e \in -(2^Width32 \div 2)..(2^Width32 \div 2 - 1) : Int32(Uint64(e)) = e
  <1> SUFFICES ASSUME NEW e \in -Half32..(Half32 - 1) PROVE Int32(Uint64(e)) = e
    BY Powers DEF U32, Half32
  <1>1. CASE e >= 0
    <2>1. Uint64(e) = e  BY <1>1, Powers, ModUnique DEF Uint64
    <2>2. e % U32 = e  BY <1>1, Powers, ModUnique
    <2>. QED  BY <2>1, <2>2, <1>1, Powers DEF Int32, U32, Half32
  <1>2. CASE e < 0
    <2>1. Uint64(e) = U32 * (K - 1) + (e + U32)  BY <1>2, Powers, ModUnique DEF Uint64
    <2>2. /\ U32 \in Nat \ {0} /\ K - 1 \in Int /\ e + U32 \in Int
          /\ 0 <= e + U32 /\ e + U32 < U32
      BY <1>2, Powers
    <2>3. (U32 * (K - 1) + (e + U32)) % U32 = e + U32  BY <2>2, ModUnique
    <2>4. e + U32 >= Half32 /\ e + U32 - U32 = e  BY <1>2, Powers
    <2>. QED  BY <2>1, <2>3, <2>4, Powers DEF Int32, U32, Half32
  <1>. QED  BY <1>1, <1>2
=============================================================================
