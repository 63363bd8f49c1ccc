----------------------------- MODULE WireCodec -----------------------------
(***************************************************************************)
(* The request codec of wire.go at byte level, over the protowire          *)
(* primitives it calls (AppendVarint, AppendTag, AppendBytes,              *)
(* ConsumeVarint, ConsumeTag, ConsumeBytes, ConsumeFieldValue).            *)
(*                                                                         *)
(* Integers keep their width, scaled: a varint is at most MaxVarintLen     *)
(* bytes and holds Width = 7 * (MaxVarintLen - 1) + 1 bits, so that        *)
(* MaxVarintLen = 10 is Go's uint64; timestamp_ms is the signed integer of *)
(* that width, written as uint64(ts) and read back as int64(v).  A string  *)
(* or bytes value is a sequence of bytes (0..255).                         *)
(*                                                                         *)
(* One decode is one step: the state holds the route, the input bytes and  *)
(* the decoder's result.                                                   *)
(***************************************************************************)
EXTENDS Integers, Sequences, WireInts

CONSTANTS
    Requests,       \* the requests whose encodings are decoded
    MqEvents,       \* the MQ events whose encodings are decoded
    Extras,         \* byte strings appended to an encoding (unknown fields)
    None

MaxInt32 == 2147483647   \* math.MaxInt32

VarintType == 0
Fixed64Type == 1
BytesType == 2
StartGroupType == 3
EndGroupType == 4
Fixed32Type == 5

Routes == {"/auth", "/check-message", "/get-group-members"}

(***************************************************************************)
(* Encoders.                                                               *)
(***************************************************************************)
\* mutant: 128 is written as one byte
RECURSIVE AppendVarintOffByOne(_)
AppendVarintOffByOne(v) ==
    IF v <= 128 THEN <<v % 256>> ELSE <<(v % 128) + 128>> \o AppendVarintOffByOne(v \div 128)

RECURSIVE AppendVarint(_)
AppendVarint(v) ==
    IF v < 128 THEN <<v>> ELSE <<(v % 128) + 128>> \o AppendVarint(v \div 128)

AppendTag(num, typ) == AppendVarint(num * 8 + typ)
AppendBytes(s) == AppendVarint(Len(s)) \o s

\* a string field, written only when it is not ""
StringField(num, s) == IF s = <<>> THEN <<>> ELSE AppendTag(num, BytesType) \o AppendBytes(s)

appendHookMeta(meta) ==
    StringField(1, meta.tenant) \o StringField(2, meta.rid)
    \o (IF meta.ts = 0 THEN <<>> ELSE AppendTag(3, VarintType) \o AppendVarint(Uint64(meta.ts)))
    \o StringField(4, meta.sign) \o StringField(5, meta.trace)

\* the meta, always written, then the request's own fields
MetaField(req) == AppendTag(1, BytesType) \o AppendBytes(appendHookMeta(req.meta))

EncodeAuthRequest(req) == MetaField(req) \o StringField(2, req.f2) \o StringField(3, req.f3)

EncodeCheckMessageRequest(req) == MetaField(req) \o StringField(2, req.f2)

EncodeGetGroupMembersRequest(req) == MetaField(req) \o StringField(2, req.f2)

EncodeRequest(route, req) ==
    CASE route = "/auth"          -> EncodeAuthRequest(req)
      [] route = "/check-message" -> EncodeCheckMessageRequest(req)
      [] OTHER                    -> EncodeGetGroupMembersRequest(req)

(***************************************************************************)
(* MqEvent as the function from its field numbers to their values: 2       *)
(* (event_type, int32) and 9 (timestamp, int64) are varints, 8             *)
(* (event_data) bytes, the others strings.                                 *)
(***************************************************************************)
MqFieldNums == 1..12
MqVarintFields == {2, 9}

MqZero(k) == IF k \in MqVarintFields THEN 0 ELSE <<>>

EmptyMqEvent == [k \in MqFieldNums |-> MqZero(k)]

\* one field of encodeMqEvent: written unless it is zero
MqFieldBytes(k, v) ==
    IF v = MqZero(k) THEN <<>>
    ELSE IF k \in MqVarintFields THEN AppendTag(k, VarintType) \o AppendVarint(Uint64(v))
    ELSE AppendTag(k, BytesType) \o AppendBytes(v)

RECURSIVE MqFieldsFrom(_, _)
MqFieldsFrom(e, k) == IF k > 12 THEN <<>> ELSE MqFieldBytes(k, e[k]) \o MqFieldsFrom(e, k + 1)

encodeMqEvent(e) == MqFieldsFrom(e, 1)

(***************************************************************************)
(* protowire consumers on b from position i.  A result's n is the number   *)
(* of bytes taken, or -1 for an error.                                     *)
(***************************************************************************)
\* ConsumeVarint: k bytes read so far; the last possible byte may only
\* hold the one bit left (Go: b[9] < 2)
RECURSIVE VarintFrom(_, _, _)
VarintFrom(b, i, k) ==
    IF i + k > Len(b) THEN [v |-> 0, n |-> -1]
    ELSE LET y == b[i + k] IN
         IF k = MaxVarintLen - 1
         THEN IF y < 2 THEN [v |-> y * 2^(7 * k), n |-> k + 1] ELSE [v |-> 0, n |-> -1]
         ELSE IF y < 128 THEN [v |-> y * 2^(7 * k), n |-> k + 1]
         ELSE LET r == VarintFrom(b, i, k + 1) IN
              IF r.n < 0 THEN r ELSE [v |-> (y - 128) * 2^(7 * k) + r.v, n |-> r.n]

ConsumeVarint(b, i) == VarintFrom(b, i, 0)

\* ConsumeTag with DecodeTag: field numbers below 1 are an error
ConsumeTag(b, i) ==
    LET r   == ConsumeVarint(b, i)
        num == IF r.v \div 8 > MaxInt32 THEN -1 ELSE r.v \div 8
    IN IF r.n < 0 \/ num < 1 THEN [num |-> 0, typ |-> 0, n |-> -1]
       ELSE [num |-> num, typ |-> r.v % 8, n |-> r.n]

\* ConsumeBytes / ConsumeString: a length, then that many bytes
ConsumeBytes(b, i) ==
    LET r == ConsumeVarint(b, i) IN
    IF r.n < 0 \/ r.v > Len(b) - (i - 1) - r.n THEN [val |-> <<>>, n |-> -1]
    ELSE [val |-> SubSeq(b, i + r.n, i + r.n + r.v - 1), n |-> r.n + r.v]

Fixed(b, i, w) == IF Len(b) - (i - 1) >= w THEN w ELSE -1

\* ConsumeFieldValue: the length of the value of field (num, typ); a group
\* runs to the EndGroup tag of the same number
RECURSIVE FieldValueLen(_, _, _, _), GroupLen(_, _, _, _)
FieldValueLen(num, typ, b, i) ==
    CASE typ = VarintType     -> ConsumeVarint(b, i).n
      [] typ = Fixed32Type    -> Fixed(b, i, 4)
      [] typ = Fixed64Type    -> Fixed(b, i, 8)
      [] typ = BytesType      -> ConsumeBytes(b, i).n
      [] typ = StartGroupType -> GroupLen(num, b, i, i)
      [] OTHER                -> -1

GroupLen(num, b, i0, i) ==
    LET t == ConsumeTag(b, i) IN
    IF t.n < 0 THEN -1
    ELSE IF t.typ = EndGroupType THEN (IF t.num # num THEN -1 ELSE i + t.n - i0)
    ELSE LET n == FieldValueLen(t.num, t.typ, b, i + t.n) IN
         IF n < 0 THEN -1 ELSE GroupLen(num, b, i0, i + t.n + n)

(***************************************************************************)
(* Decoders: consume tags until the input ends; a known field number is    *)
(* read with its field's consumer whatever its wire type, as wire.go       *)
(* dispatches on the field number alone; a repeated field keeps its last   *)
(* value.                                                                  *)
(***************************************************************************)
EmptyMeta == [tenant |-> <<>>, rid |-> <<>>, ts |-> 0, sign |-> <<>>, trace |-> <<>>]
EmptyRequest == [meta |-> EmptyMeta, f2 |-> <<>>, f3 |-> <<>>]
Fail == [ok |-> FALSE, val |-> None]

MetaStrings == [n \in {1, 2, 4, 5} |-> CASE n = 1 -> "tenant" [] n = 2 -> "rid"
                                          [] n = 4 -> "sign" [] OTHER -> "trace"]

\* decodeHookMeta
RECURSIVE MetaFrom(_, _, _)
MetaFrom(b, i, m) ==
    IF i > Len(b) THEN [ok |-> TRUE, val |-> m]
    ELSE LET t == ConsumeTag(b, i)
             j == i + t.n
         IN
         IF t.n < 0 THEN Fail
         ELSE IF t.num = 3
         THEN LET r == ConsumeVarint(b, j) IN
              IF r.n < 0 THEN Fail ELSE MetaFrom(b, j + r.n, [m EXCEPT !.ts = Int64(r.v)])
         ELSE IF t.num \in {1, 2, 4, 5}
         THEN LET r == ConsumeBytes(b, j) IN
              IF r.n < 0 THEN Fail
              ELSE MetaFrom(b, j + r.n, [m EXCEPT ![MetaStrings[t.num]] = r.val])
         ELSE LET n == FieldValueLen(t.num, t.typ, b, j) IN
              IF n < 0 THEN Fail ELSE MetaFrom(b, j + n, m)

\* the loop of DecodeAuthRequest (known = {2, 3}), DecodeCheckMessageRequest
\* and DecodeGetGroupMembersRequest (known = {2}); field 1 is the meta,
\* decoded by decodeHookMeta, whose error fails the request
RECURSIVE RequestFrom(_, _, _, _)
RequestFrom(known, b, i, req) ==
    IF i > Len(b) THEN [ok |-> TRUE, val |-> req]
    ELSE LET t == ConsumeTag(b, i)
             j == i + t.n
         IN
         IF t.n < 0 THEN Fail
         ELSE IF t.num \in {1} \cup known
         THEN LET r == ConsumeBytes(b, j)
                  m == MetaFrom(r.val, 1, EmptyMeta)
              IN
              IF r.n < 0 THEN Fail
              ELSE IF t.num = 1
                   THEN IF ~m.ok THEN Fail
                        ELSE RequestFrom(known, b, j + r.n, [req EXCEPT !.meta = m.val])
              ELSE IF t.num = 2 THEN RequestFrom(known, b, j + r.n, [req EXCEPT !.f2 = r.val])
              ELSE RequestFrom(known, b, j + r.n, [req EXCEPT !.f3 = r.val])
         ELSE LET n == FieldValueLen(t.num, t.typ, b, j) IN
              IF n < 0 THEN Fail ELSE RequestFrom(known, b, j + n, req)

DecodeAuthRequest(b) == RequestFrom({2, 3}, b, 1, EmptyRequest)

DecodeCheckMessageRequest(b) == RequestFrom({2}, b, 1, EmptyRequest)

DecodeGetGroupMembersRequest(b) == RequestFrom({2}, b, 1, EmptyRequest)

\* decodeMqEvent: fields 1..12 are known
RECURSIVE MqEventFrom(_, _, _)
MqEventFrom(b, i, e) ==
    IF i > Len(b) THEN [ok |-> TRUE, val |-> e]
    ELSE LET t == ConsumeTag(b, i)
             j == i + t.n
         IN
         IF t.n < 0 THEN Fail
         ELSE IF t.num \in MqVarintFields
         THEN LET r == ConsumeVarint(b, j) IN
              IF r.n < 0 THEN Fail
              ELSE MqEventFrom(b, j + r.n,
                     [e EXCEPT ![t.num] = IF t.num = 2 THEN Int32(r.v) ELSE Int64(r.v)])
         ELSE IF t.num \in MqFieldNums \ MqVarintFields
         THEN LET r == ConsumeBytes(b, j) IN
              IF r.n < 0 THEN Fail ELSE MqEventFrom(b, j + r.n, [e EXCEPT ![t.num] = r.val])
         ELSE LET n == FieldValueLen(t.num, t.typ, b, j) IN
              IF n < 0 THEN Fail ELSE MqEventFrom(b, j + n, e)

decodeMqEvent(b) == MqEventFrom(b, 1, EmptyMqEvent)

\* the messages a body may be: a hook request of a route, or an MQ event
MqTopic == "mq-event"

DecodeRequest(route, b) ==
    CASE route = "/auth"          -> DecodeAuthRequest(b)
      [] route = "/check-message" -> DecodeCheckMessageRequest(b)
      [] route = MqTopic          -> decodeMqEvent(b)
      [] OTHER                    -> DecodeGetGroupMembersRequest(b)

VARIABLES route, req, body, done, result
vars == <<route, req, body, done, result>>

\* a request, or an event, is decoded from its encoding followed by
\* unknown fields
Init ==
    /\ \/ /\ route \in Routes
          /\ req \in Requests
          /\ route # "/auth" => req.f3 = <<>>
          /\ body \in {EncodeRequest(route, req) \o x : x \in Extras}
       \/ /\ route = MqTopic
          /\ req \in MqEvents
          /\ body \in {encodeMqEvent(req) \o x : x \in Extras}
    /\ done = FALSE
    /\ result = Fail

\* one call of the route's decoder (handleAuth etc., first statement)
Decode ==
    /\ ~done
    /\ done' = TRUE
    /\ result' = DecodeRequest(route, body)
    /\ UNCHANGED <<route, req, body>>

Spec == Init /\ [][Decode]_vars

(***************************************************************************)
(* Round trip with forward compatibility: decoding the encoding of a hook  *)
(* request or an MQ event, with unknown fields of any wire type after it,  *)
(* gives it back, timestamps and event types at the edges of their width   *)
(* (0, 127, 128, the largest, -1, the smallest) included.  It is what      *)
(* makes the server's and the consumer's re-encoded signing payload equal  *)
(* the platform's.                                                         *)
(***************************************************************************)
RoundTrip == done => result = [ok |-> TRUE, val |-> req]

=============================================================================
