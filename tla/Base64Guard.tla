---------------------------- MODULE Base64Guard ----------------------------
(***************************************************************************)
(* The canonical base64 guard of signing.go at byte level:                 *)
(* isCanonicalBase64, constantTimeEqualBase64 and the verifier that uses   *)
(* them, over Go's base64.StdEncoding.  Go's decoder is lenient: it skips  *)
(* '\r' and '\n' anywhere, and (the encoding not being Strict) ignores the *)
(* unused low bits of the last sextet, so several texts decode to the same *)
(* bytes.  The guard must accept exactly the one text EncodeToString       *)
(* produces.                                                               *)
(*                                                                         *)
(* A text is a sequence of symbols: 0..63 stand for the letters of the     *)
(* standard alphabet by their value, and Pad, NL, CR and Other for '=',    *)
(* '\n', '\r' and any byte outside the alphabet.  One verification is one  *)
(* step: the state holds the expected MAC bytes, the supplied text and the *)
(* verdict.                                                                *)
(***************************************************************************)
EXTENDS Naturals, Sequences

CONSTANTS
    Macs,           \* the MAC byte strings the verifier may expect
    Letters,        \* the alphabet letters (values in 0..63) texts are built of
    MaxTextLen      \* bound on the length of a supplied text

Pad == 64
NL == 65
CR == 66
Other == 67
Symbols == Letters \cup {Pad, NL, CR, Other}

ASSUME MacsAssumption == Macs \subseteq Seq(0..255)
ASSUME LettersAssumption == Letters \subseteq 0..63
ASSUME MaxTextLenAssumption == MaxTextLen \in Nat

\* the sextet at position k (0 = most significant) of a 24-bit group
Sextet(val, k) == (val \div (2^(6 * (3 - k)))) % 64

(***************************************************************************)
(* base64.StdEncoding.EncodeToString: three bytes to four letters; a last  *)
(* group of two bytes gives three letters and one Pad, of one byte two     *)
(* letters and two Pads.  The unused low bits are zero.                    *)
(***************************************************************************)
RECURSIVE StdEncode(_)
StdEncode(b) ==
    IF b = <<>> THEN <<>>
    ELSE LET n   == IF Len(b) >= 3 THEN 3 ELSE Len(b)
             val == b[1] * 65536 + (IF n >= 2 THEN b[2] * 256 ELSE 0)
                                 + (IF n = 3 THEN b[3] ELSE 0)
         IN [k \in 1..4 |-> IF k <= n + 1 THEN Sextet(val, k - 1) ELSE Pad]
            \o StdEncode(SubSeq(b, n + 1, Len(b)))

\* the first position at or after si that is not '\r' or '\n'
RECURSIVE SkipNewlines(_, _)
SkipNewlines(src, si) ==
    IF si <= Len(src) /\ src[si] \in {NL, CR} THEN SkipNewlines(src, si + 1) ELSE si

\* the bytes of a quantum of dlen sextets (dbuf padded with zero sextets)
QuantumBytes(dbuf, dlen) ==
    LET d   == [k \in 1..4 |-> IF k <= Len(dbuf) THEN dbuf[k] ELSE 0]
        val == d[1] * 262144 + d[2] * 4096 + d[3] * 64 + d[4]
    IN [k \in 1..(dlen - 1) |-> (val \div (2^(8 * (3 - k)))) % 256]

Corrupt(si) == [si |-> si, out |-> <<>>, err |-> TRUE]

\* the quantum ended at position si with dlen sextets; a symbol left after
\* the padding and newlines is trailing garbage
EndQuantum(src, si, dbuf, dlen) ==
    [si |-> si, out |-> QuantumBytes(dbuf, dlen), err |-> si <= Len(src)]

(***************************************************************************)
(* Encoding.decodeQuantum from position si, with j sextets gathered in     *)
(* dbuf: a letter is gathered, '\r' and '\n' are skipped, the end of the   *)
(* input is only allowed before the first sextet, and Pad ends the quantum *)
(* after two ("==" expected) or three sextets.                             *)
(***************************************************************************)
RECURSIVE DecodeQuantum(_, _, _)
DecodeQuantum(src, si, dbuf) ==
    LET j == Len(dbuf) IN
    IF j = 4 THEN [si |-> si, out |-> QuantumBytes(dbuf, 4), err |-> FALSE]
    ELSE IF si > Len(src)
         THEN IF j = 0 THEN [si |-> si, out |-> <<>>, err |-> FALSE] ELSE Corrupt(si)
    ELSE IF src[si] < 64 THEN DecodeQuantum(src, si + 1, Append(dbuf, src[si]))
    ELSE IF src[si] \in {NL, CR} THEN DecodeQuantum(src, si + 1, dbuf)
    ELSE IF src[si] # Pad \/ j < 2 THEN Corrupt(si)
    ELSE IF j = 3 THEN EndQuantum(src, SkipNewlines(src, si + 1), dbuf, 3)
    ELSE LET s2 == SkipNewlines(src, si + 1) IN
         IF s2 > Len(src) \/ src[s2] # Pad THEN Corrupt(s2)
         ELSE EndQuantum(src, SkipNewlines(src, s2 + 1), dbuf, 2)

\* base64.StdEncoding.DecodeString: decode quanta until the input ends or
\* one of them fails
RECURSIVE DecodeFrom(_, _, _)
DecodeFrom(src, si, acc) ==
    IF si > Len(src) THEN [ok |-> TRUE, bytes |-> acc]
    ELSE LET q == DecodeQuantum(src, si, <<>>) IN
         IF q.err THEN [ok |-> FALSE, bytes |-> acc]
         ELSE DecodeFrom(src, q.si, acc \o q.out)

StdDecode(s) == DecodeFrom(s, 1, <<>>)

\* mutant: a text is accepted as soon as it decodes
isDecodableBase64(s) == StdDecode(s).ok

isCanonicalBase64(s) ==
    /\ StdDecode(s).ok
    /\ StdEncode(StdDecode(s).bytes) = s

constantTimeEqualBase64(a, b) ==
    /\ StdDecode(a).ok
    /\ StdDecode(b).ok
    /\ Len(StdDecode(a).bytes) = Len(StdDecode(b).bytes)
    /\ StdDecode(a).bytes = StdDecode(b).bytes

\* VerifyHookSignBase64 / VerifyMqEventSignBase64 once the expected MAC is
\* computed: reject "", reject a non-canonical text, compare decoded bytes
VerifySignText(mac, s) ==
    /\ s # <<>>
    /\ isCanonicalBase64(s)
    /\ constantTimeEqualBase64(StdEncode(mac), s)

Texts == UNION {[1..n -> Symbols] : n \in 0..MaxTextLen}

VARIABLES mac, text, verdict
vars == <<mac, text, verdict>>

Init ==
    /\ mac \in Macs
    /\ text \in Texts
    /\ verdict = "pending"

Verify ==
    /\ verdict = "pending"
    /\ verdict' = IF VerifySignText(mac, text) THEN "accept" ELSE "reject"
    /\ UNCHANGED <<mac, text>>

Next == Verify

Spec == Init /\ [][Next]_vars

\* the type of every state
TypeOK == mac \in Macs /\ text \in Texts /\ verdict \in {"pending", "accept", "reject"}

(***************************************************************************)
(* The verifier accepts a sign text exactly when it is the text            *)
(* EncodeToString gives for the expected MAC: no alias that Go's lenient   *)
(* decoder maps to the same bytes (a newline, non-zero unused bits,        *)
(* trailing newlines after the padding) gets through isCanonicalBase64     *)
(* and constantTimeEqualBase64, and the canonical text is never refused.   *)
(***************************************************************************)
GuardExact == verdict # "pending" => (verdict = "accept" <=> text = StdEncode(mac))

=============================================================================
