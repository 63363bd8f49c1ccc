----------------------------- MODULE SignText -----------------------------
(***************************************************************************)
(* The symbolic sign texts shared by the two signing domains of           *)
(* signing.go (hook requests and MQ events).  A MAC is the free term       *)
(* Mac(key, data): HMAC-SHA256 is assumed unforgeable and collision free. *)
(* A sign text is the MAC it decodes to and its form: "empty", "junk" (not *)
(* base64), "canonical" (the text EncodeToString gives) or "alias" (a text *)
(* Go's lenient decoder maps to the same bytes; Base64Guard shows at byte  *)
(* level that isCanonicalBase64 tells the two apart).                      *)
(***************************************************************************)
CONSTANT None       \* no value: the MAC of a text that is not a MAC

Mac(key, data) == [key |-> key, data |-> data]

\* sign texts that are not the encoding of a MAC: the empty string, and a
\* text base64.StdEncoding.DecodeString rejects
EmptySign == [form |-> "empty", mac |-> None]
Junk == [form |-> "junk", mac |-> None]

\* base64.StdEncoding.EncodeToString: always the canonical text
B64(mac) == [form |-> "canonical", mac |-> mac]

\* isCanonicalBase64: decodes and re-encodes to the same text
IsCanonicalBase64(s) == s.form \in {"empty", "canonical"}

\* constantTimeEqualBase64: both decode, and the decoded bytes are equal
ConstantTimeEqualBase64(a, b) ==
    /\ a # Junk /\ b # Junk
    /\ a.mac = b.mac

=============================================================================
