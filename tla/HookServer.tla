----------------------------- MODULE HookServer -----------------------------
(***************************************************************************)
(* The HTTP hook server of the Go SDK (server.go) together with the        *)
(* request signing rule it relies on (signing.go) and the request          *)
(* encoders that build the signing payload (wire.go).                      *)
(*                                                                         *)
(* The platform signs requests with the tenant secret and sends them; the  *)
(* network is controlled by an attacker who sees every signed request and  *)
(* may replay it to any route, change any field, strip, corrupt or         *)
(* re-encode its signature, or sign with the secrets it holds.  One step   *)
(* of the server is one whole call of the http.Handler built by            *)
(* NewHookServer: the shell checks, the decode, the tenant lookup, the     *)
(* signature gate and the business handler call.                           *)
(*                                                                         *)
(* Data abstraction.  A body is kept at field level, after decoding:       *)
(* unknown fields are skipped and repeated fields keep the last value      *)
(* (the byte-level codec is abstracted away), so a body is the meta        *)
(* record and the values of top-level fields 2 and 3.  A MAC is the free   *)
(* term Mac(key, data): HMAC-SHA256 is assumed unforgeable and collision   *)
(* free.  A base64 string is the MAC it decodes to plus whether it is the  *)
(* canonical StdEncoding text of it (the alias forms Go's lenient decoder  *)
(* also accepts, e.g. with a newline or non-zero trailing bits, are one    *)
(* symbolic form "alias").  trace_id is left out: it is one more signed   *)
(* string field of the meta and no property tells it apart.                *)
(***************************************************************************)
EXTENDS Naturals, Sequences, FiniteSets, SignText

CONSTANTS
    Tenants,        \* tenant ids other than the empty string
    Hosted,         \* tenants the platform sends signed requests for
    Keys,           \* tenant secrets
    NotFound,       \* TenantSecretLookup's ok = false
    Lookup,         \* options.TenantSecretLookup as a function
    AttackerKeys,   \* secrets the attacker holds
    RequireSign,    \* options.RequireSign
    Configured,     \* routes whose business handler is non-nil
    Values,         \* token / device id / group id / message bytes
    RequestIds,     \* meta.request_id values (non-empty)
    Timestamps,     \* meta.timestamp_ms values (non-zero)
    Malformed,      \* a body that does not protobuf-decode
    MaxSent         \* bound on the requests the platform signs

Routes == {"/auth", "/check-message", "/get-group-members"}
Paths == Routes \cup {"/other"}
Methods == {"POST", "GET"}
\* content types with the prefix "application/protobuf", and one without
ProtobufTypes == {"application/protobuf", "application/protobuf; charset=binary"}
ContentTypes == {""} \cup ProtobufTypes \cup {"text/plain"}
TenantIds == Tenants \cup {""}
\* the values of a string or bytes field; "" is the zero value
FieldValues == Values \cup {""}
\* the values of meta.request_id and meta.timestamp_ms, zero values included
RequestIdValues == RequestIds \cup {""}
TimestampValues == Timestamps \cup {0}

ASSUME LookupAssumption == Lookup \in [TenantIds -> Keys \cup {NotFound}]
ASSUME KeysAssumption == NotFound \notin Keys /\ AttackerKeys \subseteq Keys
ASSUME RequireSignAssumption == RequireSign \in BOOLEAN
ASSUME HostedAssumption == Hosted \subseteq Tenants /\ \A t \in Hosted : Lookup[t] \in Keys
ASSUME ConfiguredAssumption == Configured \subseteq Routes
ASSUME ValuesAssumption == "" \notin Values
ASSUME MaxSentAssumption == MaxSent \in Nat

(***************************************************************************)
(* Request signatures: ComputeHookSignBase64 and VerifyHookSignBase64.     *)
(***************************************************************************)
\* HMAC(secret, payload || request_id || timestamp as 8 LE bytes)
ComputeHookSignBase64(secret, payload, rid, ts) == B64(Mac(secret, <<payload, rid, ts>>))

VerifyHookSignBase64(secret, payload, rid, ts, s) ==
    /\ s # EmptySign
    /\ IsCanonicalBase64(s)
    /\ ConstantTimeEqualBase64(ComputeHookSignBase64(secret, payload, rid, ts), s)

(***************************************************************************)
(* The request encoders at field level.  An encoded message is the         *)
(* function from the field numbers written to their values: a field is     *)
(* written only when it is not the zero value of its type, and always in   *)
(* ascending field-number order, so the function fixes the bytes.  Meta   *)
(* is always written as field 1, even when empty.                          *)
(***************************************************************************)
AppendHookMeta(meta) ==
    LET vals  == <<meta.tenant, meta.rid, meta.ts, meta.sign>>
        zeros == <<"", "", 0, EmptySign>>
    IN [n \in {k \in 1..4 : vals[k] # zeros[k]} |-> vals[n]]

\* a message of the given schema (its field numbers other than meta's 1)
\* with field values vals: meta is always written, the others when not ""
EncodeFields(vals, schema) == [n \in {1} \cup {k \in schema : vals[k] # ""} |-> vals[n]]

EncodeAuthRequest(req) ==
    EncodeFields(<<AppendHookMeta(req.meta), req.f2, req.f3>>, {2, 3})

\* CheckMessageRequest (message = 2) and GetGroupMembersRequest (group_id = 2)
\* have the same field layout
EncodeMetaAndField2(req) ==
    EncodeFields(<<AppendHookMeta(req.meta), req.f2, req.f3>>, {2})

EncodeRequest(route, req) ==
    IF route = "/auth" THEN EncodeAuthRequest(req) ELSE EncodeMetaAndField2(req)

\* Decode<Route>Request on the body: field 3 is an unknown field, and
\* skipped, for the two routes whose schema has no field 3
DecodeRequest(route, body) ==
    IF route = "/auth" THEN body ELSE [body EXCEPT !.f3 = ""]

ClearSign(meta) == [meta EXCEPT !.sign = EmptySign]

\* mutant: handleAuth rebuilds the request without its device_id
PayloadForSignWithoutDeviceId(route, req) ==
    EncodeRequest(route, [req EXCEPT !.meta = ClearSign(req.meta), !.f3 = ""])

\* the signing payload each handler rebuilds: the request re-encoded with
\* meta.sign cleared
PayloadForSign(route, req) ==
    EncodeRequest(route, [req EXCEPT !.meta = ClearSign(req.meta)])

\* mutant: a signature is only checked when signatures are required
verifyHookOrRejectOnlyWhenRequired(requireSign, secret, meta, payload) ==
    IF requireSign /\ meta.sign = EmptySign THEN FALSE
    ELSE IF ~requireSign THEN TRUE
    ELSE VerifyHookSignBase64(secret, payload, meta.rid, meta.ts, meta.sign)

verifyHookOrReject(requireSign, secret, meta, payload) ==
    IF requireSign /\ meta.sign = EmptySign THEN FALSE
    ELSE IF meta.sign = EmptySign THEN TRUE
    ELSE VerifyHookSignBase64(secret, payload, meta.rid, meta.ts, meta.sign)

(***************************************************************************)
(* State.                                                                  *)
(*   sent      : the requests the platform has signed and sent, with the   *)
(*               route it sent them to;                                    *)
(*   last      : what the server did with the last request it served: the  *)
(*               HTTP status, the decoded request, whether the business    *)
(*               handler was called and whether the response grants        *)
(*               (AuthResponse.Ok, CheckMessageResponse.Allow, a non-empty *)
(*               member list), and its reason text.                        *)
(***************************************************************************)
VARIABLES sent, last
vars == <<sent, last>>

\* the values a sign text can take: none, a text that does not decode, or
\* the canonical or an alias text of a MAC over a signing payload
UnsignedMeta == [tenant: TenantIds, rid: RequestIdValues, ts: TimestampValues, sign: {EmptySign}]
EncodedRequest(route, meta, f2, f3) == EncodeRequest(route, [meta |-> meta, f2 |-> f2, f3 |-> f3])
Payloads == {EncodedRequest(r, m, a, b) :
               r \in Routes, m \in UnsignedMeta, a \in FieldValues, b \in FieldValues}
Macs == [key: Keys, data: Payloads \X RequestIdValues \X TimestampValues]
SignTexts == {EmptySign, Junk} \cup [form: {"canonical", "alias"}, mac: Macs]

Meta == [tenant: TenantIds, rid: RequestIdValues, ts: TimestampValues, sign: SignTexts]

\* The request with its signature text removed: what the signature covers
Unsigned(route, req) == [route |-> route, meta |-> ClearSign(req.meta), f2 |-> req.f2, f3 |-> req.f3]

\* what the attacker has seen: every signature the platform sent
KnownMacs == {s.body.meta.sign.mac : s \in sent}

\* sign texts the attacker can put on a body with unsigned part (meta, f2, f3):
\* none, garbage, or any text (canonical or an alias) of a MAC it has seen
\* or can compute with a secret it holds, over that body at any route
ForgeableSigns(meta, f2, f3) ==
    LET own == {Mac(k, <<PayloadForSign(r, [meta |-> meta, f2 |-> f2, f3 |-> f3]), meta.rid, meta.ts>>) :
                   k \in AttackerKeys, r \in Routes}
    IN {EmptySign, Junk} \cup [form: {"canonical", "alias"}, mac: KnownMacs \cup own]

\* every body the network can deliver
Deliverable ==
    {Malformed} \cup
    UNION { {[meta |-> [tenant |-> t, rid |-> r, ts |-> x, sign |-> sg], f2 |-> a, f3 |-> b] :
               sg \in ForgeableSigns([tenant |-> t, rid |-> r, ts |-> x, sign |-> EmptySign], a, b)} :
            t \in TenantIds, r \in RequestIds, x \in Timestamps,
            a \in FieldValues, b \in FieldValues }

Reply(code, route, req, called, grant, reason) ==
    [code |-> code, route |-> route, req |-> req, called |-> called,
     grant |-> grant, reason |-> reason]

\* a reject answered with a response message: Auth and CheckMessage carry
\* the reason, GetGroupMembersResponse has no reason field
RejectReason(route, reason) == IF route = "/get-group-members" THEN "" ELSE reason

Init ==
    /\ sent = {}
    /\ last = Reply(0, "/other", None, FALSE, FALSE, "")

(***************************************************************************)
(* The platform signs a request for a tenant it holds the secret of, as in *)
(* the SDK test: sign = ComputeHookSignBase64(secret, Encode(req with      *)
(* sign cleared), request_id, timestamp_ms).  A request only has the       *)
(* fields of its route's schema.                                           *)
(***************************************************************************)
\* mutant: the platform signs the request without its device_id
SignedRequestWithoutDeviceId(route, t, rid, ts, f2, f3) ==
    LET req  == [meta |-> [tenant |-> t, rid |-> rid, ts |-> ts, sign |-> EmptySign],
                 f2 |-> f2, f3 |-> ""]
        sign == ComputeHookSignBase64(Lookup[t], EncodeRequest(route, req), rid, ts)
    IN [route |-> route,
        body |-> [meta |-> [tenant |-> t, rid |-> rid, ts |-> ts, sign |-> sign],
                  f2 |-> f2, f3 |-> f3]]

SignedRequest(route, t, rid, ts, f2, f3) ==
    LET req  == [meta |-> [tenant |-> t, rid |-> rid, ts |-> ts, sign |-> EmptySign],
                 f2 |-> f2, f3 |-> f3]
        sign == ComputeHookSignBase64(Lookup[t], EncodeRequest(route, req), rid, ts)
    IN [route |-> route,
        body |-> [meta |-> [tenant |-> t, rid |-> rid, ts |-> ts, sign |-> sign],
                  f2 |-> f2, f3 |-> f3]]

PlatformSend(route, t, rid, ts, f2, f3) ==
    /\ Cardinality(sent) < MaxSent
    /\ route # "/auth" => f3 = ""
    /\ sent' = sent \cup {SignedRequest(route, t, rid, ts, f2, f3)}
    /\ UNCHANGED last

(***************************************************************************)
(* NewHookServer's handler, up to the route dispatch: a request that the   *)
(* shell answers itself (wrong method, content type, unreadable body,      *)
(* unknown path).                                                          *)
(***************************************************************************)
ServeShell(method, ct, readErr, path) ==
    /\ \/ method # "POST"
       \/ ct \notin {""} \cup ProtobufTypes
       \/ readErr
       \/ path \notin Routes
    /\ last' = Reply(CASE method # "POST" -> 405
                       [] ct \notin {""} \cup ProtobufTypes -> 415
                       [] readErr -> 400
                       [] OTHER -> 404, path, None, FALSE, FALSE, "")
    /\ UNCHANGED sent

(***************************************************************************)
(* handleAuth / handleCheckMessage / handleGetGroupMembers on a POST with  *)
(* an accepted content type and a readable body.                           *)
(***************************************************************************)
HandleRoute(route, body) ==
    \/ /\ body = Malformed
       /\ last' = Reply(400, route, None, FALSE, FALSE, "")
       /\ UNCHANGED sent
    \/ /\ body # Malformed
       /\ LET req    == DecodeRequest(route, body)
              secret == Lookup[req.meta.tenant]
              known  == secret # NotFound /\ req.meta.tenant # ""
              signOK == verifyHookOrReject(RequireSign, secret, req.meta, PayloadForSign(route, req))
          IN \/ /\ ~known
                /\ last' = Reply(200, route, req, FALSE, FALSE, RejectReason(route, "unknown tenant"))
                /\ UNCHANGED sent
             \/ /\ known /\ ~signOK
                /\ last' = Reply(200, route, req, FALSE, FALSE, RejectReason(route, "invalid sign"))
                /\ UNCHANGED sent
             \* a nil CheckMessage handler allows, the other two deny
             \/ /\ known /\ signOK /\ route \notin Configured
                /\ last' = Reply(200, route, req, FALSE, route = "/check-message",
                                 IF route = "/auth" THEN "auth handler not configured" ELSE "")
                /\ UNCHANGED sent
             \/ /\ known /\ signOK /\ route \in Configured
                /\ \E handlerErr, granted \in BOOLEAN :
                      last' = Reply(200, route, req, TRUE, ~handlerErr /\ granted,
                                    IF handlerErr THEN RejectReason(route, "handler error") ELSE "")
                /\ UNCHANGED sent

Next ==
    \/ \E route \in Routes, t \in Hosted, rid \in RequestIds, ts \in Timestamps,
          f2 \in FieldValues, f3 \in FieldValues :
          PlatformSend(route, t, rid, ts, f2, f3)
    \/ \E method \in Methods, ct \in ContentTypes, readErr \in BOOLEAN, path \in Paths :
          ServeShell(method, ct, readErr, path)
    \/ \E route \in Routes, body \in Deliverable : HandleRoute(route, body)

Spec == Init /\ [][Next]_vars

(***************************************************************************)
(* Properties.                                                             *)
(***************************************************************************)
Requests == [meta: Meta, f2: FieldValues, f3: FieldValues]
SentRequests == [route: Routes, body: Requests]

\* the type of every state: what was sent, and the last response
TypeOK ==
    /\ sent \subseteq SentRequests
    /\ last.code \in {0, 200, 400, 404, 405, 415}
    /\ last.route \in Paths
    /\ last.req \in Requests \cup {None}
    /\ last.called \in BOOLEAN /\ last.grant \in BOOLEAN

\* the request was signed by the platform: decoding a body the platform
\* signed, at the route it was served on, gives it (sign text aside)
FromPlatform(route, req) ==
    \E s \in sent : Unsigned(route, DecodeRequest(route, s.body)) = Unsigned(route, req)

(***************************************************************************)
(* Every request that reaches a business handler, or is granted (Auth ok,  *)
(* CheckMessage allow, a member list), comes from a known tenant, and, if  *)
(* signatures are required or the request carries one, its content was    *)
(* signed by the platform for that tenant (or by a holder of that          *)
(* tenant's secret): the attacker cannot splice, alter or re-target signed *)
(* content through handleAuth / handleCheckMessage / handleGetGroupMembers *)
(* and verifyHookOrReject.                                                 *)
(***************************************************************************)
SignedRequestsAuthentic ==
    (last.called \/ last.grant) =>
        /\ last.req.meta.tenant \in Tenants
        /\ Lookup[last.req.meta.tenant] \in Keys
        /\ (RequireSign \/ last.req.meta.sign # EmptySign) =>
              \/ Lookup[last.req.meta.tenant] \in AttackerKeys
              \/ FromPlatform(last.route, last.req)


(***************************************************************************)
(* A signed request reaches a business handler only on the route the       *)
(* platform signed it for.  The signing payload of handleAuth,             *)
(* handleCheckMessage and handleGetGroupMembers does not say which route   *)
(* it was built for, and the three schemas share the layout of fields 1    *)
(* and 2, so this fails: see the route_confusion run.                      *)
(***************************************************************************)
SignedForRoute ==
    (last.called \/ last.grant) /\ last.req.meta.sign # EmptySign
        /\ Lookup[last.req.meta.tenant] \notin AttackerKeys =>
            \E s \in sent : s.route = last.route /\ FromPlatform(last.route, last.req)

=============================================================================
