-------------------------- MODULE HookServerProofs --------------------------
(***************************************************************************)
(* Proofs about HookServer for every value of its constants.              *)
(***************************************************************************)
EXTENDS HookServer, TLAPS

Auth == "/auth"

\* the request has no field 3 unless it is an AuthRequest
NoField3(route, f3) == route # Auth => f3 = ""

\* field 3 of the request Decode<Route>Request returns
F3(route, f3) == IF route = Auth THEN f3 ELSE ""

(***************************************************************************)
(* The field-level encoding of a meta with its sign cleared determines the *)
(* meta: a field is absent exactly when its value is the zero value.       *)
(***************************************************************************)
LEMMA MetaEncodingInjective ==
    ASSUME NEW m1 \in UnsignedMeta, NEW m2 \in UnsignedMeta,
           AppendHookMeta(m1) = AppendHookMeta(m2)
    PROVE  m1 = m2
<1> DEFINE v1 == <<m1.tenant, m1.rid, m1.ts, m1.sign>>
           v2 == <<m2.tenant, m2.rid, m2.ts, m2.sign>>
           z  == <<"", "", 0, EmptySign>>
           D1 == {k \in 1..4 : v1[k] # z[k]}
           D2 == {k \in 1..4 : v2[k] # z[k]}
<1>1. [n \in D1 |-> v1[n]] = [n \in D2 |-> v2[n]]
  BY DEF AppendHookMeta
<1>2. D1 = D2 /\ \A n \in D1 : v1[n] = v2[n]
  BY <1>1, Zenon
<1>3. \A k \in 1..4 : v1[k] = v2[k]
  BY <1>2
<1>4. m1.tenant = m2.tenant /\ m1.rid = m2.rid /\ m1.ts = m2.ts /\ m1.sign = m2.sign
  <2>1. v1[1] = v2[1] /\ v1[2] = v2[2] /\ v1[3] = v2[3] /\ v1[4] = v2[4]
    BY <1>3
  <2>. QED
    BY <2>1 DEF v1, v2
<1>5. /\ m1 = [tenant |-> m1.tenant, rid |-> m1.rid, ts |-> m1.ts, sign |-> m1.sign]
      /\ m2 = [tenant |-> m2.tenant, rid |-> m2.rid, ts |-> m2.ts, sign |-> m2.sign]
  BY DEF UnsignedMeta
<1>. QED
  BY <1>4, <1>5


\* the three request encoders as one: field 3 is empty for the routes
\* whose schema has no field 3
LEMMA EncodeRequestUniform ==
    ASSUME NEW r \in Routes, NEW m, NEW a, NEW b,
           r # Auth => b = ""
    PROVE  EncodeRequest(r, [meta |-> m, f2 |-> a, f3 |-> b])
             = EncodeFields(<<AppendHookMeta(m), a, b>>, {2, 3})
<1> DEFINE v == <<AppendHookMeta(m), a, b>>
<1>1. CASE r = Auth
  BY <1>1 DEF EncodeRequest, EncodeAuthRequest, Auth
<1>2. CASE r # Auth
  <2>1. v[3] = ""
    BY <1>2
  <2>2. {k \in {2, 3} : v[k] # ""} = {k \in {2} : v[k] # ""}
    BY <2>1
  <2>3. EncodeRequest(r, [meta |-> m, f2 |-> a, f3 |-> b]) = EncodeFields(v, {2})
    BY <1>2 DEF EncodeRequest, EncodeMetaAndField2, Auth
  <2>. QED
    BY <2>2, <2>3 DEF EncodeFields
<1>. QED
  BY <1>1, <1>2

(***************************************************************************)
(* The field-level encoding of an unsigned request determines it.         *)
(***************************************************************************)
LEMMA FieldsDetermineRequest ==
    ASSUME NEW m1 \in UnsignedMeta, NEW m2 \in UnsignedMeta,
           NEW a1 \in FieldValues, NEW b1 \in FieldValues,
           NEW a2 \in FieldValues, NEW b2 \in FieldValues,
           EncodeFields(<<AppendHookMeta(m1), a1, b1>>, {2, 3})
             = EncodeFields(<<AppendHookMeta(m2), a2, b2>>, {2, 3})
    PROVE  m1 = m2 /\ a1 = a2 /\ b1 = b2
<1> DEFINE v1 == <<AppendHookMeta(m1), a1, b1>>
           v2 == <<AppendHookMeta(m2), a2, b2>>
           D1 == {1} \cup {k \in {2, 3} : v1[k] # ""}
           D2 == {1} \cup {k \in {2, 3} : v2[k] # ""}
<1>1. [n \in D1 |-> v1[n]] = [n \in D2 |-> v2[n]]
  BY DEF EncodeFields
<1>2. D1 = D2 /\ \A n \in D1 : v1[n] = v2[n]
  BY <1>1, Zenon
<1>3. AppendHookMeta(m1) = AppendHookMeta(m2)
  BY <1>2
<1>4. a1 = a2 /\ b1 = b2
  BY <1>2
<1>. QED
  BY <1>3, <1>4, MetaEncodingInjective

\* FieldsDetermineRequest as a predicate, so that it is instantiated whole
FieldsDetermine(m1, a1, b1, m2, a2, b2) ==
    EncodeFields(<<AppendHookMeta(m1), a1, b1>>, {2, 3})
      = EncodeFields(<<AppendHookMeta(m2), a2, b2>>, {2, 3})
      => m1 = m2 /\ a1 = a2 /\ b1 = b2

LEMMA FieldsDetermineAll ==
    \A m1, m2 \in UnsignedMeta, a1, b1, a2, b2 \in FieldValues :
        FieldsDetermine(m1, a1, b1, m2, a2, b2)
BY FieldsDetermineRequest DEF FieldsDetermine

\* EncodeRequestUniform as a predicate, so that it is instantiated whole
EncodesUniformly(r, m, a, b) ==
    NoField3(r, b) =>
        EncodeRequest(r, [meta |-> m, f2 |-> a, f3 |-> b])
          = EncodeFields(<<AppendHookMeta(m), a, b>>, {2, 3})

LEMMA EncodesUniformlyAll ==
    \A r \in Routes : \A m, a, b : EncodesUniformly(r, m, a, b)
BY EncodeRequestUniform DEF EncodesUniformly, NoField3

(***************************************************************************)
(* The signing payload determines the request it was built from, whatever  *)
(* route built it: meta, field 2 and field 3 all come back.                *)
(***************************************************************************)
\* the statement, as a predicate that is instantiated whole
PayloadDetermines(r1, m1, a1, b1, r2, m2, a2, b2) ==
    ( /\ NoField3(r1, b1)
      /\ NoField3(r2, b2)
      /\ EncodeRequest(r1, [meta |-> m1, f2 |-> a1, f3 |-> b1])
           = EncodeRequest(r2, [meta |-> m2, f2 |-> a2, f3 |-> b2]) )
    => m1 = m2 /\ a1 = a2 /\ b1 = b2

LEMMA PayloadDeterminesRequest ==
    \A r1, r2 \in Routes, m1, m2 \in UnsignedMeta, a1, b1, a2, b2 \in FieldValues :
        PayloadDetermines(r1, m1, a1, b1, r2, m2, a2, b2)
<1> SUFFICES ASSUME NEW r1 \in Routes, NEW r2 \in Routes,
                    NEW m1 \in UnsignedMeta, NEW m2 \in UnsignedMeta,
                    NEW a1 \in FieldValues, NEW b1 \in FieldValues,
                    NEW a2 \in FieldValues, NEW b2 \in FieldValues
             PROVE  PayloadDetermines(r1, m1, a1, b1, r2, m2, a2, b2)
  OBVIOUS
<1> USE DEF PayloadDetermines
<1> HAVE /\ NoField3(r1, b1)
         /\ NoField3(r2, b2)
         /\ EncodeRequest(r1, [meta |-> m1, f2 |-> a1, f3 |-> b1])
              = EncodeRequest(r2, [meta |-> m2, f2 |-> a2, f3 |-> b2])
<1>1. EncodesUniformly(r1, m1, a1, b1) /\ EncodesUniformly(r2, m2, a2, b2)
  BY EncodesUniformlyAll
<1>2. EncodeRequest(r1, [meta |-> m1, f2 |-> a1, f3 |-> b1])
        = EncodeFields(<<AppendHookMeta(m1), a1, b1>>, {2, 3})
  BY <1>1 DEF EncodesUniformly
<1>3. EncodeRequest(r2, [meta |-> m2, f2 |-> a2, f3 |-> b2])
        = EncodeFields(<<AppendHookMeta(m2), a2, b2>>, {2, 3})
  BY <1>1 DEF EncodesUniformly
<1>4. EncodeFields(<<AppendHookMeta(m1), a1, b1>>, {2, 3})
        = EncodeFields(<<AppendHookMeta(m2), a2, b2>>, {2, 3})
  BY <1>2, <1>3
<1>5. FieldsDetermine(m1, a1, b1, m2, a2, b2)
  BY FieldsDetermineAll
<1>. QED
  BY <1>4, <1>5 DEF FieldsDetermine

(***************************************************************************)
(* The inductive invariant.  SignedRequestsAuthentic is not inductive by   *)
(* itself: a step of HandleRoute accepts a signature the attacker took     *)
(* from sent, and that signature must be one the platform computed with    *)
(* SignedRequest.  SentInv says so: every request in sent is signed with   *)
(* its tenant's secret over the encoding of its own fields.                *)
(***************************************************************************)
SentBy(s, route, t, rid, ts, f2, f3) ==
    /\ NoField3(route, f3)
    /\ s = SignedRequest(route, t, rid, ts, f2, f3)

SentInv ==
    \A s \in sent : \E route \in Routes, t \in Hosted, rid \in RequestIds, ts \in Timestamps,
                       f2 \in FieldValues, f3 \in FieldValues :
                         SentBy(s, route, t, rid, ts, f2, f3)

IInv == TypeOK /\ SentInv /\ SignedRequestsAuthentic

\* an encoded request of any route is a signing payload
LEMMA PayloadsMember ==
    \A r \in Routes, m \in UnsignedMeta, a, b \in FieldValues :
        EncodedRequest(r, m, a, b) \in Payloads
BY DEF Payloads

\* what the platform sends is well typed
LEMMA SignedRequestType ==
    \A route \in Routes, t \in Hosted, rid \in RequestIds, ts \in Timestamps,
       f2, f3 \in FieldValues :
        SignedRequest(route, t, rid, ts, f2, f3) \in SentRequests
<1> SUFFICES ASSUME NEW route \in Routes, NEW t \in Hosted, NEW rid \in RequestIds,
                    NEW ts \in Timestamps, NEW f2 \in FieldValues, NEW f3 \in FieldValues
             PROVE  SignedRequest(route, t, rid, ts, f2, f3) \in SentRequests
  OBVIOUS
<1> DEFINE m0 == [tenant |-> t, rid |-> rid, ts |-> ts, sign |-> EmptySign]
           pl == EncodeRequest(route, [meta |-> m0, f2 |-> f2, f3 |-> f3])
<1>1. m0 \in UnsignedMeta
  BY HostedAssumption DEF UnsignedMeta, TenantIds, RequestIdValues, TimestampValues
<1>2. pl \in Payloads
  <2>1. EncodedRequest(route, m0, f2, f3) \in Payloads
    BY <1>1, PayloadsMember
  <2>. QED
    BY <2>1 DEF EncodedRequest
<1>3. Mac(Lookup[t], <<pl, rid, ts>>) \in Macs
  BY <1>2, HostedAssumption DEF Macs, Mac, RequestIdValues, TimestampValues
<1>4. ComputeHookSignBase64(Lookup[t], pl, rid, ts) \in SignTexts
  BY <1>3 DEF ComputeHookSignBase64, B64, SignTexts
<1>5. [tenant |-> t, rid |-> rid, ts |-> ts,
       sign |-> ComputeHookSignBase64(Lookup[t], pl, rid, ts)] \in Meta
  BY <1>4, HostedAssumption DEF Meta, TenantIds, RequestIdValues, TimestampValues
<1>. QED
  BY <1>5 DEF SignedRequest, SentRequests, Requests

(***************************************************************************)
(* The gate.  A body the network delivers is a meta, two field values and *)
(* a sign text the attacker can produce; when the tenant is known and     *)
(* verifyHookOrReject passes, the decoded request is authentic.           *)
(***************************************************************************)
UMeta(t, r, x) == [tenant |-> t, rid |-> r, ts |-> x, sign |-> EmptySign]
BodyOf(t, r, x, sg, a, b) ==
    [meta |-> [tenant |-> t, rid |-> r, ts |-> x, sign |-> sg], f2 |-> a, f3 |-> b]

\* what SignedRequestsAuthentic asks of the request served at a route
AuthenticAt(route, req) ==
    /\ req.meta.tenant \in Tenants
    /\ Lookup[req.meta.tenant] \in Keys
    /\ (RequireSign \/ req.meta.sign # EmptySign) =>
          \/ Lookup[req.meta.tenant] \in AttackerKeys
          \/ FromPlatform(route, req)

\* what the decoders return for a delivered body
LEMMA DecodeBody ==
    \A route \in Routes : \A t, r, x, sg, a, b :
        DecodeRequest(route, BodyOf(t, r, x, sg, a, b))
          = [meta |-> [tenant |-> t, rid |-> r, ts |-> x, sign |-> sg], f2 |-> a, f3 |-> F3(route, b)]
<1> TAKE route \in Routes
<1> TAKE t, r, x, sg, a, b
<1>1. CASE route = Auth
  BY <1>1 DEF DecodeRequest, BodyOf, F3, Auth
<1>2. CASE route # Auth
  BY <1>2 DEF DecodeRequest, BodyOf, F3, Auth
<1>. QED
  BY <1>1, <1>2

LEMMA F3Facts ==
    \A route \in Routes, b \in FieldValues :
        /\ F3(route, b) \in FieldValues
        /\ NoField3(route, F3(route, b))
        /\ F3(route, F3(route, b)) = F3(route, b)
BY DEF F3, NoField3, FieldValues

LEMMA UMetaType ==
    \A t \in TenantIds, r \in RequestIds, x \in Timestamps : UMeta(t, r, x) \in UnsignedMeta
BY DEF UMeta, UnsignedMeta, RequestIdValues, TimestampValues

\* the payload a handler rebuilds does not depend on the sign text
LEMMA PayloadOfRequest ==
    \A route, t, r, x, sg, a, c :
        PayloadForSign(route, [meta |-> [tenant |-> t, rid |-> r, ts |-> x, sign |-> sg], f2 |-> a, f3 |-> c])
          = EncodeRequest(route, [meta |-> UMeta(t, r, x), f2 |-> a, f3 |-> c])
BY DEF PayloadForSign, ClearSign, UMeta

LEMMA UnsignedOfRequest ==
    \A route, t, r, x, sg, a, c :
        Unsigned(route, [meta |-> [tenant |-> t, rid |-> r, ts |-> x, sign |-> sg], f2 |-> a, f3 |-> c])
          = [route |-> route, meta |-> UMeta(t, r, x), f2 |-> a, f3 |-> c]
BY DEF Unsigned, ClearSign, UMeta

\* the gate of handleAuth / handleCheckMessage / handleGetGroupMembers
GateReq(route, t, r, x, sg, a, b) == DecodeRequest(route, BodyOf(t, r, x, sg, a, b))
\* the tenant check of the handlers
Known(t) == Lookup[t] # NotFound /\ t # ""

Gate(route, t, r, x, sg, a, b) ==
    ( /\ Known(t)
      /\ verifyHookOrReject(RequireSign, Lookup[t], GateReq(route, t, r, x, sg, a, b).meta,
                            PayloadForSign(route, GateReq(route, t, r, x, sg, a, b))) )
    => AuthenticAt(route, GateReq(route, t, r, x, sg, a, b))

LEMMA GateSound ==
    SentInv =>
      \A route \in Routes, t \in TenantIds, r \in RequestIds, x \in Timestamps,
         a, b \in FieldValues :
        \A sg \in ForgeableSigns(UMeta(t, r, x), a, b) : Gate(route, t, r, x, sg, a, b)
<1> SUFFICES ASSUME SentInv,
                    NEW route \in Routes, NEW t \in TenantIds, NEW r \in RequestIds,
                    NEW x \in Timestamps, NEW a \in FieldValues, NEW b \in FieldValues,
                    NEW sg \in ForgeableSigns(UMeta(t, r, x), a, b)
             PROVE  Gate(route, t, r, x, sg, a, b)
  OBVIOUS
<1> DEFINE m0     == UMeta(t, r, x)
           bp     == F3(route, b)
           req    == GateReq(route, t, r, x, sg, a, b)
           secret == Lookup[t]
<1> USE DEF Gate
<1> HAVE /\ Known(t)
         /\ verifyHookOrReject(RequireSign, secret, req.meta, PayloadForSign(route, req))
<1>1. req = [meta |-> [tenant |-> t, rid |-> r, ts |-> x, sign |-> sg], f2 |-> a, f3 |-> bp]
  BY DecodeBody DEF GateReq, req, bp
<1>2. PayloadForSign(route, req) = EncodeRequest(route, [meta |-> m0, f2 |-> a, f3 |-> bp])
  BY <1>1, PayloadOfRequest DEF m0
<1>3. Unsigned(route, req) = [route |-> route, meta |-> m0, f2 |-> a, f3 |-> bp]
  BY <1>1, UnsignedOfRequest DEF m0
<1>4. t \in Tenants /\ secret \in Keys
  BY LookupAssumption DEF Known, TenantIds
<1>5. SUFFICES ASSUME RequireSign \/ sg # EmptySign
              PROVE  secret \in AttackerKeys \/ FromPlatform(route, req)
  BY <1>1, <1>4 DEF AuthenticAt
<1>6. /\ sg # EmptySign /\ sg # Junk
      /\ sg.mac = Mac(secret, <<PayloadForSign(route, req), r, x>>)
  BY <1>1, <1>5, RequireSignAssumption
     DEF verifyHookOrReject, VerifyHookSignBase64, ConstantTimeEqualBase64, ComputeHookSignBase64, B64
<1>7. \/ sg.mac \in KnownMacs
      \/ \E k \in AttackerKeys, r2 \in Routes :
            sg.mac = Mac(k, <<PayloadForSign(r2, [meta |-> m0, f2 |-> a, f3 |-> b]), m0.rid, m0.ts>>)
  BY <1>6 DEF ForgeableSigns, m0
<1>8. CASE \E k \in AttackerKeys, r2 \in Routes :
             sg.mac = Mac(k, <<PayloadForSign(r2, [meta |-> m0, f2 |-> a, f3 |-> b]), m0.rid, m0.ts>>)
  BY <1>6, <1>8 DEF Mac
<1>9. CASE sg.mac \in KnownMacs
  <2>1. PICK s \in sent : s.body.meta.sign.mac = sg.mac
    BY <1>9 DEF KnownMacs
  <2>2. PICK route0 \in Routes, t0 \in Hosted, rid0 \in RequestIds, ts0 \in Timestamps,
             g2 \in FieldValues, g3 \in FieldValues :
               SentBy(s, route0, t0, rid0, ts0, g2, g3)
    BY DEF SentInv
  <2> DEFINE m1 == UMeta(t0, rid0, ts0)
  <2>3. /\ s.body = BodyOf(t0, rid0, ts0, s.body.meta.sign, g2, g3)
        /\ s.body.meta.sign.mac
             = Mac(Lookup[t0], <<EncodeRequest(route0, [meta |-> m1, f2 |-> g2, f3 |-> g3]), rid0, ts0>>)
    BY <2>2 DEF SentBy, SignedRequest, ComputeHookSignBase64, B64, BodyOf, UMeta, m1
  <2>4. EncodeRequest(route0, [meta |-> m1, f2 |-> g2, f3 |-> g3])
          = EncodeRequest(route, [meta |-> m0, f2 |-> a, f3 |-> bp])
    <3> DEFINE e0 == EncodeRequest(route0, [meta |-> m1, f2 |-> g2, f3 |-> g3])
    <3>1. Mac(secret, <<PayloadForSign(route, req), r, x>>) = Mac(Lookup[t0], <<e0, rid0, ts0>>)
      BY <2>1, <2>3, <1>6 DEF e0
    <3>2. <<PayloadForSign(route, req), r, x>> = <<e0, rid0, ts0>>
      BY <3>1 DEF Mac
    <3>3. PayloadForSign(route, req) = e0
      BY <3>2
    <3>. QED
      BY <3>3, <1>2 DEF e0
  <2>5. m1 \in UnsignedMeta /\ m0 \in UnsignedMeta
    BY UMetaType, HostedAssumption DEF m0, m1, TenantIds
  <2>6. bp \in FieldValues /\ NoField3(route, bp) /\ F3(route, bp) = bp
    BY F3Facts DEF bp
  <2>7. PayloadDetermines(route0, m1, g2, g3, route, m0, a, bp)
    BY <2>5, <2>6, PayloadDeterminesRequest
  <2>8. m1 = m0 /\ g2 = a /\ g3 = bp
    BY <2>2, <2>4, <2>6, <2>7 DEF PayloadDetermines, SentBy
  <2>9. DecodeRequest(route, s.body)
          = [meta |-> [tenant |-> t0, rid |-> rid0, ts |-> ts0, sign |-> s.body.meta.sign],
             f2 |-> g2, f3 |-> F3(route, g3)]
    BY <2>3, DecodeBody
  <2>10. Unsigned(route, DecodeRequest(route, s.body)) = [route |-> route, meta |-> m1, f2 |-> g2, f3 |-> F3(route, g3)]
    BY <2>9, UnsignedOfRequest DEF m1
  <2>. QED
    BY <2>10, <2>8, <2>6, <1>3 DEF FromPlatform
<1>. QED
  BY <1>7, <1>8, <1>9


(***************************************************************************)
(* Types of what the network delivers.                                    *)
(***************************************************************************)
LEMMA DeliverableShape ==
    \A body \in Deliverable : body # Malformed =>
        \E t \in TenantIds, r \in RequestIds, x \in Timestamps, a \in FieldValues, b \in FieldValues :
           \E sg \in ForgeableSigns(UMeta(t, r, x), a, b) : body = BodyOf(t, r, x, sg, a, b)
<1> TAKE body \in Deliverable
<1> HAVE body # Malformed
<1>1. PICK t \in TenantIds, r \in RequestIds, x \in Timestamps, a \in FieldValues, b \in FieldValues :
         body \in {[meta |-> [tenant |-> t, rid |-> r, ts |-> x, sign |-> sg], f2 |-> a, f3 |-> b] :
                     sg \in ForgeableSigns([tenant |-> t, rid |-> r, ts |-> x, sign |-> EmptySign], a, b)}
  BY DEF Deliverable
<1>2. PICK sg \in ForgeableSigns([tenant |-> t, rid |-> r, ts |-> x, sign |-> EmptySign], a, b) :
         body = [meta |-> [tenant |-> t, rid |-> r, ts |-> x, sign |-> sg], f2 |-> a, f3 |-> b]
  BY <1>1
<1>3. UMeta(t, r, x) = [tenant |-> t, rid |-> r, ts |-> x, sign |-> EmptySign]
  BY DEF UMeta
<1>. QED
  BY <1>2, <1>3 DEF BodyOf

\* a MAC the attacker computes with a secret of its own
OwnMac(k, r2, t, r, x, a, b) ==
    Mac(k, <<PayloadForSign(r2, [meta |-> UMeta(t, r, x), f2 |-> a, f3 |-> b]), r, x>>)

LEMMA ForgeableSignsType ==
    SentInv =>
      \A t \in TenantIds, r \in RequestIds, x \in Timestamps, a, b \in FieldValues :
        ForgeableSigns(UMeta(t, r, x), a, b) \subseteq SignTexts
<1> SUFFICES ASSUME SentInv,
                    NEW t \in TenantIds, NEW r \in RequestIds, NEW x \in Timestamps,
                    NEW a \in FieldValues, NEW b \in FieldValues
             PROVE  ForgeableSigns(UMeta(t, r, x), a, b) \subseteq SignTexts
  OBVIOUS
<1>1. KnownMacs \subseteq Macs
  <2> SUFFICES ASSUME NEW s \in sent PROVE s.body.meta.sign.mac \in Macs
    BY DEF KnownMacs
  <2>1. PICK route0 \in Routes, t0 \in Hosted, rid0 \in RequestIds, ts0 \in Timestamps,
             g2 \in FieldValues, g3 \in FieldValues :
               SentBy(s, route0, t0, rid0, ts0, g2, g3)
    BY DEF SentInv
  <2>2. s.body.meta.sign.mac
          = Mac(Lookup[t0], <<EncodedRequest(route0, UMeta(t0, rid0, ts0), g2, g3), rid0, ts0>>)
    BY <2>1 DEF SentBy, SignedRequest, ComputeHookSignBase64, B64, EncodedRequest, UMeta
  <2>3. EncodedRequest(route0, UMeta(t0, rid0, ts0), g2, g3) \in Payloads
    BY PayloadsMember, UMetaType, HostedAssumption DEF TenantIds
  <2>4. rid0 \in RequestIdValues /\ ts0 \in TimestampValues
    BY DEF RequestIdValues, TimestampValues
  <2>5. Lookup[t0] \in Keys
    BY HostedAssumption
  <2>. QED
    BY <2>2, <2>3, <2>4, <2>5 DEF Macs, Mac
<1>2. \A k \in AttackerKeys, r2 \in Routes : OwnMac(k, r2, t, r, x, a, b) \in Macs
  <2> TAKE k \in AttackerKeys, r2 \in Routes
  <2>1. PayloadForSign(r2, [meta |-> UMeta(t, r, x), f2 |-> a, f3 |-> b])
          = EncodedRequest(r2, UMeta(t, r, x), a, b)
    BY PayloadOfRequest DEF UMeta, EncodedRequest
  <2>2. EncodedRequest(r2, UMeta(t, r, x), a, b) \in Payloads
    BY PayloadsMember, UMetaType
  <2>. QED
    BY <2>1, <2>2, KeysAssumption DEF OwnMac, Macs, Mac, RequestIdValues, TimestampValues
<1>3. UMeta(t, r, x).rid = r /\ UMeta(t, r, x).ts = x
  BY DEF UMeta
<1>4. ForgeableSigns(UMeta(t, r, x), a, b)
        = {EmptySign, Junk} \cup
          [form: {"canonical", "alias"},
           mac: KnownMacs \cup
                {OwnMac(k, r2, t, r, x, a, b) :
                   k \in AttackerKeys, r2 \in Routes}]
  BY <1>3 DEF ForgeableSigns, OwnMac
<1>5. KnownMacs \cup
        {OwnMac(k, r2, t, r, x, a, b) :
           k \in AttackerKeys, r2 \in Routes} \subseteq Macs
  BY <1>1, <1>2
<1>. QED
  BY <1>4, <1>5 DEF SignTexts

(***************************************************************************)
(* One step of HandleRoute on a body that decodes: the response is for    *)
(* that request, and a handler is called or a grant is given only behind  *)
(* the tenant check and verifyHookOrReject.                                *)
(***************************************************************************)
Served(route, body) ==
    LET req == DecodeRequest(route, body)
    IN  /\ sent' = sent
        /\ last'.code = 200 /\ last'.route = route /\ last'.req = req
        /\ last'.called \in BOOLEAN /\ last'.grant \in BOOLEAN
        /\ (last'.called \/ last'.grant) =>
              /\ Lookup[req.meta.tenant] # NotFound /\ req.meta.tenant # ""
              /\ verifyHookOrReject(RequireSign, Lookup[req.meta.tenant], req.meta,
                                    PayloadForSign(route, req))

LEMMA HandleRouteServes ==
    \A route \in Routes, body \in Deliverable :
        HandleRoute(route, body) /\ body # Malformed => Served(route, body)
<1> SUFFICES ASSUME NEW route \in Routes, NEW body \in Deliverable,
                    HandleRoute(route, body), body # Malformed
             PROVE  Served(route, body)
  OBVIOUS
<1> DEFINE req    == DecodeRequest(route, body)
           secret == Lookup[req.meta.tenant]
           known  == secret # NotFound /\ req.meta.tenant # ""
           signOK == verifyHookOrReject(RequireSign, secret, req.meta, PayloadForSign(route, req))
           ok     == known /\ signOK
\* the response when the handlers answer
<1> DEFINE Resp(called, grant, reason) == Reply(200, route, req, called, grant, reason)
<1>1. \/ ~known /\ last' = Resp(FALSE, FALSE, RejectReason(route, "unknown tenant")) /\ UNCHANGED sent
      \/ known /\ ~signOK /\ last' = Resp(FALSE, FALSE, RejectReason(route, "invalid sign"))
         /\ UNCHANGED sent
      \/ ok /\ route \notin Configured
         /\ last' = Resp(FALSE, route = "/check-message",
                         IF route = "/auth" THEN "auth handler not configured" ELSE "")
         /\ UNCHANGED sent
      \/ ok /\ route \in Configured
         /\ \E handlerErr, granted \in BOOLEAN :
               last' = Resp(TRUE, ~handlerErr /\ granted,
                            IF handlerErr THEN RejectReason(route, "handler error") ELSE "")
         /\ UNCHANGED sent
  BY DEF HandleRoute, Resp
<1>2. PICK called \in BOOLEAN, grant \in BOOLEAN :
        \E reason :
          /\ last' = Resp(called, grant, reason) /\ sent' = sent
          /\ (called \/ grant) => ok
  <2>1. CASE ~known /\ last' = Resp(FALSE, FALSE, RejectReason(route, "unknown tenant"))
             /\ UNCHANGED sent
    BY <2>1
  <2>2. CASE known /\ ~signOK /\ last' = Resp(FALSE, FALSE, RejectReason(route, "invalid sign"))
             /\ UNCHANGED sent
    BY <2>2
  <2>3. CASE ok /\ route \notin Configured
             /\ last' = Resp(FALSE, route = "/check-message",
                             IF route = "/auth" THEN "auth handler not configured" ELSE "")
             /\ UNCHANGED sent
    BY <2>3
  <2>4. CASE ok /\ route \in Configured
             /\ \E handlerErr, granted \in BOOLEAN :
                   last' = Resp(TRUE, ~handlerErr /\ granted,
                                IF handlerErr THEN RejectReason(route, "handler error") ELSE "")
             /\ UNCHANGED sent
    BY <2>4
  <2>. QED
    BY <1>1, <2>1, <2>2, <2>3, <2>4
<1>3. /\ last'.code = 200 /\ last'.route = route /\ last'.req = req
      /\ last'.called = called /\ last'.grant = grant
  <2>1. PICK reason : last' = Resp(called, grant, reason)
    BY <1>2
  <2>. QED
    BY <2>1 DEF Resp, Reply
<1>. QED
  BY <1>2, <1>3 DEF Served, ok, known, signOK, secret, req

(***************************************************************************)
(* IInv is an inductive invariant.                                         *)
(***************************************************************************)
LEMMA InitIInv == Init => IInv
<1> SUFFICES ASSUME Init PROVE IInv
  OBVIOUS
<1>1. /\ last.called = FALSE /\ last.grant = FALSE /\ last.req = None
      /\ last.code = 0 /\ last.route = "/other" /\ sent = {}
  BY DEF Init, Reply
<1>. QED
  BY <1>1 DEF IInv, TypeOK, SentInv, SignedRequestsAuthentic, Paths

LEMMA NextIInv == IInv /\ [Next]_vars => IInv'
<1> SUFFICES ASSUME IInv, [Next]_vars PROVE IInv'
  OBVIOUS
<1>1. CASE \E route \in Routes, t \in Hosted, rid \in RequestIds, ts \in Timestamps,
             f2 \in FieldValues, f3 \in FieldValues :
             PlatformSend(route, t, rid, ts, f2, f3)
  <2>1. PICK route \in Routes, t \in Hosted, rid \in RequestIds, ts \in Timestamps,
             f2 \in FieldValues, f3 \in FieldValues :
             PlatformSend(route, t, rid, ts, f2, f3)
    BY <1>1
  <2>2. NoField3(route, f3)
    BY <2>1 DEF PlatformSend, NoField3, Auth
  <2>3. SignedRequest(route, t, rid, ts, f2, f3) \in SentRequests
    BY SignedRequestType
  <2>4. sent' = sent \cup {SignedRequest(route, t, rid, ts, f2, f3)} /\ last' = last
    BY <2>1 DEF PlatformSend
  <2>5. TypeOK'
    BY <2>3, <2>4 DEF IInv, TypeOK
  <2>6. SentInv'
    BY <2>2, <2>4 DEF IInv, SentInv, SentBy
  <2>7. SignedRequestsAuthentic'
    BY <2>4 DEF IInv, SignedRequestsAuthentic, FromPlatform
  <2>. QED
    BY <2>5, <2>6, <2>7 DEF IInv
<1>2. CASE \E method \in Methods, ct \in ContentTypes, readErr \in BOOLEAN, path \in Paths :
             ServeShell(method, ct, readErr, path)
  <2>1. PICK method \in Methods, ct \in ContentTypes, readErr \in BOOLEAN, path \in Paths :
             ServeShell(method, ct, readErr, path)
    BY <1>2
  <2> DEFINE status == CASE method # "POST" -> 405
                       [] ct \notin {""} \cup ProtobufTypes -> 415
                       [] readErr -> 400
                       [] OTHER -> 404
  <2>2. last' = Reply(status, path, None, FALSE, FALSE, "") /\ sent' = sent
    BY <2>1 DEF ServeShell, status
  <2>3. status \in {405, 415, 400, 404}
    BY DEF status
  <2>4. /\ last'.called = FALSE /\ last'.grant = FALSE /\ last'.req = None
        /\ last'.code = status /\ last'.route = path
    BY <2>2 DEF Reply
  <2>5. sent' = sent
    BY <2>2
  <2>6. TypeOK'
    <3>1. last'.code \in {0, 200, 400, 404, 405, 415}
      <4>1. last'.code \in {405, 415, 400, 404}
        BY <2>3, <2>4
      <4>. QED
        BY <4>1
    <3>2. last'.req \in Requests \cup {None} /\ last'.route \in Paths
      BY <2>4
    <3>3. sent' \subseteq SentRequests
      BY <2>5 DEF IInv, TypeOK
    <3>. QED
      BY <2>4, <3>1, <3>2, <3>3 DEF TypeOK
  <2>7. SentInv' /\ SignedRequestsAuthentic'
    BY <2>4, <2>5 DEF IInv, SentInv, SignedRequestsAuthentic
  <2>. QED
    BY <2>6, <2>7 DEF IInv
<1>3. CASE \E route \in Routes, body \in Deliverable : HandleRoute(route, body)
  <2>1. PICK route \in Routes, body \in Deliverable : HandleRoute(route, body)
    BY <1>3
  <2>2. CASE body = Malformed
    <3>1. last' = Reply(400, route, None, FALSE, FALSE, "") /\ sent' = sent
      BY <2>1, <2>2 DEF HandleRoute
    <3>2. /\ last'.called = FALSE /\ last'.grant = FALSE /\ last'.req = None
          /\ last'.code = 400 /\ last'.route = route
      BY <3>1 DEF Reply
    <3>3. TypeOK'
      <4>1. last'.code \in {0, 200, 400, 404, 405, 415} /\ last'.route \in Paths
        BY <3>2 DEF Paths
      <4>2. last'.req \in Requests \cup {None}
        BY <3>2
      <4>. QED
        BY <3>1, <3>2, <4>1, <4>2 DEF IInv, TypeOK
    <3>4. SentInv' /\ SignedRequestsAuthentic'
      BY <3>1, <3>2 DEF IInv, SentInv, SignedRequestsAuthentic
    <3>. QED
      BY <3>3, <3>4 DEF IInv
  <2>3. CASE body # Malformed
    <3>1. PICK t \in TenantIds, r \in RequestIds, x \in Timestamps, a \in FieldValues, b \in FieldValues :
             \E sg \in ForgeableSigns(UMeta(t, r, x), a, b) : body = BodyOf(t, r, x, sg, a, b)
      BY <2>3, DeliverableShape
    <3>2. PICK sg \in ForgeableSigns(UMeta(t, r, x), a, b) : body = BodyOf(t, r, x, sg, a, b)
      BY <3>1
    <3>3. Served(route, body)
      BY <2>1, <2>3, HandleRouteServes
    <3> DEFINE req == DecodeRequest(route, body)
    <3>4. req = [meta |-> [tenant |-> t, rid |-> r, ts |-> x, sign |-> sg], f2 |-> a, f3 |-> F3(route, b)]
      BY <3>2, DecodeBody
    <3>5. sg \in SignTexts
      BY ForgeableSignsType DEF IInv
    <3>6. req \in Requests
      <4>1. r \in RequestIdValues /\ x \in TimestampValues
        BY DEF RequestIdValues, TimestampValues
      <4>2. [tenant |-> t, rid |-> r, ts |-> x, sign |-> sg] \in Meta
        BY <3>5, <4>1 DEF Meta
      <4>3. F3(route, b) \in FieldValues
        BY F3Facts
      <4>. QED
        BY <3>4, <4>2, <4>3 DEF Requests
    <3>7. TypeOK'
      <4>1. /\ sent' = sent /\ last'.code = 200 /\ last'.route = route /\ last'.req = req
            /\ last'.called \in BOOLEAN /\ last'.grant \in BOOLEAN
        BY <3>3 DEF Served
      <4>. QED
        BY <3>6, <4>1 DEF TypeOK, IInv, Paths
    <3>8. SentInv'
      BY <3>3 DEF Served, SentInv, IInv
    <3>9. SignedRequestsAuthentic'
      <4>1. (last'.called \/ last'.grant) =>
              Known(t) /\ verifyHookOrReject(RequireSign, Lookup[t], req.meta, PayloadForSign(route, req))
        <5>1. req.meta.tenant = t
          BY <3>4
        <5>. QED
          BY <3>3, <5>1 DEF Served, Known
      <4>2. GateReq(route, t, r, x, sg, a, b) = req
        BY <3>2 DEF GateReq
      <4>3. Gate(route, t, r, x, sg, a, b)
        BY GateSound DEF IInv
      <4>4. (last'.called \/ last'.grant) => AuthenticAt(route, req)
        BY <4>1, <4>2, <4>3 DEF Gate
      <4>5. last'.route = route /\ last'.req = req /\ sent' = sent
        BY <3>3 DEF Served
      <4>6. FromPlatform(route, req) => FromPlatform(route, req)'
        BY <4>5 DEF FromPlatform
      <4>. QED
        BY <4>4, <4>5, <4>6 DEF AuthenticAt, SignedRequestsAuthentic
    <3>. QED
      BY <3>7, <3>8, <3>9 DEF IInv
  <2>. QED
    BY <2>2, <2>3
<1>4. CASE UNCHANGED vars
  BY <1>4 DEF vars, IInv, TypeOK, SentInv, SignedRequestsAuthentic, FromPlatform
<1>. QED
  BY <1>1, <1>2, <1>3, <1>4 DEF Next

(***************************************************************************)
(* For every value of the constants, every reachable state of the hook    *)
(* server satisfies the inductive invariant: what the platform sent is     *)
(* SignedRequest(...) of a hosted tenant, with no field 3 off the Auth     *)
(* route, and the last answer of the route handlers is authentic.         *)
(***************************************************************************)
THEOREM IInvHolds == Spec => []IInv
<1>1. Init => IInv
  BY InitIInv
<1>2. IInv /\ [Next]_vars => IInv'
  BY NextIInv
<1>. QED
  BY <1>1, <1>2, PTL DEF Spec

(***************************************************************************)
(* Every state of the hook server is well typed: the platform only sends  *)
(* requests of the three schemas signed with a hosted tenant's secret,    *)
(* and NewHookServer's handler always answers with one of its statuses    *)
(* and a decoded request of the route's schema.                           *)
(***************************************************************************)
THEOREM TypeCorrect == Spec => []TypeOK
<1>1. IInv => TypeOK
  BY DEF IInv
<1>. QED
  BY IInvHolds, <1>1, PTL

(***************************************************************************)
(* For every set of tenants, secrets, values and bounds: a request that    *)
(* reaches a business handler, or that handleAuth / handleCheckMessage /   *)
(* handleGetGroupMembers grants, comes from a known tenant, and when a     *)
(* signature is required or present, its content was signed by the        *)
(* platform (or by a holder of that tenant's secret).                      *)
(***************************************************************************)
THEOREM SignedRequestsAuthenticHolds == Spec => []SignedRequestsAuthentic
<1>1. IInv => SignedRequestsAuthentic
  BY DEF IInv
<1>. QED
  BY IInvHolds, <1>1, PTL

=============================================================================
