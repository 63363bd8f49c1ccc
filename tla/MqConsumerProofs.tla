------------------------- MODULE MqConsumerProofs -------------------------
(***************************************************************************)
(* Proofs about MqConsumer for every value of its constants.              *)
(***************************************************************************)
EXTENDS MqConsumer, TLAPS

(***************************************************************************)
(* encodeMqEvent determines an unsigned event: a field is absent exactly   *)
(* when its value is the zero value of its type, and otherwise written     *)
(* under its own number.  It is why the MAC over the re-encoded event      *)
(* binds every field the consumer reads.                                   *)
(***************************************************************************)
LEMMA EncodeInjective ==
    \A a, b \in UnsignedEvents : encodeMqEvent(a) = encodeMqEvent(b) => a = b
<1> SUFFICES ASSUME NEW a \in UnsignedEvents, NEW b \in UnsignedEvents,
                    encodeMqEvent(a) = encodeMqEvent(b)
             PROVE  a = b
  OBVIOUS
<1> DEFINE Da == {n \in MqFields : FieldOf(a, n) # ZeroOf(n)}
           Db == {n \in MqFields : FieldOf(b, n) # ZeroOf(n)}
<1>1. [n \in Da |-> FieldOf(a, n)] = [n \in Db |-> FieldOf(b, n)]
  BY DEF encodeMqEvent
<1>2. Da = Db /\ \A n \in Da : FieldOf(a, n) = FieldOf(b, n)
  BY <1>1, Zenon
<1>3. \A n \in MqFields : FieldOf(a, n) = FieldOf(b, n)
  <2> TAKE n \in MqFields
  <2>1. CASE n \in Da
    BY <1>2, <2>1
  <2>2. CASE n \notin Da
    <3>1. n \notin Db
      BY <1>2, <2>2
    <3>. QED
      BY <2>2, <3>1
  <2>. QED
    BY <2>1, <2>2
<1>4. /\ a.tenant = b.tenant /\ a.etype = b.etype /\ a.msg = b.msg
      /\ a.data = b.data /\ a.ts = b.ts /\ a.sign = b.sign
  <2>1. /\ FieldOf(a, 1) = FieldOf(b, 1) /\ FieldOf(a, 2) = FieldOf(b, 2)
        /\ FieldOf(a, 3) = FieldOf(b, 3) /\ FieldOf(a, 8) = FieldOf(b, 8)
        /\ FieldOf(a, 9) = FieldOf(b, 9) /\ FieldOf(a, 11) = FieldOf(b, 11)
    BY <1>3 DEF MqFields
  <2>. QED
    BY <2>1 DEF FieldOf
<1>5. /\ a = [tenant |-> a.tenant, etype |-> a.etype, msg |-> a.msg,
              data |-> a.data, ts |-> a.ts, sign |-> a.sign]
      /\ b = [tenant |-> b.tenant, etype |-> b.etype, msg |-> b.msg,
              data |-> b.data, ts |-> b.ts, sign |-> b.sign]
  BY DEF UnsignedEvents
<1>. QED
  BY <1>4, <1>5

(***************************************************************************)
(* What the platform publishes, and the facts about one published event.  *)
(***************************************************************************)
PubInv == \A p \in published : \E e \in UnsignedEvents : p = SignedEvent(e)

SignedFacts(e) ==
    /\ SignedEvent(e).sign = B64(Mac(Secret, encodeMqEvent(e)))
    /\ SignedEvent(e).sign # EmptySign
    /\ clearMqSign(SignedEvent(e)) = e
    /\ SignedEvent(e) \in Events

LEMMA SignedEventFacts == \A e \in UnsignedEvents : SignedFacts(e)
<1> SUFFICES ASSUME NEW e \in UnsignedEvents PROVE SignedFacts(e)
  OBVIOUS
<1>1. clearMqSign(e) = e
  BY DEF UnsignedEvents, clearMqSign
<1>2. SignedEvent(e) = [e EXCEPT !.sign = B64(Mac(Secret, encodeMqEvent(e)))]
  BY <1>1 DEF SignedEvent, ComputeMqEventSignBase64
<1>3. Mac(Secret, encodeMqEvent(e)) \in Macs
  BY KeysAssumption DEF Macs
<1>4. B64(Mac(Secret, encodeMqEvent(e))) \in SignTexts
  BY <1>3 DEF SignTexts, B64
<1>5. B64(Mac(Secret, encodeMqEvent(e))) # EmptySign
  BY DEF B64, EmptySign
<1>. QED
  BY <1>2, <1>4, <1>5 DEF SignedFacts, UnsignedEvents, Events, clearMqSign

(***************************************************************************)
(* A message on the topic is good when, if the consumer would accept it    *)
(* and it is signed or signing is required, its content was published.    *)
(***************************************************************************)
Good(m) ==
    (/\ DecodeAndVerifyMqEvent(m, Secret, RequireSign) = "ok"
     /\ RequireSign \/ m.sign # EmptySign)
    => \E p \in published : clearMqSign(p) = clearMqSign(m)

(***************************************************************************)
(* The gate: every message the attacker can append is good.  A sign that   *)
(* passes VerifyMqEventSignBase64 under the tenant secret carries the MAC  *)
(* of the tenant secret over the event's re-encoding; the attacker's keys  *)
(* are other secrets, so it is a MAC the platform put on the topic, and    *)
(* the encoding is injective, so the content is the published event's.    *)
(***************************************************************************)
LEMMA GateSound == PubInv => \A m \in Deliverable : Good(m)
<1> SUFFICES ASSUME PubInv, NEW m \in Deliverable PROVE Good(m)
  OBVIOUS
<1> USE DEF Good
<1> HAVE /\ DecodeAndVerifyMqEvent(m, Secret, RequireSign) = "ok"
         /\ RequireSign \/ m.sign # EmptySign
<1>1. m # Malformed
  BY DEF DecodeAndVerifyMqEvent
<1>2. PICK e \in UnsignedEvents : \E s \in ForgeableSigns(e) : m = [e EXCEPT !.sign = s]
  BY <1>1 DEF Deliverable
<1>3. PICK s \in ForgeableSigns(e) : m = [e EXCEPT !.sign = s]
  BY <1>2
<1>4. m.sign = s /\ clearMqSign(m) = e
  BY <1>3 DEF UnsignedEvents, clearMqSign
<1>5. /\ s # EmptySign /\ s # Junk
      /\ s.mac = Mac(Secret, encodeMqEvent(e))
  <2>1. VerifyMqEventSignBase64(Secret, encodeMqEvent(clearMqSign(m)), m.sign) /\ m.sign # EmptySign
    BY <1>1, RequireSignAssumption DEF DecodeAndVerifyMqEvent
  <2>. QED
    BY <2>1, <1>4 DEF VerifyMqEventSignBase64, ConstantTimeEqualBase64,
                     ComputeMqEventSignBase64, B64
<1>6. s.mac \in KnownMacs \/ \E k \in AttackerKeys : s.mac = Mac(k, encodeMqEvent(e))
  BY <1>5 DEF ForgeableSigns
<1>7. CASE \E k \in AttackerKeys : s.mac = Mac(k, encodeMqEvent(e))
  BY <1>5, <1>7, KeysAssumption DEF Mac
<1>8. CASE s.mac \in KnownMacs
  <2>1. PICK t \in published : t.sign # EmptySign /\ t.sign.mac = s.mac
    BY <1>8 DEF KnownMacs
  <2>2. PICK e2 \in UnsignedEvents : t = SignedEvent(e2)
    BY <2>1 DEF PubInv
  <2>3. SignedFacts(e2)
    BY SignedEventFacts
  <2>4. Mac(Secret, encodeMqEvent(e2)) = Mac(Secret, encodeMqEvent(e))
    BY <1>5, <2>1, <2>2, <2>3 DEF SignedFacts, B64
  <2>5. encodeMqEvent(e2) = encodeMqEvent(e)
    BY <2>4 DEF Mac
  <2>6. e2 = e
    BY <2>5, EncodeInjective
  <2>. QED
    BY <2>2, <2>3, <2>6, <1>4 DEF SignedFacts
<1>. QED
  BY <1>6, <1>7, <1>8

(***************************************************************************)
(* What the attacker appends has the type of a topic message.             *)
(***************************************************************************)
LEMMA DeliverableType == PubInv => Deliverable \subseteq Events \cup {Malformed}
<1> SUFFICES ASSUME PubInv, NEW m \in Deliverable, m # Malformed PROVE m \in Events
  OBVIOUS
<1>1. PICK e \in UnsignedEvents : \E s \in ForgeableSigns(e) : m = [e EXCEPT !.sign = s]
  BY DEF Deliverable
<1>2. PICK s \in ForgeableSigns(e) : m = [e EXCEPT !.sign = s]
  BY <1>1
<1>3. KnownMacs \subseteq Macs
  <2> SUFFICES ASSUME NEW t \in published, t.sign # EmptySign PROVE t.sign.mac \in Macs
    BY DEF KnownMacs
  <2>1. PICK e2 \in UnsignedEvents : t = SignedEvent(e2)
    BY DEF PubInv
  <2>2. SignedFacts(e2)
    BY SignedEventFacts
  <2>3. t.sign.mac = Mac(Secret, encodeMqEvent(e2))
    BY <2>1, <2>2 DEF SignedFacts, B64
  <2>. QED
    BY <2>3, KeysAssumption DEF Macs
<1>4. {Mac(k, encodeMqEvent(e)) : k \in AttackerKeys} \subseteq Macs
  BY KeysAssumption DEF Macs
<1>5. s \in SignTexts
  BY <1>3, <1>4 DEF ForgeableSigns, SignTexts
<1>. QED
  BY <1>2, <1>5 DEF UnsignedEvents, Events

(***************************************************************************)
(* The inductive invariant.  MqEventsAuthentic alone is not inductive: it *)
(* says nothing of the messages not yet handled, of the one the consumer   *)
(* holds, or of the MACs the attacker has seen.                            *)
(***************************************************************************)
CurInv == pc = "process" => offset \in 1..Len(topic) /\ cur = topic[offset]

TopicSafe == \A i \in 1..Len(topic) : Good(topic[i])

HandledOk == \A i \in handled : DecodeAndVerifyMqEvent(topic[i], Secret, RequireSign) = "ok"

IInv == TypeOK /\ PubInv /\ CurInv /\ TopicSafe /\ HandledOk

LEMMA InitIInv == Init => IInv
<1> SUFFICES ASSUME Init PROVE IInv
  OBVIOUS
<1>1. TypeOK
  <2>1. topic \in Seq(Events \cup {Malformed}) /\ Len(topic) <= MaxEvents
    BY BoundsAssumption DEF Init
  <2>2. cur \in Events \cup {Malformed, None}
    BY DEF Init
  <2>3. offset \in 0..Len(topic) /\ handled \subseteq 1..offset /\ crashes \in 0..MaxCrashes
    BY <2>1, BoundsAssumption DEF Init
  <2>. QED
    BY <2>1, <2>2, <2>3 DEF Init, TypeOK
<1>2. PubInv /\ CurInv /\ TopicSafe /\ HandledOk
  BY DEF Init, PubInv, CurInv, TopicSafe, HandledOk
<1>. QED
  BY <1>1, <1>2 DEF IInv

LEMMA IInvAuthentic == IInv => MqEventsAuthentic
<1> SUFFICES ASSUME IInv, NEW i \in handled, RequireSign \/ topic[i].sign # EmptySign
             PROVE  \E p \in published : clearMqSign(p) = clearMqSign(topic[i])
  BY DEF MqEventsAuthentic
<1>1. i \in 1..Len(topic)
  BY DEF IInv, TypeOK
<1>2. Good(topic[i]) /\ DecodeAndVerifyMqEvent(topic[i], Secret, RequireSign) = "ok"
  BY <1>1 DEF IInv, TopicSafe, HandledOk
<1>. QED
  BY <1>2 DEF Good

(***************************************************************************)
(* Every step keeps the invariant: one step per action of Next.           *)
(***************************************************************************)
LEMMA NextIInv == IInv /\ [Next]_vars => IInv'
<1> SUFFICES ASSUME IInv, [Next]_vars PROVE IInv'
  OBVIOUS
<1>0. /\ TypeOK /\ PubInv /\ CurInv /\ TopicSafe /\ HandledOk
      /\ topic \in Seq(Events \cup {Malformed})
      /\ offset \in 0..Len(topic) /\ handled \subseteq 1..offset
  BY DEF IInv, TypeOK
<1>1. ASSUME NEW e \in UnsignedEvents, Publish(e) PROVE IInv'
  <2> DEFINE se == SignedEvent(e)
  <2>1. SignedFacts(e)
    BY SignedEventFacts
  <2>2. /\ topic' = Append(topic, se) /\ published' = published \cup {se}
        /\ Len(topic') = Len(topic) + 1
        /\ \A i \in 1..Len(topic) : topic'[i] = topic[i]
        /\ topic'[Len(topic) + 1] = se
    BY <1>0, <1>1 DEF Publish
  <2>3. TypeOK'
    <3>1. se \in Events
      BY <2>1 DEF SignedFacts
    <3>2. topic' \in Seq(Events \cup {Malformed}) /\ Len(topic') <= MaxEvents
      <4>1. topic' \in Seq(Events \cup {Malformed})
        BY <1>0, <2>2, <3>1
      <4>2. Len(topic') <= MaxEvents
        <5>1. Len(topic) < MaxEvents
          BY <1>1 DEF Publish
        <5>2. Len(topic) \in Nat
          BY <1>0
        <5>. QED
          BY <2>2, <5>1, <5>2, BoundsAssumption
      <4>. QED
        BY <4>1, <4>2
    <3>3. published' \subseteq Events
      BY <1>0, <2>2, <3>1 DEF TypeOK
    <3>. QED
      BY <1>0, <1>1, <2>2, <3>2, <3>3 DEF Publish, TypeOK
  <2>4. PubInv'
    BY <1>0, <2>2 DEF PubInv
  <2>5. CurInv'
    BY <1>0, <1>1, <2>2 DEF CurInv, Publish
  <2>6. TopicSafe'
    <3> SUFFICES ASSUME NEW i \in 1..Len(topic') PROVE Good(topic[i])'
      BY DEF TopicSafe
    <3>1. CASE i \in 1..Len(topic)
      <4>1. Good(topic[i])
        BY <1>0, <3>1 DEF TopicSafe
      <4>2. topic'[i] = topic[i] /\ published \subseteq published'
        BY <2>2, <3>1
      <4>. QED
        BY <4>1, <4>2 DEF Good
    <3>2. CASE i = Len(topic) + 1
      BY <2>2, <3>2 DEF Good
    <3>. QED
      BY <2>2, <3>1, <3>2
  <2>7. HandledOk'
    BY <1>0, <1>1, <2>2 DEF HandledOk, Publish
  <2>. QED
    BY <2>3, <2>4, <2>5, <2>6, <2>7 DEF IInv
<1>2. ASSUME NEW m \in Deliverable, Inject(m) PROVE IInv'
  <2>1. /\ topic' = Append(topic, m) /\ published' = published
        /\ Len(topic') = Len(topic) + 1
        /\ \A i \in 1..Len(topic) : topic'[i] = topic[i]
        /\ topic'[Len(topic) + 1] = m
    BY <1>0, <1>2 DEF Inject
  <2>2. m \in Events \cup {Malformed} /\ Good(m)
    BY <1>0, DeliverableType, GateSound
  <2>3. TypeOK'
    <3>1. topic' \in Seq(Events \cup {Malformed}) /\ Len(topic') <= MaxEvents
      <4>1. topic' \in Seq(Events \cup {Malformed})
        BY <1>0, <2>1, <2>2
      <4>2. Len(topic) < MaxEvents /\ Len(topic) \in Nat
        BY <1>0, <1>2 DEF Inject
      <4>. QED
        BY <2>1, <4>1, <4>2, BoundsAssumption
    <3>. QED
      BY <1>0, <1>2, <2>1, <3>1 DEF Inject, TypeOK
  <2>4. PubInv' /\ CurInv' /\ HandledOk'
    BY <1>0, <1>2, <2>1 DEF PubInv, CurInv, HandledOk, Inject
  <2>5. TopicSafe'
    <3> SUFFICES ASSUME NEW i \in 1..Len(topic') PROVE Good(topic[i])'
      BY DEF TopicSafe
    <3>1. CASE i \in 1..Len(topic)
      <4>1. Good(topic[i])
        BY <1>0, <3>1 DEF TopicSafe
      <4>2. topic'[i] = topic[i] /\ published' = published
        BY <2>1, <3>1
      <4>. QED
        BY <4>1, <4>2 DEF Good
    <3>2. CASE i = Len(topic) + 1
      BY <2>1, <2>2, <3>2 DEF Good
    <3>. QED
      BY <2>1, <3>1, <3>2
  <2>. QED
    BY <2>3, <2>4, <2>5 DEF IInv
<1>3. ASSUME ReadMessage PROVE IInv'
  <2>1. offset + 1 \in 1..Len(topic)
    BY <1>0, <1>3 DEF ReadMessage
  <2>2. topic[offset + 1] \in Events \cup {Malformed}
    BY <1>0, <2>1
  <2>3. TypeOK'
    <3>1. offset' \in 0..Len(topic') /\ handled' \subseteq 1..offset'
      BY <1>0, <1>3, <2>1 DEF ReadMessage
    <3>2. cur' \in Events \cup {Malformed, None} /\ pc' \in {"read", "process"}
      BY <1>3, <2>2 DEF ReadMessage
    <3>. QED
      BY <1>0, <1>3, <3>1, <3>2 DEF ReadMessage, TypeOK
  <2>4. PubInv' /\ TopicSafe' /\ HandledOk'
    BY <1>0, <1>3 DEF ReadMessage, PubInv, TopicSafe, HandledOk, Good
  <2>5. CurInv'
    BY <1>3, <2>1 DEF ReadMessage, CurInv
  <2>. QED
    BY <2>3, <2>4, <2>5 DEF IInv
<1>4. ASSUME Process PROVE IInv'
  <2>1. offset \in 1..Len(topic) /\ cur = topic[offset]
    BY <1>0, <1>4 DEF Process, CurInv
  <2>2. TypeOK'
    <3>1. handled' \subseteq 1..offset
      BY <1>0, <1>4, <2>1 DEF Process
    <3>2. cur' \in Events \cup {Malformed, None} /\ pc' \in {"read", "process"}
      BY <1>4 DEF Process
    <3>. QED
      BY <1>0, <1>4, <3>1, <3>2 DEF Process, TypeOK
  <2>3. HandledOk'
    <3>1. CASE DecodeAndVerifyMqEvent(cur, Secret, RequireSign) = "ok"
      BY <1>0, <1>4, <2>1, <3>1 DEF Process, HandledOk
    <3>2. CASE DecodeAndVerifyMqEvent(cur, Secret, RequireSign) # "ok"
      BY <1>0, <1>4, <3>2 DEF Process, HandledOk
    <3>. QED
      BY <3>1, <3>2
  <2>4. PubInv' /\ CurInv' /\ TopicSafe'
    BY <1>0, <1>4 DEF Process, PubInv, CurInv, TopicSafe, Good
  <2>. QED
    BY <2>2, <2>3, <2>4 DEF IInv
<1>5. ASSUME Crash PROVE IInv'
  <2>1. TypeOK'
    <3>1. crashes' \in 0..MaxCrashes
      BY <1>0, <1>5, BoundsAssumption DEF Crash, TypeOK
    <3>2. cur' \in Events \cup {Malformed, None} /\ pc' \in {"read", "process"}
      BY <1>5 DEF Crash
    <3>. QED
      BY <1>0, <1>5, <3>1, <3>2 DEF Crash, TypeOK
  <2>2. PubInv' /\ CurInv' /\ TopicSafe' /\ HandledOk'
    BY <1>0, <1>5 DEF Crash, PubInv, CurInv, TopicSafe, HandledOk, Good
  <2>. QED
    BY <2>1, <2>2 DEF IInv
<1>6. CASE UNCHANGED vars
  <2>1. TypeOK'
    BY <1>0, <1>6 DEF vars, TypeOK
  <2>2. PubInv' /\ CurInv' /\ TopicSafe' /\ HandledOk'
    BY <1>0, <1>6 DEF vars, PubInv, CurInv, TopicSafe, HandledOk, Good
  <2>. QED
    BY <2>1, <2>2 DEF IInv
<1>. QED
  BY <1>1, <1>2, <1>3, <1>4, <1>5, <1>6 DEF Next

(***************************************************************************)
(* For every value of the constants, every reachable state of the consumer *)
(* satisfies the inductive invariant: every published event is signed     *)
(* with the tenant secret, the loop holds the message at its committed    *)
(* offset, every message on the topic the gate would let through is       *)
(* authentic, and every handled offset holds a message that verifies.     *)
(***************************************************************************)
THEOREM IInvHolds == Spec => []IInv
<1>1. Init => IInv
  BY InitIInv
<1>2. IInv /\ [Next]_vars => IInv'
  BY NextIInv
<1>. QED
  BY <1>1, <1>2, PTL DEF Spec

(***************************************************************************)
(* Every reachable state of the consumer is well typed.                   *)
(***************************************************************************)
THEOREM TypeCorrect == Spec => []TypeOK
<1>1. IInv => TypeOK
  BY DEF IInv
<1>. QED
  BY IInvHolds, <1>1, PTL

(***************************************************************************)
(* For every tenant, secret set, bound and REQUIRE_SIGN setting, every     *)
(* event the consumer loop accepts through DecodeAndVerifyMqEvent that     *)
(* carries a sign, or any it accepts when signing is required, has the     *)
(* content of an event the platform published.                             *)
(***************************************************************************)
THEOREM MqEventsAuthenticHolds == Spec => []MqEventsAuthentic
<1>1. IInv => MqEventsAuthentic
  BY IInvAuthentic
<1>. QED
  BY IInvHolds, <1>1, PTL

=============================================================================
