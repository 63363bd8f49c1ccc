----------------------------- MODULE MqConsumer -----------------------------
(***************************************************************************)
(* A tenant's event consumer: the loop of the sample Kafka consumer        *)
(* (samples/kafka-consumer/main.go) around DecodeAndVerifyMqEvent (mq.go), *)
(* with the MQ event codec (wire_mq.go) at field level and the MQ signing  *)
(* domain of signing.go.                                                   *)
(*                                                                         *)
(* The platform publishes events of the tenant, each signed with the       *)
(* tenant secret over the event re-encoded with its sign cleared.  The     *)
(* topic is not trusted: an attacker may append any event to it, with no   *)
(* sign, a junk sign, any text of a MAC it has seen on the topic, or a MAC *)
(* under a secret it holds.  The consumer reads the topic with kafka-go's  *)
(* ReadMessage, which commits the offset before it returns the message,    *)
(* then decodes and verifies it and handles it (logs it) or drops it.      *)
(* The process may die at any point (log.Fatalf on a read error, a kill)   *)
(* and restarts from the committed offset.                                 *)
(*                                                                         *)
(* Data abstraction.  An event keeps tenant_id (1), event_type (2),        *)
(* msg_id (3), event_data (8), timestamp (9) and sign (11).  user_id,      *)
(* device_id, to_user_id, group_id, node_id and trace_id are signed        *)
(* string fields just like msg_id and no property tells them apart.        *)
(***************************************************************************)
EXTENDS Naturals, Sequences, FiniteSets, SignText

CONSTANTS
    Tenant,         \* the consumer's tenant (TENANT_ID)
    Tenants,        \* tenant ids other than the empty string
    Secret,         \* the consumer's tenant secret (TENANT_SECRET)
    Keys,           \* all tenant secrets
    AttackerKeys,   \* secrets the attacker holds (other tenants')
    RequireSign,    \* REQUIRE_SIGN
    Values,         \* msg_id / event_data values
    EventTypes,     \* event_type values
    Timestamps,     \* timestamp values (non-zero)
    Malformed,      \* a message value that does not protobuf-decode
    MaxEvents,      \* bound on the messages on the topic
    MaxCrashes      \* bound on the consumer's crashes

ASSUME TenantAssumption == Tenant \in Tenants /\ "" \notin Tenants
ASSUME KeysAssumption == Secret \in Keys /\ AttackerKeys \subseteq Keys \ {Secret}
ASSUME RequireSignAssumption == RequireSign \in BOOLEAN
ASSUME ValuesAssumption == "" \notin Values
ASSUME EventTypesAssumption == EventTypes \subseteq Nat /\ 0 \in EventTypes
ASSUME BoundsAssumption == MaxEvents \in Nat /\ MaxCrashes \in Nat

TenantIds == Tenants \cup {""}
FieldValues == Values \cup {""}
TimestampValues == Timestamps \cup {0}

(***************************************************************************)
(* encodeMqEvent at field level: the function from the field numbers       *)
(* written to their values; a field is written only when it is not the     *)
(* zero value of its type, in ascending field-number order.                *)
(***************************************************************************)
MqFields == {1, 2, 3, 8, 9, 11}

\* the value of field n of event e, and the zero value of its type
FieldOf(e, n) ==
    CASE n = 1 -> e.tenant [] n = 2 -> e.etype [] n = 3 -> e.msg
      [] n = 8 -> e.data   [] n = 9 -> e.ts    [] n = 11 -> e.sign

ZeroOf(n) == CASE n \in {1, 3, 8} -> "" [] n \in {2, 9} -> 0 [] n = 11 -> EmptySign

\* mutant: event_data is left out of the encoding
encodeMqEventWithoutData(e) ==
    [n \in {n \in MqFields \ {8} : FieldOf(e, n) # ZeroOf(n)} |-> FieldOf(e, n)]

encodeMqEvent(e) == [n \in {n \in MqFields : FieldOf(e, n) # ZeroOf(n)} |-> FieldOf(e, n)]

\* mutant: the sign is not cleared before the event is re-encoded
clearMqSignKeep(e) == e

clearMqSign(e) == [e EXCEPT !.sign = EmptySign]

ComputeMqEventSignBase64(secret, payload) == B64(Mac(secret, payload))

VerifyMqEventSignBase64(secret, payload, s) ==
    /\ s # EmptySign
    /\ IsCanonicalBase64(s)
    /\ ConstantTimeEqualBase64(ComputeMqEventSignBase64(secret, payload), s)

\* mutant: with signing optional, every event is accepted unchecked
DecodeAndVerifyMqEventUncheckedWhenOptional(b, secret, requireSign) ==
    IF b = Malformed THEN "error"
    ELSE IF ~requireSign THEN "ok"
    ELSE IF b.sign = EmptySign THEN "invalid sign"
    ELSE IF ~VerifyMqEventSignBase64(secret, encodeMqEvent(clearMqSign(b)), b.sign)
         THEN "invalid sign"
    ELSE "ok"

\* the outcome, in the order of the code's early returns: a decode error,
\* "ok", or the reason of a rejection
DecodeAndVerifyMqEvent(b, secret, requireSign) ==
    IF b = Malformed THEN "error"
    ELSE IF ~requireSign /\ b.sign = EmptySign THEN "ok"
    ELSE IF b.sign = EmptySign THEN "invalid sign"
    ELSE IF ~VerifyMqEventSignBase64(secret, encodeMqEvent(clearMqSign(b)), b.sign)
         THEN "invalid sign"
    ELSE "ok"

(***************************************************************************)
(* State.                                                                  *)
(*   topic     : the messages on the tenant's event topic, in offset order *)
(*   published : the events the platform signed and published             *)
(*   offset    : the consumer group's committed offset (messages consumed) *)
(*   pc, cur   : where the consumer loop is, and the message it holds      *)
(*   handled   : the offsets of the events the consumer accepted           *)
(*   crashes   : how many times the consumer process died                  *)
(***************************************************************************)
VARIABLES topic, published, offset, pc, cur, handled, crashes
vars == <<topic, published, offset, pc, cur, handled, crashes>>

UnsignedEvents == [tenant: TenantIds, etype: EventTypes, msg: FieldValues,
                   data: FieldValues, ts: TimestampValues, sign: {EmptySign}]

\* the event the platform publishes, as the SDK test signs it
SignedEvent(e) ==
    [e EXCEPT !.sign = ComputeMqEventSignBase64(Secret, encodeMqEvent(clearMqSign(e)))]

\* every MAC seen on the topic
KnownMacs == {m.sign.mac : m \in {t \in published : t.sign # EmptySign}}

ForgeableSigns(e) ==
    {EmptySign, Junk} \cup
    [form: {"canonical", "alias"},
     mac: KnownMacs \cup {Mac(k, encodeMqEvent(e)) : k \in AttackerKeys}]

Deliverable ==
    {Malformed} \cup
    UNION {{[e EXCEPT !.sign = s] : s \in ForgeableSigns(e)} : e \in UnsignedEvents}

Init ==
    /\ topic = <<>>
    /\ published = {}
    /\ offset = 0
    /\ pc = "read"
    /\ cur = None
    /\ handled = {}
    /\ crashes = 0

\* the platform publishes a signed event of the tenant
Publish(e) ==
    /\ Len(topic) < MaxEvents
    /\ e.tenant = Tenant /\ e.ts # 0
    /\ topic' = Append(topic, SignedEvent(e))
    /\ published' = published \cup {SignedEvent(e)}
    /\ UNCHANGED <<offset, pc, cur, handled, crashes>>

\* the attacker appends a message of its own to the topic
Inject(m) ==
    /\ Len(topic) < MaxEvents
    /\ topic' = Append(topic, m)
    /\ UNCHANGED <<published, offset, pc, cur, handled, crashes>>

\* reader.ReadMessage with a consumer group: fetch the next message and
\* commit its offset
ReadMessage ==
    /\ pc = "read"
    /\ offset < Len(topic)
    /\ cur' = topic[offset + 1]
    /\ offset' = offset + 1
    /\ pc' = "process"
    /\ UNCHANGED <<topic, published, handled, crashes>>

\* mutant: the loop lacks the continue after "drop event"
ProcessWithoutContinue ==
    /\ pc = "process"
    /\ handled' = IF DecodeAndVerifyMqEvent(cur, Secret, RequireSign) = "error"
                  THEN handled ELSE handled \cup {offset}
    /\ pc' = "read"
    /\ cur' = None
    /\ UNCHANGED <<topic, published, offset, crashes>>

\* DecodeAndVerifyMqEvent, then: a decode error is logged and skipped, a
\* rejected event is dropped, an accepted one is handled
Process ==
    /\ pc = "process"
    /\ handled' = IF DecodeAndVerifyMqEvent(cur, Secret, RequireSign) = "ok"
                  THEN handled \cup {offset} ELSE handled
    /\ pc' = "read"
    /\ cur' = None
    /\ UNCHANGED <<topic, published, offset, crashes>>

\* the process dies (log.Fatalf, a kill) and is restarted: the message it
\* held is gone, the committed offset is kept by the broker
Crash ==
    /\ crashes < MaxCrashes
    /\ pc' = "read"
    /\ cur' = None
    /\ crashes' = crashes + 1
    /\ UNCHANGED <<topic, published, offset, handled>>

Next ==
    \/ \E e \in UnsignedEvents : Publish(e)
    \/ \E m \in Deliverable : Inject(m)
    \/ ReadMessage
    \/ Process
    \/ Crash

\* the loop is one goroutine that only waits in ReadMessage for a message
Fairness == WF_vars(ReadMessage) /\ WF_vars(Process)

Spec == Init /\ [][Next]_vars /\ Fairness

(***************************************************************************)
(* Properties.                                                             *)
(***************************************************************************)
\* the sign texts: none, junk, or a form of a MAC over an event encoding
Macs == {Mac(k, encodeMqEvent(e)) : k \in Keys, e \in UnsignedEvents}
SignTexts == {EmptySign, Junk} \cup [form: {"canonical", "alias"}, mac: Macs]

Events == [tenant: TenantIds, etype: EventTypes, msg: FieldValues,
           data: FieldValues, ts: TimestampValues, sign: SignTexts]

\* the type of every state
TypeOK ==
    /\ topic \in Seq(Events \cup {Malformed}) /\ Len(topic) <= MaxEvents
    /\ published \subseteq Events
    /\ offset \in 0..Len(topic)
    /\ pc \in {"read", "process"}
    /\ cur \in Events \cup {Malformed, None}
    /\ handled \subseteq 1..offset
    /\ crashes \in 0..MaxCrashes

(***************************************************************************)
(* Every event the consumer accepts that carries a sign, and every event   *)
(* it accepts when signing is required, has the content (sign aside) of an *)
(* event the platform published: DecodeAndVerifyMqEvent with the tenant    *)
(* secret lets no altered, spliced or attacker-signed event through.       *)
(***************************************************************************)
MqEventsAuthentic ==
    \A i \in handled :
        (RequireSign \/ topic[i].sign # EmptySign) =>
            \E p \in published : clearMqSign(p) = clearMqSign(topic[i])

(***************************************************************************)
(* Every event the platform publishes is eventually handled by the         *)
(* consumer.  It holds when the process never dies; ReadMessage commits    *)
(* the offset before the event is processed, so an event held by a         *)
(* consumer that dies is never read again: see the consumer_crash run.     *)
(***************************************************************************)
PublishedEventsHandled ==
    \A i \in 1..MaxEvents :
        (i <= Len(topic) /\ topic[i] \in published) ~> (i \in handled)

=============================================================================
