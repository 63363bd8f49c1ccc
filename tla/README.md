# Formal models of the MICS Go hook SDK

This directory holds TLA+ models of the Go hook SDK in
`src/sdk/go/mics-hook-sdk/micshooksdk/`, with TLC configurations that
model-check them and TLAPS proofs of their main safety property.
`PROJECT.json` lists the components, runs, mutants, the map from every
definition to the source lines it models, the findings and the hazards.

## The system

A messaging platform delegates per-tenant decisions to a hook service that
the tenant hosts. The SDK gives that service:

- **an HTTP hook server** (`server.go`). `NewHookServer` builds an `http.Handler`.
  - The shell answers 405 to a method other than POST, 415 to a bad content type, 400 to an unreadable body and 404 to an unknown path.
  - Otherwise it dispatches to `handleAuth`, `handleCheckMessage` or `handleGetGroupMembers`.
  - Each handler decodes the body (a bad body gets 400), looks up the tenant secret (an unknown or empty tenant is rejected), and runs `verifyHookOrReject` on the request re-encoded with `meta.sign` cleared (a bad signature is rejected).
  - It then calls the tenant's business handler. A nil handler gets a fixed answer: Auth denies, CheckMessage allows, GetGroupMembers returns no members.
- **the signer** (`signing.go`). It computes HMAC-SHA256 of the payload, then `request_id`, then `timestamp_ms` as 8 little-endian bytes, and encodes it as base64.
  - Verification rejects an empty sign text and a text that is not canonical base64.
  - It then compares the decoded bytes in constant time.
- **the codec** (`wire.go`, `wire_responses.go`, `wire_mq.go`). Protobuf encoders and decoders written by hand.
  - Zero values are omitted. Fields are written in ascending order.
  - On decode, unknown fields are skipped and a repeated field keeps its last value.
- **MQ events** (`mq.go`). `DecodeAndVerifyMqEvent` and the topic names.
- **Samples.** A sample hook server and a sample Kafka consumer.

The platform signs every request with the tenant's secret (`server_test.go`
shows the rule). The server sees only bytes, which anyone on the network
may have written.

## Inventory

| Part | Source | Module | Status |
|---|---|---|---|
| Hook server shell and the three route handlers | `server.go` | `HookServer` | modelled |
| Verification gate `verifyHookOrReject`, `clearSign` | `server.go` | `HookServer` | modelled |
| Hook and MQ signers and verifiers | `signing.go` 10-48 | `HookServer`, `MqConsumer`, `SignText` | modelled (symbolic HMAC) |
| Canonical base64 guard | `signing.go` 50-71 | `Base64Guard` (bytes), `SignText` (forms) | modelled |
| Request encoders and decoders | `wire.go` | `WireCodec` (bytes), `WireInts` (integer conversions), `HookServer` (fields) | modelled |
| MQ event codec | `wire_mq.go` | `WireCodec` (bytes), `WireInts` (integer conversions), `MqConsumer` (fields) | modelled |
| Response encoders | `wire_responses.go` | none | not modelled (write-only, never decoded or signed) |
| MQ verification | `mq.go` 25-49 | `MqConsumer` | modelled |
| Topic names | `mq.go` 9-15 | none | not modelled (string concatenation, unit-tested) |
| Sample Kafka consumer loop | `samples/kafka-consumer/main.go` | `MqConsumer` | modelled |
| Sample hook server | `samples/hook-server/main.go` | none | not modelled (environment and `http.Server` wiring) |
| Replay history | `server.go` 199-207 | `HookServerHistory` | observer of `HookServer` |

## Modules

### `HookServer`

This module models the hook server, the signer, the gate and the request codec, all at field level.

**State.**
- `sent` is the set of requests the platform has signed, each with the route it was signed for.
- `last` is what the server did with the last request it served:
  - the HTTP status;
  - the decoded request;
  - whether a business handler was called;
  - whether the answer grants (`Ok`, `Allow`, or a non-empty member list);
  - the reason text.

**Data abstraction.**
- A body is the decoded request: a meta record (tenant, request id, timestamp, sign text) and the values of fields 2 and 3.
- An encoded message is the function from the field numbers written to their values (`EncodeFields`, `AppendHookMeta`). This keeps exactly what the bytes determine: zero values are omitted and the field order is fixed.
- `DecodeRequest` drops field 3 on the two routes whose schema has no field 3, as the Go decoders skip unknown fields.
- A MAC is the free term `Mac(key, data)`. A sign text is `[form, mac]`, where the form is one of:
  - `empty`;
  - `junk` (does not decode);
  - `canonical`;
  - `alias` (decodes, but is not the canonical text).

**Actions.** Each action is one whole call:
- `PlatformSend` models the test's signing of a request.
- `ServeShell` models the shell's early returns in `NewHookServer`.
- `HandleRoute` models one handler call. Its five disjuncts are:
  - malformed body (400);
  - unknown tenant;
  - invalid sign;
  - nil business handler;
  - business handler called. The handler's error and its grant are chosen nondeterministically.

**Attacker.** The network is a Dolev-Yao attacker (`Deliverable`).
- It can deliver any body built from any fields.
- The sign text can be none, junk, or any form of a MAC it has seen in `sent` (`KnownMacs`).
- It can also use a MAC it computes with a secret it holds (`AttackerKeys`), over that body at any route (`ForgeableSigns`).

### `SignText`

The symbolic sign texts shared by `HookServer` and `MqConsumer`: the free
MAC term `Mac(key, data)`, the forms `empty`, `junk`, `canonical` and
`alias`, and the guard on forms (`IsCanonicalBase64`,
`ConstantTimeEqualBase64`). `Base64Guard` is what justifies reducing texts
to these forms.

### `Base64Guard`

`isCanonicalBase64`, `constantTimeEqualBase64` and the verifier's order of
tests at byte level, over Go's `base64.StdEncoding`.
- `StdEncode` is `EncodeToString`.
- `DecodeQuantum` and `DecodeFrom` follow the standard library's `decodeQuantum`:
  - `'\r'` and `'\n'` are skipped anywhere;
  - the end of input is only allowed before a quantum's first sextet;
  - `=` ends a quantum after three sextets, or, as `==`, after two;
  - anything after the padding (newlines aside) is an error;
  - the unused low bits are ignored (the encoding is not `Strict`).
- A text is a sequence of symbols: letters by their sextet value, and `Pad`, `NL`, `CR` and `Other`.
- One step verifies one text against one expected MAC.

### `MqConsumer`

The sample Kafka consumer around `DecodeAndVerifyMqEvent`, with the MQ
signing domain and `encodeMqEvent` at field level (fields absent when zero,
in field order, as a function from field numbers to values).

**State.**
- `topic` is the tenant's event topic, a sequence of messages.
- `published` is the set of events the platform signed.
- `offset` is the committed offset of the consumer group.
- `pc` and `cur` say whether the loop is reading or processing, and which message it holds.
- `handled` is the set of the offsets the consumer accepted.
- `crashes` counts deaths of the process.

**Actions.**
- `Publish` is the platform signing an event of the tenant as `mq_test.go` does.
- `Inject` is the attacker appending a message to the topic: a malformed value, or any event with no sign, a junk sign, any form of a MAC seen on the topic, or a MAC under a secret it holds.
- `ReadMessage` is kafka-go's `ReadMessage` with a `GroupID`: it fetches the next message and commits its offset before it returns.
- `Process` is the rest of one loop iteration: `DecodeAndVerifyMqEvent`, then a decode error is skipped, a rejected event dropped and an accepted one handled.
- `Crash` is the process dying (`log.Fatalf`, a kill) and restarting from the committed offset.

**Fairness.** `WF` on `ReadMessage` and `Process`. The loop is one
goroutine, and it only blocks in `ReadMessage` while no message is
available. The platform, the attacker and crashes get no fairness.

### `MqConsumerProofs`

This module holds the consumer's inductive invariant, its lemmas and its theorems (see Proofs).

### `WireCodec`

The request codec and the MQ event codec at byte level, over the protowire
primitives they call.
- `AppendVarint`, `AppendTag` and `AppendBytes` are the encoders.
- `ConsumeVarint`, `ConsumeTag`, `ConsumeBytes` and `FieldValueLen` (`ConsumeFieldValue`, groups included) are the decoders.
- Varints keep their width, scaled: at most `MaxVarintLen` bytes, holding `Width = 7*(MaxVarintLen-1)+1` bits (64 for Go's 10).
  - `uint64(x)`, `int64(v)` and `EventType(v)` (int32, half the width) are modular conversions.
  - TLC's integers are 32-bit, hence the scaling.
- `MetaFrom`, `RequestFrom` and `MqEventFrom` are the decode loops of `decodeHookMeta`, the three request decoders and `decodeMqEvent`.
  - A known field number is read with its field's consumer whatever its wire type, as `wire.go` dispatches on the field number alone.
- One step decodes one body.

### `WireInts`

The integer conversions the codecs use, without recursion, so that
`WireIntsProofs` can prove facts about them.
- It holds `MaxVarintLen`, `Width`, `U = 2^Width` and `Width32`, the int32 width.
- `Uint64(x) == x % U` is `uint64(x)` on encode (`wire.go:88`, and `wire_mq.go` for the event type and the timestamp).
- `Int64(v)` is `int64(v)` on decode (`wire.go:50`).
- `Int32(v)` is the `EventType(v)` truncation (`wire_mq.go:27`).
- `PowersAssumption` states the facts about powers of two that the proofs use. Examples are `2^Width = 2 * 2^(Width-1)` and `2^Width = 2^Width32 * 2^(Width-Width32)`.
  - The provers treat `^` as uninterpreted, so these facts are assumed rather than proved.
  - They are true for every width, and TLC evaluates them on every codec run.

`WireCodec` EXTENDS `WireInts`.

### `HookServerHistory`

This module adds a history variable to `HookServer`.
- `deliveries` is a bag that counts how often each signed request (with its route, sign text aside) reached a business handler.
- The count saturates at 2.
- The history only observes the steps; it never restricts them.

### `HookServerProofs`

This module holds the inductive invariant, the lemmas and the theorems.

### `MCHookServer` and `MCHookServerHistory`

These are the TLC instances.

## Runs

The instance has three tenants:
- `t1`: hosted, with secret `k1`;
- `t2`: unregistered;
- `t3`: its secret `k3` is held by the attacker.

The lookup also answers ok for the empty tenant id, so that the handlers' own empty-id test is what rejects it.

The other bounds:
- one field value `v1` (plus `""`);
- one request id and one timestamp;
- `MaxSent = 2`.

These bounds are enough for every case that matters:
- the platform can sign two requests on different routes, or with and without a device id;
- the attacker can splice any field of one signed request into another body;
- every route sees both field values (`v1` and `""`).

Across the passing runs, every action and every disjunct of `HandleRoute` fires.

| Run | Config | Expect | Shows |
|---|---|---|---|
| `hook_server_required` | `MCHookServer.cfg` | pass | `SignedRequestsAuthentic` with RequireSign on: a request that reaches a handler or is granted comes from a registered tenant, and carries content the platform signed for that tenant (unless the attacker holds that tenant's secret) |
| `hook_server_optional` | `MCHookServerOptional.cfg` | pass | `SignedRequestsAuthentic` with RequireSign off and only Auth configured: a request that carries a signature is still verified |
| `route_confusion` | `MCHookServerRoutes.cfg` | violation | `SignedForRoute` fails (see the findings below) |
| `replay` | `MCHookServerReplay.cfg` | violation | `NoReplay` fails (see the findings below) |

The other instances:
- **`MCBase64Guard`**: every text of up to 5 symbols over four letters, `=`, the two newlines and junk (about 150,000 texts), against the MACs `<<0,0>>` and `<<0,1>>`.
  - Their canonical texts are `AAA=` and `AAE=`.
  - Five symbols is enough for a newline inside or after the text, for trailing garbage, and for a last sextet with non-zero unused bits.
- **`MCMqConsumer`**:
  - one tenant, with secret `k1`; the attacker holds `k2`;
  - one value, event types 0 and 2, one timestamp;
  - 2 messages on the topic, so that a forged message can come before or after a published one and reuse its sign;
  - 0 or 1 crash.
- **`MCWireCodec`**: varints of at most 3 bytes, so that 128 needs two bytes and the widest values are three.
  - Requests of the three routes have each string empty or one byte.
  - MQ events have the varying fields set or not.
  - Timestamps are 0, 1, 127, 128, the largest and the smallest of the width, and -1; event types are 0, 2, 127 and -128.
  - Each is followed by nothing or by an unknown field 13 of each wire type (a group with a nested field included).

| Run | Config | Expect | Shows |
|---|---|---|---|
| `base64_guard` | `MCBase64Guard.cfg` | pass | `GuardExact`: the sign check accepts exactly the canonical text of the expected MAC |
| `mq_required` | `MCMqConsumer.cfg` | pass | `MqEventsAuthentic` with REQUIRE_SIGN on: every handled event has the content of a published one |
| `mq_optional` | `MCMqConsumerOptional.cfg` | pass | `MqEventsAuthentic` with REQUIRE_SIGN off and a crash: every handled event that carries a sign is authentic |
| `mq_liveness` | `MCMqConsumerLive.cfg` | pass | `PublishedEventsHandled`: with no crash, every published event is eventually handled |
| `consumer_crash` | `MCMqConsumerCrash.cfg` | violation | `PublishedEventsHandled` fails once the consumer may die (see the findings below) |
| `codec_round_trip` | `MCWireCodec.cfg` | pass | `RoundTrip`: requests and events decode back from their encoding followed by unknown fields |

Each property of a passing run is broken by a mutant of the code:
- a payload without `device_id` in `PayloadForSign`;
- a gate that skips verification when signatures are optional;
- a platform that signs without `device_id`;
- `isCanonicalBase64` that only checks that the text decodes;
- `encodeMqEvent` that leaves `event_data` out;
- `DecodeAndVerifyMqEvent` that accepts every event when signing is optional;
- `clearMqSign` that keeps the sign (nothing verifies, so nothing is handled);
- `AppendVarint` that writes 128 as one byte.

`HookServer` assumes no fairness and states no liveness: the server answers
each request in one step, and the SDK has no waiting or retry of its own.
`MqConsumer` assumes weak fairness of its loop (see above). Every
`MCMqConsumer*.cfg` says `CHECK_DEADLOCK FALSE`, because the consumer really does wait forever on an
empty topic once the bounded platform and attacker are done.
`MCBase64Guard.cfg` and `MCWireCodec.cfg` say it too, because each of their
behaviours is one call and then stops.

## Findings

1. **Signatures do not bind the route.**
   - `CheckMessageRequest` and `GetGroupMembersRequest` share fields 1 and 2, and the signing payload does not say which route it is for.
   - As a result, a CheckMessage request the platform signed is accepted by `/get-group-members` as a request for the group named by the message bytes, and the reverse.
   - An Auth request with an empty `device_id` is accepted on both other routes.
2. **No replay protection.**
   - `request_id` and `timestamp_ms` are signed, but the code never checks that they are fresh.
   - A captured request is therefore accepted any number of times.
3. **The sample consumer loses events on a crash.**
   - `reader.ReadMessage` with a `GroupID` commits the offset before it returns the message.
   - A consumer that dies before it has verified and handled the message restarts after it, so a published event is never handled (at-most-once).
   - Fetching with `FetchMessage` and committing after handling would give at-least-once.

## Proofs

`HookServerProofs` proves, for every value of the constants that meets the
`ASSUME`s of `HookServer`:

- `TypeCorrect`: `Spec => []TypeOK`;
- `SignedRequestsAuthenticHolds`: `Spec => []SignedRequestsAuthentic`.

Both follow from the theorem `IInvHolds`: `Spec => []IInv`.

The assumptions are:
- the lookup maps tenant ids to keys or `NotFound`;
- the attacker's keys are keys;
- hosted tenants have a key;
- `""` is not a field value;
- `MaxSent` is a natural number.

### The inductive invariant

`SignedRequestsAuthentic` alone is not inductive, because it says nothing
about the signatures the attacker has seen. The strengthening is:

`IInv == TypeOK /\ SentInv /\ SignedRequestsAuthentic`

`SentInv` says that every member of `sent` is `SignedRequest(...)` for a
hosted tenant, with field 3 empty off the Auth route. `IInv` is a proof
device, not a property of its own: no run checks it. Its conjuncts are the
type, the shape of the platform's sends, and the invariant itself.

### The argument

The key lemma is `GateSound`. Assuming `SentInv`, any sign text the attacker
can build that passes a known tenant's gate either:
- is a MAC under the attacker's own key, so that tenant's secret is an attacker key; or
- is a MAC the platform produced.

In the second case the MAC's data is the signing payload of a sent request.
`PayloadDeterminesRequest` says that the encoders are injective on requests
whose field 3 is empty off the Auth route. So the decoded request equals the
sent one (sign text aside), which gives `FromPlatform`.

`NextIInv` then goes through the actions one by one. `PlatformSend` and
`ServeShell` are easy. `HandleRoute` uses `HandleRouteServes` and `GateSound`.

### The MQ consumer

`MqConsumerProofs` proves, for every value of the constants that meets the
`ASSUME`s of `MqConsumer`:
- `TypeCorrect`: `Spec => []TypeOK`;
- `MqEventsAuthenticHolds`: `Spec => []MqEventsAuthentic`.

Both follow from `IInvHolds`: `Spec => []IInv`.

Those assumptions are:
- the tenant is a non-empty tenant id;
- the secret is a key, and the attacker's keys are other keys;
- REQUIRE_SIGN is a Boolean;
- `""` is not a value;
- the event types are naturals, including 0;
- the bounds are naturals.

The inductive invariant is:

`IInv == TypeOK /\ PubInv /\ CurInv /\ TopicSafe /\ HandledOk`

Its conjuncts say the following:
- `PubInv`: every published event is `SignedEvent(e)` for an unsigned event `e`.
- `CurInv`: while processing, the loop holds the message at the committed offset.
- `TopicSafe`: every message on the topic is `Good`. If the consumer would accept it, and it is signed or signing is required, then its content was published.
- `HandledOk`: every handled offset holds a message that verifies.

`IInv` is only proved; no run checks it as a property of its own.

The key lemma is `GateSound`: everything the attacker can append is `Good`.
- A sign that verifies under the tenant secret carries `Mac(Secret, encodeMqEvent(e))`.
- It cannot be a MAC under an attacker key, because those keys are other secrets.
- So it is a MAC seen on the topic, that is, one of a published `SignedEvent(e2)`.
- `EncodeInjective` says that the field-level encoding determines the unsigned event. It is injective because a field is absent exactly when it holds its zero value. So `e2 = e`.

### The integer conversions

`WireIntsProofs` proves, for every `MaxVarintLen` that `MaxVarintLenAssumption`
allows:
- `TimestampRoundTrip`: `Int64(Uint64(ts)) = ts` for every signed value of the width. This is the timestamp round trip of both codecs.
- `Int64Inverse`: `Uint64(Int64(v)) = v` for every unsigned value of the width.
- `EventTypeRoundTrip`: `Int32(Uint64(e)) = e` for every value of the int32 range. A negative type is sign-extended to the full width on encode and truncated back on decode.

The argument splits on sign:
- A non-negative value below the modulus is its own remainder.
- A negative one becomes `x + U`.
- For the event type, `x + U` is written as `U32 * (K - 1) + (x + U32)` with `U = U32 * K`. The remainder then follows from the lemma `ModUnique`: `(u*q + r) % u = r` for `0 <= r < u`.

These theorems are the integer half of `RoundTrip` for every width. The byte half (`AppendVarint` and `ConsumeVarint`) stays with TLC.

### No abstract specification

There is no separate abstract specification of the gate or of the consumer.
- Each component promises its authenticity invariant (`SignedRequestsAuthentic`, `MqEventsAuthentic`), and the theorems above state it directly.
- The consumer's in-order, at-most-once delivery follows from the committed-offset counter alone.
- An abstract consumer that may skip a message would also allow the crash loss of finding 3.

### What stays with TLC

The following are only model-checked:
- the violations;
- `NoReplay`, a bag history;
- `GuardExact` (`Base64Guard`) and `RoundTrip` (`WireCodec`);
- `PublishedEventsHandled`, which is liveness.

`GuardExact` and `RoundTrip` stay with TLC for these reasons:
- Their definitions are recursive operators over texts and byte strings.
- A proof for every length needs induction over the data.
- The library's induction theorems (`NatInduction` and the others) take the predicate as an operator parameter, which none of the installed provers can instantiate.
- A module that reaches a RECURSIVE operator also loses the SMT backend.

`PublishedEventsHandled` stays with TLC because it needs weak fairness and ENABLED, which the provers here do not handle.

## Not modelled

- **The response encoders** (`wire_responses.go`). The server only writes them; the SDK never decodes them or signs over them.
- **The topic names** (`EventTopicName`, `DlqTopicName`). They are string concatenation, checked by `mq_test.go`.
- **The sample hook server.** It is environment variables and an `http.Server` around `NewHookServer`.
- **The byte layout of the hook signing payload**: the payload, then `request_id`, then the timestamp as 8 little-endian bytes.
  - It stays inside the symbolic MAC.
  - The models therefore assume that the hook and MQ domains cannot produce the same HMAC input. A hazard in `PROJECT.json` records this.

`PROJECT.json` lists every hazard, with the properties that cover it or a
note saying why none does.
