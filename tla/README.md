# A verification development for the Codestra SDK repository

This directory holds TLA+ models of the parts of the repository whose
correctness depends on the order of events, or on two pieces of code agreeing
about the same data: several callers, a database, a provider that may answer
late or never, processes that crash, leases, tokens and claims that expire,
clients and servers that validate the same message with separate code. TLC
checks the models on small instances; TLAPS proves the most important
properties of seven of them for every instance.

Paths below are relative to the repository root.

## 1. The system

The repository is a set of client SDKs, browser and workflow integrations, and
one server, the *Middleware* (`services/middleware`), through which every
mutation of a tenant's data and every command to an outside provider goes.

| Component | State it keeps | Operations | Interacts with | Module |
|---|---|---|---|---|
| Idempotency ledger, `services/middleware/src/idempotency/prisma-store.ts` | one row per scope `tenant:namespace:operation:key`: state, fingerprint, lease token, expiry, result | `begin`, `markDispatched`, `complete`, `markIndeterminate`, `releaseBeforeDispatch`, `resolveIndeterminate`, `get`; each one transaction with a row lock | the two guards below | `LedgerRow` |
| Mutation guard, `.../idempotency/run-mutation.ts` | a lease held across awaits | `runIdempotentMutation(store, params, work)` | ledger; `work()` is a route's mutation | `RunMutation` |
| Connector runner, `packages/connector-kit/src/index.ts` | a circuit breaker per tenant and connector, in memory | `execute`, `executeReadOnly`, `reconcileIndeterminate`, `getIdempotencyStatus` | ledger; a connector to a provider; timers | `ConnectorRunner`, `GatewayCommands` |
| In-memory store, same file | a map of records, dropped by `cleanup()` | the ledger's interface | the runner's tests, local development | `LedgerParity` |
| Restricted gateway connector and client, connector routes | none | commands, pages, health over HTTP | runner, private gateway | `GatewayCommands` |
| Provider adapters, `packages/provider-adapters` | none | execute, reconcile, test, webhooks | private gateway | `GatewayCommands` |
| Social-post routes and outbox, `routes/social-posts.ts`, `outbox/writer.ts` | posts, outbox events | create, list, get, cancel | mutation guard, database | `SocialPosts`, `PostPages` |
| Webhook-subscription routes, SSRF policy, dispatch | subscription row with current and previous secret, deliveries | create with verification, enable, disable, delete, rotate, test | mutation guard, database, the tenant's endpoint | `WebhookSubscriptions` |
| Server shell: `server.ts`, `auth/jwt.ts`, `env.ts`, `errors.ts` | none | authentication, error mapping | all routes | partly in `SocialPosts` |
| Webhook SDK, `packages/webhook-sdk` | replay claims; processing records with leases | sign, verify, claim, mark processed or failed | receivers of webhooks | `SignedMessages`, `ReplayEndpoint`, `ProcessingEndpoint`, `WebhookForms` |
| n8n event boundary, `integrations/n8n-nodes/src/internal-event-*.ts` | none; a claim at a remote replay guard | accept a signed event | replay guard over HTTP, a workflow | `InternalEvents`, `CanonicalEvent` |
| Social SDK client, `packages/social-sdk` | none | `request()`: timeout, retry with the same key; validators, parsers, paging | Middleware | `SocialClient`, `Exchanges`, `PostPages` |
| Communications SDK client, Codestra SDK facade, Python client | none | commands, read back | the command plane | `CommandClients`, `Exchanges` |
| Intake BFF, `packages/intake-bff` | a token cache | forward one submission, retry, refresh on 401 | identity provider, intake gateway | `Intake` |
| Intake UI, form, survey, SDK | submit state, answers | submit, reset, validate, build, score | the BFF | `Intake`, `Questionnaires` |
| Voice controls, `packages/intake-voice-controls` | session, stream, mute, state | start, mute, end, dispose, overlapping at awaits | a voice transport, the microphone | `VoiceControl` |
| OpenAPI documents and the drift gate, `scripts/check-contract-drift.mjs` | a pinned runtime authority | compare two releases, import the authority | release engineering | `ContractDrift` |
| Moneybee connectors (Python) | claims without expiry | submit once, read back, verify webhooks | Middleware | `CommandClients`, `ReplayEndpoint` |
| n8n action node, `integrations/n8n-nodes/src/nodes/Codestra` | the items done in this run | `execute()`: twelve operations, one call per item | n8n, Middleware | `WorkflowNode` |
| Svix delivery, `packages/svix-delivery` | none | `deliver()` | outbox, Svix | `SvixHandoff` |
| Camel protocol gateway, `services/camel-protocol-gateway` | allowlists read at the start | start, check of a command | Middleware | `ProtocolPolicy` |
| Contracts, consoles, Orbit packages, scripts | none or demo state | types, user interface, tooling | - | not modelled |

### What is hard, and what makes each component correct

- **Ledger and mutation guard.** Requests with one key overlap, in one process
  or several; a lease may lapse while its holder still runs; every store call
  may commit and lose its acknowledgement; a process may die anywhere. Correct
  means: the effect of `work()` happens at most once while the key's result
  lasts, is never forgotten, and every caller is told the truth.
- **Connector runner.** The same, with an effect that happens at a provider
  which may act after the runner stopped waiting, reconciliations that compete
  with the original caller for the row, and a breaker that is checked before
  awaits and updated after them.
- **In-memory store.** It must behave like the database store it stands for.
- **Gateway commands.** A command passes a runner, an adapter and a gateway
  whose receipts are read by three pieces of code. What its caller is told must
  be of this command, although scopes are joined strings; what is refused was
  not done; what was never sent leaves no claim.
- **Webhook subscriptions.** Handlers read the row, await other services and
  write it back. Only verified subscriptions become active, a rotated secret
  stays usable as announced, a test delivery is recorded.
- **Social posts and their client.** State change and outbox event commit
  together, one event per key, no tenant reaches another's post; a client that
  retries over lost answers is told what is true and stays true.
- **Receivers of webhooks.** An event is let in once although it is redelivered
  and its claim expires; a worker that outlived its lease decides nothing; a
  claim whose answer is lost is at least reported.
- **Workflow node and Svix handoff.** A node that fails at an item throws its
  output away and is run again from the first one; a dispatcher may die after
  Svix took the message. Both rely on a key that stays the same.
- **Protocol gateway.** Nothing passes that the operator did not name in both
  lists, in whatever spelling.
- **Intake.** A retried submission keeps its key and makes one lead; a cached
  token is still good when it is used; the page shows the answer to the latest
  submission; what is stored can be read and scored.
- **Command clients.** A timeout, a lost answer or a caller's own signal must
  not turn an unknown outcome into a definite one, nor a call into one that
  never ends.
- **Voice controls.** Once the session is over no microphone track and no
  transport session stay open, whatever overlaps.
- **Contract drift.** Each release is compared with the one before only, and
  clients several releases old must still work.

`PROJECT.json` lists the hazards line by line, with the properties that would
catch them.

## 2. Modules

| Module | What it is |
|---|---|
| `LedgerRow` | the ledger row and the transitions of `PrismaIdempotencyStore`, as operators on a row |
| `RunMutation` | concurrent calls of `runIdempotentMutation` over the ledger |
| `OnceOnly` | the abstract contract of a keyed mutation |
| `ConnectorRunner` | the runner, its breaker and an external provider, over the same ledger |
| `LedgerParity` | the database store beside the in-memory store |
| `GatewayCommands` | a command through runner, adapter or connector, gateway and back |
| `WebhookSubscriptions` | the handlers of the webhook-subscription routes and the endpoint, over the contract of the mutation guard |
| `SocialPosts` | the social-post routes and their outbox, over the same contract |
| `SocialClient` | the social SDK's request loop, composed with `SocialPosts` |
| `PostPages` | a walk over the pages of posts while posts are created and cancelled |
| `CommandClients` | the three clients of the command plane |
| `Exchanges` | one call of any client: what it takes, what the route takes, what it understands |
| `SignedMessages` | signed messages on a network, the clock and the rotation of secrets; the environment of the three receivers |
| `ReplayEndpoint`, `ProcessingEndpoint`, `InternalEvents` | the three receivers |
| `WebhookForms` | the checks of a signed message's headers, the receiver's secrets and options, and the text of the claim |
| `Receivers` | the receivers and the forms beside each other, over one environment |
| `CheckLists` | checks made one after the other, and the first that fails |
| `CanonicalEvent` | the events of the outbox: who writes them, who validates them, the schema between |
| `WorkflowNode` | the n8n action node over n8n's retries, loops and reruns |
| `SvixHandoff` | dispatchers that hand the outbox's events to Svix |
| `ProtocolPolicy` | the protocol gateway's start and its check of commands |
| `Gateways` | the two gateways side by side: what both promise |
| `Intake` | form, controller, SDK and BFF with its token cache |
| `Questionnaires` | what a respondent's answers become |
| `VoiceControl` | one voice controller in a browser, its microphone and its remote sessions |
| `ContractDrift` | the drift gate over a succession of releases |
| `MC...` | instances for TLC: small sets, symmetry, scenes (`LedgerParity` is its own) |
| `LedgerRow_proofs`, `RunMutation_proofs`, `ConnectorRunner_proofs`, `WebhookSubscriptions_proofs`, `Receivers_proofs`, `Intake_proofs` (with `VoiceControl`), `Clients_proofs` (`SocialClient`, `CommandClients`, `WorkflowNode`, `SvixHandoff`), `Agreements_proofs` (`LedgerParity`, `ContractDrift`, `Gateways`, `Exchanges`, `PostPages`, `Questionnaires`) | theorems |

`SocialClient` extends `SocialPosts`; `ReplayEndpoint`, `ProcessingEndpoint`,
`InternalEvents` and `WebhookForms` extend `SignedMessages`, and `Receivers` all
four of them; `RunMutation`, `ConnectorRunner` and
`LedgerParity` extend `LedgerRow`. `WebhookSubscriptions` and `SocialPosts` use
the mutation guard as what `RunMutation_proofs` proves of it, the contract
`OnceOnly`: a key is open, started or done and never open again. The contract's
`Forget` is left out of both: they live within `completedTtlSeconds` of every
key.

### LedgerRow

A row is a record of state, hash, token, live and result. `hash` stands for
request hash and command id together: in `run-mutation.ts` the command id is
a function of the scope, in connector-kit it is part of the hashed text. Tokens
are numbers that only grow, as `randomUUID()` never repeats; 0 is NULL. `live`
is the only question the code asks of `lease_expires_at`, "later than now?".
`outcome_json` is set exactly in state `indeterminate` and is dropped.
Operators are named after the method whose effect they are: `Acquirable`,
`Refusal` and `Acquired` are the three parts of `begin`; `HoldsLease` is
`requireLease`; `MarkedDispatched`, `Completed`, `MarkedIndeterminate`,
`Released`, `CanResolve` the rest. Because each method is one transaction that
locks the row, a method call is one step of the modules that use it. The INSERT
race inside `begin` (a unique violation and up to five retries) ends either in
that same step or in an exception, which `BeginFails` covers.

### RunMutation

`pc[r]` is the await at which request `r` stands.

| Action | Code |
|---|---|
| `Send` | the caller, with a key and a body; also a retry of either |
| `Acquire`, `Refuse`, `BeginFails` | `begin` and the answers without a lease |
| `MarkDispatched`, `MarkDispatchedFails`, `Release` | dispatch; the release and the 500 of its `catch` |
| `WorkApplies`, `WorkRejects`, `WorkThrows` | `work()`: its effect, its 4xx, anything else it throws |
| `Complete`, `CompleteRejection`, `Retain` | the three ways to record the outcome, two of which swallow failures |
| `Crash` | the process dies; the row stays |
| `Lapse` | `lease_expires_at` passes |

A store call has three outcomes: committed and acknowledged, committed and
reported as an exception, not committed. Where the code ignores the difference
the model has one step for both.

Assumed of `work()`: its effect is atomic, and it throws a 4xx `CodestraError`
only before it. `socialPost.create`, `socialPost.cancel` and
`webhookSubscription.rotateSecret` are one database statement or transaction;
in the two webhook routes that also call the endpoint, "effect" is the first
write.

Two ghost variables serve the properties and are read by no action:
`effects` records every effect, and `generation[s]` counts the expired results
of a scope that were discarded, because "at most once" holds per generation.

### OnceOnly

Per scope: a stage (open, started, done, refused), the fingerprint it belongs
to, and the effects. It has no lease, no token, no process and no failure.
`RunMutation` maps a pending row to an open stage, a dispatched or
indeterminate row to a started one, succeeded to done and failed to refused;
its property `KeepsContract` is `OnceOnly!Spec` under that mapping.

### ConnectorRunner

`execute`, `executeReadOnly` and `reconcileIndeterminate` of concurrent
requests in one process, over the same row transitions. The breaker is a record
of failures (up to the threshold), opened (`no`, `cooling`, `due`) and
`probeInFlight`; `Cool` lets `resetAfterMs` pass. `Admit` is the code between
two awaits: the abort check and `beforeRequest()`. `ProviderAnswers`/`CallFails`
are the two ends of the race between provider and timer, with the breaker's
update. `Crash` ends all calls and loses the breaker, but not the ledger.

The provider is external: `CallProvider` delivers a command, `Decide` lets the
provider take it up or reject it at any time afterwards or never, and a
reconciliation tells the recorded verdict or none. It keeps one verdict per
command, as a provider does that honours the forwarded idempotency key. The
statuses `completed` and `accepted`, which runner and store treat alike, are
one.

### GatewayCommands

What surrounds the runner's protocol, with one call as one step: the checks
before the claim (`RefusedByRunner`), the canonical form of a payload and the
fingerprint, the scope that joins operation and key by a colon, the five
manifests of the adapters and their switches (`RefusedByAdapter`), the reading
of a receipt by adapter or client, the runner's `validateResult`, `reconcile`
and `reconcileCommand`, the status read, the connection test, pages, and
`ingestWebhook` with the events a host's normalizer gives it. The gateway is
external: an answer in the 4xx means that it did nothing, a receipt of its own
is true, everything else leaves it open. A string that may hold colons is the
sequence of what is between them, so that two pairs with one scope really occur.

### LedgerParity

Both stores receive the same calls about one scope with the same clock and
tokens, including calls under leases long lost. `replies` holds what each store
told the caller. The in-memory record also goes through `cleanup()`, which
`begin` and `get` of any scope run (`OtherScope`).

### WebhookSubscriptions

`create`, `delete`, `enable`, `disable`, `rotate-secret` and `test` of
concurrent requests, as the handlers of `routes/webhook-subscriptions.ts`; list
and read change nothing. `pc[r]` is the await at which a handler stands.

| Action | Code |
|---|---|
| `Send` | a request of one of the six operations |
| `Load` | `requireOwnedSubscription()`, with which all but `create` begin; what is read goes into `seen` |
| `Begin`, `Complete` | `runIdempotentMutation` of `create`, `rotate` and `test` hands the key to this request; the response is stored |
| `Insert`, `Challenge`, `RecordVerification` | `create`: the row, the signed challenge, the update with its outcome |
| `Rotate` | the one update of `rotate-secret` |
| `Resolve`, `Queue`, `Dispatch`, `Report` | `test`: the SSRF policy, the delivery row, the event, the delivery's outcome |
| `Enable`, `Disable`, `Delete` | the write of each |
| `Fail` | the handler ends where it is: a refusal, a call that throws, a crash |

Which answer a request gets that finds its key taken (a conflict, a mismatch, the
stored response) makes no difference to the tables, so each is a `Fail`.

Secrets and delivery ids are numbered in the order in which they are drawn.
Within one statement the database is atomic: `update()` throws when the row is
gone (`Update`), and `webhookDelivery.create()` is refused by the foreign key.
The endpoint is external: a message may be answered with 2xx, be heard and the
answer lost or be another, or not be heard. `proven` and `heard` are ghosts that
record it. The SSRF policy passes or refuses, since it resolves the name anew
each time.

### SocialPosts and SocialClient

`SocialPosts` is `create` and `cancel` behind `authenticate()`; `pc[r]` is the
statement at which a request's transaction stands, under READ COMMITTED: a
cancel reads the status without a lock, its UPDATE waits for the row lock, and
nothing is seen before the commit.

| Action | Code |
|---|---|
| `Arrive` | rate limit, token and tenant header of `authenticate()` |
| `Begin`, `BeginFails`, `Replay` | the mutation guard: open key, ledger out of reach, key used before |
| `Insert` | the transaction of `create`, post and outbox event |
| `ReadPost`, `UpdatePost`, `CommitCancel` | the transaction of `cancel`: the read, the row lock, event and commit |
| `WorkFails`, `Complete`, `Reject` | how `work()` may end and what is stored |
| `Respond`, `Crash` | the answer leaves; the process dies, PostgreSQL rolls back |
| `Publish` | the external publisher |

`SocialClient` sends the requests: `Invoke`, `SendAttempt`, `Receive`,
`Disconnect` (no answer, or a gateway's), `GiveUp` (timer or signal, never
retried), `Wake` (the retry). An attempt that was given up goes on at the
server (`Serve`), beside the next attempt. `event.by` is a ghost, the scope of
the mutation that wrote the event.

### PostPages, CommandClients, Exchanges

`PostPages`: rows are read with `limit + 1` from the cursor on; `Walk` is one
page. Posts of the same millisecond are ordered by identifier. A page is the set of
its posts (`FirstOf`): the order within it is that of the posts, and the order
of the pages is part of `PagesMissNothing`.

`CommandClients`: `client[c].kind` says which of the three clients a caller
uses; they share `Call`, `Post`, `Fails`, `TimesOut`, `Aborts`, and only the
communications client has `Retry`, only the Python one `ReadBack`. The plane is
external: it executes a key once, repeats its envelope as a duplicate and
refuses another command under the key.

`Exchanges`: for every operation of the social, communications and canonical
clients a record of method, identifier, key, body (or query) and answer;
`BodyTaken` is the client's validator, `TakenThere` what the route checks of key,
identifier and input: `InputTakenThere` is its schema, strict members and the
record of `metadata` included, with `decodeCursor` for a list and the
destination policy for a subscription. `Serve` and `Refuse` are the two answers;
`Answers` is what an operation may be told of, the rows that are there or any
receipt the contract allows, and `Parses` whether the client understands an item
of it (`PostParses`, `SubscriptionParses`, `OperationParses`). `others` stands
for members no schema knows, a cursor is a `token` when it decodes to a UUID,
`unfit` is a body the client does not look at and the contract refuses, and
otherwise a string is the kind the checks tell apart. `OnlyTakenHere` lists
what a client takes and its route does not; `TakenHereIsTakenThere` has the list
both ways, so that nothing is missing from it and nothing is on it without cause.

### SignedMessages and the receivers

`SignedMessages` is the environment: a message is what `signWebhook()` made of
an event, a timestamp and a secret; any message sent may arrive at any time, any
number of times; the clock runs and secrets rotate. `Verifies` is
`verifyWebhook()`. A signature is the secret it was made with.

`ReplayEndpoint` is `verifyAndClaimWebhook()`: the check of the timestamp and
the claim are two steps, the clock runs between. `expiring` tells the webhook
SDK's store from the Moneybee one. `ProcessingEndpoint` is
`verifyAndClaimWebhookProcessing()` with the handler of the package's README:
`VerifyForLease`, `GrantLease`/`RefuseLease`, `HandlerEnds`, `MarkProcessed`,
`MarkProcessedThrows`, `MarkFailed`, `WorkerCrashes`. `InternalEvents` is the n8n
trigger: `Receive` verifies and validates, then one of the guard's answers:
`Dispatch`, `ReceiptUnread`, `ReplayDetected`, `GuardFails`, `ClaimTimesOut`; a
claim that was given up may still reach the guard (`LateClaim`).
`CanonicalEvent` has the boundary's validation check by check (`EventFailure`),
the schema of the contract (`EnvelopeConforms`) and what the outbox writes.

`WebhookForms` is one call of `verifyWebhook()` with what the other modules leave
out: how headers are written, the tokens of the signature header, the list of
secrets with malformed ones in it, the options and the scope. The checks are
lists in the order of the code, and the code's answer is the first that fails. A
text is its words between colons, so that scopes could collide. Event ids
without dots are assumed, as the package's senders make them.

`Receivers` puts the three and the forms beside each other on one network; each
has a store of its own, so a step of one leaves the others alone.

### WorkflowNode, SvixHandoff, ProtocolPolicy

`WorkflowNode` is one node of a workflow. n8n is external: `Trigger`,
`LoopAgain`, `TryAgain` and `RerunExecution` are its ways to start the node, all
of which are `BeginVisit`, the head of `execute()`. One turn of its loop over the items
is `TakeItem`, `RefuseItem` or `LoseItem`, after which the request may still
arrive (`ArriveLate`). The Middleware is what `RunMutation` says of it: `Arrives`
and `Succeeds` distinguish the operations that go through the ledger, those whose
repetition is harmless, and the deletion, which finds nothing the second time.

`SvixHandoff`: `Deliver`, `Resolve`, `Create` and `CreateFails` are `deliver()`
between its awaits. Svix makes one message of a key in an application; the
outbox hands an event over until it has a receipt or a failure that is not
retryable. An answer whose id is missing rather than blank throws a TypeError
and is a `CreateFails`. Distinct events have distinct keys.

`ProtocolPolicy`: `StartGateway` is `main()` and the construction of the routes,
`ProtocolCommand` the guarded route. A text that may hold colons is the sequence
of what is between them. The list of operations joins protocol and operation by
a colon, so that of a protocol whose own name holds one the gateway cannot tell
which of the two a word belongs to: an operator who lists `a:b:c` lets through
`c` of `a:b` as well as `b:c` of `a`. `ProtocolsAreTrue` says that a command is
let through only when it was meant of protocols of one word, and whenever it was
meant of all.

### Intake and Questionnaires

`Intake` runs a form, its controller, the SDK's call and the BFF against an
identity provider and a gateway: `Submit`, `Show`, `Remount`, `Reset` are the
page; `Handle`, `Headers`, `Cache`, `Forward`, `Answered`, `FetchFails` the BFF;
`Issue`, `ProviderFails`, `GatewayReceives`, `Lose`, `Revoke` what is external.
Time is counted in units of a few seconds, and the BFF's timers are deadlines
that `Tick` does not pass.

`Questionnaires` follows answers from the controls of a page
(`NormalizeValue`, `FormValues`) or from another caller through the engines
(`ValidSurvey`, `VisibleAnswers`, `ValidForm`, `BuildsSurvey`, ...), the SDK's and
the adapter's checks into what is stored, and `Nps` over that. An answer is a
pair of its JavaScript type and a value.

### VoiceControl

One `VoiceControlController`. `call[c]` is the await at which a pending promise
of the host stands: the permission, the start, the stop of a late session,
`attachStream`, the stop of a failed start, the mute signal, the stop of `end`.
Every action is the code from one await to the next.

| Action | Code |
|---|---|
| `Start`, `MicrophoneGranted`, `MicrophoneDenied` | `start()` and the `requestMicrophone()` it calls |
| `Started`, `StartFails` | the answer of `transport.start()`, with the look at `endRequested` |
| `LateStop`, `Attached`, `FailedStop` | what `start()` awaits afterwards, including its `catch` |
| `SetMuted`, `MuteSignalled`, `MuteFails` | `setMuted()`, `toggleMute()` |
| `End`, `Ended` | `end()`: without a session id it has no await and is one step (`EndNow`) |
| `Dispose` | `dispose()`, also when the controls are unmounted |

The browser and the `VoiceTransport` are external: a granted microphone captures
until its tracks are stopped (`mic`), a remote session lives from the answer of
`transport.start()` until a `stop()` that succeeds (`live`), and a rejected
`transport.start()` leaves none. `Mounted` says whether calls come from the
buttons of `mountVoiceControls()`, which the state disables, or from any host.
A host does not call `start()` again while the browser asks for the microphone;
with two prompts at once the later stream would simply replace the earlier.

### ContractDrift

A behaviour is a succession of releases of one operation. `Release` is a
document that passes the gate (`PassesGate`) against the one before it;
`Repin` and `Import` are the two hands that edit the pin and the snapshot of the
runtime authority. `ScalarKept`, `ObjectKept`, `BodyKept`, `ParametersKept`,
`ResponsesKept` and `SecurityKept` are the functions of the script; the
recursion of `compareSchema` is taken twice. What a document means is defined
apart from them, by the values that fit it (`ScalarFits`, `ObjectFits`), so that
`WorksAgainst` is a reference the comparison is checked with.

## 3. Runs

| Run | Checks | Instance |
|---|---|---|
| `mutation_guard` | `SoleWorker`, `AtMostOncePerGeneration`, `EffectIsRecorded`, `AnswersAreTrue`, `UnknownOutcomeSticks`, `KeepsContract` | 1 key, 2 bodies, 3 requests, 3 leases; 174 000 states |
| `connector_runner` | `AtMostOneCall`, `AnswersAreTrue`, `SettledIsFinal` | 2 requests, 2 bodies, 3 leases, threshold 1; 834 000 states |
| `connector_liveness` | `EveryCallEnds` | 2 requests, 1 lease, fairness; 33 000 states |
| `ledger_parity` | `StoresAgree`, `SameLeaseSameState`, `UnknownOutcomeSticks` | 2 bodies, 3 leases; 17 000 states |
| `webhook_subscriptions` | `ActiveIsProven`, `EventsAreAccountedFor`, `SecretHasItsKey`, `DeletedForGood` | 1 subscription, 1 key, 3 requests, 3 random values; 1 308 000 states |
| `voice_session` | `EndIsTrue`, `NothingEscapes`, `LateSessionIsStopped` | any host, 3 pending calls, 2 starts; 273 000 states |
| `social_posts` | `DatabaseAgrees`, `ToldTheTruth` | 1 caller with 1 retry, 2 requests, 2 keys, 2 tenants, 2 posts; 1 073 000 states |
| `receivers` | `StoresHold`, `ClaimsSpentWell`, `FormsAgree`, `AcceptedOncePerWindow`, `VerdictIsFinal` | 2 workers, 2 events, 2 messages, 2 secrets, 5 instants; the showings of `MCReceivers`, two in a row; 1 080 000 states |
| `edge` | `OneLeadEach`, `PageIsTrue`, `ExpiredOnlyWhenLate`, `OutcomesAreTrue`, `NodeIsTrue`, `HandoffIsTrue`, `EveryCommandEnds` | 2 submissions, 2 tokens, 4 instants; 1 caller of each kind, 2 rounds; 3 batches, 2 executions, 2 visits, 2 tries; 2 dispatchers, 1 move; 1 872 000 states |
| `rules` | `StoredIsFit`, `EndsAgree`, `PagesMissNothing`, `GatewaysAreTrue`, `OldClientsStillWork`, `CorrectionIsTrue` | the inputs of `MCRules`; 452 000 states |
| `dispatch_failure` | what an error message says of the guard | violated |
| `replaced_is_kept` | what the OpenAPI contract says of a rotated secret; 2 keys, 2 requests | violated |

`StoresHold`, `ClaimsSpentWell`, `PageIsTrue`, `OutcomesAreTrue`, `StoredIsFit`,
`EndsAgree`, `FormsAgree`, `NodeIsTrue`, `HandoffIsTrue`, `GatewaysAreTrue` and
`DatabaseAgrees` are conjunctions of named parts, each stated and commented where
it is defined. `StoresAgree` and `EndIsTrue` are `AgreeUntilExpiry` and
`EndedIsOver` with the module's type invariant. The other type invariants are
proved (section 4) and in no run.

**Scenes.** `receivers`, `edge` and `rules` each check several modules that do
not interact. A variable `scene`, chosen at the start, says which of them a
behaviour is about; the others stand still. In `receivers` the environment is
shared. In `edge` the scene "time" runs the clock under one mounted form and
"page" has the remounts, resets and revocations at one instant, because the
two multiply and nothing on the page looks at the clock.

**Why these bounds are enough.** Scopes do not share state in the ledger, so
one key shows every interference; two bodies are one request and one that does
not match it. Three leases are a first holder, the one that takes over from it
and a third after a result expired, so every transition of a row occurs with a
stale holder still running; three requests let all of them be alive at once.
`MaxLeases` bounds nothing else, and a request refused for want of leases just
waits. In `ConnectorRunner` the breaker's failure count matters only relative
to the threshold, and threshold 1 makes every failure open the circuit.
Sends, crashes and expiries are unbounded in number.

In `WebhookSubscriptions` subscriptions share no row, and the keys of
`create`, `rotate` and `test` are apart already (the operation is part of the
scope), so one subscription and one key let a create, a test and an enable or a
delete overlap, each at any await; two rotations need two keys, as in
`replaced_is_kept`. `MaxDrawn` bounds the secrets and delivery ids: three are a
create, a rotation and a test. In `VoiceControl` three pending calls are a
start, a mute and an end, or two ends; with two starts, either of which may
overlap anything, `OneLife` says where the properties stop (see below).

In `social_posts` two requests at the server are an attempt that was given up
and the one after it, or the same of two calls, since a caller does not wait for
what it gave up; the three menus of `MCSocialClient` are the three ways two
calls can meet: two keys on one post, two tenants, one key on two posts. Any
number of callers is what the proofs are for.

In `receivers` `Tolerance` and `Skew` are 1, so that a message can be early, on
time and late by the least amount, and five instants hold the window of a
message, its claim's end and a claim after it. Two messages are an event and its
second signature. In `edge` of the token lifetimes 3 and 4 the skew uses up
one and not the other, two attempts are a try and its retry. In `rules` every input differs from
a good one in one field, which is how the checks of a field are told apart;
three releases are the least at which a client is older than the release before;
three posts with pages of one give a walk of three pages.

In the scene "workflow" of `edge` a batch is two items, so that one is done
before another fails, and at most one request is under way behind the node's
back; two visits, tries and executions are a first and a repeated one each. In
"handoff" two dispatchers hold the same event. In "forms" of `receivers` a showing
differs from a good one in up to two fields, and two in a row are enough to
compare claims; its messages are signed at the first of three instants, so that
one may be late. In "protocols" of `rules` two starts are a change of the lists.

**Symmetry** over requests, keys, bodies, calls and workers is used in runs
without liveness only.

**Deadlock** is checked where a request can always be sent. It is off for
`voice_session`, since a controller stops for good once it is disposed of and
its calls have settled, and for `receivers`, `edge` and `rules`, where the clock,
the submissions, the rounds and the releases end.

**Fairness.** `connector_liveness` assumes weak fairness of each call's own
steps: every await of the runner settles, because a store promise resolves or
rejects and the timer of `createExecutionTimeout()` rejects the race with the
provider. `EveryCommandEnds` assumes weak fairness of a client's own timers,
delays and reads (`ClientsFairness`); a facade call with the caller's own signal
has no timer and is excepted. Nothing is assumed of the provider or the plane,
of callers, of the clock or of crashes. The mutants of these properties, a
runner that waits without a timer and a client whose timer a signal replaces,
violate them.

### What the violated properties show

1. `DispatchFailureIsRetryable`: when `markDispatched` commits and its
   acknowledgement is lost, the caller is told "the request was not processed",
   retryable. That is true of the work, but the row is now `dispatched`,
   `releaseBeforeDispatch` leaves it alone, and every retry with the key is
   refused as indeterminate.
2. `ReplacedIsKept`: two rotations that read the same row both keep its secret
   as previous. The one that the first rotation drew and disclosed was current in
   between, and is then neither current nor previous.

### Where code and comments differ without a run

- `ConnectorRunner.ProbeInProgress`: the breaker's probe slot is taken before
  `markDispatched`; if that fails nothing returns the slot, and the connector
  is refused with "probe is already in progress" until a call that was in
  flight before reports, or a restart. The definition can be added to a
  configuration as an invariant; the code violates it.
- `VoiceControl.MutedIsSilent`: each `setMuted()` restores the track state it
  found. With two clicks on Mute under way the first fails and switches the
  tracks on, the second succeeds and shows "Microphone muted."
  `VoiceControl.DisposedIsStopped`: `dispose()` during the permission prompt
  requests no end, so the session connects when the permission is granted. The
  code violates both, which are stated and in no run. One `endRequested`, one
  session id and one stream serve all starts: with a second `start()` (End, then
  Start, before the first `transport.start()` answered) the first session connects
  and is beyond reach. The three properties of `voice_session` are therefore
  stated of a life with one start, `OneLife`; `TypeOK` holds in any.
- Two cancels of one post with different keys, both reading a cancellable status,
  both emit a cancellation event (`social-posts.ts:176`), while the test at
  `test/social-posts.test.ts:164` has the second refused. `DatabaseAgrees` states
  what holds: one event per key, and a cancelled post has at least one.
- `run-mutation.ts:28` says "exactly once per (tenant, operation,
  Idempotency-Key)"; it is once per lifetime of the recorded result, which
  `AtMostOncePerGeneration` states.
- `schema.prisma:170` says that the lease token is cleared on completion. An
  indeterminate row keeps it, and has to: `complete()` may still settle it.
- `prisma-store.ts:19` says that the store reproduces the in-memory one's state
  machine. After an expiry a different body under the same key is a new command
  in memory and a mismatch in the database; `AgreeUntilExpiry` and
  `SameLeaseSameState` state how far the two agree.
- A command an adapter's own switch or missing token refuses has been dispatched
  in the ledger already, so its row stays indeterminate although nothing was sent
  (`OnlySwitchesStrand` says that nothing else does that).
- The social client refuses text with a line break, which the route takes and
  the contract documents. It takes and sends what the route then answers with a
  400: any cursor of up to 1000 characters, where `decodeCursor` wants one that
  decodes to a UUID; members the `.strict()` schemas of posts and subscriptions do
  not know; `metadata` that is no record; dates only `Date.parse` reads; more
  than twenty media; a destination not written `https://`. One the policy refuses
  is a 422, an identifier that is no UUID a 404. The canonical clients send a
  command's payload and several bodies without a look at them, and a reason of
  any length and characters. `OnlyTakenHere` is the whole list, in both directions.
- Of what was done the clients cannot read, and report as a contract violation: a
  post of a tenant or workspace with an identifier of a later UUID version, a
  subscription of a direct caller with an address over 2048 characters or an event
  type over 200 or broken over lines, and a receipt whose command identifier is of
  a later version or whose last error is unbounded. `DoneIsUnderstood` names each.
- An optional score left blank is stored as 0 (`intake-ui/src/index.ts:94`: `Number("")`
  is 0), and `calculateNps()` counts it as a detractor. `StoredIsFit` does not
  object to it: it asks that what is stored reads by its definition and can be
  scored, and a required score left blank is refused.
- The Python client reports status 500 as a rejection, although the command may
  have been executed.
- The drift gate does not look at an enumeration, a type or alternatives that a
  release introduces where there was none; `Introduces` names what it does not
  see, and `OldClientsStillWork` speaks of the rest.
- The node's default idempotency key, `{{$execution.id}}-{{$itemIndex}}`, has
  fewer than the sixteen characters the node itself asks for where n8n's execution
  ids are short numbers: every keyed operation is then refused (`longIds` is FALSE).
  A failed execution that is run anew has another id, so its items may take effect
  again; `ItemsRunOnce` says that nothing else repeats one.
- A receiver that lists a malformed secret before the one that matches refuses
  every message, while the signatures are skipped when malformed; and an event id
  with a colon verifies, is claimed by a replay store and can never be claimed for
  processing (`RefusedForCause`).
- `deliver()` reports an answer of Svix with a blank id as not retryable although
  the message was taken; `GivenUpForAReason` says that an event is given up for good
  in no worse case.
- The test "keeps failed stops retryable" holds of the voice controller; the
  mounted End button is disabled in state `error` (`index.ts:233`).
- `start()` does not look at `endRequested` after `attachStream()`, nor
  `setMuted()` at the state after its await: either shows a session as connected
  that `end()` stopped meanwhile. `EndedIsOver` and `NothingEscapes` say what
  they cannot do.

## 4. Proofs

Checked by TLAPS, from no more than the named assumptions on the constants
(`None` is no request, key or body; "no cursor" is no post; a bound is a natural number; a menu holds
intents; the publisher sets none of the route's final statuses; distinct events
have distinct keys; no token lasts less than `TOKEN_EXPIRY_SKEW_MS`, since the
BFF hands a fresh one out as it comes; the questions of a survey have distinct
identifiers, which `assertDefinition` enforces; a page asks for a required score
by a required number input, in which the browser takes whole numbers only; the
limit of a page is at least 1; lengths in a document are natural numbers). TLC
evaluates each of them on the instance of a run.

| Module | Theorem | States |
|---|---|---|
| `RunMutation_proofs` | `TypeCorrect` | `Spec => []TypeOK` |
| | `OneWorker` | `Spec => []SoleWorker` |
| | `AtMostOnce` | `Spec => []AtMostOncePerGeneration` |
| | `EffectStaysRecorded` | `Spec => []EffectIsRecorded` |
| | `TruthfulAnswers` | `Spec => []AnswersAreTrue` |
| | `UnknownOutcomeStays` | `Spec => UnknownOutcomeSticks` |
| | `Implements` | `Spec => KeepsContract`, the refinement of `OnceOnly` |
| `ConnectorRunner_proofs` | `TypeCorrect` | `Spec => []TypeOK` |
| | `OneCall` | `Spec => []AtMostOneCall` |
| | `TruthfulAnswers` | `Spec => []AnswersAreTrue` |
| | `FirstOutcomeStays` | `Spec => SettledIsFinal` |
| `WebhookSubscriptions_proofs` | `TypeCorrect` | `Spec => []TypeOK` |
| | `OnlyProvenIsActive` | `Spec => []ActiveIsProven` |
| | `DeletedStaysDeleted` | `Spec => DeletedForGood` |
| | `EventsAreOnRecord` | `Spec => []EventsAreAccountedFor` |
| | `SecretsHaveKeys` | `Spec => []SecretHasItsKey` |
| `Clients_proofs` | `OneDatabase` | `ClientSpec => []DatabaseAgrees` |
| | `CallersAreTold` | `ClientSpec => []ToldTheTruth` |
| | `WhatTheyAreTold` | `ClientsSpec => []OutcomesAreTrue` |
| | `NodesAreTrue` | `NodeSpec => []NodeIsTrue` |
| | `HandoffsAreTrue` | `HandoffSpec => []HandoffIsTrue` |
| `Agreements_proofs` | `TestsSeeTheLedger` | `Spec => []StoresAgree` |
| | `LeasesAgree` | `Spec => []SameLeaseSameState` |
| | `UnknownStaysUnknown` | `Spec => UnknownOutcomeSticks` |
| | `OldClientsKeepWorking` | `DriftSpec => []OldClientsStillWork` |
| | `CorrectionsAreTrue` | `DriftSpec => []CorrectionIsTrue` |
| | `GatewaysStayTrue` | `GatewaySpec /\ ProtocolSpec => []GatewaysAreTrue` |
| | `BothEndsAgree` | `ExchangesSpec => []EndsAgree` |
| | `NoPostIsMissed` | `PagesSpec => []PagesMissNothing` |
| | `StoredStaysFit` | `ContentSpec => []StoredIsFit` |
| `Receivers_proofs` | `StoresAreTrue` | `ReceiversSpec => []StoresHold` |
| | `ClaimsAreWellSpent` | `ReceiversSpec => []ClaimsSpentWell` |
| | `ShowingsAreTrue` | `ReceiversSpec => []FormsAgree` |
| | `NoReplayInWindow` | `ReceiversSpec => AcceptedOncePerWindow` |
| | `VerdictsAreFinal` | `ReceiversSpec => VerdictIsFinal` |
| `Intake_proofs` | `EndedIsTheTruth` | `Spec => []EndIsTrue` |
| | `EverythingIsInReach` | `Spec => []NothingEscapes` |
| | `LateSessionsAreStopped` | `Spec => []LateSessionIsStopped` |
| | `LeadsAreOnce` | `IntakeSpec => []OneLeadEach` |
| | `PagesAreTrue` | `IntakeSpec => []PageIsTrue` |
| | `SkewIsEnough` | `IntakeSpec => []ExpiredOnlyWhenLate` |

**The mutation guard.** The inductive invariant `IInv` (in `RunMutation`) is
needed because none of these is inductive. That two requests do not work at once
follows from a chain: a token in a row, in a request's hand or in an answer was
issued before (`TokensIssued`), so a fresh one differs from all; no two requests
hold the same one (`HoldersDiffer`); and a working request's row is dispatched
under the token it holds (`WorkerOwnsRow`), which a takeover would have changed.
At most once follows from where an effect of the current generation is recorded
(`CurrentEffectInRow`): a working request that has not applied its effect owns
the row, so an earlier effect of this generation would carry its token, and
`UnusedLeases` says none does. Truth of the answers needs that settled rows are
truthful (`SettledRows`) and that the token of a rejection is never used for an
effect afterwards (`HeldLeasesUnseen`). `RunMutation_proofs` proves one lemma
per action (`AcquireStep` ... `LapseStep`) and combines them in `SafetyNext`;
`LedgerRow_proofs` states once what the row operators return.
The same module shows that `Acquire` of an expired result is the
contract's `Forget`, `MarkDispatched` its `Start`, `WorkApplies` its `Effect`,
the two completions its `Settle`, and that every other step stutters.

**The connector runner.** The effect happens at the provider and later, so the
argument differs. A *dispatch* is a call the provider got or a lease under which
one may still be made; `LeaseInv` says that a scope has at most one of them
between two expiries of its result (`OneDispatch`), because a row that is absent
or pending has none in its generation (`DispatchesPast`) and a lease that is held
and not yet dispatched was used for none (`UnsentUnused`). `TruthInv` says that whatever is recorded or told of a lease is the
verdict the provider has given, which never changes; a reconciliation that
races the original caller then finds either the same verdict or a row already
settled.

**Webhook subscriptions.** `ActiveIsProven` is not inductive: a handler at
"enabling" writes "active" whatever the row is by then. It needs that what a
handler concluded before an await is still true after it (`Concluded`): a row
that says verified, a handler about to enable and a handshake about to record its
success all belong to a subscription whose receiver has answered, because
nothing takes a proof back. For this a handler must be at a step of its own
operation (`CallFits`). `DeletedStaysDeleted` follows step by step from
`StepLeavesDeleted`: only `Insert` writes a row that is not there, and only an
absent one.

**Social posts and their client.** The invariant `ClientInv` has three parts.
`KeyInv`: a request that may still have an effect holds a started key that has
none yet, no other request holds that key, and what the ledger stores is true;
`DbInv`: events and posts agree; `CallerInv`: the request serving a caller's
attempt is its own, and what the caller was told holds. The step of one request
is `Orderly`, it changes no other request and only its own key's entry; that such
a step disturbs nobody else is proved once (`OthersKept`, `ExclusiveKept`,
`LedgersKept`) and each action only has to be shown orderly. `Lasting` is why an
answer stays true: an effect is not undone, and a key that is closed without
one, no running request holding it and the ledger no longer open, never has one.

The secrets and the test events need a second invariant, `Kept`: a handler that
stands between its statements holds a key that is started and that no other one
holds (`KeyIsHeld`), so what it drew under that key is drawn once; a delivery id
is one handler's own (`IdsAreOwn`); and what a handler will write about an event
is what it saw of it (`HandlersKnow`). Nothing takes back a stage, a row's
secret without another, or a delivery row whose event was heard.

**The two stores.** `AgreeUntilExpiry` needs that, as long as nothing expired
under a result, the in-memory record is the twin of the row in every field a
later call can see (`Twins`). Behind an expiry the two may hold different
commands, and `SameLeaseSameState` holds because a token a store draws was
issued to neither before (`TokensAreIssued`).

**The receivers.** Each has its own invariant, kept by its own steps and by
those of the network; only the latter move the clock (`NetworkGrows`). Of the
replay store, `ReplayInv`: what a worker is about to claim was within its window
when it was verified, and an accepted event's claim lasts to `Expiry` of its
message or is past it. A claim that finds the old one gone is therefore behind
the whole window, for any tolerance and skew. Of the processing store,
`LeaseInv`: only the last lease drawn can still be good, a worker with an older
one has outlived it, and no two workers hold one of the same number. Of the
trigger, `TriggerInv`: what is claimed, or is being claimed, was sent and is
valid (`Due`), and a lost claim was reported or its worker crashed.
`EnvelopePasses` and `SocialDataPasses` say what a valid event has passed: a list
of checks answers "ok" only when all of them hold (`OkPasses`), since the set of
the failed ones would have a least element (`MinIsLeast`, by well-founded
induction over the naturals). Of the forms, `FormsInv` says that a claim was made
of a showing that passed; `ScopeWordsParts` takes the four words of a canonical
scope apart, so equal scopes have equal parts (`SameClaimSameSubject`), and
`RefusalHasCause` goes through the checks that may fail. It assumes that no two
events have an id of the same words and that none is blank (`WordsAssumption`).

**The voice controls.** The argument is about the one call of `start()`: nothing
else brings a stream or a session (`OneStart`); an `end()` that overtook it has
set `endRequested` while it awaited the transport (`StartKnowsEnd`); and a session
that lives behind "ended", or came too late, has a `stop()` ahead of it
(`EndWaitsForStop`). None of the three holds with a second start, hence
`OneLife`; type correctness does not need it.

**The intake form.** `OneLeadEach` is `LeadsInv`, a lead is recorded under the
submission's own key and no other. `ExpiredOnlyWhenLate` needs that the cache's
entry ends no later than its token counted from when it was cached (`TokensInv`),
so that a token in a call's hand had `Skew` left when it was handed out
(`Holds`), and that the request the gateway sees carries that very token (`Sent`).
`PageIsTrue` needs to know who has a button disabled: somebody is awaited by the
form that is mounted, and of a form mounted once only the latest submission
(`PageInv`). Tokens are added and marked, never taken away (`Grown`), so what one
call knows survives the steps of the others (`Undisturbed`).

**The command clients.** That a rejection is definite rests on counting: as long
as a key was sent once, its command is either on its way and not executed or
seen by the plane (`OnItsWay`), for which the sends must be bounded by the
attempts of the rounds so far (`Counts`); and a caller with an identifier of its
own has one command, which conflicts with nothing of its own. `OneSender`
reduces each action to the sender that takes it.

**The workflow node.** Two effects of one item come from requests that are alike
(`Alike`), because either was of the item its input has at that index
(`OfInput`). If their keys were the same, the ledger, or the deletion that finds
nothing, would have let one of them through only (`LedgerInv`); so they differ,
and only a key made of the execution can. A late request of the visit at hand was
sent when all items in front of it had been done (`Sequenced`), and what is done
stays done (`DidGrows`), which gives the order.

**The handoff to Svix.** There is a set of applications the tenant has been seen
in, at most one more than the moves (`SeenIn`), and the messages of an event map
into it one to one, since distinct events have distinct keys
(`HandoffAssumption`, from the package's README).

**Releases.** The gate compares neighbours, the property speaks of any two
releases. `DriftInv` says of every client that the latest document takes what it
may send; one more release keeps that because each comparison is transitive in
what it lets fit: what fits a scalar fits the one that follows it
(`ScalarStillFits`), hence so does a body (`BodyStillTaken`) and a parameter
(`ParametersStillTaken`). What the gate does not look at (`Introduces`) is marked
on the clients it may have broken, and a mark is never taken away.

**The gateways.** `CommandInv` says of the ledger that what was sent holds the
claim of its key, in the name of whoever sent it (`SentIsClaimed`), and that a
settled claim tells the truth of every command it is about (`ClaimsAreTrue`);
and of the last word somebody heard that it is right (`WordIsRight`). Two
commands with one scope and one fingerprint are one request
(`SameClaimSameRequest`), although the scope joins operation and key by a colon,
because the fingerprint holds the operation; so a claim never answers for a
command of another. Of the protocol gateway, `ListsAreRead` says what the two
lists hold after `parseCsv`, `WithinOneWord` takes a joined word apart, and
`CommandIsJudged` goes through the checks in their order.

**Clients and routes.** `ExchangesInv` ties a call to what it was judged by: it
is one of its client's operations, which are of a few kinds (`OperationIsFit`);
what was sent the client had taken (`SentWasTaken`), so what is refused there is
on the list of `OnlyTakenHere` (`RouteTakesIt`, schema by schema), and nothing
on it is served (`RouteRefusesIt`). Rows are as the route's schemas let them be
(`RowIsFit`), and one the Middleware makes of what a client took parses
(`OwnRowParses`), hence an item that does not is excused by what another caller
left, by the tenant or by the receipt (`Excused`, `AnswerIsUnderstood`).
`EmailInBatchAsAlone` and `SmsInBatchAsAlone` compare
the two copies of the checks, for every message.

**The pages.** The cursor is the last of all that has been listed
(`CursorIsLast`), and what a walk has not listed of those there at its start lies
behind it (`RestIsAhead`), since a post never moves: its age and identifier stay.
That a page has a last post, and a nonempty list a first, needs that a finite
order has a least element (`SomeNumberIsLeast`, by well-founded induction over
the naturals, as cardinalities).

**Questionnaires.** An entry is fit when it is stored (`EntryIsFit`) and stays as
it is. That it reads by its definition alone is `BuiltReadsAlone`: a question
whose condition is on a question that is always shown is judged alike by the
answers given and by those kept (`VisibleEitherWay`). A required score on a page
is a whole number from 0 to 10 (`PageScoresAreWhole`), which is what `Nps` needs;
`CountsAddUp` and `RoundedIsAPercentage` say that its counts partition the scores
and that its score is a percentage, for any number of them.

TLC checked each inductive invariant on the run's instance before it was proved
(of `VoiceControl` with two starts, so that the hypothesis `OneLife` is put to
the test; of `SvixHandoff` and the modules of `rules` the invariant that is
checked, without what their proofs add).

The attempt to prove them changed some of the models. `ProtocolsAreTrue` was
false of a protocol with a colon in its name, which no instance had
(see `ProtocolPolicy`); one is among the environments now. `StoredReadsAlone`
was false of a condition on a question that is not declared. The order of the
pages was implied by a list that the model did not need.

**Only model-checked**: the two liveness properties (`EveryCallEnds`,
`EveryCommandEnds`), which with ENABLED are out of the prover's reach. Every
invariant and action property of a passing run is proved. No module that has a
theorem uses a RECURSIVE operator; none is declared. What a schema means in
`ContractDrift` is stated over the finite set of values `Scalars`, as it is for
TLC.

## 5. Not modelled

- **Contracts, testing helpers, generated clients**: types and generated code;
  what the documents promise of one exchange is in `Exchanges`.
- **Consoles, portal, dashboard, Orbit packages, other scripts**: user interface
  over mock data, rendering, build and validation tooling.

Of the components that are modelled in part: environment parsing, logging and
start-up of the server; the declarative description of the n8n nodes, their credentials and base URL; a
host's own call of `requestMicrophone()`, a browser without `mediaDevices` and
the HTTP of `createSameOriginVoiceTransport`; styling, the DOM and the JSON of
form definitions; the construction of the facade's nested clients; the Moneybee
models of other services' payloads; the rules of the repository's scripts other
than the drift gate. The address rules of the SSRF policy are reduced to pass or
refuse, and cryptography to who signed. In `Exchanges` a host name resolves alike
during a call (a subscription made at a first attempt whose answer was lost could
otherwise be refused with 422 at its retry, before the ledger is asked), and what a
refusal owes to the rows there are, to the token or to the size of a request, the
headers and settings of a client, is left out.

In the deployed Middleware no route calls `reconcileIndeterminate`
(`routes/connectors.ts` only lists provider items), so a row of unknown outcome
stays refused; the models describe the runner as the library it is, whose
callers do reconcile.

## 6. Plan

1. An abstract "processed at most once" that the three receivers implement.
2. The BFF's cache and the SDK clients composed with the routes they call.
3. `RunMutation` and the handlers that use it as `OnceOnly` in one composition.
