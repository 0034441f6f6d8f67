# TLA+ verification of Miakapp V3

Miakapp V3 lets a household run its own coordinator and reach it from a web
application. This directory holds TLA+ models of the parts of the repository
whose correctness depends on the order in which things happen, TLC
configurations that check them, and proofs checked by TLAPS.

Run a model with `tlc -config <file>.cfg <module>` and the proofs with
`tlapm <module>.tla` for the modules whose name ends in `Proofs`: `HomeKeys`,
`Publication`, `ReleaseAdoption`, `ResidentShell`, `Admission`, `PushGrants`,
`HouseApp` and `ComponentMount`.

## 1. Inventory of the system

| Component | State | Operations | What is hard |
|---|---|---|---|
| Home Key registry (`control-plane/src/store.ts`) | key documents and two counters per home, a global key index, pairing codes | issue and redeem a pairing code, create, revoke, list and exchange a key | concurrent transactions, closures rerun after a lost acknowledgement, compaction at the ceiling, signing outside the transaction |
| Component publication (`component-store.ts`, `component-storage.ts`) | upload records and index, staging and immutable objects, publication markers, releases, live pointers, quarantine | issue an upload, deliver, inspect, finalize, activate, quarantine | two stores without a common transaction, single-use capabilities, clocks read before transactions, compare-and-set on a generation |
| Home directory and relay routing (`store.ts`) | public and private home documents, owner counters | create and patch a home, exchange a resident's relay token | lost acknowledgements, tokens for a relay that just changed |
| Push destinations and grants (`push-store.ts`, `push.ts`) | challenges, destinations, grants, grant index, two counters | challenge, complete, delete a destination, create and revoke a grant, authorize a push | superseding grants, compaction at the ceiling, reruns that meet their own commit, authorization before an external send |
| Admission and audit (`admission.ts`) | rate buckets, a ring of audit records | open, consume, finish a ticket | double charges, a full ring |
| HTTP API (`api.ts`) | none | one handler per route | order of admission, effect and audit |
| Component runtime broker (`component-runtime/src/runtime-broker.ts`) | a session: grants, subscriptions, outstanding calls, probes | host messages, guest messages, timers | messages crossing on two channels, suspension, watchdog |
| Component mount (`src/app/component-runtime-host.ts`, the component part of `src/app/app.tsx`) | lifecycle, last render, buffered state, a probe | bind, load, activate, publish state, interact, terminate | state published before the Worker is ready, clicks crossing renders, a frame that dies |
| Release ledger and artifact cache (`release-state.ts`, `component-release.ts`, `artifact-cache.ts`) | accepted pointer, last known good, cached artifacts | accept, mark active, fall back, load | several tabs, stale pointers, corrupt cache entries, tabs that close half way |
| House application host (`component-runtime/src/app-host.ts`, `app-bootstrap.ts`, `HouseAppStage` of `house-shell.tsx`) | lifecycle, published revision, probes, open calls; in the frame what the house sees | bind, publish state, call, settle, heartbeat, crash, dispose | state that changes between mount and bind, three timers that hand over, a house that freezes, calls over the limit |
| Live host connection (`src/app/live-host.ts`, `configured-host.ts`) | identity, authorization epoch, client, home state, action and its generation | sign in and out, connect, fetch a credential, act, call | answers of an earlier identity, connection or action; accounts that change in another tab |
| Application shell (`src/app/app.tsx`, `house-consent.ts`, `house-shell.tsx`) | last commit, release request, opened interface, agreements | render, load a release, mount, grant, revoke, retry | a render between any two promises, an interface opened for one resident while another signs in |
| Dual runtime harness (`component-runtime/src/host-harness.ts`) | incumbent and candidate runtimes, a reference host with patches, calls, events and suspension | start, promote, retire, fail, suspend, resume | a candidate that fails once the incumbent is retired, answers after a suspension |
| Pairing page, credentials, configuration, web interface, contracts, infrastructure | none to explore | pure validation, cryptography, rendering, scripts | nothing order-dependent |

How they interact. A browser or a gateway calls the HTTP API; a handler opens an
admission ticket, calls one method of a store (which may call back into the
ticket before its decisive step), and finishes the ticket with the outcome. The
stores share the private home document. A home's gateway exchanges its Home Key
for a token whose scope lets it publish components or send a push. A resident's
browser signs in through the live host, which connects to the relay; the shell
asks the resident to agree to the home's own interface, reads the live pointer,
accepts it in the release ledger, loads the artifact through the cache, and runs it
either as a component in a runtime behind the broker or as a house application in
its own frame. The host passes the home's state in and calls out.

What makes each component correct:

- Home Keys: counters reconcile with documents; index and registries agree; a
  code yields one key; an active key is never lost; a revoked key stays dead and
  its grants expire.
- Publication: a capability delivers once; a release is immutable and has its
  bytes; the pointer is never dangling and only moves forward; records written
  can be read again.
- Home directory: ownership counts reconcile; no token for an obsolete relay.
- Push: registries, counters and index reconcile; a challenge makes one destination
  and a deleted one stays deleted; a grant that was handed out and then revoked,
  superseded or orphaned sends nothing; compaction spares what is usable.
- Admission: no limit is exceeded in its window; the audit ring keeps the record of a
  request under way and says truly what became of it.
- Broker and mount: a guest has no effect before its interface is accepted; what
  it knows of the home converges to what the shell published; a click reaches the
  control the guest drew; the two sides never break their own protocol; a guest
  that hangs is stopped and a mount comes to a decision.
- Ledger: the accepted generation never decreases; nothing older than the last known
  good release runs; only verified bytes run; nobody is locked out of their home.
- House application: the house ends up with the state the shell has; one that is
  silent is removed; every call of it is answered.
- Live host and shell: the connection, the state shown, the open interface and every
  call belong to the resident who is signed in, who agreed to the interface; a press
  acts once.

## 2. Plan

Done, with proofs of every safety invariant the runs check: `HomeKeys`;
`PublishedInterface` and `ComponentPublication`; `RuntimeBroker` and `ComponentMount`;
`AdoptedRelease` and `ReleaseAdoption`, over `PublishedInterface`; `PushGrants`;
`LiveHost` and `ResidentShell`; `HouseApp`; `Admission` with the creation of a home.
Left, in this order:

1. Proofs: from the invariants at hand, action properties and facts that no run checks,
   such as that the accepted state of a broker never goes back (`RevisionInv`) or that
   a destination is one user's (`DestinationsInv`), where a reader would ask for them.
2. `HomeDirectory` (patchHome and exchangeUserRelay beside createHome).
3. The reference host of the harness over `RuntimeBroker`, extended with
   suspension, calls, state patches and events; then `DualRuntime`.

Each gets a type invariant, one or two invariants that relate several documents
or actors, an action property where history matters, and a proof of the inductive
invariant where no recursion is involved.

## 3. Modules

| Module | Models |
|---|---|
| `HomeKeys` | the key registry of `store.ts` |
| `MCHomeKeys` | its instance for TLC |
| `HomeKeysProofs` | theorems about `HomeKeys` |
| `PublishedInterface` | abstract: what publication promises to residents |
| `ComponentPublication` | `component-store.ts` and `component-storage.ts` |
| `MCComponentPublication` | its instance for TLC |
| `PublicationProofs` | theorems about `ComponentPublication` |
| `RuntimeBroker` | the sandbox frame: `runtime-broker.ts`, its Worker and a guest |
| `ComponentMount` | extends `RuntimeBroker` with the production host, `component-runtime-host.ts`, and the shell that mounts a component |
| `MCComponentMount` | its instance for TLC |
| `ComponentMountProofs` | theorems about `ComponentMount` and `RuntimeBroker` |
| `AdoptedRelease` | abstract: what the release ledger of a browser promises |
| `ReleaseAdoption` | `release-state.ts`, `component-release.ts` and `artifact-cache.ts`, for several tabs under a home that publishes (`PublishedInterface`) |
| `MCReleaseAdoption` | its instance for TLC |
| `ReleaseAdoptionProofs` | theorems about `ReleaseAdoption` |
| `PushGrants` | `push-store.ts` and the send of `push.ts` |
| `MCPushGrants` | its instance for TLC |
| `PushGrantsProofs` | theorems about `PushGrants` |
| `Admission` | `admission.ts`, driven by the request handler of `api.ts` around `createHome` of `store.ts` |
| `MCAdmission` | its instance for TLC |
| `AdmissionProofs` | theorems about `Admission` |
| `LiveHost` | `live-host.ts` with the identity of `configured-host.ts` |
| `ResidentShell` | extends `LiveHost` with the shell around a home's interface, `app.tsx` |
| `MCResidentShell` | its instance for TLC |
| `ResidentShellProofs` | theorems about `ResidentShell` and `LiveHost` |
| `HouseApp` | the stage, the host and the bootstrap of a house application |
| `HouseAppProofs` | theorems about `HouseApp` |

A definition whose name begins with `Wrong` is a faulty variant of the one after
it. No specification uses one; substituted for the original it makes a property
fail, which is how each property was shown to be able to fail.

### Decisions common to the control-plane modules

- A Firestore transaction is serializable and is one step. What a method reads
  or generates *before* `runTransaction` (the clock, identifiers, `issuedAt`) is
  fixed by an earlier step of the same call, so it may be stale when the
  transaction commits.
- When a commit lands and its acknowledgement is lost, the SDK runs the closure
  again (`store.ts:474` says so). The call then stays in its transaction state
  with its writes in the database. `MaxLostAcks` bounds how often.
- `Abandon` ends a call at any point with an unknown outcome: a crash, an error
  of the SDK or Storage, or an admission callback that throws.
- Identifier collisions are modelled (`Redraw`); secrets are unique. A material or
  a token is a model value standing for identifier and secret together, and
  `IdOf`, `UploadOf` give its identifier.
- Answers are `ok`, `denied` and `unknown`, the three outcomes `auditOutcomeFor`
  distinguishes; messages, labels and representations are left out.

### HomeKeys

`key`, `index`, `code`, `active`, `retained` are the documents
`homeKeys`, `homeKeyIndex`, the pairing codes and the two counters of
`controlHomes`. `Verdict` is `#stageHomeKey` up to its writes and `PutKey` its
writes; `CreateTx` and `RedeemTx` are the two transactions that use it.
`RevokeTx` is `revokeHomeKey`, `ReserveTx` then `Sign` is `exchangeHomeKey`.
Compaction breaks ties of creation time by key identifier in the code; identifiers
are random, so the model picks any of the oldest. Scopes, labels and pepper
versions do not change for a key and are left out, hence a replay is recognised
by its material. `handed`, `origin` and `deadAt` are history for the properties.

### ComponentPublication

`upload` is the upload record together with its index entry: every transaction
writes both with the same status, so one cannot be seen without the other.
`staging` and `artifacts` are the Storage objects; `writeStaging` and
`writeArtifact` create with a generation precondition and accept identical bytes
that are there already. `published`, `release`, `pointer`, `quarantined` are the
Firestore collections. Bytes are represented by their digest.

Reads that precede a step and concern data that only grows (an upload's fixed
fields, staged bytes) are taken with that step. `quarantineDigest` has no caller
in `api.ts`: it is a step of the platform, restricted to `Suspects`.
`Readable` is the time and status part of `validateUpload`, which every
later access of a record applies.

`PublishedInterface` has three actions: a digest is released once, the pointer
moves forward to a released and unquarantined digest, a digest is quarantined.
The refinement maps `released` to the releases whose marker and bytes exist and
`live` to the pointer; uploads, staging, capabilities, calls and lost
acknowledgements are stuttering.

### RuntimeBroker and ComponentMount

Four queues carry the messages: `toBroker` and `toHost` are the two directions of
the `MessageChannel`, `toGuest` and `fromGuest` those of the Worker. Every queue is
ordered, as browsers deliver them, and a message and the handler it causes are one
step. Verification of the digest is asynchronous, so `BrokerLoads` and
`BrokerLaunches` are two steps.

`phase` stands for the booleans and identifiers of the broker that tell how far it
got (no port, port, artifact arriving, Worker started, `workerReady`), and `closed`,
`lost` and `removed` for a frame that terminated itself, was lost, or was taken out
of the document by the host. `HostFault` and `GuestFault` list what the handlers
throw; any throw ends in `terminate`, hence `BrokerRefusesHost` and
`BrokerRefusesGuest`. Codes that carry several messages appear under a name of the
message where a property tells them apart (`stale_render`, `inactive_target`,
`render_gap`, `render_invalid`, `ready_timeout`). When a frame ends, state nobody can read again
returns to its initial value. `guest.boot` and `lifecycle.resume` change nothing the
modelled guest depends on and are left out. Challenges are consecutive numbers of
which at most one is outstanding, and are counted modulo `Challenges`.

The guest is external: a well-formed program under the prelude, which answers
probes, keeps the state it is told, and may render any tree, attempt an effect
(`event.publish` and `call.start` alike), spin or throw whenever it likes. `trees` is
history. Timers may expire at any moment they are armed, which covers every length.

`lifecycle`, `port`, `hostRender`, `hostTree`, `workerReady`, `pendingState`,
`pendingStale`, `publishedStateRevision`, `hostProbe`, `nextHostProbe`, `missedHost`
are the variables of one `mountComponentRuntime` session. `shown` is what the
page has painted, which lags `hostTree` by a turn of the interface; `toldStale` is
history. `publishState` drops a revision that is not newer or equal, so that is its
guard; `interact` sends what the page passes, the *handler* of the control in place
of its node, with the host's latest render. `HandlerOf` says how a component names its
handlers. The production host accepts no effect, so an effect settles it as
`failed`. `Unmount` is the page's `terminate`; `FrameLost` is a
crash or navigation of the frame. `runtime.dispose`, which the host posts just before it
removes the frame, is merged with the removal. `Mishaps` says which accidents an instance
contains.

### ReleaseAdoption

`highest` and `good` are the two pointers of the ledger; `cache` is the artifact
cache. The transactions of IndexedDB are serializable, hence `acceptReleaseCandidate`,
`markReleaseActive` and `automaticFallback` are one step each, and the reads, the
cache and the network between them are steps of their own. An attempt is one
activation of a release in a tab; `floor` is history, the last known good
generation when it began. `Closed` ends an attempt anywhere: the tab closed, or the
shell aborted it. The home is `PublishedInterface`, so pointers are exactly
those publication can produce. `Denied` is the option `quarantinedDigests` of the
coordinators. The product passes none (`component-release.ts:161`), so that a browser does
not refuse a digest the platform has quarantined, as RFC 0002 section 8.4 (lines 406-415)
wants it to; the instance passes one, to check the code behind the option. Eviction of the whole ledger by the browser is not
modelled: nothing could then be promised.

### PushGrants

`challenge`, `destination`, `destinationCount`, `grant`, `retained` and `index` are
the documents. A challenge stands for its identifier and its secret; identifiers are
drawn once per attempt, and an identifier that collides is drawn again within `Attempts`
tries. Whether the home exists, device identifiers, application identifiers and key
versions are left out. `Verdict` operators are the closures up to their writes. A
push is two steps, the authorization and the send with its second check. `handed`, `gone`
and `yield` are history: the grants whose identifier an answer told, what was deleted or
revoked, and what each challenge produced.

Behaviour to know: a grant whose creation was not acknowledged, and that was revoked
and compacted before the rerun, is created afresh by the rerun, which is why
`DeadGrantsStaySilent` speaks of grants handed out; a rerun whose own grant was
revoked or superseded draws another identifier; a rerun of a completion whose
destination was deleted, or whose challenge was swept, is denied. The ceiling of
destinations is reached and not exceeded.

### Admission

A request is one run of the handler at the end of `api.ts` for `POST /v1/homes`:
`OpenTx`, then `Reject` or `ConsumeTx`, `CreateTx` and `FinishTx`, each after the step
that reads its clock. `AfterFailure` is the handler's catch with `auditOutcomeFor`: a
definitive refusal is recorded as `denied` (`Settle`), anything else as
`outcome_unknown`, and a completion that fails is tried once more. `Fail` is a transaction
that Firestore gives up on, `Crash` the end of the instance. The answer is sent between the
creation and the completion and changes no state.

`bucket` holds one bucket per budget and slot; `SlotOf` is the keyed fingerprint. The
operators `Unused`, `Occupied`, `Overtaken` and `Exhausted` are the returns of
`#evaluateBucket` in its order; `Overtaken`, a bucket of a later window than the clock
read, makes it throw. Charges are of one unit, which every budget of this operation is.
`audit` and `next` are the ring and its position. `Tick` respects the 30 seconds after
which the platform ends a request (`production-entrypoint.ts:17`, `index.ts:61`); records
last a minute at least (`checkedProfile`, `admission.ts:177`), so `Deadline < Retention`.
`granted`, `recorded` and `unacked` are history: committed charges, records written, and
steps whose commit was not acknowledged.

Behaviour to know: an opening that runs again after a lost acknowledgement charges its
budgets twice and leaves an unfinished record behind, under the same event identifier;
it may even be refused for the charge it made itself. A completion that runs again may
find its finished record overwritten, and then fails without harm.

### LiveHost and ResidentShell

A step is one callback or one piece of an async function between two awaits. A
snapshot that changes makes React render and commit in a microtask: while `Dirty` holds no
message, event or timer comes in, but continuations of other promises may. Each client has
the credential provider it was created with, whose request goes through the account's
identity token and the exchange at the control plane; the App Check token, which is
nobody's, is merged with the exchange. Statuses between "connecting" and "ready" are
merged, and so are failed and unknown outcomes of an action. House mode (the home's own
interface, with consent) and the live tree (with its control to press) exclude one
another, as in `app.tsx`. Consent is kept per scope, and someone not signed in has a
scope too. Nothing continues after `dispose`. The activity log, navigation, focus and
theme are left out; the SDK client, the relay and Firebase are external: they answer
late, fail, or report whenever they like. What the mounted interface itself does is
`HouseApp` and `ComponentMount`.

### HouseApp

One mount from its effect to its end. `frame` is the bootstrap and what
`miakapp.state` shows the house; two queues are the directions of the
`MessageChannel`. The session is there as soon as the frame is bound; the lifecycle is
rendered in a task of its own and makes the stage publish again (`ShowsLifecycle`).
`initialState` is what the mount was given, and is cleared once sent, since nothing reads
it again. At most one probe is outstanding, so probes are a flag. An aborted call ends as
any other, with another error code. Grants, the limits on rates and sizes, protocol
violations (the bootstrap cannot cause them), theme and focus are left out. The house may
call, fail, become ready or freeze at any moment its script can run.

Behaviour to know: after a restart of the relay the revisions of the home begin
again, the live host forgets the epoch (`live-host.ts:363-367`), and the host drops every
state until the revision passes the last one of the old epoch (`app-host.ts:392`;
`component-runtime-host.ts:421` does the same), although RFC 0001 section 5.3
(lines 218-221) lets revisions restart with an epoch. Until then the house shows
old values, marked stale; `HouseFollowsHome` speaks of the time after. A change of theme
before the frame is bound is lost (`house-shell.tsx:424-426`).

## 4. Runs

| Run | Checks | Instance |
|---|---|---|
| `home_keys` | RegistryReconciles, IndexMirrorsRegistry, OneKeyPerCode, GrantPredatesRevocation, ActiveKeyOnlyRevoked, HandedSecretNeverRevived | 1 home, owner and stranger, 3 keys, 1 code, 2 calls, ceilings 2 and 2, clock to 2, 1 lost acknowledgement |
| `home_keys_revocation` | RevocationIsFinal: violated | the same |
| `publication` | SingleDelivery, FinalizedMatchesRelease, PointerServes, ImplementsInterface | 2 uploads with the same promised digest and different descriptions, a capability whose identifier collides, quarantine, generations to 2, 2 calls, 1 lost acknowledgement |
| `publication_readable` | UploadsStayReadable: violated | 1 upload, 2 calls, no lost acknowledgement |
| `component_mount` | TypeOK, PeersKeepProtocol, GuestFollowsShell, ClicksReachLiveControls, EffectsFollowActivation | 1 control, handler named after it, 2 state revisions, 2 renders, 1 missed probe, no accidents |
| `component_mount_progress` | HungGuestIsStopped, MountDecides, LostFrameIsNoticed | 1 control, 1 state revision, 1 render, 2 missed probes, challenges not told apart; hang, throw and loss of the frame |
| `component_mount_handlers` | LoneTreeTakesClicks: violated | handler not named after the control |
| `release_adoption` | NeverBelowKnownGood, OnlyVerifiedRuns, RefusedOnlyIfOvertaken, ImplementsAdoptedRelease | 2 tabs, 3 digests of which 1 denied, generations to 2, a cache that corrupts and forgets, tabs that close |
| `push_grants` | TypeOK, RegistriesReconcile, CompletionsTakeEffectOnce, DeadGrantsStaySilent, CompactionSparesUsable | 1 user, 1 home, 2 challenges, 2 destinations, 3 grants, ceilings 1, 2 and 2, 2 calls, clock to 2, 1 lost acknowledgement, collisions |
| `resident_shell` | ConnectionIsTheResidents, InterfaceNeedsAgreement, InterfaceSeesItsResident, CallsKeepTheirResident, PressActsOnce | 2 residents sharing a browser, 2 clients, 1 change of account, 2 calls, 1 retry or change of agreement, both modes |
| `house_app` | TypeOK, HouseFollowsHome, SilentHouseIsRemoved, CallsAreAnswered | 2 relay epochs, 2 revisions, 2 calls with a limit of 1, 1 missed heartbeat |
| `admission` | TypeOK, WindowsHold, TicketKeepsItsRecord, AuditTruthful | 3 requests of 2 users and 2 sources for 2 homes, one bucket slot shared, limits of 1 (2 for the audit), a ring of 2, windows of 2 ticks, clock to 3, 1 lost acknowledgement |

The type invariants of `HomeKeys`, `ComponentPublication`, `ReleaseAdoption` and
`ResidentShell` are proved (section 5) and left out of the runs. The run `publication`
uses a `VIEW` that leaves out what finished calls answered, on which nothing depends;
its only bytes are the promised ones, so that what happens to others rests on the theorem
`FinalizedAsDescribed`.

Why the bounds suffice. The ceilings of 2 make the registry full after two
creations, so a third key meets both compaction and the active limit, and each
document has a key to lose and a key to keep. Two calls interleave at every
transaction boundary; a rerun is one call against itself with another in between.
One lost acknowledgement is enough for a call to meet its own effect. Two clock
values distinguish a stale time from a current one. For publication two
descriptions of one digest are the smallest conflict, the two racing
finalizations may lose an acknowledgement, and with two generations one activation
overtakes another from the same expected one; the proofs cover any number of calls, lost
acknowledgements, and publishers without authorization, whose calls end at their first
step. Homes only meet in identifiers
(the indexes), which collisions within one home exercise too; the proofs cover
any number of homes. Calls are symmetric, and so are key identifiers.

For the mount two revisions distinguish an older state from a newer one, two
renders let a click cross a render, and each render leaves the control enabled or
not. The shell waits while `MaxQueue` messages are on their way to the guest, which bounds
the queues; the broker's and the host's own messages come on top, so queues of
several kinds still build up. The safety run ends a component at its first missed probe: below
the limit a miss changes the counter alone, which the progress run, with a limit of two,
covers. There challenges are not told apart, since at most one is outstanding, as
`ProbeInv` shows. Accidents enlarge the state space and only shorten a session
as far as safety goes, so the safety run has none and the progress run has all.

Two tabs are enough for one to overtake the other between any two steps of the first,
and two generations for a pointer to become stale; a third digest, denied, makes an
attempt fall back. For push a third grant meets both compaction and
the superseding of a grant for the same destination. A change of the account is enough for
every answer to belong to somebody else, a second client for every call to be on a
retired one; the theorems cover any number. Two calls at a limit of one reach the answer
"busy". The home may only change while fewer than `MaxQueue` messages wait for the house's
frame, the messages of the host itself come on top. One missed heartbeat suffices, since the
counter below the limit decides nothing. Challenges, destinations, grants and calls of the
push instance are interchangeable, and checked up to permutation. For admission a third request meets a
full ring while two are under way, a bucket in its second window, and a home that is taken;
the shared slot makes one source meet the other's bucket; the clock passes from
one window to the next and a record expires within the run. Deadlock is not checked where a
session really ends: in the mount, in the shell, whose page closes, in the house
application, and in `Admission`, whose requests are each made once.

Fairness. The control-plane modules use none and claim no progress: the control
plane owes an answer to nobody who does not retry. `ReleaseAdoption` and `ResidentShell`
claim none either: a tab may close at any time, and sign-in, network and relay owe
nothing. `FairSpec` of `ComponentMount`
assumes that a browser delivers the messages it queued and fires the timers it
armed (`BrokerStep`, `HostStep`, each timer), that the Worker's event loop runs unless
the guest spins (`GuestStep`), and that the page repaints. Each timer has its own
condition, since a busy channel does not keep a timer from firing. Nothing obliges a
guest to render, a resident to click, or an accident to happen. `HouseApp` assumes the
same: armed timers fire (`FrameTimeout`, `BootTimeout`, `Heartbeat`, each on its own),
messages are delivered (`HostHears`, and `FrameHears` unless the house spins), and a call
that was passed on settles, which the timeout of the shell's `call` sees to. The house
need not become ready, nor the stage render.

### What the violated runs show

- `RevocationIsFinal`. `#stageHomeKey` recognises its own earlier commit by the
  key record. If the acknowledgement of a creation is lost, the owner revokes the
  key, and another creation compacts it away before the rerun, the rerun stores the
  same secret afresh and returns it. RFC 0004 (lines 315-317) says a revoked key
  cannot mint a new token. `HandedSecretNeverRevived` bounds the damage and holds:
  nobody had been given the secret before.
- `UploadsStayReadable`. Finalization accepts an upload whose delivery is only
  reserved when the bytes are there. If the delivery is marked between
  finalization's clock read and its commit, `delivered_at` is later than
  `finalized_at` and `validateUpload` refuses the record from then on, so
  the publisher cannot reconcile as RFC 0004 (lines 1076-1078) describes. The release
  itself is intact.
- `LoneTreeTakesClicks`. `app.tsx:266` passes the handler of a pressed control to
  `interact(nodeId, ...)`, and the broker looks the value up among the *node*
  identifiers of its interaction targets. For a component whose handler identifier
  differs from its node identifier the first click terminates the runtime.
  Components written with the authoring helpers are safe, because they name each
  handler after its node (`authoring.ts:219-221`), which is what `component_mount` instantiates.

Behaviour the runs made visible and that the properties are stated around:

- A reservation (`component-store.ts:872`) or an activation (`:702`) that runs again
  after a lost acknowledgement finds its own effect and answers `denied`, which
  `admission.ts:807-815` audits as a rejection, although RFC 0004 (lines 1321-1324) keeps
  `denied` for definitive ones. The same happens to a push completion, and to the creation
  of a home: the owner is answered `home_exists` and the audit says `denied` of a home that
  was created. `AuditTruthful` excepts exactly that, and shows that no other interleaving,
  failure or crash makes the audit untrue.
- A click that crosses a render is refused by the broker as stale, and the refusal
  terminates the runtime. `LoneTreeTakesClicks` is therefore about the first tree.
  The host tags a click with its latest render, not with the one that was painted
  (`component-runtime-host.ts:413`), so a click on an old picture may also arrive
  as a click on the new tree if the control is in both.
- The heartbeat only runs once the Worker is ready (`component-runtime-host.ts:306`).
  A frame lost before that leaves the session in `bound` for ever, which is why
  `MountDecides` excludes lost frames and `LostFrameIsNoticed` starts at `staging`.
  RFC 0002 (line 459) lists channel loss among the things that end an instance.

## 5. Proofs

`HomeKeysProofs` proves, for every value of the constants that satisfies
`HomeKeysAssumption` (finite set of identifiers, positive ceilings, distinct
`None`):

| Theorem | Statement |
|---|---|
| `TypeCorrect` | `Spec => []TypeOK` |
| `RegistryCorrect` | `Spec => [](RegistryReconciles /\ IndexMirrorsRegistry)` |
| `ActiveKeysKept` | `Spec => ActiveKeyOnlyRevoked` |
| `CodeRedeemedOnce` | `Spec => []OneKeyPerCode` |
| `IndexMirrors` | `Spec => []IndexMirrorsRegistry` |
| `SecretsDrawnOnce` | `Spec => []MintsInv` |
| `HandedNeverRevived` | `Spec => HandedSecretNeverRevived` |
| `GrantsPredateRevocation` | `Spec => []GrantPredatesRevocation` |

The argument. `TypeOK` is inductive. `RegistryReconciles` alone is not: a creation
adds one to the counters, which matches the documents only if the stored
identifier was free in *this* home, and compaction removes the index entry of the
victim, which is harmless only if the entry belongs to this home. Both follow from
`IndexMirrorsRegistry`, and conversely, so the two are proved together. Every
writer comes down to one of three lemmas about the registry: a key is put without
a victim, put in place of a victim, or revoked, with the change in the
cardinalities of the key sets of the home. `ActiveKeysKept` needs only that a
victim is revoked and a stored identifier free. `CodeRedeemedOnce` is inductive
with `TypeOK`: a code leaves "pending" in the step that stores its key.

That no secret handed out comes back rests on `MintsInv`: a call that may store a key holds
material that it drew, that no other such call has, and that nobody was handed. So
a key that is stored is one nobody knows yet, even when a rerun stores it for the second
time. `GrantInv` adds that an active key was not revoked and that an exchange read the clock
before its transaction; a grant is then reserved before the revocation or not at all. Both
follow from what a step does to one key (`KeyStep`: store, revoke, use, or nothing).

`PublicationProofs` proves, for any homes, publishers, descriptions, uploads,
capabilities, calls and bounds that satisfy `PublicationAssumption` (a map from
capabilities to upload identifiers, from descriptions to digests, and a distinct `None`):

| Theorem | Statement |
|---|---|
| `TypeCorrect` | `Spec => []TypeOK` |
| `DeliveredOnce` | `Spec => []SingleDelivery` |
| `FinalizedAsDescribed` | `Spec => []FinalizedMatchesRelease` |
| `PointerAlwaysServes` | `Spec => []PointerServes` |
| `RefinesInterface` | `Spec => ImplementsInterface` |

The argument. What a call read before its transaction must still hold when it commits,
so the invariant says what each kind of call may rely on: an upload that awaits its
bytes has none staged (`StagedOnceReserved`), so a reservation that commits is the only
writer; a finalization under way has the promised bytes in staging and in an immutable
object (`FinalizesVerified`), since a verified upload only advances and staged bytes are
never replaced; an activation asks for a greater generation than the one it expects
(`ActivatesForward`); an issuance holds a capability that was drawn (`IssuesDrawn`). A
conflict stops every finalization that would change a release, which keeps the pointers
and the other uploads of the digest true. The refinement rests on `PointerServes`: a
release is never visible before its marker and its bytes, so `Complete` is `release`
itself, a finalization is one `Release` or a stutter, and an activation that commits
compared the live generation in the same transaction. `UploadsStayReadable` is false
and `Readable` therefore no part of the invariant.

`ReleaseAdoptionProofs` proves, for any finite or infinite number of tabs, digests
and bindings and any bound on the generations:

| Theorem | Statement |
|---|---|
| `TypeCorrect` | `Spec => []TypeOK` |
| `NoRollback` | `Spec => []NeverBelowKnownGood` |
| `VerifiedOnly` | `Spec => []OnlyVerifiedRuns` |
| `NeverLockedOut` | `Spec => [](RefusedOnlyIfOvertaken /\ LedgerStaysReadable)` |
| `RefinesLedger` | `Spec => ImplementsAdoptedRelease` |

The argument. The ledger compares generations only, so the properties rest on where
pointers come from: `Provenance` says that the home published one pointer per generation
and that the ledger holds pointers that were live. `Attempted(r)` says what one attempt
knows at each of its steps, for instance that the generation it is to load is not below
`floor`. The ledger then never writes a record it would refuse to read
(`LedgerStaysReadable`). `Attempted` mentions no other attempt, so a step of one tab
disturbs another only through the ledger, whose pointers grow.

`ResidentShellProofs` proves, for any number of residents, clients, changes of the
account, calls and retries:

| Theorem | Statement |
|---|---|
| `TypeCorrect` | `Spec => []ShellTypeOK` |
| `AlwaysOneself` | `Spec => []ConnectionIsTheResidents` |
| `AlwaysAgreed` | `Spec => []InterfaceNeedsAgreement` |
| `AlwaysOwnView` | `Spec => []InterfaceSeesItsResident` |
| `AlwaysInOwnName` | `Spec => []CallsKeepTheirResident` |
| `AlwaysOnePress` | `Spec => []PressActsOnce` |

The argument. The epoch is what ties a client to a resident: `Fits` says that a client
of the present epoch holds a credential of the resident or none, and exchanges only the
resident's own identity token; a transition begins a new epoch, to which no older client
belongs (`ServesResident`). A call that is open was made with the credential of its
resident (`CarriesFaithfully`). The generation of the action does the same for presses:
it is that of at most one call, which is open exactly while the control is busy and goes
through the present client (`PressesOnce`). The epoch appears once more in what was
rendered last: a commit of this epoch showed this resident, and a mounted interface
belongs to the request of that commit (`ShowsResident`), so that an interface can only be
kept from one commit to the next while the resident stays. The invariant is the
conjunction; steps are grouped by what they touch (`IdentityStep`, `TransitionStep`,
`ProviderStep`, `BeginStep`, `HearStep`), so that each part is proved once per group.

`AdmissionProofs` proves, for any requests, homes, users, sources, limits, windows,
assignment of subjects to bucket slots, ring and number of lost acknowledgements:

| Theorem | Statement |
|---|---|
| `TypeCorrect` | `Spec => []TypeOK` |
| `WindowsAlwaysHold` | `Spec => []WindowsHold` |
| `TicketAlwaysKept` | `Spec => []TicketKeepsItsRecord` |
| `AuditAlwaysTruthful` | `Spec => []AuditTruthful` |

The argument. A subject shares its bucket with others, so what was granted to it is
bounded only through the bucket: `WindowsInv` says what the bucket in its slot implies for every
window, of which only the bucket's own may be partly used, later ones are unused, and earlier
ones are over. The
audit limit allows one record above the charges, the one that marks a bucket
saturated, and counts it apart (`AuditCounts`). `TicketsInv` ties a request to the
clock: it lives at most `Deadline`, its record is younger than that, and a record is
overwritten only after `Retention`. `TruthInv` says what a request has done by its place in
the handler (`Advanced`). Its hardest part is that a refusal stays one: a closure rerun
after a lost acknowledgement decides anew, and must not create what it refused
before. A bucket that refuses goes on refusing at the clock the call read, because buckets
only fill within a window and only move to later windows (`RefusalsStay`), and a
home that is taken stays taken.

`PushGrantsProofs` proves, for any users, homes, identifiers, ceilings, lifetimes and
calls that satisfy `PushAssumption`, among it that two users begin with different
destinations, whose identifiers are random numbers of 128 bits:

| Theorem | Statement |
|---|---|
| `TypeCorrect` | `Spec => []TypeOK` |
| `RegistriesAlwaysReconcile` | `Spec => []RegistriesReconcile` |
| `CompletionsOnce` | `Spec => []CompletionsTakeEffectOnce` |
| `DeadAlwaysSilent` | `Spec => []DeadGrantsStaySilent` |
| `UsableSpared` | `Spec => CompactionSparesUsable` |

The argument. Types and registries are inductive only together (`RegistryInv`): a
transaction rewrites the index entry of a grant on the strength of the document it
mirrors, and a counter keeps its type because it counts. `IdsInv` says that an identifier is
drawn once and by one call, so a document under it was stored by that call, in this run of
its closure or an earlier one. `ChallengesInv` and `DestinationsInv` carry that through the
two exchanges of a registration: a challenge reaches its device when the call that drew it
is over, so it cannot be stored again; one that has proved a destination is no longer
pending anywhere; and a destination that is there or gone is the yield of its challenge.
`SilenceInv` says of a push that found its grant dead that the grant stays dead by the
push's own clock: grants end, destinations of stored grants are there or gone, and a grant
that was handed out is not stored again. `UsableSpared` needs that no call has a clock ahead of
the present (`ClocksInv`).

`HouseAppProofs` proves, for any limits, epochs, revisions and lengths of the queues:

| Theorem | Statement |
|---|---|
| `TypeCorrect` | `Spec => []TypeOK` |
| `HouseSeesHome` | `Spec => []HouseFollowsHome` |

The argument. `HouseFollowsHome` speaks of an empty queue; `FollowInv` says the same of
any: the last message in the queue that tells the house of the home says what the shell
knows, and if none does, the house sees it already. The stage publishes when it
shows the lifecycle, so `ShownInv` is needed to know that the last publication is not
still to come.

`ComponentMountProofs` proves, for any nodes, handlers, accidents, limits, revisions, renders
and lengths of the queues:

| Theorem | Statement |
|---|---|
| `TypeCorrect` | `Spec => []TypeOK` |
| `PeersKeep` | `Spec => []PeersKeepProtocol` |
| `GuestFollows` | `Spec => []GuestFollowsShell` |
| `ClicksReach` | `Spec => []ClicksReachLiveControls` |
| `EffectsFollow` | `Spec => []EffectsFollowActivation` |

The argument. Four ends talk over four queues and each checks what it hears, so the
invariant `IInv` says of every queue what is in it and in which order. `FrameInv` and `WorkerInv`
relate the frame's progress, the queues, and what the host believes of the Worker.
`RenderInv` says that the renders in a queue are numbered without a gap from what the reader
has to what the writer sent; `RevisionInv` that snapshots come in order and none is older than
what the broker has; `ProbeInv` that of a question and its answer at most one is on its way,
in either direction, and belongs to the probe that is pending. From these no handler
throws at a peer's message (`FailureInv`), which gives `PeersKeep`. `TreesInv`
relates renders to the trees the guest drew. `WordInv` follows the shell's word to the guest
across two queues: the last state on its way, or if none is, the one the guest
has, is the one published last, and the same for its staleness; before the Worker is ready
the host keeps it instead. No part is inductive without others: a render of the guest
is numbered rightly because the frame stands, an activation is legal because the host
has a render, and that the broker has one too follows from the order of the queue between
them.

Only model-checked: liveness, as fairness and ENABLED are outside what the prover
handles (`HungGuestIsStopped`, `MountDecides`, `LostFrameIsNoticed`, `SilentHouseIsRemoved`,
`CallsAreAnswered`). Every other property of a passing run has a theorem. Induction over
recursive data is out of reach as well, and no module needs it. The three violated
properties are refuted by TLC and are no part of any invariant.

## 6. Not modelled

- Cryptography, token formats, request parsing and configuration: pure functions,
  represented by their results.
- Read-only operations: they take part through the guards of the operations that
  read the same documents.
- Corrupt documents: `temporarily_unavailable` for a malformed record appears
  where the modelled operations could produce such a record.
- The relay and the coordinator, which live in other repositories.
- In the runtime: suspension, state patches, call answers and events, which the
  production host never sends; the limits on sizes and rates of messages; the
  contents of trees beyond their enabled controls.
- In the shell: navigation, focus, theme, the activity log and wording; in a house
  application its grants and the limits on rates and sizes.
- Eviction of the release ledger by the browser, after which nothing is known.
- In admission: key versions, charges of several units, the size of records, and operations
  that consume more than once.
- Changing a home and a resident's relay token, suspension and the dual runtime harness, which section
  2 plans, until their modules exist.

