# Verification of the sprue upload service

TLA+ models of sprue, an upload service: where a blob is stored and what the
service remembers about it, how messages are kept, what a space is accounted
for, how listings page, who may use a space and what an agent may claim.
Checked with TLC and, but for liveness, proved with TLAPS. Paths below are
relative to the repository (`src/` here).

## 1. The system

Sprue is an upload service that speaks UCAN. A client invokes a command in a
space; the server runs a handler per invocation, each HTTP request in a
goroutine of its own, and answers with a receipt. The service holds no blobs: it
picks a storage node (piri), lets the client put the bytes there, has the node
accept them, and keeps a registry. Postgres (and S3 for message and delegation
payloads) is the only shared state; no handler keeps a transaction open across a
network call, so every two calls of a handler can be separated by steps of
another request. Every store also exists in memory, behind a mutex.

| Component | State | Operations | Interacts with | What makes it correct |
|---|---|---|---|---|
| blob upload handlers (`blob_add.go`, `ucan_conclude.go`, `ucan_conclude_http_put.go`, `blob_remove.go`, `blob_abort.go`) | none of their own | `/blob/add`, `/ucan/conclude` of `/http/put`, `/blob/remove`, `/blob/abort` | agent store, registry, routing, storage nodes | a registration is backed by an acceptance; a removal reaches the node that holds the blob; every request ends |
| storage node client (`pkg/piriclient`) | none | allocate, accept (single and in chunks), release, reject | storage nodes | what a node did is never dropped |
| agent store (`store/agent`) | (task, kind) -> message, last write wins; payloads in S3 | `Write`, `GetInvocation(s)`, `GetReceipt`, `List` | handlers, the response hook (`lib/ucan_server/events.go`), receipts endpoint | an atomic map: no row without payload, no half of a message; no deadlock |
| receipts endpoint (`pkg/service/service.go`) | none | poll for a task | agent store | a stored receipt is found, with its artifacts |
| blob registry (`store/blob_registry`) | (space, digest) -> size, cause | `Register`, `Deregister`, `Get`, `List` | metrics and space diff, in one transaction | counters and log equal the rows |
| uploads (`upload_*.go`, `store/upload`) | root -> index, shards | add, remove, list | upload diff, metrics | a retry is not counted twice |
| accounting (`store/metrics`, `store/space_diff`, `store/upload_diff`) | counters, diff logs | increment, put, list by (time, cause) | registry, uploads, usage | logs and counters agree with the stores |
| usage (`pkg/usage`) | none | `Sample`: counters, logs, counters again | accounting | a series is what the logs say at one moment |
| pagination (`store/store.go` and every `List`) | none | `Collect`, cursors | clients, routing, provisioning, claims | nothing that stays is missed; listings end |
| routing (`pkg/routing`, `store/routing_policy`) | policies, space references | select, put policy, use policy | storage provider registry | an upload goes only where the space allows, to a provider that is there |
| storage provider registry (`store/storage_provider`, `admin_provider_*.go`) | endpoint, weight, proofs by provider | register, deregister, set weight, set proofs, list | routing | listing misses nobody; weights mean what they say |
| provisioning, customers, billing (`pkg/provisioning`, `pkg/billing`, `provider_add.go`, `customer_add.go`) | subscriptions, consumers, customers | provision, add customer | most handlers refuse unprovisioned spaces | subscription and consumer agree; a retry completes |
| access (`access_*.go`, `store/delegation`) | delegations: objects in S3, rows | request, confirm, delegate, claim | mailer, provisioning | an agent claims what it was given, all of it |
| space info, index add | none | list services; publish an index | provisioning, registry, indexer | only provisioned spaces publish |
| replication, revocation store, mailer, UI, tracing, configuration, wiring, migrations, command line, generated encoders | | | | not modelled, see 5 |

Hard behaviour: handlers interleave at every storage or network call; the add
receipt is stored only after the handler has returned; clients retry tasks,
deliver put receipts late or twice, and choose page sizes; nodes refuse, vanish
or answer into a dead connection; batches fail halfway; operators change
providers and policies while selections run; logs and counters move while they
are read. `PROJECT.json` lists these as hazards, at their lines.

## 2. Modules

    BlobLifecycle         the blob handlers over agent store, registry, nodes
      MCBlobLifecycle     instances for TLC
      BlobLifecycleProofs inductive invariant and theorems
    Ordering              what ORDER BY, LIMIT, filter and summing loops compute
      DataLemmas          lemmas on them, and on sequences and finite sets
    ConcludeBatch         one conclusion of many puts: chunks, groups, messages
      MCConcludeBatch
      ConcludeBatchProofs inductive invariant, every property
    TaskIndex             what the agent store promises (abstract)
    AgentStore            the agent store; implements TaskIndex
      MCAgentStore
      AgentStoreProofs    inductive invariant, deadlock freedom, refinement
    Routing               provider selection against policy and provider changes
      MCRouting
      RoutingProofs       inductive invariant, every invariant
    Accounting            registry and uploads with their logs and counters
      Usage               EXTENDS Accounting: the usage query against them
        MCUsage
        UsageProofs       inductive invariant, every property of the two
    Listing               every paged listing, and the callers that walk it
      MCListing
      ListingProofs       inductive invariant, every invariant
    Provisioning          customers, subscriptions, consumers
      Access              EXTENDS Provisioning: delegations and indexes
        MCAccess
        AccessProofs      inductive invariant, every safety property of the two

`Routing`, `ConcludeBatch`, `Accounting` and `Listing` use `Ordering`, which writes
selections and sums with ranks and recursive functions rather than with the library's
sorting and filtering operators: they can then be reasoned about. The proof modules of
these four also use `DataLemmas`.

### BlobLifecycle

An element of `Adds` is an add *task* (space, blob, nonce), so running it again
is a client retry. An element of `Uploads` is one successful `/blob/allocate`
together with the `/http/put` and `/blob/accept` tasks that derive from it: the
allocate invocation has a random nonce, the put names the allocate task, and the
accept (issued without nonce) is a function of the put and the provider, so one
name stands for the triple.

| Variable | Code |
|---|---|
| `registry` | table `blob_registry`: the cause of a row |
| `addRcpt` | agent index row (add task, "out"): success naming a site, or failure |
| `allocMsg`, `chainMsg` | agent index rows of the allocate task, of the put and accept invocations |
| `attested` | stored success receipts of accept tasks, with the digest their location commitment names |
| `upload` | which add and which node an allocation is for (arguments of the stored invocations) |
| `live`, `content`, `held`, `claims` | the storage nodes (external): allocations not rejected, bytes put, blobs held, claims of spaces |
| `listed`, `weighted` | storage provider rows and the ones with a weight |
| `req` | program counter and local variables of each request being served |
| `runs`, `faults` | bounds |

One action is one storage or network call with the code up to the next one.
`AddBegin` is the handler up to the point where it replays or allocates;
`AddAllocate`, `AddAllocateFails`, `AddAllocateLost` are the turns of `doAllocate`;
`AddAccept`, `AddPersist`, `AddRegister` are `maybeAccept` for bytes the node
already has; `AddRespond` is the write of the outgoing message, which is what
makes the add receipt exist. `ConcludeBegin` .. `ConcludeRegister` are
`NewHTTPPutConcludeHandler` and `acceptOnProvider` for one put;
`RemoveBegin` .. `RemoveDeregister` and `AbortBegin`, `AbortReject` are the other
two handlers. A failing variant is an action of its own where the code goes on
after the failure. Where it does not, and nothing more is written, the action is
`Crash`: it stands for a crash, a cancelled context, a failed write of the
response, and a transport failure of an accept while concluding. A release whose
answer is lost has taken effect on the node and the handler goes on:
that is `RemoveRelease`. A missing nonce or an unprovisioned space is `AddRefused`.
A put invocation may come with the receipt that is delivered; the client has it
from the answer of the add, which is stored before it leaves, so that `Delivered`
asks for a stored one either way.

What is abstracted: blob sizes (`Accounting` has them), proofs, message contents,
the routing policy (any weighted provider may be chosen; `Routing` says which),
batches (a conclusion delivers one put; `ConcludeBatch` has many) and the agent
store, which is the map of `TaskIndex` here.

### ConcludeBatch

A client delivers a sequence of put receipts. `Conclude` resolves them and groups
them by provider; `AcceptChunk` and `ChunkFails` are turns of the loop of
`AcceptBatch`; when the answers are in, `Groups` is `groupAcceptances` and `Pack` is
`writeAgentMessages`, `WriteMessage` is one `Write` of the agent store, `Register` is
the loop over the results, and `Response` is `concludeResponse`. A put names its
accept task and artifacts (the accept has no nonce), and a token of a message is
a pair of a kind and a put, so that a message is a sequence of sets of tokens.
`MaxBatch` and `Budget` are `maxAcceptBatch` (1000) and the token budget.
`Outcomes` are the answers the code tells apart: a usable result with its artifacts,
one whose artifacts are not in the answer (`bare`), one whose commitment is for other
content than the put reported, a success that names no commitment, and a failure. A
node answers an accept as it likes each time it is sent (`Replies` bounds the
choice), so a redelivered accept may fail where the first one succeeded. Only a put
without a digest needs its commitment to be registered (`ToRegister`); the code does
not look for that of the others. `heard` and `received` are history variables: what came
from the nodes, ever and in this delivery.
A delivery may list a put twice; it then has two answers under one task
(`DeliveredOnce`; see 3, observations). The module keeps the messages that were stored
and not which of them a task is indexed under: the row of an accept task has writers
outside of a conclusion (see 3, observations).

### TaskIndex and AgentStore

`TaskIndex` is the promise behind `agent.Store`: a map from (task, kind) to a message, in which
`Put` binds all the entries of a message in one step, `Lookup` and `Serve` answer
from one state, and a lookup may be unavailable but never leads to a payload that
is not there. `AgentStore` is the code: `WriteBegin`, `WritePut` (S3), `LockRow` for
each row of the upsert in its sorted order, `Commit`, and `WriteFail` at any point;
lookups query (`GetByTask`, `GetInvocations`, `HandleReceiptRequest`) and then `Fetch`.
`MemoryWrite` is the memory backend, in which the first message of a key stays
visible; the abstract `policy` tells the two apart. The refinement mapping takes the
first row of a key for its binding, and the answer of a reader as of its query.

### Accounting and Usage

`Register`, `DeregisterRead` / `DeregisterCommit`, `Upsert` and `RemoveUpload` are the Postgres
transactions, each moving a row, a log entry and the counters of both scopes. The
instant of an entry is read before the commit, up to `Lag` ticks earlier, so commits
come out of the order of their instants; it is not before the last commit that
changed the same row, which the transaction had to wait for. The memory stores
make the same changes one by one under their own lock (`MemoryStep`). A digest
determines a blob's size. `Usage` adds the reader: `Begin` (`ParseRange`, `Sample`), a
page per `ScanBytes` / `ScanUploads`, `Check` (`settled`, retry or answer), and
`Series`, the walk back from the present. A tick is a second.

### Listing

One operator per `List` of a store: ten of Postgres and ten of memory, which
differ in order, cursor, default and treatment of odd limits. `Collect` walks the
pages. Rows are numbers in key order; `Major` halves them so that neighbours share
the first half of a two-part key. `Insert` is an insertion that a key or a check
guards; `PutMany` is the memory delegation store's, which has neither, so that a token
that is sent again is stored again, next to its copy. The memory shards of the first
upload of a space hold a shard as often as the upload named it (`Repeating`).

### Provisioning and Access

`ProviderAdd`, `AddSubscription` and `AddConsumer` are `/provider/add` with its two
writes; `ProvisionAgain` is the client's retry. `Access` composes it with the handlers
that depend on it: `AccessRequest`, `AccessConfirm`, `AccessDelegate` and `IndexAdd` start
an execution; `PutObject`, `PutRow` are the two writes of the delegation store per
token. `AccessClaim` is what `/access/claim` would return in a state: one read of all
that is stored, where the handler asks page by page (`access_claim.go:34`; `Listing`
has the pages). A token's `from` is what it was stored through, a confirmation or the
space of an `/access/delegate`; the handler stores any delegation that is attached
and does not compare it with that space. Such a delegation is the client's own, so
one that is sent again is the same one. Spaces are DIDs of the method key, the only
ones `/space/info` answers for (`space_info.go:24`); `/provider/add` does not ask.

### Routing

`ListPage` is one query of `listProviders`; `GetSpacePolicy` and `GetPolicy` are the
two statements of `resolvePolicy`; `Choose` filters and draws, where the draw of
`weightedRandomInt` is a nondeterministic number in `0..total-1` and
`WeightedRandomInt` is what the function returns for it. `PutBegin`, `PutCheck`,
`PutStore` are `PutPolicy` with one lookup per candidate; the other changes are
one statement each. `seen`, `allowed` and `steady` are history variables: the
policies the space has referenced since the selection of a request began, the
candidates these had at some time since then, and the providers that were usable
under all of them at every time. Init is any configuration the foreign key of
`space_routing` admits.

## 3. What is checked

`CHECK_DEADLOCK FALSE` everywhere: the bounds on runs, changes and names let an
instance come to rest, and a service with no requests rests as well. That
nothing begun gets stuck is `RequestsFinish`, `WritesEnd`, `ListEnds` and
`ProvisionCompletes`.

### Runs that pass

| Run | Instance | Shows |
|---|---|---|
| `lifecycle` | 2 nodes, 2 digests, 2 requests, 2 uploads; an add with and one without digest, 2 faults, removes and aborts | `TypeOK`, `RegisteredAttested`, `ChainComplete` |
| `single_shot` | two adds of one blob, each run once; aborts, provider changes, 1 fault | `PrimaryHolds`, `ClaimsRecorded` |
| `sequential` | one request at a time; adds of one blob, two in one space, one of them digest-less, and one in another, two runs each, 2 nodes, 2 uploads, 1 fault, removes, aborts | `ClaimsReleased`, `DigestlessSingleUpload` |
| `liveness` | one add, two requests, removes, provider changes | `RequestsFinish` |
| `conclude_batch` | 7 puts on 2 nodes, chunks of 2, 8 tokens to a message, 2 deliveries with answers that may differ; failed, lost, digest-less, unusable and repeated puts; nodes that refuse, fail, send no artifacts or commit to other content, failing stores, crashes | `RegisteredIsStored`, `AcceptanceUnsplit`, `MessagesFit`, `AnsweredIsRegistered`, `RegisteredIsAttested`, `ResponseIsWhole` |
| `agent_store` | 2 tasks, 3 overlapping messages, 2 writers, 1 reader, 3 writes, both backends | `NoWaitCycle`, `WritesEnd`, `IsTaskIndex` |
| `routing` | 2 providers, pages of 1, 2 policies, 2 requests (selections and a put of a policy), 2 changes | `RoutedWithinPolicy`, `UnavailableJustified` |
| `usage` | one blob, one upload, two removers, 3 changes over 4 ticks, pages of 1, 2 attempts, both backends | `BytesBalance`, `UploadsBalance`, `SeriesExact`, `UnstableJustified` |
| `listing` | 20 listings, up to 4 rows in every order and with copies where the store keeps them, sizes -1, 0, 1, 3, none and too large, 2 changes | `NothingMissed`, `NoneTwice`, `NeverFails`, `ListEnds` |
| `access` | 2 accounts (one e-mail), 1 space, 2 services (one allowed), 2 provision requests, 1 confirmation, 2 executions, 1 failure, both backends | `ProvisionedOnce`, `SubscriptionAgrees`, `ProvisionCompletes`, `AgreementLasts`, `StoredIsClaimable`, `CommandsComeWithAccount`, `Entitled` |

Every run but three (`single_shot`, `sequential`, `liveness`) also checks its module's `TypeOK`.

* `RegisteredAttested`: a row of the registry is for an add of that space, under
  the digest the add names or a location commitment names, and the acceptance of
  an upload of that add is stored. It needs the order accept, persist, register,
  and the comparison of a digest-less commitment with the client's report.
* `ChainComplete`: the chain add receipt -> accept -> put -> allocate that
  replays, removes, aborts and conclusions walk never has a gap, whatever crashes.
* `PrimaryHolds`: the node a remove finds has the space's claim. It holds as long
  as no add is run twice (`single_shot`, `MaxRuns = 1`). With `MaxRuns = 2` it is
  false, for the reason `retry_after_register` shows: a retry made before the
  first put is concluded replaces the receipt by one for another upload.
* `ClaimsRecorded`: nodes keep no claim that the registry does not know, when all
  requests are done, nothing failed and no task was retried. Its run has no removes.
  The clients of this and the next run report the digests of what they put: a put
  without a digest whose client reports another one is accepted by the node and then
  refused, and the node keeps the claim.
* `ClaimsReleased`: with removes, and requests that follow one another, a claim
  without a row remains only where the space had the blob accepted on two nodes, of
  which a remove asks one. With overlapping requests it is false: a remove deregisters
  what another request registered since (`blob_remove.go:92`).
* `DigestlessSingleUpload`: a digest-less add has one upload.
* `RequestsFinish`: the loop of `doAllocate` ends.
* `RegisteredIsStored`: persisted before registered. For every registered blob one
  stored message holds the accept with a receipt and, for a put without a digest, a
  commitment that warrant it, whatever fails and whatever a later delivery is answered.
* `AcceptanceUnsplit`, `ResponseIsWhole`: whoever finds an acceptance, in a stored
  message or in the response, finds the artifacts it names of those the node sent. The
  first is claimed of puts that a conclusion lists once.
* `AnsweredIsRegistered`, `RegisteredIsAttested`: a chunk that fails neither loses
  what earlier chunks accepted nor registers what nobody answered.
* `MessagesFit`: a message is within the budget unless it is one acceptance.
* `NoWaitCycle`, `WritesEnd`: overlapping upserts wait in one order, so they end.
* `IsTaskIndex`: the refinement of `TaskIndex`.
* `RoutedWithinPolicy`: the chosen provider was a candidate of a policy that the
  space referenced since the selection began, at some time since then;
  `UnavailableJustified`: a refusal means that no usable provider stayed usable.
* `BytesBalance`, `UploadsBalance`: rows, logs and counters agree. Two changes with
  one cause within one tick leave a single log entry; the model marks that case
  (`suppressed`) and then asks only that log and counter agree, which is what
  `recordDelta` aims at.
* `SeriesExact`: an answered series is what the logs hold at the moment of the
  answer; `UnstableJustified`: giving up takes as many changes as attempts. Both are
  claimed of Postgres: the memory stores move a log and its counters apart. The
  bytes are never clipped at zero, and neither are the uploads unless an entry was
  suppressed: its upload is removed without having been added, the log may then
  sum to less than nothing, and the sample reports zero.
* `NothingMissed`, `NoneTwice`, `NeverFails`, `ListEnds`: see the module for which
  listings each is true of. The memory uploads and shards restart when their
  cursor row is gone and the counted cursors shift when a row is added before
  them, so those may repeat rows, and the memory delegations repeat a token that is
  stored twice; odd limits make some memory listings panic,
  and a limit beyond what a slice can hold makes the Postgres ones panic too.
  `ListEnds` excepts tables in which copies keep a listing from its end (`Endless`).
* `ProvisionedOnce`, `SubscriptionAgrees`, `AgreementLasts`, `ProvisionCompletes`: the
  two writes of provisioning under interleaving, failure and retry.
* `StoredIsClaimable`, `CommandsComeWithAccount`, `Entitled`: what agents can claim.

### Runs that show a disagreement

Each takes a sentence of the code's own comments or tests as the property.

| Run | The sentence | What happens |
|---|---|---|
| `retry_after_register` | "should not have been registered on error" (`blob_add.go:121`) | a retry that fails overwrites the receipt of the registration's cause |
| `routing_weights` | "Weight determines chance of selection" (`storage_provider.go:50`) | with weights 1, 1 the last is never drawn |

### Observations without a run

Met while modelling, in the states these modules describe:

* A remove deregisters the blob although every forward failed (`blob_remove.go:92`);
  the comment at `:79` says that deregistering last keeps the registration for a
  retry in that case. `:30` calls forwarding best effort.
* A second add of a blob that was parked before the first was registered is
  accepted by its own node when its put is concluded; a remove asks only the
  first one's node (`blob_remove.go:61`). `ClaimsReleased` excepts this.
* A crash between the registration and the response (`blob_add.go:418`) leaves a
  registration whose cause has no receipt: a later add of the blob is answered with
  an error, and a remove asks no node.
* Two overlapping runs of one digest-less add both find no receipt and both
  allocate (`blob_add.go:75`).
* `resolvePolicy` reads the reference and the candidates apart
  (`routing/service.go:208`). If the space moves on and the old policy's
  candidates are replaced in between, the candidates belong to a policy that the
  space did not reference any more; `RoutedWithinPolicy` is stated so as to
  allow this and nothing beyond.
* A put that is listed twice in one conclusion is accepted twice under one task.
  `groupAcceptances` gives the artifacts to the first answer that names them
  (`ucan_conclude_http_put.go:298`); if the budget ends a message between the two,
  the later message, which is then the one indexed, has the receipt without the
  commitment, although `:374` says that an acceptance is never split. So
  `AcceptanceUnsplit` excepts such puts.
* The row of an accept task is replaced by whatever is stored under it later: by
  the failure, or the answer without artifacts, of a redelivered accept
  (`ucan_conclude_http_put.go:473`), and by the response of a replayed add, which
  has the accept receipt and not its commitment (`blob_add.go:514`). A poll for the
  task of a registered blob then finds that message, although
  `ucan_conclude_http_put.go:465` counts on the stored receipts being retrievable by
  task link. So `RegisteredIsStored` speaks of what is stored and not of the index.
* The memory delegation store keeps a token that is sent again twice, and a claim
  then names it twice; more copies than a page holds make its listing come to the same
  page for ever. So does the memory shard listing of an upload that named its
  largest shard twice, whose last page has a cursor that leads to itself.
* Two accounts that provision one space at the same time can leave the
  subscription with one and the consumer with the other; `SubscriptionAgrees` says
  when. The memory consumer store provisions the space for both.
* The memory agent store lists every message of a task, so the receipts endpoint
  looks at the first 25 of them by CID.

### Bounds

Two nodes are what it takes for a blob to be in the wrong place, two requests for
an interleaving, two digests for a commitment that differs from the report, two
spaces for a shared claim, two uploads for a blob on two nodes or for a retry. Retries are
bounded by `MaxRuns`, failures by `MaxFaults` or `MaxFails`: one or two, at any
point. A page smaller than the table makes pages; two changes are what a torn
read needs, three what it takes to spoil both attempts of a usage query and go
on. Four rows (`MaxRows`) and pages of two leave room for a page between two others,
and for the copies that make a listing endless. In `conclude_batch` three puts on one
node make two chunks, and two acceptances of four or five tokens overflow a message of
eight; the second delivery is the client's retry. In `agent_store` three messages overlap pairwise
in one of four keys and two writers are the smallest circle (the theorem covers
any number). Requests, nodes, uploads and policies are symmetric where the
configuration says so: no definition orders or names them. No run with a
liveness property uses symmetry.

### Fairness

* `BlobLifecycle`: a request that was begun keeps taking steps. The HTTP server
  runs every request in its own goroutine and the calls to nodes have a timeout,
  so a call either returns or fails; both are steps.
* `AgentStore`: a statement that is not waiting for a row goes on.
* `Listing`: a caller that has a cursor asks for the next page.
* `Provisioning`: a handler goes on, and a client sends again what failed (the
  property is about the retry).

Nothing else is assumed of clients, nodes or operators, and nothing is said about
*which* outcome a call has.

## 4. What is proved

`BlobLifecycleProofs` proves, for every choice of the constants (any sets, any
number of retries and faults, not only finite ones), from `ConstantsAssumption`
alone:

* `Invariance`: `Spec => []IInv`
* `TypeCorrect`: `Spec => []TypeOK`
* `RegistrationsAttested`: `Spec => []RegisteredAttested`
* `ChainAlwaysComplete`: `Spec => []ChainComplete`

The properties are not inductive: from an arbitrary request at `register` or
`conclude_register` with nothing attested, the next step would break them.
`IInv` adds, in `RequestOK`, what a request in progress carries: an upload that is
worked on has its allocation stored and, in an add, is for the request's add; at
`register` and `conclude_register` its acceptance is stored, with the digest of the
add or of the commitment; the answer of an add names an upload whose allocation
is stored; a conclusion of an add with a digest works on that digest; the cause
of a replay or a remove is an add. `UploadsIssued` says that a stored allocation is
of a known add and node. A request keeps these facts through the steps of the
others because the stores only grow (`Grows`, `RequestStable`), and because the
bytes of an upload are put once, so its commitment does not change after that.
There is one lemma per action; `NextInv` combines them.

Three properties are true under conditions, and are proved with these as hypotheses:

* `SingleUpload`: `Spec /\ []OneRunAtATime => []DigestlessSingleUpload`. Without the
  condition, that no two requests execute one digest-less add at the same time, both
  find no receipt and both allocate (see 3, observations). `DigestlessInv` says that
  such an add is at its allocation, or answers with an upload nobody knows, only
  while it has no receipt, and that it has one once a client knows an upload.
* `PrimaryFoundOnce`: without removes, `Spec => [](RunOnce => PrimaryHolds)`. A second
  run of the add is what `retry_after_register` is about, and a remove has the claim
  released before it drops the row. `OneRun` says that a task executed
  once has one server and at most one upload, which is the one its receipt names;
  `AttestedClaimed` that a stored accept receipt stands for a claim its node holds.
* `EveryClaimRecorded`: without removes, `Spec /\ []HonestReports => []ClaimsRecorded`.
  `Recorded` says that a claim has a row or a request that is about to write it.
  `HonestReports` is the condition on clients in section 3.

The steps of the handlers fall into a few kinds for each of these (`StepKinds`,
`ClaimKinds`), and what is not of a kind leaves the state in question alone.

`AgentStoreProofs` proves, from `StoreAssumption`, for any tasks, messages, writers
and readers:

* `Invariance`: `Spec => []IInv`
* `TypeCorrect`: `Spec => []TypeOK`
* `WaitsAcyclic`: `Spec => []NoWaitCycle`, when the tasks have a bound (a database
  holds finitely many)
* `PostgresIsTaskIndex`: `PgSpec => IsTaskIndex`, where `PgSpec` is `Spec` started with
  the Postgres backend: the detailed store implements the abstract one.

`IInv` says that a write holds an initial segment of its rows and has stored its
payload before it locks any (`WriterInv`), that a row leads to a stored message
that has the row's entry and whose entries all have rows (`IndexInv`), that a
lookup needs only stored payloads (`ReaderInv`), and that Postgres has one row for
a key (`SingleRow`). For `WaitsAcyclic`, each member of a circle wants a row that is
beyond every row it holds, so following the circle the wanted rows would ascend
for ever, within a bounded set. For the refinement, only `Commit` changes the
abstract map and is a `Put`; the step that queries is the `Lookup`, because `IndexInv`
makes its answer complete, or the `Serve`, because a task has at most two rows and
a page holds more; every other step is a stutter or `Unavailable`. The memory
backend is left to TLC: it keeps every message of a task, so the receipts
endpoint answers like the map only up to a page.

`AccessProofs` proves, from `ProvisioningAssumption` and `AccessAssumption`, for any
accounts, spaces, services, requests, agents, access requests and executions, any
list of commands and any number of failures, in both backends:

* `Invariance`: `Spec => []IInv`
* `TypeCorrect`, `Once`, `Agreement`, `Claimable`, `AccountFirst`, `OnlyEntitled`:
  `Spec => []P` for `TypeOK`, `ProvisionedOnce`, `SubscriptionAgrees`,
  `StoredIsClaimable`, `CommandsComeWithAccount` and `Entitled`
* `AgreementStays`: `Spec => AgreementLasts`

Its `IInv` has two halves. `ProvisioningInv`: a request past its checks asks for an
allowed service and an account that may pay, and has a subscription before it
writes a consumer (`CallOK`); a consumer has all of that (`ConsumerOK`); Postgres has
one row for a service and a space (`UniqueConsumers`); a subscription was asked for
by its account (`SubscriptionAsked`). `AccessInv`: a row of the delegation index
was stored by some execution and its object before it (`IndexOK`); what an
execution stores is stored through a confirmation that was sent or a space that is
served, a confirmation makes its own, and the account's is the first (`SourceOK`,
`TodoOK`, `PutOK`). The halves meet in `Served`, the consumers of a space, which only grow:
an execution keeps its part through everything another actor does (`JobStays`).
The account that `Get` returns is that of the first row, which exists because the
naturals are well founded, and stays first when a row is appended (`FirstStays`).

`RoutingProofs` proves, from the assumptions of `Routing`, for any providers,
policies, requests, page size and weights:

* `Invariance`: `Spec => []RoutingInv`
* `TypeCorrect`, `WithinPolicy`, `RefusalJustified`: `Spec => []P` for `TypeOK`,
  `RoutedWithinPolicy` and `UnavailableJustified`

`RoutingInv` says of every selection in progress how its local variables relate to
the history since it began (`Ongoing`, `Progress`): the reference and the
candidates it has read are among those the space had, what it chose is one of them,
and a provider that was usable throughout is either among the rows listed so far or
has a key beyond the cursor. The last is what makes a page that is read after
changes safe: a page is the first rows beyond the cursor in the order of the key
(`IsPage`), so what it leaves out is beyond its last row.

`ConcludeBatchProofs` proves, from `BatchAssumption`, for any puts, nodes, deliveries
(with repeated puts), answers of the nodes, chunk size, token budget and number of
deliveries:

* `Invariance`: `Spec => []BatchInv`
* `TypeCorrect`, `StoredFirst`, `Unsplit`, `Fitting`, `NothingAnsweredLost`, `Attested`,
  `WholeResponse`: `Spec => []P` for every property of the run `conclude_batch`

It first proves what the two algorithms compute, whatever they are given: `Pack`
keeps every group, in order, in messages that fit (`PackedUpto`, by induction over the
groups), and `Groups` gives every answer one group with all that its receipt names, the
node sent and nobody claimed before (`Results`, `AnswersApart`), so that the first answer
that shows a put accepted stands in a group with what warrants its registration
(`FirstClaims`, `GroupWarrants`). `BatchInv` then follows a batch through the handler: the
answers are those of the first chunks, are among what was heard, and no acceptance that
was received is lost (`Working`); a put that will be registered has its warrant in a
message that is stored or in the outbox (`Writing`), so that a registration finds its
acceptance stored; the stores keep this because messages are only added (`Stored`); the
batches that wait name only puts that are not skipped, each of them once if the
delivery does (`Pending`).

`UsageProofs` proves, from `AccountAssumption` and `UsageAssumption`, for any blobs
and sizes, roots, causes, removers, lag, queries, page size, limits and attempts:

* `Invariance`: `Spec => []UsageInv`
* `TypeCorrect`, `BytesAgree`, `UploadsAgree`: `Spec => []P` for `TypeOK`, `BytesBalance`
  and `UploadsBalance`, in both backends
* `SeriesTrue`: `Spec => SeriesExact`
* `UnstableCaused`: `Spec => UnstableJustified`

The balances are not inductive in memory, where a lock holder is always between two
of its changes. `AccountInv` says that there is a job for each store, of which
`held` is the rest (`Job`, `Rest`), and states the balances with what the jobs still owe
to the log, to the counters and to the registry (`LogDue`, `SpaceDue`, `AdminDue`,
`DropDue`): each step pays one of the debts. In Postgres there are no jobs and it
reduces to plain agreement (`PostgresAccounts`).

For the series `UsageInv` adds three facts. `Covered`: before any instant, the log
holds at least as much as is held now of what has not changed since that instant,
because a row is dated no earlier than the last change of its subject; so the rows
before an instant never sum to less than zero, and the reported balance is never
clipped. `ReaderSound`: the counters only rise, and a log never changes without one of
the four that the reader compares, so counters equal at both ends mean logs that
stood still in between, and the pages read so far with the rows beyond the cursor
are all that is wanted (`Scanned`); and every attempt but the current one has seen a
change, which is why giving up takes a change per attempt. `ReaderTyped`: the query
in progress is one that `Verdict` let through, so its buckets cover the range
(`BucketsCover`).

`ListingProofs` proves, from `ListingAssumption`, for any set of rows, page sizes, default
and largest sizes and number of changes, and all twenty listings:

* `ListInvariance`: `Spec => []ListInv`
* `ListTypeCorrect`, `NothingIsMissed`, `NothingIsReturnedTwice`, `ListingNeverFails`:
  `Spec => []P` for `TypeOK`, `NothingMissed`, `NoneTwice` and `NeverFails`

Each listing walks along one sequence, in the order of keys, of insertion or of the
count, and a page is a run of it (`Run`, `CountedRun`, `KeyedPage`): it starts after the
cursor, its own cursor is its last row, and without one it reaches the end. `PassedAt`
says for each of these orders which rows a cursor has passed, and `Covered` that the
ones that stayed were returned; `PagesAdvance` that a page holds what lies between the
two cursors. A row that is added or removed moves no row from behind the cursor to
before it: keys stay where they are, an insertion is at the end, and in a sorted slice
a place only rises (`PlaceGrows`). The exception is a cursor whose row was removed and
comes back at the end of a slice; `CursorKnown` remembers that it was removed, so that
case is the one `NothingMissed` excepts. `Once` is the converse, for the listings of
`NoneTwice`: nothing is returned that the cursor has not passed, and the memory
listings of customers and delegations, which start again at a cursor that is the last
row, are given one only if there is a row or a copy after it (`MoreAfter`). The copies
of a row stand side by side, since the slices that keep them are sorted, so a page that
begins after the first copy of its cursor repeats copies only.

Induction over data is done in `DataLemmas` on sets: the positions at which a
recursive function has the value it should (`Sums`), or the subsets of a finite set on
which a sum is right (`SetInduction`), contain the first, are closed under the next,
and so are all.

Before it was proved, each inductive invariant was checked by TLC on the instance
of its run (those with a quantifier over all integers on a range of them).

Only model-checked: liveness (`RequestsFinish`, `WritesEnd`, `ListEnds`,
`ProvisionCompletes`), which is beyond the prover; the memory backend of the agent
store, which implements `TaskIndex` only up to a page; `ClaimsReleased`, which is true
of requests that follow one another. Every other invariant of a passing run is proved,
three of `BlobLifecycle` with the hypotheses above.

## 5. Not modelled

* Replication (`blob_replicate.go`, `ucan_conclude_blob_replica_transfer.go`): both
  handlers are commented out in this commit, so the replica store has no
  writer, `/blob/remove` finds no replicas, and `SelectReplicationProvider` and
  `ReplicaAllocate` have no caller.
* The revocation store and `UpdateProduct` of the customer store: nothing calls
  them.
* The proofs of storage providers (`admin_provider_proofs_set.go`): one write of a
  value that only the UCAN library looks at. The memory policy and provider
  stores: one map under a mutex each; their listing is in `Listing`.
* `ListByCustomer` of the memory consumer store: it sorts by space only and unstably,
  over the random order of a map, so two rows of a space may change places between
  pages; nothing calls it outside of tests.
* The shards of an upload as a function of its upserts, and which shard listing
  belongs to which upload: rows of their own, without accounts.
* The validation of proofs and signatures, which happens in the UCAN library
  before a handler runs.
* Generated encoders, configuration, command line, wiring, migrations, mailer,
  UI, tracing and `pkg/client`: no state, or none of the system's own. Together
  with the commented-out handlers and the scanning of database rows these are
  most of the lines that no definition stands for.

What would come next: a proof of `ClaimsReleased` for requests that follow one another,
and the conditions under which `PrimaryHolds` survives removes; an abstract
registry (a blob is absent, pending or stored in a space) refined by `BlobLifecycle`.
