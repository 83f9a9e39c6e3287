# A verification project for the RAG support platform

This directory holds TLA+ models of the Python services of the repository (the
administrator API in `apps/api` and the provider package in `packages/providers`),
the TLC configurations that check them on small instances, and TLAPS proofs of the
properties that matter most for every value of the constants. Paths below are
relative to the repository root; `auth.py`, `database.py`, `main.py` and `db/` are in
`apps/api/src/rag_api/`, `orchestration.py`, `vertex.py`, `vertex_embedding.py` and
`contracts.py` in `packages/providers/src/rag_providers/`, and the scripts of the
schema (`0001` to `0003`) in `apps/api/migrations/versions/`. `PROJECT.json` lists the
runs, the source lines behind every definition, the hazards and the theorems.

## 1. Inventory

The repository is an early stage of a larger plan: one deployable service exists (the
API), it serves two administrator endpoints, and the pieces of the later pipeline
(source ingestion, embedding, generation, chat) exist as libraries with probes and
tests. There is one event loop per process, so concurrency is what happens at the
`await`s, plus whatever other processes do to the same PostgreSQL database.

| component | state | operations | interacts with |
|---|---|---|---|
| Signing-key cache, `RemoteJwksProvider` (`auth.py`) | keys, expiry, cooldown, failed flag, generation, lock | `get_key` | JWKS endpoint; called by token verification |
| Administrator boundary (`auth.py`, `database.py`, `main.py`, `AdminUserRepository`) | lazily built verifier and database runtime, connection pool, the `admin_user` table, one transaction a request | bearer check, session, get-or-create mapping, the two handlers, commit | key cache, PostgreSQL, smoke stream |
| Source repository (`db/repositories.py`, `db/models.py`, migration 0002) | `source_document`, `source_version`, `chunk` rows; row locks | create, add chunks, record profile, transition, activate, delete | PostgreSQL; clients are probes and the future worker |
| Embedding (`orchestration.py`, `vertex_embedding.py`) | vectors, token count, attempt and delay of one request | `embed` | Vertex through google-genai; the caller's cancellation |
| Generation stream (`orchestration.py`) | remaining budget, two flags | `stream_generation` | any provider adapter; any consumer |
| Vertex generation and the smoke endpoint (`vertex.py`, `main.py`) | text seen, usage; the response body | `generate`, streaming, `aclose` | Vertex, the orchestrator, the HTTP client |
| Migrations and deployment (`migrations.py`, `migrations/env.py`, the scripts, `deploy-development.yml`) | the objects of the schema `rag_app`, the recorded revision, the grants; the image of the job, the release that serves | upgrade, downgrade, grant, read the result; dispatch, execute, deploy, cancel | PostgreSQL, Cloud Run, operators |
| Conversation, trace and widget persistence (`db/repositories.py`, `db/models.py`) | `widget`, `conversation`, `message`, `retrieval_trace`, `retrieval_trace_chunk` rows; row locks | create a widget, a conversation, a message, a trace; attach candidate chunks | the source tables through `chunk_id`; PostgreSQL; operators |
| Probes, fakes, contracts, worker/admin/widget stubs, Terraform | none of their own | one-shot scripts, test doubles, schemas, one-line placeholders | |

What is hard in each, and what correct means there:

* **Key cache.** Three mechanisms overlap: a TTL, a cooldown between fetches that also
  applies to failures, and a lock with a generation counter so that waiters share a
  fetch. Correct: no expired key leaves `get_key`; a withdrawn key goes and a new key
  arrives within a known time; a 401 or a 503 has a reason; fetches are spaced and
  shared; every call ends.
* **Administrator boundary.** The transaction spans the whole request, and commits
  after the response has been sent (FastAPI 0.141 leaves dependencies that `yield` at
  that point), while the smoke endpoint's body streams inside it. Correct: one row per
  subject although first requests race; an id that was answered stays; only a verified
  administrator reaches the database; nothing keeps a connection or a row; requests
  end.
* **Source repository.** Methods are several statements, decided on in Python, with
  row locks on some of the reads and none on others, under foreign keys, a cascade, a
  partial unique index and possible deadlocks. Correct: a legal lifecycle with one
  indexed version a document, no lost update, no orphan, chunks of the right
  dimension, an active version that was indexed.
* **Embedding.** Batches times retries times one deadline. Correct: vectors aligned
  with texts, the token budget kept, nothing sent that is over the upper bound, calls
  and failures with a reason, pauses that grow within a batch and start anew with the
  next, an end.
* **Generation stream.** The consumer's time must not count against the provider, the
  sum of all waits must, and the protocol must hold against any provider.
* **Migrations.** An execution is one long transaction, nothing keeps a second one out,
  a cancelled workflow leaves its own behind, and a deployment may stop between the
  schema and the service. Correct: the recorded revision and the schema agree; the
  scripts fit each other in both directions; whatever serves finds its tables and may
  use them; a report of completion is true; a deployment ends.
* **Conversations and traces.** Several links in one flush, retries of a request, and a
  cascade that comes down from two sides while rows are added below it. Correct: no
  reference without its row, one trace a request, evidence that survives what it is
  about, calls that end.
* **Smoke endpoint.** The status line is out when the stream fails, so truncation is
  only visible in the text; whatever happens the adapter has to be closed.

`hazards` in `PROJECT.json` lists these one by one, at the line where they bite, with
the properties that would catch them.

## 2. The modules

| module | models | uses |
|---|---|---|
| `JwksCache` | the signing-key cache | |
| `JwksCacheProofs` | theorems about it | `JwksCache` |
| `AdminBoundary` | requests of the administrator API | |
| `AdminBoundaryProofs` | theorems about it | `AdminBoundary` |
| `SourceCatalogue` | abstract: the committed documents, versions and chunks, a step a commit | |
| `SourceVersions` | transactions on the source tables; implements `SourceCatalogue` | `SourceCatalogue` |
| `SourceVersionsProofs` | theorems about it | `SourceVersions` |
| `VertexEmbedding` | one embedding request, orchestrator over adapter | |
| `VertexEmbeddingProofs` | theorems about it | `VertexEmbedding` |
| `StreamContract` | abstract: what a stream promises its consumer | |
| `GenerationStream` | `stream_generation` between any provider and any consumer; implements `StreamContract` | `StreamContract` |
| `GenerationStreamProofs` | theorems about it | `GenerationStream` |
| `VertexStream` | the smoke endpoint: the Vertex adapter inside `GenerationStream`, the response body, the client | `GenerationStream` |
| `VertexStreamProofs` | theorems about it | `VertexStream` and, as an instance, `GenerationStreamProofs` |
| `CoreSchema` | the schema as data: foreign keys, unique keys, the statements of each revision in both directions | |
| `Migrations` | overlapping executions of the migration runner | `CoreSchema` |
| `Deployment` | the deployment workflow and the operators over those executions | `Migrations` |
| `DeploymentProofs` | theorems about it | `Deployment` |
| `ConversationTraces` | transactions on conversations, messages, traces and widgets | `CoreSchema` |
| `ConversationTracesProofs` | theorems about it | `ConversationTraces` |
| `MC*` | what the runs need beside a module: symmetry sets, small inputs | |

Definitions named `Faulty...` are variants of an action or helper with a plausible
bug. No specification uses them; putting one in the place of its original makes a
named property fail, which shows that the property depends on that piece of code
(`mutants` in `PROJECT.json`).

### JwksCache

An action is the code between two awaits: `Request` is `get_key` up to the lock,
`AcquireRefresh` and `AcquireUnknown` are the bodies of `_refresh` and
`_refresh_for_unknown_key` with the lock in hand (return, re-raise the remembered
failure, or start a fetch), `FetchSucceeds` and `FetchFails` the code after the
exchange, `Return` the caller taking the answer. `queue` is the waiters of
`asyncio.Lock`, which wakes them in order; a lock is `lock` only while it is held
across the fetch. Absolute deadlines are kept as time left and the generation as "it
moved since this request read it", because the code compares them and does nothing
else; this keeps the state finite without cutting behaviour off. The endpoint
(`EndpointAnswers`, `Rotate`) reads its key set at some moment of the exchange and may
change it later, so an answer may be out of date on arrival. Four history variables
(`keysAge`, `sinceStart`, `since`, `waited`) are only there for the properties, and
saturate. Time (`Tick`) passes only while the event loop has nothing ready.

`MaxFetch` bounds the length of an exchange. httpx bounds each network operation by
five seconds and not the exchange, so the code does not promise `MaxFetch < Cooldown`.
The properties that need it say so and are checked and proved under it;
`jwks_liveness` and the other theorems do without.

### AdminBoundary

`Request` is a request up to its first await, with the bearer check and the lazy
verifier; `Verify` the end of `get_key` together with the signature and claim checks
and, in the same step, `OpenSession`, the lazy runtime. `Connect` takes a pool
connection or fails when there is none. `Insert` is `INSERT ... ON CONFLICT DO NOTHING
RETURNING`, which waits for the open transactions that inserted the same subject
(`Inserters`); `Select` is the query after a conflict. `AuthCheck`, `Smoke` and
`StreamEnds` are the handlers (which of the two endpoints a request is for is decided
there, because nothing before depends on it); `Commit`, `CommitFails` and `RollBack` the end of
`session.begin()`, which runs after the response. The two locks around the lazy
objects are not modelled as locks: nothing under them awaits, so they are never
contended.

### SourceVersions

An action is one SQL statement with the Python checks that lead up to it. `docs`,
`versions` and `chunks` are what is committed, `own*` what a transaction wrote,
`exclusive` and `share` the row locks (`FOR UPDATE`, and `FOR KEY SHARE` of foreign
keys). `DocSeen` and `VersionSeen` are READ COMMITTED; `Blockers` says for whom a
statement waits (row locks, unique indexes), and a circle of waits is broken by
aborting one member. A method that raises a domain error leaves the transaction open,
as the code does, and the caller may go on, commit or roll back; an integrity error
ends it. Which calls are made is free (`Issue`).

### CoreSchema, Migrations and Deployment

`CoreSchema` is the schema read as data. `ForeignKeys` and `UniqueKeys` are what the
tables declare; `Upgrade` and `Downgrade` are the scripts of the three revisions, one
entry for each statement that makes or removes an object; `Needs` and `Owner` say which
objects a definition rests on and with which table an object is dropped. Columns, plain
indexes and the checks of one row are left out.

An execution of the runner (`Migrations`) is one transaction, as `engine.begin()` and
alembic's `begin_transaction` make it: `Run` is the next statement of the script it is
at, `ReadRevision` the one look alembic takes at `alembic_version`, `Stamp` the move of
its row after a script, `Grant` the grants to the API's role, `Commit` and then, on
another connection, `ReadResult`. `objects`, `revision` and `grants` are what is
committed; `made`, `dropped`, `granted` and `moved` are an execution's own. A statement
waits while another execution has touched an object it needs (`Touched`); one that waited
is not asked again whether the object exists, so `CREATE ... IF NOT EXISTS` may fail, and
a `GRANT` that waited gives up. `Lost` is a killed execution, the 600 seconds of the job
or a lost connection, at any point.

`Deployment` is the workflow: set the job to the image of the commit, execute it and
wait, move the service, test it. `Cancel` leaves an execution behind and `Dispatch` starts
over, with the same release or another. `ExecuteByHand` is the operator's execution of
the job as it is set, `ExecuteLocally` the upgrade and the downgrade of a database that
no service uses (`appUser` is false there; the deployed runner is only called to upgrade).

### ConversationTraces

A call is a queue of work for PostgreSQL (`work`): rows to insert, the foreign key checks
that follow them, a row to delete and what its foreign keys then demand. Each item is a
step. An insert waits for whoever holds a row that it clashes with on a unique key, a
check takes `FOR KEY SHARE` on the row it names, a deletion waits for all holders, and
`Enforce` is `ON DELETE`: `CASCADE` goes on with the child, `SET NULL` detaches it, `NO
ACTION` refuses. The keys come from `CoreSchema`, so the model follows the schema. Rows
are tuples that are inserted once; `TableOf` and `ColumnsOf` say what is in their key
columns. The deletion of a document is the one of the source repository; widgets and
conversations have no deletion in the code, so an operator deletes them (`Retire`).

### VertexEmbedding

`Preflight` is the upper-bound check, `Embedded`, `Malformed` and `Fails` the three
ways a call ends, `Wakes` the end of the jittered pause, `Expires` and `Cancelled` the
deadline of the orchestrator and the caller's cancellation, which arrive while the
adapter waits. A text is its position, so "aligned" is `vectors = [i |-> i]`. A batch
is `BatchAfter`; the token count Vertex reports is free up to `MaxReported`. What an
SDK exception becomes is `ErrorCode`, one representative for each branch of
`_map_sdk_error`.

### StreamContract and GenerationStream

`GenerationStream` has one action for each point where the generator stops: the loop
head (`Wait`), the ways the wait for the provider ends (`Receive`, `Stops`, `Raises`,
`Expires`, `Abandon`), the yield (`Resume`, `Abandon`). The provider may send events
of any kind in any order, raise any error, end at any time or hang. `Overrun` is how
late the loop may serve a timer: the budget can go below zero by as much.
`ImplementsContract` maps it to `StreamContract` (deltas, then at most one completion
that nothing follows; a normal end only after both; one error otherwise).

### VertexStream

`VertexStream` takes the orchestrator as an instance of `GenerationStream` and puts
`VertexGenerationAdapter.generate` in the place of its provider, the body of
`vertex_generation_smoke` in the place of its consumer, and the HTTP client around
it: count tokens, open, read, completion or error; the handler's refusal, a body that
is never begun, a client that goes away in the middle, the error line, the `finally`
that closes the adapter.

## 3. The runs

| run | instance | what it shows |
|---|---|---|
| `jwks_cache` | 3 requests, 2 keys, TTL 3, cooldown 2, exchanges of at most 1 | how long a withdrawn key is served and a new one refused, spacing and sharing of fetches |
| `jwks_liveness` | 2 requests, a usable and an unusable key, TTL = cooldown = 2, exchanges of up to 3 | no expired key, justified 401s and 503s, with exchanges longer than the cooldown and the TTL; every `get_key` ends; an endpoint that recovers is believed again |
| `admin_boundary` | 3 requests of one new administrator, pool of 2, 2 ids, 1 lost commit | one mapping, answers kept, refused requests stay outside, every request ends |
| `source_lifecycle` | 2 transactions of 2 calls, 2 versions of a document | one indexed version, active version was indexed, the catalogue implemented at every commit (its conditions on chunks are those of `source_content`) |
| `source_content` | transactions of 2 and 1 calls, 1 version, 1 profile, activation included | no orphan, chunks of the recorded profile, no lost update, every call ends, deadlocks included |
| `source_activation` | 2 transactions of 1 call | finding 1 (violated) |
| `source_immutability` | 2 transactions of 1 call | finding 2 (violated) |
| `vertex_embedding` | requests of 1, 3 and 4 texts, batches of 2, 3 attempts, deadline 6 | alignment, budget, calls within the budget and with a reason, growing pauses, justified failures, an end |
| `generation_stream` | budget 4, timers late by 1, pauses of 2, 4 events | contract, budget, whose timeout it is, every pull ends |
| `vertex_stream` | budget 3, 3 events | Vertex keeps the protocol, truncation is marked, the adapter is closed |
| `deployment` | 2 overlapping executions, releases with the schema of revisions 2 and 3 | revision and schema agree, scripts fit, what serves works, evidence is true, deployments end |
| `conversation_traces` | transactions of 2 and 1 calls on 12 rows, 2 of them clashing traces and 3 clashing links | references and unique keys hold, evidence is kept, every call ends |

Why the bounds are enough:

* *Requests of the key cache.* One fetches, one waits behind it and one arrives later;
  two that wait for the same fetch are needed for the sharing property, so three. The
  TTL is once longer than the cooldown and once equal to it, the two cases
  `SupabaseAuthSettings` allows (60 to 3600 seconds against a cooldown of 60); a fetch
  is once shorter than both and once longer.
* *Administrator requests.* Three on a pool of two: a winner of the mapping, a loser
  that waits for it while it holds the other connection, and one without a connection;
  two ids, because a lost commit (`MaxLost`) makes the next request insert another one.
* *Transactions.* Every race in the repository is between two transactions, and the
  hazards are all in the order of the statements of two calls; two calls in a
  transaction let one use what the other wrote and take locks in opposite orders. Two
  versions of one document meet in the unique index; the other runs need one version
  and use the room for fairness without symmetry. `source_content` has one profile, so a
  chunk in it is embedded for the recorded profile or for none; that a second profile of
  another dimension cannot get in is what the theorem `ChunksMatchProfiles` adds.
* *Executions of the runner.* Two overlap: every wait, conflict and stale read is between
  an execution and one other; those that came and went are in the committed state. The
  releases know revision 2 and 3, so an image can be behind the database, ahead of it
  or level with it, and the grants are in the scripts of one and not of the other; a
  local database goes from nothing up to either and back down.
* *Conversations and traces.* The rows are the smallest schema in which every foreign key
  has both ends: a chunk with a child, a trace with and one without a conversation that
  share their request, links that clash on the rank and on the chunk. Two calls against
  one are enough for a circle of waits.
* *Embedding.* Three texts in batches of two are a full and a short batch; three
  attempts make the delay grow twice and meet its maximum, and a retried full batch
  followed by a retried short one shows it start anew; the deadline is long
  enough for the retries of one batch and short enough to cut those of two; the
  requests lie on both sides of the upper bound.
* *Streams.* Four events are two deltas, a completion and one too many; the budget is
  long enough to be spent over several waits with pauses in between.

All runs check deadlock; none of the models may stop. The finished states of the
one-request models (`Done`, `Ended`, `Finished`) stutter explicitly.

### Fairness

* `JwksCache`: weak fairness of the steps of each request. The event loop runs what is
  ready, and an exchange ends, because httpx times out an endpoint that sends nothing
  for five seconds. No fairness of requests, of the endpoint or of time;
  `KeyEventuallyAccepted` has the recovery of the endpoint and the passing of time as
  premises.
* `AdminBoundary`: strong fairness of each request's own step. The statement of a
  request that waits for others' transactions is enabled each time one of them ends
  and disabled when the next inserts; PostgreSQL queues its waiters, which strong
  fairness expresses. It includes the end of the body, which `vertex_stream` shows.
* `SourceVersions`: strong fairness of statements for the same reason, weak fairness
  of the deadlock detector and of the commit: a client does not leave a transaction
  open for ever (`database_session` and the probes use `session.begin()`).
* `Deployment`: strong fairness of the workflow and of each execution's own step. An
  execution that waits for another's locks is served in its turn by PostgreSQL; that an
  execution is free to start again and again is due to their number, a bound of the
  model which Cloud Run does not have. A step may always be preceded by a kill, and no
  fairness is asked of kills, operators, cancellations and dispatches.
* `ConversationTraces`: strong fairness of each transaction's own progress, its statement,
  its commit or the end of its deadlock, for the reasons given for `SourceVersions`.
* `VertexEmbedding`, `GenerationStream`, `VertexStream`: weak fairness of the program's
  own steps, its timers and time. Vertex and providers owe nothing: the liveness
  properties hold although they hang. In `VertexStream` nothing is asked of the client
  beyond reading what it is sent or going away.

## 4. What is proved

The proofs are in eight modules. Each defines an inductive invariant, proves that
`Init` implies it and that every action preserves it, and the properties from it.

**Key cache** (`JwksCacheProofs`, from `TimesAssumption`: durations are naturals,
0 < cooldown <= TTL; and `NamesAssumption`). The types and `TypeOK` are not enough: that a
served key is fresh needs the relation between the deadlines and the age of the keys
(`DeadlinesTrack`); that a rejection is informed needs that a request which saw an
install is answered before time passes (`InstallReachesWaiters`), which in turn needs
that every waiter is in the queue (`WaitersQueued`) because time is held back by a
non-empty queue; that a 503 is justified needs why the lock's holder fetches
(`FetcherNeedsKey`) and who holds it (`LockHeldByFetcher`); the two time bounds on
withdrawn and new keys need how far the cache and the answer under way may differ from
the endpoint (`SnapshotsTrack`), and sharing needs that a fetch leaves some cooldown
(`CooldownOutlastsFetch`). Proved for any number of requests and keys: `TypeOK`,
`FreshKeysOnly`, `RejectionIsInformed`, `UnavailableIsJustified`, `FetchesSpaced`; and
under `MaxFetch < Cooldown`: `FetchesCoalesced`, `WithdrawnKeyExpires`,
`PublishedKeyNotRejected`.

**Embedding** (`VertexEmbeddingProofs`, from `ConfigAssumption` and `BudgetAssumption`).
`IInv` ties the log of calls to the vectors received and to the attempt at hand: the
trailing calls of the log are the attempts of the current batch; `DelayTracks` ties the length
the next pause may have to the last call of the log. Proved for every
configuration, budget and request: `TypeOK`, `ResultMatchesRequest`,
`VectorsAreAPrefix`, `CallsAreJustified`, `FailureIsJustified`, and
`RefusedBeforeBilling`: a request whose upper bound is over its budget makes no call.

**Generation stream** (`GenerationStreamProofs`, from `BudgetAssumption`). `IInv` says that the
time used plus the budget left is the budget, with the running wait counted once
(`Accounted`), and that the flags are what the consumer was given (`FlagsTrack`). Proved:
`TypeOK`, `ProviderTimeIsBounded`, `TimeoutIsTheProviders`, and the refinement
`ImplementsContract`.

**Administrator boundary** (`AdminBoundaryProofs`, from `PoolAssumption` and
`NamesAssumption`). That an answered id stays needs that the row a transaction inserted
is the only one of its subject: no committed row, and no other open transaction with
one (`OwnRowIsTheOnlyOne`), and that a handler runs for its transaction's row or the
committed one (`HandlersAreMapped`). The pool bound needs that the set of connections
is finite (`PoolIsFinite`) and which states hold one (`Verified`). Proved for any number of
requests, subjects, ids and connections: `TypeOK`, `MappingIsFound`, `AnswersAreKept`,
`OnlyAdminsConnect`. The run has one subject only; the proof covers the others.

**Source repository** (`SourceVersionsProofs`, from `RowsAssumption`, `CallsAssumption` and
`UntouchedAssumption`: what a row is, and that the names are distinct). A lost update is excluded because a transaction that wrote a version, or decided
on it under `FOR UPDATE`, holds its row exclusively (`LockInv`, `Guarded`), so that the
committed row is still the one it decided on; that a lifecycle step is legal at the commit
needs that it was legal against that row (`MoveInv`); and that two versions of one document
are never both indexed needs who may be in the unique index: a committed row or one open
transaction's (`IndexInv`). That rows refer to each other needs what every open transaction
can rely on (`RowsInv`, `Kept`): the rows its foreign keys name are locked `FOR KEY SHARE`
and there, unless it deleted them itself (`RowsHeld`); its deletion of a document has reached
every version before the call ends (`DeletionsDone`); and a version that `add_chunks` or
`set_active_version` read without a lock has since moved forward at most, or was deleted
(`ReadEarlier`), so that a profile is still the recorded one and an indexed version was
indexed. A statement keeps this for its own transaction and, by the locks, for the others
(`StatementKept`, `OthersKept`), and so does the end of a transaction (`EndsKept`,
`EndsKeptOthers`); a commit then publishes consistent rows (`CommitRows`). Proved for any
number of transactions, documents, versions and calls: `TypeOK`, `NoLostUpdate`,
`CommittedLifecycle`, `OneIndexedPerDocument`, `NoOrphans`, `EmbeddedChunksMatchProfile`,
`ActiveVersionWasIndexed`, and the refinement `ImplementsCatalogue`. For that a commit is
mapped to a step of `SourceCatalogue` and everything else to a stutter (`OnlyCommits`,
`CommitMovesDocs`, `CommitMovesVersions`); it needs two facts more, that a document a
transaction wrote has moved on from the committed row (`DocsMove`) and that a version is
deleted only with its document (`DeletedWithDocument`).

**Smoke endpoint** (`VertexStreamProofs`). The composition inherits the orchestrator's
invariant: every step of `VertexStream` is a step of `GenerationStream` or leaves its
variables alone, so that module is instantiated and its theorems are used. On top of it
`VInv` ties where the adapter is to what the orchestrator has been given. Proved for every
budget: `TypeOK`, `VertexKeepsProtocol`, `TruncationIsMarked`, and that the composed
stream is a behaviour of `GenerationStream` (`ComposedStream`).

**Deployment** (`DeploymentProofs`, from `ReleasesAssumption`: a release is a commit that
knows one of the revisions). Types need that no statement of a script names an object
outside the schema. The properties need that no two executions commit one script. Nothing
in the runner says so: on a server executions only go up, and whoever has run a statement
of a script holds its first object until it ends, so that everybody behind has to wait and
then finds it (`FirstMade`, `OthersBehind`); an execution that read an empty database holds
`rag_app`; in a local environment an execution is alone. So the schema is still the one of
the revision an execution read, as long as it has done anything that could be committed
(`Own`), and what it sees is that schema with its own statements on top (`GoesUp`,
`GoesDown`). On a server the recorded revision only rises (`Reached`), which makes a late
report true and keeps what a service relies on; and the grants come in the transaction that
creates the table. `RunnerInv` holds these for the executions, `WorkflowInv` ties the stage of the
workflow to what its execution has reached. That the scripts fit is first a fact about the
scripts as sequences, put together piece by piece: each statement up makes something new
from what the ones before it made (`FitsUp`, `UpgradeFits`), each statement down takes
something nothing left rests on, and which did not go with its table (`FitsDown`,
`DowngradeFits`); and then one about executions: one that nobody has overtaken stands on the
revision it read (`Undisturbed`) and still sees what it has not taken back (`Leaves`).
Proved for any number of executions and any releases: `TypeOK`, `SchemaMatchesRevision`,
`EvidenceIsTrue`, `ServedReleaseWorks`, `ScriptsFit`. Two theorems that no run states say why
overlapping executions need no deadlock detector in the model: at most one of them holds any
lock on what it made, dropped, granted or moved (`OneExecutionHolds`; `GrantsInv` adds to the
above that grants come after the scripts and begin with the schema), so that one which is
waited for never waits itself (`ExecutionsDoNotDeadlock`).

**Conversations and traces** (`ConversationTracesProofs`, from `TablesAssumption`,
`RowsAssumption`, `ColumnsAssumption` and `InitialAssumption`: what a row is, that it refers
to rows of the tables its keys name, and that the tables start out consistent). That unique
keys hold needs that a pending insertion is its transaction's alone, that a row has one
writer, and that what an insertion clashes with is touched by nobody else while it stands
(`PendingAlone`, `OneWriter`, `FreshAlone`); then no transaction's view has two rows with
one key (`ViewsUnique`), and a commit publishes a view. That references hold needs that a
row locked `FOR KEY SHARE` is not deleted by another (`ShareKeeps`) and that every reference
is either checked or its check is still in the work of the call (`NewChecked`), and every
deletion enforced or still to be enforced (`DeletedEnforced`). That evidence is kept needs that `ON DELETE` is
only enforced below a deleted row, that a trace is detached only with its conversation, and
that links go only with their chunk or trace (`EnforcedIsDeleted`,
`DetachedWithConversation`, `LinksGoWithChunks`). Proved for any number of transactions, rows, calls and
links of a flush: `TypeOK`, `UniqueKeysHold`, `ReferencesHold`, `EvidenceIsKept`.

Only model-checked: the liveness properties (fairness and `ENABLED` are outside the
prover's reach). The type invariants are proved and in no run.

## 5. Findings

1. `set_active_version` locks the document and reads the version without a lock
   (`db/repositories.py:329-332`). Between that read and its UPDATE another transaction
   can commit `indexed -> superseded`; a superseded version then becomes active, against
   "Only an indexed source version can become active." (`:340`). Run `source_activation`.
   What does hold is `ActiveVersionWasIndexed`: the active version was indexed once.
2. `add_chunks` never looks at the status of the version (`db/repositories.py:202`), so
   the content of an indexed version can grow, although versions are called immutable
   (`:145`, `db/models.py:209`). Run `source_immutability`.

Worth knowing, and allowed by what the code says or silent about it:

* The answer of `/admin/auth-check` precedes the commit, so an id can be answered and lost
  (`AnswersAreKept` says exactly when).
* A smoke body that the server never begins leaves its adapter unclosed (`DropBody`).
* `FetchesCoalesced` does not hold for exchanges longer than the cooldown.
* A superseded version stays the active one until another is activated: the lifecycle and
  the activation are two calls, and nothing joins them.
* `RetrievalTraceChunk` calls its links "retained independently of chunk lifetime"
  (`db/models.py:569`), while its key to the chunk is `ON DELETE CASCADE` (`:592-596`): a link goes
  with its chunk, and `EvidenceIsKept` says that it goes with nothing else (traces stay).
* Two overlapping executions of the runner that reach the grants together: the one that
  waited fails with "tuple concurrently updated". Nothing is lost, and running it again
  succeeds.
* An exception that neither adapter recognises is retryable for generation
  (`UNAVAILABLE`) and not for embedding (`INVALID_RESPONSE`).

## 6. What is not modelled

* `get_key` cancelled in mid-call: uvicorn cancels no request before shutdown.
* The byte-level checks on one JWKS entry, token, URL or setting: abstracted to what
  they decide (usable, valid, configured).
* Argument checks of the repository that look at one call only (blank hash, reserved
  metadata, parent chunk), costs, latencies, log records, response wording.
* `ProviderOrchestrator.generate`, which collects a stream; the fakes (`GenerationStream`
  admits every provider); the probes (each is one client of models that leave the
  client free).
* Of the migration runner, its settings, the connector and the check that names the source
  revision; of the schema, columns, plain indexes, checks of one row and the bodies of
  functions whose effect `SourceVersions` models (`enforce_source_version_transition`).
* Of conversations and traces, checks of one row (blank text, positive rank) and
  `get_by_key_hash`, a single read.
* Closing the database runtime and the connector at shutdown.
* Finalisation of abandoned asynchronous generators by the garbage collector; what
  Vertex bills.
* The chat contracts (data without state), the worker, admin portal and widget
  (placeholders), Terraform and the other CI workflows (no state at run time).

## 7. Plan

1. The chat endpoint and the worker, once they exist.
