# A TLA+ verification of DBAL

DBAL is a database-abstraction daemon in C++: HTTP handlers (Drogon) call a
`Client`, the client calls one `Adapter` (SQLite, Postgres, MySQL, Redis,
MongoDB, ...), and optional layers wrap that adapter. This directory holds TLA+
models of the parts whose correctness depends on the order in which things
happen, TLC configurations for small instances, and TLAPS proofs for all.

Paths below are relative to `src/libraries/dbal/production/`.

## Inventory

| component | state | operations | what is hard |
|---|---|---|---|
| `Client` and its configuration (`src/client_*.cpp`, `src/core/adapter_factory.cpp`) | the adapter stack | build from environment, command line, URL; entity CRUD | two readers of one URL, optional layers that may fail |
| read-through cache (`src/cache`) | Redis entries with a TTL | read, write + invalidate, bulk invalidate | fills racing writes, failed invalidations, rollbacks |
| search mirror (`src/search`) | one Elasticsearch index | mirrored writes, unmirrored bulk writes, search | crossed and lost mirrors, no TTL |
| OIDC provider (`src/oidc`, `src/daemon/handlers/oidc`) | codes, refresh tokens, sessions, pending logins | authorize, login, code exchange, refresh, logout | read-then-update single use, family revocation, retries, double submissions |
| CAS, SAML (`src/cas`, `src/saml`) | tickets, request state | issue, consume | the same read-then-update |
| SQLite adapter (`src/adapters/sqlite`) | one connection, one mutex, one flag | statements, begin/commit/rollback | all requests share the connection's transaction |
| SQL adapters (`src/adapters/sql`) | a connection pool, one transaction object | CRUD, bulk, migration | a transaction that executes no SQL, connections outside it |
| Redis, MongoDB, Elasticsearch, SurrealDB, Supabase, Cassandra adapters | the remote store | CRUD, queries, bulk | several commands per operation, no transactions, offsets |
| batch and bulk handlers (`src/daemon`) | none of their own | begin, operations, commit or rollback | early returns, exceptions, failing commits |
| compensating transactions (`src/core`) | an undo log in memory | record, rollback, commit | undos made through the adapter that logs them |
| HTTP daemon (`src/daemon`) | one client, its configuration | CRUD and list requests, switch of the adapter | check and write in separate calls, references to a replaced client |
| access rules (`server_routes.cpp`, ACL registry, JWT) | rules of the schema, JSON auth configuration | gate | a chain of early returns over many declarations |
| lists, rows, named queries (`list_handler.cpp`, `query_route_handler.cpp`, builders) | none | query string or procedure to SQL, JSON to columns and back | text and values made by separate loops |
| workflow engine (`src/workflow`) | trigger cache, runs on detached threads | dispatch, order, execute | stale triggers, partial effects, cycles |
| accounts (`src/client_misc_ops.cpp`, `rpc_user_actions.cpp`, admin handlers) | credentials, secrets, users | sign-in, set, reveal, user calls | lookups and writes with others in between, a changing master key |
| security (`src/security`) | nonces, windows, buckets | check, clean up | time, limits |
| blob storage (`src/blob`) | memory, files, S3 | put, get, copy, list, ranges | partial writes, pages under change |
| in-memory entities (`src/entities`) | indexes and trees | typed CRUD, moves, batches | indexes that must agree after refused calls |
| start-up: schema files, migration, seeds, registry (`src/core`, `src/daemon/actions`, `*_schema.cpp`) | tables, fingerprints, a JSON queue | start, seed, approve, generate | crashes between statements, two readers of one file, unlocked files |
| BQL (`src/bql`) | none | lex, parse, apply scripts | keywords that are content, nine sentence forms |
| socket servers (`src/daemon/http`, `src/daemon/server`) | listening socket, counter, threads | accept, handle, start, stop | limits, stop against accept, cuts of the stream |

**Who runs concurrently.** Drogon serves requests on one event loop unless it is
given a thread number, which nothing in the daemon does, and the handlers are
synchronous. Real concurrency comes from (1) the workflow engine, which runs each
dispatched workflow on a detached thread with a `Client` of its own
(`src/workflow/wf_engine.cpp:211`), (2) other replicas of the daemon on the same
database and Redis, which the code reckons with
(`include/dbal/cache/cache_config.hpp:37`), and (3) writers that are no daemon.
The callers ("procs") of the cache, search and token models are these. The SQLite
model's threads are handler threads: one today (the finding below needs only one),
more if the thread number is raised, which the adapter's mutex and atomic flag
are written for.

`PROJECT.json` lists the components, and the hazards at their lines.

## Modules

The first five modules are checked by a run each, three of them through an `MCX`
module that only adds the symmetry set. The others share nothing with each other and
are checked side by side: `MCSso`, `MCStores`, `MCDaemon`, `MCRules` and `MCStartup`
extend several of them, and a behaviour picks one part in its initial state and stays
with it, so the state counts add instead of multiplying.

The proofs are in `CachingAdapterProofs`, `StepwiseProofs` (`SearchingAdapter`, `RowWriting`, `WorkflowEngine`),
`OidcTokensProofs`, `CompensatingTransactionProofs`, `RequestProofs` (`SqliteBatches`,
`DaemonRequests`, `AdapterStore`, `BlobStores`, `EntityStore`), `SsoProofs`, `RulesProofs` and
`StartupProofs`.

A side-by-side run states a few properties, each a conjunction of named parts. The
sections below and the comments at the parts say what each part claims:

| property | parts |
|---|---|
| `HandlesAreOneTime` | `TypeOKLogin`, `ContinuationSpentOnce`, `CodeForWantedRequest`, `FormsAreResumable`, `NoCodeFromDeadSession`, `TypeOKSso`, `ReplayRefused`, `AnswersAreConsumed`, `ContinuationsAreOneTime`, `RowsAreOneTime` |
| `SignInsAndStopsEnd` | `SignInEnds`, `StopReturns` |
| `ServerKeepsCount` | `TypeOKSockets`, `ActiveIsExact`, `ThreadsAreBounded`, `StoppedIsQuiet` |
| `AdaptersKeepRecords` | `TypeOKAdapters`, `WritesAreNotLost`, `WritesOnlyMatches`, `CreatedIsCounted`, `PagesPartition`, `RecordsAreListed`, `FindFirstFinds` |
| `BlobsAreKept` | `TypeOKBlobs`, `AcknowledgedIsStored`, `CreateOnlyReplacesNothing`, `DownloadIsOneVersion`, `WalkMissesOnlyTokens`, `PagesAreDisjoint`, `CountIsExact` |
| `EntitiesAgree` | `TypeOKEntities`, `IndexesAgree`, `ListsAgree`, `TreesAreComplete`, `RefusedChangesNothing` |
| `RequestsAreSafe` | `TypeOKRequests`, `ConfigNamesTheClient`, `WritesWereAllowed`, `ClientsAreOnlyReplaced` |
| `RunsAreSound` | `TypeOKWorkflow`, `OrderIsSound`, `RunsWereChosen`, `PredecessorsRanFirst`, `SubmissionsSucceed`, `MissesAreRecent`, `EffectsAreOfWholeRuns` |
| `RequestsAndRunsEnd` | `RequestsEnd`, `PostsAndRunsEnd` |
| `GateFollowsTheRules` | `TypeOKGate`, `WritesFollowTheRules`, `ReadsFollowTheRules`, `SigningInNeverHurts`, `FailsClosed` |
| `LimitsHold` | `TypeOKThrottles`, `WindowBurst`, `BucketBurst`, `NoReplayWithinExpiry`, `NoncesExpire` |
| `QueriesAnswerTheRequest` | `TenantAlwaysFilters`, `RowsMeetFilter`, `ValuesReachTheirColumns`, `PageHoldsTheOffset`, `AnswersTheProcedure`, `FirstPageIsTop`, `PlainPagesAddUp`, `BrokenFileHidesNone` |
| `ValuesSurvive` | `ColumnsGetTheirValues`, `OwnValuesSurvive`, `ReadingBackIsStable` |
| `ScriptsAreUnderstood` | `SaidIsUnderstood`, `AcceptedWhole`, `ScriptIsWhole`, `TextIsKept` |
| `ComesUpAsConfigured` | `PartsAreFound`, `ValidIsCreated`, `ExtrasAreOptional`, `CommandLineWins`, `TestForetellsSwitch` (together `StartsAsConfigured`), `RequestsReachTheirRoute` |
| `RequestsReachTheirRows` | `AnswerIgnoresCuts`, `TwinsAgree`, `NeverAnotherRow`, `RangeIsExact`, `ReadableIsRead` |
| `AccountsAreKept` | `TypeOKCredentials`, `SignedInIsTheOwner`, `SetMeansStored`, `RevealedIsSealed`, `TypeOKUsers`, `RpcStaysInTenant`, `ShowsOwnTenant`, `BatchMeansAll`, `ResetKeepsTenant` |
| `BulkAsTold` | `TypeOKSqlBatches`, `ConnectionsAccounted`, `AppliedAsTold`, `OpenHasReason` |
| `SchemasAreApplied` | `TypeOKSync`, `StartSettles`, `GrowthIsSurvived`, `TablesHaveRules`, `OthersSurvive`, `FileAndDirectoryAgree` |
| `OperatorsAreRespected` | `TypeOKSeeds`, `TypeOKRegistry`, `EditsOutliveSeeding`, `SeedChangesArrive`, `ContentIsCompletedNotChanged`, `DecisionsStick`, `OnlyApprovedIsGenerated` |

### CachingAdapter: `src/cache/caching_adapter.cpp`

A record's contents are the number of the write that made them, since all the
cache can get wrong is which version it serves. Every Redis command and every
call of the wrapped adapter is one step; `pc` says which comes next:
`read` = `ReadHit`, or `ReadMiss`, `InnerRead`/`InnerReadFails`,
`Backfill`/`BackfillFails`; `create`, `update`, `upsert` = `WriteRecord`, `remove` =
`RemoveRecord`, each followed by `InvalidateRecord` or its failure; bulk
operations = `WriteMany` followed by rounds of `Scan` and `UnlinkBatch` (a round after
the last key is possible: the cursor need not be 0 yet). `WriteErrs` is any of these whose
inner call answers an error: the rows may have changed all the same (an UPDATE whose
read-back failed, a bulk call that stopped half way), and no key is dropped.
Transactions are forwarded and leave Redis alone. `Tick` is a second: entries lose
life, requests grow older; `Deadline` bounds how long a request may take (clients
of Redis and of the database have timeouts).

* `BoundedStaleness`: a superseded row is served for less than `TTL + Deadline`.
  The comment in `cache_config.hpp` claims the TTL; the second term is the read
  that fetched before the write and backfills after it.
* `StalenessExplained`: a stale entry has a pending invalidation, or came from an
  overtaken backfill, a lost invalidation, a write that was answered as an error
  (`caching_adapter.cpp:105-146` invalidates on success only), a foreign write or a
  rollback. Histories (`excuse`, `overlapped`) record these; no action reads them.
* `StaleEntriesDie` (liveness).

### SearchingAdapter: `src/search/searching_adapter.cpp`

Primary write, then a mirror call as a second step; `MirrorLost` for a failed one.
Bulk writes, rollbacks and other writers change rows behind the index. `outdated`
(history) marks requests whose row has changed since their write.

* `DriftExplained`: a document differs from its row only while the latest writer's
  mirror is on its way, or because mirrors crossed, one was lost, or none was made.
* `HealedByNextWrite` (action property): the mirror of the latest write makes the
  document equal to the row, whatever the drift was: what `searching_adapter.hpp:19`
  says, for writes of a record that do not overlap.
* `DriftHeals` (liveness).

### OidcTokens: `src/oidc/tokens/*_store.cpp`, `src/oidc/oidc_service.cpp`

Codes and refresh tokens are rows of the generic entity store, which has no
conditional update, so `redeem`, `rotate`, `revoke` and `revokeFamily` are list steps
followed by update steps. A token is its creation number, a family the number of
its first token; client, user and scope are represented by the code they were
granted for (`origin`). A request is right or wrong about client, redirect URI and
verifier. The order of the code is kept: a code is consumed before redirect URI
and PKCE are checked (a wrong one burns it), a token before its successor is
signed and stored. `CallFails` is any store call or signature that fails;
`ListFamilyFails` and `RevokeRowFails` are the ones `revokeFamily` swallows.

* `SingleUsePerThread`: what single use is left under read-then-update: whoever has
  completed an exchange of a code or a rotation of a token never gets it through
  again. That two simultaneous redemptions may both succeed is documented in
  `auth_code_store.hpp:50-57` and is not reported here.
* `LiveTokensAreLeaves`: a token with a successor is revoked, and the successor has
  its family, user and scope.
* `KilledFamilyExplained`: after a complete revocation only tokens that an
  overlapping rotation carried across it are live.

### SqliteBatches: `src/adapters/sqlite`, `batch_route_handler.cpp`, `bulk_handler.cpp`

One connection, so one transaction, for all requests. A statement runs under the
mutex in whatever transaction is open; `in_transaction_` is read before and stored
after the statement it is about, as separate steps. A batch ends by commit, by
rollback on an error (`BatchOpFails`), by an exception (`BatchThrows`), or by a
COMMIT that fails; after the last two the handlers do not roll back. `Crash` is a
restart. Not modelled: SQLite's automatic rollback on a full disk or I/O error, and
power loss under `synchronous=NORMAL`.

* `OneBatchAtATime`: although the flag is not tested and set atomically, SQLite's
  refusal of a nested BEGIN keeps batches apart.
* `AcknowledgedIsDurable`: an acknowledged write survives crashes and rollbacks
  unless it was a plain write inside somebody else's transaction.
* `WedgeExplained`: the transaction outlives its request only after a failed COMMIT,
  an exception, or a late clearing of the flag.
* `FailedBatchIsNeverCommitted`: the writes of a batch in which an operation failed
  never become durable, by whoever's COMMIT.

### CompensatingTransaction: `src/core/compensating_transaction.cpp`, `src/adapters/redis`

The undo log with the Redis adapter as its store (MongoDB, Elasticsearch, SurrealDB
and Supabase call the log in the same way; MongoDB's bulk operations and upsert bypass
it). A record is a set of fields, because `update` merges: it can add a field but
not remove one. `rollback` runs the undos through the adapter while `active_` is
still true, so the undos are logged as well, into the vector being iterated:
`capacity` models `std::vector`'s growth, `dangling` an iterator into a freed array.
Undefined behaviour is a choice: `UndoMisses` and `UndoDangling` are the undos that
hit no record, `Restart` is also the crash.

A Redis command that fails may have been executed: `CreateFails` and `WriteFails` have
both outcomes, and `RemoveUnlogged` is the remove whose snapshot GET fails and whose DEL
is made nevertheless (`redis_adapter_crud.cpp:91-99`).

* `LogInverts`: until a rollback starts, the oldest undo of every record leads back
  to what it was at `beginTransaction`. Exceptions are other daemons' writes, a create
  over an existing id, and the two writes that are made without an undo: a remove whose
  snapshot failed and a create whose SET was executed and answered as failed. A failed
  update is covered: its undo is in the log before it is tried.
* Finding: `rollback` does not restore (`compensating_rollback`): one create, one
  failing operation, and the record is still there. The unit tests of rollback use
  an adapter that never logs and so do not meet this.

### Sign-on (run `sso_all`, module `MCSso`)

**OneTimeStore** is the abstract specification: a store of single-use handles that
are put, opened, spent, given up, renewed or lapse. With `Atomic` at most one caller
is inside a handle; without it those whose reads overlap are.

**OidcLogin** (`login_route_handler.cpp`, `oidc_route_handler.cpp`,
`pending_authorize_store.hpp`): one browser with several tabs, a tab may be
duplicated so that one form is submitted twice. `Authorize*`, the form with its
continuation and restart tokens, the password check, the browser session, logout and
restarts of the daemon are actions, each store call a step. `ContinuationsAreOneTime`
is the refinement `OneTimeStore` with `Atomic = TRUE`; the other properties say that a
continuation leads to one code (`ContinuationSpentOnce`), that the code is for the
request the tab set out with, that forms stay resumable, that a dead session skips no
form, and that a sign-in ends (`SignInEnds`).

**SsoTickets** (`cas_ticket_store.cpp`, `saml_request_store.cpp`, their handlers): rows
found by a list call and consumed by an update. `RowsAreOneTime` is the refinement with
`Atomic = FALSE`; `ReplayRefused` and `AnswersAreConsumed` are what that is worth.

**SocketServer** (`daemon/http/server`, `daemon/server`): accept loop, limit counter,
handler threads, start and stop of the two socket servers.

### Stores (run `stores_all`, module `MCStores`)

**AdapterStore**: create, update, remove, list, bulk operations, findFirst and upsert
of nine adapters, one step per statement, command or HTTP call that writes, and per read
whose result a later call uses. Redis creates by SET and SADD, removes by DEL and SREM,
and its bulk calls do so record by record; SQLite and MySQL read a new row back in a step
of its own. With `AFaults` each call to a server may fail, before or after it was carried
out: a refused operation may have changed its record (the read-back after an UPDATE is one
step with it, and that it fails is one of the answers). The history `ackd` is the table as
the writes that took effect left it, answered or not; `heard` in a report says whether the
caller heard the answer of all it wrote. A listing is one step, although Redis answers it
by a GET per member. Ids of removed records are not handed out again, but Redis and
Elasticsearch may be given the id of a record that exists. Counts of Redis's bulk updates
are not followed. The adapter is chosen in the initial state; the properties are stated
once for all and name the adapters that are exempt and why.

**BlobStores**: uploads, downloads, copies, deletions, listings and statistics over
memory, filesystem and S3, with failing writes, lost answers and restarts; the
filesystem's temporary files share the name space of the keys. An S3 upload, copy or
deletion may be carried out and answered as failed (a copy also when the HEAD behind it
fails); the key is then `bdirty`. A download whose metadata cannot be read goes on under
the plain type (`blob_route_handler.cpp:407-413`).

**EntityStore**: the in-memory entities (pages, workflows, packages with batches,
component trees), sequential; the question is which sequences of legal calls, refused
ones included, break an index or a tree. A list of ids is the number of times each id
is in it, for the code only searches, sorts and erases from it; what `buildTree` and
`hasDescendant` reach by recursion is the least set that has the root and is closed
under children (`Subtree`).

### Requests (runs `daemon_all` and `daemon_switch`)

**DaemonRequests** (`server.cpp`, `crud_handler.cpp`, entity routes): start-up, lazy
creation and switch of the client; requests whose ownership check, tenant check and
write are three calls of it. The tenant is compared only with a `tenantId` that is a
string: rows without one, which a body with a null makes, are found under every tenant's
route, and `WritesWereAllowed` names them as the exception. A call through a replaced client
is undefined behaviour: any of crash, failure and an answer of the old database.

**WorkflowEngine** (`wf_engine.cpp`, `wf_graph_*.cpp`, `wf_executor.cpp`): the trigger
cache with its life, the choice of a workflow, the order of its nodes against the
definition of a topological order, and their execution, while an editor publishes and
redraws. The loop of the sort that takes what has no predecessor left is a recursive
function of the turns, which is as long as there are nodes (`MaxNodes`): a turn that
adds nothing is followed by none that does.

### Rules (run `rules_all`, module `MCRules`)

Parts that answer one case each, over every small input:

* **AccessGate**: the early returns of the entity routes, schema rules, JSON auth
  configuration, tokens, against the rules put together.
* **ListQueries**: query string to WHERE clause, bound values and rows, per adapter. The
  names of filters and sort keys are the caller's: columns, words that are no column, and
  texts that are no word. `SqlAdapter` answers 400 to what is no column; the SQLite builder
  puts any text between quotes as it is, so what such a statement selects is left open
  (`AnyAnswer`), and the properties about rows are stated for names that are names.
* **NamedQueries**: procedures from JSON files, parameters, groups, orders and pages.
* **RowWriting**: columns and values of statements, and values on their way to a
  column and back. `Columns` is any set of columns with `id` and `createdAt` among them;
  the run takes four, in every order, and every set of fields sent.
* **Bql**, **Configuration**, **HttpParsing**, **BlobRanges**, **Routes**: each compares
  the code's reading of an input with what the writer of the input meant.
  **Configuration** takes command lines of up to `MaxArguments` words and URLs of a
  cache or an index with up to `MaxParams` parameters.
  **HttpParsing** has the bytes of a request as words, arriving in pieces of any size:
  up to `MaxLines` header lines, twice as many where only their number counts.
  **Routes** has the parts of a URL empty or not, and an identifier with the separator
  anywhere: inside it makes an action, at an end it is dropped with the empty segment
  (`rpc_restful_handler.cpp:71-75`), so `x/` and an empty id before an action lead to
  another row than they name (`Skips`), the exception of `NeverAnotherRow`.
  **Routes** also has the patterns the daemon registers, in order, and the one a
  request for each of them ends at, with values that are words of other patterns. The
  router is Drogon's: paths without variables first, then order of registration;
  whether a pattern without the method ends the search is left open, and the property
  holds either way.

Parts that run on:

* **Throttles**: windows, bucket and nonces under a moving clock.
* **Credentials**, **UserRpc**: adapter calls of sign-ins, resets, secrets and user
  calls as steps that others come between. Every read and write may fail, a write after
  it was made too; a secret whose row cannot be read is answered as one that is not there.
* **SqlBatches**: bulk and batch requests over the SQL connection pool. An item may be
  executed and answered as an error (MySQL's read-back): `halfDone`.

### Start-up (run `startup_all`, module `MCStartup`)

**SchemaSync** (what a start does to a table, statement by statement, with crashes and
changing schemas; and the two readers of the schema directory), **Seeds**
(reconciliation by fingerprints under races, failures and restarts, and what the
admin request is answered), **SchemaRegistry**
(a queue in a JSON file that is written without a lock).

`PROJECT.json` maps every definition to its lines. Above a definition that a property
is tested with stands a variant marked "Wrong" (or "Mutant of"): a plausible slip in
that code, under which TLC finds the property violated. No action uses these.

## Runs, bounds and fairness

Passing runs:

| run | instance | states | shows |
|---|---|---|---|
| cache_failures | 2 callers, 1 record, TTL 2, deadline 1, 2 changes, all failures | 187 K | staleness is bounded and explained, stale entries die |
| tokens_failures | 2 requests, 1 code, 2 tokens, failures, expiry | 451 K | single use, lineage, reuse detection |
| search_all | 2 callers, 2 documents, 2 versions and removals, all failures | 152 K | drift is explained and healed |
| sqlite_all | 3 threads, 2 rows, 3 writes, all failures | 116 K | isolation, durability, wedges, failed batches |
| compensating_log | 2 records, 1 field, 3 log entries, all failures | 2.05 M | the log inverts |
| sso_all | 2 tabs, 2 authorize requests, 4 tokens; 2 requests on 2 rows; 3 peers, limit 2 | 122 K | refinement of the one-time store, sign-ins end, servers stop |
| stores_all | 9 adapters with 2 callers, 2 records and failing calls; 3 backends with 2 callers and 3 uploads; 3 components | 391 K | what adapters, blobs and entities keep |
| daemon_all | 2 requests, 2 databases, 2 tenants; 2 posts, 1 workflow, TTL 2, 4 ticks | 341 K | requests over a client that is switched, triggers and runs |
| rules_all | every small case of each part; 2 sign-ins, 2 user calls, 2 bulk requests at a time | 1.17 M | the rules and conversions, throttles, accounts, the pool |
| startup_all | 2 seeders, 3 seedings; 3 starts; files of up to 2 documents; 2 migrations, 4 requests | 1.50 M | starts settle, seeds respect edits, decisions stick |

Violation runs state what a comment or a test of the code says and end in a
counterexample:

* `compensating_rollback`: `rollback` does not restore.
* `daemon_switch`: after a switch of the adapter, a handler that was built with the old
  client uses it (`RequestsUseALiveClient`).

Why the bounds suffice. Every race here is between two requests about one record;
a third caller is added where a bystander matters (a batch that ends, one that begins
late, a plain writer). Two changes of a row and its removal give an old and a current
version and none. Two tokens give a token and its successor. TTL 2 with deadline 1
tells TTL from TTL + deadline, and lets an entry be read in the middle of its life.
Two ids of
records (`MaxRecs`) are one to find and one to miss, or both records of a `createMany`,
which starts from an empty table then; a filter that matches two records has both there
at the start. Three log entries make the vector grow twice; three components make a tree with a
grandchild; three starts are one that stops, one that repairs and one that finds
nothing to do. The inputs of the case parts are all sequences of up to two or three
elements, which is where the code's loops first differ. `staleFor` saturates at the
bound it is compared with. What the bounds cut off, the
theorems cover: the safety properties of the first five modules and those of sign-on,
of adapters, blobs and entities, of the daemon's requests, of access rules, throttles,
accounts and bulk requests, of the workflow engine, of rows and columns, of the way from
the socket to the row and of the start are proved for every value of the constants.

Deadlock is checked in the cache, token, sign-on and compensating runs; the others may
stop because a counter of operations is bounded.

Fairness is only what threads, clocks and servers give; nothing is assumed about new
requests arriving.

* `CachingAdapter!FairSpec`: time passes, a started request takes its next step, and
  Redis brings an iteration of SCAN to its end (its documented guarantee).
* `SearchingAdapter!FairSpec`: a started mirror call ends.
* `OidcLogin`: one user keeps submitting the form, and a store that can take, verify
  or issue again and again does so some time.
* `SocketServer`: the owner's and the accepting thread run.
* `BlobStores`, `DaemonRequests`, `WorkflowEngine`: a started request takes its next step. (The
  condition under the fairness names the callers that are in a request, which changes nothing
  but the time TLC takes.)

Symmetry over callers, records or fields is used in safety runs only.

## Proofs

Every theorem follows from an inductive invariant: one lemma per action says that
the action keeps it, and a last one that it implies the property. They hold for any
sets of callers, records, tokens, tenants, users and databases and for any bounds.
The assumptions are the named `ASSUME`s of the modules: bounds are naturals, switches
are Booleans, the TTL is positive (which `parseCacheUrl` enforces), a request may have a word or
more, no blob is larger than a size can say, there is at least
one code, tenant, user, database, blob name and upload, an entity has finitely many columns, `id` and
`createdAt` among them, the empty value is no password, no migration is called "all", no workflow is
the one that stands for none, and no valid name is the one the validators refuse or the one that
stands for no name.

A part of a side-by-side run moves alone, so every step of the whole is a step of the
part or leaves it as it is; the theorem about `Spec` of an `MC` module puts the parts'
invariants together.

| theorem | inductive invariant, and why the property alone is not inductive |
|---|---|
| `CachingAdapterProofs!StalenessIsBounded` | `LifeBound`: staleness plus remaining life is at most TTL + Deadline, and a buffered row is stale for no longer than its request is old. Staleness alone does not do: a backfill starts a fresh TTL with an old row |
| `CachingAdapterProofs!StaleEntriesAreExplained` | `Explained`: besides the property, a read whose buffer is not the row any more knows that it was overtaken, and only a request between SCAN and UNLINK has keys in hand; else a backfill or an UNLINK could leave a stale entry without a reason |
| `OidcTokensProofs!OnlyLeavesLive` | `Lineage`: families and parents are rows, and a request about to issue a successor has revoked its token |
| `OidcTokensProofs!SingleUseHolds` | `Spent`, `SingleUse`: what has been won is consumed, and a request between check and update has not won it before |
| `OidcTokensProofs!ReuseKillsFamily` | `Killing`: a purge that has lost no row has all live tokens of its family still to do but the escaped ones, and holders of a killed family were overtaken by the killing |
| `StepwiseProofs!DriftIsExplained`, `WritesHeal` | `Current`: a request that is not outdated holds the row's present value |
| `StepwiseProofs!SortIsSound` | none, it is about the sort itself: the turns of its loop keep what is sorted a sequence without repetitions whose elements have their predecessors before them, a turn that adds nothing is followed by none that does, and a set of nodes without a first one has a cycle |
| `StepwiseProofs!RunsStaySound` | `WfInv`: what the cache leaves out was published after the list it was filled from, or one lookup before at most (`CacheOK`), and a lookup is short and has in hand what was published before it (`AskOK`); a post waits for the run it named (`ReplyOK`); a run's workflow fits tenant, trigger and form of its post (`ChosenOK`); and it has done the first of its nodes, which follow the edges it read (`OrderOK`). `RunsAreSound` says nothing of a workflow that is in no cache yet or of a node that is still to be run |
| `StepwiseProofs!RowsSurvive` | `RowInv`: what was written is what the code makes of the case. The rest is about the loops: one that passes by some columns collects a sequence (an induction, `PickedIsSequence`), and a text and its values come from loops over the same sequence or ones that differ by an id |
| `CompensatingTransactionProofs!LogIsInverse` | `TypeOK` with the batch's control state, and `LogInverts` itself: a write without an undo excuses its record (`excused`) |
| `RequestProofs!BatchesAreIsolated` | one owner at most, and it has the transaction open |
| `RequestProofs!AcknowledgedWritesSurvive` | `Durability`: versions only grow; what is neither a guest nor an owner's write is durable |
| `RequestProofs!WedgesAreExplained` | `Wedge`: transaction and flag follow the owner's program counter, or a cause is on record |
| `RequestProofs!FailedBatchesStayOut` | `Undoing`: what a failed batch wrote can be read only in a transaction that nobody will commit, because the batch is on its way to roll it back, or nobody owns it any more and SQLite lets nobody in |
| `RequestProofs!RequestsStaySafe` | `DaemonInv`: clients are numbered as they are built and each has its database (`ClientInv`), a request holds one that was built (`RequestInv`), rows have tenants and owners (`RowInv`), and what a request has checked and would find now it has found at some moment (`SeenOf`) |
| `RequestProofs!AdaptersStayTrue` | `AdaptersInv`: the table is what the writes that took effect left it, but for raced records, and no id beyond those handed out is in it (`TableOK`); a call holds the record it has read unless it was raced for, and counts no more than it made (`CallOK`); a report that heard its answers counts what it made, whatever the others do to the table (`ReportOK`); and a record of Redis is in the index, raced, or about to be (`IndexMoves`). The pages follow from ranks, which are one to one within a set |
| `RequestProofs!BlobsStayKept` | `BlobsInv`: what a request holds agrees with what is stored unless it was told of a write to its key (`ReqOK`); a walk has seen what is before its token, and a count has counted it (`WalkOK`); only a dirty key differs from what was acknowledged or is half written (`StoreOK`); and only the holder of the lock is in the middle of a file. A page ends where the next one starts, because an injective numbering of a finite set meets every number |
| `RequestProofs!EntitiesStayInAgreement` | `EntityInv`: names are numbered as they are made (`NamesInv`); both package maps have one set of ids (`PacksInv`); lists agree, a parent is on its child's page, and no set of components has all its parents within (`TreesInv`). The last is what rules out a cycle: `TreesAreComplete` alone says nothing of a component that is about to be moved |
| `SsoProofs!HandlesStayOneTime` | `TicketInv` (a request holds a row that exists and saw only what is consumed by now; a response is signed for a request that was taken) and `LoginInv` (every live token is on a page, in its place; a handler acts for what its tab is about; no two hold one continuation); the two refinements of `OneTimeStore` are proved step by step under them |
| `SsoProofs!SocketsKeepCount` | `SocketInv`: every connection waits in the backlog or in the accepting thread's hands, and the owner's thread, the flag, the descriptor and the accepting thread move together |
| `RulesProofs!EarlyReturnsFollowTheRules` | `GateInv`: what was answered is what the stages make of the request; the rest is a proof about the stages, for any roles, users, tenants and declarations |
| `RulesProofs!ThrottlesKeepTheirLimits` | `ThrottleInv`: per key, what was admitted in every past interval fits the count of the current window (`WindowInv`) or the tokens left in the bucket (`BucketInv`); the store knows the latest time of a nonce until it expires (`NonceInv`) |
| `RulesProofs!AccountsStayKept` | `AccountInv`: what a sign-in has found out was true at some moment of it (`CredInv`), a process has one key (`SecretInv`), a batch has touched as many rows as it has counted, and a slot's call is about rows of its tenant (`UserInv`) |
| `RulesProofs!BulkRequestsTellTheTruth` | `SqlInv`: the connections made are those idle and in use, and the initial and the counted ones (`PoolIsWhole`); the adapter's transaction has at most one owner or a reason to be open (`Ownership`); what is applied and what is left are the request's items in order (`Progress`) |
| `RulesProofs!RangesStayExact` | `RangeInv`: what was sent is what the backend makes of the case. The rest compares slices of positions with the range, sums that wrap included |
| `RulesProofs!RequestsStayOnTheirRows` | `ParsingInv` (while the head is not complete nothing is answered, afterwards the answer is that of what has arrived), `RouteInv`, `RangeInv`. What a head is does not change when more arrives (`HeadOfPrefix`), the reading of its lines is the same function of them (`ReadingRuns`, by induction over the lines), and a line is refused by one server if and only if by the other (`HeadersAlike`). A path that is put together from parts is split into these again (`SegmentIsRead`, by induction over characters), and an identifier with a separator inside makes two segments, so it is an action, which is turned away (`CutMakesTwo`); the empty segment of a last separator is dropped (`LastSlashIsDropped`), the other ones make the named exceptions |
| `RulesProofs!DaemonComesUp` | `ConfigInv`: what was answered is what the code makes of the case, whose arguments and parameters are sequences; `TableInv`: a request fits the route it was made for, and the route it took fits it and comes first. A URL is cut at the first of each separator, and the parts before it have none (`CutAtAtom`, `PartsAreRead`); a port the validator lets through is a number (`PortIsNumber`); the last `--port` wins by induction over the arguments (`LastPortWins`); and a route of the same length that comes first has another literal, or one where the later has a variable (`EarlierDiffers`, over the table as it is registered) |
| `StartupProofs!OperatorsStayRespected` | `SeedInv`: where a seeding stands in its document (`Control`), and what one that nobody interfered with has brought about so far, while no other is inside its document (`Applied`, `QuietAt`); `RegistryInv`: a request that nobody overlapped writes the file with pending migrations decided |
| `StartupProofs!SchemasStayApplied` | `SyncInv`: for each phase of a start in which no statement has failed by accident, which columns, constraints and keys are settled and which are still to do (`Faultless`); what is read of a file follows from the file (`FilesInv`), and the claims about it by cases over a document |
| `Typing` in each of the first five | `TypeOK` |

TLC checked each invariant on the run's instance before it was proved. Of the models
some were rewritten to be reasoned about, with the same states in their runs: `UntilThrow`
of `SchemaSync` is the set of documents read rather than a prefix of the sequence,
`EntityStore` has counts for lists and a closed set for the recursion over trees, and the
sort of `WorkflowEngine`, the loop over columns of `RowWriting`, the reading of headers
in `HttpParsing`, the splitting of a path in `Routes` and the command line of
`Configuration` are recursive functions of a number.

Induction over sequences with an operator as its parameter is out of the prover's reach.
Where a proof needs induction it is over the numbers or the sequences in a set: `SetInduction` says
that a set with 0 and with every successor has all numbers, from the library's well-founded
minimum (`WFMin`), and `WordByWord` the same of a set of sequences that is closed under `Append`.

Only model-checked:

* liveness (`StaleEntriesDie`, `DriftHeals`, `SignInsAndStopsEnd`,
  `RequestsAndRunsEnd`, `WalksEnd`), which is out of the prover's reach, as ENABLED is;
* `QueriesAnswerTheRequest` and `ScriptsAreUnderstood`, which compare two readings of a
  sentence or a query by nested folds: what such a fold computes for every input
  is an induction for each of them, which has not been done;
* the refutations, of course.

## Observations

What modelling showed besides the two findings; the models contain each of these as
the code does it, and the properties are stated around them.

*Cache, tokens, batches*

* `caching_adapter.hpp:7-8` promises that an unreachable cache costs "latency, never
  correctness". A DEL that fails while Redis is away leaves the overwritten row to be
  served once it is back, for at most a TTL (`StalenessExplained`, `BoundedStaleness`).
* An update whose read-back fails has changed its row and is answered as an error
  (`sqlite_adapter_crud.cpp:79`, `mysql_adapter.cpp:255-262`): the cache keeps the old entry,
  a bulk request answers 400 for an item it has done.
* A Redis remove does not look whether its snapshot was read, and deletes without an undo
  when it was not (`redis_adapter_crud.cpp:92-99`).
* `RefreshTokenStore::revokeFamily` lists a limited number of rows and swallows errors,
  and the caller is told that the family is revoked in each case.
* A replayed code is refused and revokes nothing, although `auth_code_store.cpp:74-75`
  says that the caller must revoke the family.
* An exception inside a batch leaves the transaction open
  (`batch_route_handler.hpp:27-28` promises a rollback): its writes are read by everybody
  until a restart and never committed (`FailedBatchIsNeverCommitted`).
* The SQL adapters' bulk statements take other connections than the transaction, so a
  rollback undoes nothing; an exception between begin and commit leaves the adapter's
  transaction open for good. The pool does not count its initial connections: up to
  max + max/2 exist.

*Start-up and seeds*

* `POST /admin/seed` answers 200 when the directory does not exist (nothing was
  inserted and nothing has failed, `seed_route_handler.cpp:156`), with success false.
* A restart overwrites bootstrap rows with `useCurrentTimestamp`
  (`seed_loader_action.cpp:202` against the comment at :38-45): the time is part of the
  fingerprint. `force` only affects `skipIfExists`, where `server_routes.cpp:450-460`
  says more.
* A primary key that moves is dropped and added in two statements
  (`sql_adapter_schema.cpp:336`, `:341`); a crash between them leaves a table without one.
  A required field that is renamed leaves a NOT NULL column behind.
* `loadFromDirectory` ignores lengths and patterns; `loadFromFile` has no caller.
* The default `DBAL_DATABASE_URL` `:memory:` is rejected by `ConnectionValidator`, as are
  mongodb, elasticsearch and redis URLs that the factory lists as supported. An "@" in a
  password or in the options splits a URL at the wrong place; a port may overflow.

*Queries and rows*

* `then` steps of BQL drop "called" and "that says", where `bql_parser.cpp:502-506` says
  that nothing is dropped.
* Named queries: the aggregation path of `SqlAdapter` ignores `orderBy` and `limit` and
  answers texts with "" for null where SQLite answers typed values; SQLite's total of an
  ungrouped aggregate is the number of rows; other adapters ignore the conditions.
* A JSON boolean in a json column of SQLite is written as a number; SQLite reads
  "integer" columns as text; Postgres and MySQL turn "" into NULL; a range with fewer
  than two ends is an error in SQLite; NOT IN of nothing selects nothing in SQL.
* `SQLiteQueryBuilder::quoteId` puts names between quotes without a look at them, where
  `SqlWhereBuilder` compares them with the schema.
* A row without a `tenantId` is read and written under every tenant's route
  (`crud_handler.cpp:59`, `:99`, `:157`).
* An id that ends in a separator, or begins with one, is served as the id without it.
* A secret whose row cannot be read is answered "not found" (`client_secret_ops.cpp:42-45`).
* A range of length 0, or one whose end wraps, returns the whole object on S3.
* The user RPC's list reports the page size as its total and never has more.

*Socket servers* (not used by the daemon binary, which serves with Drogon)

* `stop()` relies on `close()` to wake `accept()` (`http_server.hpp:127`); detached handlers
  may outlive the server; `Server::running_` is a plain bool; a body is what arrived with
  the head; whether a head near the limit is refused depends on the cuts.

## Not modelled, and why

Cryptography, XML parsing and signatures, S3 signing, presigned URLs; drivers and
connection management of the remote stores; the generators that print Prisma files;
response formatting and logging; the TypeScript frontend; reads that change nothing
and that no property is about. Code without a caller: `SqlQueryBuilder`, the builder
classes of `src/query`, SQLite savepoints and pool, the transaction snapshots of the
in-memory store, `invalidateTenantEvents`, `EnvConfig::validate` and the `.env` loader;
stubs that answer 501, and Cassandra's CRUD, which are stubs. In-memory sessions and the
first-login flag are unreachable: that store's users are never filled. Keys of blobs
that are directories of others' keys, SQLite's automatic rollback on a full disk, and
power loss under `synchronous=NORMAL` are left out. `PROJECT.json` has the list by component.

## Plan

Proofs that could follow: the parts of `QueriesAnswerTheRequest` that are about one loop
(`TenantAlwaysFilters`, `PageHoldsTheOffset`), and that the table of routes hides none for any
value of the variables.

Models that could follow: the layer stack as one composition (`CachingAdapter` over
`SearchingAdapter` over one store), and the connection pools of Redis and MongoDB.
