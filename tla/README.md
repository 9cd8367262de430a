# A TLA+ model of sealbox

sealbox is a vault for personal data: an HTTP server over PostgreSQL that seals every object under a key of its
own, wraps that key under a master key or in a key service, finds objects by a keyed hash of a field (the blind
index), and erases an object by destroying its wrapped key. This directory models the parts of it that run at the
same time as each other and the functions they depend on, checks them with TLC, and proves with TLAPS what the store,
its procedures, the API, searches, a batch reveal and the start of a replica promise.

Paths below are relative to `src/`.

## The system

| Component | State it keeps | Operations | Correct when |
|---|---|---|---|
| Store (`internal/store/store.go`) | tables `objects`, `blind_index`, `keys`, `audit_log` | `Open` (migrations, `loadIndexKey`), `PutMany`, `GetMany`, `Search`, `Subject`, `Delete`, `DeleteSubject`, `AuditMany`, `Reindex`, `Rotate`, `Grant` | shredding is final, no index row outlives its object, each effect has exactly its audit lines, batches are all or nothing |
| Envelope (`internal/envelope`) | loaded wrappers, the current one first | `Seal`, `Open`, `OpenMany`, `Rewrap`, `Hash` | what was sealed opens as long as one loaded wrapper has its key; a re-wrap changes only the wrapping |
| Key services (`transit.go`, `awskms.go`) | outside; a transit key has versions | `Wrap`, `Unwrap`, `UnwrapMany`, `Rewrap` | a version may be retired once nothing is wrapped under it |
| HTTP API (`internal/api/api.go`) | one rate limiter per client, in memory | create, batch create, get, batch reveal, delete, search, subject list and erasure | nothing is answered before it is allowed, paid for and logged |
| Authentication (`auth.go`) | clients, keys, roles | `authenticate`, `require`, `ValidateClients` | a client does only what its roles say, and the log has its name |
| Commands (`cmd/sealbox/main.go`) | none of their own | `migrate`, `rotate`, `reindex`, the server | exit status 0 means that the work is done |
| Schema (`internal/schema`) | the schema file | `Parse`, `Validate`, `Normalize`, `Indexed`, `Mask` | an object is indexed the way a search for it normalises |
| Client, metrics, hardening | none that matters here | | |

How they meet: a request passes authentication, role and budget, calls the store, and is answered; every request of
every replica, and every command, is a process of its own on one database, and they share nothing else. Reads are
logged by a separate call (`AuditMany`) between reading and answering; writes are logged inside their transaction.
`rotate` and `reindex` run page by page while the servers serve, each row in a statement or transaction of its own.

What is hard to test here: statements of several processes interleave between any two lines of Go; rows are read,
sent to a key service, and written back later; PostgreSQL re-evaluates a `WHERE` after it waited for a lock; the
order in which an `UPDATE` locks rows is the planner's, so two erasures deadlock; a commit can succeed while its
answer is lost; a process dies anywhere (there is no graceful shutdown); replicas with different keys, schemas and
releases run side by side during a rolling restart; limiters are shared by concurrent requests and forgotten at a
restart. `PROJECT.json` lists these hazards, each at its line, with the properties that would catch them.

## Modules

| Module | Models | Builds on |
|---|---|---|
| `Store` | the four tables and every operation that changes them, one action per SQL statement, key-service call or commit | |
| `Vault` | what the store promises: objects, places where searches find them, a log, answers; each operation one atomic step | |
| `StoreRefinement` | the mapping under which `Store` implements `Vault` | `Store`, `Vault` |
| `StoreInvariant` | the inductive invariant of `Store` | `Store` |
| `StoreProofs` | the store's invariant and what follows from it, for every value of the constants | `StoreInvariant` |
| `StoreRefinementProofs` | `Store` implements `Vault`, statement by statement | `StoreProofs`, `StoreRefinement` |
| `Deployment` | the operator's procedures around the store: rolling restarts, a rotation of the master key or inside the transit engine, a new schema, retiring the old key | `Store` |
| `DeploymentInvariant`, `DeploymentProofs` | the inductive invariant of the procedures, and theorems | `Deployment`, `StoreRefinementProofs` |
| `Api` | one server as its clients see it: keys file, roles, budgets, order of reading, charging, logging and answering, restarts | |
| `ApiRefinement` | the mapping under which `Api` implements `Vault` | `Api`, `Vault` |
| `ApiProofs` | theorems about `Api`, its refinement of `Vault` included | `ApiRefinement`, `SumProofs` |
| `Sums`, `SumProofs` | totals over finite sets, and what changes them | |
| `Schema` | `internal/schema` as functions: types, validation, normal forms, masks, what is indexed and what a search looks up | |
| `Search` | paging through a search while objects come and go, the schema changes and `reindex` rebuilds the index | `Schema` |
| `SearchProofs` | theorems about `Schema` and `Search` | `Search`, `SumProofs` |
| `Reveal` | a batch reveal: `GetMany`, `OpenMany` by wrapping key, `UnwrapMany` in batches, the answer | |
| `RevealProofs` | theorems about `Reveal` | `Reveal` |
| `Startup` | `store.Open` by several processes at once: migrations, schema check, blind-index key | |
| `StartupProofs` | theorems about `Startup` | `Startup`, `SumProofs` |
| `MCStore`, `MCDeployment`, `MCApi`, `MCSearch`, `MCReveal`, `MCStartup` | small instances for TLC | |

### Store

A process is one request or one invocation of a command; `pc[p]` says where it is, `tx[p]` holds what its
transaction wrote and nobody else sees yet, `job[p]` its local variables (page, cursor, row in hand, key as read and
as re-wrapped). `lock` holds row locks from `UPDATE` and `SELECT FOR UPDATE`. PostgreSQL at READ COMMITTED is
modelled from how the code uses it: a statement sees what was committed when it began, waits for a row's lock, and
then looks at the row again.

| Code | Actions |
|---|---|
| `PutMany` | `PutItem` for each object, `PutCommit` |
| `Delete` | `DeleteUpdate`, `Unindex`, `ShredCommit` |
| `DeleteSubject` | `EraseBegin` (snapshot), `EraseScan` (the planner picks the next row), `EraseLock`, `EraseReturn`, `Unindex` for each, `ShredCommit` |
| `GetMany`, `AuditMany`, the answer | `GetSelect`, `GetAudit`, `Respond` |
| `Reindex`, `rewriteIndex` | `ReindexStart`, `ReindexPage`, `ReindexOpen`, `RewriteLock`, `Rewrite`, `RewriteCommit`, `Exit` |
| `Rotate` | `RotateStart`, `RotateKeyRewrap`, `RotateKeyWrite`, `RotatePage`, `RotateRewrap`, `RotateWrite`, `Exit` |
| error returns, cancelled requests, a dead process | `Abort` |
| PostgreSQL's deadlock detector | `DeadlockAbort` |

Commits take a flag `told`: a commit whose answer is lost has happened, but `emit` and the answer do not. Data is
abstracted to what decides control: a wrapped key is the version that wrapped it (0 when destroyed), an object is
its subject and the set of fields it has, the hash in an index row is implied by object and field.

### Deployment

`Deployment` adds the phase of the procedure to `Store`: before the change, rolling restart with both keys, old key
dropped, old key destroyed. A restart aborts what the replica was doing. Commands start only when every replica has been
restarted, as README.md asks, and the operator goes on when `rotate` has exited with status 0 (nothing skipped).
`Drain` says whether the operator also waits for requests that sealed something before the engine's key moved. In an
engine there may be several rounds (`NextRound`), and `Settle` says that the rotations of one round have ended
before the next begins. `NeverGoesDark` is about every replica, restarted or not: what it can open now it can open
after the next step.

### Api

The server starts with the clients of a keys file and, if `SEALBOX_API_KEY` is set, the client `default`, provided
`ValidateClients` accepts them together; a caller presents a key, and `Authenticate` says which clients it matches.
A read goes through `Arrive` (key and role), `Allow` or, for a full batch, `Look` and then `Charge`, then `Audit`
and `Answer`; it may fail anywhere, and the process may restart. Creates, deletes and erasures are single steps,
which is what `ImplementsVault` justifies. `Refill` and `AllowN` are golang.org/x/time/rate, in tenths of a unit and
whole seconds. `paid`, `spent`, `given` and `handed` are history: what was spent and what was answered.
`ApiRefinement` forgets clients, budgets and levels, and adds up lines and answers per object.

### Schema and Search

`Schema` has no state. A string is a sequence of characters, because validation, normal forms, masks and the Luhn
sum depend on each of them; `digits` takes the positions that hold a digit in `Ascending` order, as a page takes its
ids. A JSON value is text, null or something else; Go decodes null into an empty string
without an error, which `Validate` refuses but `Indexed` and `Mask`, when they meet an old object, do not.
The name of an index is a string, as in the code: the field's name, or that with `#last4` appended. A field may have
the name of another one's fragment; `Indexed` is then one of several maps, since Go walks the fields in any order and
the last assignment stays. `Unshared` says that no second field fills an index.

`Search` keeps objects with their values, the index rows under the hashed key (the pair of index name and normalized
value), the schema the servers have, the cursor of a `reindex` and the cursor of one caller that follows `next` with
`client.SearchAfter`. `always` is history: the ids that matched the caller's query at its first request and at every
moment since. `Redeploy` switches all servers at once; replicas that are restarted one by one, and creates that began
under the old schema, are in `Deployment` (`RebuiltMeansIndexed`). Objects may have been stored when the collection was not declared, so that `reindex` meets values that
`Validate` would refuse.

### Reveal

`Select` reads the rows, in any order. `GroupRow` is one turn of the loop that appends each row's slot to the group of
its wrapping key (`byKey`). Groups are worked off in any order, as a Go map is walked: `UnknownKey`, or `BeginGroup` and then `UnwrapOne` for each row or `UnwrapBatch` for each round trip, and `Scatter`, which opens the
rows and puts the results into their slots. `Unreachable` is a key service that fails; `Opened` is `GetMany`'s check
of the errors; `Respond` is one turn of the loop over the ids of the request, which gives an id, calls it missing, or
has seen it before. A wrapped key is that of one object and a ciphertext is that of one object; `Binding` are the keys
that also bind the wrapped key to its row (a transit key without derivation ignores the context). Tables with
rows that were copied, whose wrapped keys were swapped, or whose key is not loaded are initial states: a bad restore
makes them. `Open`, one row at a time, is the reference for `OpenMany`.

### Startup

Each process runs `Open`: with `SEALBOX_MIGRATE=auto` it takes goose's session lock, lists what is missing and
applies it file by file; with `off` it only compares versions. Then `Propose`, `Insert` (`ON CONFLICT DO NOTHING`),
`Read`, `Adopt`. Processes of an old and a new release, with different wrapping keys, crash and start again at any
point, and a rotation re-wraps the row.

## Runs

Every run finishes in less than three minutes with two workers.

| Run | Instance | Shows |
|---|---|---|
| `requests` | 2 requests, 2 objects, 2 collections, batches of 2, 1 reveal | `AuditExact`: one create line per object, one delete line per shredded one. `RevealAudited`: no answer without its line. `EmittedCommitted`: stdout never has a line the log lacks. `EraseCovers`: when `DeleteSubject`'s `UPDATE` returns, all its snapshot matched is shredded by it or by somebody else. `ImplementsVault` |
| `together` | 2 requests, a rotation and a reindex that lacks the old key, 1 object | `LiveIffKey`, `ShredFinal`: a rotation that read a key before the row was shredded never writes it back. `IndexOnlyLive`, `IndexWhole`: an object is never found after it was shredded, nor by half of a rewrite. `FullInv` (the invariant of the proofs), `ImplementsVault` with everything at once |
| `live_requests` | 2 requests, 2 objects | `EveryRequestEnds`, deadlocked erasures included |
| `live_commands` | 2 requests whose servers wrap under different keys, 2 objects, a rotation and a reindex that have one of the keys each | `EveryRequestEnds`: a row that is skipped, one that is locked, and rows that appear before and behind the cursor do not stop the pages |
| `done_logged` | a request and a reindex | finding, see below |
| `rotate_master_key` | 2 replicas, 2 rotations, 2 objects | `NothingLost`: at each point of the procedure a restarted replica opens every live object and the blind-index key. `CleanMeansCurrent`: the SQL check of step 3 finds one fingerprint. `NeverGoesDark`: no step takes from a replica what it could open |
| `rotate_engine` | a replica, 2 rotations, 2 rounds (3 versions), a reindex to a new schema, 1 object | `NothingLost` when requests in flight were let finish before a rotation, and rotations before the next round. `RebuiltMeansIndexed`: after exit status 0 every live object is indexed as the new schema asks |
| `rotate_engine_in_flight` | 2 replicas, a rotation | finding, see below |
| `api` | 2 requests at a time, 3 clients or the client `default`, 2 objects, 3 arrivals, 3 points in time | `PaidFirst`, `WindowBudget`, `AnswersLogged`, `RolesHold`, `Attributed`: a request acts as the one client its key was given to. `ApiImplementsVault` |
| `search` | 2 objects out of 12, 7 queries, 3 old schemas and a new one, pages of 1 | `SearchFinds`, `SearchExact`: once `reindex` is through, a search in an index that only its field fills finds exactly the live objects whose value is equal after normalization or, for four digits, ends in them. `PagesAscend`, `PagesComplete`: no id twice, none that matched throughout left out. `MasksHide`: of a validated number a masked read shows the last four digits and hides at least three. `TypoRefused`: no two validated cards differ in one digit |
| `reveal_batch` | 4 rows, up to 2 of them damaged in one of 4 ways, 2 requests with repeated and unknown ids, batches of 2 | `OpenManyExact`: each row gets what opening it alone gives, in its slot. `AnswerExact`: each id is given or missing, once, with its own plaintext and its log entry, or nothing is answered. `RoundTrips`: a group of n costs at most n/`batchSize` calls, rounded up |
| `startup` | an old and a new release that migrate, a new one that checks, 2 wrapping keys, 4 candidates | `MigratedOnce`, `TablesThere`, `OneIndexKey`, `IndexKeyStays` |

Each property has a mutant in `PROJECT.json`: a definition changed as a plausible bug would change it (a dropped
`deleted_at IS NULL`, a missing `FOR UPDATE`, `>=` for `>` in a cursor), under which TLC finds the property violated.

### Bounds

`Ids`: two ids make batches partial, let two erasures lock in opposite orders, and, with `PageSize = 1`, make every
row a page boundary; ids are chosen freely, so that a new object may fall before or after a cursor. `MaxBatch = 2`
is the first batch that can fail halfway. `MaxReads` stops reveals and `MaxRewrites` reindex runs, which could repeat for ever and
only count up. `Rounds = 2` is the first number at which a rotation can
be late for its own round. `together` and `rotate_engine` have one object, because the conflicts they are about are about the same row. `MaxArrivals = 3`
lets one create be followed by two competing reads; `MaxTime = 2` gives an idle period and a period to spend in.
`MaxKeys = 4` is one candidate for each process and one for a restart; when candidates run out a process waits, and
may still crash. The settings of `api` are one keys file with three
clients, `SEALBOX_API_KEY` alone, and six that must be refused (a shared key, a key or the name `default` taken twice,
an unknown role, a short key, none).
In `live_commands` the blind-index key opens for one of the two commands, so that each runs against the requests and
not against the other one; objects there are about nobody, because erasures are in `live_requests`. Ids are never used
again, so both have two creates. `rotate_master_key` has such objects, too.
In `search`, pages of one id make every id a page boundary, for the caller and for `reindex`, and two ids let one
come before and one after either cursor; the values lie at the edges (four and seven digits, null, no text, a card
with one digit changed), and one of the old schemas has a field named as the index of another field's last four
digits. In `reveal_batch`, a group of three is a full batch and a shorter one, any of whose keys the engine may
refuse; after a failure the
state is reset, since nothing of it is used. Deadlock is checked everywhere but in `api`, where arrivals end, in
`live_commands`, where ids and runs of `reindex` do, and in `reveal_batch`, where the one request ends.

### Fairness

`FairSpec` assumes strong fairness of the steps of each process that has begun, and none of `Abort`, of new
requests or of new commands. A Go handler runs until it returns, so weak fairness would do for most steps; only the wait for a row
lock is disabled and enabled again, and PostgreSQL queues those who wait, which is what strong fairness says. A wait
that never ends by itself is a deadlock, and PostgreSQL's detector ends it.

## Findings

* `done_logged`: a row that is shredded after `Reindex` opened it and before `rewriteIndex` locks it is counted as
  done, with no `reindex` entry, although its plaintext was opened. `internal/store/store.go:406` and README.md:224
  promise an entry per object.
* `rotate_engine_in_flight`: README.md:275 lets the operator rotate the transit key, run `sealbox rotate` and retire
  the old version. A create that sealed under the old version just before, and commits just after the rotation has
  passed, stays under the old version; no replica is restarted in this procedure, so nothing ends that request.
  Once the version is retired the object does not open. `rotate_engine` shows that waiting for such requests is
  enough.

A third disagreement has no run of its own. THREAT_MODEL.md:62 says that hashes are separated per field, but a field may be
declared under the name of the index of another field's last four digits (`phone#last4` beside `phone`), and `Parse`
(`internal/schema/schema.go:101`) accepts it. `Indexed` then keeps the value of one of the two, and a search on either
field meets values of the other. `SearchFinds` and `SearchExact`, and the theorems about them, are therefore about
indexes that one field alone fills (`LooksInOwn`). Without that condition TLC finds both violated in `search`: an object
is not found by its own `phone#last4`, and a search there for four digits finds an object whose phone number ends in
them. The other properties hold of such schemas as well.

Worth knowing, though no document says otherwise:

* Rounds of rotation inside an engine must not overlap. With `Settle = FALSE` TLC finds an object lost in
  `rotate_engine`: a rotation of the first round re-wraps a row, stalls before its `UPDATE`, and writes after the
  second round has moved the row on and retired the older version. The `UPDATE` compares `key_id`, which is the same
  for every version of a transit key.
* A number stored before its field was declared was never validated: once the field is a phone, a value of exactly
  four digits is shown whole by its mask.
* Budgets are per process, so N replicas give a client N budgets and a restart gives it a new burst (`WindowBudget`
  speaks of one process since its start); a budget below 0.2 per second has a burst of 0 and refuses every full
  reveal.

## Proofs

The theorems hold for every number of processes, objects, keys, schemas, clients, requests and rounds, every page
and batch size. The constants are assumed well typed, texts sequences of characters of any
length, and `None` distinct from everything. Sets of which only finitely
many exist at a time are finite: the ids, the processes that start, the clients and the requests of one server. The current wrapper is among those
loaded (`envelope.New` has it first), an API key from the environment comes with the client `default`, and the lists
of keys are changed as README.md says (`ProcedureAssumption`: the new key first, the old ones still there, the new
one still first when they go), and a string with `#last4` appended is another string (`NamesAssumption`). TLC evaluates all of this on the instances of the runs.

| Module | Theorem | States |
|---|---|---|
| `StoreProofs` | `InvHolds`, `TypeCorrect` | `Spec => []Inv`, `Spec => []TypeOK` |
| | `KeyDestroyed` | a row is marked deleted exactly when its wrapped key is gone |
| | `SearchFindsLive` | no index row outlives its object |
| | `LogExact` | exactly one create line per object, one delete line per shredded one |
| | `ErasureCovers` | `DeleteSubject` leaves nothing alive that its snapshot matched |
| | `ShreddingIsFinal` | no step changes a shredded row |
| | `StdoutHasOnlyCommitted` | stdout has only lines of the log |
| `StoreRefinementProofs` | `FullInvHolds` | `Spec => []FullInv` |
| | `RevealsAreAudited` | no plaintext leaves more often than the log says |
| | `IndexIsWhole` | a live object is indexed as one schema in use asks |
| | `StoreImplementsVault` | every step of `Store` is a step of `Vault` or none |
| `DeploymentProofs` | `DInvHolds` | `DSpec => []DInv` |
| | `CleanRotationIsComplete` | after a clean `rotate` no live row and no index key is under another key |
| | `ProcedureLosesNothing` | restarted replicas open every live row and the index key |
| | `NoReplicaGoesDark` | no step takes from a replica what it could open |
| | `CleanReindexIsComplete` | after a clean `reindex` every live object is indexed as the new schema asks |
| `ApiProofs` | `ApiTypeCorrect` | types |
| | `ServedAsItsClient`, `LogShowsRoles` | a request acts as the client its key was given to, within its roles |
| | `NothingLeavesUnlogged`, `NothingUnpaid` | each answer has its line, and full ones are paid for |
| | `BudgetsHold` | in no window does a client spend more than burst and refill |
| | `ServerImplementsVault` | every step of `Api` is a step of `Vault` or none |
| `RevealProofs` | `RevealInvHolds` | the inductive invariant of a batch |
| | `OpenManyIsOpen` | each row gets what opening it alone gives |
| | `BatchAnsweredExactly` | each id is given or missing, once, or nothing is answered |
| | `FewRoundTrips` | round trips of a group are at most its size over `batchSize`, rounded up |
| `SearchProofs` | `SearchInvHolds` | the inductive invariant of searching |
| | `SearchesFind`, `SearchesAreExact` | once `reindex` is through, a search in an index that only its field fills finds exactly what has its value |
| | `PagesNeverRepeat`, `PagesLeaveNothingOut` | pages ascend, and miss nothing that matched all along |
| | `MasksAreSafe` | a mask of a validated number shows its last four digits only |
| | `TyposAreRefused` | `luhn` never accepts two numbers that differ in one digit |
| `StartupProofs` | `StartTypeCorrect` | types |
| | `EachMigrationOnce`, `EveryTableThere` | migrations happen once, and before anybody serves |
| | `SameIndexKey`, `IndexKeyIsForever` | all who serve hash with one key, and it stays |

### The inductive invariants

None of the properties is inductive, because whether a step is harmless depends on what its process did many steps
before.

* `Inv` says, for each process of `Store` and each point of its code, what it has staged: a create's rows are live,
  new, and disjoint from everybody else's (`PutSoFar`, `NewDisjoint`); whoever shreds or rewrites holds the lock of
  the row, so the row is still live, and its staged deletions cover every index row the object has now
  (`ShredSoFar`, `RewriteSoFar`); an erasure's snapshot is divided into rows to look at, rows it shreds, and rows that
  are dead (`EraseSoFar`); a key about to be written is never the empty one (`JobReady`). Each action has a lemma
  that it preserves `Inv`; the part about other processes follows from a few lemmas on what a step may change of a
  row that somebody else has locked.
* `FullInv` adds what callers are told: the answers that are still owed are covered by lines of the log, counted over
  all processes; the rows of a page exist; what is staged for the index is what a schema asks. With it each commit
  maps to one step of `Vault`, `GetAudit` to its logging, `Respond` to its answer, and everything else, `Abort` included, to none.
* `DInv` adds to `Inv` which configurations coexist in which phase, which keys and versions every sealed key still
  needs (`KeysInv`), and how far a command has come: a live row that a rotation has not re-wrapped, or
  a reindex not rebuilt, is ahead of its cursor or was counted as skipped, and what it holds of a row is what is stored. New rows may
  appear behind a cursor, and are fine only because every server seals under the new key by then, which is why the
  procedure restarts them first. `ProcedureLosesNothing` and `NoReplicaGoesDark` assume `Careful`: wherever an
  engine's key has versions, the operator waits for requests in flight and lets rotations end before the next round. The
  finding `rotate_engine_in_flight` is what happens otherwise. The two theorems on clean exits need no such care.
* `ApiInv` says that a request was let in with a key of its client and with its role, what it has read, paid and
  logged, and that for every client what was given, and what requests in hand have logged and will give, never exceeds
  the lines. For the budgets it says that what was spent since any
  second, and the tokens left, come to no more than a burst and the refill since then.
* `RevealInv` says that each row is in the group of its key, once; that a slot has what `Open` gives if its group
  is done, and is empty otherwise; that the results of the group in hand are those of its rows, in order, whatever the
  cuts into batches; and that the answer is exact for the ids that the loop has passed.
* `SearchInv` says that a live object that is not indexed by the schema in use is on the page `reindex` has in hand or
  beyond it, that what the new schema validated is valid under it, and that a caller has, in order, every id up to its
  cursor that matched all along. A create may fall behind the cursor of `reindex`: it is indexed by the new schema by
  itself. On top of it are lemmas about functions: `Indexed` keeps what a field assigns to an index of its own
  (`OwnIsKept`) and puts a value where `Normalize` looks for it (`IndexedWhereSearched`, `SearchedWhereIndexed`), the digits of a mask are those after its fixed text
  (`MaskDigits`), and the weight of a digit in the Luhn sum is below ten and different for different digits
  (`WeightsDiffer`), so that one digit changes the sum by less than ten.
* `StartInv` says that whoever applies migrations has the lock and knows exactly what is missing, and that a key
  that a process has adopted or read is the one in the table.

TLC checks `FullInv` in `together`. `MCDeployment` extends `DeploymentInvariant`, so that `DInv` can be added to its
two passing configurations; it holds there, too.

Totals (answers owed, units spent in a window) are sums over finite sets, whose library definition is a fold. What
adding, removing or changing one term does to a sum is proved in `SumProofs` by taking a least counterexample, a set
of smallest cardinality. That a finite set of numbers can be listed in ascending order follows from counting: ranks
are different, and as many as there are elements (`NthExists`).

### Only model-checked

* `EveryRequestEnds`: liveness under fairness is out of this prover's reach.
* The two findings: a counterexample is an instance.
* What the other functions of `Schema` compute (`trimSpace`, `toLower`, `validateEmail`, `maskEmail`), on the values of
  `MCSearch`: the theorems use only that a search and an object are normalised by the same function.

## Not modelled

* `Grant`: idempotent statements at `migrate`, no concurrency.
* `Schema`: letters other than those of the values that are checked, and white space other than the space; a hash
  is taken to be equal exactly for equal collection, field and value.
* Changing the keys file: a server keeps the clients it was started with.
* Cryptography, parsing of bodies and configuration, TLS, HTTP timeouts: they refuse a request or end it, which
  `Abort` and `Fail` cover; their data has no bearing on the properties.
* `subject` and `/healthz` only read. Metrics and process hardening have no state that others
  use; the client library's methods are one call each, and only paging takes several.
* Backups and the database's own durability.

## Plan

Done: `Store`, `Vault` and the refinements of it, `Deployment` with several rounds, `Api` with the keys file,
`Schema`, `Search`, `Reveal`, `Startup`, and for each of them the proofs of every safety property that a run checks.
Next:

1. that a mask of an email address shows its first character and its domain only (`maskEmail`), with a proof;
2. the waiting that `rotate_engine_in_flight` asks for, as small as it can be: a proof of `NothingLost` from an
   assumption about single requests rather than from `Drain`.
