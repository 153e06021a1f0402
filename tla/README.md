# MNEMA: a verification development

TLA+ models of MNEMA (`src/src/mnema`), the memory layer whose core guarantee
(`src/README.md`) is that an agent *never forgets a protected fact and never
acts on a superseded one*. TLC checks the models on small instances, TLAPS
proves the central results for all constants.

Paths below are relative to `src/src/mnema` unless they start with `src/`.

## 1. The system

`MemoryEngine` (`core/engine.py`) offers five asynchronous verbs over injected
adapters. Everything runs in one asyncio event loop; any `await` that really
suspends lets another call in.

| component | state | operations | model |
|---|---|---|---|
| write path (`core/write_path.py`, `core/classifier.py`) | none of its own | `remember`: T0 append, buffer push, provisional T1 record for safety or durable claims, staging | `WritePath` |
| session buffer (`core/buffer.py`) | a bounded deque per (user, session) | `push`, `as_candidates_for_user` | `Stores`, `Recall` |
| consolidation (`core/consolidation.py`) | the shared staging queue; locals of a run | drain, extract, pin, reconcile, search, judge, refine / mark / supersede / insert, vault loop, eviction loop | `Consolidation` |
| forgetting (`core/engine.py`, `core/decay.py`) | none | `forget`, `evict`, `decay_pass` | `Forgetting` |
| recall (`core/recall.py`) | none | embed, search, get each hit, union with the buffer, rank, pack | `Recall` |
| packer (`core/packer.py`) | none | `pack_records` | `Packer` |
| T1 on SQLite (`adapters/vector_store/sqlite_t1.py`) | `t1_records`, `vec_t1`, one shared connection | `upsert_with_vector`, `supersede`, `update`, `delete_vector`, `upsert_vector`, `recreate_vector_store`, reads | `Stores` (as atomic operations), `T1Connection` and `SqliteT1` (statement by statement) |
| T1 on Postgres (`adapters/vector_store/postgres_t1.py`) | tables, one shared connection and its transaction | the same | `T1Connection`, `PostgresT1` |
| T0 (`adapters/object_store`): local files, OSS/S3 | turn log, cold archive, audit log | `append`, `get`, `archive`, `append_audit` | `Stores` (as atomic operations), `ObjectStore` |
| T2 vault (`adapters/vault`) | a markdown file per user | `promote` | `Stores` |
| schedulers (`adapters/scheduler`: in process, cron) | one job | `schedule`, `trigger_now` | `Scheduler` |
| migration (`migrate.py`) | none | `migrate_embedder`, `reindex_all` | `Migration` |
| LLM and embedding adapters | none | remote calls | nondeterministic answers |
| config (`config.py`) | none | opens T1 with a width, adds the job | its part in `Migration`, `Scheduler` |
| MCP server, demo, evaluation | none | delegation, scripts | not modelled |

How they interact: `remember` and `consolidate` share the in-memory queue;
`consolidate`, `forget` and `evict` share T1, the archive and the audit log;
`remember` and `recall` share the buffer; everything shares T1 and, below it,
one database connection; the migration replaces T1's index between two engines.

**Concurrency is real.** `consolidate()` ends by calling `trigger_now()`
(`core/engine.py` 399-404), which fires the scheduled job, itself a
`consolidate()`, on the next tick. So an explicit consolidation can overlap the
scheduler's, and both overlap `remember`, `recall`, `forget` and `evict` at every
`await`. (The planning documents rule this out:
`src/.planning/milestones/v1.0-phases/03-forgetting-salience-floor-budget-packer-mcp/03-RESEARCH.md:847`.)
The job's own `consolidate()` calls `trigger_now()` too, but while its instance
is still counted: with `max_instances` 1 that firing is skipped, so the job does
not fire itself for ever.

What is hard, and what makes each component correct:

- *write path*: a crash or a failing call between its steps; a safety claim that
  was acknowledged must never be lost. (`SafetyClaimsKept`, `RememberedIsRecalled`)
- *consolidation*: state read before an LLM call and used after it; two runs on
  one queue and one table; drafts upgraded in place and never doubled; the safety
  pin on every path; the user boundary. (`SingleDelivery`, `DraftIsAlone`,
  `TurnsTracked`, `SuccessorExists`, `SuccessorUnlessBehind`, `FlagUnlessBehind`,
  `SafetyUnlessBehind`, `TrailUnlessBehind`, `TenantProvenance`, ...)
- *forgetting*: check-then-act, four separate steps, order with the vault.
  (`ProtectedUnlessBehind`, `PromotedUnlessBehind`, `AuditTrailOrdered`,
  `EvictionsTracked`, `EvictionCompletes`)
- *scheduler*: a job that starts paused, skipped and missed firings, overlap with
  explicit calls, exceptions. (`ArmedIsProcessed`, `QueueDrains`)
- *T1*: multi-statement operations on one connection, failing statements, reads
  that open transactions, a crash. (`TableSpec`, `BufferedSpec`, `NothingPending`,
  `AckedIsDurable`, `SupersedeAtomic`, `AckedOnDisk`)
- *migration*: a store whose index is gone or half filled, read by the next
  process, which may be configured with another width. (`LiveIndexed`,
  `MigratedWidth`)
- *T0*: count-then-put, several pages, callers that give up while their thread
  goes on, sessions named like the archive. (`RefKeepsTurn`, `RefResolves`)
- *recall*: rows change between the search and the fetch; the buffer is read
  later still. (`RecallScoped`, `RetiredStaysOut`, `RememberedIsRecalled`)
- *packer*: budget boundaries. (`ProtectedPacked`, `NoDisplacement`, ...)

`PROJECT.json` lists every hazard at its line with the properties that cover it.

## 2. Modules

```
Stores            the shared state and the port operations
 +- WritePath     remember()
 +- Forgetting    forget(), evict(), the eviction loop
     +- Consolidation   ConsolidationPipeline.run()
Mnema             WritePath and Consolidation composed: the engine, and crashes
 +- Contention    with a history of what others have written since a call read
 +- Scheduler     the engine with its job, and fairness
 +- Recall        recall() running beside the engine
MemoryLedger      abstract: what the long-term memory promises

T1Connection      the tables, the shared connection, the calls
 +- SqliteT1      the SQLite adapter, statement by statement
 +- PostgresT1    the Postgres adapter, statement by statement
     Migration    SqliteT1 and PostgresT1 composed with the processes that open them
RecordTable       abstract: every port operation at once or not at all
 +- BufferedTable abstract: the same, but on disk later
ObjectStore       T0: LocalFS and OSS
Packer            pack_records

RecursionLemmas   what a function defined by recursion on a number is
MnemaTypeProofs   theorems: types of the engine, the drain of the queue
 +- MnemaSafetyProofs     the guarantees whatever overlaps, fails or crashes
     +- DeliveryProofs    staged turns, drafts, logs; calls that overtake each other
         +- CompositionProofs   the engine with its scheduler, with its readers
T1Proofs, ObjectStoreProofs, PackerProofs   theorems on the stores and the packer

MCMnema, MCContention, MCScheduler, MCRecall, MCSqliteT1, MCAdapters, MCPacker
                  instances for TLC
```

**Stores.** A row of T1 is a record: `status` (no row, live, or retired by
`valid_until`), owner, the turn its `t0_ref` names (`turn`), the turn its content
came from (`said`), `type`, whether the content holds a safety keyword
(`safety`), `prot`, `prov`, `high` (salience at or above the vault threshold),
`by` (`superseded_by`), `over` and `pending` (the `supersedes` and
`contradiction_pending` edges). `RecordType` is reduced to `fact`, `preference`
and `invalid` (a string that is no member), which is all the code tells apart.
`pinned` is a history variable: the ids inserted with `protected = True`.

Port operations are atomic steps here. For SQLite, `SqliteT1` shows (and
`T1Proofs` proves) that this is justified while operations do not overlap on
the connection; it fails otherwise (section 4). For Postgres the operations are
whole, but reach the disk later. Everything in `Mnema`, `Scheduler` and `Recall`
is relative to it.

**WritePath, Forgetting, Consolidation.** One action is the code between two
awaits that suspend. LocalFS and the vault do their work synchronously inside
`async def`, but the OSS adapter suspends, so the T0 append, the archive and the
audit are steps of their own; `vault.promote` is not, so the vault loop of one
user is one step (`PromoteUser`). Local variables of a coroutine that live across
an await are its state: `runs[c].seen` is the `existing` record that was read
before the LLM was asked, and the verdict is applied to the row's present
columns with the values computed from `seen`, as the partial UPDATE does.

- What the LLM extracts, its verdict, which records are near, which records
  score below the threshold: nondeterministic choices.
- `Forget` on a retired record retires it again, as the code does.
- A run that meets an unreadable row raises after the rows before it.
- In `Mnema` the scheduler's job and explicit calls are the same action
  `StartRun`; `Scheduler` tells them apart.
- `decay_pass` reads through a cursor that fetches 64 rows at a time; the
  instances have fewer, so its read is one step.
- In `Fetch`, several candidates of another type before the matching one only
  delay it, so the choice of the matching one is made in `Search`.

**Mnema** adds `MaxActive` (how many consolidations, forgets and evictions may be
in flight) and `Crash` (queue, buffer and every call in flight are gone, the stores
stay). A run that raises, or a crash, loses the turns it had drained: the code does
not put them back.

**Contention** adds a history variable. A run finds a record (the draft of its turn,
a record near its item, the rows of a user for the vault loop), a `forget()` or
`evict()` in its first step; `touched[k]` holds what other calls have written since
call `k` found it. A step is *behind* on a record (`Behind`) when its call is. The
properties of this module say of a harm that only a step that is behind does it:
what the code promises for a call that nobody overtakes, stated for any number of
overlapping calls.

**Scheduler** adds the job of APScheduler as either adapter configures it: paused
when it is added (`next_run_time=None`), waiting for its next run time, or due;
`Fire` starts the job's run, `SkipFiring` is a firing refused by `max_instances` or
missed by `misfire_grace_time`, `Tick` is the interval or the cron expression,
`Trigger` what `trigger_now()` does at the end of a run, `Restart` a crash after
which `build_engine` adds the job anew, paused. Every step is a step of `Mnema` or
leaves `Mnema`'s variables alone, so what is proved of `Mnema` holds here
(`ScheduledIsMnema`).

**Recall** keeps what recall has fetched; history variables record what was
remembered (`due`) and retired (`gone`) before the call, the turns
from before the last restart (`earlier`), which the buffer cannot hold, and the
order in which turns were pushed to each session since (`pushed`).
A draft's content is its turn's text; the LLM's wording may or may not equal it
(`NotInT1`), which is what content deduplication depends on.

**T1Connection, SqliteT1, PostgresT1.** One step per `execute`, `commit` and
`rollback`; `db` is what the connection sees, `saved` what is committed. Python's
sqlite3 opens a transaction before the first DML statement, `commit()` ends the open
transaction whoever opened it, `BEGIN` inside one raises; a statement that raises
leaves the transaction open that Python began for it (`Throws`). Psycopg with
`autocommit=False` opens a transaction before *every* statement, a SELECT too;
`conn.transaction()` inside of one is a savepoint whose release commits nothing; a
statement that raises leaves the transaction failed until a rollback. A row is
reduced to its status and successor, the index to its ids and its width.

**RecordTable, BufferedTable.** What a caller may rely on. `RecordTable`: put,
supersede, retire, vector in and out, each at once or not at all. `BufferedTable`
adds what a crash leaves: operations are whole, they reach the disk in their order,
and a crash takes back those that have not.

**Migration** follows one database through the processes that open it: an engine
or the migration script, each with the width of its own configuration. The script
drops and creates the index (`recreate_vector_store`), scans, and re-embeds record
by record, for all users or one; it may end after any statement.

**ObjectStore.** LocalFS appends a line in one step. OSS `append()` reads the
session's keys page by page, counts them, and puts the turn at that number, in a
thread; a caller that gives up leaves the thread running. The cold store and the
audit log lie beside the sessions, under names a session may have too.

Lines named `Mutation:` define how a plausible bug would change the definition
after them. The specifications do not use them; they show that each checked
property can fail.

## 3. What must hold, and the runs

| run | instance | what it checks |
|---|---|---|
| `concurrent` | 2 turns of a user in two sessions (an allergy, and small talk that is only staged), 3 records, 2 runs, for everybody or for another user, 1 forget/evict, 2 in flight, 2 items per turn, unknown types, failures, crashes; 1.79 M states | `TypeOK`, `SafetyClaimsKept`, `SuccessorExists`, `AuditTrailOrdered`, `DraftIsAlone`, `LiveSearchable`, `SingleDelivery`, how turns and log entries can be lost (`TurnsTracked`, `EvictionsTracked`), and that T1 implements `MemoryLedger` (`LedgerSpec`) |
| `contention` | a durable fact and small talk of a user, 3 records, 2 runs in flight that extract a salient preference or an allergy, 2 items per turn, failures; 2.50 M states | `PromotedUnlessBehind`, `ProtectedUnlessBehind`, `FlagUnlessBehind`, `SafetyUnlessBehind`, `SuccessorUnlessBehind`, `TrailUnlessBehind` |
| `scheduled` | an allergy of one user and small talk of another, 3 records, one explicit consolidate/forget/evict overlapping the job, failures, crashes, fairness; 43 k states | `ArmedIsProcessed`, `QueueDrains`, `EvictionCompletes`, `TenantProvenance` |
| `recall` | 2 durable claims of a user, a buffer of 1, a reader of either user, scoped and global runs, crashes; 1.10 M states | `RecallTypeOK`, `RecallScoped`, `RetiredStaysOut`, `RememberedIsRecalled` |
| `adapters` | T1: 3 ids, a coroutine, 2 widths, engines and migrations in any order on either adapter, every statement may fail, crashes. T0: 2 turns, 2 callers in a session named like the archive, pages of 2 keys, an eviction; 2.05 M states | `TypeOK`, `NothingPending`, `AckedIsDurable`, `LiveIndexed`, `MigratedWidth`; that SQLite's committed tables implement `RecordTable` (`TableSpec`) and Postgres `BufferedTable` (`BufferedSpec`); `T0TypeOK`, `RefKeepsTurn`, `RefResolves` |
| `packer` | every ranking of up to 3 records with costs 0, 1, 3 and budgets 0, 2, 3, 4; 66 k states | `TypeOK`, `ProtectedPacked`, `OthersFit`, `NothingFitsLeft`, `NoDisplacement` |

Those of `concurrent`, `contention` and `scheduled` hold *whatever overlaps, fails or
crashes* (`contention` has no crashes; the theorems on its properties do), as far as the
formula itself does not name an exception. `Behind` is such an
exception, and no empty one: without it each of the six properties of `contention` is
violated in that instance. `adapters` needs that operations on T1 take turns; section 4
shows what happens otherwise. What the properties of `concurrent` leave open is the
loss of turns and log entries, and two of them say exactly when it happens:

- `TurnsTracked`: a turn `remember()` has returned for is in the queue, with a run, or
  processed, until the process dies, the run that has it raises, or a run for
  *another* user drains it. A run for its own user, or for everybody, loses none.
- `EvictionsTracked`: a record that was retired without a successor is in the archive
  and the audit log or is the victim of an eviction at work, until that eviction
  raises or the process dies.

`RememberedIsRecalled` promises a turn only while fewer than `BufferSize` turns of its
session have been pushed after it (`Overtaken` goes by the order of the pushes), so it
always covers the newest turn of a session.

**Bounds.** Two turns give a draft and a confirmed record that may be near it;
two items per turn give an item that reconciles and one that is resolved
against its result; three records are the least with which an unprotected
record is superseded beside a protected one, so all verdicts are reached. Record
ids are bounded by `Records`: with 3 an insert may find none left, and the run then
waits or fails. In `contention` no record is protected from birth and what the items of
one run protect another has read before; two runs are the pair that can do all six
harms. A `forget()` in flight beside the runs is in `concurrent` and in `forget_race`. `MaxActive = 2` gives every pair of overlapping calls; in
`Scheduler` the bound `OneExplicit` makes one of the pair the job's, so that explicit
calls that follow each other cannot keep it from starting. In `adapters`, three ids
are two records and the successor of one, two widths the old and the new one; two
pages are listed when a failed append is retried beside another turn and an
archived record. The run has one session; that sessions do not disturb each other is
what `ReferencesKept` proves.
`MaxCopies = 2` lets a turn or a record be stored twice (a retry after an answer
that was lost); an OSS audit entry is written once per record, as its key holds the
time. Three entries and budgets around their costs reach every branch of both
packer passes. `ArmedIsProcessed` is checked with `Scopes = {None}`: a scoped call would
drop the turns of the others. The two halves of `adapters` share no state: a behaviour is one of
T1 or one of T0, and the model values that both halves use only serve the symmetry.

`SYMMETRY` permutes ids, runs, coroutines and widths, of which no definition
looks at more than equality. `scheduled` and `scheduler_paused` cannot use it, as
TLC's symmetry is unsound for liveness; there ids are numbers and the CONSTRAINT
`IdsInOrder` keeps those states in which ids are used in increasing order: each
state that is cut is a renaming of one that is kept. Deadlock is checked everywhere
except in `packer`, a loop that ends, and in `scheduler_paused`, where that the
system stops is the point: elsewhere an engine can always start a `consolidate()`.

**Fairness** (`Scheduler!SchedulerFairness`): weak fairness of each step of a call
that has started, because the event loop resumes every coroutine that can go on; weak
fairness of `Tick`, because the clock runs; strong fairness of `Fire`, because a
firing may be skipped or missed (APScheduler's defaults for `max_instances` and
`misfire_grace_time`), but not every one of them is. Nothing is assumed
about anybody calling `remember`, `consolidate`, `forget` or `evict`, nor about which
verdict or victims are chosen. Two premises stand in the properties instead:

- `Calm`, that nothing raises and the process does not die. A run that raises has
  lost the turns it drained, and an eviction whose archive call raised is not tried
  again; without `Calm` both properties that have it fail. `QueueDrains` does
  without: whatever raises, no turn stays *in the queue or in a run* for ever.
- `<>(job # "paused")`, that somebody consolidates once, and for `QueueDrains`,
  where a restart pauses the job again, that somebody does so in the last process.
  `scheduler_paused` shows that it is needed.

## 4. Where the code and its documents part

Each of these is a run that must fail; the counterexample is short.

| run | property | what happens |
|---|---|---|
| `forget_race` | `ProtectedStaysLive` | `forget()` (or an eviction) read a record before a consolidation run set its protected flag, and retires it afterwards. Records protected from birth are not affected (`SafetyClaimsKept`), and only an overtaken call does it (`ProtectedUnlessBehind`). |
| `scoped_drain` | `StagedNotLost` | `consolidate(user_id=...)` empties the shared queue and drops the other users' turns. |
| `sqlite_shared` | `SupersedeAtomic` | Another coroutine's `commit()` on the shared connection commits the first half of `supersede()`; a crash then leaves a record superseded by one that does not exist. |
| `postgres_lost` | `AckedOnDisk` | The version SELECT of `open()`, or any read, has opened a transaction: `upsert_with_vector()` and `supersede()` are savepoints in it and return uncommitted; a crash takes the record back. |
| `scheduler_paused` | `StagedIsProcessed` | `build_engine` adds the job so that "automatic consolidation is immediately active", but `next_run_time=None` adds it paused: until somebody consolidates, nothing does. |
| `recall_echo` | `SupersededStaysOut` | The turn of a superseded claim, still in the buffer, is returned by `recall()`. |

Met while modelling, without a run of their own:

- *A protected flag is cleared* (`core/consolidation.py` 345-358): the comment says that
  "consolidation can SET but NEVER CLEAR it". With two runs in flight it can: one reads the
  unprotected draft of its turn (a durable claim with `type_hint="fact"`), the other
  refines that draft with an allergy and protects it, and the first then writes the flag
  it computed from what it had read. The same instance, `contention`, reaches two runs
  that supersede the row both have read, two runs that mark it, losing one of the edges,
  and a run that evicts what another has made salient since the vault loop: these are the
  steps that are `Behind`.
- *A transaction is left open* (`adapters/vector_store/sqlite_t1.py` 374, 482): the comment
  of `supersede()` says "aiosqlite is autocommit by default (CR-02)" (288), but Python
  begins a transaction before each UPDATE and DELETE, and one that raises leaves it open.
  `update()` and `delete_vector()` have no handler, so the next `upsert_with_vector()` or
  `supersede()` is refused at its own BEGIN, once: its handler then rolls that transaction
  back. Nothing uncommitted is in it (`NothingPending`), so no data is at stake.
- *Claim order* (`core/consolidation.py` 376): an older staged turn is resolved
  against the draft of a newer one, which is already in T1, and may supersede it.
- *Unreadable types* (`core/consolidation.py` 355): reconciliation stores the LLM's
  `record_type` unchecked (the other paths guard it, IN-03); the row then makes every
  scan of its user raise. `concurrent` has such rows.
- *PROV-06*: `migrate.py` 7-10 says the startup assertion "refuses a silent flip" of
  the embedder, but `core/engine.py` 98 compares `embedder.dim` with the width
  `open()` was called with, both `config.embedder_dim`; an index of another width is
  kept by CREATE ... IF NOT EXISTS. The engine starts, and each insert raises and
  is rolled back. `adapters` has such engines.
- *OSS retries*: `oss_s3.py` 17-18 calls a retried append idempotent ("same offset
  key is overwritten"); a retry after a put whose answer was lost counts one object
  more and stores the turn twice. `RefKeepsTurn` holds nevertheless: the reference
  that is returned is that of the second copy.
- *Postgres migration*: `recreate_vector_store` is nested in the transaction that
  `open()` began, so the new width is on disk only once a vector was written
  (`MigratedWidth` says so).
- The docstring of `pack_records` says costs sum to at most the budget
  (`core/packer.py` 149-168), while protected records are kept beyond it (188-196,
  WR-03), which is what `OthersFit` states.
- RECALL-02 says *buffer-wins dedupe*
  (`src/.planning/milestones/v1.0-REQUIREMENTS.md:63`), while T1 wins
  (`core/recall.py` 139-144), as `NotInT1` has it.

## 5. What is proved

Every invariant, action property and refinement that a passing run checks is also the
conclusion of a theorem. The theorems hold for all constants that satisfy the named
assumptions of the modules (`StoresAssumption`, `ConsolidationAssumption`, ...: any
number of users, turns, records, runs and calls, any inputs and extractions, with or
without failures and crashes). Some need more, stated in the theorem:

| assumption | needed by | why |
|---|---|---|
| `IsFiniteSet(Turns)` | `DeliveredOnce`, `ScheduledDelivery` | the property counts turns, and `Cardinality` says nothing of an infinite set; a process stages finitely many |
| `Serialized` | `T1Proofs`, but for `MigrationTypes` | operations take turns on the shared connection. The code does not enforce it: `sqlite_shared` shows `SupersedeAtomic` failing without it |

No theorem on the engine bounds the calls in flight or excludes a failure or a crash.

### The engine

**MnemaTypeProofs.** `TypeCorrect`: `Spec => []TypeOK`. The induction is over
`TypeInv`, which adds what a run may assume at each program counter (that it
has a turn at hand, a near record, a scope). Lemmas on the drain say that it keeps each
turn of its scope (`DrainKeepsScope`) and no other (`DrainStaysInScope`), and repeats none
(`DrainKeepsOnce`).

**MnemaSafetyProofs**, whatever overlaps, fails or crashes: `SafetyClaims`,
`Successors`, `AuditTrail`, `Searchability`, and `ImplementsLedger`
(`Spec => LedgerSpec`, the refinement of `MemoryLedger`).

None of these invariants is inductive alone: a step acts on what its coroutine
*read earlier*. `IInv` adds, for each run, that the row it read exists, that the
snapshot shows the protected flag of a record born protected and that the
snapshot's supersedes edge is still the row's (`RunKnows`); for each
eviction, that no victim was born protected and that the steps taken so far still
hold (`VictimKnown`); and that a returned safety claim is pinned (`ClaimPinned`).
These facts survive the steps of the other coroutines because every step
satisfies `Grows`: rows never disappear, retired rows stay retired, supersedes
edges never change, an existing row never becomes pinned and never gets its
vector back, and the archive only grows. So the proof is a rely-guarantee
argument: one lemma for each kind of store step (`QuietStep`, `InsertStep`,
`RewriteStep`, `RetireStep`, `SupersedeStep`, `LogStep`) shows the store invariant,
`Grows` and a ledger step; `OthersKnow` carries every other coroutine's
knowledge across it; one lemma per verb applies them to each action.

`TenantsApart` (`TenantProvenance`) applies the same pattern a second time on top of
`IInv`: what a run knows is that the record it found near is of the user whose turn it
holds (`NearIsOwn`), which lasts because no step ever changes the owner of a row
(`UsersKept`); `EdgesExist` is needed because an edge to a row that does not exist yet
could come to point at another user's.

**DeliveryProofs**, whatever overlaps, fails or crashes:

- `DeliveredOnce` (`SingleDelivery`). `DeliveryInv` says where turns are without
  counting: the queue and the items of each run repeat nothing and share nothing, none
  of it is processed (`OncePlaced`), and all of it has been remembered
  (`OnlyRemembered`), so that `remember()` stages a turn that is nowhere yet. The
  cardinality of `Places` follows at the end (`OncePlacedIsSingle`).
- `DraftsAlone` (`DraftIsAlone`). A run looks for the draft of its turn first and
  writes a record for the turn awaits later. `DraftInv` adds that a run that resolves
  an item against near records knows its turn has no draft (`NoDraft`), and that the
  `remember()` of a row's turn is past its insert (`Recorded`): only `remember()` writes
  drafts, before it stages the turn, so none can appear once the turn is with a run.

- `ProtectedKept`, `ProtectionKept`, `SafetyPinned`, `SuccessorsUnique`, `TrailKept`,
  `PromotionFirst`: the six properties of `Contention`. `AwareInv` says, for each call and
  each record *nobody else has written since the call found it*, that the snapshot a run
  decides on is the row as it is (`Fresh`), that what the vault loop has been through is in
  the vault (`Swept`) and stays so while it is evicted (`Promoted`), and that no victim has
  become protected (`Unguarded`). A step of another call either leaves the record alone or
  moves it into `touched` (`AwareStands`), which is why `AwareInv` survives any overlap. The
  five action properties are the conjuncts of `RowsCared`, which every step satisfies for
  every record it is not behind on.
- `EvictionsLogged` (`EvictionsTracked`). Each step of an eviction hands its victim on to
  the next one, and the last one leaves it in both logs; `EvictorRests` says that a call
  that is not evicting has no victim to lose.
- `TurnsAccounted` (`TurnsTracked`). A drain moves a turn of its scope into the run
  (`DrainKeepsScope`), a finished turn is processed, and `RunRests` says that a run has
  worked through its turns when it leaves them: so it can end early only by raising.

**CompositionProofs.** The engine with its job implements `Mnema`
(`ScheduledIsMnema`) and so inherits the safety claims and the ledger
(`ScheduledSafety`), the user boundary (`ScheduledTenantsApart`) and the delivery of turns
(`ScheduledDelivery`). The engine with its readers implements it too (`RecallIsMnema`), and
more is proved of what a reader returns:

- `RecallTypes`, `RecallIsScoped`, `RetiredRecordsStayOut`. Their
  invariant `RecallInv` says what a call knows while it awaits: what it has found and
  fetched exists, is its user's and was not retired before the call. It lasts
  because rows stay, keep their user and never come back (`RowsKept`).
- `RememberedRecalled` (`RememberedIsRecalled`): whatever consolidation does to the record
  of a turn meanwhile, the buffer of its session is the end of the sequence of pushes
  (`BufferRecent`), so it holds the turn unless `BufferSize` others were pushed after it;
  and reading the buffer is recall's last step (`DueInv`).

### T1

**T1Proofs**, in three parts, for any ids, coroutines, widths and failing statements.

1. The SQLite adapter alone: `SqliteImplementsTable` (`SqliteSpec => TableSpec`),
   `SqliteNothingPending`, `SqliteAckedIsDurable`, `SqliteSupersedesWhole`. The
   committed tables say too little while an operation is under way, so `SInv` has,
   for each statement an operation may stand at, what it has done to the
   connection's view so far (`Progress`), that a coroutine at rest has left nothing behind
   (`AtRest`) and that the others are at rest (`OneAtATime`). A commit then is one step
   of `RecordTable`, and every other step a stutter.
2. The index, on either adapter and across engines, migrations and crashes:
   `MigrationTypes`, `EveryLiveRecordIndexed`, `IndexAsWideAsMigrated`. `MInv` says which
   tables may lack which vectors: none where no migration has touched the index
   (`Claimed`), those a script still has to re-embed where one has (`Rebuilt`), also
   in the state a savepoint would return to (`block.mark`).
3. The operations are whole, on either adapter and across all of these:
   `DatabaseImplementsTable`, `DatabaseImplementsBuffered` (`Spec => BufferedSpec`, the
   Postgres adapter), `DatabaseNothingPending`, `DatabaseAckedIsDurable`,
   `DatabaseSupersedesWhole`. `WInv` generalises `SInv` with `Whole`, the tables as
   the last whole operation left them: those on disk for SQLite; for Postgres those
   the connection sees, or saw when it entered the block it is in. Each step
   changes `Whole` by one operation or not at all, and moves the disk to `Whole` or not
   at all, except that a rollback or a crash takes `Whole` back to the disk (`WholeStep`).

`SupersedeAtomic` is the property `sqlite_shared` refutes for overlapping operations.

### T0 and the packer

**ObjectStoreProofs.** `ObjectStoreTypes`, `ReferencesKept`, `ReferencesResolve`. In
`T0Inv`, the numbers used in an orderly session are below the count of its
keys (`Numbered`), appends to it take turns until they have put their object
(`OneWrites`), and an append between its listing and its put knows that the number it
has counted is free (`AppendKnows`): one page at a time, it has seen all keys, and
nobody else has put one since. This is where pages and the cardinality of the key set meet.

**PackerProofs.** `PackerTypes`, `ProtectedSurvive`, `NothingLeft` from the loop
invariant `PackerInvariant`; `BudgetKept` (`OthersFit`) and `NoneDisplaced`
(`NoDisplacement`) by unfolding the sums along the ranking.

**RecursionLemmas.** The functions these proofs unfold (`InScope`, `Cost`, `Alone`) are
defined by recursion on a number. `RecursionSolved` shows for any step relation that such
a function exists and satisfies its equation, by taking a least number at which the
partial functions end; `StepwiseEqual` compares two. So no induction theorem that takes
an operator as a parameter is needed.

### Only model-checked

`ArmedIsProcessed`, `QueueDrains` and `EvictionCompletes`: the prover has no reasoning
about fairness and ENABLED.

## 6. What is not modelled, and why

- Overlapping `conn.transaction()` blocks on the Postgres connection: psycopg
  refuses blocks that are left out of their order, with effects that are the
  library's, not this code's. `PostgresT1` is for operations that take turns.
- COMMIT itself is assumed not to fail.
- Scores (`keep_score`, `re_rank`): real arithmetic; the models allow every outcome.
- The `access_count` / `last_accessed` update of recall: feeds only scores, and
  concurrent recalls lose increments.
- What a vector says: a refined or reconciled record keeps the vector of its old
  content; since any record may be near, the model cannot see it.
- `expand()` and `scope()` read or delegate; the MCP server binds a user id and
  delegates; LLM and embedding adapters have no state of their own.
- File formats, the vault's bullets and file lock, token counting, prompts, the
  choice of adapters, demo and evaluation.

## 7. Plan

Done: the engine core, its ledger and its scheduler; both T1 adapters and the
migration; both T0 stores; recall; the packer; the proofs above. What is left, in
order:

1. That the atomic port operations of `Stores` are what `RecordTable` promises, as a
   refinement of the engine's T1 steps.
2. Overlapping transaction blocks in `PostgresT1`.

## 8. Running

```
tlc -workers 2 -config MCConcurrent.cfg MCMnema      # and the other .cfg files
tlapm MnemaSafetyProofs.tla                          # and the other *Proofs modules
```
