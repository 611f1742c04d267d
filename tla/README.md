# Verification of kami-oracle

TLA+ models of the kami-oracle ingester, TLC configurations that check them on
small instances, and TLAPS proofs of their most important properties for every
instance. All paths below are relative to the repository root; every definition
that models code is tied to its lines by the `map` of `PROJECT.json`.

## 1. The system

kami-oracle tails the Yominet chain, decodes the transactions sent to
Kamigotchi's system contracts, and keeps a rolling window of them in one DuckDB
file, which an HTTP service lets people query. One process (`ingester.serve`)
runs everything: a poller thread, a prune thread, a `kami_static` thread and
the HTTP workers share a single database connection behind `Storage.lock`. A
second program, `ingester.backfill`, fills a range of older blocks while the
service is stopped.

| component | state it keeps | operations | hard behaviours | correct when |
|---|---|---|---|---|
| block ingestion (`ingest.py`) | the batches of one block, the last receipt | `process_block_range`: fetch, decode, pair amounts, resolve, upsert, set the cursor | exceptions and kills between any two statements; a receipt that cannot be fetched; blocks scanned again | nothing of a block is lost before its cursor is set |
| tables (`storage.py`, `schema.sql`) | `raw_tx`, `kami_action`, `ingest_cursor`, `system_address_snapshot`, `kami_static`, catalogs | inserts (first one wins), cursor (last one wins), prune, migrations | autocommit per statement; one lock for all threads | rows are stable, referenced rows exist |
| service (`serve.py`) | `next_block`, threads, stop event | boot, poll, retry, re-probe, prune, shutdown | retries, restarts, a thread that dies, a node that forgets blocks | the cursor never jumps a block and the poller catches up |
| backfill (`backfill.py`) | `cur` | chunk loop, resume after an exception, kill and rerun | resuming from a cursor that belongs to someone else | every block of the range is scanned |
| harvest resolver (`harvest_resolver.py`) | map harvest id to kami id | bootstrap, observe, stitch | map lost with the process; rescans with other knowledge; prune | no resolvable row stays without `kami_id` |
| prune (`prune.py`, `storage.py`) | -- | delete both tables below a cutoff | runs between two upserts of a block | the tables stay consistent inside the window |
| MUSU amounts (`musu.py`) | -- | find drained harvests in a receipt, give rows their amounts | wrong receipt, duplicate ids | an amount is of its own transaction, and drained once |
| decoder (`decoder.py`) | selector index built once | calldata to action rows | batches; systems learned later | one row per logical action, stable keys |
| RPC client (`chain_client.py`) | -- | retry with back-off | gives up, or is told the block is gone | -- |
| system registry (`system_registry.py`) | address to system, canonical pointer | resolve, probe history, extend | redeployments between two probes | no address forgotten; canonical = newest |
| kami_static (`kami_static.py`) | rows per kami, account cache | backfill, stale sweep with a worker pool | partial failures, cache staleness | each stale kami refreshed or still stale |
| query layer (`api.py`, `sql.py`) | lock, interrupt watcher | `/sql`, `/health`, reads | a late interrupt hits another statement | a query's timeout ends that query only |
| rate limiter (`ratelimit.py`) | counter per token | count and reject | window boundary | at most the limit per window |
| catalogs (`*_catalog.py`) | three tables | load if empty | crash between delete and insert | complete or empty |
| migrations and views (`migrations/`) | schema version | versioned, idempotent steps, by `bootstrap` or by hand | killed between two statements; repeated at every boot; location semantics | the recorded version is honest, what serves is complete |
| repair scripts (`scripts/backfill_*.py`) | -- | fill columns of stored rows | rows of an older release; cut short, repeated, in any order | every column says what the current decoder says, or NULL |
| HTTP client, configuration, deployment | -- | -- | -- | not modelled: stateless, or pure I/O |

Interaction: the poller calls `process_block_range`, which calls the RPC
client, decoder, `musu`, the resolver, and then `Storage`; the prune thread
calls `Storage.prune_older_than`; both wait for the same lock, and so does
every request. A `/sql` request starts a watcher thread that interrupts the
shared connection when its time is over -- whatever runs on it then. The
registry decides which transactions the poller sees at all. The resolver
lives in the poller's memory and is rebuilt from the tables at boot. What
survives a crash is exactly what an autocommitted statement wrote.

## 2. The modules

Ingestion:

    Chain  <-  Storage  <-  BlockRange  <-  Service   (INSTANCE Ledger)
                                        <-  Backfill
    RangeProofs (BlockRange)  <-  ServiceProofs (Service)
                              <-  BackfillProofs (Backfill)
    MCChain (Chain)  <-  MCService (Service), MCBackfill (Backfill)

What ingestion rests on, and what reads and repairs what it stored:

    Registry                         <-  MCRegistry, RegistryProofs
    RateLimit, Connection  <-  Query  <-  MCQuery, QueryProofs
    Decode  <-  Harvests              <-  MCHarvests, HarvestsProofs
    KamiStatic                       <-  MCKamiStatic, KamiStaticProofs
    Schema                           <-  MCSchema, SchemaProofs

**Chain** -- what ingestion reads. Block bodies, the action rows a transaction
decodes to, the receipt's status and the harvests its logs show drained are
constants: the code cannot influence them. A harvest id is the hash of a kami
id, so it is named by its kami. Transactions to unknown addresses are not in a
`Body` (`ingest.py:95-105`).

**Storage** -- `raw`, `act` and `cursor`, with one operator per SQL statement
(`ON CONFLICT DO NOTHING` is `InsertOrIgnore`, the cursor's `DO UPDATE` is
`SetCursor`, `PruneOlderThan` is one transaction). The columns of
`kami_action` that are a function of its key are not stored again; `amount` is
kept as its provenance, the transaction whose receipt it was read from.
Timestamps grow with block numbers, so a cutoff is a block number.

**BlockRange** -- `process_block_range` as a sub-machine. `pc` names the place:
`block` (before `get_block`), `tx` (inside the loop over transactions), `raw`
and `acts` (inside the two `executemany`s, one row per step, since each row
autocommits and other threads wait for `busy` to clear), `cursor` (before
`set_cursor`), `returned`, `raised`. `receipt` is the Python local with its
real lifetime: it outlives a transaction and a block, and is unbound at the
start of a call. `Raise` is any exception that leaves the call, `RaiseNotFound`
the one that a block pruned by the node gives every time.

**Service** -- the poller thread (`ReadCursor`, `Poll`, `RangeReturned`,
`RangeRaised`), the process (`Boot`, `Crash`, `DieAtStart`), the prune thread
(`Prune`, one transaction, when the lock is free) and the environment
(`NewBlock`, `TimePasses`, `NodePrunes`). A shutdown is a `Crash`: after its
joins time out the process ends wherever the poller is. The standalone
`poller.py` is the same loop without resolver and prune thread.
`origin` is a history variable: the first block a cursor was set for.

**Ledger** -- the abstract promise: rows are recorded, a mark moves, and it may
only be put on a block when every row from the first marked block up to it is
recorded or has expired. `Service` implements it under the refinement mapping
`L` (a raw_tx row is `<<t, 0>>`, an action row its key, the mark is the cursor).

**Backfill** -- the chunk loop around the same sub-machine, with `ResumeAt` the
advance from the database's cursor after an exception. The command starts on an
empty database, or on one an earlier run of the service left (`Priors`: where
it began and ended).

Not modelled in these: the outer `except` of the poller loop
(`serve.py:188-200`), since every statement below it that can raise has its own
handler; `gas`, timestamps and other payload columns; the unknown-selector
log file; back-off delays. The registry's re-probe, which the poller makes
between two ranges, is in `Registry`: here `Body` stands for the transactions to
known systems.

**Registry** -- `SystemRegistry` and `system_address_snapshot`. The chain is a
sequence of maps from a system to its address. `resolve_systems` is one
`ResolveSystem` per call, so that the chain may move between two; `Resolved` is
the return, with `extend`, and what the caller does next (`pc`): the next probe
height, `JoinPrior` with what earlier runs stored, or the rows to store, one
statement each. `ReprobeRaises` is the `except` of the poller's re-probe, which
keeps what was already extended. `ScanBlock` is what the registry and the decoder's
index, built once, let through of a block. The service and the backfill take
turns (`job`). Nothing the registry answers depends on the order of its entries,
so a registry is a function from addresses; where the code's order could matter
the model allows any: which row of an address `from_snapshot_rows` keeps, and in
which order an interrupted upsert writes.

**KamiStatic** -- the table, the sweep thread with its pool of workers
(`phase`), the collected rows (`pending`), the upsert row by row (`flush`), the
account cache, and the scripts `backfill_kami_static`, `_kami_build`,
`_account_names`, `_kami_modifiers` and `_kami_affinity`, each of which is the same
pass or a loop of updates, run while the service is down. A column holds the
version of the kami, or account, it was read from; what is computed from columns
holds the version of those.

**RateLimit** -- the fixed window per token. **Connection** -- DuckDB's
connection and `Storage.lock`: autocommit, a transaction, a statement that runs,
the flag an interrupt leaves. It is modelled as `storage.py` and `sql.py` use it.
**Query** -- requests from arrival to answer, the watchers of `/sql`, the
poller's writes, the prune transaction statement by statement, shutdown,
`storage.close` and restart. A request goes through the limiter, the token, the
route's checks, and then for each storage call waits for the lock. `late` counts
watchers that outlive the 0.1 s in which they are joined.

**Decode** -- `decode_tx` with the ABI overlay, the unwrapping of
`execute(bytes)`, the fan-out of batches and the column mapping for the four
harvest systems; `decode_musu_drains` and the pairing of its amounts with rows.
**Harvests** -- a game that plays by the rules (`Transact`), the rows its
transactions leave, the rows an older release left (`Legacy`), the five
statements of migration 002, the repair scripts, prune, and the view
`kami_current_location`.

**Schema** -- `bootstrap`: `schema.sql`, then the migrations the recorded version
asks for, each statement by statement with its version bump; then the three
catalogs with `ensure_loaded`, truncation and row by row load; migrations and
loaders run by hand. It starts from a new database or one of any earlier release.

## 3. The properties

Service:

- `CursorCovers` -- no data loss: every block from the first committed one up
  to the cursor is completely stored, unless it expired. Retries move the
  cursor back, crashes leave blocks half stored, prune sweeps run between the
  statements; none of it may let the cursor vouch for a partial block.
- `NothingInFlightLost` -- the same during a block: every row of the block in
  flight is in a batch or stored, an action row's raw_tx row goes first, and
  the poller never stands more than one block past the cursor.
- `OrphansAreExpired` -- an action row may lose its raw_tx row (prune between the
  two upserts) only when both have left the window.
- `UnresolvedMeansUnseen` -- a stop or collect row without `kami_id` has no row of
  the window in its own or an earlier block that names its kami. It relates
  the order inside a block, rescans, the rebuilt map and the prune sweep.
- `StoredRowsStable` -- no step changes a stored row; only expired ones go.
- `ImplementsLedger` -- the refinement.
- `CatchesUp` -- the poller reaches every block, unless its thread died before its
  loop or its next block left the node's retention. Both exceptions are real
  behaviours of the code (`serve.py:116-121`, `181-187`).
- `ExpiredGone` -- what left the window is eventually deleted, orphans included.

Backfill: `SkipsNothing` (every block of the range before `cur` is completely
stored) and `Finishes` (a run that is not killed ends, or stands at a block the
node has pruned).

Registry: `SeenIsTrue` (a stored range is true at both ends, through live reads
without a range, merges and reloads), `MemoryIsStored` (memory and table agree
unless an upsert failed), `LongLivedObserved` (what lived as long as two
neighbouring probes are apart is found -- it rests on the rounding and clamping
of `evenly_spaced_probes`), `ObservedIsIngested` (a deployment once stored is
ingested by every later program; decoded if its system was stored before the
program started), `SnapshotGrows` and `RedeploymentNoticed`.

KamiStatic: `NoResultLost` (each kami of a pass is in exactly one place),
`DerivedColumnsMatch` (columns computed from others match them, whoever wrote
either last), `RowsAreFresh` (a pass stores only what it read itself) and
`EveryKamiRefreshed` (in the end every row shows its kami's current state).

Query: `NoTransactionLeftOpen`, `PrunedTogether` (both from `storage.py:364-387`),
`InterruptsStay` (an interrupt hits a stranger's statement only if a watcher
outlived its join), `TwiceTheLimit` (the limiter's bound over any stretch of
one window) and `EveryoneServed`. `NoTransactionLeftOpen` has an exception that
the model found: `ROLLBACK` has no second try, so two watchers that outlive their
joins, one hitting a `DELETE` and one the `ROLLBACK`, leave a transaction open
into which every later write goes, until the process ends and loses it. It rests
on DuckDB honouring an interrupt during `ROLLBACK`, and the joins make it
improbable: no finding is made of it.

Harvests: `RowsAgreeWithDecoder` (migration 002, the scripts and the live decoder
fill the same columns with the same values), `MigrationLeavesNothing`,
`DrainsCreditedOnce` (MUSU is neither lost nor counted twice; its exceptions are
calls that name a harvest twice and the `bytes` form that is not unwrapped) and
`LocationIsRight` (the view against the chain, for kamis whose rows can tell; a
reverted call, a tolerated stop and two events of one second are what it cannot).

Schema: `VersionIsHonest`, `ServedSchemaComplete`, `CatalogsOfOneFile` (a catalog
is of one file unless its load was killed; then `ensure_loaded` keeps the part) and
`ServiceComesUp`.

## 4. The runs

The runs of the ingestion modules use the chain of `MCChain`: three blocks; a harvest started by a
reverted transaction; a batch of a collect and a stop whose kami is named only
later in the same block; a liquidation; a stop in a later block; a transaction
the decoder does not know. Three blocks are the least that give a range of two
(`MaxCatchup = 2`), a block after it, and a block that is scanned again after
its successor was committed.

| run | checks | bounds | states | shows |
|---|---|---|---|---|
| `ingest` | all of Service | 2 faults or kills | 108,070 | everything in section 3 holds |
| `backfill` | `SkipsNothing`, `Finishes` | 2 faults, chunks of 2, range 2..3, databases `Behind` | 5,696 | the backfill is complete when the cursor vouches for the range below it |
| `registry` | all of Registry | two systems, one redeployed; 2 blocks before the first start, 4 in all; 3 probes; 2 faults or backfills | 1,351,952 | the registry and its table, by both programs, with failures and restarts |
| `kami_static` | all of KamiStatic | two kamis with 1 and 2 versions, two accounts, 2 workers, batches of 2, 1 fault | 1,792,767 | the sweep and the five scripts |
| `query` | all of Query | two `/sql` requests and one for another route, limit 1 in 2 of 3 ticks, 2 late watchers, 1 kill or shutdown | 2,060,104 | interrupts, prune, shutdown and limiter on one connection |
| `harvest` | all of Harvests | two kamis, two nodes, eight calls, chains of 3 | 1,168,907 | decoder, migration, scripts and view agree |
| `schema` | all of Schema | releases 1 to 13 and a new database, CSV files of two versions, 2 kills, 1 run by hand | 724,054 | every path to the current schema |
| `account_cache` | `AccountNamesFresh` | as `kami_static`, no faults | violated | account names outlive their pass |
| `first_release` | `OldInstallsComeUp` | no kills, nothing by hand | violated | `schema.sql` cannot be run on the first release's database |
| `backfill_skip` | `SkipsNothing` | range 1..2, database ingested from 3 on (`Ahead`) | violated | one failed chunk skips the rest of the range |
| `fk_orphan` | `ActionHasRawTx` | 3 faults | violated | prune between the upserts leaves action rows without raw_tx row |
| `stale_receipt` | `AmountFromOwnReceipt` | 3 faults | violated | amounts are read from another transaction's receipt |

Bounds: `MaxFaults` counts exceptions from outside, failed receipts and kills;
two are enough for a failure in the recovery from a failure. `MaxBlock` ends the
chain; `expired` and `retained` never pass the head. The proofs need none of
these bounds to be small. No symmetry is used: the transactions differ.
Of the other runs: four blocks let a system be redeployed between the two first
blocks, and again while the service runs, and leave room for three distinct
probes; two workers and two kamis are the least with a race in the cache and a
full batch; three requests are the least for two stray watchers and a victim that
is not one of theirs; three transactions are a start, what ends it, and one
between or after; two kills are a kill in the recovery from a kill.

Fairness: `WF(PollerStep)` -- the thread runs, its RPC calls time out rather
than hang, and systemd restarts the process (`Restart=always`); `WF(Prune)` --
the prune loop never dies (its body is in a try) and the lock is always
released. Faults are not fair: they may never happen. `WF(BackfillStep)`
likewise. A backfill may be done or down for good, so its runs do not check
deadlock; the service's do. Registry: the process runs and its calls end
(`WF(RegistryStep)`), the poller polls and re-probes at its interval.
KamiStatic: the pass and the scripts go on, rows age, and `SF(Boot)`, since a
script run by hand may keep the service down only for a while. Query: `WF` of the
threads together is enough, as arrivals and faults are finite; that a `/sql`
query ends by itself is not assumed, its watcher ends it. Schema: `WF(Step)`.
KamiStatic, Query and Schema end in states where nothing more has to happen (a
service without its sweep thread, all requests answered, a service that is up), so
they do not check deadlock; `registry` and `harvest` do.

What Harvests leaves to other modules: every receipt comes (failures are in
BlockRange), a block is stored whole (crashes are in BlockRange and Service), and
the chain is one block ahead of a service that is up.

Each property of a passing run has a mutant of the code (the operators
commented `MUTANT`) that TLC shows to violate it.

## 5. What the violated runs show

- `backfill.py:241` continues behind the database's cursor after an exception.
  The comment above it assumes the cursor was set by this run. If the service
  ingested later blocks first -- the usual reason to backfill -- one failed
  `get_block` skips every remaining block and the command logs that it is
  complete.
- `schema.sql:42` calls `tx_hash` a foreign key and `storage.py:364-366` says
  prune cannot leave the tables stale against each other. While catching up
  through blocks older than the window it can, until the next sweep.
- `ingest.py:166` uses `receipt` after its fetch may have failed: the rows get
  amounts from the previous transaction's logs, or the range raises.
- The account cache is never emptied and its reader lives as long as the service:
  `README.md:62-64` promises the cadence of the other columns, and
  `kami_static.py:261-264` a cache per pass.
- `schema.sql:77` creates an index on a column that migration 002 adds, and
  `bootstrap` runs `schema.sql` first: it raises on a database of the first release
  at every start (`storage.py:77-79` says such installs are what migrations are
  for).

## 6. The proofs

Assumptions: `ChainAssumption`, `RangeAssumption`, `CatchupAssumption`,
`BackfillAssumption`, `RateLimitAssumption`, `QueryAssumption`, `KamiStaticAssumption`,
`SchemaAssumption`, `HarvestsAssumption`, `RegistryAssumption` -- types of the constants,
that `Body` and `BlockOf` agree, that the requests are finitely many and that `None` is
not a value -- and `OneSystemPerAddress`: the map that `getEntitiesWithValue` inverts gives
an address one system, and no contract is registered again as another one (for a
collision the code has a warning and no answer). TLC evaluates them in the passing runs.
Every safety property of section 3 is a theorem.

*RangeProofs* proves once what a step of `process_block_range` keeps, for both
callers: types (`RangeKeepsTypes`), that no row is changed (`RowsStay`), that
nothing falls between the batches and the tables (`FlowKept`), that the block
is whole when its cursor is set (`CommitsWholeBlock`), and that an action row
is added under its raw_tx row (`AddsUnderRaw`).

*ServiceProofs*: the inductive invariant is
`IInv == TypeOK /\ CursorCovers /\ NothingInFlightLost /\ OrphansAreExpired`.
`CursorCovers` alone is not inductive: at `set_cursor` one must know that the
block is stored, which needs the batches (`InFlight`, `Emptied`), and that no
block was jumped, which needs the poller's position (`NoJump`). For orphans one
must know that a raw row precedes its actions (`RawGoesFirst`). From `IInv`:
`TypeCorrect`, `CursorIsHonest`, `NoRowLost`, `OrphansExpired`, and the action
property `RowsAreStable`.

Refinement, in the same module: `ServiceImplementsLedger` -- `Init` maps to the ledger's initial
state, each step to `Record`, `Open`, `Mark`, `Expire`, `Drop` or a stutter.

The resolver, in the same module: `ResolverComplete`. The property is not inductive over `IInv`:
a later row could name the kami of an unresolved one if an earlier block were
scanned again. `RInv` adds what the resolver knows at each `pc` (`Knows`), that
the batch is of block `n` and whole (`BatchOfBlock`), and that an unresolved row
is not named between the lowest block that can be scanned again (`Floor`) and
its own (`Late`).

*BackfillProofs*: `BackfillSkipsNothing`, under `PriorsBehind` -- the earlier run
ended below the range or began at or below its first block. The violated run
`backfill_skip` shows that this assumption is needed.

*QueryProofs*: `TypeCorrect`, `PruneIsAtomic`, `NothingLeftOpen` and
`InterruptsStayHome`. None of the last three is inductive: whether a `DELETE` or the
`ROLLBACK` after it may be struck depends on how many watchers have outlived
their join and have not yet fired. `Counted` bounds those still to come, the one
that made the prune roll back and the one that is about to strike it by `late`;
`Watching` says whose watchers can still interrupt, `Flagged` whose interrupt the
connection has noted, `Transaction` where the prune is while one is open. It is the one
proof that counts threads, hence the finite set of requests. `AtMostTwice` is of the
limiter alone, which keeps one window start and one count per token and forgets the
rest. `Windows` says what the forgotten admissions satisfy: with `m` of them in the
open window, all others are older than its start, and all but the last `Limit` of those
by a whole window (`Recent`); so two admissions that are `2 * Limit` apart in order are a
window apart in time (`Spaced`).

*KamiStaticProofs*: `TypeCorrect`, and `DerivedMatch`, that columns computed from
others are those of the row they stand in. Only the invariant
`BuildOfUnbuilt` makes it so: `backfill_kami_build` writes the build without the
modifiers, which is right because the rows it chose had no build stamp when its
pass began, nobody else writes meanwhile, and a row with modifiers always has
the stamp (`Derived`). `Quiet` says that a pass starts with nothing left over.
`NothingLost` and `FreshRows` add the pool (`PoolInv`): a batch waits or is written,
never both (`OneBatch`); what is left of a pass is what workers, batch and upsert
hold (`Accounted`); and what a worker has read so far, or put into a batch, is not
older than the pass (`ReadSinceBase`), the cached account apart -- the columns that
`account_cache` shows to be stale are not among those `RowsAreFresh` speaks of.

*SchemaProofs*: `TypeCorrect`, `RecordedIsHonest`, `ServedIsComplete`,
`CatalogsWhole`. The invariant `InTurn` holds until a migration is run by hand
out of its turn: what is behind the recorded version, and behind the place where
`bootstrap` is, is applied; the statements of the migration in progress before
the current one have left what they add (`Done`). It covers the database whose
version is not recorded yet, for which every boot repeats every migration.

*HarvestsProofs*: `TypeCorrect`, `AgreesWithDecoder`, `NothingLeft`, `CreditedOnce`,
`LocationShown`. The constant calls are any that are well typed (`WellTyped`): any number
of kamis, arrays of any length, kamis named twice. `DecodeShape` says what `decode_tx`
makes of each kind of call. `RowsAgree` is `RowsAgreeWithDecoder` made inductive: the
stored rows are exactly those of the transactions scanned and not pruned, and each
column is that of `Fresh`, the row the current decoder and a full knowledge of the
starts would write, or NULL where a statement may still fill it (`Agrees`). Each
statement of the migration and each script keeps it, so their order does not
matter. `NothingLeft` needs the order: `Progress` says what each finished statement
leaves, and that the later ones keep it. `CreditedOnce` follows from `RowsAgree` and
`Receipts`, that the logs of a transaction are those of its call. For
`LocationShown`, `Link` says how a transaction moves a kami; a first one after the
event the view picks would contradict that it is the last (`Dormant`, `Unmoved`).

*RegistryProofs*: `TypeCorrect`, `SeenTrue`, `Remembered`, `LongLived`, `Ingested`,
`Grows`. The invariant joins `Seens` (entries and rows are true, in all three places
they live in), `Covers` (once the stored rows are joined, the registry includes each
of them with its range), `Saves` (what is not waiting to be written is written as it
is in memory), `Boot` and `Probing`. `Remembered` is where it matters that a live
resolve has no height: a re-probe that finds nothing new changes no range,
therefore need not store anything; and an upsert only makes a row equal to the
entry because the entry includes the row. `LongLived` is arithmetic: rounding moves a
probe by at most half a unit (`Rounding`), so two neighbours are at most `Spacing`
apart (`SpacedApart`) -- with no rounding at all when the range is a multiple of
`Probes - 1`, the case in which half a unit on either side would be one too many.
The proof is about exact division, where the code divides floating-point numbers;
block numbers are far below 2^53, but a quotient that is not a binary fraction is
rounded before `round` sees it, so at an exact half the code may take the other
neighbour. Both are within half a unit.

Where a property needs induction over a sequence -- the last event of a kami, the
first probe not below a height, the oldest admission -- the proofs take the least
element of a set of indices (`LeastElement`, from the well-foundedness of `<`), which
needs no operator parameter. It is stated in each of the three modules that use it,
as none of them extends another.

Only model-checked: liveness (`CatchesUp`, `ExpiredGone`, `Finishes`,
`RedeploymentNoticed`, `EveryKamiRefreshed`, `EveryoneServed`, `ServiceComesUp`),
which is out of the prover's reach.

## 7. Not modelled

- What the decoder makes of the systems other than the four of harvests, beyond a
  row per logical action (`Chain`): their columns take part in no property.
- The sums `compute_modifiers` makes of effects: `KamiStatic` keeps which build
  they are sums of.
- The text of the catalogs' CSV files, of the ABI overlay and of the views'
  other columns; ten columns of migration 004 and twelve of 005 are represented
  by three and two.
- `Retry-After` and the back-off delays: time is a tick, a wait any number of them.
- The canonical pointer of a system: an address that was resolved live counts as
  seen at block -1, so a past deployment found by a backfill stays the pointer,
  against the comment at `system_registry.py:145`. Only the `kami_static` reader
  uses it, when it is built.
- `poller.py --start/--end`, a one-shot range, and the read-only scripts.
- The values `/health` reads under several separate locks: the code promises no
  common moment for them.
- HTTP client, configuration, deployment and backup: stateless, pure I/O, or
  outside the program.
- A full disk and a corrupt DuckDB file: DuckDB is taken to keep what it commits.

## 8. Plan

Every safety property of the passing runs is proved. What would say more: a
refinement of `KamiStatic` by a table of versions that only grow, which is stronger
than `RowsAreFresh`, with the account cache as the one exception; a refinement of
`Harvests` in which a repair is a single step that fills columns with what the
decoder says. Their proofs rest on `PoolInv` and `RowsAgree`.
