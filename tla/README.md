# TLA+ models of k8s-dqlite's kine revision log

This directory holds TLA+ models of the storage engine in
`src/pkg/kine/drivers/generic/generic.go`, the TLC configurations that check
them, and `PROJECT.json`, which maps every model definition to the lines it
translates and lists the runs, mutants, findings and hazards.

## 1. Inventory of the system

| Part | Source | State it keeps | Operations |
|---|---|---|---|
| Revision log (the `kine` table) | generic.go:84-135, 298-362 | rows `(id, name, created, deleted, create_revision, prev_revision, lease, value, old_value)`; the sentinel row `compact_rev_key`, whose `prev_revision` is the compact watermark | CreateSQL, UpdateSQL, DeleteSQL (INSERT...SELECT with a CAS subquery), FillSQL (explicit id), DeleteRevSQL, UpdateCompactSQL |
| Write path | generic.go:419-461, 521-605, 730-742, 828-836 | per call: retry counter; `Generic`'s embedded mutex when `LockWrites` | `execute` (up to `maxRetries = 500` attempts, mutex held throughout), `Create`, `Update`, `Delete`, `Fill`, `DeleteRevision` |
| Read path | generic.go:382-417, 463-519, 697-728, 744-826 | none | `query` (same retry loop), `List`, `ListCurrent`, `Count`, `CountCurrent`, `CurrentRevision`, `GetCompactRevision`, `After`, `AfterPrefix`, `getPrefixRange` |
| Compactor | generic.go:607-695 | per call: the window `(compactStart, revision]`, retry counter | `Compact` (read, early return, cap at current), `tryCompact` (one transaction: two DELETEs and the watermark UPDATE) |
| Driver open | generic.go:190-264 | the `*sql.DB` handle | `Open` (300 rounds of `openAndTest`, 1 s waits, cancellation), `configureConnectionPooling`, `q` (parameter style) |
| Config getters | generic.go:862-881 | none | `GetCompactInterval`, `GetWatchQueryTimeout`, `GetPollInterval` |
| Command / lifecycle | src/unnamed/part_000 | the root context | start the server, wait for a signal or `MustStop`, cancel, `Shutdown` within 30 s |
| Telemetry | generic.go:27-82 | counters, spans | observational only |
| Not under src/ | (spec only) | poller cursor, subscriptions; prepared-statement cache; schema | watch/poll loop, gap filling, fan-out; statement cache; migrations |

**Interaction.** The API server (not in src/) calls the write and read methods
concurrently from many goroutines. Every k8s-dqlite node runs its own
compaction loop. All of them issue SQL to the same Raft-replicated database,
which runs each statement, and each transaction, atomically and in one total
order. The poller (not in src/) reads the table's tail with `After`. It calls
`Fill` for missing ids. The sentinel row is shared state between the
compactors and every reader of `GetCompactRevision`.

**What is hard.**
- Client calls interleave with each other at statement granularity.
- Compactors act on a `(compact, current)` pair read one statement earlier.
  By then other nodes' compactors and writers may have moved on.
- `execute` and `Compact` retry blindly. A statement or transaction whose
  commit succeeded but whose answer was lost runs again.
- Compaction deletes rows that a concurrent CAS, a later `Create` or a
  lagging poller still reasons about.

**What makes each part correct.**
- Log: every row's `prev_revision` is the key's preceding row, and
  `create_revision` is the key's current life's root.
- Compactor: an MVCC read at any revision at or above the watermark is
  unchanged. Everything else at or below the watermark is gone. The watermark
  never decreases and never passes the current revision.
- Write path: `ok=false` means nothing was written.
- Open: it fails cleanly after 300 rounds.
- Poller: events arrive in id order, gap rows are never delivered, only
  rows that compaction removed are ever missed, also across a restart of
  the poller's node and a re-watch, and the poller keeps catching up with
  the log.

## 2. Modules

### KineLog.tla: the table, the write path and the compactor

State:
- `kine`: the set of rows.
- `nextId`: the engine's AUTOINCREMENT sequence. This is spec-modelled: ids
  increase and are never reused.
- `history`: every row ever inserted. This is auxiliary and exists for the
  properties.
- `cl`: per client, the call in flight, its attempt number, whether it has
  changed the table yet, and what it returned.
- `cp`: per compactor, the window of the call in flight and its attempt number.
- `writeLock`: who holds `Generic`'s mutex.

| Code | Model |
|---|---|
| CreateSQL / UpdateSQL / DeleteSQL | `CreateRows`, `UpdateRows`, `DeleteRows`: the set of rows the SELECT materialises (0 or 1), with `CasRows` for `id = MAX(id) AND deleted = 0 AND id = ?` and `CarriedCreateRev` for the CASE |
| FillSQL, DeleteRevSQL | `FillRow`, and the `fill` / `deleteRev` arms of `Exec` (a primary-key collision is a non-retryable error) |
| `execute` loop | `StartCall` (first attempt, mutex taken) and `ExecuteRetry`, both through `Attempt`: the statement either applies and the call returns, or fails retryably before applying (`"fail"`), or applies but reports a retryable error (`"lost"`); `CanRetry` is `retryCount < maxRetries` |
| `Create`/`Update`/`Delete` result handling | `Returned`: RowsAffected 0 gives `(0, false, nil)`, otherwise LastInsertId |
| `Compact` | `Compact(c, revision)`: `GetCompactRevision` read, early return when `compactStart >= revision`, cap at current |
| `tryCompact` and its retry loop | `TryCompact(c)`: `Compacted` applies `SupersededIds`, `Tombstones` and `UpdateCompact` in one step; the outcomes are commit, rolled-back failure, and lost commit |
| `CurrentRevision`, `GetCompactRevision`, `List` | the operators `CurrentRevision`, `CompactRevision`, `ListAt` (the self-join with `id <= rev`, includeDeleted = false, for one key) |
| `GetCompactInterval` | guards `Compact` (the loop's ticker) |

Older releases: `LegacyCreate(c, key, value)` is a Create issued by a peer
running an older release. The comment at generic.go:659-668 says such peers
may still run. `LegacyCreateRows` is CreateSQL with the bug that comment
describes: a new key's `prev_revision` is `MAX(id)` of the table, read as the
whole table. The compactor_race run has this writer. There, the `created = 0`
condition of tryCompact's first DELETE is what keeps compaction from deleting
the row that `MAX(id)` happened to name, such as the sentinel or another key's
live row. Without legacy rows the guard is redundant: its mutant survives the
core run.

`DeleteRevision` is an action of `NextDeleteRevision` only. A caller that
deletes a key's live row breaks MVCC by design, so `Next`, whose runs check
MVCC properties, leaves it out.

### KineAbstract.tla: what the log promises

An etcd-style key/value store with no table, SQL or retries:
- `store`: per key, its live version (value, `createRev`, `modRev`) or NULL;
- `revision`: the last revision handed out;
- `compacted`: the compact revision.

`ACreate` (absent key, a new life), `AUpdate` (live key, same `createRev`) and
`ADelete` each take the next revision. `ACompact` raises `compacted` to at most
`revision` and changes no version. This module translates no code; it states the
contract of spec sections 3 and 4.

`KineLog` defines `Abstract == INSTANCE KineAbstract WITH` the mapping
- `store <- [k |-> LiveVersion(kine, k)]`: the key's MAX(id) row unless it is a
  tombstone, with the create_revision `List` reports (`CarriedCreateRev`);
- `revision <- nextId - 1` (not `CurrentRevision`, which a compaction of the
  newest tombstone lowers);
- `compacted <- CompactRevision(kine)`.

`RefinesKineAbstract == Abstract!ASpec` is a PROPERTY of the core run. Fills,
failed statements, CAS misses and compactions of superseded rows are
stuttering steps of the abstract store.

### KineOpen.tla: `Open`

`Open`'s loop has these steps:
- `OpenAndTest`: `sql.Open` and three Pings.
- `WaitRetry`: the select on `ctx.Done()` or a 1 s timer.
- `LoopExhausted`: the loop's exit after 300 rounds.
- `ConfigurePool`: `configureConnectionPooling` on the handle left over.

### Lifecycle.tla: the root command's Run (src/unnamed/part_000)

| Code | Model |
|---|---|
| `server.New`, `Fatal` | `ServerNew`: to `start` or `fatal` |
| `context.WithCancel`, `server.Start`, `Fatal` | `ServerStart`: `started` or `fatal` |
| `make(chan os.Signal, 1)`, four `signal.Notify` calls | `Notify`, one call per step (`registered` counts them, `AllRegistered` ends the sequence) |
| Go runtime signal delivery | `Signal(s)`: an unregistered signal takes the Go runtime's default disposition, which ends the process (`killed`) for SIGINT, SIGTERM and SIGQUIT (`DefaultKills`) and ignores SIGPWR; a registered one (`Registered`) is buffered if `ChanAccepts`, otherwise dropped |
| `server.MustStop()` (pkg/server, spec-modelled) | `MustStop`, any time after Start |
| `select`, `cancel()` | `SelectStop` |
| `server.Shutdown(stopCtx)`, 30 s, `Fatal` | `Shutdown`: `exited` or `fatal` |

### SqlStatements.tla: statement text and arguments

Strings are sequences of byte values. Of a SQL template only its placeholders
matter, so `Template(k)` is k `?` separated by filler bytes. The counts come
from each statement in generic.go. Keys are strings of at most four bytes over
`.`, `/`, `0` and `a`.

| Code | Model |
|---|---|
| `q` with its early return, the `ReplaceAllStringFunc` closure and `strconv.Itoa` | `Q`, `QFrom` (RECURSIVE, left to right, counter `n`), `Itoa` |
| the `Generic` SQL fields Open fills | `GetCurrentSQL` ... `FillSQL` (`Rewritten(k)`) |
| `getPrefixRange`, `start = startKey + "\x01"` | `GetPrefixRange`, `StartAfter`, `ReadRange` |
| `fmt.Sprintf("%s LIMIT ?", sql)` | `WithLimit` |
| each method's `d.query` / `d.execute` / `tx.ExecContext` calls | one action per method (`ListCurrent`, `List`, `Count`, `CountCurrent`, `AfterPrefix`, `After`, `CurrentRevision`, `GetCompactRevision`, `Writes`, `TryCompact`), recording the request in `call` and the statements in `sent` |

The properties compare with reference definitions:
- `Bind` is the engine's placeholder numbering. In SQLite a bare `?` is the
  largest index so far plus one and `?NNN` is NNN. In PostgreSQL `$NNN` is
  NNN and `?` is not a parameter.
- `LexLess` and `InRange` are binary-collation comparison and the
  `name >= ? AND name < ?` filter.
- `Wanted` is the keys a read asks for: the keys under a `/` prefix, or the
  one named key, and after a startKey only later keys.

Only callers outside src/ supply startKey. It is the last key of the previous
page of the same listing, so it lies under the prefix (`StartKeyOf`). An
unconstrained startKey widens the range beyond the prefix, because the
override replaces `start` without intersecting it with the prefix range.

### KinePoller.tla: the watch poller (spec section 4.6), composed with KineLog

The poller is not under src/, so its loop is modelled from the spec. It
reaches the table only through code that is under src/: `After` (AfterSQL,
`ORDER BY id ASC` plus `LIMIT ?`), `CurrentRevision`, `Fill` (through
KineLog's `Exec`) and `IsFill`. The module EXTENDS KineLog. KineLog's `Next`
runs beside the poller's steps, and the poller's variables stay unchanged in
those steps.

State:
- `lastSeen`: the poller's `last_seen_id`.
- `ppc`: the poller's step, one of poll, gap check, or fill.
- `fillNext`, `fillEnd`: the gap loop's position and the current revision it
  read.
- `fillTries`: execute's `retryCount` for the Fill in flight.
- `delivered`: everything the client received, over all its subscriptions.
- `watchRev`: the startRev of the client's current subscription.
- `watchEnd`: NULL, or the startRev of a re-watch refused with Compacted.
- `restarts`: restarts of the poller's node so far, bounded by `MaxRestarts`.

| Spec / code | Model |
|---|---|
| tick: `After(last_seen_id, batch_limit)`, events for non-gap rows, advance `last_seen_id`, re-poll at once when capped | `PollAfter`, with `AfterRows` (generic.go:819-826), `IsFill` (834-836), `LastSeenAfter` |
| gap handling: no rows seen, `CurrentRevision() > last_seen_id` | `CheckGap`, `GapEnd` |
| `Fill(last_seen_id+1 .. current)` through execute's retry loop (generic.go:828-832, 437-456); a failed statement is retried, a lost answer is retried and then collides with its own row, and any error ends the loop (spec section 9) | `FillGap` |
| route only events with id > the subscription's startRev (spec 4.6 step 4) | `WatchWants` |
| node restart: the poller starts again from the lowest startRev - 1 and the client re-watches from the last revision it received; a startRev below the compact revision is refused with Compacted (spec 4.6 Architecture, Compaction interaction) | `Restart`, `ResumeFrom` |

Time is not modelled. A poll that times out changes nothing, so it is the
same as a later tick.

## 3. Runs

| Run | Cfg | Expect | What it shows |
|---|---|---|---|
| core | MCKineLog.cfg | pass | Two clients do Create, CAS Update and Delete with revisions they may have read, and Fill any issued id. One compactor compacts to any revision. Both fault kinds are on. MVCC reads at or above the watermark match the history (`ReadsSurviveCompaction`). The prev_revision chain holds (`PrevRevisionChain`). create_revision is the life's root (`CreateRevisionRoot`). The table implements `KineAbstract` (`RefinesKineAbstract`). |
| compactor_race | MCKineLogRace.cfg | pass | Two compactors work on stale reads, with one writer of an older release under `LockWrites`. Its creates store `prev_revision = MAX(id)`, and the `created = 0` guard must keep compaction from following them. Compaction leaves exactly each key's live row at or below the watermark (`CompactionComplete`). The watermark never decreases (`CompactRevisionMonotonic`). Reads survive. |
| compact_above_current | MCKineLogCompactAboveCurrent.cfg | violation | Create, Delete, then Compact(current) deletes the newest row. The watermark becomes 3 while MAX(id) is 1. |
| ambiguous_retry | MCKineLogAmbiguousRetry.cfg | violation | A Create commits and its answer is lost. The retry finds the key live, and the call returns `ok=false, nil`. |
| delete_sentinel | MCKineLogSentinel.cfg | violation | Compact, then `DeleteRevision(1)`, deletes the sentinel. The watermark drops to 0. |
| open_exhausted | MCKineOpen.cfg | violation | 300 failed rounds are followed by `configureConnectionPooling(nil)`. |
| list_deleted_after_compact | MCKineLogListDeleted.cfg | violation | Create, Delete, Compact to the tombstone: `List(..., rev = compact, includeDeleted = true)` no longer returns the key's tombstone, which spec section 8 promises for every rev at or above the compact revision. |
| sql_statements | MCSqlStatements.cfg | pass | Under SQLite's `?` and `?NNN` styles, every statement of every method binds exactly its arguments in order (`ParamsBindArgs`). Every ranged read selects exactly the requested keys (`RangeSelectsRequestedKeys`). |
| dollar_style | MCSqlStatementsDollar.cfg | violation | Under `$N`, the `LIMIT ?` appended after `q()` leaves a bare `?` after `$1..$k` (TLC's trace: ListCurrent with a limit). tryCompact's two DELETEs are passed as literals with `?` and never go through `q()` either; the trace stops at the first violation, so that half is read from lines 669-689, not shown by the run. |
| lifecycle | MCLifecycle.cfg | pass | With up to four signals at any point and MustStop, a caught signal or MustStop always ends the process (`StopRequestEndsProcess`, under fairness). Once the four signals are registered, nothing unregisters them, so a later signal is swallowed and a second Ctrl-C cannot interrupt a slow Shutdown; this follows from the code's shape and is not a checked property. |
| poller | MCKinePoller.cfg | pass | The poller tails the table with batches of one row, and runs its gap loop from a stale `CurrentRevision`. Meanwhile a client writes and a compactor compacts behind or past it. Fills go through execute's retries with failed and lost statements, and the poller's node may restart once, after which the client re-watches from the last revision it received. Events arrive once each, in strictly increasing id order, only for key rows, and every write the stream has reached is delivered unless compaction removed it first (`WatchStreamFaithful`). `last_seen_id` reaches the current revision again and again (`PollerCatchesUp`, under weak fairness of the poller). |
| early_signal | MCLifecycleEarlySignal.cfg | violation | Start succeeds and a SIGTERM (or SIGINT, SIGQUIT) arrives before the Notify calls: the started server is killed by the default disposition, without cancel or Shutdown. A SIGPWR there is ignored, and the stop it asked for is lost. |

Each property of a passing run has a mutant in `PROJECT.json`: a plausible
slip in a mapped definition that TLC catches under that run's cfg. The slips
are:
- one retry too many;
- the first or second DELETE's window bound wrong or missing;
- `0 AS prev_revision` in CreateSQL;
- the create_revision CASE dropped;
- `SET prev_revision = ?` without `max()`;
- CreateSQL without its `WHERE maxkv.deleted = 1 OR id IS NULL`;
- an unbuffered signal channel (the classic `signal.Notify` misuse);
- one Notify step too many;
- `q()`'s counter not incremented;
- startKey used as an inclusive start;
- tryCompact's first DELETE without `created = 0` (caught only with legacy
  rows);
- AfterSQL ordered `DESC`, so the LIMIT keeps the newest rows;
- `last_seen_id` advanced past events only, not past gap rows (the poller
  then stalls on a gap row);
- the gap loop running through current + 1;
- a subscription that also routes the event at its startRev (a duplicate
  after a re-watch);
- the restarted poller starting from `CurrentRevision()` instead of
  startRev - 1 (the writes made while it was down are lost).

### Bounds and why they suffice

- One key and one value. Every property is per key, and values only flow into
  `old_value`. With two keys the core run takes about 4 minutes and the race
  run about 8, for no case a single key (plus the sentinel, which a legacy
  create's `MAX(id)` can point at) does not already reach.
- Ids up to 5: the sentinel plus four writes. That covers create → update →
  delete → re-create, or create → delete with two compactions in between.
- `MaxRetries = 2` for 500. This allows one failed attempt and its retry, and a
  loop that gives up.
- Two clients, which is enough for a CAS race. One or two compactors: two are
  enough for a stale window to commit after a newer one.
- `VIEW MCView` ignores what an idle client last returned. No later step reads
  it.
- `SYMMETRY` over clients and over compactors. All properties are symmetric in
  them.
- `Open` is checked with its real bound of 300.
- SqlStatements:
  - Six prefixes: empty, `a`, `/`, `a/`, `/a`, `/a/`. These are both arms of
    `getPrefixRange`, including the empty prefix.
  - Four startKeys under `/` and `/a/`, and the empty one.
  - Limits 0 and 2, and one revision.
  - Every key of up to four bytes over `.`, `/`, `0`, `a`. That is 341 keys,
    and among them are keys one byte below, at and above each range bound.
  - The placeholder counts are those of the source, up to Fill's nine. Itoa
    therefore only produces one-digit numbers.

- Poller: one client, one compactor, ids up to 4, both fault kinds,
  `MaxRetries = 2`, batch limit 1, one restart. With a limit of 1, every
  batch that sees two rows is capped. Each of these cases is reached (checked
  by turning it into an invariant and seeing TLC violate it): a Fill on an id
  whose row compaction removed succeeds; a Fill on an id a write took after
  the empty poll collides; a Fill is retried; compaction removes a row the
  poller has not read; a re-watch after delivery resumes and receives later
  writes; a re-watch below the watermark is refused. Ids up to 5 with faults
  and a restart take about 20 minutes, so the run stays at 4.

### Fairness

`Lifecycle` assumes weak fairness of Run's own steps (New, Start, Notify,
the select, Shutdown). Run is an ordinary goroutine that the Go scheduler does
not starve, and Shutdown runs under a 30 s context, which the model takes to
be honoured. That is an assumption about pkg/server: since no Notify is ever
undone, no signal could end a Shutdown that overruns it. Signals and MustStop come from outside and have no
fairness. The process may wait forever in the select, so deadlock is not
checked there. KinePoller assumes weak fairness of the poller's steps. The poller is one
goroutine that loops for the life of the process. Clients, compactors and
restarts get no fairness. The KineLog properties are all safety properties.

Lifecycle's bound is four signals, one per kind or repeats. This covers a
signal before registration, a buffered one, one dropped by a full channel,
and signals that arrive during Shutdown.

## 4. Not modelled, and why

- Telemetry: it is observational only.
- The prepared-statement cache and the schema are not under src/. The schema's
  sentinel row is the spec-modelled initial state.
- The pool parameters of `configureConnectionPooling`: they tune database/sql
  and change nothing the models observe.
- String collation other than binary. PostgreSQL under a non-C locale orders
  names differently, and `RangeSelectsRequestedKeys` assumes byte order.
- The lease column: nothing reads it.
- A subscription made while the poller runs, with a startRev below
  `last_seen_id`. The spec sets `last_seen_id` from the subscribers' startRevs
  only at startup, and the shared poller never reads backwards, so such a
  subscription would miss the events between its startRev and
  `last_seen_id`, against section 8's "starting at the least id > s". The
  spec does not say how the poller serves it, so there is nothing to model;
  the restart's re-watch, which restarts the poller too, is modelled.
- Poller: several subscriptions with different prefixes (the restart's
  re-watch is the one late subscription modelled), the bounded delivery buffer and slow-consumer
  termination, and the poll timeout. The spec does not say what a subscription
  gets when compaction removes rows the poller has not read.
  `WatchStreamFaithful` allows exactly that loss and nothing else.
- `GetCompactInterval` turns a non-positive interval into 5 minutes, while
  spec sections 4.5 and 6 say such an interval disables compaction. This is
  visible from one line and needs no run.
- `Count` and `List` at a revision below the compact revision: neither
  method reads the compact revision, so both run their SELECT and answer from
  a table compaction has already thinned (after scenario 4's `Compact(3)`,
  `List(..., rev=2, ...)` returns no row for foo), where spec sections 4.4 and
  8 say `Compacted`. The check is absent from the code, which a reading of
  the two methods shows; `ReadsSurviveCompaction` covers every revision at or
  above the watermark.
- How long a writer waits: `execute` retries with no backoff, holding the
  write mutex under LockWrites for all 500 attempts. The models are untimed.
- Update or Delete with expected revision 0 never matches a row, since ids
  start at 1. This follows from the SQL and needs no state exploration.
- CI workflows and docs have no runtime behaviour.

## 5. Plan

1. **Done: KineLog.** The table, the write path with retries and the mutex,
   Compact/tryCompact with racing compactors. Safety properties are above.
2. **Done: KineOpen.** The open loop.
3. **Done: KineAbstract + refinement.** The key/value store at the current
   revision, with create/mod revisions and the compact revision, checked as a
   PROPERTY of the core run. MVCC reads at older revisions stay with the
   invariant `ReadsSurviveCompaction`.
4. **Done in part: KinePoller.** The poller with one subscription, batches,
   gap check and Fill loop through execute's retries, composed with writes
   and compaction, and a node restart with re-watch. Still open: several
   subscriptions with prefixes.
5. **Done: SqlStatements.** `getPrefixRange`, the startKey override, `q()`
   and the LIMIT suffix, checked against reference definitions.
6. **Done: Lifecycle** (src/unnamed/part_000). The signal/MustStop select,
   cancel and the Shutdown budget.
7. **Client-level reads.** `List`/`Count` as client actions with results, for
   Create-then-Get and for Update with expected revision 0.
