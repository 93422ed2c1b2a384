------------------------------ MODULE KineLog ------------------------------
(***************************************************************************)
(* The revision log of pkg/kine/drivers/generic/generic.go: the single     *)
(* `kine` table, the write statements Create, Update, Delete, Fill and     *)
(* DeleteRevision issued through `execute` (with its retry loop and the    *)
(* optional write mutex), and Compact / tryCompact run by one or more      *)
(* compactors against the same table.                                      *)
(*                                                                         *)
(* Every SQL statement is one atomic step of the SQL engine; the actors    *)
(* (client calls and compactors) interleave between statements.  The      *)
(* engine may fail a statement with a retryable error before applying it   *)
(* ("fail") or, when it loses the answer to a statement it did apply,      *)
(* after applying it ("lost").  The lease column and span/metric calls    *)
(* are left out: nothing here reads them.                                  *)
(***************************************************************************)
EXTENDS Integers, FiniteSets, FiniteSetsExt

CONSTANTS
  Keys,            \* user keys (model values)
  Vals,            \* payloads (model values)
  Clients,         \* goroutines calling the Generic write methods
  Compactors,      \* compaction loops (one per k8s-dqlite node)
  NULL,            \* SQL NULL, also "no holder" of the write mutex
  CompactRevKey,   \* the name 'compact_rev_key' of the sentinel row
  MaxId,           \* bound: highest id the engine assigns in a run
  MaxRetries,      \* bound: stands for maxRetries = 500 (generic.go:137)
  Faults,          \* subset of {"fail", "lost"}: statement faults injected
  LockWrites,      \* Generic.LockWrites
  Ops,             \* the client operations exercised in a run
  CompactInterval  \* Generic.CompactInterval, in minutes

ASSUME MaxId \in Nat /\ MaxRetries \in Nat \ {0}
ASSUME Faults \subseteq {"fail", "lost"} /\ LockWrites \in BOOLEAN
ASSUME Ops \subseteq {"create", "update", "delete", "fill", "deleteRev", "legacyCreate"}

VARIABLES
  kine,       \* the set of rows of the kine table
  nextId,     \* the engine's AUTOINCREMENT sequence: id of the next insert
  history,    \* every row ever inserted (auxiliary, for the properties)
  cl,         \* per client: the call in progress and what it returned
  cp,         \* per compactor: the window of the Compact call in progress
  writeLock   \* holder of the embedded sync.Mutex of Generic, or NULL

vars == <<kine, nextId, history, cl, cp, writeLock>>

(* "gap-%d": distinct revisions give distinct names, none of them a key.  *)
GapName(rev) == <<"gap", rev>>

Names == Keys \cup {CompactRevKey} \cup {GapName(i) : i \in 1..MaxId}
Ids == 1..MaxId

Row == [id : Ids, name : Names, created : BOOLEAN, deleted : BOOLEAN,
        createRev : 0..MaxId, prevRev : 0..MaxId,
        value : Vals \cup {NULL}, oldValue : Vals \cup {NULL}]

OpKinds == {"create", "update", "delete", "fill", "deleteRev", "legacyCreate"}
Call == [kind : OpKinds, key : Keys \cup {NULL}, value : Vals \cup {NULL},
         rev : 0..MaxId]
Result == [ok : BOOLEAN, rev : 0..MaxId, err : {"none", "retry", "constraint"}]

-----------------------------------------------------------------------------
(* Queries over a table (a set of rows).                                   *)

RowsOf(tbl, name) == {r \in tbl : r.name = name}

(* SELECT MAX(id) ... WHERE name = ?, with NULL read as 0.                 *)
MaxIdOf(tbl, name) ==
  IF RowsOf(tbl, name) = {} THEN 0 ELSE Max({r.id : r \in RowsOf(tbl, name)})

RowById(tbl, i) == CHOOSE r \in tbl : r.id = i

(* revSQL: SELECT MAX(rkv.id) FROM kine, NULL scanned as 0.                *)
CurrentRevision(tbl) ==
  IF tbl = {} THEN 0 ELSE Max({r.id : r \in tbl})

(* revisionIntervalSQL "low": MAX(prev_revision) of the sentinel row.      *)
CompactRevision(tbl) ==
  IF RowsOf(tbl, CompactRevKey) = {} THEN 0
  ELSE Max({r.prevRev : r \in RowsOf(tbl, CompactRevKey)})

(* listSQL with `mkv.id <= ?`, for one key: the row with the greatest id  *)
(* <= rev, unless it is a tombstone and includeDeleted is false.          *)
ListAt(tbl, key, rev, includeDeleted) ==
  LET ids == {r.id : r \in {s \in RowsOf(tbl, key) : s.id <= rev}}
  IN  IF ids = {} THEN NULL
      ELSE IF RowById(tbl, Max(ids)).deleted /\ ~includeDeleted THEN NULL
      ELSE RowById(tbl, Max(ids))

-----------------------------------------------------------------------------
(* The write statements: the rows each INSERT ... SELECT materialises.     *)

(* Slip: the WHERE on the newest row (deleted or absent) dropped.          *)
CreateRowsUnguarded(tbl, id, key, value) ==
  {[id |-> id, name |-> key, created |-> TRUE, deleted |-> FALSE,
    createRev |-> 0, prevRev |-> MaxIdOf(tbl, key),
    value |-> value, oldValue |-> NULL]}

(* Slip: 0 AS prev_revision instead of COALESCE(id, 0).                    *)
CreateRowsZeroPrev(tbl, id, key, value) ==
  LET m == MaxIdOf(tbl, key)
  IN  IF m = 0 \/ RowById(tbl, m).deleted
      THEN {[id |-> id, name |-> key, created |-> TRUE, deleted |-> FALSE,
             createRev |-> 0, prevRev |-> 0,
             value |-> value, oldValue |-> NULL]}
      ELSE {}

(* CreateSQL: insert iff the key's newest row is a tombstone or absent.    *)
CreateRows(tbl, id, key, value) ==
  LET m == MaxIdOf(tbl, key)
  IN  IF m = 0 \/ RowById(tbl, m).deleted
      THEN {[id |-> id, name |-> key, created |-> TRUE, deleted |-> FALSE,
             createRev |-> 0, prevRev |-> m,
             value |-> value, oldValue |-> NULL]}
      ELSE {}

(* The CreateSQL of older peers, which tryCompact's comment says are still *)
(* running in mixed-version clusters: the same guard, but a new key's       *)
(* prev_revision is MAX(id) of the table instead of the key's last row.    *)
LegacyCreateRows(tbl, id, key, value) ==
  {[r EXCEPT !.prevRev = CurrentRevision(tbl)] : r \in CreateRows(tbl, id, key, value)}

(* CASE WHEN kine.created THEN id ELSE create_revision END                 *)
(* Slip: copying create_revision without the CASE.                        *)
CarriedCreateRevNoCase(r) == r.createRev

CarriedCreateRev(r) == IF r.created THEN r.id ELSE r.createRev

(* FROM kine WHERE id = (SELECT MAX(id) ... name = ?) AND deleted = 0      *)
(*   AND id = ?                                                            *)
CasRows(tbl, key, preRev) ==
  {r \in tbl : r.id = MaxIdOf(tbl, key) /\ ~r.deleted /\ r.id = preRev}

UpdateRows(tbl, id, key, value, preRev) ==
  {[id |-> id, name |-> key, created |-> FALSE, deleted |-> FALSE,
    createRev |-> CarriedCreateRev(r), prevRev |-> r.id,
    value |-> value, oldValue |-> r.value] : r \in CasRows(tbl, key, preRev)}

DeleteRows(tbl, id, key, preRev) ==
  {[id |-> id, name |-> r.name, created |-> FALSE, deleted |-> TRUE,
    createRev |-> CarriedCreateRev(r), prevRev |-> r.id,
    value |-> NULL, oldValue |-> r.value] : r \in CasRows(tbl, key, preRev)}

(* FillSQL with (revision, "gap-<rev>", 0, 1, 0, 0, 0, nil, nil).          *)
FillRow(rev) ==
  [id |-> rev, name |-> GapName(rev), created |-> FALSE, deleted |-> TRUE,
   createRev |-> 0, prevRev |-> 0, value |-> NULL, oldValue |-> NULL]

(* The effect of one ExecContext of a call's statement on the table:       *)
(* the new table, the new sequence, the rows inserted, and the error.      *)
Exec(tbl, seq, op) ==
  CASE op.kind = "create" ->
         LET ins == CreateRows(tbl, seq, op.key, op.value)
         IN  [tbl |-> tbl \cup ins, seq |-> IF ins = {} THEN seq ELSE seq + 1,
              ins |-> ins, err |-> "none"]
    [] op.kind = "legacyCreate" ->
         LET ins == LegacyCreateRows(tbl, seq, op.key, op.value)
         IN  [tbl |-> tbl \cup ins, seq |-> IF ins = {} THEN seq ELSE seq + 1,
              ins |-> ins, err |-> "none"]
    [] op.kind = "update" ->
         LET ins == UpdateRows(tbl, seq, op.key, op.value, op.rev)
         IN  [tbl |-> tbl \cup ins, seq |-> IF ins = {} THEN seq ELSE seq + 1,
              ins |-> ins, err |-> "none"]
    [] op.kind = "delete" ->
         LET ins == DeleteRows(tbl, seq, op.key, op.rev)
         IN  [tbl |-> tbl \cup ins, seq |-> IF ins = {} THEN seq ELSE seq + 1,
              ins |-> ins, err |-> "none"]
    [] op.kind = "fill" ->
         IF \E r \in tbl : r.id = op.rev    \* PRIMARY KEY violation
         THEN [tbl |-> tbl, seq |-> seq, ins |-> {}, err |-> "constraint"]
         ELSE [tbl |-> tbl \cup {FillRow(op.rev)},
               seq |-> Max({seq, op.rev + 1}),
               ins |-> {FillRow(op.rev)}, err |-> "none"]
    [] op.kind = "deleteRev" ->
         [tbl |-> {r \in tbl : r.id # op.rev}, seq |-> seq, ins |-> {},
          err |-> "none"]

-----------------------------------------------------------------------------
(* Compaction: the three statements of tryCompact's transaction.          *)

(* Slip: `id < ?` for the upper end of the window.                        *)
CompactWindowExclusive(tbl, start, end) == {r \in tbl : start < r.id /\ r.id < end}

CompactWindow(tbl, start, end) == {r \in tbl : start < r.id /\ r.id <= end}

(* DELETE ... WHERE id IN (SELECT prev_revision ... created = 0 ...)       *)
(* Slip: the first DELETE without `id <= ?`.                               *)
SupersededIdsUnbounded(tbl, start, end) ==
  {r.prevRev : r \in {s \in tbl : start < s.id /\ s.name # CompactRevKey
                                  /\ ~s.created /\ s.prevRev # 0}}

(* Slip: the `created = 0` condition dropped.                              *)
SupersededIdsAnyCreated(tbl, start, end) ==
  {r.prevRev : r \in {s \in CompactWindow(tbl, start, end) :
                        s.name # CompactRevKey /\ s.prevRev # 0}}

SupersededIds(tbl, start, end) ==
  {r.prevRev : r \in {s \in CompactWindow(tbl, start, end) :
                        s.name # CompactRevKey /\ ~s.created /\ s.prevRev # 0}}

(* DELETE FROM kine WHERE deleted = 1 AND ? < id AND id <= ?               *)
Tombstones(tbl, start, end) == {r \in CompactWindow(tbl, start, end) : r.deleted}

(* UpdateCompactSQL: SET prev_revision = max(prev_revision, ?).            *)
(* Slip: SET prev_revision = ? without max().                              *)
UpdateCompactOverwrite(r, end) == [r EXCEPT !.prevRev = end]

UpdateCompact(r, end) == [r EXCEPT !.prevRev = Max({r.prevRev, end})]

Compacted(tbl, start, end) ==
  LET kept == {r \in tbl : r.id \notin SupersededIds(tbl, start, end)}
                \ Tombstones(tbl, start, end)
  IN  {IF r.name = CompactRevKey THEN UpdateCompact(r, end) ELSE r : r \in kept}

(* GetCompactInterval: a non-positive interval falls back to 5 minutes.    *)
GetCompactInterval(interval) == IF interval > 0 THEN interval ELSE 5

-----------------------------------------------------------------------------
(* The sentinel row written when the schema is set up.                     *)
Sentinel ==
  [id |-> 1, name |-> CompactRevKey, created |-> FALSE, deleted |-> FALSE,
   createRev |-> 0, prevRev |-> 0, value |-> NULL, oldValue |-> NULL]

NoResult == [ok |-> FALSE, rev |-> 0, err |-> "none"]
IdleClient == [pc |-> "idle", op |-> [kind |-> "create", key |-> NULL,
               value |-> NULL, rev |-> 0],
               tries |-> 0, applied |-> FALSE, ret |-> NoResult]

IdleCompactor == [pc |-> "idle", start |-> 0, end |-> 0, tries |-> 0]

Init ==
  /\ kine = {Sentinel}
  /\ nextId = 2
  /\ history = {Sentinel}
  /\ cl = [c \in Clients |-> IdleClient]
  /\ cp = [c \in Compactors |-> IdleCompactor]
  /\ writeLock = NULL

-----------------------------------------------------------------------------
(* Client calls.  A call takes the write mutex (when LockWrites) and runs  *)
(* `execute`: attempt `tries` of the statement either applies it and      *)
(* returns, or fails retryably and is retried while tries < MaxRetries,   *)
(* or fails with a non-retryable error and returns it.  The method then   *)
(* turns RowsAffected = 0 into (0, false, nil) and otherwise returns       *)
(* LastInsertId.                                                           *)

Returned(res, ins) ==
  IF res.err # "none" THEN [ok |-> FALSE, rev |-> 0, err |-> res.err]
  ELSE IF ins = {} THEN [ok |-> FALSE, rev |-> 0, err |-> "none"]
  ELSE [ok |-> TRUE, rev |-> (CHOOSE r \in ins : TRUE).id, err |-> "none"]

(* Slip: one attempt too many, `retryCount <= maxRetries`.                 *)
CanRetryOffByOne(tries) == tries < MaxRetries

(* The retry loops run while retryCount < maxRetries: after a retryable   *)
(* failure of attempt `tries`, another attempt follows iff this holds.     *)
CanRetry(tries) == tries + 1 < MaxRetries

(* While a call is in flight under LockWrites its goroutine holds the     *)
(* mutex: execute defers the Unlock to its return.                         *)
TakeLock(c) == IF LockWrites THEN c ELSE NULL

(* One ExecContext of client c's statement, attempt number `tries`.        *)
Attempt(c, op, tries, applied) ==
  LET res == Exec(kine, nextId, op)
      Finish(done, ret) ==
        /\ cl' = [cl EXCEPT ![c] = [pc |-> "idle", op |-> op, tries |-> tries,
                                    applied |-> done, ret |-> ret]]
        /\ writeLock' = NULL
      Retry(done) ==
        IF CanRetry(tries)
        THEN /\ cl' = [cl EXCEPT ![c] = [pc |-> "exec", op |-> op,
                         tries |-> tries + 1, applied |-> done, ret |-> NoResult]]
             /\ writeLock' = TakeLock(c)
        ELSE Finish(done, [ok |-> FALSE, rev |-> 0, err |-> "retry"])
      Applied == applied \/ res.tbl # kine
  IN  \/ /\ kine' = res.tbl /\ nextId' = res.seq
         /\ history' = history \cup res.ins
         /\ Finish(Applied, Returned(res, res.ins))
      \/ /\ "fail" \in Faults
         /\ UNCHANGED <<kine, nextId, history>>
         /\ Retry(applied)
      \/ /\ "lost" \in Faults /\ res.err = "none"
         /\ kine' = res.tbl /\ nextId' = res.seq
         /\ history' = history \cup res.ins
         /\ Retry(Applied)

(* A new call: the statement's first attempt.  Inserting calls are only   *)
(* started while the id bound leaves room for every call in flight.       *)
StartCall(c, op) ==
  /\ cl[c].pc = "idle"
  /\ op.kind \in Ops
  /\ op.kind \in {"create", "update", "delete", "legacyCreate"} =>
       nextId + Cardinality({d \in Clients : cl[d].pc = "exec"}) <= MaxId
  /\ LockWrites => writeLock = NULL
  /\ Attempt(c, op, 0, FALSE)
  /\ UNCHANGED cp

Create(c, key, value) ==
  StartCall(c, [kind |-> "create", key |-> key, value |-> value, rev |-> 0])

Update(c, key, value, preRev) ==
  StartCall(c, [kind |-> "update", key |-> key, value |-> value, rev |-> preRev])

Delete(c, key, revision) ==
  StartCall(c, [kind |-> "delete", key |-> key, value |-> NULL, rev |-> revision])

(* Create issued by a peer running an older release.                       *)
LegacyCreate(c, key, value) ==
  StartCall(c, [kind |-> "legacyCreate", key |-> key, value |-> value, rev |-> 0])

Fill(c, revision) ==
  StartCall(c, [kind |-> "fill", key |-> NULL, value |-> NULL, rev |-> revision])

DeleteRevision(c, revision) ==
  StartCall(c, [kind |-> "deleteRev", key |-> NULL, value |-> NULL, rev |-> revision])

(* A retry of the statement inside execute's loop.                         *)
ExecuteRetry(c) ==
  /\ cl[c].pc = "exec"
  /\ Attempt(c, cl[c].op, cl[c].tries, cl[c].applied)
  /\ UNCHANGED cp

-----------------------------------------------------------------------------
(* Compactors.  Compact reads (compact, current) with GetCompactRevision,  *)
(* returns when there is nothing to compact, caps the target at current   *)
(* and then runs tryCompact's transaction until it commits, fails with a  *)
(* non-retryable error, or maxRetries attempts have failed.  The loop     *)
(* that calls Compact fires every GetCompactInterval().                   *)

Compact(c, revision) ==
  LET compactStart    == CompactRevision(kine)
      currentRevision == CurrentRevision(kine)
  IN  /\ cp[c].pc = "idle"
      /\ GetCompactInterval(CompactInterval) > 0
      /\ compactStart < revision
      /\ cp' = [cp EXCEPT ![c] = [pc |-> "compacting", start |-> compactStart,
                                  end |-> Min({revision, currentRevision}),
                                  tries |-> 0]]
      /\ UNCHANGED <<kine, nextId, history, cl, writeLock>>

(* One attempt of tryCompact's transaction; a failed transaction is rolled *)
(* back, a "lost" one committed although its Commit reported an error.     *)
TryCompact(c) ==
  LET w     == cp[c]
      after == Compacted(kine, w.start, w.end)
      Done  == cp' = [cp EXCEPT ![c] = IdleCompactor]
      Retry == IF CanRetry(w.tries)
               THEN cp' = [cp EXCEPT ![c].tries = w.tries + 1]
               ELSE Done
  IN  /\ w.pc = "compacting"
      /\ \/ kine' = after /\ Done
         \/ "fail" \in Faults /\ UNCHANGED kine /\ Retry
         \/ "lost" \in Faults /\ kine' = after /\ Retry
      /\ UNCHANGED <<nextId, history, cl, writeLock>>

-----------------------------------------------------------------------------
(* Revisions a client passes to Update, Delete: 0 or any revision of the   *)
(* key it may have read; to Fill, DeleteRevision: any id handed out.       *)
SeenRevs(key) == {0} \cup {r.id : r \in RowsOf(history, key)}

Next ==
  \/ \E c \in Clients :
       \/ \E k \in Keys, v \in Vals : Create(c, k, v) \/ LegacyCreate(c, k, v)
       \/ \E k \in Keys, v \in Vals : \E rev \in SeenRevs(k) : Update(c, k, v, rev)
       \/ \E k \in Keys : \E rev \in SeenRevs(k) : Delete(c, k, rev)
       \/ \E rev \in 1..(nextId - 1) : Fill(c, rev)
       \/ ExecuteRetry(c)
  \/ \E c \in Compactors :
       \/ \E rev \in Ids : Compact(c, rev)
       \/ TryCompact(c)

Spec == Init /\ [][Next]_vars

(* DeleteRevision deletes whatever row has the id it is given; it is kept  *)
(* out of Next, whose runs check MVCC properties that a caller deleting a *)
(* key's live row would break by design.                                   *)
NextDeleteRevision ==
  \/ Next
  \/ \E c \in Clients : \E rev \in 1..(nextId - 1) : DeleteRevision(c, rev)

SpecDeleteRevision == Init /\ [][NextDeleteRevision]_vars

-----------------------------------------------------------------------------
(* Properties.                                                             *)

TypeOK ==
  /\ kine \subseteq Row /\ history \subseteq Row
  /\ nextId \in 2..(MaxId + 1)
  /\ cl \in [Clients -> [pc : {"idle", "exec"}, op : Call, tries : 0..(MaxRetries - 1),
                         applied : BOOLEAN, ret : Result]]
  /\ cp \in [Compactors -> [pc : {"idle", "compacting"}, start : 0..MaxId,
                            end : 0..MaxId, tries : 0..(MaxRetries - 1)]]
  /\ writeLock \in Clients \cup {NULL}

(* The latest row of `key` in `tbl` strictly before id i (0 if none).      *)
PrevIdOf(tbl, key, i) ==
  LET ids == {r.id : r \in {s \in RowsOf(tbl, key) : s.id < i}}
  IN  IF ids = {} THEN 0 ELSE Max(ids)

(* Compaction never changes an MVCC read the code still serves: for every  *)
(* key and every revision from the compact watermark (GetCompactRevision)  *)
(* up to the newest, the live row List returns from the table is the one   *)
(* the full write history gives.  This is the spec's "Compact safety" law  *)
(* for tryCompact's two DELETEs racing client writes and other compactors. *)
ReadsSurviveCompaction ==
  \A k \in Keys : \A rev \in CompactRevision(kine)..(nextId - 1) :
    ListAt(kine, k, rev, FALSE) = ListAt(history, k, rev, FALSE)

(* Compaction removes all the history at or below the watermark except     *)
(* each key's live row at the watermark: no superseded row or tombstone of *)
(* a key survives a completed tryCompact, whatever windows stale Compact   *)
(* calls used.                                                             *)
CompactionComplete ==
  \A r \in kine :
    r.name \in Keys /\ r.id <= CompactRevision(kine) =>
      r = ListAt(history, r.name, CompactRevision(kine), FALSE)

(* The prev_revision a write stores is the key's immediately preceding row *)
(* in the history, and 0 only when every earlier row of the key lies at or *)
(* below the compact watermark: the MAX(id) subqueries of Create, Update   *)
(* and Delete still find the key's newest row after any compactions.       *)
PrevRevisionChain ==
  \A r \in history :
    r.name \in Keys =>
      IF r.prevRev # 0 THEN r.prevRev = PrevIdOf(history, r.name, r.id)
      ELSE PrevIdOf(history, r.name, r.id) <= CompactRevision(kine)

(* Every update and tombstone carries the id of the create that began the  *)
(* key's current life: the CASE in UpdateSQL/DeleteSQL carries it across  *)
(* any number of updates, deletes, re-creates and compactions.            *)
CreateRevisionRoot ==
  \A r \in history :
    r.name \in Keys /\ ~r.created =>
      r.createRev = Max({0} \cup {s.id : s \in {t \in RowsOf(history, r.name) :
                                                  t.created /\ t.id < r.id}})

(* The compact watermark never moves backwards: UpdateCompactSQL's        *)
(* max(prev_revision, ?) absorbs windows computed from stale reads.        *)
CompactRevisionMonotonic ==
  [][CompactRevision(kine') >= CompactRevision(kine)]_vars

(* The live version of `key` the table serves at the newest revision: the  *)
(* key's MAX(id) row unless it is a tombstone, with the create_revision    *)
(* List reports for it.                                                    *)
LiveVersion(tbl, key) ==
  LET m == MaxIdOf(tbl, key)
  IN  IF m = 0 \/ RowById(tbl, m).deleted THEN NULL
      ELSE [value |-> RowById(tbl, m).value,
            createRev |-> CarriedCreateRev(RowById(tbl, m)),
            modRev |-> m]

(* The refinement mapping: the store is what the table serves now, the    *)
(* last revision handed out is the sequence's last value, and the compact  *)
(* revision is the sentinel's prev_revision.                               *)
Abstract == INSTANCE KineAbstract WITH
              store <- [k \in Keys |-> LiveVersion(kine, k)],
              revision <- nextId - 1,
              compacted <- CompactRevision(kine)

(* The table, under concurrent CAS writes, fills, retried statements and   *)
(* compactions, implements the key/value store: every step that changes   *)
(* what a key reads is one legal Create (absent key, new life), Update     *)
(* (live key, same create_revision) or Delete taking the next revision,    *)
(* and a tryCompact changes no current read and never moves the watermark *)
(* back or past the last revision.                                         *)
RefinesKineAbstract == Abstract!ASpec

(* Spec section 8: for any rev >= compact_revision, List(prefix, "", 0,    *)
(* rev, true) returns for each key with a row <= rev the row with the     *)
(* greatest such id, tombstones included.                                  *)
ListWithTombstonesSurvivesCompaction ==
  \A k \in Keys : \A rev \in CompactRevision(kine)..(nextId - 1) :
    ListAt(kine, k, rev, TRUE) = ListAt(history, k, rev, TRUE)

(* Spec section 3, invariant 4: compact_revision <= current_revision.      *)
CompactNotAboveCurrent ==
  CompactRevision(kine) <= CurrentRevision(kine)

(* Spec section 4.4: ok=false from Create/Update/Delete without an error   *)
(* means the key was live or the CAS missed, i.e. the call wrote nothing.  *)
CasMissWritesNothing ==
  \A c \in Clients :
    /\ cl[c].pc = "idle" /\ cl[c].op.kind \in {"create", "update", "delete"}
    /\ ~cl[c].ret.ok /\ cl[c].ret.err = "none"
    => ~cl[c].applied

====
