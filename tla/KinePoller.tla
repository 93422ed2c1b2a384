----------------------------- MODULE KinePoller -----------------------------
(***************************************************************************)
(* The watch poller of spec section 4.6 composed with the revision log of  *)
(* KineLog.  The poller itself is not under src/; it is modelled from the  *)
(* spec, and it reaches the table only through the code that is: After     *)
(* (AfterSQL with `LIMIT ?`), CurrentRevision (revSQL), Fill (FillSQL) and *)
(* IsFill.  One subscription, made at startup with startRev equal to the   *)
(* current revision, receives every event the poller routes (one prefix    *)
(* covering all keys).  The poller's node may restart: its watch streams   *)
(* break and the client watches again from the last revision it received. *)
(* Ticks are not timed: a poll that times out changes nothing and is the   *)
(* same as a later tick.                                                   *)
(***************************************************************************)
EXTENDS KineLog, SequencesExt

CONSTANTS
  BatchLimit,  \* batch_limit passed to After
  MaxRestarts  \* bound: restarts of the poller's node in a run

ASSUME BatchLimit \in Nat \ {0} /\ MaxRestarts \in Nat
(* The poller's Fill takes no part in the write mutex here.                *)
ASSUME ~LockWrites

VARIABLES
  lastSeen,    \* the poller's last_seen_id
  ppc,         \* the poller's step: "poll", "gap" (read current) or "fill"
  fillNext,    \* next id of the Fill(last_seen_id+1 .. current) loop
  fillEnd,     \* the current revision that loop read
  fillTries,   \* execute's retryCount for the Fill in flight
  delivered,   \* the events the client received, in delivery order, over
               \* all its subscriptions
  watchRev,    \* startRev of the client's current subscription
  watchEnd,    \* NULL, or the startRev a re-watch was refused with Compacted
  restarts     \* restarts of the poller's node so far

pollVars == <<lastSeen, ppc, fillNext, fillEnd, fillTries, delivered,
              watchRev, watchEnd, restarts>>
allVars == <<vars, pollVars>>

(* The subscription made at startup: startRev is the current revision of   *)
(* the freshly set-up table.                                               *)
WatchStart == CurrentRevision({Sentinel})

(* IsFill: the name has the "gap-" prefix.                                 *)
IsFill(r) == r.name \in {GapName(i) : i \in Ids}

(* Slip: an event at the subscription's startRev is routed too.           *)
WatchWantsInclusive(r, startRev) == r.id >= startRev

(* Spec 4.6 step 4: events whose id <= the subscription's startRev are     *)
(* dropped.                                                                *)
WatchWants(r, startRev) == r.id > startRev

(* Slip: ORDER BY kv.id DESC, so the LIMIT keeps the newest rows.          *)
AfterRowsDescending(tbl, rev, limit) ==
  LET rows == {r \in tbl : r.id > rev}
  IN  {r \in rows : Cardinality({s \in rows : s.id > r.id}) < limit}

(* After(rev, limit): AfterSQL, WHERE kv.id > ? ORDER BY kv.id ASC, with   *)
(* " LIMIT ?" appended when limit > 0.                                      *)
AfterRows(tbl, rev, limit) ==
  LET rows == {r \in tbl : r.id > rev}
  IN  IF limit = 0 THEN rows
      ELSE {r \in rows : Cardinality({s \in rows : s.id < r.id}) < limit}

(* Slip: last_seen_id advanced past the routed events only, not past the   *)
(* gap rows of the batch.                                                  *)
LastSeenAfterEvents(last, batch) ==
  Max({last} \cup {r.id : r \in {s \in batch : ~IsFill(s)}})

(* Spec 4.6 step 3 and section 6: last_seen_id advances to the greatest id *)
(* observed, gap rows included.                                            *)
LastSeenAfter(last, batch) == Max({last} \cup {r.id : r \in batch})

PInit ==
  /\ Init
  /\ lastSeen = WatchStart
  /\ ppc = "poll"
  /\ fillNext = 0
  /\ fillEnd = 0
  /\ fillTries = 0
  /\ delivered = <<>>
  /\ watchRev = WatchStart
  /\ watchEnd = NULL
  /\ restarts = 0

(* One tick: After(last_seen_id, batch_limit), an event for every row that *)
(* is not a gap row, in id order, to the subscription if it is open and    *)
(* wants it, and last_seen_id advanced.  A capped batch is followed at     *)
(* once by another poll, a partial one by the next tick's poll; a tick     *)
(* that saw no rows goes on to the gap check.                              *)
PollAfter ==
  LET batch  == AfterRows(kine, lastSeen, BatchLimit)
      routed == {r \in batch : ~IsFill(r) /\ WatchWants(r, watchRev)
                               /\ watchEnd = NULL}
  IN  /\ ppc = "poll"
      /\ delivered' = delivered \o SetToSortSeq(routed, LAMBDA a, b : a.id < b.id)
      /\ lastSeen' = LastSeenAfter(lastSeen, batch)
      /\ ppc' = IF batch = {} THEN "gap" ELSE "poll"
      /\ UNCHANGED <<fillNext, fillEnd, fillTries, watchRev, watchEnd, restarts,
                     vars>>

(* Slip: the fill loop runs through current + 1.                           *)
GapEndPastCurrent(current) == current + 1

(* The last id the gap loop fills: the current revision it read.           *)
GapEnd(current) == current

(* Gap handling: CurrentRevision(); if it is above last_seen_id, Fill      *)
(* every id from last_seen_id + 1 up to it.                                *)
CheckGap ==
  LET current == CurrentRevision(kine)
  IN  /\ ppc = "gap"
      /\ IF current > lastSeen
         THEN /\ ppc' = "fill"
              /\ fillNext' = lastSeen + 1
              /\ fillEnd' = GapEnd(current)
         ELSE /\ ppc' = "poll"
              /\ UNCHANGED <<fillNext, fillEnd>>
      /\ UNCHANGED <<lastSeen, fillTries, delivered, watchRev, watchEnd,
                     restarts, vars>>

(* One attempt of the Fill(id) in flight, inside execute's retry loop: it  *)
(* applies, fails retryably before applying ("fail") or applies and loses  *)
(* its answer ("lost"); retryable errors are retried while CanRetry.  A    *)
(* Fill that returns an error, a PRIMARY KEY violation (a row holds the id *)
(* after all) or exhausted retries, ends the loop: the poller polls again  *)
(* (spec 9).                                                               *)
FillGap ==
  LET res  == Exec(kine, nextId, [kind |-> "fill", key |-> NULL, value |-> NULL,
                                  rev |-> fillNext])
      Stop == ppc' = "poll" /\ fillTries' = 0 /\ UNCHANGED fillNext
      Advance == IF fillNext < fillEnd
              THEN ppc' = "fill" /\ fillNext' = fillNext + 1 /\ fillTries' = 0
              ELSE Stop
      Again == IF CanRetry(fillTries)
               THEN ppc' = "fill" /\ fillTries' = fillTries + 1 /\ UNCHANGED fillNext
               ELSE Stop
      Apply == kine' = res.tbl /\ nextId' = res.seq /\ history' = history \cup res.ins
  IN  /\ ppc = "fill"
      /\ \/ Apply /\ IF res.err = "none" THEN Advance ELSE Stop
         \/ "fail" \in Faults /\ UNCHANGED <<kine, nextId, history>> /\ Again
         \/ "lost" \in Faults /\ res.err = "none" /\ Apply /\ Again
      /\ UNCHANGED <<fillEnd, lastSeen, delivered, watchRev, watchEnd, restarts,
                     cl, cp, writeLock>>

(* Slip: the restarted poller starts from CurrentRevision(), the spec's    *)
(* first reading of its start.                                             *)
ResumeFromCurrent(tbl, startRev) == CurrentRevision(tbl)

(* Spec 4.6: after a restart last_seen_id starts at the lowest startRev - 1 *)
(* among the subscriptions.                                                *)
ResumeFrom(tbl, startRev) == startRev - 1

(* The poller's node restarts: the poller loses its state, and the client  *)
(* watches again with startRev = the last revision it received (its first *)
(* startRev if none).  A startRev below the compact revision is refused    *)
(* with Compacted and the client's stream ends there.                      *)
Restart ==
  LET startRev == IF delivered = <<>> THEN watchRev ELSE Last(delivered).id
  IN  /\ restarts < MaxRestarts /\ watchEnd = NULL
      /\ restarts' = restarts + 1
      /\ lastSeen' = ResumeFrom(kine, startRev)
      /\ ppc' = "poll" /\ fillNext' = 0 /\ fillEnd' = 0 /\ fillTries' = 0
      /\ watchRev' = startRev
      /\ watchEnd' = IF startRev < CompactRevision(kine) THEN startRev ELSE NULL
      /\ UNCHANGED <<delivered, vars>>

PollerStep == PollAfter \/ CheckGap \/ FillGap

PNext ==
  \/ Next /\ UNCHANGED pollVars
  \/ PollerStep
  \/ Restart

(* The poller is one goroutine that loops for the life of the process:     *)
(* its steps are weakly fair.  Clients, compactors and restarts need not   *)
(* happen.                                                                 *)
PSpec == PInit /\ [][PNext]_allVars /\ WF_allVars(PollerStep)

-----------------------------------------------------------------------------
PollerTypeOK ==
  /\ TypeOK
  /\ lastSeen \in 0..MaxId
  /\ ppc \in {"poll", "gap", "fill"}
  /\ fillNext \in 0..MaxId /\ fillEnd \in 0..MaxId
  /\ fillTries \in 0..(MaxRetries - 1)
  /\ delivered \in Seq(Row)
  /\ watchRev \in 0..MaxId /\ watchEnd \in 0..MaxId \cup {NULL}
  /\ restarts \in 0..MaxRestarts

(* The rows of keys written after the client's first startRev, up to id.   *)
KeyRowsUpTo(id) ==
  {h \in history : h.name \in Keys /\ WatchStart < h.id /\ h.id <= id}

(* How far the client's stream has reached: past everything it received   *)
(* and everything the poller passed for it, or up to the startRev a        *)
(* re-watch was refused with.                                              *)
StreamReach ==
  IF watchEnd # NULL THEN watchEnd
  ELSE Max({lastSeen} \cup {delivered[i].id : i \in DOMAIN delivered})

(* Spec 4.6, Ordering and step 4, across restarts of the poller's node:    *)
(* the client receives writes of keys only, each once, in strictly         *)
(* increasing id order, and every write its stream has reached is received *)
(* unless compaction removed the row first.  Violated if a batch skips     *)
(* rows, last_seen_id overshoots, a gap row is routed, a Fill of the gap   *)
(* loop takes an id a write still holds, or a re-watch starts at the wrong *)
(* place.                                                                  *)
WatchStreamFaithful ==
  /\ \A i \in 1..(Len(delivered) - 1) : delivered[i].id < delivered[i + 1].id
  /\ ToSet(delivered) \subseteq KeyRowsUpTo(StreamReach)
  /\ \A h \in KeyRowsUpTo(StreamReach) \ ToSet(delivered) :
       h.id <= CompactRevision(kine)

(* The poller keeps up with the log: whatever writes, compactions and gap  *)
(* fills happen, last_seen_id reaches the current revision again and      *)
(* again, so no subscription waits forever on an id (spec 4.6, Gap         *)
(* handling).                                                              *)
PollerCatchesUp ==
  []<>(lastSeen >= CurrentRevision(kine))

====
