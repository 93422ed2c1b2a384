---------------------------- MODULE KineAbstract ----------------------------
(***************************************************************************)
(* What the kine revision log promises its callers, with no table, no SQL  *)
(* and no retries: an etcd-style key/value store.  Each live key has a     *)
(* value, the revision of the create that began its current life and the  *)
(* revision of its last change.  Every successful Create, Update or Delete *)
(* takes the next revision.  A compaction raises the compact revision up  *)
(* to the last revision handed out, and changes nothing a caller can read  *)
(* at the current revision.                                                *)
(***************************************************************************)
EXTENDS Naturals

CONSTANTS
  Keys,   \* user keys
  Vals,   \* payloads
  NULL    \* "no live value"

VARIABLES
  store,      \* key -> [value, createRev, modRev] of its live version, or NULL
  revision,   \* the last revision handed out
  compacted   \* the compact revision

avars == <<store, revision, compacted>>

Version == [value : Vals, createRev : Nat, modRev : Nat]

AInit ==
  /\ store = [k \in Keys |-> NULL]
  /\ revision \in Nat
  /\ compacted = 0

(* A key with no live version gets one whose life begins now.             *)
ACreate(k, v) ==
  /\ store[k] = NULL
  /\ revision' = revision + 1
  /\ store' = [store EXCEPT ![k] = [value |-> v, createRev |-> revision + 1,
                                     modRev |-> revision + 1]]
  /\ UNCHANGED compacted

(* A live key gets a new value within the same life.                       *)
AUpdate(k, v) ==
  /\ store[k] # NULL
  /\ revision' = revision + 1
  /\ store' = [store EXCEPT ![k] = [value |-> v, createRev |-> store[k].createRev,
                                     modRev |-> revision + 1]]
  /\ UNCHANGED compacted

(* A live key's life ends.                                                 *)
ADelete(k) ==
  /\ store[k] # NULL
  /\ revision' = revision + 1
  /\ store' = [store EXCEPT ![k] = NULL]
  /\ UNCHANGED compacted

(* The compact revision moves forward, never past the last revision.       *)
ACompact ==
  /\ \E w \in (compacted + 1)..revision : compacted' = w
  /\ UNCHANGED <<store, revision>>

ANext ==
  \/ \E k \in Keys, v \in Vals : ACreate(k, v) \/ AUpdate(k, v)
  \/ \E k \in Keys : ADelete(k)
  \/ ACompact

ASpec == AInit /\ [][ANext]_avars

====
