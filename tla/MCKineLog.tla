---------------------------- MODULE MCKineLog ------------------------------
(* Instantiates KineLog for TLC: the sets of keys, values and actors are   *)
(* model values given in the .cfg files; the bounds are defined here.      *)
EXTENDS KineLog, TLC

(* Enough ids for create, update, delete, re-create of one key next to the *)
(* sentinel row, or two short lives of two keys.                           *)
MCMaxId == 5

(* Two attempts: one failed attempt and its retry, or a retry that gives   *)
(* up.                                                                     *)
MCMaxRetries == 2

MCWriteOps == {"create", "update", "delete", "fill"}
MCAllOps == MCWriteOps \cup {"deleteRev"}
MCAllFaults == {"fail", "lost"}
MCNoFaults == {}
MCLostFaults == {"lost"}
MCCasOps == {"create", "update", "delete"}
(* The writes of a peer of an older release; the core run has the current *)
(* Create.                                                                 *)
MCLegacyOps == (MCWriteOps \ {"create"}) \cup {"legacyCreate"}
(* Clients are interchangeable, and so are compactors.                    *)
MCSymmetry == Permutations(Clients) \cup Permutations(Compactors)
(* What an idle client last returned never influences a later step: the   *)
(* next call overwrites it.  Runs whose properties do not read it identify *)
(* states that differ only there.                                          *)
MCView ==
  <<kine, nextId, history,
    [c \in Clients |-> IF cl[c].pc = "idle" THEN "idle" ELSE cl[c]],
    cp, writeLock>>
====
