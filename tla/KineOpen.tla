------------------------------ MODULE KineOpen ------------------------------
(***************************************************************************)
(* generic.Open: up to 300 rounds of openAndTest (sql.Open, then three     *)
(* Pings; a failed Ping closes the handle), a one-second wait between     *)
(* failed rounds that a cancelled context cuts short, and then             *)
(* configureConnectionPooling on whatever handle the loop ended with.     *)
(* A method of sql.DB called on a nil handle dereferences it: "panic".      *)
(***************************************************************************)
EXTENDS Naturals

CONSTANT OpenAttempts   \* the loop bound 300 of Open

ASSUME OpenAttempts \in Nat \ {0}

VARIABLES
  i,        \* Open's loop counter
  db,       \* "nil" or "open": the handle the loop variable holds
  pc,       \* "loop", "wait", "configure", "done", "canceled", "panic"
  ctxDone   \* the caller's context has been cancelled

vars == <<i, db, pc, ctxDone>>

Init ==
  /\ i = 0
  /\ db = "nil"
  /\ pc = "loop"
  /\ ctxDone = FALSE

(* One openAndTest round: sql.Open and three Pings all succeed and the    *)
(* loop breaks, or sql.Open fails or a Ping fails (the handle is closed)  *)
(* and openAndTest returns nil, err.                                       *)
OpenAndTest ==
  /\ pc = "loop" /\ i < OpenAttempts
  /\ \/ db' = "open" /\ pc' = "configure"
     \/ db' = "nil" /\ pc' = "wait"
  /\ UNCHANGED <<i, ctxDone>>

(* select { case <-ctx.Done(): return nil, ctx.Err()                      *)
(*          case <-time.After(time.Second): }  then i++.                   *)
WaitRetry ==
  /\ pc = "wait"
  /\ \/ ctxDone /\ pc' = "canceled" /\ UNCHANGED i
     \/ pc' = "loop" /\ i' = i + 1
  /\ UNCHANGED <<db, ctxDone>>

(* The loop condition i < 300 fails: fall through with the last handle.   *)
LoopExhausted ==
  /\ pc = "loop" /\ i = OpenAttempts
  /\ pc' = "configure"
  /\ UNCHANGED <<i, db, ctxDone>>

(* configureConnectionPooling calls db.SetMaxIdleConns etc.; then Open    *)
(* returns &Generic{DB: prepared.New(db), ...}, err.                       *)
ConfigurePool ==
  /\ pc = "configure"
  /\ pc' = IF db = "nil" THEN "panic" ELSE "done"
  /\ UNCHANGED <<i, db, ctxDone>>

(* The caller cancels the context (shutdown signal).                      *)
Cancel ==
  /\ ~ctxDone
  /\ ctxDone' = TRUE
  /\ UNCHANGED <<i, db, pc>>

Next == OpenAndTest \/ WaitRetry \/ LoopExhausted \/ ConfigurePool \/ Cancel

Spec == Init /\ [][Next]_vars

TypeOK ==
  /\ i \in 0..OpenAttempts
  /\ db \in {"nil", "open"}
  /\ pc \in {"loop", "wait", "configure", "done", "canceled", "panic"}
  /\ ctxDone \in BOOLEAN

(* Spec section 7: when every open attempt fails, Open fails with an      *)
(* error the supervisor turns into a fatal exit; Open must never use the  *)
(* nil handle the failed loop leaves behind.                               *)
OpenNeverUsesNilDB == pc # "panic"

====
