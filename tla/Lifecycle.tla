----------------------------- MODULE Lifecycle -----------------------------
(***************************************************************************)
(* The root command's Run (src/unnamed/part_000): server.New, server.Start *)
(* on a cancellable context, signal.Notify of SIGPWR, SIGINT, SIGQUIT and  *)
(* SIGTERM on a channel of capacity 1 (four calls, in that order), a       *)
(* select on that channel and server.MustStop(), cancel(), and Shutdown    *)
(* under a 30-second context.  logrus Fatal exits the process at once.     *)
(*                                                                         *)
(* The Go runtime's side: a signal that no Notify has registered takes its *)
(* default disposition, which ends the process for SIGINT, SIGTERM and    *)
(* SIGQUIT and ignores SIGPWR; a registered signal is sent to the channel *)
(* without blocking and dropped when the channel is full.                 *)
(* The server's side (not under src/): it may close MustStop() at any time *)
(* after Start, and Shutdown returns, with or without an error, once its   *)
(* context expires at the latest.                                          *)
(***************************************************************************)
EXTENDS Naturals, Sequences

CONSTANTS
  MaxSignals   \* bound: signals the environment sends in one run

ASSUME MaxSignals \in Nat

(* The order of the four signal.Notify calls.                             *)
NotifyOrder == <<"SIGPWR", "SIGINT", "SIGQUIT", "SIGTERM">>
Signals == {NotifyOrder[i] : i \in 1..Len(NotifyOrder)}

(* make(chan os.Signal, 1)                                                 *)
SigChanCap == 1

Terminal == {"exited", "fatal", "killed"}

VARIABLES
  pc,          \* where Run is: "new", "start", "notify", "wait",
               \* "shutdown", or a Terminal state
  registered,  \* how many of the Notify calls have returned
  pending,     \* signals buffered in ch
  started,     \* server.Start has returned nil
  mustStop,    \* server.MustStop() is closed
  raised,      \* a registered signal has reached the process
  sent         \* signals sent so far

vars == <<pc, registered, pending, started, mustStop, raised, sent>>

Registered(n) == {NotifyOrder[i] : i \in 1..n}

(* The Go runtime's default disposition: SIGINT, SIGTERM and SIGQUIT (with *)
(* a goroutine dump) end the process; SIGPWR is ignored.                   *)
DefaultKills == {"SIGINT", "SIGQUIT", "SIGTERM"}

Init ==
  /\ pc = "new"
  /\ registered = 0
  /\ pending = 0
  /\ started = FALSE
  /\ mustStop = FALSE
  /\ raised = FALSE
  /\ sent = 0

(* server.New(...); on error logrus Fatal.                                 *)
ServerNew ==
  /\ pc = "new"
  /\ pc' \in {"start", "fatal"}
  /\ UNCHANGED <<registered, pending, started, mustStop, raised, sent>>

(* context.WithCancel, then server.Start(ctx); on error logrus Fatal.      *)
ServerStart ==
  /\ pc = "start"
  /\ \/ pc' = "notify" /\ started' = TRUE
     \/ pc' = "fatal" /\ UNCHANGED started
  /\ UNCHANGED <<registered, pending, mustStop, raised, sent>>

(* Slip: one Notify call too many before the select.                      *)
AllRegisteredLate(n) == n > Len(NotifyOrder)

(* The fourth Notify call has returned.                                    *)
AllRegistered(n) == n = Len(NotifyOrder)

(* ch := make(chan os.Signal, 1) and one signal.Notify call; after the     *)
(* fourth, Run reaches the select.                                         *)
Notify ==
  /\ pc = "notify"
  /\ registered' = registered + 1
  /\ pc' = IF AllRegistered(registered') THEN "wait" ELSE "notify"
  /\ UNCHANGED <<pending, started, mustStop, raised, sent>>

(* Slip: an unbuffered channel, which only a receiver already blocked in   *)
(* the select can take a signal from.                                      *)
ChanAcceptsUnbuffered(n, at) == n = 0 /\ at = "wait"

(* The runtime's non-blocking send into ch.                                *)
ChanAccepts(n, at) == n < SigChanCap

(* The environment sends signal s.  Unregistered: default disposition,   *)
(* which ends the process except for SIGPWR.                              *)
(* Registered: buffered if ch has room, otherwise dropped.                 *)
Signal(s) ==
  /\ pc \notin Terminal /\ sent < MaxSignals
  /\ sent' = sent + 1
  /\ IF s \in Registered(registered)
     THEN /\ raised' = TRUE
          /\ pending' = IF ChanAccepts(pending, pc) THEN pending + 1 ELSE pending
          /\ UNCHANGED pc
     ELSE /\ pc' = IF s \in DefaultKills THEN "killed" ELSE pc
          /\ UNCHANGED <<pending, raised>>
  /\ UNCHANGED <<registered, started, mustStop>>

(* The server closes MustStop() (e.g. the low-storage "terminate" action). *)
MustStop ==
  /\ started /\ ~mustStop /\ pc \notin Terminal
  /\ mustStop' = TRUE
  /\ UNCHANGED <<pc, registered, pending, started, raised, sent>>

(* select { case <-ch: case <-server.MustStop(): }; cancel().              *)
SelectStop ==
  /\ pc = "wait"
  /\ \/ pending > 0 /\ pending' = pending - 1
     \/ mustStop /\ UNCHANGED pending
  /\ pc' = "shutdown"
  /\ UNCHANGED <<registered, started, mustStop, raised, sent>>

(* server.Shutdown(stopCtx) with a 30 s timeout; on error logrus Fatal.    *)
Shutdown ==
  /\ pc = "shutdown"
  /\ pc' \in {"exited", "fatal"}
  /\ UNCHANGED <<registered, pending, started, mustStop, raised, sent>>

Next ==
  \/ ServerNew \/ ServerStart \/ Notify \/ SelectStop \/ Shutdown \/ MustStop
  \/ \E s \in Signals : Signal(s)

(* Run's goroutine is never starved by the Go scheduler, and Shutdown     *)
(* returns by its deadline: its steps are weakly fair.  Signals and        *)
(* MustStop come from outside and need not happen.                          *)
Fairness ==
  WF_vars(ServerNew \/ ServerStart \/ Notify \/ SelectStop \/ Shutdown)

Spec == Init /\ [][Next]_vars /\ Fairness

-----------------------------------------------------------------------------
TypeOK ==
  /\ pc \in {"new", "start", "notify", "wait", "shutdown"} \cup Terminal
  /\ registered \in 0..Len(NotifyOrder)
  /\ pending \in 0..SigChanCap
  /\ {started, mustStop, raised} \subseteq BOOLEAN
  /\ sent \in 0..MaxSignals

(* Once a signal Run has registered reaches the process, or the server     *)
(* closes MustStop, the process ends: the buffered channel keeps a signal  *)
(* that arrives before Run blocks in the select, and a full channel means  *)
(* one is already waiting there.                                           *)
StopRequestEndsProcess ==
  (raised \/ mustStop) ~> (pc \in Terminal)

(* Spec section 4.7: a termination signal makes the supervisor cancel the  *)
(* context and drain through Shutdown; once server.Start has returned,     *)
(* the process is never ended by a signal's default disposition.           *)
StartedServerStopsGracefully ==
  pc = "killed" => ~started

====
