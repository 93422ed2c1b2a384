--------------------------- MODULE MCKinePoller -----------------------------
(* Instantiates KinePoller for TLC; sets of keys and actors are model      *)
(* values in the .cfg file, the bounds are defined here.                   *)
EXTENDS KinePoller, TLC

(* Ids for a create, update and delete of one key next to the sentinel, *)
(* or writes and a gap row: enough for a superseded row to be compacted  *)
(* while the poller lags, and for a Fill to collide with a write.        *)
MCPollMaxId == 4

(* One failed attempt and its retry, or a retry that gives up.             *)
MCPollMaxRetries == 2

MCPollOps == {"create", "update", "delete"}
MCPollFaults == {"fail", "lost"}

(* A batch of one row: every poll that sees two rows is capped.            *)
MCBatchLimit == 1

(* One restart: a re-watch, refused or not, after any step.               *)
MCMaxRestarts == 1
====
