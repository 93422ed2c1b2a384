-------------------------- MODULE MCSqlStatements --------------------------
(* Instantiates SqlStatements for TLC: the parameter styles and the        *)
(* methods a run exercises.                                                *)
EXTENDS SqlStatements

(* SQLite's two styles: `?` (dqlite) and the numbered `?NNN`.             *)
MCSqliteStyles == {[param |-> <<QMark>>, numbered |-> FALSE],
                   [param |-> <<QMark>>, numbered |-> TRUE]}

(* PostgreSQL's numbered `$NNN`.                                           *)
MCDollarStyle == {[param |-> <<Dollar>>, numbered |-> TRUE]}

MCAllCalls == {"ListCurrent", "List", "CountCurrent", "Count", "AfterPrefix",
               "After", "CurrentRevision", "GetCompactRevision", "Create",
               "Update", "Delete", "DeleteRevision", "Fill", "TryCompact"}

(* The methods whose statements are built outside q(): reads with a LIMIT  *)
(* and tryCompact.                                                         *)
MCDollarCalls == {"ListCurrent", "List", "AfterPrefix", "After", "TryCompact"}
====
