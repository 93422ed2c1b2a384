--------------------------- MODULE SqlStatements ---------------------------
(***************************************************************************)
(* How generic.go builds the statement text and the arguments it hands to *)
(* query / execute / tx.ExecContext: q() rewrites each `?` of a template  *)
(* to the driver's parameter style once, at Open; getPrefixRange and the   *)
(* startKey override turn a request into the [start, end) name range; the *)
(* read methods append " LIMIT ?" for a positive limit; tryCompact and     *)
(* the revision reads pass their SQL as written.                           *)
(*                                                                         *)
(* Strings are sequences of byte values.  Of a template only its           *)
(* placeholders matter here: the text between two of them (never a digit, *)
(* `?` or `$` in the source) is one filler byte.  Keys are made of the     *)
(* readable bytes `.`, `/`, `0`, `a`, at most four of them.               *)
(***************************************************************************)
EXTENDS Naturals, Sequences, SequencesExt

CONSTANTS
  ParamStyles,  \* the (paramCharacter, numbered) pairs Open may be given
  Calls,        \* the Generic methods exercised in a run
  NULL          \* SQL NULL argument

VARIABLES
  style,   \* [param, numbered]: Open's arguments
  call,    \* the request of the last call: [op, prefix, startKey]
  sent     \* the statements that call handed to the engine, in order

vars == <<style, call, sent>>

QMark == 63     \* `?`
Dollar == 36    \* `$`
Filler == 32    \* any text between two placeholders
Slash == 47     \* `/`
Zero == 48      \* `0`, also the first digit
Ctrl1 == 1      \* "\x01"

-----------------------------------------------------------------------------
(* strconv.Itoa for n >= 0.                                                *)
RECURSIVE Itoa(_)
Itoa(n) == IF n < 10 THEN <<Zero + n>> ELSE Itoa(n \div 10) \o <<Zero + (n % 10)>>

(* Slip: the counter n++ dropped from the replacement callback.            *)
RECURSIVE QFromNoIncrement(_, _, _, _)
QFromNoIncrement(s, param, numbered, n) ==
  IF s = <<>> THEN <<>>
  ELSE IF Head(s) = QMark
       THEN (IF numbered THEN param \o Itoa(n + 1) ELSE param)
              \o QFromNoIncrement(Tail(s), param, numbered, n)
       ELSE <<Head(s)>> \o QFromNoIncrement(Tail(s), param, numbered, n)

(* regex.ReplaceAllStringFunc(sql, ...) over `\?`, left to right, with the *)
(* closure's counter n.                                                    *)
RECURSIVE QFrom(_, _, _, _)
QFrom(s, param, numbered, n) ==
  IF s = <<>> THEN <<>>
  ELSE IF Head(s) = QMark
       THEN IF numbered
            THEN param \o Itoa(n + 1) \o QFrom(Tail(s), param, numbered, n + 1)
            ELSE param \o QFrom(Tail(s), param, numbered, n)
       ELSE <<Head(s)>> \o QFrom(Tail(s), param, numbered, n)

(* q(sql, param, numbered), with its early return for plain `?`.           *)
Q(sql, param, numbered) ==
  IF param = <<QMark>> /\ ~numbered THEN sql ELSE QFrom(sql, param, numbered, 0)

(* A template with k placeholders.                                         *)
Template(k) == [i \in 1..(2 * k + 1) |-> IF i % 2 = 0 THEN QMark ELSE Filler]

(* fmt.Sprintf("%s LIMIT ?", sql)                                           *)
WithLimit(sql) == sql \o <<Filler, QMark>>

(* The Generic fields Open fills with q(...), by their placeholder count.  *)
Rewritten(k) == Q(Template(k), style.param, style.numbered)
GetCurrentSQL == Rewritten(3)
ListRevisionStartSQL == Rewritten(4)
GetRevisionAfterSQL == Rewritten(4)
CountCurrentSQL == Rewritten(3)
CountRevisionSQL == Rewritten(4)
AfterSQLPrefix == Rewritten(3)
AfterSQL == Rewritten(1)
DeleteRevSQL == Rewritten(1)
UpdateCompactSQL == Rewritten(1)
DeleteSQL == Rewritten(2)
CreateSQL == Rewritten(4)
UpdateSQL == Rewritten(5)
FillSQL == Rewritten(9)

-----------------------------------------------------------------------------
(* getPrefixRange                                                          *)
GetPrefixRange(prefix) ==
  IF prefix # <<>> /\ Last(prefix) = Slash
  THEN <<prefix, Front(prefix) \o <<Zero>>>>
  ELSE <<prefix, prefix \o <<Ctrl1>>>>

(* Slip: startKey used as the inclusive start.                             *)
StartAfterInclusive(startKey) == startKey

(* start = startKey + "\x01"                                               *)
StartAfter(startKey) == startKey \o <<Ctrl1>>

(* The range of a read: getPrefixRange, then the startKey override.        *)
ReadRange(prefix, startKey) ==
  LET r == GetPrefixRange(prefix)
  IN  IF startKey = <<>> THEN r ELSE <<StartAfter(startKey), r[2]>>

Stmt(text, args) == [text |-> text, args |-> args]

Request(op, prefix, startKey) == [op |-> op, prefix |-> prefix, startKey |-> startKey]

(* The inputs a run enumerates.                                            *)
ReadPrefixes == {<<>>, <<97>>, <<Slash>>, <<97, Slash>>, <<Slash, 97>>, <<Slash, 97, Slash>>}
StartKeys == {<<>>, <<Slash, 97>>, <<Slash, 97, Slash>>, <<Slash, 97, Slash, 97>>, <<Slash, 97, 97>>}
Limits == {0, 2}

(* A startKey is the last key of the previous page of the same listing:   *)
(* empty, or a key below a prefix that ends in `/`.                        *)
StartKeyOf(prefix, startKey) ==
  \/ startKey = <<>>
  \/ prefix # <<>> /\ Last(prefix) = Slash /\ IsPrefix(prefix, startKey)
Revs == {3}

-----------------------------------------------------------------------------
(* One action per Generic method: the statements it sends, in order.       *)
Issue(op, prefix, startKey, stmts) ==
  /\ op \in Calls
  /\ call' = Request(op, prefix, startKey)
  /\ sent' = stmts
  /\ UNCHANGED style

(* ListCurrent(prefix, startKey, limit, includeDeleted)                     *)
ListCurrent(prefix, startKey, limit, incl) ==
  LET r == ReadRange(prefix, startKey)
  IN  Issue("ListCurrent", prefix, startKey,
            IF limit > 0 THEN <<Stmt(WithLimit(GetCurrentSQL), <<r[1], r[2], incl, limit>>)>>
            ELSE <<Stmt(GetCurrentSQL, <<r[1], r[2], incl>>)>>)

(* List(prefix, startKey, limit, revision, includeDeleted)                  *)
List(prefix, startKey, limit, rev, incl) ==
  LET r == GetPrefixRange(prefix)
      sql == IF startKey = <<>> THEN ListRevisionStartSQL ELSE GetRevisionAfterSQL
      start == IF startKey = <<>> THEN r[1] ELSE StartAfter(startKey)
  IN  Issue("List", prefix, startKey,
            IF limit > 0 THEN <<Stmt(WithLimit(sql), <<start, r[2], rev, incl, limit>>)>>
            ELSE <<Stmt(sql, <<start, r[2], rev, incl>>)>>)

(* CountCurrent(prefix, startKey)                                          *)
CountCurrent(prefix, startKey) ==
  LET r == ReadRange(prefix, startKey)
  IN  Issue("CountCurrent", prefix, startKey,
            <<Stmt(CountCurrentSQL, <<r[1], r[2], FALSE>>)>>)

(* Count(prefix, startKey, revision)                                        *)
Count(prefix, startKey, rev) ==
  LET r == ReadRange(prefix, startKey)
  IN  Issue("Count", prefix, startKey,
            <<Stmt(CountRevisionSQL, <<r[1], r[2], rev, FALSE>>)>>)

(* AfterPrefix(prefix, rev, limit)                                          *)
AfterPrefix(prefix, rev, limit) ==
  LET r == GetPrefixRange(prefix)
  IN  Issue("AfterPrefix", prefix, <<>>,
            IF limit > 0 THEN <<Stmt(WithLimit(AfterSQLPrefix), <<r[1], r[2], rev, limit>>)>>
            ELSE <<Stmt(AfterSQLPrefix, <<r[1], r[2], rev>>)>>)

(* After(rev, limit)                                                        *)
After(rev, limit) ==
  Issue("After", <<>>, <<>>,
        IF limit > 0 THEN <<Stmt(WithLimit(AfterSQL), <<rev, limit>>)>>
        ELSE <<Stmt(AfterSQL, <<rev>>)>>)

(* CurrentRevision (revSQL) and GetCompactRevision (revisionIntervalSQL)   *)
(* are sent as written and take no arguments.                               *)
CurrentRevision == Issue("CurrentRevision", <<>>, <<>>, <<Stmt(Template(0), <<>>)>>)
GetCompactRevision == Issue("GetCompactRevision", <<>>, <<>>, <<Stmt(Template(0), <<>>)>>)

(* Create, Update, Delete, DeleteRevision, Fill.                            *)
Writes(rev) ==
  \/ Issue("Create", <<>>, <<>>, <<Stmt(CreateSQL, <<"key", "ttl", "value", "key">>)>>)
  \/ Issue("Update", <<>>, <<>>,
           <<Stmt(UpdateSQL, <<"key", "ttl", "value", "key", rev>>)>>)
  \/ Issue("Delete", <<>>, <<>>, <<Stmt(DeleteSQL, <<"key", rev>>)>>)
  \/ Issue("DeleteRevision", <<>>, <<>>, <<Stmt(DeleteRevSQL, <<rev>>)>>)
  \/ Issue("Fill", <<>>, <<>>,
           <<Stmt(FillSQL, <<rev, <<"gap", rev>>, 0, 1, 0, 0, 0, NULL, NULL>>)>>)

(* tryCompact(start, end): the two DELETEs as written, then                *)
(* UpdateCompactSQL.                                                        *)
TryCompact(start, end) ==
  Issue("TryCompact", <<>>, <<>>,
        << Stmt(Template(2), <<start, end>>),
           Stmt(Template(2), <<start, end>>),
           Stmt(UpdateCompactSQL, <<end>>) >>)

Init ==
  /\ style \in ParamStyles
  /\ call = Request("none", <<>>, <<>>)
  /\ sent = <<>>

Next ==
  \/ \E p \in ReadPrefixes, s \in StartKeys, l \in Limits, b \in BOOLEAN :
       StartKeyOf(p, s) /\ ListCurrent(p, s, l, b)
  \/ \E p \in ReadPrefixes, s \in StartKeys, l \in Limits, v \in Revs, b \in BOOLEAN :
       StartKeyOf(p, s) /\ List(p, s, l, v, b)
  \/ \E p \in ReadPrefixes, s \in StartKeys : StartKeyOf(p, s) /\ CountCurrent(p, s)
  \/ \E p \in ReadPrefixes, s \in StartKeys, v \in Revs :
       StartKeyOf(p, s) /\ Count(p, s, v)
  \/ \E p \in ReadPrefixes, v \in Revs, l \in Limits : AfterPrefix(p, v, l)
  \/ \E v \in Revs, l \in Limits : After(v, l)
  \/ CurrentRevision \/ GetCompactRevision
  \/ \E v \in Revs : Writes(v)
  \/ \E v \in Revs : TryCompact(v - 1, v)

Spec == Init /\ [][Next]_vars

-----------------------------------------------------------------------------
(* References the properties compare with.                                 *)

(* Byte strings compared as TEXT with binary collation: lexicographically, *)
(* a proper prefix first.                                                  *)
LexLess(a, b) ==
  \/ IsStrictPrefix(a, b)
  \/ \E i \in 1..Len(a) :
       i <= Len(b) /\ SubSeq(a, 1, i - 1) = SubSeq(b, 1, i - 1) /\ a[i] < b[i]

(* WHERE name >= ? AND name < ?                                            *)
InRange(key, start, end) == ~LexLess(key, start) /\ LexLess(key, end)

(* Every key of at most four readable bytes.                               *)
KeyNames == BoundedSeq({46, Slash, Zero, 97}, 4)

(* The keys a read asks for: with a prefix ending in `/`, the keys below   *)
(* it; otherwise the one key the prefix names; with a startKey, only keys  *)
(* strictly after it.                                                      *)
Wanted(req, key) ==
  /\ IF req.prefix # <<>> /\ Last(req.prefix) = Slash
     THEN IsPrefix(req.prefix, key) ELSE key = req.prefix
  /\ req.startKey = <<>> \/ LexLess(req.startKey, key)

RangeOps == {"ListCurrent", "List", "CountCurrent", "Count", "AfterPrefix"}

RECURSIVE LeadDigits(_)
LeadDigits(t) ==
  IF t # <<>> /\ Head(t) \in Zero..(Zero + 9)
  THEN <<Head(t)>> \o LeadDigits(Tail(t)) ELSE <<>>

RECURSIVE Atoi(_)
Atoi(d) == IF d = <<>> THEN 0 ELSE 10 * Atoi(Front(d)) + (Last(d) - Zero)

(* The parameter index the engine binds to each placeholder of a text, in *)
(* order.  SQLite (`?` styles): `?NNN` is parameter NNN and a bare `?` the  *)
(* largest index so far plus one.  PostgreSQL (`$` style): `$NNN` is       *)
(* parameter NNN and a `?` is no parameter at all (index 0: the statement *)
(* fails to prepare).                                                      *)
RECURSIVE BindFrom(_, _, _)
BindFrom(t, pg, m) ==
  IF t = <<>> THEN <<>>
  ELSE LET d == LeadDigits(Tail(t))
           n == Atoi(d)
           rest == SubSeq(t, Len(d) + 2, Len(t))
       IN  CASE Head(t) = QMark /\ ~pg /\ d = <<>> ->
                  <<m + 1>> \o BindFrom(Tail(t), pg, m + 1)
             [] Head(t) = QMark /\ ~pg ->
                  <<n>> \o BindFrom(rest, pg, IF n > m THEN n ELSE m)
             [] Head(t) = Dollar /\ pg /\ d # <<>> ->
                  <<n>> \o BindFrom(rest, pg, m)
             [] Head(t) = QMark /\ pg ->
                  <<0>> \o BindFrom(Tail(t), pg, m)
             [] OTHER -> BindFrom(Tail(t), pg, m)

Bind(text) == BindFrom(text, style.param = <<Dollar>>, 0)

-----------------------------------------------------------------------------
(* Properties.                                                             *)

(* Every statement any Generic method sends binds exactly its arguments,  *)
(* the i-th placeholder to the i-th argument, under the parameter style    *)
(* Open rewrote the SQL to: q()'s numbering, the " LIMIT ?" the reads      *)
(* append after q(), and the SQL tryCompact and the revision reads send    *)
(* as written all have to agree with it.                                   *)
ParamsBindArgs ==
  \A i \in DOMAIN sent :
    Bind(sent[i].text) = [j \in 1..Len(sent[i].args) |-> j]

(* The [start, end) arguments of every ranged read select exactly the keys *)
(* it asks for: getPrefixRange's `/` -> `0` end and "\x01" end, and the   *)
(* startKey + "\x01" start, over every key of readable bytes.              *)
RangeSelectsRequestedKeys ==
  call.op \in RangeOps =>
    \A key \in KeyNames :
      InRange(key, sent[1].args[1], sent[1].args[2]) <=> Wanted(call, key)

====
