------------------------------- MODULE MCSql -------------------------------
(***************************************************************************)
(* The statements that change rows (Rows) and a client's connection        *)
(* (Wire), each on small instances.  A behaviour is one of theirs: which   *)
(* says whose, and the other keeps its initial state.                      *)
(***************************************************************************)
EXTENDS Integers, Sequences, TLC

VARIABLES chosen, cons, store, adding, copy
VARIABLES which, who, db, ses, conn, task, portal, client, drainer, left

rowVars == <<chosen, cons, store, adding, copy>>
wire == <<who, db, ses, conn, task, portal, client, drainer, left>>

-----------------------------------------------------------------------------
(* Rows: constraints, and statements over two or three small tables.       *)

Fk(id, t, col, parent, ref, del, upd) ==
  [id |-> id, kind |-> "foreign", t |-> t, col |-> col, parent |-> parent, ref |-> ref,
   del |-> del, upd |-> upd, bad |-> 0, index |-> TRUE, validated |-> TRUE, drop |-> FALSE]
Unique(id, t, col) == [Fk(id, t, col, t, "id", "", "") EXCEPT !.kind = "unique"]
Check(id, t, col, bad) ==
  [Fk(id, t, col, t, "id", "", "") EXCEPT !.kind = "check", !.bad = bad, !.index = FALSE]
New(c) == [c EXCEPT !.validated = FALSE]
Dropped(c) == [c EXCEPT !.drop = TRUE]

Table(required, indexes) == [required |-> required, indexes |-> indexes]
U(id, col) == [id |-> id, col |-> col, unique |-> TRUE]
I(t, rows, oc) == [t |-> t, rows |-> rows, oc |-> oc]
S(t, ids, col, to) == [t |-> t, ids |-> ids, set |-> [col |-> col, to |-> to]]
D(t, ids) == [t |-> t, ids |-> ids]
Const(v) == [x \in 0 .. 3 |-> v]
Plus == [x \in 0 .. 3 |-> IF x \in {0, 3} THEN x ELSE x + 1]
Some == {{1}, {2}, {1, 2}}
Blank == [tables |-> [t |-> Table({"id"}, <<>>)], cons |-> <<>>, store |-> <<>>,
          limit |-> 3, chunk |-> 2, top |-> 3, copies |-> {}, adds |-> {},
          inserts |-> {}, updates |-> {}, deletes |-> {}]

\* Parents, children and grandchildren, with every pair of actions; two
\* grandchildren where all cascade.
P == {[id |-> i, u |-> u] : i \in 1 .. 2, u \in 1 .. 2}
C == {[id |-> i, f |-> f] : i \in 1 .. 2, f \in 0 .. 2}
Family(del, upd, delg, grandchildren, limit) ==
  [Blank EXCEPT
   !.tables = [p |-> Table({"id", "u"}, <<U(1, "u")>>), c |-> Table({"id"}, <<>>),
               g |-> Table({"id"}, <<>>)],
   !.limit = limit,
   !.cons = <<Fk(11, "c", "f", "p", "u", del, upd), Fk(12, "g", "h", "c", "id", delg, "restrict")>>,
   !.inserts = {I("p", <<r>>, <<>>) : r \in P} \cup {I("c", <<r>>, <<>>) : r \in C}
               \cup {I("g", <<[id |-> i, h |-> h]>>, <<>>) : i \in 1 .. grandchildren, h \in 1 .. 2},
   !.updates = {S("p", s, "u", to) : s \in Some, to \in {Const(3), Plus, Const(1)}}
               \cup {S("c", s, "f", to) : s \in Some, to \in {Const(0), Const(1), Const(2)}},
   !.deletes = {D("p", s) : s \in Some} \cup {D("c", s) : s \in Some}
               \cup {D("g", s) : s \in {{i} : i \in 1 .. grandchildren}}]
Actions == {<<"cascade", "restrict", "set null">>, <<"cascade", "cascade", "restrict">>,
            <<"set null", "restrict", "cascade">>, <<"set null", "cascade", "set null">>,
            <<"set null", "restrict", "restrict">>}
Families == [f \in Actions |-> Family(f[1], f[2], f[3], 1, 3)]
            @@ (<<"cascades">> :> Family("cascade", "cascade", "cascade", 2, 3))
            @@ (<<"over the limit">> :> Family("cascade", "cascade", "cascade", 2, 1))

\* A table that references itself by primary key.
T3 == {[id |-> i, u |-> u, f |-> f] : i \in 1 .. 2, u \in 1 .. 2, f \in 0 .. 2}
SelfRef(del) ==
  [Blank EXCEPT
   !.tables = [t |-> Table({"id", "u"}, <<U(1, "u")>>)],
   !.cons = <<Fk(11, "t", "f", "t", "id", del, "restrict")>>,
   !.inserts = {I("t", <<r>>, <<>>) : r \in T3} \cup {I("t", <<r, q>>, <<>>) : r \in T3, q \in T3},
   !.updates = {S("t", s, "u", to) : s \in Some, to \in {Const(3), Plus}}
               \cup {S("t", s, "f", to) : s \in Some, to \in {Const(0), Const(1), Const(2)}},
   !.deletes = {D("t", s) : s \in Some}]

\* ON CONFLICT: one row at a time on either key, several on the primary key.
On(g, n, s, w) == [target |-> g, nothing |-> n, set |-> s, where |-> [x \in 0 .. 3 |-> x # w]]
Conf(targets) == {On(g, TRUE, {}, 0) : g \in targets}
                 \cup {On(g, FALSE, s, w) : g \in targets, s \in {{"f"}, {"u", "f"}}, w \in {0, 2}}
Conflict ==
  [Blank EXCEPT
   !.tables = [t |-> Table({"id", "u"}, <<U(1, "u"), [id |-> 2, col |-> "f", unique |-> FALSE]>>)],
   !.cons = <<Check(11, "t", "f", 1)>>,
   !.inserts = {I("t", <<r>>, <<o>>) : r \in T3, o \in Conf({"id", "u", "any"})}
               \cup {I("t", <<r, q>>, <<o>>) : r \in T3, q \in T3, o \in Conf({"id"})},
   !.deletes = {D("t", s) : s \in Some}]

\* COPY beside inserts of another session.
Copies ==
  [Conflict EXCEPT !.inserts = {I("t", <<r>>, <<>>) : r \in T3},
   !.copies = {[t |-> "t", rows |-> <<r, q, x>>] : r \in T3, q \in T3, x \in {[id |-> 3, u |-> 3, f |-> 2]}}]

\* A constraint added online while rows change, and dropped.
Online(c) ==
  [Blank EXCEPT
   !.tables = [p |-> Table({"id"}, <<>>), c |-> Table({"id"}, <<>>)],
   !.cons = <<Dropped(Check(9, "p", "id", 3))>>,
   !.adds = {c},
   !.inserts = {I("p", <<[id |-> i]>>, <<>>) : i \in 1 .. 2}
               \cup {I("c", <<r>>, <<>>) : r \in C \cup {[id |-> 3, f |-> 1]}},
   !.updates = {S("c", s, "f", to) : s \in Some, to \in {Const(0), Const(1), Const(2)}},
   !.deletes = {D("p", s) : s \in Some} \cup {D("c", s) : s \in Some \cup {{3}}}]

\* A unique constraint added online to rows that have no duplicates, while
\* rows are inserted and their other column changes: deleting or moving a row
\* that shares its value with another would take the other's entry away.
Grows ==
  [Online(New(Unique(12, "c", "f"))) EXCEPT
   !.updates = {S("c", s, "g", to) : s \in Some, to \in {Const(0), Const(1)}},
   !.inserts = {I("c", <<[id |-> i, f |-> f, g |-> 0]>>, <<>>) : i \in 1 .. 3, f \in 0 .. 2},
   !.deletes = {}]

MCSchemas ==
  Families @@ (<<"blank">> :> Blank) @@ (<<"self cascade">> :> SelfRef("cascade"))
  @@ (<<"self restrict">> :> SelfRef("restrict")) @@ (<<"conflict">> :> Conflict)
  @@ (<<"copies">> :> Copies) @@ (<<"online unique">> :> Grows)
  @@ (<<"online foreign">> :> Online(New(Fk(11, "c", "f", "p", "id", "cascade", "restrict"))))
  @@ (<<"online check">> :> Online(New(Check(13, "c", "f", 2))))

R == INSTANCE Rows WITH Schemas <- MCSchemas

-----------------------------------------------------------------------------
(* Wire: what a client sends, and what happens around it.                  *)

Query(s) == [m |-> "Query", stmts |-> s]
Parse(s) == [m |-> "Parse", stmt |-> s]
Execute(k) == [m |-> "Execute", max |-> k]
Plain(n) == [m |-> n]
Still == [messages |-> 5, faults |-> 1, cancels |-> 0, writes |-> 1, versions |-> 4, rows |-> 3,
          limit |-> 9, offset |-> 0, flush |-> 2, attempts |-> 2, idleTimeout |-> FALSE,
          drain |-> FALSE, hangup |-> FALSE, script |-> {}]

\* Streamed SELECTs restarted, suspended, resumed and cancelled.
Streams == [Still EXCEPT !.cancels = 1,
              !.script = {Parse("select"), Plain("Bind"), Execute(0), Execute(1), Plain("Sync"),
                          Query(<<"select">>)}]
Retried == [Streams EXCEPT !.faults = 2, !.messages = 4]
Paged == [Retried EXCEPT !.offset = 1, !.limit = 1, !.messages = 5, !.script = {Query(<<"select">>)}, !.flush = 9]
Materialized == [Still EXCEPT !.script = {Parse("rows"), Plain("Bind"), Execute(0), Execute(2),
                                          Plain("Sync"), Plain("Close"), Plain("Flush")}]

\* Explicit blocks, with portals, savepoints and dropped indexes.
Blocks == [Still EXCEPT !.script = {Query(<<"begin">>), Query(<<"commit">>), Query(<<"select">>),
                                    Parse("select"), Plain("Bind"), Execute(1), Plain("Sync"),
                                    Query(<<"write", "write">>)}]
Saves == [Still EXCEPT !.messages = 6,
            !.script = {Query(<<x>>) : x \in {"begin", "commit", "savepoint", "rollbackto", "release",
                                              "rollback", "write", "create"}}]
Drops == [Saves EXCEPT !.script = {Query(<<x>>) : x \in {"begin", "commit", "rollback", "drop", "write"}}]

\* A drain, and (apart from it) the idle-in-transaction timeout.
Drains == [Still EXCEPT !.drain = TRUE, !.hangup = TRUE, !.messages = 4,
             !.script = {Query(<<"begin">>), Query(<<"commit">>), Parse("write"), Plain("Bind"),
                         Execute(0), Plain("Sync"), Plain("Terminate"), Query(<<"copy">>)}]
Idles == [Still EXCEPT !.idleTimeout = TRUE,
            !.script = {Query(<<"begin">>), Query(<<"write">>), Parse("write"), Plain("Bind"),
                        Execute(0), Plain("Sync"), Plain("Terminate")}]

Clients == [streams |-> Streams, retried |-> Retried, paged |-> Paged, materialized |-> Materialized,
            blocks |-> Blocks, saves |-> Saves, drops |-> Drops, drains |-> Drains, idles |-> Idles]
WireEnvironments == {Clients[c] : c \in DOMAIN Clients}

W == INSTANCE Wire WITH Environments <- WireEnvironments, env <- Clients[who]

-----------------------------------------------------------------------------
InRows == which = "rows" /\ R!Init /\ who = "idles" /\ W!Init
InWire == which = "wire" /\ R!Init /\ chosen = <<"blank">> /\ who \in DOMAIN Clients /\ W!Init

RowsStep == UNCHANGED <<which, wire>> /\ which = "rows" /\ R!Next
WireStep == UNCHANGED <<which, rowVars, who>> /\ which = "wire" /\ W!Next

allVars == <<which, rowVars, wire>>

MCSpec == /\ InRows \/ InWire
          /\ [][RowsStep \/ WireStep]_allVars
          /\ WF_allVars(UNCHANGED <<which, rowVars, who>> /\ which = "wire" /\ W!Loop)
          /\ WF_allVars(UNCHANGED <<which, rowVars, who>> /\ which = "wire" /\ W!IdleTimeout)
          /\ WF_allVars(UNCHANGED <<which, rowVars, who>> /\ which = "wire" /\ W!DrainHard)

-----------------------------------------------------------------------------
(* Every constraint holds of the rows a statement leaves (Rows.tla).       *)
ConstraintsHold == R!ConstraintsHold



(* A connection that Drain was told of ends (server.go: Drain).            *)
DrainEnds == W!DrainEnds
=============================================================================
