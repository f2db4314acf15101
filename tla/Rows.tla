-------------------------------- MODULE Rows --------------------------------
(***************************************************************************)
(* The statements that change rows (INSERT with ON CONFLICT, UPSERT,       *)
(* UPDATE, DELETE, COPY) and the constraints they keep: secondary index    *)
(* entries, uniqueness, CHECKs and foreign keys with their cascades, and   *)
(* the online changes that add and drop a constraint while rows are being  *)
(* written.  A statement reads the store as its transaction found it,      *)
(* buffers its writes in order, and flushes them at its end; what it must  *)
(* know of its own buffered writes it keeps in the maps modelled here      *)
(* (inserted/seen, the in-flight rows of its cascades).                    *)
(*                                                                         *)
(* Statements are atomic (Transactions models how), every gateway holds    *)
(* the current descriptors and no re-shard is running (SchemaChange models *)
(* both).  Keys have one column, the primary key is the column id, and a   *)
(* WHERE is the set of ids it selects.                                     *)
(***************************************************************************)
EXTENDS Integers, Sequences, FiniteSets, SequencesExt

CONSTANT Schemas    \* name -> tables, constraints, rows and the statements tried

VARIABLES chosen,   \* the schema chosen, by its name
          cons,     \* the constraints on the descriptors, in their order
          store,    \* the table data: a partial function from keys
          adding,   \* the online ADD CONSTRAINTs, by constraint id
          copy      \* COPY FROM STDIN in progress

vars == <<chosen, cons, store, adding, copy>>

env == Schemas[chosen]

Null == 0

\* A key is <<"row", t, 0, id, 0>>, or an entry of index x: <<"entry", t, x,
\* value, 0>> when the index is unique (its value is the row's id), and
\* <<"entry", t, x, value, id>> when it is not.
RowKey(t, id) == <<"row", t, 0, id, 0>>

\* The indexes of t: those of the table and those its constraints own.
Indexes(t) ==
  env.tables[t].indexes \o
  [i \in 1 .. Len(SelectSeq(cons, LAMBDA c : c.t = t /\ c.index)) |->
     LET c == SelectSeq(cons, LAMBDA d : d.t = t /\ d.index)[i]
     IN  [id |-> c.id, col |-> c.col, unique |-> c.kind = "unique"]]

EncodeIndexEntry(t, x, row) ==
  [key  |-> <<"entry", t, x.id, row[x.col], IF x.unique THEN 0 ELSE row.id>>,
   val  |-> row.id,
   skip |-> row[x.col] = Null]

\* Reads of the transaction: the statement's own writes are still buffered.
Has(k) == k \in DOMAIN store

RowsOf(t) == {store[k] : k \in {k \in DOMAIN store : k[1] = "row" /\ k[2] = t}}

\* fetchRows: the rows matching, in primary key order, limit of them (0: all).
fetchRows(matching, limit) ==
  LET all == SetToSortSeq(matching, LAMBDA a, b : a.id < b.id)
  IN  IF limit = 0 \/ Len(all) <= limit THEN all ELSE SubSeq(all, 1, limit)

-----------------------------------------------------------------------------
(* A statement in progress: its error, write batch, the keys it has        *)
(* written (inserted, seen), its cascade budget and in-flight rows.        *)

Begun == [err |-> "", wb |-> <<>>, seen |-> {}, budget |-> env.limit, flight |-> <<>>]

Fail(s, code) == [s EXCEPT !.err = code]

\* F runs unless the statement has failed.
Then(s, F(_)) == IF s.err # "" THEN s ELSE F(s)

Put(s, k, v)  == [s EXCEPT !.wb = Append(@, [key |-> k, del |-> FALSE, val |-> v])]
Delete(s, k)  == [s EXCEPT !.wb = Append(@, [key |-> k, del |-> TRUE, val |-> 0])]

\* RunBatch: the buffered writes, in order.
RunBatch(db, wb) ==
  LET last(k) == CHOOSE i \in DOMAIN wb :
                   wb[i].key = k /\ \A j \in DOMAIN wb : wb[j].key = k => j <= i
      keys == {wb[i].key : i \in DOMAIN wb}
      kept == (DOMAIN db \ keys) \cup {k \in keys : ~wb[last(k)].del}
  IN  [k \in kept |-> IF k \in keys THEN wb[last(k)].val ELSE db[k]]

\* A row's place in the in-flight map of the cascades.
Flying(s, k, deleted, row) ==
  [s EXCEPT !.flight = [q \in DOMAIN @ \cup {k} |->
                          IF q = k THEN [deleted |-> deleted, row |-> row] ELSE @[q]]]

-----------------------------------------------------------------------------
(* Index maintenance.                                                      *)

\* A new entry: refused when the statement or the store already has it.
PutEntry(s, x, e) ==
  IF x.unique /\ (e.key \in s.seen \/ Has(e.key)) THEN Fail(s, "unique_violation")
  ELSE Put([s EXCEPT !.seen = IF x.unique THEN @ \cup {e.key} ELSE @], e.key, e.val)

addIndexEntries(s, t, row) ==
  FoldLeft(LAMBDA a, x :
             LET e == EncodeIndexEntry(t, x, row)
             IN  Then(a, LAMBDA b : CASE e.skip /\ x.unique -> Fail(b, "not_null_violation")
                                      [] e.skip -> b
                                      [] OTHER  -> PutEntry(b, x, e)),
           s, Indexes(t))

dropIndexEntries(s, t, row) ==
  FoldLeft(LAMBDA a, x :
             LET e == EncodeIndexEntry(t, x, row)
             IN  IF e.skip THEN a ELSE Delete(a, e.key),
           s, Indexes(t))


UpdateEntry(s, t, x, old, new) ==
  LET o == EncodeIndexEntry(t, x, old)
      n == EncodeIndexEntry(t, x, new)
      dropped == IF o.skip THEN s ELSE Delete(s, o.key)
  IN  CASE n.skip /\ x.unique -> Fail(s, "not_null_violation")
        [] ~o.skip /\ ~n.skip /\ o.key = n.key -> s
        [] n.skip -> dropped
        [] OTHER  -> PutEntry(dropped, x, n)

updateIndexEntries(s, t, old, new) ==
  FoldLeft(LAMBDA a, x : Then(a, LAMBDA b : UpdateEntry(b, t, x, old, new)), s, Indexes(t))

-----------------------------------------------------------------------------
(* Constraint enforcement: the row guard.  A row that may be absent is a   *)
(* sequence of at most one row.                                            *)

checkChecks(s, t, row) ==
  IF \E c \in Range(cons) : c.kind = "check" /\ c.t = t /\ row[c.col] = c.bad
  THEN Fail(s, "check_violation") ELSE s

\* The parent of the row through fk is there, or (self) is a row this
\* statement inserted.
ParentPresent(s, fk, row, self) ==
  IF fk.ref = "id"
  THEN \/ self /\ fk.parent = fk.t /\ RowKey(fk.t, row[fk.col]) \in s.seen
       \/ Has(RowKey(fk.parent, row[fk.col]))
  ELSE fetchRows({r \in RowsOf(fk.parent) : r[fk.ref] = row[fk.col]}, 1) # <<>>

checkForeignKeys(s, t, old, row, self, exempt) ==
  IF \E fk \in Range(cons) :
       /\ fk.kind = "foreign" /\ fk.t = t /\ fk.id # exempt
       /\ row[fk.col] # Null
       /\ old = <<>> \/ old[1][fk.col] # row[fk.col]
       /\ ~ParentPresent(s, fk, row, self)
  THEN Fail(s, "foreign_key_violation") ELSE s

deleteRow(s, t, row) == dropIndexEntries(Delete(s, RowKey(t, row.id)), t, row)

\* rewriteRow: the statement's seen map is not the one used here.
rewriteRow(s, t, old, new) ==
  LET own == [s EXCEPT !.seen = {}]
      done == IF new.id = old.id
              THEN updateIndexEntries(Put(own, RowKey(t, new.id), new), t, old, new)
              ELSE IF Has(RowKey(t, new.id)) THEN Fail(own, "unique_violation")
              ELSE addIndexEntries(Put(deleteRow(own, t, old), RowKey(t, new.id), new), t, new)
  IN  [done EXCEPT !.seen = s.seen]

\* The children an earlier cascade deleted are gone; those it rewrote
\* continue from their in-flight version.
Live(s, t, rows) ==
  LET here == SelectSeq(rows, LAMBDA r : ~(RowKey(t, r.id) \in DOMAIN s.flight
                                           /\ s.flight[RowKey(t, r.id)].deleted))
  IN  [i \in DOMAIN here |->
         LET k == RowKey(t, here[i].id)
         IN  IF k \in DOMAIN s.flight THEN s.flight[k].row ELSE here[i]]

RECURSIVE enforceReferencing(_, _, _, _)

\* One child of a deleted or changed row, under CASCADE or SET NULL.
Cascade(s, fk, action, new, child) ==
  IF action = "cascade" /\ new = <<>>
  THEN Then(enforceReferencing(s, fk.t, child, <<>>), LAMBDA a :
         Flying(deleteRow(a, fk.t, child), RowKey(fk.t, child.id), TRUE, child))
  ELSE LET to == IF action = "set null" THEN Null ELSE new[1][fk.ref]
           updated == [child EXCEPT ![fk.col] = to]
       IN  IF action = "set null" /\ fk.col \in env.tables[fk.t].required
           THEN Fail(s, "not_null_violation")
           ELSE Then(Then(Then(Then(checkChecks(s, fk.t, updated),
                  LAMBDA a : checkForeignKeys(a, fk.t, <<child>>, updated, FALSE, fk.id)),
                  LAMBDA a : enforceReferencing(a, fk.t, child, <<updated>>)),
                  LAMBDA a : rewriteRow(a, fk.t, child, updated)),
                  LAMBDA a : LET was == IF updated.id = child.id THEN a
                                        ELSE Flying(a, RowKey(fk.t, child.id), TRUE, child)
                             IN  Flying(was, RowKey(fk.t, updated.id), FALSE, updated))

\* The rows that reference old through fk, when old goes (new = <<>>) or its
\* referenced column changes.
Referencing(s, fk, old, new) ==
  LET v == old[fk.ref]
      action == IF new = <<>> THEN fk.del ELSE fk.upd
      limit == IF action = "restrict" THEN 1 ELSE s.budget + 1
      rows == Live(s, fk.t, fetchRows({r \in RowsOf(fk.t) : r[fk.col] = v}, limit))
  IN  CASE v = Null \/ (new # <<>> /\ new[1][fk.ref] = v) -> s
        [] rows = <<>> -> s
        [] action = "restrict" -> Fail(s, "foreign_key_violation")
        [] Len(rows) > s.budget -> Fail(s, "program_limit_exceeded")
        [] OTHER -> FoldLeft(LAMBDA a, r : Then(a, LAMBDA b : Cascade(b, fk, action, new, r)),
                             [s EXCEPT !.budget = @ - Len(rows)], rows)

enforceReferencing(s, t, old, new) ==
  FoldLeft(LAMBDA a, fk : Then(a, LAMBDA b : Referencing(b, fk, old, new)),
           s, SelectSeq(cons, LAMBDA c : c.kind = "foreign" /\ c.parent = t))

checkInsert(s, t, row) ==
  Then(checkChecks(s, t, row), LAMBDA a : checkForeignKeys(a, t, <<>>, row, TRUE, 0))

\* seeded fault: a changed row's own foreign keys are not looked up
CheckUpdateParentOnly(s, t, old, new) ==
  Then(checkChecks(s, t, new), LAMBDA a : enforceReferencing(a, t, old, <<new>>))

checkUpdate(s, t, old, new) ==
  Then(Then(checkChecks(s, t, new),
       LAMBDA a : checkForeignKeys(a, t, <<old>>, new, FALSE, 0)),
       LAMBDA a : enforceReferencing(a, t, old, <<new>>))

checkDelete(s, t, old) == enforceReferencing(s, t, old, <<>>)

-----------------------------------------------------------------------------
(* The statements.                                                         *)

\* buildInsertRow: NOT NULL is checked before anything is written.
Refused(t, row) == \E c \in env.tables[t].required : row[c] = Null

insertRow(s, t, row) ==
  IF RowKey(t, row.id) \in s.seen \/ Has(RowKey(t, row.id)) THEN Fail(s, "unique_violation")
  ELSE Then(addIndexEntries(Put(s, RowKey(t, row.id), row), t, row),
            LAMBDA a : [a EXCEPT !.seen = @ \cup {RowKey(t, row.id)}])

\* The row the proposed one collides with: by primary key, then by each
\* unique index; arbiter is the column that found it.
Collision(t, row) ==
  LET hits == SelectSeq(<<[col |-> "id", unique |-> TRUE, id |-> 0]>> \o Indexes(t),
                LAMBDA x : /\ x.unique /\ row[x.col] # Null
                           /\ IF x.col = "id" THEN Has(RowKey(t, row.id))
                              ELSE LET k == EncodeIndexEntry(t, x, row).key
                                   IN  Has(k) /\ Has(RowKey(t, store[k])))
  IN  IF hits = <<>> THEN <<>>
      ELSE LET x == hits[1]
               id == IF x.col = "id" THEN row.id ELSE store[EncodeIndexEntry(t, x, row).key]
           IN  <<[arbiter |-> x.col, old |-> store[RowKey(t, id)]]>>

\* ON CONFLICT: oc.target is the arbiter's column ("any" without one).
insertOnConflict(s, t, row, oc) ==
  LET hit == Collision(t, row)
      old == hit[1].old
      new == [c \in DOMAIN row |-> IF c \in oc.set THEN row[c] ELSE old[c]]
  IN  CASE RowKey(t, row.id) \in s.seen /\ oc.nothing -> s
        [] RowKey(t, row.id) \in s.seen -> Fail(s, "cardinality_violation")
        [] hit = <<>> -> Then(insertRow(s, t, row), LAMBDA a : checkInsert(a, t, row))
        [] oc.target # "any" /\ hit[1].arbiter # oc.target -> Fail(s, "unique_violation")
        [] oc.nothing -> s
        [] ~oc.where[old.id] -> s
        [] Refused(t, new) -> Fail(s, "not_null_violation")
        [] OTHER ->
             Then(Then(checkUpdate(s, t, old, new),
                  LAMBDA a : updateIndexEntries(Put(a, RowKey(t, old.id), new), t, old, new)),
                  LAMBDA a : [a EXCEPT !.seen = @ \cup {RowKey(t, old.id)}])

execInsert(t, rows, oc) ==
  IF \E i \in DOMAIN rows : Refused(t, rows[i]) THEN Fail(Begun, "not_null_violation")
  ELSE FoldLeft(LAMBDA a, r : Then(a, LAMBDA b :
                  IF oc = <<>>
                  THEN Then(insertRow(b, t, r), LAMBDA c : checkInsert(c, t, r))
                  ELSE insertOnConflict(b, t, r, oc[1])),
                Begun, rows)

\* UPDATE: the new values of every row are computed before any is written.
execUpdate(t, ids, set) ==
  LET rows == fetchRows({r \in RowsOf(t) : r.id \in ids}, 0)
      New(r) == [r EXCEPT ![set.col] = set.to[@]]
  IN  IF \E i \in DOMAIN rows : Refused(t, New(rows[i])) THEN Fail(Begun, "not_null_violation")
      ELSE FoldLeft(LAMBDA a, r :
             Then(Then(a, LAMBDA b : checkUpdate(b, t, r, New(r))),
                  LAMBDA b : updateIndexEntries(Put(b, RowKey(t, r.id), New(r)), t, r, New(r))),
             Begun, rows)

execDelete(t, ids) ==
  FoldLeft(LAMBDA a, r : Then(Then(a, LAMBDA b : checkDelete(b, t, r)),
                              LAMBDA b : deleteRow(b, t, r)),
           Begun, fetchRows({r \in RowsOf(t) : r.id \in ids}, 0))

\* The statement's effect: all of its writes, or none.
Commit(s) == store' = IF s.err = "" THEN RunBatch(store, s.wb) ELSE store

Insert == /\ \E q \in env.inserts : Commit(execInsert(q.t, q.rows, q.oc))
          /\ UNCHANGED <<chosen, cons, adding, copy>>

Update == /\ \E q \in env.updates : Commit(execUpdate(q.t, q.ids, q.set))
          /\ UNCHANGED <<chosen, cons, adding, copy>>

DeleteFrom == /\ \E q \in env.deletes : Commit(execDelete(q.t, q.ids))
              /\ UNCHANGED <<chosen, cons, adding, copy>>

-----------------------------------------------------------------------------
(* COPY FROM STDIN: rows are buffered and committed a chunk at a time.     *)

NoCopy == [t |-> "", rows |-> <<>>, buf |-> <<>>, committed |-> 0]

BeginCopy == /\ copy = NoCopy
             /\ \E c \in env.copies : copy' = [NoCopy EXCEPT !.t = c.t, !.rows = c.rows]
             /\ UNCHANGED <<chosen, cons, store, adding>>

\* flushChunk: its rows insert as one statement would; the rest stay out.
flushChunk(c, buf) ==
  LET s == execInsert(c.t, buf, <<>>)
  IN  /\ Commit(s)
      /\ copy' = IF s.err = "" THEN [c EXCEPT !.buf = <<>>, !.committed = @ + Len(buf)]
                 ELSE NoCopy

AddRow == /\ copy.t # "" /\ copy.rows # <<>>
          /\ LET buf == Append(copy.buf, Head(copy.rows))
                 c == [copy EXCEPT !.rows = Tail(@)]
             IN  IF Len(buf) >= env.chunk THEN flushChunk(c, buf)
                 ELSE copy' = [c EXCEPT !.buf = buf] /\ UNCHANGED store
          /\ UNCHANGED <<chosen, cons, adding>>

Finish == /\ copy.t # "" /\ copy.rows = <<>>
          /\ Commit(execInsert(copy.t, copy.buf, <<>>))
          /\ copy' = NoCopy
          /\ UNCHANGED <<chosen, cons, adding>>

Abort == copy.t # "" /\ copy' = NoCopy /\ UNCHANGED <<chosen, cons, store, adding>>

-----------------------------------------------------------------------------
(* Online ADD CONSTRAINT: publish, backfill the index, validate the rows,  *)
(* mark it validated; a failure removes it again.                          *)

ConstraintAt(id) == CHOOSE i \in DOMAIN cons : cons[i].id = id
Published(id) == \E i \in DOMAIN cons : cons[i].id = id

\* The rows a sweep plans from: the ids below the boundary, from the cursor.
Sweep(step, t) == [step |-> step, cursor |-> 0, planned |-> {r.id : r \in RowsOf(t)}]

AddConstraint(c) ==
  /\ adding[c.id].step = "none" /\ ~Published(c.id)
  /\ cons' = Append(cons, c)
  /\ adding' = [adding EXCEPT ![c.id] = Sweep(IF c.index THEN "backfill" ELSE "validate", c.t)]
  /\ UNCHANGED <<chosen, store, copy>>

\* One chunk, the rows up to the next planned one (or all of the tail).
Chunk(a, t) ==
  LET ahead == {i \in a.planned : i > a.cursor}
      upto == IF ahead = {} THEN env.top ELSE CHOOSE i \in ahead : \A j \in ahead : i <= j
  IN  [upto |-> upto, last |-> ahead = {}, rows |-> {r \in RowsOf(t) : a.cursor < r.id /\ r.id <= upto}]

\* backfillChunk: an entry of another row is a duplicate.
backfillChunk(c) ==
  LET a == adding[c.id]
      k == Chunk(a, c.t)
      x == [id |-> c.id, col |-> c.col, unique |-> c.kind = "unique"]
      E(r) == EncodeIndexEntry(c.t, x, r)
      bad == x.unique /\ \E r \in k.rows :
               E(r).skip \/ (Has(E(r).key) /\ store[E(r).key] # E(r).val)
      wb == SetToSeq({[key |-> E(r).key, del |-> FALSE, val |-> E(r).val] :
                        r \in {r \in k.rows : ~E(r).skip}})
  IN  /\ a.step = "backfill"
      /\ IF bad THEN adding' = [adding EXCEPT ![c.id].step = "failed"] /\ UNCHANGED store
         ELSE /\ store' = RunBatch(store, wb)
              /\ adding' = [adding EXCEPT ![c.id] =
                   IF ~k.last THEN [a EXCEPT !.cursor = k.upto]
                   ELSE IF c.kind = "unique" THEN [a EXCEPT !.step = "done"]
                   ELSE Sweep("validate", c.t)]
      /\ UNCHANGED <<chosen, cons, copy>>

\* validateConstraintRows: one chunk; an empty plan ends the sweep.
validateChunk(c) ==
  LET a == adding[c.id]
      k == Chunk(a, c.t)
      bad == \E r \in k.rows :
               IF c.kind = "check" THEN r[c.col] = c.bad
               ELSE r[c.col] # Null /\ ~ParentPresent(Begun, c, r, FALSE)
  IN  /\ a.step = "validate"
      /\ IF ~k.last /\ bad THEN adding' = [adding EXCEPT ![c.id].step = "failed"] /\ UNCHANGED cons
         ELSE IF ~k.last THEN adding' = [adding EXCEPT ![c.id].cursor = k.upto] /\ UNCHANGED cons
         ELSE /\ cons' = [cons EXCEPT ![ConstraintAt(c.id)].validated = TRUE]
              /\ adding' = [adding EXCEPT ![c.id].step = "done"]
      /\ UNCHANGED <<chosen, store, copy>>

\* removeConstraint: the constraint and the index it owns leave the table.
Without(id) == SelectSeq(cons, LAMBDA c : c.id # id)

\* wipeIndexEntries
Wiped(t, x) == [k \in {k \in DOMAIN store : ~(k[1] = "entry" /\ k[2] = t /\ k[3] = x)} |-> store[k]]

\* The constraint whose index abandonConstraint wipes.  It reads the index
\* through a pointer into the list removeConstraint has just closed up: the
\* table's next constraint, when there is one.
Pointed(c) ==
  LET mine == SelectSeq(cons, LAMBDA d : d.t = c.t)
      i == CHOOSE i \in DOMAIN mine : mine[i].id = c.id
  IN  IF i < Len(mine) THEN mine[i + 1] ELSE mine[i]

abandonConstraint(c) ==
  /\ adding[c.id].step = "failed"
  /\ cons' = Without(c.id)
  /\ store' = IF Pointed(c).index THEN Wiped(c.t, Pointed(c).id) ELSE store
  /\ adding' = [adding EXCEPT ![c.id].step = "done"]
  /\ UNCHANGED <<chosen, copy>>

DropConstraint ==
  /\ \E c \in Range(cons) :
       /\ c.validated /\ c.drop
       /\ cons' = Without(c.id)
       /\ store' = IF c.index THEN Wiped(c.t, c.id) ELSE store
  /\ UNCHANGED <<chosen, adding, copy>>

-----------------------------------------------------------------------------
Init == /\ chosen \in DOMAIN Schemas
        /\ cons = env.cons
        /\ store = env.store
        /\ adding = [i \in {c.id : c \in env.adds} |-> [step |-> "none", cursor |-> 0, planned |-> {}]]
        /\ copy = NoCopy

Next == \/ Insert \/ Update \/ DeleteFrom
        \/ BeginCopy \/ AddRow \/ Finish \/ Abort
        \/ \E c \in env.adds : AddConstraint(c) \/ backfillChunk(c) \/ validateChunk(c)
                               \/ abandonConstraint(c)
        \/ DropConstraint

Spec == Init /\ [][Next]_vars

-----------------------------------------------------------------------------
(* Every foreign key that the catalog calls validated holds: a referencing *)
(* row's parent is there, after every statement, cascade and online change *)
(* (constraint.go: enforceReferencing, checkForeignKeys,                   *)
(* validateConstraintRows); likewise every validated CHECK.                *)
ConstraintsHold ==
  \A c \in Range(cons) : c.validated =>
    \A r \in RowsOf(c.t) :
      CASE c.kind = "foreign" -> r[c.col] # Null => \E p \in RowsOf(c.parent) : p[c.ref] = r[c.col]
        [] c.kind = "check"   -> r[c.col] # c.bad
        [] OTHER -> TRUE

=============================================================================
