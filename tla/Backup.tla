------------------------------- MODULE Backup -------------------------------
(***************************************************************************)
(* Backups and restores (server/backup.go) over the export of a span       *)
(* (storage/mvcc_export.go): a full backup and incrementals on top of it,  *)
(* taken in chunks beside transactions, their abandoned and staged         *)
(* intents, garbage collection and DDL; a restore applies a chain of them  *)
(* to an empty cluster.                                                    *)
(*                                                                         *)
(* A key is <<table, n>>; <<table, 0>> is the table's descriptor.  Each    *)
(* table's data is a range, the descriptors are range 0.  A value of 0 is  *)
(* a deletion.  env: tables (id -> its data keys), loaded (keys written at *)
(* time 1), txns (id -> the writes in order), chunk (backupExportChunk and *)
(* restoreChunk), ttl of GC, and how many attempted backups, collections   *)
(* and failures there may be (left).                                       *)
(***************************************************************************)
EXTENDS Integers, Sequences, SequencesExt, FiniteSets, FiniteSetsExt, Functions, TLC

CONSTANT Environments

VARIABLES
  env,
  clock,      \* the cluster's clock
  versions,   \* key -> set of committed [ts, val]
  intents,    \* key -> <<>> or <<[txn, ts, val]>>
  txns,       \* transaction -> [status, live, ts, done]
  readAt,     \* key -> the timestamp cache
  threshold,  \* range -> gcThreshold
  backups,    \* the complete backups: manifests with their data files
  running,    \* <<>> or <<the backup in progress>>
  restore,    \* <<>> or <<the restore, with the target's state>>
  written,    \* key -> every version ever committed
  left        \* attempts, collections and failures still to come

vars == <<env, clock, versions, intents, txns, readAt, threshold, backups, running, restore,
          written, left>>

Tables == DOMAIN env.tables
DescKeys == {<<t, 0>> : t \in Tables}
DataKeys(t) == {<<t, n>> : n \in env.tables[t]}
Keys == DescKeys \union UNION {DataKeys(t) : t \in Tables}
RangeOf(k) == IF k[2] = 0 THEN 0 ELSE k[1]
Txns == DOMAIN env.txns

Newest(vs) == CHOOSE v \in vs : \A w \in vs : w.ts <= v.ts

----------------------------------------------------------------------------
(* Transactions, as far as an export meets them                            *)

Begin(t) ==
  /\ txns[t].status = "unborn"
  /\ clock' = clock + 1
  /\ txns' = [txns EXCEPT ![t].status = "open", ![t].ts = clock']
  /\ UNCHANGED <<env, versions, intents, readAt, threshold, backups, running, restore, written, left>>

\* A write lands above what was read and written there; at or below the GC
\* threshold it is refused.
Write(t) ==
  /\ txns[t].status = "open" /\ txns[t].live /\ txns[t].done < Len(env.txns[t])
  /\ LET w == env.txns[t][txns[t].done + 1]
         seen == {readAt[w.key] + 1, txns[t].ts} \union {v.ts + 1 : v \in versions[w.key]}
         ts == Max(seen)
     IN /\ intents[w.key] = <<>>
        /\ IF txns[t].ts <= threshold[RangeOf(w.key)]
           THEN /\ txns' = [txns EXCEPT ![t].status = "aborted"]
                /\ UNCHANGED intents
           ELSE /\ intents' = [intents EXCEPT ![w.key] = <<[txn |-> t, ts |-> ts, val |-> w.val]>>]
                /\ txns' = [txns EXCEPT ![t].ts = ts, ![t].done = @ + 1]
        /\ clock' = Max({clock, ts})
  /\ UNCHANGED <<env, versions, readAt, threshold, backups, running, restore, written, left>>

\* All intents are in place: the transaction is committed, its record staged
\* or (CommitTxn) committed.
Stage(t) ==
  /\ txns[t].status = "open" /\ txns[t].live /\ txns[t].done = Len(env.txns[t])
  /\ txns' = [txns EXCEPT ![t].status = "staging"]
  /\ written' = [k \in Keys |-> written[k] \union
       {[ts |-> txns[t].ts, val |-> i.val] : i \in {j \in Range(intents[k]) : j.txn = t}}]
  /\ UNCHANGED <<env, clock, versions, intents, readAt, threshold, backups, running, restore, left>>

CommitTxn(t) ==
  /\ txns[t].status = "staging" /\ txns[t].live
  /\ txns' = [txns EXCEPT ![t].status = "committed"]
  /\ UNCHANGED <<env, clock, versions, intents, readAt, threshold, backups, running, restore, written, left>>

\* The coordinator is gone; its heartbeats expire.
Die(t) ==
  /\ txns[t].status \in {"open", "staging", "committed"} /\ txns[t].live /\ left.failures > 0
  /\ txns' = [txns EXCEPT ![t].live = FALSE]
  /\ left' = [left EXCEPT !.failures = @ - 1]
  /\ UNCHANGED <<env, clock, versions, intents, readAt, threshold, backups, running, restore, written>>

\* Key k's intent resolved with its transaction's outcome in ts.
Settled(k, ts) ==
  LET i == intents[k][1]
  IN IF ts[i.txn].status = "committed"
     THEN versions[k] \union {[ts |-> ts[i.txn].ts, val |-> i.val]} ELSE versions[k]

Resolve(k) ==
  /\ intents[k] # <<>>
  /\ txns[intents[k][1].txn].status \in {"committed", "aborted"} /\ txns[intents[k][1].txn].live
  /\ versions' = [versions EXCEPT ![k] = Settled(k, txns)]
  /\ intents' = [intents EXCEPT ![k] = <<>>]
  /\ UNCHANGED <<env, clock, txns, readAt, threshold, backups, running, restore, written, left>>

\* Versions shadowed at the threshold go, and tombstones at or below it.
CollectGarbage(r) ==
  /\ left.collections > 0 /\ clock - env.ttl > threshold[r]
  /\ LET thr == clock - env.ttl
         kept(vs) ==
           LET old == {v \in vs : v.ts <= thr}
           IN (vs \ old) \union {v \in old : v = Newest(old) /\ v.val # 0}
     IN /\ threshold' = [threshold EXCEPT ![r] = thr]
        /\ versions' = [k \in Keys |-> IF RangeOf(k) = r THEN kept(versions[k]) ELSE versions[k]]
  /\ left' = [left EXCEPT !.collections = @ - 1]
  /\ UNCHANGED <<env, clock, intents, txns, readAt, backups, running, restore, written>>

----------------------------------------------------------------------------
(* Exporting a span                                                        *)

Conflicts(span, endTS) == {k \in span : intents[k] # <<>> /\ intents[k][1].ts <= endTS}

\* The keys whose newest version at endTS lies in the window.
Changed(span, startTS, endTS) ==
  {k \in span : \E v \in versions[k] : startTS < v.ts /\ v.ts <= endTS}

\* (MVCCExport) At most chunk records in key order, and what is left to read.
MVCCExport(span, startTS, endTS) ==
  LET order == SetToSortSeq(Changed(span, startTS, endTS), LAMBDA a, b : a[1] < b[1] \/ (a[1] = b[1] /\ a[2] < b[2]))
      page == SubSeq(order, 1, Min({env.chunk, Len(order)}))
  IN [records |-> [i \in DOMAIN page |->
         [key |-> page[i],
          val |-> Newest({v \in versions[page[i]] : v.ts <= endTS}).val]],
      resume |-> IF Len(page) < env.chunk THEN {}
                 ELSE {k \in span : LET last == page[Len(page)]
                                    IN k[1] > last[1] \/ (k[1] = last[1] /\ k[2] > last[2])}]

\* (executeBatch) Nothing the export would show has been collected.
Admitted(r, startTS, endTS) ==
  /\ endTS > threshold[r]
  /\ startTS = 0 \/ startTS >= threshold[r]

\* (PushAndResolveIntents) A finished, staged or abandoned transaction's
\* intent is resolved; a live one is waited for.
Pushed(k) ==
  LET t == intents[k][1].txn
  IN CASE txns[t].status = "staging" -> [txns EXCEPT ![t].status = "committed"]
       [] txns[t].status = "open" /\ ~txns[t].live -> [txns EXCEPT ![t].status = "aborted"]
       [] OTHER -> txns

PushAndResolveIntents(ks) ==
  \E k \in ks :
    LET after == Pushed(k)
    IN /\ after[intents[k][1].txn].status \in {"committed", "aborted"}
       /\ txns' = after
       /\ versions' = [versions EXCEPT ![k] = Settled(k, after)]
       /\ intents' = [intents EXCEPT ![k] = <<>>]

----------------------------------------------------------------------------
(* A backup                                                                *)

\* A full backup, or one on top of a complete one: its window opens at the
\* base's end.
Start(baseTS) ==
  /\ running = <<>> /\ left.attempts > 0
  /\ left' = [left EXCEPT !.attempts = @ - 1]
  /\ clock' = clock + 1
  /\ running' = <<[base |-> baseTS, end |-> clock', span |-> DescKeys, range |-> 0,
                   tables |-> {}, todo |-> {}, files |-> <<>>]>>
  /\ UNCHANGED <<env, versions, intents, txns, readAt, threshold, backups, restore, written>>

StartTS(b) == IF b.range = 0 THEN 0 ELSE b.base

\* The next table's file, in the order of ids; after the last the manifest.
NextSpan(b) ==
  IF b.todo = {} THEN [b EXCEPT !.range = -1]
  ELSE LET t == Min(b.todo)
       IN [b EXCEPT !.range = t, !.span = DataKeys(t), !.todo = @ \ {t}, !.files = (t :> <<>>) @@ @]

\* seeded fault: the test for a deleted descriptor is inverted
PagedDeleted(b, page) ==
  LET with ==
        IF b.range = 0
        THEN LET found == {page.records[i].key[1] : i \in {j \in DOMAIN page.records : page.records[j].val = 0}}
             IN [b EXCEPT !.tables = @ \union found, !.todo = @ \union found]
        ELSE [b EXCEPT !.files[b.range] = @ \o page.records]
  IN IF page.resume = {} THEN NextSpan(with) ELSE [with EXCEPT !.span = page.resume]

\* What a page of the export adds: descriptors (deleted ones are skipped) or
\* records of the table's file.
Paged(b, page) ==
  LET with ==
        IF b.range = 0
        THEN LET found == {page.records[i].key[1] : i \in {j \in DOMAIN page.records : page.records[j].val # 0}}
             IN [b EXCEPT !.tables = @ \union found, !.todo = @ \union found]
        ELSE [b EXCEPT !.files[b.range] = @ \o page.records]
  IN IF page.resume = {} THEN NextSpan(with) ELSE [with EXCEPT !.span = page.resume]

\* The cache is bumped before the span is evaluated.
Bumped(span, endTS) == [k \in Keys |-> IF k \in span THEN Max({readAt[k], endTS}) ELSE readAt[k]]

\* (exportAll) One round: refused, conflicting, or a page.
Export ==
  /\ running # <<>> /\ running[1].range >= 0
  /\ LET b == running[1]
         blocked == Conflicts(b.span, b.end)
     IN IF ~Admitted(b.range, StartTS(b), b.end)
        THEN /\ running' = <<>>
             /\ UNCHANGED <<versions, intents, txns, readAt>>
        ELSE /\ readAt' = Bumped(b.span, b.end)
             /\ IF blocked # {}
                THEN PushAndResolveIntents(blocked) /\ UNCHANGED running
                ELSE /\ running' = <<Paged(b, MVCCExport(b.span, StartTS(b), b.end))>>
                     /\ UNCHANGED <<versions, intents, txns>>
  /\ UNCHANGED <<env, clock, threshold, backups, restore, written, left>>

\* The manifest is written last and renamed into place.
Manifest ==
  /\ running # <<>> /\ running[1].range = -1
  /\ backups' = Append(backups, [base |-> running[1].base, end |-> running[1].end,
                                 tables |-> running[1].tables, files |-> running[1].files])
  /\ running' = <<>>
  /\ UNCHANGED <<env, clock, versions, intents, txns, readAt, threshold, restore, written, left>>

\* The node stops, or the request is cancelled: a directory without manifest.
Interrupt ==
  /\ running # <<>> /\ left.failures > 0
  /\ running' = <<>>
  /\ left' = [left EXCEPT !.failures = @ - 1]
  /\ UNCHANGED <<env, clock, versions, intents, txns, readAt, threshold, backups, restore, written>>

----------------------------------------------------------------------------
(* A restore                                                               *)

\* (RunRestore) A full backup first, each next one based on the one before.
Chains(chain) ==
  /\ chain # <<>> /\ backups[chain[1]].base = 0
  /\ \A i \in 2 .. Len(chain) : backups[chain[i]].base = backups[chain[i - 1]].end

Final(r) == backups[r.chain[Len(r.chain)]]

\* The metadata of the last manifest, in one transaction.
RestoreMetadata(chain) ==
  /\ restore = <<>> /\ running = <<>> /\ Chains(chain)
  /\ restore' = <<[chain |-> chain, phase |-> "ids", descs |-> backups[chain[Len(chain)]].tables,
                   rows |-> [k \in Keys |-> 0], idGen |-> 0, at |-> 1, table |-> 0, offset |-> 0]>>
  /\ UNCHANGED <<env, clock, versions, intents, txns, readAt, threshold, backups, running, written, left>>

\* Somebody on the new cluster takes an id meanwhile.
TakeID ==
  /\ restore # <<>> /\ restore[1].phase = "ids" /\ restore[1].idGen < 1
  /\ restore' = <<[restore[1] EXCEPT !.idGen = @ + 1]>>
  /\ UNCHANGED <<env, clock, versions, intents, txns, readAt, threshold, backups, running, written, left>>

\* The generator passes every restored id.
RaiseIDs ==
  /\ restore # <<>> /\ restore[1].phase = "ids"
  /\ LET r == restore[1]
         maxID == Max(r.descs \union {0})
     IN restore' = <<[r EXCEPT !.phase = "data",
                       !.idGen = IF maxID > 0 /\ r.idGen <= maxID THEN maxID + 1 ELSE r.idGen]>>
  /\ UNCHANGED <<env, clock, versions, intents, txns, readAt, threshold, backups, running, written, left>>

\* The files of a manifest that are restored, from table t on.
FilesFrom(r, t) == {u \in backups[r.chain[r.at]].tables \intersect r.descs : u > t}

\* One transaction of at most chunk records of the file at hand, or the step
\* to the next file, manifest, or the end.
RestoreData ==
  /\ restore # <<>> /\ restore[1].phase = "data"
  /\ LET r == restore[1]
         file == IF r.table = 0 THEN <<>> ELSE backups[r.chain[r.at]].files[r.table]
         page == SubSeq(file, r.offset + 1, Min({Len(file), r.offset + env.chunk}))
         rows == FoldLeft(LAMBDA m, rec : [m EXCEPT ![rec.key] = rec.val], r.rows, page)
     IN restore' =
          <<IF page # <<>> THEN [r EXCEPT !.rows = rows, !.offset = @ + Len(page)]
            ELSE IF FilesFrom(r, r.table) # {}
            THEN [r EXCEPT !.table = Min(FilesFrom(r, r.table)), !.offset = 0]
            ELSE IF r.at < Len(r.chain) THEN [r EXCEPT !.at = @ + 1, !.table = 0, !.offset = 0]
            ELSE [r EXCEPT !.phase = "done"]>>
  /\ UNCHANGED <<env, clock, versions, intents, txns, readAt, threshold, backups, running, written, left>>

----------------------------------------------------------------------------

Init ==
  /\ env \in Environments
  /\ clock = 1
  /\ versions = [k \in Keys |-> IF k \in env.loaded THEN {[ts |-> 1, val |-> 9]} ELSE {}]
  /\ intents = [k \in Keys |-> <<>>]
  /\ txns = [t \in Txns |-> [status |-> "unborn", live |-> TRUE, ts |-> 0, done |-> 0]]
  /\ readAt = [k \in Keys |-> 0]
  /\ threshold = [r \in Tables \union {0} |-> 0]
  /\ backups = <<>> /\ running = <<>> /\ restore = <<>>
  /\ written = versions
  /\ left = env.left

\* A restore reads finished files only: the source has stopped by then.
Source ==
  \/ \E t \in Txns : Begin(t) \/ Write(t) \/ Stage(t) \/ CommitTxn(t) \/ Die(t)
  \/ \E k \in Keys : Resolve(k)
  \/ \E r \in Tables \union {0} : CollectGarbage(r)
  \/ \E baseTS \in {0} \union {b.end : b \in Range(backups)} : Start(baseTS)
  \/ Export \/ Manifest \/ Interrupt

Next ==
  \/ restore = <<>> /\ Source
  \/ \E chain \in SeqOf(DOMAIN backups, Len(backups)) : RestoreMetadata(chain)
  \/ TakeID \/ RaiseIDs \/ RestoreData

Spec == Init /\ [][Next]_vars

----------------------------------------------------------------------------

\* What key k reads at ts in a history.
At(vs, ts) == LET seen == {v \in vs : v.ts <= ts} IN IF seen = {} THEN 0 ELSE Newest(seen).val

\* (RunBackup, RunRestore) Whatever ran beside the backups of a chain, the
\* restored cluster holds the tables and the rows that were committed at the
\* end of the last one, and its id generator is past the restored ids.
RestoreRight ==
  restore # <<>> /\ restore[1].phase = "done" =>
    LET r == restore[1]
        ts == Final(r).end
        alive == {t \in Tables : At(written[<<t, 0>>], ts) # 0}
    IN /\ r.descs = alive
       /\ \A t \in alive : \A k \in DataKeys(t) : r.rows[k] = At(written[k], ts)
       /\ \A t \in alive : t < r.idGen

-----------------------------------------------------------------------------
(* The situations in which backups are taken and restored.                 *)

Put(t, n, v) == [key |-> <<t, n>>, val |-> v]

Case(tables, loaded, scripts, chunk, attempts, collections, failures) ==
    [tables |-> tables, loaded |-> loaded, txns |-> scripts, chunk |-> chunk, ttl |-> 2,
     left |-> [attempts |-> attempts, collections |-> collections, failures |-> failures]]

\* No cluster.
Unbacked == Case(<<>>, {}, <<>>, 1, 0, 0, 0)

One == 1 :> {1, 2}

\* A transaction over two keys and one that deletes, in pages of one record.
Moving == Case(One, {<<1, 0>>, <<1, 1>>}, <<<<Put(1, 2, 5), Put(1, 1, 6)>>, <<Put(1, 1, 0)>>>>, 1, 2, 0, 0)

\* Coordinators and a backup fail.
Failing == Case(One, {<<1, 0>>, <<1, 1>>}, <<<<Put(1, 1, 5), Put(1, 2, 6)>>>>, 2, 2, 0, 2)

\* Deletions are collected between a backup and the next.
Collected == Case(1 :> {1}, {<<1, 0>>, <<1, 1>>}, <<<<Put(1, 1, 0)>>, <<Put(1, 1, 7)>>>>, 2, 2, 1, 0)

\* A table is dropped, and another created and filled, beside a chain.
Redefined == Case(1 :> {1} @@ 2 :> {1}, {<<1, 0>>, <<1, 1>>},
                  <<<<Put(1, 0, 0)>>, <<Put(2, 0, 3), Put(2, 1, 4)>>>>, 2, 2, 0, 0)

Cases == {Moving, Failing, Collected, Redefined}
=============================================================================
