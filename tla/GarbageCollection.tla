------------------------- MODULE GarbageCollection -------------------------
(***************************************************************************)
(* Garbage collection of versions and of transaction records (gc.go), with *)
(* the retention of timeseries tables (server/retention.go), against       *)
(* transactions whose coordinators may stall, fail to clean up, or be      *)
(* pushed.  The leader enumerates garbage in a snapshot, resolves what the *)
(* committed records among it still owe, and proposes the deletions in     *)
(* chunks; each applies under a latch on the whole range.                  *)
(*                                                                         *)
(* env: ranges (each a set of keys), table retention, the store's ttl,     *)
(* chunk (gcChunkSize), expiration (TxnExpiration), the writes of each     *)
(* transaction (key to "put" or "delete") and the last moment, horizon.    *)
(***************************************************************************)
EXTENDS Integers, Sequences, FiniteSets, Functions

CONSTANT Environments

VARIABLES
  env,
  clock,       \* the cluster's clock
  versions,    \* key -> committed versions [ts, dead]
  intents,     \* key -> <<>> or <<[txn, dead]>>
  records,     \* transaction -> <<>> or <<[status, ts, beat, keys]>>
  txns,        \* transaction -> its coordinator's [phase, born, ts, wrote]
  told,        \* transaction -> the outcomes someone was told
  threshold,   \* range -> gcThreshold
  pass,        \* range -> <<>> or <<the leader's pass>>
  inflight,    \* range -> <<>> or <<a chunk whose proposer is gone>>
  written      \* key -> every version ever committed

vars == <<env, clock, versions, intents, records, txns, told, threshold, pass, inflight, written>>

Keys == UNION {env.ranges[r] : r \in DOMAIN env.ranges}
Ranges == DOMAIN env.ranges
Txns == DOMAIN env.txns
RangeOf(k) == CHOOSE r \in Ranges : k \in env.ranges[r]

\* A transaction's record is on the range of the first key it writes.
Anchor(t) == RangeOf(txns[t].wrote[1])

----------------------------------------------------------------------------
(* Retention                                                               *)

Overlapping(r) == {s \in env.retention : s.keys \intersect env.ranges[r] # {}}

\* (retentionProvider.override) The effective TTL, and whether survivors go.
override(r) ==
  LET spans == Overlapping(r)
      whole == {s \in spans : env.ranges[r] \subseteq s.keys}
      ttls == {s.ttl : s \in spans} \union {env.ttl}
  IN IF whole # {} THEN [ttl |-> (CHOOSE s \in whole : TRUE).ttl, expire |-> TRUE]
     ELSE IF spans = {} THEN [ttl |-> env.ttl, expire |-> FALSE]
     ELSE [ttl |-> CHOOSE x \in ttls : \A y \in ttls : x >= y, expire |-> FALSE]

\* (rowExpiry) In a mixed range: the row's own timestamp and the version's
\* are both past the table's retention.  A table with secondary indexes has
\* no eligible prefix.
rowExpired(r, k, ts) ==
  /\ ~override(r).expire
  /\ \E s \in Overlapping(r) : /\ k \in s.keys /\ ~s.indexed
                               /\ ts <= clock - s.ttl /\ s.row[k] <= clock - s.ttl

----------------------------------------------------------------------------
(* Transactions, as far as records and intents go                          *)

Begin(t) ==
  /\ txns[t].phase = "unborn" /\ clock < env.horizon
  /\ clock' = clock + 1
  /\ txns' = [txns EXCEPT ![t] = [phase |-> "open", born |-> clock', ts |-> clock', wrote |-> <<>>]]
  /\ UNCHANGED <<env, versions, intents, records, told, threshold, pass, inflight, written>>

\* A batch at or below the threshold is refused, and the transaction with it.
Refused(t, r) == txns[t].ts <= threshold[r]

\* The first write creates the record (createTxnRecord), unless the
\* transaction was born at or below the threshold or is aborted already.
Creatable(t, r) ==
  txns[t].wrote = <<>> => /\ txns[t].born > threshold[r]
                          /\ records[t] = <<>> \/ records[t][1].status = "PENDING"

Write(t, k) ==
  /\ txns[t].phase = "open" /\ k \in DOMAIN env.txns[t] /\ k \notin Range(txns[t].wrote)
  /\ intents[k] = <<>> /\ \A v \in versions[k] : v.ts < txns[t].ts
  /\ LET r == RangeOf(k) IN
     IF Refused(t, r) \/ ~Creatable(t, r)
     THEN /\ txns' = [txns EXCEPT ![t].phase = "failed"]
          /\ UNCHANGED <<intents, records>>
     ELSE /\ txns' = [txns EXCEPT ![t].wrote = Append(@, k)]
          /\ intents' = [intents EXCEPT ![k] = <<[txn |-> t, dead |-> env.txns[t][k] = "delete"]>>]
          /\ records' = IF txns[t].wrote # <<>> THEN records
                        ELSE [records EXCEPT ![t] =
                                <<[status |-> "PENDING", ts |-> txns[t].ts, beat |-> clock, keys |-> {}]>>]
  /\ UNCHANGED <<env, clock, versions, told, threshold, pass, inflight, written>>

\* Nothing read changed up to now: the transaction moves up.
Refresh(t) ==
  /\ env.refreshes /\ txns[t].phase = "open" /\ txns[t].wrote # <<>> /\ txns[t].ts < clock
  /\ txns' = [txns EXCEPT ![t].ts = clock]
  /\ UNCHANGED <<env, clock, versions, intents, records, told, threshold, pass, inflight, written>>

HeartbeatTxn(t) ==
  /\ txns[t].phase = "open" /\ records[t] # <<>> /\ records[t][1].status = "PENDING"
  /\ records[t][1].beat < clock
  /\ records' = [records EXCEPT ![t][1].beat = clock]
  /\ UNCHANGED <<env, clock, versions, intents, txns, told, threshold, pass, inflight, written>>

\* EndTxn(commit): a missing record is created committed; an aborted one
\* tells the coordinator.
Commit(t) ==
  /\ txns[t].phase = "open" /\ Range(txns[t].wrote) = DOMAIN env.txns[t]
  /\ IF Refused(t, Anchor(t)) \/ (records[t] # <<>> /\ records[t][1].status = "ABORTED")
     THEN /\ txns' = [txns EXCEPT ![t].phase = "failed"]
          /\ UNCHANGED <<records, told, written>>
     ELSE /\ txns' = [txns EXCEPT ![t].phase = "done"]
          /\ records' = [records EXCEPT ![t] =
                <<[status |-> "COMMITTED", ts |-> txns[t].ts,
                   beat |-> IF records[t] = <<>> THEN 0 ELSE records[t][1].beat,
                   keys |-> Range(txns[t].wrote)]>>]
          /\ told' = [told EXCEPT ![t] = @ \union {"COMMITTED"}]
          /\ written' = [k \in Keys |-> written[k] \union
                IF k \in DOMAIN env.txns[t]
                THEN {[ts |-> txns[t].ts, dead |-> env.txns[t][k] = "delete"]} ELSE {}]
  /\ UNCHANGED <<env, clock, versions, intents, threshold, pass, inflight>>

\* EndTxn(abort), by a coordinator that gives up.
Rollback(t) ==
  /\ txns[t].phase \in {"open", "failed"} /\ txns[t].wrote # <<>>
  /\ txns' = [txns EXCEPT ![t].phase = "done"]
  /\ IF Refused(t, Anchor(t)) THEN UNCHANGED <<records, told>>
     ELSE /\ records' = [records EXCEPT ![t] =
                IF @ # <<>> THEN <<[@[1] EXCEPT !.status = "ABORTED"]>>
                ELSE <<[status |-> "ABORTED", ts |-> txns[t].ts, beat |-> 0, keys |-> {}]>>]
          /\ told' = [told EXCEPT ![t] = @ \union {"ABORTED"}]
  /\ UNCHANGED <<env, clock, versions, intents, threshold, pass, inflight, written>>

expired(since) == clock - since > env.expiration

\* (evalPushTxn) Someone runs into the intent on k: a record-less owner is
\* judged by its birth and poisoned, a pending one by its heartbeat or by
\* priority; a finalized one is reported.
PushTxn(k) ==
  /\ intents[k] # <<>>
  /\ LET t == intents[k][1].txn
         rec == records[t]
         aborts == IF rec = <<>> THEN expired(txns[t].born)
                   ELSE rec[1].status = "PENDING" /\ (env.priorities \/ expired(rec[1].beat))
     IN /\ rec = <<>> \/ rec[1].status = "PENDING" => aborts
        /\ records' = [records EXCEPT ![t] =
              IF rec = <<>> THEN <<[status |-> "ABORTED", ts |-> txns[t].born, beat |-> 0, keys |-> {}]>>
              ELSE IF aborts THEN <<[rec[1] EXCEPT !.status = "ABORTED"]>> ELSE rec]
        /\ told' = [told EXCEPT ![t] = @ \union {records'[t][1].status}]
        /\ <<records', told'>> # <<records, told>>
  /\ UNCHANGED <<env, clock, versions, intents, txns, threshold, pass, inflight, written>>

\* An intent of t leaves k, as the committed version at ts or as nothing.
Resolved(k, t, status, ts) ==
  IF \A i \in Range(intents[k]) : i.txn # t
  THEN UNCHANGED <<intents, versions>>
  ELSE /\ intents' = [intents EXCEPT ![k] = <<>>]
       /\ versions' = IF status = "ABORTED" THEN versions
                      ELSE [versions EXCEPT ![k] = @ \union {[ts |-> ts, dead |-> intents[k][1].dead]}]

\* Whoever was told an outcome resolves the intent, now or much later.
ResolveIntent(k) ==
  /\ intents[k] # <<>>
  /\ \E status \in told[intents[k][1].txn] :
        LET t == intents[k][1].txn IN Resolved(k, t, status, txns[t].ts)
  /\ UNCHANGED <<env, clock, records, txns, told, threshold, pass, inflight, written>>

----------------------------------------------------------------------------
(* The leader's pass                                                       *)

NewestFirst(a, b) == a.key < b.key \/ (a.key = b.key /\ a.ts > b.ts)

\* seeded fault: the survivor goes as well
GarbageAll(r, k, thr, expire) ==
  IF intents[k] # <<>> THEN {}
  ELSE {v \in versions[k] : rowExpired(r, k, v.ts) \/ v.ts <= thr}

\* (enumerateGarbageVersions) Of a key without an intent: what rowExpired
\* ages out, and at or below thr everything but the survivor, the newest of
\* the rest, which goes only if it is a tombstone or expire is set.
Garbage(r, k, thr, expire) ==
  LET aged == {v \in versions[k] : rowExpired(r, k, v.ts)}
      below == {v \in versions[k] \ aged : v.ts <= thr}
      survivor(v) == \A w \in below : w.ts <= v.ts
  IN IF intents[k] # <<>> THEN {}
     ELSE aged \union {v \in below : survivor(v) => expire \/ v.dead}

enumerateGarbageVersions(r, thr, expire) ==
  UNION {{[key |-> k, ts |-> v.ts] : v \in Garbage(r, k, thr, expire)} : k \in env.ranges[r]}

liveIntentTxns(r) == {intents[k][1].txn : k \in {x \in env.ranges[r] : intents[x] # <<>>}}

\* Finalized, TTL-old records of the range; one without a write set waits
\* while its transaction has an intent in the range.
enumerateGarbageTxnRecords(r, thr) ==
  {t \in Txns :
     /\ records[t] # <<>> /\ Anchor(t) = r
     /\ records[t][1].status \in {"COMMITTED", "ABORTED"}
     /\ records[t][1].ts <= thr /\ records[t][1].beat <= thr
     /\ \/ records[t][1].status = "COMMITTED" /\ records[t][1].keys # {}
        \/ t \notin liveIntentTxns(r)}

\* runGC up to the first proposal: one snapshot, both enumerations.
Enumerate(r) ==
  LET o == override(r)
      thr == clock - o.ttl
      found == enumerateGarbageVersions(r, thr, o.expire)
      work == enumerateGarbageTxnRecords(r, thr)
  IN /\ o.ttl > 0 /\ thr > 0 /\ thr > threshold[r] /\ pass[r] = <<>>
     /\ found # {} \/ work # {}
     /\ pass' = [pass EXCEPT ![r] =
           <<[thr |-> thr, versions |-> found,
              work |-> {[txn |-> t, ts |-> records[t][1].ts, keys |-> records[t][1].keys] : t \in work},
              records |-> {}]>>]
     /\ UNCHANGED <<env, clock, versions, intents, records, txns, told, threshold, inflight, written>>

\* One key of a committed record's write set is resolved, wherever it is.
resolveRecordIntents(r) ==
  /\ pass[r] # <<>>
  /\ \E w \in pass[r][1].work : \E k \in w.keys :
        /\ Resolved(k, w.txn, "COMMITTED", w.ts)
        /\ pass' = [pass EXCEPT ![r][1].work = (@ \ {w}) \union {[w EXCEPT !.keys = @ \ {k}]}]
  /\ UNCHANGED <<env, clock, records, txns, told, threshold, inflight, written>>

\* A record owes nothing more, or could not be settled and waits.
RecordSettled(r) ==
  /\ pass[r] # <<>>
  /\ \E w \in pass[r][1].work :
        pass' = [pass EXCEPT ![r][1].work = @ \ {w},
                             ![r][1].records = @ \union IF w.keys = {} THEN {w.txn} ELSE {}]
  /\ UNCHANGED <<env, clock, versions, intents, records, txns, told, threshold, inflight, written>>

\* Up to gcChunkSize versions in key order and newest first, filled up with
\* records.
Chunk(p) ==
  LET first == {v \in p.versions : Cardinality({w \in p.versions : NewestFirst(w, v)}) < env.chunk}
      left == env.chunk - Cardinality(first)
  IN [thr |-> p.thr, versions |-> first,
      records |-> {t \in p.records : Cardinality({u \in p.records : u < t}) < left}]

\* (applyCommand, evalWriteBatch) The chunk's keys go and the threshold rises.
ApplyGC(r, c) ==
  /\ versions' = [k \in Keys |-> {v \in versions[k] : [key |-> k, ts |-> v.ts] \notin c.versions}]
  /\ records' = [t \in Txns |-> IF t \in c.records THEN <<>> ELSE records[t]]
  /\ threshold' = [threshold EXCEPT ![r] = IF @ < c.thr THEN c.thr ELSE @]

Rest(p, c) == [p EXCEPT !.versions = @ \ c.versions, !.records = @ \ c.records]

Finished(p) == p.versions = {} /\ p.records = {}

Propose(r) ==
  /\ pass[r] # <<>> /\ pass[r][1].work = {} /\ ~Finished(pass[r][1]) /\ inflight[r] = <<>>
  /\ LET c == Chunk(pass[r][1]) IN
     /\ ApplyGC(r, c)
     /\ pass' = [pass EXCEPT ![r] = IF Finished(Rest(@[1], c)) THEN <<>> ELSE <<Rest(@[1], c)>>]
  /\ UNCHANGED <<env, clock, intents, txns, told, inflight, written>>

\* The leader fails or is deposed; its proposal may be on its way.
Abandon(r) ==
  /\ pass[r] # <<>> /\ inflight[r] = <<>>
  /\ pass' = [pass EXCEPT ![r] = <<>>]
  /\ \/ UNCHANGED inflight
     \/ /\ pass[r][1].work = {} /\ ~Finished(pass[r][1])
        /\ inflight' = [inflight EXCEPT ![r] = <<Chunk(pass[r][1])>>]
  /\ UNCHANGED <<env, clock, versions, intents, records, txns, told, threshold, written>>

Overtaken(r) ==
  /\ inflight[r] # <<>>
  /\ ApplyGC(r, inflight[r][1])
  /\ inflight' = [inflight EXCEPT ![r] = <<>>]
  /\ UNCHANGED <<env, clock, intents, txns, told, pass, written>>

----------------------------------------------------------------------------
Init ==
  /\ env \in Environments
  /\ clock = env.start
  /\ versions = env.versions /\ written = env.versions
  /\ intents = [k \in Keys |-> <<>>]
  /\ records = [t \in Txns |-> <<>>]
  /\ txns = [t \in Txns |-> [phase |-> "unborn", born |-> 0, ts |-> 0, wrote |-> <<>>]]
  /\ told = [t \in Txns |-> {}]
  /\ threshold = [r \in Ranges |-> 0]
  /\ pass = [r \in Ranges |-> <<>>] /\ inflight = [r \in Ranges |-> <<>>]

Tick ==
  /\ clock < env.horizon
  /\ clock' = clock + 1
  /\ UNCHANGED <<env, versions, intents, records, txns, told, threshold, pass, inflight, written>>

Next ==
  \/ Tick
  \/ \E t \in Txns : Begin(t) \/ Refresh(t) \/ HeartbeatTxn(t) \/ Commit(t) \/ Rollback(t)
  \/ \E t \in Txns, k \in Keys : Write(t, k)
  \/ \E k \in Keys : PushTxn(k) \/ ResolveIntent(k)
  \/ \E r \in Ranges : Enumerate(r) \/ resolveRecordIntents(r) \/ RecordSettled(r)
                         \/ Propose(r) \/ Abandon(r) \/ Overtaken(r)

----------------------------------------------------------------------------
(* Properties                                                              *)

\* What is stored at k, the intents of committed records counted in.
Stored(k) ==
  versions[k] \union
    {[ts |-> records[i.txn][1].ts, dead |-> i.dead] :
       i \in {x \in Range(intents[k]) : records[x.txn] # <<>> /\ records[x.txn][1].status = "COMMITTED"}}

\* The value a read at ts finds: the moment it was written, or 0.
ReadAt(vs, ts) ==
  LET old == {v \in vs : v.ts <= ts}
      top == CHOOSE v \in old : \A w \in old : w.ts <= v.ts
  IN IF old = {} \/ top.dead THEN 0 ELSE top.ts

\* The row at k, written at ts, is past its table's retention.
PastRetention(k, ts) ==
  \E s \in env.retention : /\ k \in s.keys /\ ts <= clock - s.ttl
                           /\ env.ranges[RangeOf(k)] \subseteq s.keys \/ s.row[k] <= clock - s.ttl

\* A read above the threshold finds what it would have found had nothing ever
\* been collected, whatever intents, stalls and leader changes the passes met;
\* only a row past its table's retention may be gone (docs/transactions.md:
\* "no read ever observes a state that GC'd versions could have
\* distinguished").
HistoryKept ==
  \A k \in Keys : \A ts \in (threshold[RangeOf(k)] + 1) .. clock :
     LET truth == ReadAt(written[k], ts)
         seen == ReadAt(Stored(k), ts)
     IN seen = truth \/ (seen = 0 /\ PastRetention(k, truth))

\* Nobody is told that a transaction committed when another was told it
\* aborted, though its record may be collected between the two
\* (gc.go: "a zombie coordinator cannot recreate a reclaimed record").
OneOutcome == \A t \in Txns : Cardinality(told[t]) <= 1

-----------------------------------------------------------------------------
(* Small situations for GarbageCollection: one or two ranges of one or two *)
(* keys, one or two transactions, a clock of a dozen moments.              *)

Put(ts) == [ts |-> ts, dead |-> FALSE]
Deleted(ts) == [ts |-> ts, dead |-> TRUE]

Store(ranges, history) ==
  [ranges |-> ranges, versions |-> history, retention |-> {}, ttl |-> 3, chunk |-> 9,
   expiration |-> 1, txns |-> <<>>, refreshes |-> FALSE, priorities |-> FALSE, start |-> 3, horizon |-> 8]

\* A history of puts and tombstones, deleted further.
Aging == [Store(<<{1, 2}>>, <<{Put(1), Deleted(2)}, {Put(1), Put(3)}>>) EXCEPT
            !.txns = <<[k \in {1, 2} |-> "delete"]>>, !.horizon = 7]

\* A transaction over two ranges whose coordinator may never clean up.
Spanning == [Store(<<{1}, {2}>>, <<{Put(1)}, {Put(2)}>>) EXCEPT
               !.txns = <<[k \in {1, 2} |-> "put"]>>, !.ttl = 2, !.priorities = TRUE]

Overwriting == [Store(<<{1}>>, <<{Put(1)}>>) EXCEPT !.ttl = 2, !.horizon = 7,
                  !.txns = <<[k \in {1} |-> "delete"], [k \in {1} |-> "put"]>>]

Table(ks, ttl, rows, indexed) == [keys |-> ks, ttl |-> ttl, row |-> rows, indexed |-> indexed]

\* A range inside a retention table; GC is switched off store-wide.
Retained == [Store(<<{1}>>, <<{Put(1), Put(2)}>>) EXCEPT
               !.retention = {Table({1}, 2, <<0>>, FALSE)}, !.ttl = 0, !.txns = <<[k \in {1} |-> "put"]>>]

\* A range that a retention table shares with other data; with a secondary
\* index the table's rows do not expire on their own.
Mixed == [Store(<<{1, 2}>>, <<{Put(1), Put(3)}, {Put(2), Deleted(3)}>>) EXCEPT
            !.retention = {Table({1}, 2, <<1>>, FALSE)}, !.ttl = 4, !.horizon = 8,
            !.txns = <<[k \in {1} |-> "put"]>>]

Indexed == [Mixed EXCEPT !.retention = {Table({1}, 2, <<1>>, TRUE)}]

\* The versions of one key do not fit one command.
Chunked == [Store(<<{1}>>, <<{Put(1), Put(2), Deleted(3)}>>) EXCEPT !.chunk = 1]

\* A transaction that moves up and that nobody gets to abort.  (Aborted, its
\* record collected, a coordinator that moved up could still commit.)
Moved == [Store(<<{1}, {2}>>, <<{Put(1)}, {Put(2)}>>) EXCEPT !.refreshes = TRUE, !.expiration = 9,
            !.txns = <<[k \in {1, 2} |-> "put"]>>, !.ttl = 2, !.horizon = 7]

\* Nothing stored.
Empty == [Store(<<>>, <<>>) EXCEPT !.horizon = 3]

Cases == {Aging, Spanning, Overwriting, Retained, Mixed, Indexed, Moved}
=============================================================================
