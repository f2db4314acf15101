--------------------------- MODULE Transactions ---------------------------
(***************************************************************************)
(* Interactive transactions: the coordinator of kvclient/txn.go, the       *)
(* record commands of kvserver/txn.go, the MVCC layer of storage/mvcc.go   *)
(* and the leader's timestamp-cache gate, for a few transactions that each *)
(* run a program of statements. A request evaluated by one range under its *)
(* latches is one step; everything between two requests interleaves.       *)
(*                                                                         *)
(* A timestamp is Wall * (wall time) + logical: Next() is + 1 and a tick   *)
(* of the physical clock + Wall. The clock of t's gateway is ahead of the  *)
(* true time by env.skew[t] ticks and a fraction, env.phase[t].            *)
(***************************************************************************)
EXTENDS Integers, Sequences, FiniteSets, FiniteSetsExt, TLC

CONSTANTS Txns,          \* transaction IDs, 1 .. n in ID order
          Keys,          \* keys, 1 .. n in key order
          Wall,          \* logical steps in a tick of the physical clock
          MaxRefreshes,  \* maxRefreshesPerOp
          Environments   \* programs and circumstances, see Init

VARIABLES env,
          now,           \* the physical clock
          txn,           \* kvclient.Txn: the coordinator's state
          op,            \* the request a coordinator has in flight
          ver,           \* MVCC versions of each key, provisional ones too
          intent,        \* MVCC metadata of each key: the intent on it
          rec,           \* transaction records
          tsc,           \* the timestamp cache: the newest read of each key
          log,           \* history: the writes of every committed transaction
          acked          \* history: when a commit was acknowledged

client == <<txn, op>>
server == <<ver, intent, rec, tsc>>
vars   == <<env, now, txn, op, ver, intent, rec, tsc, log, acked>>

NoTxn  == 0
NoKey  == 0
Absent == <<0, 0>>       \* no value, or a tombstone
NoRec  == [status |-> "none", ts |-> 0, waiting |-> NoTxn, old |-> FALSE]
NoIntent == [txn |-> NoTxn, ts |-> 0, seq |-> 0, hist |-> <<>>]
NoErr  == [kind |-> "none", ts |-> 0, by |-> NoTxn, key |-> NoKey]
Idle   == [step |-> "idle", todo |-> {}, read |-> 0, write |-> 0, seq |-> 0, floor |-> -1,
           create |-> FALSE, tries |-> 0, got |-> {}, fwd |-> 0, err |-> NoErr, to |-> 0, cur |-> NoTxn,
           chain |-> <<>>]

Stmt(t)  == env.prog[t][txn[t].pc]
Writing  == {"put", "lock", "inc"}
Later(a, b) == IF a < b THEN b ELSE a            \* Timestamp.Forward
Clock(t)    == Wall * (now + env.skew[t]) + env.phase[t]   \* Clock.Now at t's gateway
Limit(ts)   == ts + Wall * env.offset            \* the uncertainty limit of a read

(***************************************************************************)
(* storage/mvcc.go. Versions of a key are unique per timestamp: a write at *)
(* the timestamp of another replaces it, as in the engine.                 *)
(***************************************************************************)
Newest(vs) == CHOOSE v \in vs : \A w \in vs : w.ts <= v.ts
NewestTs(vs) == IF vs = {} THEN 0 ELSE Newest(vs).ts
At(vs, ts)  == {v \in vs : v.ts = ts}
Upto(vs, ts) == {v \in vs : v.ts <= ts}
ValueUpto(vs, ts) == IF Upto(vs, ts) = {} THEN Absent ELSE Newest(Upto(vs, ts)).val
Without(vs, ts) == {v \in vs : v.ts # ts}
With(vs, ts, val) == Without(vs, ts) \cup {[ts |-> ts, val |-> val]}

Fail(kind, ts, by, k) == [kind |-> kind, ts |-> ts, by |-> by, key |-> k]

mvccGet(t, k, ts, limit) ==
  LET i  == intent[k]
      vs == IF i.txn = NoTxn THEN ver[k] ELSE Without(ver[k], i.ts)
      unsure == {v \in vs : ts < v.ts /\ v.ts <= limit}
  IN  IF i.txn = t
      THEN [err |-> NoErr, val |-> Newest(At(ver[k], i.ts)).val]
      ELSE IF i.txn # NoTxn /\ i.ts <= Later(ts, limit)
      THEN [err |-> Fail("intent", 0, i.txn, k), val |-> Absent]
      ELSE IF unsure # {}
      THEN [err |-> Fail("retry", Newest(unsure).ts + 1, NoTxn, k), val |-> Absent]
      ELSE [err |-> NoErr, val |-> ValueUpto(vs, ts)]

\* mvccWrite's checks: a foreign intent conflicts; with no intent, a version
\* at or above ts is too new to write beneath.
WriteErr(t, k, ts) ==
  IF intent[k].txn \notin {NoTxn, t} THEN Fail("intent", 0, intent[k].txn, k)
  ELSE IF intent[k].txn = NoTxn /\ ts <= NewestTs(ver[k])
  THEN Fail("retry", NewestTs(ver[k]) + 1, NoTxn, k)
  ELSE NoErr

boundedHistory(prev, add, floor) ==
  IF floor < 0 THEN <<>>
  ELSE LET n == Len(prev)
           h == IF n > 0 /\ prev[n].seq = add.seq
                THEN [prev EXCEPT ![n] = add] ELSE Append(prev, add)
           low == {i \in 1 .. Len(h) : h[i].seq <= floor - 1}
       IN  IF floor = 0 \/ low = {} THEN h ELSE SubSeq(h, Max(low), Len(h))

\* The intent and the versions of k after mvccWrite succeeded at o's header.
Laid(t, k, o, ts) ==
  [txn |-> t, ts |-> ts, seq |-> o.seq,
   hist |-> IF intent[k].txn = t
            THEN boundedHistory(intent[k].hist,
                                [seq |-> intent[k].seq,
                                 val |-> Newest(At(ver[k], intent[k].ts)).val], o.floor)
            ELSE <<>>]
Versioned(t, k, ts, val) ==
  With(IF intent[k].txn = t THEN Without(ver[k], intent[k].ts) ELSE ver[k], ts, val)

\* MVCCRollbackIntent of t's intent on k to sequence seq: the intent, then
\* the versions.
Undone(t, k, seq) == intent[k].txn = t /\ intent[k].seq > seq
Kept(k, seq) == SelectSeq(intent[k].hist, LAMBDA e : e.seq <= seq)
RolledIntent(t, k, seq) ==
  LET h == Kept(k, seq)
  IN  IF ~Undone(t, k, seq) THEN intent[k]
      ELSE IF h = <<>> THEN NoIntent
      ELSE [intent[k] EXCEPT !.seq = h[Len(h)].seq, !.hist = SubSeq(h, 1, Len(h) - 1)]
RolledVersions(t, k, seq) ==
  LET h == Kept(k, seq)
  IN  IF ~Undone(t, k, seq) THEN ver[k]
      ELSE IF h = <<>> THEN Without(ver[k], intent[k].ts)
      ELSE With(ver[k], intent[k].ts, h[Len(h)].val)

\* MVCCResolveIntent of h's intent on k with the status of its record.
ResolvedInPlace(h, k, status, ts) ==     \* seeded fault: the commit timestamp is ignored
  IF intent[k].txn # h \/ status = "committed" THEN ver[k]
  ELSE Without(ver[k], intent[k].ts)

Resolved(h, k, status, ts) ==
  IF intent[k].txn # h THEN ver[k]
  ELSE IF status = "aborted" THEN Without(ver[k], intent[k].ts)
  ELSE With(Without(ver[k], intent[k].ts), ts, Newest(At(ver[k], intent[k].ts)).val)

\* MVCCCheckForWrites: what a refresh of k from one timestamp to another missed.
MVCCCheckForWrites(t, k, from, to) ==
  /\ intent[k].txn \in {NoTxn, t}
  /\ {v \in ver[k] : ~(intent[k].txn = t /\ v.ts = intent[k].ts) /\ from < v.ts /\ v.ts <= to} = {}

(***************************************************************************)
(* The leader's gate: no write beneath a read served to another            *)
(* transaction. A transactional write is pushed above the cache.           *)
(***************************************************************************)
Bumped(k, ts, t) ==
  IF tsc[k].ts < ts THEN [ts |-> ts, txn |-> t]
  ELSE IF tsc[k].ts = ts /\ tsc[k].txn # t THEN [ts |-> ts, txn |-> NoTxn]
  ELSE tsc[k]
AllowsWrite(t, g, ts) ==
  \A k \in g : tsc[k].ts < ts \/ (tsc[k].ts = ts /\ tsc[k].txn = t)
Above(g) == Max({tsc[k].ts : k \in g}) + 1
Ungated(t, g, ts) == ts                  \* seeded fault: the cache is not consulted
Gate(t, g, ts) == IF AllowsWrite(t, g, ts) THEN ts ELSE Later(ts, Above(g))

(***************************************************************************)
(* evalWriteBatch on the keys g of one range, at the write timestamp ts    *)
(* the gate left. A stale write fails the batch outright; the intents in   *)
(* the way are reported one at a time.                                     *)
(***************************************************************************)
KeyErr(t, kind, k, o, ts) ==
  WriteErr(t, k, IF kind = "lock" THEN o.read + 1 ELSE ts)

BatchErr(t, kind, g, o, ts, creates) ==
  LET bad(c) == {k \in g : KeyErr(t, kind, k, o, ts).kind = c}
  IN  IF creates /\ rec[t].status = "aborted" THEN Fail("aborted", 0, NoTxn, NoKey)
      ELSE IF bad("retry") # {} THEN KeyErr(t, kind, Min(bad("retry")), o, ts)
      ELSE IF bad("intent") # {} THEN KeyErr(t, kind, Min(bad("intent")), o, ts)
      ELSE NoErr

\* What a request observes of k: a locking read at its read timestamp, an
\* increment the newest value.
Observed(t, kind, k, o) ==
  IF kind = "lock" THEN mvccGet(t, k, o.read, 0).val
  ELSE IF intent[k].txn = t THEN Newest(At(ver[k], intent[k].ts)).val
  ELSE ValueUpto(ver[k], NewestTs(ver[k]))

\* What it leaves: a lock pins what it observed.
Value(t, kind, k, o) == IF kind = "lock" THEN Observed(t, kind, k, o) ELSE <<t, o.seq>>

(***************************************************************************)
(* kvclient.DB.sendParallel: one request per range, the one that creates   *)
(* the record alone and first; an error is handled once all are answered.  *)
(***************************************************************************)
Groups(ks) == IF env.together THEN {ks} ELSE {{k} : k \in ks}
Step(e) == IF e.kind = "none" THEN "done" ELSE IF e.kind = "intent" THEN "push"
           ELSE IF e.kind = "retry" THEN "refresh" ELSE "lost"
Spans(t) == {txn[t].spans[i] : i \in 1 .. Len(txn[t].spans)}

\* seeded fault: the request that was sent alone is still to be sent
AnsweredAlone(t, o, g, alone, e, ts, got) ==
  LET left == IF alone THEN (IF e # NoErr THEN {} ELSE o.todo) ELSE o.todo \ g
      err  == IF o.err = NoErr THEN e ELSE o.err
      step == IF left # {} THEN "send" ELSE Step(err)
  IN  [o EXCEPT !.todo = IF step = "refresh" THEN Spans(t) ELSE left,
                !.err = err, !.step = step, !.got = @ \cup got,
                !.fwd = IF e = NoErr THEN Later(@, ts) ELSE @,
                !.to = IF step = "refresh" THEN Later(Clock(t), err.ts) ELSE 0]

Answered(t, o, g, alone, e, ts, got) ==
  LET left == IF alone /\ e # NoErr THEN {} ELSE o.todo \ g
      err  == IF o.err = NoErr THEN e ELSE o.err
      step == IF left # {} THEN "send" ELSE Step(err)
  IN  [o EXCEPT !.todo = IF step = "refresh" THEN Spans(t) ELSE left,
                !.err = err, !.step = step, !.got = @ \cup got,
                !.fwd = IF e = NoErr THEN Later(@, ts) ELSE @,
                !.to = IF step = "refresh" THEN Later(Clock(t), err.ts) ELSE 0]

Route(t) == IF Stmt(t).do # "commit" THEN "send"
            ELSE IF txn[t].deferred # {} THEN "one" ELSE "end"
\* The request carries the transaction as it is now.
Stamped(t, o) ==
  [o EXCEPT !.step = Route(t), !.todo = Stmt(t).keys, !.read = txn[t].read,
            !.write = txn[t].write, !.seq = txn[t].seq, !.floor = txn[t].floor,
            !.got = {}, !.fwd = 0, !.err = NoErr, !.to = 0]
\* ... or is sent again as it was.
Resent(t, o) == [o EXCEPT !.step = Route(t), !.todo = Stmt(t).keys, !.got = {}, !.fwd = 0,
                          !.err = NoErr, !.cur = NoTxn, !.chain = <<>>]

Ready(t) == /\ txn[t].status = "open" /\ ~txn[t].failed
            /\ op[t].step = "idle" /\ txn[t].pc <= Len(env.prog[t])
Does(t, kinds) == Ready(t) /\ Stmt(t).do \in kinds

(***************************************************************************)
(* The coordinator.                                                        *)
(***************************************************************************)
NewTxn(t) ==
  /\ txn[t].status = "new"
  /\ txn' = [txn EXCEPT ![t].status = "open", ![t].read = Clock(t), ![t].write = Clock(t),
                        ![t].began = now]
  /\ UNCHANGED <<env, now, op, server, log, acked>>

\* Get, GetBatch: a read-only batch at the read timestamp.
Get(t) ==
  /\ Does(t, {"get"})
  /\ op' = [op EXCEPT ![t] = Stamped(t, Idle)]
  /\ UNCHANGED <<env, now, txn, server, log, acked>>

\* Put, Delete, Increment, GetForUpdate, RunBatch: prepareWrite. The first
\* key ever written anchors the transaction; only a batch that writes the
\* anchor key creates the record.
Write(t) ==
  /\ Does(t, Writing)
  /\ LET a == IF txn[t].anchor = NoKey THEN Min(Stmt(t).keys) ELSE txn[t].anchor
     IN  /\ txn' = [txn EXCEPT ![t].seq = @ + 1, ![t].anchor = a]
         /\ op' = [op EXCEPT ![t] = [Stamped(t, Idle) EXCEPT !.seq = txn[t].seq + 1,
                                       !.create = ~txn[t].anchored /\ a \in Stmt(t).keys]]
  /\ UNCHANGED <<env, now, server, log, acked>>

\* A read served by the leader: the cache is bumped first, whatever follows.
SendRead(t) ==
  /\ op[t].step = "send" /\ Stmt(t).do = "get"
  /\ \E g \in Groups(op[t].todo) :
       LET o   == op[t]
           res == [k \in g |-> mvccGet(t, k, o.read, Limit(o.read))]
           bad == {k \in g : res[k].err # NoErr}
           e   == IF bad = {} THEN NoErr ELSE res[Min(bad)].err
           got == {<<k, res[k].val>> : k \in g}
       IN  /\ tsc' = [k \in Keys |-> IF k \in g THEN Bumped(k, o.read, t) ELSE tsc[k]]
           /\ op' = [op EXCEPT ![t] = Answered(t, o, g, FALSE, e, 0, got)]
  /\ UNCHANGED <<env, now, txn, ver, intent, rec, log, acked>>

\* A write evaluated by its range: intents, and the record with the first.
SendWrite(t) ==
  /\ op[t].step = "send" /\ Stmt(t).do \in Writing
  /\ \E g \in Groups(op[t].todo) :
       LET o  == op[t]
           first == o.create /\ txn[t].anchor \in o.todo
           ts == Gate(t, g, o.write)
           e  == BatchErr(t, Stmt(t).do, g, o, ts, first)
           got == {<<k, Observed(t, Stmt(t).do, k, o)>> : k \in g}
       IN  /\ first => txn[t].anchor \in g
           /\ op' = [op EXCEPT ![t] = Answered(t, o, g, first, e, ts, got)]
           /\ IF e # NoErr
              THEN UNCHANGED <<ver, intent, rec>>
              ELSE /\ ver' = [k \in Keys |-> IF k \in g
                               THEN Versioned(t, k, ts, Value(t, Stmt(t).do, k, o)) ELSE ver[k]]
                   /\ intent' = [k \in Keys |-> IF k \in g THEN Laid(t, k, o, ts) ELSE intent[k]]
                   /\ rec' = IF first THEN [rec EXCEPT ![t].status = "pending", ![t].waiting = NoTxn]
                             ELSE rec
  /\ UNCHANGED <<env, now, txn, tsc, log, acked>>

\* recordRead: beyond maxReadSpans the transaction can no longer refresh.
recordRead(k, x) ==
  IF x.unusable THEN x
  ELSE IF Len(x.spans) >= env.maxSpans THEN [x EXCEPT !.unusable = TRUE, !.spans = <<>>]
  ELSE [x EXCEPT !.spans = Append(@, k)]

\* The statement returns to its caller: pushed timestamps are adopted, reads
\* and writes recorded (send, recordRead, recordWrite).
Done(t) ==
  /\ op[t].step = "done" /\ txn[t].waiting = NoTxn
  /\ LET o  == op[t]
         ks == Stmt(t).keys
         wrote == Stmt(t).do \in Writing
         foreign == {p \in o.got : p[1] \notin txn[t].writes}
         val(k) == IF Stmt(t).do = "lock" THEN (CHOOSE p \in o.got : p[1] = k)[2] ELSE <<t, o.seq>>
         x  == [txn[t] EXCEPT !.write = Later(@, o.fwd), !.pc = @ + 1,
                  !.writes = IF wrote THEN @ \cup ks ELSE @,
                  !.anchored = @ \/ (wrote /\ txn[t].anchor \in ks),
                  !.seen = IF Stmt(t).do = "put" THEN @ ELSE @ \cup foreign,
                  !.shadow = [k \in Keys |-> IF wrote /\ k \in ks THEN val(k) ELSE @[k]]]
     IN  txn' = [txn EXCEPT ![t] = IF Stmt(t).do \in {"get", "lock"}
                                    THEN FoldSet(recordRead, x, ks) ELSE x]
  /\ op' = [op EXCEPT ![t] = Idle]
  /\ UNCHANGED <<env, now, server, log, acked>>

\* publishWait(nil): no longer blocked; a heartbeat clears the edge.
ClearWait(t) ==
  /\ op[t].step \in {"done", "again", "fail"} /\ txn[t].waiting # NoTxn
  /\ txn' = [txn EXCEPT ![t].waiting = NoTxn]
  /\ rec' = IF txn[t].anchored /\ rec[t].status = "pending"
            THEN [rec EXCEPT ![t].waiting = NoTxn, ![t].old = FALSE] ELSE rec
  /\ UNCHANGED <<env, now, op, ver, intent, tsc, log, acked>>

Again(t) ==
  /\ op[t].step = "again" /\ txn[t].waiting = NoTxn
  /\ op' = [op EXCEPT ![t] = Resent(t, @)]
  /\ UNCHANGED <<env, now, txn, server, log, acked>>

(***************************************************************************)
(* A conflicting intent: its transaction is pushed. Finalized, expired or  *)
(* outranked, its intent is resolved and the request sent again.           *)
(***************************************************************************)
Outranks(t, h) == Stmt(t).do # "get" /\ env.pri[t] > env.pri[h]
Push(t) ==
  /\ op[t].step = "push"
  /\ LET h == op[t].err.by
         r == rec[h]
         dies == r.status \in {"none", "pending"} /\ (r.old \/ (r.status = "pending" /\ Outranks(t, h)))
         live == r.status \in {"none", "pending"} /\ ~dies
     IN  /\ rec' = IF dies THEN [rec EXCEPT ![h].status = "aborted"] ELSE rec
         /\ op' = [op EXCEPT ![t].step = IF live THEN "publish" ELSE "resolve"]
  /\ UNCHANGED <<env, now, txn, ver, intent, tsc, log, acked>>

Resolve(t) ==
  /\ op[t].step = "resolve"
  /\ LET h == op[t].err.by
         k == op[t].err.key
     IN  /\ ver' = [ver EXCEPT ![k] = Resolved(h, k, rec[h].status, rec[h].ts)]
         /\ intent' = IF intent[k].txn = h THEN [intent EXCEPT ![k] = NoIntent] ELSE intent
  /\ op' = [op EXCEPT ![t].step = "again"]
  /\ UNCHANGED <<env, now, txn, rec, tsc, log, acked>>

\* publishWait: the edge goes on the record at once, if it exists.
Publish(t) ==
  /\ op[t].step = "publish"
  /\ LET h == op[t].err.by
     IN  /\ txn' = IF Stmt(t).do = "commit" THEN txn ELSE [txn EXCEPT ![t].waiting = h]
         /\ rec' = IF txn[t].waiting # h /\ txn[t].anchored /\ rec[t].status = "pending"
                   THEN [rec EXCEPT ![t].waiting = h, ![t].old = FALSE] ELSE rec
         /\ op' = [op EXCEPT ![t].step = "walk", ![t].cur = h, ![t].chain = <<>>]
  /\ UNCHANGED <<env, now, ver, intent, tsc, log, acked>>

\* detectDeadlock: one hop of the walk, a query of cur's record.
Weaker(a, b) == env.pri[a] < env.pri[b] \/ (env.pri[a] = env.pri[b] /\ a < b)
Victim(ms) == CHOOSE m \in ms : \A n \in ms \ {m} : Weaker(m, n)
MaxChain == Cardinality(Txns) + 1        \* maxDeadlockChain

Walk(t) ==
  /\ op[t].step = "walk"
  /\ LET c == op[t].cur
         r == rec[c]
         chain == Append(op[t].chain, c)
         members == {chain[i] : i \in 1 .. Len(chain)} \cup {t}
     IN  op' = [op EXCEPT ![t] =
           IF r.status \notin {"none", "pending"} \/ r.waiting = NoTxn \/ Len(chain) > MaxChain
           THEN [@ EXCEPT !.step = "wait"]
           ELSE IF r.waiting = t THEN [@ EXCEPT !.step = "kill", !.cur = Victim(members)]
           ELSE [@ EXCEPT !.cur = r.waiting, !.chain = chain]]
  /\ UNCHANGED <<env, now, txn, server, log, acked>>

\* The victim's record is aborted by force; the victim itself gives up.
Kill(t) ==
  /\ op[t].step = "kill"
  /\ LET v == op[t].cur
     IN  /\ rec' = IF rec[v].status = "pending" THEN [rec EXCEPT ![v].status = "aborted"] ELSE rec
         /\ txn' = IF v = t THEN [txn EXCEPT ![t].status = "finished", ![t].outcome = "aborted"]
                   ELSE txn
         /\ op' = [op EXCEPT ![t] = IF v = t THEN Idle ELSE [@ EXCEPT !.step = "wait"]]
  /\ UNCHANGED <<env, now, ver, intent, tsc, log, acked>>

Wait(t) ==
  /\ op[t].step = "wait"
  /\ op' = [op EXCEPT ![t] = Resent(t, @)]
  /\ UNCHANGED <<env, now, txn, server, log, acked>>

\* The lock timeout, or the conflict budget, is spent.
GiveUp(t) ==
  /\ op[t].step = "wait" /\ env.giveUp
  /\ op' = [op EXCEPT ![t].step = "fail"]
  /\ UNCHANGED <<env, now, txn, server, log, acked>>

(***************************************************************************)
(* maybeRefresh: every span the transaction read is checked for writes in  *)
(* the window, through the read path, one request per span.                *)
(***************************************************************************)
CanRefresh(t) == ~txn[t].unusable /\ op[t].tries < MaxRefreshes
Refresh(t) ==
  /\ op[t].step = "refresh" /\ CanRefresh(t)
  /\ \E k \in op[t].todo :
       /\ tsc' = [tsc EXCEPT ![k] = Bumped(k, op[t].to, t)]
       /\ op' = [op EXCEPT ![t] = IF MVCCCheckForWrites(t, k, txn[t].read, @.to)
                                   THEN [@ EXCEPT !.todo = @ \ {k}] ELSE [@ EXCEPT !.step = "fail"]]
  /\ UNCHANGED <<env, now, txn, ver, intent, rec, log, acked>>

Refreshed(t) ==
  /\ op[t].step = "refresh" /\ CanRefresh(t) /\ op[t].todo = {}
  /\ LET x == [txn[t] EXCEPT !.read = Later(@, op[t].to), !.write = Later(@, op[t].to)]
     IN  /\ txn' = [txn EXCEPT ![t] = x]
         /\ op' = [op EXCEPT ![t] = [Stamped(t, @) EXCEPT !.read = x.read, !.write = x.write,
                                                             !.tries = @ + 1]]
  /\ UNCHANGED <<env, now, server, log, acked>>

Unrefreshable(t) ==
  /\ op[t].step = "refresh" /\ ~CanRefresh(t)
  /\ op' = [op EXCEPT ![t].step = "fail"]
  /\ UNCHANGED <<env, now, txn, server, log, acked>>

\* The statement fails; a failed commit finishes the transaction.
Failed(t) ==
  /\ op[t].step = "fail" /\ txn[t].waiting = NoTxn
  /\ txn' = [txn EXCEPT ![t] = IF Stmt(t).do = "commit"
                                THEN [@ EXCEPT !.status = "finished", !.outcome = "aborted"]
                                ELSE [@ EXCEPT !.failed = TRUE]]
  /\ op' = [op EXCEPT ![t] = Idle]
  /\ UNCHANGED <<env, now, server, log, acked>>

\* Aborted by another transaction: the coordinator is finished.
Lost(t) ==
  /\ op[t].step = "lost"
  /\ txn' = [txn EXCEPT ![t].status = "finished", ![t].outcome = "aborted"]
  /\ op' = [op EXCEPT ![t] = Idle]
  /\ UNCHANGED <<env, now, server, log, acked>>

(***************************************************************************)
(* Savepoints. ROLLBACK TO restores every intent physically, then the      *)
(* coordinator's write set and read spans; it also escapes a failure.      *)
(***************************************************************************)
Floor(sps) == IF sps = {} THEN -1 ELSE Min({sp.seq : sp \in sps}) + 1
Advance(t, sps) == [txn EXCEPT ![t].sps = sps, ![t].floor = Floor(sps), ![t].pc = @ + 1]
Named(t, n) == {sp \in txn[t].sps : sp.name = n}

Savepoint(t) ==
  /\ Does(t, {"save"})
  /\ LET x  == txn[t]
         sp == [name |-> Stmt(t).name, order |-> x.pc, seq |-> x.seq, writes |-> x.writes,
                nspans |-> Len(x.spans), unusable |-> x.unusable, shadow |-> x.shadow, seen |-> x.seen]
     IN  txn' = Advance(t, (x.sps \ Named(t, sp.name)) \cup {sp})
  /\ UNCHANGED <<env, now, op, server, log, acked>>

ReleaseSavepoint(t) ==
  /\ Does(t, {"release"})
  /\ \E sp \in Named(t, Stmt(t).name) :
       txn' = Advance(t, {o \in txn[t].sps : o.order < sp.order})
  /\ UNCHANGED <<env, now, op, server, log, acked>>

RollbackToSavepoint(t) ==
  /\ \E sp \in txn[t].sps :
       /\ \/ Does(t, {"back"}) /\ Stmt(t).name = sp.name
          \/ txn[t].status = "open" /\ txn[t].failed /\ op[t].step = "idle" /\ env.resume
       /\ op' = [op EXCEPT ![t] = [Idle EXCEPT !.step = "undo", !.todo = txn[t].writes,
                                               !.to = sp.name]]
  /\ UNCHANGED <<env, now, txn, server, log, acked>>

RollbackIntent(t) ==
  /\ op[t].step = "undo"
  /\ \E g \in Groups(op[t].todo) \ {{}} :
       LET sp == CHOOSE s \in Named(t, op[t].to) : TRUE
       IN  /\ ver' = [k \in Keys |-> IF k \in g THEN RolledVersions(t, k, sp.seq) ELSE ver[k]]
           /\ intent' = [k \in Keys |-> IF k \in g THEN RolledIntent(t, k, sp.seq) ELSE intent[k]]
           /\ op' = [op EXCEPT ![t].todo = @ \ g]
  /\ UNCHANGED <<env, now, txn, rec, tsc, log, acked>>

RolledBack(t) ==
  /\ op[t].step = "undo" /\ op[t].todo = {}
  /\ LET sp  == CHOOSE s \in Named(t, op[t].to) : TRUE
         sps == {o \in txn[t].sps : o.order <= sp.order}
         x   == txn[t]
     IN  txn' = [txn EXCEPT ![t] =
           [x EXCEPT !.writes = sp.writes, !.unusable = sp.unusable,
                     !.spans = IF Len(@) > sp.nspans THEN SubSeq(@, 1, sp.nspans) ELSE @,
                     !.sps = sps, !.floor = Floor(sps), !.shadow = sp.shadow, !.seen = sp.seen,
                     !.failed = FALSE, !.pc = @ + 1]]
  /\ op' = [op EXCEPT ![t] = Idle]
  /\ UNCHANGED <<env, now, server, log, acked>>

(***************************************************************************)
(* The end of a transaction.                                               *)
(***************************************************************************)
Wrote(t, ts) == {[key |-> k, ts |-> ts, val |-> txn[t].shadow[k], by |-> t] : k \in txn[t].writes}
Ended(t, outcome, ts) ==
  [txn EXCEPT ![t].status = "finished", ![t].outcome = outcome, ![t].read = ts]

\* Deferred writes of a pipelined transaction stay with the coordinator.
RunBatch(t) ==
  /\ Does(t, {"defer"})
  /\ txn' = [txn EXCEPT ![t].deferred = @ \cup Stmt(t).keys, ![t].pc = @ + 1]
  /\ UNCHANGED <<env, now, op, server, log, acked>>

\* Commit of a transaction with no record: there is nothing to flip.
CommitReadOnly(t) ==
  /\ Does(t, {"commit"}) /\ ~txn[t].anchored /\ txn[t].deferred = {}
  /\ txn' = Ended(t, "committed", txn[t].read)
  /\ log' = log \cup Wrote(t, txn[t].read)
  /\ acked' = [acked EXCEPT ![t] = now]
  /\ UNCHANGED <<env, now, op, server>>

Commit(t) ==
  /\ Does(t, {"commit"}) /\ (txn[t].anchored \/ txn[t].deferred # {})
  /\ LET x == [txn[t] EXCEPT !.seq = IF txn[t].deferred # {} THEN @ + 1 ELSE @]
     IN  /\ txn' = [txn EXCEPT ![t] = x]
         /\ op' = [op EXCEPT ![t] = [Stamped(t, Idle) EXCEPT !.seq = x.seq]]
  /\ UNCHANGED <<env, now, server, log, acked>>

\* evalEndTxn: the record flips only at the timestamp of the reads.
EndTxn(t) ==
  /\ op[t].step = "end"
  /\ IF rec[t].status = "aborted"
     THEN op' = [op EXCEPT ![t].step = "lost"] /\ UNCHANGED <<txn, rec, log>>
     ELSE IF op[t].read # op[t].write
     THEN /\ op' = [op EXCEPT ![t].step = "refresh", ![t].todo = Spans(t),
                              ![t].to = Later(Clock(t), op[t].write)]
          /\ UNCHANGED <<txn, rec, log>>
     ELSE /\ rec' = [rec EXCEPT ![t].status = "committed", ![t].ts = op[t].write]
          /\ log' = log \cup Wrote(t, op[t].write)
          /\ txn' = Ended(t, "committed", op[t].write)
          /\ op' = [op EXCEPT ![t] = [Idle EXCEPT !.step = "clean", !.todo = txn[t].writes]]
  /\ UNCHANGED <<env, now, ver, intent, tsc, acked>>

\* commit1PC and evalOnePhase: the deferred writes and the commit in one
\* proposal, committed versions and nothing to resolve.
OnePhase(t) ==
  /\ op[t].step = "one"
  /\ LET o  == op[t]
         d  == txn[t].deferred
         held == {k \in d : intent[k].txn # NoTxn}
         new  == {k \in d : o.write <= NewestTs(ver[k])}
         e  == IF o.read # o.write THEN Fail("retry", o.write, NoTxn, NoKey)
               ELSE IF ~AllowsWrite(t, d, o.write) THEN Fail("retry", Above(d), NoTxn, NoKey)
               ELSE IF rec[t].status = "aborted" THEN Fail("aborted", 0, NoTxn, NoKey)
               ELSE IF new \ held # {} THEN Fail("retry", NewestTs(ver[Min(new \ held)]) + 1, NoTxn, NoKey)
               ELSE IF held # {} THEN Fail("intent", 0, intent[Min(held)].txn, Min(held))
               ELSE NoErr
     IN  IF e # NoErr
         THEN /\ op' = [op EXCEPT ![t] = Answered(t, o, {}, TRUE, e, 0, {})]
              /\ UNCHANGED <<txn, ver, log, acked>>
         ELSE /\ ver' = [k \in Keys |-> IF k \in d THEN With(ver[k], o.write, <<t, o.seq>>) ELSE ver[k]]
              /\ log' = log \cup {[key |-> k, ts |-> o.write, val |-> <<t, o.seq>>, by |-> t] : k \in d}
              /\ txn' = Ended(t, "committed", o.write)
              /\ op' = [op EXCEPT ![t] = Idle]
              /\ acked' = [acked EXCEPT ![t] = now]
  /\ UNCHANGED <<env, now, intent, rec, tsc>>

\* Rollback: asked for, or after a failed statement.
Rollback(t) ==
  /\ \/ Does(t, {"abort"})
     \/ txn[t].status = "open" /\ txn[t].failed /\ op[t].step = "idle"
  /\ txn' = Ended(t, "aborted", txn[t].read)
  /\ IF txn[t].anchored
     THEN /\ rec' = [rec EXCEPT ![t].status = "aborted"]
          /\ op' = [op EXCEPT ![t] = [Idle EXCEPT !.step = "clean", !.todo = txn[t].writes]]
     ELSE UNCHANGED <<rec, op>>
  /\ UNCHANGED <<env, now, ver, intent, tsc, log, acked>>

\* resolveAll, range by range; then a commit returns to its caller.
ResolveAll(t) ==
  /\ op[t].step = "clean"
  /\ IF op[t].todo = {}
     THEN /\ op' = [op EXCEPT ![t] = Idle]
          /\ acked' = IF txn[t].outcome = "committed" THEN [acked EXCEPT ![t] = now] ELSE acked
          /\ UNCHANGED <<ver, intent>>
     ELSE \E g \in Groups(op[t].todo) :
          /\ ver' = [k \in Keys |-> IF k \in g THEN Resolved(t, k, rec[t].status, rec[t].ts) ELSE ver[k]]
          /\ intent' = [k \in Keys |-> IF k \in g /\ intent[k].txn = t THEN NoIntent ELSE intent[k]]
          /\ op' = [op EXCEPT ![t].todo = @ \ g]
          /\ UNCHANGED acked
  /\ UNCHANGED <<env, now, txn, rec, tsc, log>>

\* The coordinator's process dies with the statement it was in.
Crash(t) ==
  /\ t \in env.crash /\ (txn[t].status = "open" \/ op[t].step = "clean")
  /\ txn' = [txn EXCEPT ![t].status = "crashed"]
  /\ op' = [op EXCEPT ![t] = Idle]
  /\ UNCHANGED <<env, now, server, log, acked>>

\* No heartbeat for TxnExpiration: none is sent before the transaction is
\* anchored, nor once it is finished.
Expirable(t) == env.expire \/ txn[t].status \in {"crashed", "finished"} \/ ~txn[t].anchored
Expire(t) ==
  /\ rec[t].status = "pending" \/ (rec[t].status = "none" /\ \E k \in Keys : intent[k].txn = t)
  /\ ~rec[t].old /\ Expirable(t)
  /\ rec' = [rec EXCEPT ![t].old = TRUE]
  /\ UNCHANGED <<env, now, client, ver, intent, tsc, log, acked>>

Tick ==
  /\ now < env.ticks
  /\ now' = now + 1
  /\ UNCHANGED <<env, client, server, log, acked>>

Over(t) == txn[t].status \in {"finished", "crashed"} /\ op[t].step = "idle"
Terminated == (\A t \in Txns : Over(t)) /\ UNCHANGED vars

Init ==
  /\ env \in Environments
  /\ now = 1
  /\ txn = [t \in Txns |-> [outcome |-> "none",
              status |-> IF env.prog[t] = <<>> THEN "finished" ELSE "new", failed |-> FALSE, pc |-> 1,
              read |-> 0, write |-> 0, began |-> 0, seq |-> 0, floor |-> -1, anchor |-> NoKey,
              anchored |-> FALSE, writes |-> {}, deferred |-> {}, spans |-> <<>>,
              unusable |-> FALSE, sps |-> {}, waiting |-> NoTxn,
              shadow |-> [k \in Keys |-> Absent], seen |-> {}]]
  /\ op = [t \in Txns |-> Idle]
  /\ ver = [k \in Keys |-> {}]
  /\ intent = [k \in Keys |-> NoIntent]
  /\ rec = [t \in Txns |-> NoRec]
  /\ tsc = [k \in Keys |-> [ts |-> 0, txn |-> NoTxn]]
  /\ log = {} /\ acked = [t \in Txns |-> 0]

Coordinate(t) ==
  \/ NewTxn(t) \/ Get(t) \/ Write(t) \/ SendRead(t) \/ SendWrite(t) \/ Done(t)
  \/ ClearWait(t) \/ Again(t) \/ Push(t) \/ Resolve(t) \/ Publish(t) \/ Walk(t) \/ Kill(t)
  \/ Wait(t) \/ Refresh(t) \/ Refreshed(t) \/ Unrefreshable(t) \/ Failed(t) \/ Lost(t)
  \/ Savepoint(t) \/ ReleaseSavepoint(t) \/ RollbackToSavepoint(t) \/ RollbackIntent(t)
  \/ RolledBack(t) \/ RunBatch(t) \/ CommitReadOnly(t) \/ Commit(t) \/ EndTxn(t)
  \/ OnePhase(t) \/ Rollback(t) \/ ResolveAll(t)

Next ==
  \/ \E t \in Txns : Coordinate(t) \/ GiveUp(t) \/ Crash(t) \/ Expire(t)
  \/ Tick
  \/ Terminated

Spec == Init /\ [][Next]_vars
\* Coordinators keep running; the records of those that do not expire.
FairSpec == Spec /\ \A t \in Txns : WF_vars(Coordinate(t)) /\ WF_vars(Expire(t))

-----------------------------------------------------------------------------
Steps == {"idle", "send", "one", "end", "push", "resolve", "publish", "walk", "kill", "wait",
          "again", "refresh", "done", "fail", "lost", "undo", "clean"}

\* Every variable has its type; an intent has a provisional version.
TypeOK ==
  /\ now \in 1 .. env.ticks
  /\ \A t \in Txns :
       /\ txn[t].status \in {"new", "open", "finished", "crashed"}
       /\ txn[t].outcome \in {"none", "committed", "aborted"}
       /\ txn[t].read \in Nat /\ txn[t].write \in Nat /\ txn[t].seq \in Nat
       /\ txn[t].writes \subseteq Keys /\ txn[t].anchor \in Keys \cup {NoKey}
       /\ op[t].step \in Steps /\ op[t].todo \subseteq Keys
       /\ rec[t].status \in {"none", "pending", "committed", "aborted"}
       /\ rec[t].waiting \in Txns \cup {NoTxn}
  /\ \A k \in Keys :
       /\ intent[k].txn \in Txns \cup {NoTxn}
       /\ intent[k].txn # NoTxn => At(ver[k], intent[k].ts) # {}
       /\ \A v, w \in ver[k] : v.ts = w.ts => v = w

LogOf(k) == {[ts |-> e.ts, val |-> e.val] : e \in {f \in log : f.key = k}}
Others(k, t) == {[ts |-> e.ts, val |-> e.val] : e \in {f \in log : f.key = k /\ f.by # t}}
Committed(t) == txn[t].outcome = "committed"

\* Strict serializability: every read a committed transaction still stands by
\* is what the committed writes of the others show at its commit timestamp
\* (commit equality in evalEndTxn, maybeRefresh, the timestamp cache); and a
\* transaction that began after another's commit returned is ordered after it
\* wherever it read what the other wrote, although the two gateways' clocks
\* disagree (the uncertainty window).
StrictlySerializable ==
  /\ \A t \in Txns : Committed(t) =>
       \A p \in txn[t].seen : p[2] = ValueUpto(Others(p[1], t), txn[t].read)
  /\ \A t, u \in Txns : Committed(u) /\ acked[t] > 0 /\ acked[t] < txn[u].began =>
       \A p \in txn[u].seen : p[1] \in {e.key : e \in {f \in log : f.by = t}} =>
         txn[t].read <= txn[u].read

\* The store holds exactly what committed transactions wrote: each write of
\* an acknowledged commit, at its timestamp, and nothing of a statement that
\* failed, was rolled back to a savepoint, or belongs to an aborted
\* transaction (MVCCResolveIntent, MVCCRollbackIntent, evalEndTxn).
Settled(k) == intent[k].txn = NoTxn \/ rec[intent[k].txn].status \in {"committed", "aborted"}
Contents(k) ==
  IF intent[k].txn = NoTxn THEN ver[k]
  ELSE Resolved(intent[k].txn, k, rec[intent[k].txn].status, rec[intent[k].txn].ts)
CommittedExactly ==
  \A k \in Keys : Settled(k) => Contents(k) = LogOf(k)

\* Everyone finishes: conflicts are pushed, deadlocks broken, and nobody
\* waits for a coordinator that is gone (detectDeadlock, evalPushTxn).
EveryoneFinishes == <>(\A t \in Txns : Over(t))

-----------------------------------------------------------------------------
\* The environments TLC starts from: programs of at most three transactions,
\* and the circumstances they run in.
s(do, ks) == [do |-> do, keys |-> ks, name |-> 0]
n(do, nm) == [do |-> do, keys |-> {}, name |-> nm]
get(ks) == s("get", ks)
put(ks) == s("put", ks)
lock(ks) == s("lock", ks)
commit == s("commit", {})

Calm == [prog |-> [t \in Txns |-> <<>>], pri |-> [t \in Txns |-> 1], skew |-> [t \in Txns |-> 0],
         phase |-> [t \in Txns |-> 0], offset |-> 0, ticks |-> 1, together |-> FALSE,
         giveUp |-> FALSE, resume |-> FALSE, crash |-> {}, expire |-> FALSE, maxSpans |-> 9]
Both(p, q) == (1 :> p) @@ (2 :> q) @@ (3 :> <<>>)
Pair(a, b) == (1 :> a) @@ (2 :> b) @@ (3 :> 0)

\* Two statements and a commit each, in every combination.
Shapes == <<
  <<get({1}), put({2}), commit>>, <<get({2}), put({1}), commit>>, <<get({1}), put({1}), commit>>,
  <<get({1, 2}), put({1}), commit>>, <<put({1}), put({2}), commit>>, <<put({2}), put({1}), commit>>,
  <<put({1, 2}), commit>>, <<get({1}), get({2}), commit>>, <<put({1}), get({2}), commit>>,
  <<s("inc", {1}), put({2}), commit>>>>
Pairs == {<<i, j>> \in (1 .. Len(Shapes)) \X (1 .. Len(Shapes)) : i <= j}
Conflicts == {[Calm EXCEPT !.prog = Both(Shapes[ij[1]], Shapes[ij[2]])] : ij \in Pairs}

\* A transaction that outranks the other; expiry of a live one.
Unequal == {[Calm EXCEPT !.prog = Both(Shapes[ij[1]], Shapes[ij[2]]), !.pri = Pair(1, 2), !.expire = e] :
              ij \in (1 .. Len(Shapes)) \X {7}, e \in BOOLEAN}

\* Locking reads, with clocks that never agree to the last digit.
Locking == {<<lock({1}), put({1}), commit>>, <<lock({1}), put({2}), commit>>,
            <<lock({1, 2}), commit>>, <<get({2}), lock({1}), commit>>, <<lock({2}), s("abort", {})>>}
Locks == {[Calm EXCEPT !.prog = Both(p, q), !.phase = Pair(0, 2)] :
            p \in Locking, q \in Locking \cup {Shapes[i] : i \in {1, 3, 5, 7}}}

\* Savepoints, nested, moved and released, with a rival.
Nested == {
  <<put({1}), n("save", 1), put({1}), n("save", 2), put({1, 2}), n("back", 2), get({1}), n("back", 1), commit>>,
  <<n("save", 1), put({1}), put({1}), n("back", 1), put({2}), commit>>,
  <<put({1}), n("save", 1), put({1}), n("release", 1), put({1}), commit>>,
  <<put({1}), n("save", 1), put({1}), n("save", 1), put({1}), n("back", 1), n("back", 1), commit>>,
  <<get({2}), n("save", 1), lock({1}), n("back", 1), put({1}), commit>>}
Savepoints == {[Calm EXCEPT !.prog = Both(p, q), !.phase = Pair(0, 2)] :
                 p \in Nested, q \in {Shapes[i] : i \in {1, 3, 7}}}

\* Deferred writes committed in one phase; few tracked read spans.
Deferred == {<<s("defer", {1}), commit>>, <<get({2}), s("defer", {1}), commit>>,
             <<get({1, 2}), s("defer", {1, 2}), commit>>}
OnePhases == {[Calm EXCEPT !.prog = Both(p, q), !.together = TRUE, !.maxSpans = m] :
                p \in Deferred, q \in Deferred \cup {Shapes[i] : i \in {1, 2, 3, 5}}, m \in {1, 9}}

\* Coordinators that die; waiters that give up.
Crashes == {[Calm EXCEPT !.prog = Both(Shapes[i], Shapes[j]), !.crash = {1}, !.giveUp = TRUE] :
              i \in {1, 5, 7}, j \in {1, 2, 5, 6, 7}}

\* Clocks apart by as much as they may be, as time passes.
Skewed == {[Calm EXCEPT !.prog = Both(Shapes[i], Shapes[j]), !.skew = k, !.offset = 2, !.ticks = 2] :
             i \in {3}, j \in {1, 3, 8}, k \in {Pair(0, 2), Pair(2, 0)}}

\* A ring of three, waiting to write and waiting to read.
Ring == {[Calm EXCEPT !.prog = (1 :> <<put({1}), put({2}), commit>>) @@ (2 :> <<put({2}), get({3}), commit>>)
                                @@ (3 :> <<put({3}), get({1}), commit>>)]}

MCEnvironments == Conflicts \cup Unequal \cup Locks \cup Savepoints \cup OnePhases \cup Crashes \cup Skewed
                    \cup Ring
=============================================================================
