---------------------------- MODULE Addressing ----------------------------
(***************************************************************************)
(* How a gateway finds the ranges of a batch (kvclient/db.go, rangecache.go*)
(* and Store.ExecuteBatch) while ranges split, merge, move and change      *)
(* leaders under it, followers lag, and the /meta records are repaired     *)
(* later.                                                                  *)
(*                                                                         *)
(* Keys are 0 .. top - 1; 0 is the meta span.  Every other key holds a     *)
(* row.  A descriptor is [id, start, end, gen, on].                        *)
(* env: nodes, top, ranges (the descriptors at the start, led by their     *)
(* smallest node), gateway (the local node, or 0), cached (the ids in the  *)
(* gateway's cache), kind ("partition": a transaction's points, "points",  *)
(* "scan", "reverse", "export", "refresh"), reqs (the keys of the points,  *)
(* the first the anchor), from, to, max (rows, 0: all), page (rows of one  *)
(* answer), floor (key -> the timestamp cache there), and how many splits, *)
(* merges, moves, transfers and faults there are.                          *)
(***************************************************************************)
EXTENDS Integers, Sequences, FiniteSets, FiniteSetsExt, SequencesExt

CONSTANT Environments

VARIABLES
  env,
  view,     \* node -> the descriptors of the replicas it holds, as applied there
  leader,   \* range id -> its leader, 0: no such range
  meta,     \* end key -> <<>> or <<the record>>
  pending,  \* meta updates that have not landed
  frozen,   \* ranges subsumed by a merge that has not landed
  cache,    \* rangeCache: [descs, last (lastMeta)]
  hints,    \* range id -> leader hint, 0: none
  op,       \* the batch
  calls,    \* group -> its sendToRange, under way; group 0 reads /meta
  left      \* what is left of splits, merges, moves, transfers, faults

cluster == <<view, leader, meta, pending, frozen>>
vars == <<env, cluster, cache, hints, op, calls, left>>

\* maxRoutingRetries and the bound of lookupMeta (30 and 5).
maxRoutingRetries == 8
maxMetaRetries == 5
\* Immediate retries before routingBackoff waits.
Immediate == 3

Stores == 1 .. env.nodes
Ids == DOMAIN leader
ContainsKey(d, k) == d.start <= k /\ k < d.end
Overlap(c, d) == c.start < d.end /\ d.start < c.end
Spend(what) == left[what] > 0 /\ left' = [left EXCEPT ![what] = @ - 1]

----------------------------------------------------------------------------
\* The cluster.

Live == {r \in Ids : leader[r] # 0}
Current(r) == CHOOSE d \in view[leader[r]] : d.id = r
Held(n) == {Current(r) : r \in {q \in Live : n \in Current(q).on}}

\* Everything has been applied everywhere and addressing is repaired.
Settled == pending = {} /\ frozen = {} /\ \A n \in Stores : view[n] = Held(n)

Adopt(n, new, gone) == {d \in view[n] : d.id \notin gone \union {e.id : e \in new}} \union new

\* evalUpdateMeta's rule.
metaUpdateApplies(record, d) ==
  \/ record = <<>>
  \/ record[1].gen < d.gen
  \/ record[1].id = d.id /\ record[1].gen = d.gen
metaDeleteApplies(record, d) == record # <<>> /\ record[1].id = d.id /\ record[1].gen <= d.gen

\* (adminSplit) The leader has split; the records follow.
Split(r, k) ==
  /\ r \in Live \ frozen /\ Spend("splits")
  /\ LET d == Current(r)
         new == Max(Live) + 1
         l == [d EXCEPT !.end = k, !.gen = @ + 1]
         h == [d EXCEPT !.id = new, !.start = k, !.gen = @ + 1]
     IN /\ d.start < k /\ k < d.end /\ new \in Ids /\ leader[new] = 0
        /\ \A n \in Stores : \A e \in view[n] : e.id # new
        /\ view' = [view EXCEPT ![leader[r]] = Adopt(leader[r], {l, h}, {})]
        /\ leader' = [leader EXCEPT ![new] = leader[r]]
        /\ pending' = pending \union {[puts |-> {l, h}, drops |-> {}]}
  /\ UNCHANGED <<env, meta, frozen, cache, hints, op, calls>>

Mergeable(l, r) ==
  /\ l \in Live /\ r \in Live /\ Current(l).end = Current(r).start
  /\ Current(l).on = Current(r).on /\ leader[l] = leader[r]

Subsume(l, r) ==
  /\ Mergeable(l, r) /\ {l, r} \intersect frozen = {} /\ Spend("merges")
  /\ frozen' = frozen \union {r}
  /\ UNCHANGED <<env, view, leader, meta, pending, cache, hints, op, calls>>

Unfreeze(r) ==
  /\ r \in frozen /\ frozen' = frozen \ {r}
  /\ UNCHANGED <<env, view, leader, meta, pending, cache, hints, op, calls, left>>

\* (adminMerge) The frozen right side is absorbed.
Merge(l, r) ==
  /\ r \in frozen /\ Mergeable(l, r)
  /\ LET old == Current(l)
         m == [old EXCEPT !.end = Current(r).end, !.gen = Max({old.gen, Current(r).gen}) + 1]
     IN /\ view' = [view EXCEPT ![leader[l]] = Adopt(leader[l], {m}, {r})]
        /\ pending' = pending \union {[puts |-> {m}, drops |-> {old}]}
  /\ leader' = [leader EXCEPT ![r] = 0] /\ frozen' = frozen \ {r}
  /\ UNCHANGED <<env, meta, cache, hints, op, calls, left>>

\* (adminChangeReplicas) A node is added, by a snapshot, or removed.
ChangeReplicas(r, n) ==
  /\ r \in Live \ frozen /\ n # leader[r] /\ Spend("moves")
  /\ LET d == Current(r)
         m == [d EXCEPT !.on = IF n \in @ THEN @ \ {n} ELSE @ \union {n}, !.gen = @ + 1]
     IN /\ n \notin d.on => \A e \in view[n] : ~Overlap(d, e)
        /\ view' = [x \in Stores |-> IF x = leader[r] \/ (x = n /\ n \notin d.on)
                                    THEN Adopt(x, {m}, {}) ELSE view[x]]
        /\ pending' = pending \union {[puts |-> {m}, drops |-> {}]}
  /\ UNCHANGED <<env, leader, meta, frozen, cache, hints, op, calls>>

TransferLease(r, n) ==
  /\ r \in Live \ frozen /\ n # leader[r] /\ n \in Current(r).on /\ Current(r) \in view[n]
  /\ Spend("transfers")
  /\ leader' = [leader EXCEPT ![r] = n]
  /\ UNCHANGED <<env, view, meta, pending, frozen, cache, hints, op, calls>>

\* A lagging node applies what it missed.
CatchUp(n) ==
  /\ view[n] # Held(n) /\ view' = [view EXCEPT ![n] = Held(n)]
  /\ UNCHANGED <<env, leader, meta, pending, frozen, cache, hints, op, calls, left>>

\* (putMetaRecords, updateMetaRecords) One atomic, ordered update of /meta.
updateMetaRecords(u) ==
  /\ pending' = pending \ {u}
  /\ meta' = [e \in DOMAIN meta |->
       LET put == {d \in u.puts : d.end = e /\ metaUpdateApplies(meta[e], d)}
           drop == {d \in u.drops : d.end = e /\ metaDeleteApplies(meta[e], d)}
       IN IF put # {} THEN <<CHOOSE d \in put : TRUE>> ELSE IF drop # {} THEN <<>> ELSE meta[e]]
  /\ UNCHANGED <<env, view, leader, frozen, cache, hints, op, calls, left>>

----------------------------------------------------------------------------
\* The range cache.

\* A descriptor of the same range that is at least as new stays, and what is
\* inserted loses its id; it still becomes lastMeta.
Insert(c, d) ==
  LET fresher == {x \in c.descs : x.id = d.id /\ Overlap(x, d) /\ x.gen >= d.gen}
      apart == {x \in c.descs : ~Overlap(x, d)}
      named == IF fresher = {} THEN d ELSE [d EXCEPT !.id = 0]
  IN [descs |-> apart \union (IF fresher = {} THEN {d} ELSE fresher),
      last |-> IF ContainsKey(d, 0) /\ d.gen >= c.last.gen THEN named ELSE c.last]

InsertAll(c, ds) == FoldSet(LAMBDA d, acc : Insert(acc, d), c, ds)
Evict(c, r) == [c EXCEPT !.descs = {d \in @ : d.id # r}]

\* The first entry that ends beyond the key, if it covers it; else lastMeta.
Lookup(c, k) ==
  LET beyond == {d \in c.descs : k < d.end}
      first == {d \in beyond : ContainsKey(d, k) /\ \A e \in beyond : d.end <= e.end}
  IN IF first # {} THEN <<CHOOSE d \in first : TRUE>>
     ELSE IF ContainsKey(c.last, k) THEN <<c.last>> ELSE <<>>

----------------------------------------------------------------------------
\* A sub-batch on its way to one range.

\* The gateway's own replica of the range, whatever the descriptor says.
localDescriptor(r) == {d \in view[env.gateway] : d.id = r /\ env.gateway \in d.on}
holdsReplica(d) == env.gateway # 0 /\ (env.gateway \in d.on \/ localDescriptor(d.id) # {})
Repaired(c, ds) ==
  InsertAll(c, UNION {{l \in localDescriptor(d.id) : l.gen > d.gen} :
                      d \in {e \in ds : env.gateway # 0 /\ env.gateway \notin e.on}})

\* One pass over the replicas: replicaOrder as of its start.
Pass(c) == [c EXCEPT !.tried = {}, !.lost = FALSE, !.hint = hints[c.desc.id], !.holds = holdsReplica(c.desc)]
Call(d, what, ts, create) ==
  Pass([desc |-> d, what |-> what, ts |-> ts, create |-> create, tried |-> {}, lost |-> FALSE,
        hint |-> 0, holds |-> FALSE])

replicaOrder(c) ==
  LET fresh == Stores \ c.tried IN
  IF c.hint \in fresh THEN {c.hint}
  ELSE IF c.holds /\ env.gateway \in fresh THEN {env.gateway}
  ELSE IF c.desc.on \intersect fresh # {} THEN c.desc.on \intersect fresh
  ELSE IF env.gateway \in fresh THEN {env.gateway} ELSE fresh

\* The keys a sub-batch touches: a read of /meta, points, or a span.
KeysOf(what) ==
  IF what = <<>> THEN {0}
  ELSE IF env.kind \in {"partition", "points"} THEN {env.reqs[what[i]] : i \in DOMAIN what}
  ELSE what[1] .. what[2] - 1
FirstKey(what) ==
  IF what = <<>> THEN 0 ELSE IF env.kind \in {"partition", "points"} THEN env.reqs[what[1]] ELSE what[1]

\* (ExecuteBatch) The replica that is to execute: the one named, or another
\* of this node's that covers the first key.
replicaFor(n, c) ==
  LET named == {d \in view[n] : d.id = c.desc.id}
      k == FirstKey(c.what)
  IN IF \E d \in named : ContainsKey(d, k) THEN named ELSE {d \in view[n] : ContainsKey(d, k)}

\* What node n answers.
ExecuteBatch(n, c) ==
  LET at == replicaFor(n, c) IN
  IF c.desc.id # 0 /\ \A d \in view[n] : d.id # c.desc.id THEN "RangeNotFound"
  ELSE IF at = {} THEN "RangeKeyMismatch"
  ELSE LET d == CHOOSE x \in at : TRUE IN
       IF leader[d.id] # n THEN "NotLeader"
       ELSE IF (\E k \in KeysOf(c.what) : ~ContainsKey(d, k)) \/ d.id \in frozen THEN "RangeKeyMismatch"
       ELSE "OK"

LeaderHint(n, c) == leader[(CHOOSE d \in replicaFor(n, c) : TRUE).id]

----------------------------------------------------------------------------
\* The batch.

Points == op.mode \in {"partition", "points", "parallel"}
Backwards == op.mode = "reverse"
Floor(what) == Max({env.floor[k] : k \in KeysOf(what)})
Anchored(what) == env.kind = "partition" /\ \E i \in DOMAIN what : what[i] = 1

\* The key whose descriptor is needed next.
Want ==
  IF op.mode \in {"partition", "parallel"} THEN env.reqs[Head(op.todo)]
  ELSE IF op.mode = "points" THEN env.reqs[Len(op.answers) + 1]
  ELSE IF Backwards THEN op.walk ELSE op.cur

Send(o, c, cs) ==
  /\ op' = [o EXCEPT !.phase = "send"] /\ calls' = cs
  /\ cache' = Repaired(c, {cs[g].desc : g \in DOMAIN cs})

\* A wave: the group of the anchor alone while the record is to be created
\* and there are others, else every group.
sendParallel(o, c) ==
  LET anchor == {i \in DOMAIN o.groups : Anchored(o.groups[i].reqs)}
      wave == IF o.create /\ Len(o.groups) > 1 /\ anchor # {} THEN anchor ELSE DOMAIN o.groups
  IN Send(o, c, [i \in wave |-> Call(o.groups[i].desc, o.groups[i].reqs, o.ts, o.create /\ i \in anchor)])

\* (partitionByRange) The next request joins the group of its range.
Placed(groups, i, d) ==
  LET same == {g \in DOMAIN groups : groups[g].desc.id = d.id} IN
  IF same = {} THEN Append(groups, [desc |-> d, reqs |-> <<i>>])
  ELSE [g \in DOMAIN groups |-> IF g \in same THEN [groups[g] EXCEPT !.reqs = Append(@, i)] ELSE groups[g]]

\* The descriptor of Want is found: c is the cache by then.
partitionByRange(d, c) ==
  LET o == [op EXCEPT !.phase = "resolve", !.groups = Placed(@, Head(op.todo), d), !.todo = Tail(@)] IN
  IF o.todo # <<>> THEN op' = o /\ calls' = <<>> /\ cache' = c
  ELSE IF Len(o.groups) = 1 /\ op.mode = "partition"
  THEN op' = [o EXCEPT !.mode = "points", !.answers = <<>>] /\ calls' = <<>> /\ cache' = c
  ELSE sendParallel([o EXCEPT !.mode = "parallel"], c)

\* (Send) Consecutive points on the same range go together.
sendGroup(d, c) ==
  LET i == Len(op.answers) + 1
      out == {j \in i .. Len(env.reqs) : ~ContainsKey(d, env.reqs[j])}
      what == [x \in 1 .. (IF out = {} THEN Len(env.reqs) + 1 ELSE Min(out)) - i |-> i + x - 1]
  IN Send(op, c, 1 :> Call(d, what, op.ts, Anchored(what)))

Segment(d, from, to) == <<from, Min({to, d.end})>>
sendSegment(d, c) == Send(op, c, 1 :> Call(d, Segment(d, op.cur, op.stop), op.ts, FALSE))

\* (sendReverseScan) The descriptors are walked forward to the last segment.
walkSegments(d, c) ==
  LET seg == Segment(d, op.walk, op.stop) IN
  IF seg[2] < op.stop THEN op' = [op EXCEPT !.walk = seg[2], !.phase = "resolve"] /\ calls' = <<>> /\ cache' = c
  ELSE Send(op, c, 1 :> Call(d, seg, op.ts, FALSE))

Resolved(d, c) ==
  IF op.mode \in {"partition", "parallel"} THEN partitionByRange(d, c)
  ELSE IF op.mode = "points" THEN sendGroup(d, c)
  ELSE IF Backwards THEN walkSegments(d, c) ELSE sendSegment(d, c)

\* A descriptor of the meta span is always at hand.
scanMeta(o, c) ==
  LET d == Lookup(c, 0)[1] IN
  /\ op' = [o EXCEPT !.phase = "meta"] /\ calls' = 0 :> Call(d, <<>>, 0, FALSE)
  /\ cache' = Repaired(c, {d})

\* (descForKey) From the cache, or by a scan of /meta.
descForKey ==
  /\ op.phase = "resolve"
  /\ LET hit == Lookup(cache, Want) IN
     IF hit # <<>> THEN Resolved(hit[1], cache) ELSE scanMeta([op EXCEPT !.tries = 0], cache)
  /\ UNCHANGED <<env, cluster, hints, left>>

\* The record of the first range that ends beyond the key.
FirstRecord ==
  LET ends == {e \in DOMAIN meta : meta[e] # <<>> /\ Want < e}
  IN IF ends = {} THEN <<>> ELSE meta[Min(ends)]

\* (lookupMeta) A record that does not cover the key is waited out.
lookupMeta ==
  LET d == FirstRecord IN
  IF d # <<>> /\ ContainsKey(d[1], Want) THEN Resolved(d[1], Insert(cache, d[1]))
  ELSE /\ op' = [op EXCEPT !.phase = IF Settled THEN "failed" ELSE "stale"]
       /\ calls' = <<>>
       /\ cache' = IF d = <<>> THEN cache ELSE Evict(cache, d[1].id)

\* The repair has had time to land.
MetaAgain ==
  /\ op.phase = "stale" /\ Settled
  /\ scanMeta(op, cache)
  /\ UNCHANGED <<env, cluster, hints, left>>

\* The rows of one answer: a scan is cut by its limit and by size, an export
\* by its limit, a refresh not at all.
Most ==
  Min({env.top} \union (IF op.max > 0 THEN {op.max} ELSE {})
                \union (IF op.mode \in {"scan", "reverse"} THEN {env.page} ELSE {}))

Rows(what, n) ==
  LET all == IF Backwards THEN [i \in 1 .. what[2] - what[1] |-> what[2] - i]
             ELSE [i \in 1 .. what[2] - what[1] |-> what[1] + i - 1]
  IN SubSeq(all, 1, Min({Len(all), n}))

Resumes(rows) ==
  LET all == Len(rows) IN
  op.mode # "refresh" /\ (all = op.max \/ (op.mode # "export" /\ all = env.page))

\* (sendScan, sendReverseScan, sendExport, sendRefresh) A segment's answer is
\* appended; the batch ends at its limit, or goes on behind what was read.
stitch(what) ==
  LET rows == Rows(what, Most)
      resumes == Resumes(rows)
      next == IF Backwards THEN IF resumes THEN what[2] - Len(rows) ELSE what[1]
              ELSE IF resumes THEN what[1] + Len(rows) ELSE what[2]
      o == [op EXCEPT !.rows = @ \o rows, !.max = IF @ > 0 THEN @ - Len(rows) ELSE 0, !.walk = env.from,
                      !.cur = IF Backwards THEN @ ELSE next, !.stop = IF Backwards THEN next ELSE @]
      limit == (op.max > 0 /\ o.max = 0) \/ (op.mode = "export" /\ resumes)
  IN IF limit THEN [o EXCEPT !.phase = "answered", !.resume = IF resumes \/ o.cur < o.stop THEN <<next>> ELSE <<>>]
     ELSE [o EXCEPT !.phase = IF o.cur < o.stop THEN "resolve" ELSE "answered"]

\* What is left to do once a wave has come back.
Regroup(o) ==
  IF o.regroups >= maxRoutingRetries THEN [o EXCEPT !.phase = "failed"]
  ELSE [o EXCEPT !.phase = "backoff", !.regroups = @ + 1, !.walk = env.from]

Requests(groups) == FlattenSeq([i \in DOMAIN groups |-> groups[i].reqs])
Without(g) == [x \in DOMAIN calls \ {g} |-> calls[x]]

\* What becomes of the batch when group g is back: executed, or to be routed
\* again.
Landed(g, o, again) ==
  LET back == [o EXCEPT !.retry = IF again THEN Append(@, o.groups[g]) ELSE @]
      anchorAlone == o.create /\ Len(o.groups) > 1
  IN IF op.mode = "points"
     THEN IF again THEN Regroup(o)
          ELSE [o EXCEPT !.phase = IF Len(o.answers) = Len(env.reqs) THEN "answered" ELSE "resolve"]
     ELSE IF op.mode # "parallel" THEN IF again THEN Regroup(o) ELSE o
     ELSE IF DOMAIN calls # {g} THEN back
     ELSE IF anchorAlone /\ ~again
     THEN [o EXCEPT !.phase = "wave", !.create = FALSE, !.groups = RemoveAt(@, g)]
     ELSE IF anchorAlone THEN Regroup([o EXCEPT !.todo = Requests(o.groups), !.groups = <<>>])
     ELSE IF back.retry = <<>> THEN [o EXCEPT !.phase = "answered"]
     ELSE Regroup([o EXCEPT !.todo = Requests(back.retry), !.groups = <<>>, !.retry = <<>>])

NextWave ==
  /\ op.phase = "wave" /\ sendParallel(op, cache)
  /\ UNCHANGED <<env, cluster, hints, left>>

\* (routingBackoff) The first retries are immediate, later ones leave the
\* cluster time to settle; exports and refreshes never wait.
Backoff ==
  /\ op.phase = "backoff"
  /\ op.regroups <= Immediate \/ Settled \/ op.mode \in {"export", "refresh"}
  /\ op' = [op EXCEPT !.phase = "resolve"]
  /\ UNCHANGED <<env, cluster, cache, hints, calls, left>>

\* seeded fault: the batch reports the write timestamp of its last group
mergeTxnLast(o, c) == [o EXCEPT !.ts = Max({c.ts, Floor(c.what)})]

\* The batch reports the highest write timestamp of its groups.
mergeTxn(o, c) == [o EXCEPT !.ts = Max({@, c.ts, Floor(c.what)})]

\* The points of a sub-batch executed: the responses take their places.
Executed(c) ==
  LET resp == [i \in DOMAIN c.what |-> env.reqs[c.what[i]]]
      at(i) == {x \in DOMAIN c.what : c.what[x] = i}
  IN [mergeTxn(op, c) EXCEPT
        !.executed = @ \union {c.what[i] : i \in DOMAIN c.what},
        !.record = @ \/ c.create,
        !.answers = IF op.mode = "points" THEN @ \o resp
                    ELSE [i \in DOMAIN env.reqs |-> IF at(i) = {} THEN @[i] ELSE resp[CHOOSE x \in at(i) : TRUE]]]

\* Stale routing is reported to the batch, the cache corrected by what the
\* node holds.
Misrouted(g, actual) ==
  LET c == calls[g]
      corrected == InsertAll(Evict(cache, c.desc.id), actual)
  IN /\ hints' = [hints EXCEPT ![c.desc.id] = 0]
     /\ IF g # 0 THEN op' = Landed(g, op, TRUE) /\ calls' = Without(g) /\ cache' = corrected
        ELSE IF op.tries + 1 >= maxMetaRetries
        THEN op' = [op EXCEPT !.phase = "failed"] /\ calls' = <<>> /\ cache' = corrected
        ELSE scanMeta([op EXCEPT !.tries = @ + 1], corrected)

\* (sendToRange) The next replica of the pass answers.
sendToReplica(g, n) ==
  LET c == calls[g]
      answer == ExecuteBatch(n, c)
      passOn(lost, hint) ==
        /\ calls' = [calls EXCEPT ![g].tried = @ \union {n}, ![g].lost = lost]
        /\ hints' = [hints EXCEPT ![c.desc.id] = hint]
        /\ UNCHANGED <<op, cache>>
  IN /\ n \in replicaOrder(c)
     /\ IF answer = "RangeNotFound" THEN passOn(TRUE, 0)
        ELSE IF answer = "NotLeader" THEN passOn(FALSE, LeaderHint(n, c))
        ELSE IF answer = "RangeKeyMismatch" THEN Misrouted(g, view[n])
        ELSE IF g = 0 THEN hints' = [hints EXCEPT ![c.desc.id] = n] /\ lookupMeta
        ELSE IF env.kind = "points" /\ c.ts < Floor(c.what)
        THEN /\ calls' = [calls EXCEPT ![g] = Pass([c EXCEPT !.ts = Floor(c.what)])]
             /\ UNCHANGED <<op, cache, hints>>
        ELSE /\ hints' = [hints EXCEPT ![c.desc.id] = n]
             /\ op' = IF Points THEN Landed(g, Executed(c), FALSE) ELSE stitch(c.what)
             /\ calls' = Without(g) /\ UNCHANGED cache
     /\ UNCHANGED <<env, cluster, left>>

\* A replica cannot be reached, or sheds the write.
Unreachable(g, n) ==
  /\ n \in replicaOrder(calls[g]) /\ Spend("faults")
  /\ calls' = [calls EXCEPT ![g].tried = @ \union {n}, ![g].lost = FALSE]
  /\ UNCHANGED <<env, cluster, cache, hints, op>>

StorageOverloaded(g) ==
  /\ g # 0 /\ calls[g].tried # {} /\ Spend("faults")
  /\ calls' = [calls EXCEPT ![g] = Pass(@)]
  /\ UNCHANGED <<env, cluster, cache, hints, op>>

\* Every node was asked: a range nobody has is looked up again, else the pass
\* is repeated.
EndPass(g) ==
  /\ replicaOrder(calls[g]) = {}
  /\ IF calls[g].lost THEN Misrouted(g, {})
     ELSE /\ calls' = [calls EXCEPT ![g] = Pass(@)]
          /\ cache' = Repaired(cache, {calls[g].desc})
          /\ UNCHANGED <<hints, op>>
  /\ UNCHANGED <<env, cluster, left>>

----------------------------------------------------------------------------
Init ==
  /\ env \in Environments
  /\ LET ids == 1 .. Cardinality(env.ranges) + env.splits IN
     /\ leader = [r \in ids |-> LET d == {e \in env.ranges : e.id = r}
                                IN IF d = {} THEN 0 ELSE Min((CHOOSE e \in d : TRUE).on)]
     /\ hints = [r \in 0 .. Cardinality(env.ranges) + env.splits |-> 0]
  /\ view = [n \in Stores |-> {d \in env.ranges : n \in d.on}]
  /\ meta = [e \in 1 .. env.top |-> LET d == {x \in env.ranges : x.end = e}
                                     IN IF d = {} THEN <<>> ELSE <<CHOOSE x \in d : TRUE>>]
  /\ pending = {} /\ frozen = {} /\ calls = <<>>
  /\ cache = [descs |-> {d \in env.ranges : d.id \in env.cached},
              last |-> IF env.ranges = {} THEN [gen |-> 0] ELSE CHOOSE d \in env.ranges : ContainsKey(d, 0)]
  /\ op = [mode |-> env.kind, phase |-> IF env.ranges = {} THEN "idle" ELSE "resolve", regroups |-> 0,
           tries |-> 0, todo |-> [i \in DOMAIN env.reqs |-> i], groups |-> <<>>, retry |-> <<>>,
           answers |-> IF env.kind = "points" THEN <<>> ELSE [i \in DOMAIN env.reqs |-> 0],
           create |-> env.kind = "partition", record |-> FALSE, executed |-> {}, ts |-> 0,
           cur |-> env.from, stop |-> env.to, walk |-> env.from, max |-> env.max, rows |-> <<>>,
           resume |-> <<>>]
  /\ left = [splits |-> env.splits, merges |-> env.merges, moves |-> env.moves,
             transfers |-> env.transfers, faults |-> env.faults]

Reshape ==
  \/ \E r \in Ids, k \in 1 .. env.top - 1 : Split(r, k)
  \/ \E l, r \in Ids : Subsume(l, r) \/ Merge(l, r)
  \/ \E r \in Ids : Unfreeze(r)
  \/ \E r \in Ids, n \in Stores : ChangeReplicas(r, n) \/ TransferLease(r, n)
  \/ \E n \in Stores : CatchUp(n)
  \/ \E u \in pending : updateMetaRecords(u)

Next ==
  \/ op.phase \notin {"answered", "failed"} /\ Reshape
  \/ descForKey \/ MetaAgain \/ NextWave \/ Backoff
  \/ \E g \in DOMAIN calls : \/ \E n \in Stores : sendToReplica(g, n) \/ Unreachable(g, n)
                             \/ StorageOverloaded(g) \/ EndPass(g)

----------------------------------------------------------------------------
Span(from, to) ==
  IF env.kind = "reverse" THEN [i \in 1 .. to - from |-> to - i] ELSE [i \in 1 .. to - from |-> from + i - 1]
Rest == IF op.resume = <<>> THEN <<>>
        ELSE IF env.kind = "reverse" THEN Span(env.from, op.resume[1]) ELSE Span(op.resume[1], env.to)

\* However the ranges of a batch split, merge, move and change leaders while
\* it is routed, its answer is that of one big range: every point's response
\* in its place and the highest write timestamp of any of them reported;
\* every row of a span once and in order, up to where the answer says it
\* resumes (db.go: "stitched together").  No write of a transaction executes
\* before the record exists ("no intent is ever observable before the record
\* exists").
BatchRight ==
  /\ op.phase = "answered" =>
       IF env.kind \in {"partition", "points"}
       THEN op.answers = env.reqs /\ \A i \in DOMAIN env.reqs : op.ts >= env.floor[env.reqs[i]]
       ELSE /\ op.rows \o Rest = Span(env.from, env.to)
            /\ op.resume # <<>> => Len(op.rows) = env.max
  /\ env.kind = "partition" /\ op.executed # {} => op.record

\* A batch never gives up on a cluster that comes to rest: whatever stale
\* descriptors, records and hints it began with, a few retries find every
\* range (sendPartial, lookupMeta: "a batch should wait for it rather than
\* fail").  Exports and refreshes retry without waiting and may give up.
RoutingConverges == op.phase = "failed" => env.kind \in {"export", "refresh"}

---------------------------------------------------------------------------
(* The batches Addressing.tla is checked with: three nodes, three rows, a  *)
(* cluster that is reshaped once or twice.                                 *)

R(id, start, end, on) == [id |-> id, start |-> start, end |-> end, gen |-> 1, on |-> on]
Whole == {R(1, 0, 4, {1, 2})}
Halves == {R(1, 0, 2, {1, 2}), R(2, 2, 4, {1, 2})}
Apart == {R(1, 0, 2, {1, 2}), R(2, 2, 3, {2, 3}), R(3, 3, 4, {1, 3})}

Unsent == [nodes |-> 0, top |-> 1, ranges |-> {}, gateway |-> 0, cached |-> {}, kind |-> "points",
         reqs |-> <<>>, from |-> 1, to |-> 1, max |-> 0, page |-> 1, floor |-> <<>>,
         splits |-> 0, merges |-> 0, moves |-> 0, transfers |-> 0, faults |-> 0]

Batch == [Unsent EXCEPT !.nodes = 3, !.top = 4, !.floor = [k \in 0 .. 3 |-> k % 3], !.from = 1, !.to = 4]
Txn == [Batch EXCEPT !.kind = "partition", !.reqs = <<3, 1, 2>>]

\* A transaction's writes, its range split and merged meanwhile.
TxnSplit == [Txn EXCEPT !.ranges = Whole, !.cached = {1}, !.splits = 2, !.gateway = 3]
TxnMerge == [Txn EXCEPT !.ranges = Halves, !.cached = {1, 2}, !.merges = 1, !.transfers = 1, !.gateway = 1]
TxnMove == [Txn EXCEPT !.ranges = Apart, !.cached = {1}, !.moves = 2, !.gateway = 1]
Plain == [Batch EXCEPT !.kind = "points", !.reqs = <<1, 3, 2>>, !.ranges = Halves, !.cached = {1},
                       !.splits = 1, !.moves = 1]
Scan == [Batch EXCEPT !.kind = "scan", !.ranges = Halves, !.cached = {1, 2}, !.splits = 1, !.merges = 1,
                      !.page = 1]
ScanSome == [Batch EXCEPT !.kind = "scan", !.ranges = Apart, !.cached = {1, 2, 3}, !.max = 2, !.page = 5,
                          !.moves = 1, !.transfers = 1, !.faults = 1, !.gateway = 2]
Reversed == [Batch EXCEPT !.kind = "reverse", !.ranges = Halves, !.cached = {1}, !.splits = 1, !.merges = 1,
                          !.page = 1]
ReverseSome == [Reversed EXCEPT !.max = 2, !.page = 5]
Exported == [Batch EXCEPT !.kind = "export", !.ranges = Halves, !.cached = {1}, !.splits = 1, !.merges = 1,
                          !.max = 3]
Refreshed == [Batch EXCEPT !.kind = "refresh", !.ranges = Halves, !.cached = {1}, !.splits = 1, !.moves = 1]
\* The range that holds /meta moves away.
MetaMoves == [Batch EXCEPT !.kind = "points", !.reqs = <<2, 3>>, !.ranges = Halves, !.cached = {1},
                           !.moves = 2, !.gateway = 3]

Cases == {TxnSplit, TxnMerge, TxnMove, Plain, Scan, ScanSome, Reversed, ReverseSome, Exported,
          Refreshed, MetaMoves}
===========================================================================
