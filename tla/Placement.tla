------------------------------ MODULE Placement ------------------------------
(***************************************************************************)
(* Where replicas live: the allocator that the leader of range 1 runs      *)
(* (pkg/server/replicate.go, decommission.go, placement.go,                *)
(* load_rebalance.go, rebalance.go; pkg/placement), beside the nodes'      *)
(* heartbeats, crashes, decommissions and shutdowns, operators' moves, and *)
(* the recovery of a store that lost its peers.                            *)
(*                                                                         *)
(* A tick runs its passes one after the other; each pass works on the      *)
(* descriptors and the live set it read when it began, while the cluster   *)
(* moves on underneath.  Heartbeat ages are fresh (within the liveness     *)
(* grace), quiet, or dead (past the dead-node threshold).                  *)
(***************************************************************************)
EXTENDS Integers, FiniteSets, FiniteSetsExt, Sequences, SequencesExt

CONSTANT Environments

VARIABLES env, nodes, ranges, lead, meta, policy, ticks, adverts, cooling, left

vars == <<env, nodes, ranges, lead, meta, policy, ticks, adverts, cooling, left>>

None == 0
Members(s) == {s[i] : i \in DOMAIN s}
Known == {n \in env.nodes : nodes[n].known}
Up == {n \in Known : nodes[n].up}
Majority(s) == 2 * Cardinality(Members(s) \cap Up) > Len(s)
Available(r) == lead[r] \in Up /\ lead[r] \in Members(ranges[r]) /\ Majority(ranges[r])
Leaving(n) == nodes[n].row \/ nodes[n].rowStop
RangeIds == DOMAIN env.start

-----------------------------------------------------------------------------
(* The diversity allocator.  A locality is a sequence of tiers of at most  *)
(* three, so sixths are exact.                                             *)

SharedPrefix(a, b) ==
  CHOOSE k \in 0 .. Min({Len(a), Len(b)}) :
    /\ \A i \in 1 .. k : a[i] = b[i]
    /\ k = Min({Len(a), Len(b)}) \/ a[k + 1] # b[k + 1]

Diversity(m, n) ==
  LET a == env.loc[m] b == env.loc[n] tiers == Max({Len(a), Len(b)})
  IN IF tiers = 0 THEN 0 ELSE (6 * (tiers - SharedPrefix(a, b))) \div tiers

DiversityScore(n, existing) == MapThenSumSet(LAMBDA m : Diversity(n, m), existing)

SetDiversity(s) == MapThenSumSet(LAMBDA p : Diversity(p[1], p[2]), {p \in s \X s : p[1] < p[2]})

Preferred(ok, score, count) ==
  IF ok = {} THEN None
  ELSE CHOOSE c \in ok : \A d \in ok \ {c} :
         \/ score[c] > score[d]
         \/ score[c] = score[d] /\ (count[c] < count[d] \/ (count[c] = count[d] /\ c < d))

AllocateTargetFor(r, existing, candidates, count) ==
  LET ok == (candidates \ existing) \cap policy[r].admits
  IN Preferred(ok, [c \in ok |-> DiversityScore(c, existing)], count)

RemoveTarget(existing) ==
  IF existing = {} THEN None
  ELSE LET Best(rest) == Min({n \in existing : \A m \in existing : rest[m] <= rest[n]})
       IN Best([n \in existing |-> SetDiversity(existing \ {n})])

RebalanceKeepsDiversity(existing, from, to) ==
  from \in existing /\ SetDiversity((existing \ {from}) \cup {to}) >= SetDiversity(existing)

FirstMisplaced(r, s) ==
  LET bad == {i \in DOMAIN s : s[i] \notin policy[r].admits} IN IF bad = {} THEN None ELSE s[Min(bad)]

-----------------------------------------------------------------------------
(* What a pass reads when it begins.                                       *)

LiveNodes(a) == {n \in Known : n = a \/ nodes[n].beat = "fresh"}
DeadNodes(a) == {n \in Known \ {a} : nodes[n].beat = "dead"}
BalanceOK(a) == ~ \E n \in DeadNodes(a) : ~Leaving(n)
Counts(seen) == [n \in env.nodes |-> Cardinality({r \in RangeIds : n \in Members(seen[r])})]

NoOp == <<>>
Op(r, to, from) == <<[r |-> r, to |-> to, from |-> from, stage |-> IF to = None THEN "drop" ELSE "add"]>>
Shed(r, to) == <<[r |-> r, to |-> to, from |-> None, stage |-> "shed"]>>
Idle == [pass |-> "idle", op |-> NoOp]

Snapshot(a, p) ==
  LET all == IF p \in {"up", "repair", "drain"} THEN LiveNodes(a)
             ELSE IF BalanceOK(a) THEN {n \in LiveNodes(a) : ~Leaving(n)} ELSE {}
      seen == meta
  IN [pass |-> p, op |-> NoOp, at |-> 1, seen |-> seen,
      live |-> all, fit |-> {n \in all : ~Leaving(n)},
      dead |-> IF p = "repair" THEN DeadNodes(a) ELSE {},
      draining |-> IF p = "drain" THEN {n \in all : nodes[n].row} ELSE {},
      count |-> Counts(seen)]

Want(r) == policy[r].want
AllLive(t, r) == Members(t.seen[r]) \subseteq t.live
Spare(t, r) == t.fit \ Members(t.seen[r])
Towards(r, target, from) == IF target = None THEN NoOp ELSE Op(r, target, from)

-----------------------------------------------------------------------------
(* What each pass does about one range.                                    *)

UpreplicateOp(t, r) ==
  IF Len(t.seen[r]) >= Want(r) THEN NoOp
  ELSE Towards(r, AllocateTargetFor(r, Members(t.seen[r]) \cap Known, Spare(t, r), t.count), None)

RepairOp(t, r) ==
  LET s == t.seen[r]
      dead == {i \in DOMAIN s : s[i] \in t.dead}
      survivors == (Members(s) \cap t.live) \ t.dead
  IN IF dead = {} \/ Cardinality(survivors) <= Len(s) \div 2 THEN NoOp
     ELSE Towards(r, AllocateTargetFor(r, survivors, Spare(t, r), t.count), s[Min(dead)])

DrainOp(t, d, r) ==
  LET s == t.seen[r]
      live == Members(s) \cap t.live
  IN IF d \notin Members(s) \/ Cardinality(live) <= Len(s) \div 2 THEN NoOp
     ELSE Towards(r, AllocateTargetFor(r, live \ {d}, Spare(t, r), t.count), d)

EnforceOp(t, r) ==
  LET s == t.seen[r]
      Move(from) == IF from = None THEN NoOp
                    ELSE Towards(r, AllocateTargetFor(r, Members(s) \ {from}, Spare(t, r), t.count), from)
  IN IF Cardinality(t.live) < 2 \/ ~AllLive(t, r) \/ Len(s) < Want(r) THEN NoOp
     ELSE Move(FirstMisplaced(r, s))

SurplusOp(t, r) ==
  IF Len(t.seen[r]) <= Want(r) \/ ~AllLive(t, r) THEN NoOp
  ELSE Op(r, None, RemoveTarget(Members(t.seen[r])))

Most(s, f) == CHOOSE n \in s : \A m \in s \ {n} : f[n] > f[m] \/ (f[n] = f[m] /\ n < m)
Least(s, f) == CHOOSE n \in s : \A m \in s \ {n} : f[n] < f[m] \/ (f[n] = f[m] /\ n < m)

SpreadSmall(t) ==
  LET c == [n \in t.live |-> t.count[n]] IN c[Most(t.live, c)] - c[Least(t.live, c)] < env.threshold

BalanceOp(t, r, top, dst) ==
  LET s == t.seen[r]
      from == {i \in DOMAIN s : /\ t.count[s[i]] = top /\ s[i] # dst
                                /\ RebalanceKeepsDiversity(Members(s), s[i], dst)}
      Lighten(out) == IF out = {} THEN NoOp ELSE Op(r, dst, s[Min(out)])
  IN IF Len(s) < Want(r) \/ ~AllLive(t, r) \/ dst \in Members(s) \/ dst \notin policy[r].admits
     THEN NoOp ELSE Lighten(from)

FirstOp(ops) == LET some == {i \in DOMAIN ops : ops[i] # NoOp} IN IF some = {} THEN NoOp ELSE ops[Min(some)]

RebalanceOp(t) ==
  LET Level(top, dst) == FirstOp([r \in RangeIds |-> BalanceOp(t, r, top, dst)])
      Trim(surplus) == IF surplus # NoOp THEN surplus
                       ELSE IF SpreadSmall(t) THEN NoOp
                       ELSE Level(t.count[Most(t.live, t.count)], Least(t.live, t.count))
  IN IF env.threshold < 0 \/ Cardinality(t.live) < 2 THEN NoOp
     ELSE Trim(FirstOp([r \in RangeIds |-> SurplusOp(t, r)]))

\* Ranges a node advertised, the largest first.
Ranked(s, f) == CHOOSE q \in [1 .. Cardinality(s) -> s] :
                  \A i, j \in DOMAIN q : i < j => f[q[i]] > f[q[j]] \/ (f[q[i]] = f[q[j]] /\ q[i] < q[j])

ShedFactor == [num |-> 3, den |-> 2]

\* A hot range leaves src only if its new home still carries less than src.
ShedFrom(a, t, qps, src) ==
  LET total == MapThenSumSet(LAMBDA n : qps[n], t.live)
      To(r, target) == IF qps[target] + env.load[r] >= qps[src] - env.load[r] THEN NoOp ELSE Shed(r, target)
      ShedOne(r, to) == IF ~AllLive(t, r) \/ to = {} \/ <<a, r>> \in cooling THEN NoOp ELSE To(r, Least(to, qps))
      ShedFirst(hot) == FirstOp([i \in DOMAIN hot |-> ShedOne(hot[i], (Members(t.seen[hot[i]]) \cap t.live) \ {src})])
  IN IF \/ ShedFactor.den * qps[src] * Cardinality(t.live) <= ShedFactor.num * total
        \/ qps[src] - qps[Least(t.live, qps)] <= env.floor
     THEN NoOp ELSE ShedFirst(Ranked(adverts[src].hot, env.load))

ShedOp(a, t) ==
  LET From(qps) == ShedFrom(a, t, qps, Most(t.live, qps))
  IN IF Cardinality(t.live) < 2 THEN NoOp ELSE From([n \in t.live |-> adverts[n].qps])

BytesFrom(a, t, bytes, src, dst) ==
  LET mean == MapThenSumSet(LAMBDA n : bytes[n], t.live) \div Cardinality(t.live)
      MoveOne(r, s) == IF \/ Len(s) < Want(r) \/ ~AllLive(t, r) \/ dst \notin policy[r].admits
                          \/ src \notin Members(s) \/ dst \in Members(s)
                          \/ ~RebalanceKeepsDiversity(Members(s), src, dst) \/ <<a, r>> \in cooling
                       THEN NoOp ELSE Op(r, dst, src)
      MoveFirst(big) == FirstOp([i \in DOMAIN big |-> MoveOne(big[i], t.seen[big[i]])])
  IN IF bytes[src] - bytes[dst] <= Max({env.byteThreshold, mean \div 5}) THEN NoOp
     ELSE MoveFirst(Ranked(adverts[src].big, env.bytes))

BytesOp(a, t) ==
  LET From(bytes) == BytesFrom(a, t, bytes, Most(t.live, bytes), Least(t.live, bytes))
  IN IF Cardinality(t.live) < 2 THEN NoOp ELSE From([n \in t.live |-> adverts[n].bytes])

-----------------------------------------------------------------------------
(* A tick: pass after pass, and the steps of the change a pass decided on. *)

Passes == <<"up", "repair", "drain", "place", "count", "lease", "bytes">>
Balancing == {"place", "count", "lease", "bytes"}
After(p) == LET i == CHOOSE k \in DOMAIN Passes : Passes[k] = p IN
            IF i = Len(Passes) THEN "idle" ELSE Passes[i + 1]

\* The draining nodes' ranges, node by node.
DrainItems(t) ==
  LET ds == SetToSortSeq(t.draining, <) IN
  [i \in 1 .. (Len(ds) * Len(env.start)) |->
     [d |-> ds[((i - 1) \div Len(env.start)) + 1], r |-> ((i - 1) % Len(env.start)) + 1]]

OpsOf(a, t) ==
  CASE t.pass = "up" -> [r \in RangeIds |-> UpreplicateOp(t, r)]
    [] t.pass = "repair" -> [r \in RangeIds |-> RepairOp(t, r)]
    [] t.pass = "drain" -> LET Over(items) == [i \in DOMAIN items |-> DrainOp(t, items[i].d, items[i].r)]
                           IN Over(DrainItems(t))
    [] t.pass = "place" -> [r \in RangeIds |-> EnforceOp(t, r)]
    [] t.pass = "count" -> <<RebalanceOp(t)>>
    [] t.pass = "lease" -> <<ShedOp(a, t)>>
    [] t.pass = "bytes" -> <<BytesOp(a, t)>>

\* The tick t of a, at its next change; at the end of the pass when there is none.
Decide(a, t) ==
  LET From(ops) == LET next == {i \in DOMAIN ops : i >= t.at /\ ops[i] # NoOp}
                   IN IF next = {} THEN [t EXCEPT !.at = Len(ops) + 1]
                      ELSE [t EXCEPT !.op = ops[Min(next)], !.at = Min(next) + 1]
  IN From(OpsOf(a, t))

Stamp(a, t) == cooling' = IF t.op # NoOp /\ t.pass \in {"lease", "bytes"} THEN cooling \cup {<<a, t.op[1].r>>}
                          ELSE cooling

\* env.overlap: a node may begin before the tick of the last leader is over.
Begin(a) ==
  /\ env.overlap \/ \A b \in DOMAIN ticks \ {0} : ticks[b] = Idle
  /\ a \in Up /\ ticks[a] = Idle /\ lead[1] = a /\ Available(1)
  /\ ticks' = [ticks EXCEPT ![a] = Decide(a, Snapshot(a, "up"))]
  /\ UNCHANGED <<env, nodes, ranges, lead, meta, policy, adverts, cooling, left>>

NextPass(a) ==
  /\ ticks[a] # Idle /\ ticks[a].pass # "manual" /\ ticks[a].op = NoOp
  /\ LET Enter(p) == IF p = "idle" THEN Idle ELSE Decide(a, Snapshot(a, p))
     IN ticks' = [ticks EXCEPT ![a] = Enter(After(ticks[a].pass))]
  /\ Stamp(a, ticks'[a])
  /\ UNCHANGED <<env, nodes, ranges, lead, meta, policy, adverts, left>>

\* The change is over.  A balancing pass ends the tick with it; the others
\* go on, with the target counted when it succeeded; a drained node waits.
Done(a, ok) ==
  LET t == ticks[a]
      o == t.op[1]
      t1 == [t EXCEPT !.op = NoOp, !.count = IF ok THEN [@ EXCEPT ![o.to] = @ + 1] ELSE @,
                      !.at = IF t.pass = "drain" /\ ok
                             THEN (((t.at - 2) \div Len(env.start)) + 1) * Len(env.start) + 1 ELSE @]
  IN IF t.pass \in Balancing \cup {"manual"} THEN Idle ELSE Decide(a, t1)

\* AdminChangeReplicas at the range's leader, and the /meta record after it.
Change(r, s, m) ==
  /\ ranges' = [ranges EXCEPT ![r] = s]
  /\ meta' = IF m THEN [meta EXCEPT ![r] = s] ELSE meta
CanAdd(r, n) == Available(r) /\ n \in Up /\ n \notin Members(ranges[r])
CanDrop(r, n) == Available(r) /\ n \in Members(ranges[r]) /\ n # lead[r]
Fault == left.failures > 0 /\ left' = [left EXCEPT !.failures = @ - 1]

AddFirst(a, o) ==
  \/ /\ CanAdd(o.r, o.to)
     /\ Change(o.r, Append(ranges[o.r], o.to), Available(1))
     /\ ticks' = [ticks EXCEPT ![a] = IF o.from = None THEN Done(a, TRUE) ELSE [@ EXCEPT !.op[1].stage = "drop"]]
     /\ UNCHANGED left
  \/ /\ (~CanAdd(o.r, o.to) /\ UNCHANGED left) \/ Fault
     /\ ticks' = [ticks EXCEPT ![a] = Done(a, FALSE)]
     /\ UNCHANGED <<ranges, meta>>

Without(s, n) == SelectSeq(s, LAMBDA m : m # n)

\* The removal of the leader's own replica is refused: the lease moves to
\* the target, or to any other member, and the removal is tried once more.
\* Only the repair of a dead node's replica does not bother.
Refused(a, o) == /\ Available(o.r) /\ lead[o.r] = o.from
                 /\ o.stage = "drop" /\ ticks[a].pass # "repair"

DropSecond(a, o) ==
  \/ /\ CanDrop(o.r, o.from)
     /\ Change(o.r, Without(ranges[o.r], o.from), Available(1))
     /\ ticks' = [ticks EXCEPT ![a] = Done(a, o.to # None)]
     /\ UNCHANGED <<lead, left>>
  \/ /\ Refused(a, o)
     /\ LET to == IF o.to # None THEN <<o.to>> ELSE Without(ticks[a].seen[o.r], o.from)
            moved == {i \in DOMAIN to : to[i] \in Up \cap Members(ranges[o.r])}
        IN IF moved = {} /\ o.to # None
           THEN ticks' = [ticks EXCEPT ![a] = Done(a, FALSE)] /\ UNCHANGED lead
           ELSE /\ lead' = IF moved = {} THEN lead ELSE [lead EXCEPT ![o.r] = to[Min(moved)]]
                /\ ticks' = [ticks EXCEPT ![a].op[1].stage = "retry"]
     /\ UNCHANGED <<ranges, meta, left>>
  \/ /\ (~CanDrop(o.r, o.from) /\ ~Refused(a, o) /\ UNCHANGED left) \/ Fault
     /\ ticks' = [ticks EXCEPT ![a] = Done(a, FALSE)]
     /\ UNCHANGED <<lead, ranges, meta>>


MoveReplica(a, o) ==
  \/ o.stage = "add" /\ AddFirst(a, o) /\ UNCHANGED lead
  \/ o.stage \in {"drop", "retry"} /\ DropSecond(a, o)

TransferLease(a, o) ==
  /\ o.stage = "shed"
  /\ lead' = IF Available(o.r) /\ o.to \in Up \cap Members(ranges[o.r]) THEN [lead EXCEPT ![o.r] = o.to] ELSE lead
  /\ ticks' = [ticks EXCEPT ![a] = Idle]
  /\ UNCHANGED <<ranges, meta, left>>

Execute(a) ==
  /\ ticks[a].op # NoOp
  /\ MoveReplica(a, ticks[a].op[1]) \/ TransferLease(a, ticks[a].op[1])
  /\ UNCHANGED <<env, nodes, policy, adverts, cooling>>

\* datax debug rebalance, served by any node (0 stands for it).
ServeRebalance(m) ==
  /\ ticks[0] = Idle /\ m \in left.moves
  /\ LET from == IF m.from = None THEN RemoveTarget((Members(meta[m.r]) \cap Known) \ {m.to}) ELSE m.from
     IN /\ from # None
        /\ ticks' = [ticks EXCEPT ![0] = [Snapshot(0, "count") EXCEPT !.pass = "manual", !.op = Op(m.r, m.to, from)]]
  /\ left' = [left EXCEPT !.moves = @ \ {m}]
  /\ UNCHANGED <<env, nodes, ranges, lead, meta, policy, adverts, cooling>>

-----------------------------------------------------------------------------
(* The nodes.                                                              *)

LoadSummary(n) ==
  LET held == {r \in RangeIds : n \in Members(ranges[r])}
      led == {r \in held : lead[r] = n /\ env.load[r] > 0}
  IN [qps |-> MapThenSumSet(LAMBDA r : env.load[r], led), hot |-> led,
      bytes |-> MapThenSumSet(LAMBDA r : env.bytes[r], held), big |-> {r \in held : env.bytes[r] > 0}]

NoLoad == [qps |-> 0, hot |-> {}, bytes |-> 0, big |-> {}]

\* A beat adopts a draining flag found in the node's row, publishes the row
\* and refreshes the registry from everybody's.
Heartbeat(n) ==
  /\ n \in Up /\ Available(1)
  /\ LET draining == nodes[n].draining \/ nodes[n].row
         after == [nodes[n] EXCEPT !.draining = draining, !.row = draining, !.rowStop = nodes[n].stopping,
                                   !.beat = "fresh"]
     IN /\ after # nodes[n] \/ adverts[n] # LoadSummary(n)
        /\ nodes' = [nodes EXCEPT ![n] = after]
  /\ adverts' = [adverts EXCEPT ![n] = LoadSummary(n)]
  /\ UNCHANGED <<env, ranges, lead, meta, policy, ticks, cooling, left>>

Older(n) ==
  /\ n \in Known \ Up /\ nodes[n].beat # "dead"
  /\ nodes' = [nodes EXCEPT ![n].beat = IF @ = "fresh" THEN "quiet" ELSE "dead"]
  /\ UNCHANGED <<env, ranges, lead, meta, policy, ticks, adverts, cooling, left>>

\* Forwarded to the node itself when it is up, which publishes a row without
\* its load; written into its row when it is not.
Decommission(n, on) ==
  /\ n \in Known /\ [n |-> n, on |-> on] \in left.drains /\ Available(1)
  /\ nodes' = [nodes EXCEPT ![n].row = on, ![n].draining = IF n \in Up THEN on ELSE @,
                            ![n].rowStop = IF n \in Up THEN FALSE ELSE @,
                            ![n].beat = IF n \in Up THEN "fresh" ELSE @]
  /\ adverts' = IF n \in Up THEN [adverts EXCEPT ![n] = NoLoad] ELSE adverts
  /\ left' = [left EXCEPT !.drains = @ \ {[n |-> n, on |-> on]}]
  /\ UNCHANGED <<env, ranges, lead, meta, policy, ticks, cooling>>

\* The process is gone: its flags, its tick and its cooldowns with it.
Gone(n) ==
  /\ nodes' = [nodes EXCEPT ![n].up = FALSE, ![n].draining = FALSE, ![n].stopping = FALSE]
  /\ ticks' = [ticks EXCEPT ![n] = Idle]
  /\ cooling' = {c \in cooling : c[1] # n}

Crash(n) ==
  /\ n \in Up /\ left.crashes > 0
  /\ Gone(n) /\ left' = [left EXCEPT !.crashes = @ - 1]
  /\ UNCHANGED <<env, ranges, lead, meta, policy, adverts>>

Restart(n) ==
  /\ n \in (Known \ Up) \ left.wiped /\ left.restarts > 0
  /\ nodes' = [nodes EXCEPT ![n].up = TRUE]
  /\ left' = [left EXCEPT !.restarts = @ - 1]
  /\ UNCHANGED <<env, ranges, lead, meta, policy, ticks, adverts, cooling>>

Join(n) ==
  /\ n \in env.nodes \ Known /\ Available(1)
  /\ nodes' = [nodes EXCEPT ![n].known = TRUE, ![n].up = TRUE]
  /\ UNCHANGED <<env, ranges, lead, meta, policy, ticks, adverts, cooling, left>>

\* Drain before a stop: announce, hand the leases over, stop.
Drain(n) ==
  /\ n \in Up /\ n \in left.stops
  /\ nodes' = [nodes EXCEPT ![n].stopping = TRUE, ![n].rowStop = Available(1) \/ @,
                            ![n].row = IF Available(1) THEN nodes[n].draining ELSE @,
                            ![n].beat = IF Available(1) THEN "fresh" ELSE @]
  /\ adverts' = IF Available(1) THEN [adverts EXCEPT ![n] = LoadSummary(n)] ELSE adverts
  /\ left' = [left EXCEPT !.stops = @ \ {n}]
  /\ UNCHANGED <<env, ranges, lead, meta, policy, ticks, cooling>>

ShedLease(n, r) ==
  /\ n \in Up /\ nodes[n].stopping /\ lead[r] = n /\ Available(r)
  /\ LET ok == {i \in DOMAIN ranges[r] : /\ ranges[r][i] \in LiveNodes(n) \cap Up
                                         /\ ranges[r][i] # n /\ ~Leaving(ranges[r][i])}
     IN ok # {} /\ lead' = [lead EXCEPT ![r] = ranges[r][Min(ok)]]
  /\ UNCHANGED <<env, nodes, ranges, meta, policy, ticks, adverts, cooling, left>>

Stop(n) ==
  /\ n \in Up /\ nodes[n].stopping
  /\ Gone(n)
  /\ UNCHANGED <<env, ranges, lead, meta, policy, adverts, left>>

Elect(r) ==
  /\ ~(lead[r] \in Up /\ lead[r] \in Members(ranges[r])) /\ Majority(ranges[r])
  /\ \E n \in Members(ranges[r]) \cap Up : lead' = [lead EXCEPT ![r] = n]
  /\ UNCHANGED <<env, nodes, ranges, meta, policy, ticks, adverts, cooling, left>>

\* ALTER DATABASE ... SET, as the schema cache picks it up.
SetPolicy ==
  /\ left.policies # <<>>
  /\ policy' = Head(left.policies) /\ left' = [left EXCEPT !.policies = Tail(@)]
  /\ UNCHANGED <<env, nodes, ranges, lead, meta, ticks, adverts, cooling>>

\* The cooldown outlives the heartbeats: everybody has published since.
Cooled(a, r) ==
  /\ <<a, r>> \in cooling /\ \A n \in Up : adverts[n] = LoadSummary(n)
  /\ cooling' = cooling \ {<<a, r>>}
  /\ UNCHANGED <<env, nodes, ranges, lead, meta, policy, ticks, adverts, left>>

\* datax debug unsafe-recover on the stopped store of n, once the other
\* members of a range are lost for good: the store's own descriptors change,
\* the /meta records do not.
UnsafeRecover(n) ==
  /\ left.recover /\ n \in Known \ Up
  /\ \E r \in RangeIds : n \in Members(ranges[r]) /\ ~Majority(ranges[r]) /\ Members(ranges[r]) \cap Up = {}
  /\ LET mine == {r \in RangeIds : n \in Members(ranges[r])} IN
     /\ ranges' = [r \in RangeIds |-> IF r \in mine THEN <<n>> ELSE ranges[r]]
     /\ lead' = [r \in RangeIds |-> IF r \in mine THEN n ELSE lead[r]]
     /\ left' = [left EXCEPT !.recover = FALSE, !.restarts = 1,
                             !.wiped = UNION {Members(ranges[r]) : r \in mine} \ {n}]
  /\ UNCHANGED <<env, nodes, meta, policy, ticks, adverts, cooling>>

-----------------------------------------------------------------------------
Node(n, e) == [known |-> n \in e.up, up |-> n \in e.up, beat |-> "fresh", draining |-> FALSE, row |-> FALSE,
               stopping |-> FALSE, rowStop |-> FALSE]

Init ==
  /\ env \in Environments
  /\ nodes = [n \in env.nodes |-> Node(n, env)]
  /\ ranges = env.start /\ meta = env.start /\ lead = env.lead
  /\ policy = env.policy
  /\ ticks = [a \in env.nodes \cup {0} |-> Idle]
  /\ adverts = [n \in env.nodes |-> LoadSummary(n)]
  /\ cooling = {}
  /\ left = [failures |-> env.failures, moves |-> env.moves, drains |-> env.drains, crashes |-> env.crashes,
             restarts |-> env.restarts, stops |-> env.stops, policies |-> env.policies,
             recover |-> env.recover, wiped |-> {}]

Allocate == \/ \E a \in env.nodes : Begin(a) \/ NextPass(a)
            \/ \E a \in DOMAIN ticks : Execute(a)

Faults == \/ \E n \in env.nodes : Crash(n) \/ Restart(n) \/ Drain(n) \/ UnsafeRecover(n)
          \/ \E n \in env.nodes, on \in BOOLEAN : Decommission(n, on)
          \/ \E m \in left.moves : ServeRebalance(m)
          \/ SetPolicy

Beats == \E n \in env.nodes : Heartbeat(n)
Reacts == \/ \E n \in env.nodes : Older(n) \/ Stop(n)
          \/ \E r \in RangeIds : Elect(r)
Cools == \E n \in env.nodes, r \in RangeIds : Cooled(n, r)

Next == \/ Allocate \/ Faults \/ Beats \/ Reacts \/ Cools
        \/ \E n \in env.nodes : Join(n)
        \/ \E n \in env.nodes, r \in RangeIds : ShedLease(n, r)

Spec == Init /\ [][Next]_vars

\* What tickers drive: every node beats and allocates, clocks run, ranges
\* elect.  Runs(a) is WF_vars(Begin(a) \/ NextPass(a) \/ Execute(a)), with
\* what enables these actions written out.
CanRun(a) == IF ticks[a] # Idle THEN TRUE
             ELSE /\ a \in Up /\ lead[1] = a /\ Available(1)
                  /\ env.overlap \/ \A b \in DOMAIN ticks \ {0} : ticks[b] = Idle
Runs(a) == \/ []<>(a \notin DOMAIN ticks \/ ~CanRun(a))
           \/ []<><<ticks'[a] # ticks[a]>>_vars
Fairness == /\ WF_vars(Beats) /\ WF_vars(Reacts) /\ WF_vars(Cools) /\ WF_vars(SetPolicy)
            /\ \A a \in 0 .. 5 : Runs(a)
FairSpec == Spec /\ Fairness

-----------------------------------------------------------------------------

(* What an operator expects of a range: enough nodes being up, admitted    *)
(* and not retiring, that many of its replicas are on nodes that stay, and *)
(* all of them as long as a node is left to move to; once nobody is dead,  *)
(* all are where the policy wants them and none is spare.                  *)
Fit(r) == {n \in Up : ~nodes[n].row /\ ~nodes[n].rowStop /\ n \in policy[r].admits}
Staying(r) == {n \in Members(ranges[r]) : n \in Up /\ ~nodes[n].row}
NobodyDead == \A n \in Known : nodes[n].up \/ Leaving(n)
Healthy == left.wiped = {} => \A r \in RangeIds :
  Majority(ranges[r]) /\ Cardinality(Fit(r)) >= Want(r)
    => /\ Cardinality(Staying(r)) >= Want(r)
       /\ Fit(r) \subseteq Members(ranges[r]) \/ Staying(r) = Members(ranges[r])
       /\ NobodyDead /\ Staying(r) = Members(ranges[r])
            => Members(ranges[r]) \subseteq Fit(r) /\ (env.threshold >= 0 => Len(ranges[r]) = Want(r))

(* The allocator converges and then rests: whatever crashed, joined, was   *)
(* retired or re-placed, from some point on every range is healthy and no  *)
(* pass changes any membership (replicate.go: upreplicationLoop; the       *)
(* hysteresis of defaultRebalanceThreshold).                               *)
Converges == <>[]Healthy /\ <>[][ranges' = ranges /\ lead' = lead]_<<ranges, lead>>

-----------------------------------------------------------------------------
(* Small clusters for Placement: up to five nodes in two regions of two    *)
(* racks, range 1 and one or two more.                                     *)

Rack(n) == CASE n = 1 -> <<"r1", "a">> [] n = 2 -> <<"r1", "b">> [] n = 3 -> <<"r2", "a">>
             [] n = 4 -> <<"r2", "b">> [] n = 5 -> <<"r1", "b">>

On(ns, k) == [want |-> k, admits |-> ns]

\* Nodes ns, all up, ranges started on the sequences given.
Cluster(ns, start) ==
  [nodes |-> ns, up |-> ns, loc |-> [n \in ns |-> Rack(n)], start |-> start,
   lead |-> [r \in DOMAIN start |-> start[r][1]], policy |-> [r \in DOMAIN start |-> On(ns, 3)],
   policies |-> <<>>, load |-> [r \in DOMAIN start |-> 0], bytes |-> [r \in DOMAIN start |-> 0],
   threshold |-> 2, floor |-> 1, byteThreshold |-> 2, crashes |-> 0, restarts |-> 0, failures |-> 0,
   drains |-> {}, stops |-> {}, moves |-> {}, recover |-> FALSE, overlap |-> FALSE]

\* One seed node, joined by three.
Growing == [Cluster(1 .. 4, <<<<1>>, <<1>>>>) EXCEPT !.up = {1}]

\* A node dies, for a while or for good.
Failing == [Cluster(1 .. 5, <<<<1, 2, 3>>, <<1, 2, 3>>>>) EXCEPT !.crashes = 1, !.restarts = 1]

\* A node is retired, another change fails or a decommission is called off.
Retiring == [Cluster(1 .. 4, <<<<1, 2, 3>>, <<1, 2, 4>>>>) EXCEPT
               !.drains = {[n |-> 1, on |-> TRUE], [n |-> 1, on |-> FALSE]}, !.failures = 1]

\* A database is pinned to a region, and freed.
Pinned == [Cluster(1 .. 5, <<<<1, 3, 4>>, <<1, 3, 4>>>>) EXCEPT
             !.policies = <<[r \in 1 .. 2 |-> IF r = 2 THEN On({1, 2, 5}, 3) ELSE On(1 .. 5, 3)]>>]

\* Load and bytes to even out; of the two large ranges only one may move.
Busy == [Cluster(1 .. 4, <<<<1, 2, 3>>, <<1, 2, 3>>, <<4, 1, 2>>, <<4, 1, 3>>, <<4, 2, 3>>>>) EXCEPT
           !.policy = [r \in 1 .. 5 |-> On(IF r = 2 THEN 1 .. 3 ELSE 1 .. 4, 3)],
           !.load = <<1, 3, 0, 0, 0>>, !.bytes = <<1, 1, 0, 0, 0>>, !.byteThreshold = 1]

\* An operator's moves, automatic balancing off.
Manual == [Cluster(1 .. 5, <<<<1, 2, 3>>, <<1, 2, 3>>>>) EXCEPT
             !.threshold = -1, !.moves = {[r |-> 2, to |-> 4, from |-> 0], [r |-> 2, to |-> 5, from |-> 1]}]

\* A rolling restart.
Rolling == [Cluster(1 .. 4, <<<<1, 2, 3>>, <<1, 2, 3>>>>) EXCEPT !.stops = {1}, !.restarts = 1]

\* Two of three nodes lost for good, the third recovered alone.
Lost == [Cluster(1 .. 5, <<<<1, 2, 3>>>>) EXCEPT !.up = 1 .. 3, !.crashes = 3,
            !.recover = TRUE]

\* No cluster.
Absent == Cluster({}, <<>>)

Cases == {Growing, Failing, Retiring, Pinned, Busy, Manual, Rolling, Lost}
=============================================================================
