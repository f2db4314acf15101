---------------------------- MODULE Consistency ----------------------------
(***************************************************************************)
(* The consistency sweep (kvserver/consistency.go, server/consistency.go): *)
(* a leader puts a check into a range's log, every replica that applies it *)
(* captures its state and hashes it in the background, and the leader's    *)
(* node collects the digests and compares.  Replicas lag, catch up by      *)
(* snapshot, restart and forget, keep few results, or are corrupted.       *)
(*                                                                         *)
(* Node 1 leads every range.  A replica's state is the writes it applied   *)
(* and whether a disk fault struck it; a digest is that state.             *)
(* env: nodes, ranges, keep (checksumKeep), and how many writes, probes,   *)
(* restarts, snapshots and corruptions there are.                          *)
(***************************************************************************)
EXTENDS Integers, Sequences, FiniteSets

CONSTANT Environments

\* Numbers, and a range to probe.
Env == {e \in [nodes : Nat, ranges : Nat, keep : Nat, writes : Nat, probes : Nat,
               restarts : Nat, snapshots : Nat, corruptions : Nat] :
          e.probes > 0 => e.ranges > 0}

ASSUME EnvAssumption == Environments \subseteq Env

VARIABLES
  env,
  log,        \* range -> its entries: 0 a write, id > 0 a check
  applied,    \* node -> range -> applied index
  state,      \* node -> range -> [writes, bad]
  computing,  \* node -> captured snapshots being hashed
  results,    \* node -> range -> the results kept, oldest first
  cursor,     \* consistencyMu.cursor
  probe,      \* <<>> or <<the probe under way>>
  mismatches, \* range, node and check of every failure reported
  captured,   \* check -> node -> the state captured for it
  left        \* what is left of writes, probes, restarts, snapshots, corruptions

vars == <<env, log, applied, state, computing, results, cursor, probe, mismatches, captured, left>>

Leader == 1
Nodes == 1 .. env.nodes
Ranges == 1 .. env.ranges

Spend(what) == left[what] > 0 /\ left' = [left EXCEPT ![what] = @ - 1]

Write(r) ==
  /\ Spend("writes")
  /\ log' = [log EXCEPT ![r] = Append(@, 0)]
  /\ UNCHANGED <<env, applied, state, computing, results, cursor, probe, mismatches, captured>>

\* What the hash tells apart: every version, intent and record of the range,
\* here the writes applied and whether they are intact.
checksumRangeState(n, r) == <<state[n][r].writes, state[n][r].bad>>

\* A replica applies its next entry; a check captures the state it leaves.
Apply(n, r) ==
  /\ applied[n][r] < Len(log[r])
  /\ applied' = [applied EXCEPT ![n][r] = @ + 1]
  /\ LET e == log[r][applied[n][r] + 1] IN
     IF e = 0 THEN /\ state' = [state EXCEPT ![n][r].writes = @ + 1]
                   /\ UNCHANGED <<computing, captured>>
     ELSE /\ computing' = [computing EXCEPT ![n] = @ \union {[range |-> r, id |-> e, sum |-> checksumRangeState(n, r)]}]
          /\ captured' = [captured EXCEPT ![e][n] = <<state[n][r]>>]
          /\ UNCHANGED state
  /\ UNCHANGED <<env, log, results, cursor, probe, mismatches, left>>

\* seeded fault: the state is read when the hash runs, not when the check applied
startChecksumLate(n, c) ==
  /\ computing' = [computing EXCEPT ![n] = @ \ {c}]
  /\ results' = [results EXCEPT ![n][c.range] =
                   LET all == Append(@, [id |-> c.id, sum |-> checksumRangeState(n, c.range)])
                   IN IF Len(all) > env.keep THEN Tail(all) ELSE all]
  /\ UNCHANGED <<env, log, applied, state, cursor, probe, mismatches, captured, left>>

\* The hash of a captured snapshot is done; only the newest results are kept.
startChecksum(n, c) ==
  /\ computing' = [computing EXCEPT ![n] = @ \ {c}]
  /\ results' = [results EXCEPT ![n][c.range] =
                   LET all == Append(@, [id |-> c.id, sum |-> c.sum])
                   IN IF Len(all) > env.keep THEN Tail(all) ELSE all]
  /\ UNCHANGED <<env, log, applied, state, cursor, probe, mismatches, captured, left>>

getChecksum(n, r, id) == {results[n][r][i].sum : i \in {j \in DOMAIN results[n][r] : results[n][r][j].id = id}}

\* A lagging follower is sent the leader's state instead of entries.
Install(n, r) ==
  /\ n # Leader /\ applied[n][r] < applied[Leader][r] /\ Spend("snapshots")
  /\ applied' = [applied EXCEPT ![n][r] = applied[Leader][r]]
  /\ state' = [state EXCEPT ![n][r] = state[Leader][r]]
  /\ UNCHANGED <<env, log, computing, results, cursor, probe, mismatches, captured>>

Restart(n) ==
  /\ Spend("restarts")
  /\ computing' = [computing EXCEPT ![n] = {}]
  /\ results' = [results EXCEPT ![n] = [r \in Ranges |-> <<>>]]
  /\ probe' = IF n = Leader THEN <<>> ELSE probe
  /\ cursor' = IF n = Leader THEN 0 ELSE cursor
  /\ UNCHANGED <<env, log, applied, state, mismatches, captured>>

Corrupt(n, r) ==
  /\ ~state[n][r].bad /\ Spend("corruptions")
  /\ state' = [state EXCEPT ![n][r].bad = TRUE]
  /\ UNCHANGED <<env, log, applied, computing, results, cursor, probe, mismatches, captured>>

\* (ProposeChecksum) The next range in turn gets a check into its log.
ProposeChecksum ==
  /\ probe = <<>> /\ Spend("probes")
  /\ LET r == (cursor % env.ranges) + 1
         id == env.probes - left.probes + 1
     IN /\ log' = [log EXCEPT ![r] = Append(@, id)]
        /\ probe' = <<[range |-> r, id |-> id, sum |-> <<>>, todo |-> Nodes \ {Leader}]>>
  /\ cursor' = cursor + 1
  /\ UNCHANGED <<env, applied, state, computing, results, mismatches, captured>>

\* (waitChecksum) The leader's own digest is there, or the wait is over.
LocalChecksum ==
  /\ probe # <<>> /\ probe[1].sum = <<>>
  /\ \/ \E s \in getChecksum(Leader, probe[1].range, probe[1].id) : probe' = <<[probe[1] EXCEPT !.sum = <<s>>]>>
     \/ probe' = <<>>
  /\ UNCHANGED <<env, log, applied, state, computing, results, cursor, mismatches, captured, left>>

\* (collectAndCompare) One replica answers with its digest of this check, or
\* is passed over.
Collect(n) ==
  /\ probe # <<>> /\ probe[1].sum # <<>> /\ n \in probe[1].todo
  /\ LET p == probe[1]
         rest == IF p.todo = {n} THEN <<>> ELSE <<[p EXCEPT !.todo = @ \ {n}]>>
     IN /\ probe' = rest
        /\ \/ \E s \in getChecksum(n, p.range, p.id) :
                mismatches' = IF s = p.sum[1] THEN mismatches
                              ELSE mismatches \union {[range |-> p.range, node |-> n, id |-> p.id]}
           \/ UNCHANGED mismatches
  /\ UNCHANGED <<env, log, applied, state, computing, results, cursor, captured, left>>

Init ==
  /\ env \in Environments
  /\ log = [r \in Ranges |-> <<>>]
  /\ applied = [n \in Nodes |-> [r \in Ranges |-> 0]]
  /\ state = [n \in Nodes |-> [r \in Ranges |-> [writes |-> 0, bad |-> FALSE]]]
  /\ computing = [n \in Nodes |-> {}]
  /\ results = [n \in Nodes |-> [r \in Ranges |-> <<>>]]
  /\ cursor = 0 /\ probe = <<>> /\ mismatches = {}
  /\ captured = [id \in 1 .. env.probes |-> [n \in Nodes |-> <<>>]]
  /\ left = [writes |-> env.writes, probes |-> env.probes, restarts |-> env.restarts,
             snapshots |-> env.snapshots, corruptions |-> env.corruptions]

Next ==
  \/ \E r \in Ranges : Write(r)
  \/ \E n \in Nodes, r \in Ranges : Apply(n, r) \/ Install(n, r) \/ Corrupt(n, r)
  \/ \E n \in Nodes : \E c \in computing[n] : startChecksum(n, c)
  \/ \E n \in Nodes : Restart(n) \/ Collect(n)
  \/ Nodes # {} /\ (ProposeChecksum \/ LocalChecksum)

Spec == Init /\ [][Next]_vars

----------------------------------------------------------------------------
\* A failure is reported only of a replica that was in another state than the
\* leader when it applied that very check, however far either has moved on
\* since: lag, snapshots and restarts raise no alarm (collectAndCompare: "A
\* lagging or dead replica is a liveness problem, not proof of corruption").
AlarmsRight ==
  \A m \in mismatches :
     /\ captured[m.id][m.node] # <<>> /\ captured[m.id][Leader] # <<>>
     /\ captured[m.id][m.node] # captured[m.id][Leader]
     /\ \E n \in {m.node, Leader} : captured[m.id][n][1].bad

-----------------------------------------------------------------------------
(* Small situations for Consistency: two or three replicas, one or two     *)
(* ranges, two probes.                                                     *)

Sweep(nodes, ranges) ==
  [nodes |-> nodes, ranges |-> ranges, keep |-> 1, writes |-> 2, probes |-> 2,
   restarts |-> 0, snapshots |-> 0, corruptions |-> 0]

Faulty == [Sweep(2, 1) EXCEPT !.writes = 1, !.corruptions = 1, !.snapshots = 1, !.restarts = 1]
Wide == [Sweep(3, 1) EXCEPT !.probes = 1, !.corruptions = 1, !.writes = 1]
Several == [Sweep(2, 2) EXCEPT !.writes = 1, !.restarts = 1]
Unwatched == [Sweep(0, 0) EXCEPT !.writes = 0, !.probes = 0]

Cases == {Faulty, Wide, Several}
=============================================================================
