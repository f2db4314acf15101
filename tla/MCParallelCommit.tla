-------------------------- MODULE MCParallelCommit --------------------------
(***************************************************************************)
(* ParallelCommit on one or two keys in four environments: two pushers;  *)
(* a key flushed before the commit; a commit that is interrupted; and one  *)
(* that is interrupted and sent again.                                     *)
(***************************************************************************)
EXTENDS ParallelCommit, TLC

CONSTANTS k1, k2, k3, p1, p2, MaxTime

MCTimes == 1 .. MaxTime

Environment(deferred, flushed, pushers, resends, interruptions) ==
  [deferred |-> deferred, flushed |-> flushed, pushers |-> pushers,
   resends |-> resends, interruptions |-> interruptions]

\* A commit whose context may end and whose leaders may change, sent once.
Interrupted == {Environment({k1, k2}, {}, {p1}, FALSE, TRUE)}

MCEnvironments == {Environment({k1, k2}, {}, {p1, p2}, FALSE, FALSE),
                   Environment({k1}, {k3}, {p1}, FALSE, FALSE),
                   Environment({k1}, {}, {p1}, TRUE, TRUE)} \cup Interrupted
=============================================================================
