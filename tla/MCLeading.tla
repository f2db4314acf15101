--------------------------- MODULE MCLeading ---------------------------
(***************************************************************************)
(* What a leader promises: linearizable reads (LeaderPath) and closed      *)
(* timestamps (ClosedTimestamps), each on a small instance.  A behaviour   *)
(* is one of theirs: which says whose, and the other keeps its initial     *)
(* state.                                                                  *)
(***************************************************************************)
EXTENDS LeaderPath, TLC

CONSTANTS n1, n2, q1, q2

VARIABLES which, cenv, cnow, cterm, clog, ccommit, quiet, floor, registered, group, woken, mine,
          logged, creq, round, out, net, fol

closed == <<cenv, cnow, cterm, clog, ccommit, quiet, floor, registered, group, woken, mine,
            logged, creq, round, out, net, fol>>

\* LeaderPath: two replicas, two requests, one leadership change; lease reads
\* with elections by timeout, and quorum reads with transfers, or with abandoned
\* proposals and overtaken checks.
MCNodes    == {n1, n2}
MCRequests == {q1, q2}
Symmetric  == Permutations(Requests)

Leased == [leaseReads |-> TRUE, timeout |-> 2, until |-> 3, faults |-> {}]
MCEnvironments ==
  {Leased, [leaseReads |-> FALSE, timeout |-> 1, until |-> 2, faults |-> {"transfer"}],
   [leaseReads |-> FALSE, timeout |-> 1, until |-> 2, faults |-> {"cancel", "race"}]}

\* ClosedTimestamps.  Calm: a range that sleeps and wakes beside other
\* sleeping ranges of its leader's store; envelopes arrive in order, the
\* follower has applied what is committed when one does, and no request
\* overtakes another's wake or is caught by the range falling asleep.
\* Awake: a range that never sleeps, in a store where none does: nothing is
\* promised for it but by itself, and envelopes, the follower and the latches
\* may be late or lost.
Calm  == [racing |-> FALSE, sleepy |-> FALSE, lossy |-> FALSE, others |-> TRUE, slow |-> FALSE,
          sleeps |-> TRUE, expires |-> FALSE, terms |-> 1, writes |-> 2, requests |-> {1}, until |-> 4]
Awake == [racing |-> TRUE, sleepy |-> TRUE, lossy |-> TRUE, others |-> FALSE, slow |-> TRUE,
          sleeps |-> FALSE, expires |-> TRUE, terms |-> 2, writes |-> 2, requests |-> {1}, until |-> 3]

C == INSTANCE ClosedTimestamps WITH
  Requests <- {1, 2}, Lag <- 1, env <- cenv, now <- cnow, term <- cterm, log <- clog,
  commit <- ccommit, req <- creq,
  Environments <- {Awake, [Calm EXCEPT !.writes = 1], [Calm EXCEPT !.requests = {1, 2}, !.writes = 1, !.until = 3],
                   [Calm EXCEPT !.terms = 2, !.writes = 1, !.until = 3]}

MCInit ==
  /\ which \in {"leader", "closed"}
  /\ Init /\ C!Init
  /\ which # "leader" => env = Leased
  /\ which # "closed" => cenv = Awake

MCNext ==
  \/ which = "leader" /\ Next /\ UNCHANGED <<which, closed>>
  \/ which = "closed" /\ C!Next /\ UNCHANGED <<which, vars>>

MCSpec == MCInit /\ [][MCNext]_<<which, vars, closed>>

\* Nothing is written at or below a closed timestamp (ClosedTimestamps.tla).
ClosedIsClosed == C!ClosedIsClosed
=============================================================================
