--------------------------- MODULE MCScheduling ---------------------------
(***************************************************************************)
(* The span latches, the raft scheduler and the split store below it, each *)
(* on a small instance.  They share no state, so a behaviour is one of     *)
(* theirs: which says whose, and the others keep their initial state.      *)
(***************************************************************************)
EXTENDS Latch, TLC

CONSTANTS r1, r2, r3

VARIABLES which, env, rep, raft, wake, queue, st, pass, applyQueue, as, run
VARIABLES store, engine, imm, std, seq, rf, rfd, step, applied, last, trunc, commit, applySeqs,
          durable, pending, snap, reading, crashes

scheduler == <<env, rep, raft, wake, queue, st, pass, applyQueue, as, run>>
stored == <<store, engine, imm, std, seq, rf, rfd, step, applied, last, trunc, commit, applySeqs,
            durable, pending, snap, reading, crashes>>

\* Latches: point, multi-point, ranged and mixed batches, and the whole range.
MCRequests  == {r1, r2, r3}
Point(k)    == [start |-> k, end |-> NoEnd]
Range(a, b) == [start |-> a, end |-> b]
MCBatches   == {{Point(0)}, {Point(0), Point(2)}, {Range(0, 2)},
                {Range(0, 1), Point(2)}}

\* Scheduler: two ranges, two workers of each kind.
Quiet   == [log |-> (1 :> <<"put", "put">>) @@ (2 :> <<"put">>), rhs |-> (1 :> 2) @@ (2 :> 0),
            subsumed |-> (1 :> 0) @@ (2 :> 1), ticks |-> FALSE, applyBound |-> 9, fails |-> {}]
Confs   == [Quiet EXCEPT !.log = (1 :> <<"conf", "put">>) @@ (2 :> <<"remove">>)]
Merges  == [Quiet EXCEPT !.log = (1 :> <<"merge">>) @@ (2 :> <<"put", "put">>)]
Ticked  == [Quiet EXCEPT !.log = (1 :> <<"put", "put">>) @@ (2 :> <<>>), !.ticks = TRUE]
Fails   == [Merges EXCEPT !.log = (1 :> <<"merge", "put">>) @@ (2 :> <<"put">>), !.fails = {<<2, 1>>}]
Bounded == [Quiet EXCEPT !.log = (1 :> <<"put", "put", "put", "put">>) @@ (2 :> <<>>), !.applyBound = 0]

S == INSTANCE Scheduler WITH
  Ranges <- {1, 2}, NoRange <- 0, Workers <- {1, 2}, Appliers <- {3, 4}, GroupSize <- 2,
  Environments <- {Quiet, Confs, Merges, Ticked, Fails, Bounded}

\* Split store: a log of five entries, of which the third truncates through 1
\* and the fifth through 3.  Process crashes between steps, removal included;
\* power losses at any step, and a log read while it is truncated; a replica
\* created by a preseed, on a store that keeps running.
MaxIndex == 5
Target  == [i \in 1..MaxIndex |-> IF i = 3 THEN 1 ELSE IF i = 5 THEN 3 ELSE 0]
Dying   == [origin |-> "split", removedAt |-> 5, crashes |-> 2, powerLoss |-> FALSE,
            snapshots |-> TRUE, crashInInstall |-> FALSE, logReaders |-> FALSE]
Failing == [Dying EXCEPT !.removedAt = 0, !.crashes = 1, !.powerLoss = TRUE,
                         !.crashInInstall = TRUE, !.logReaders = TRUE]
Preseeded == [Dying EXCEPT !.origin = "preseed", !.removedAt = 0, !.crashes = 0,
                           !.logReaders = TRUE]

E == INSTANCE SplitStore WITH
  Environments <- {Dying, Failing, Preseeded}, Spacing <- 3, env <- store, st <- engine

all == <<which, vars, scheduler, stored>>

MCInit ==
  /\ which \in {"latch", "scheduler", "store"}
  /\ Init /\ S!Init /\ E!Init
  /\ which # "scheduler" => env = Quiet
  /\ which # "store" => store = Preseeded

MCNext ==
  \/ which = "latch" /\ Next /\ UNCHANGED <<which, scheduler, stored>>
  \/ which = "scheduler" /\ S!Next /\ UNCHANGED <<which, vars, stored>>
  \/ which = "store" /\ E!Next /\ UNCHANGED <<which, vars, scheduler>>

\* The fairness of Latch!FairSpec, Scheduler!FairSpec and SplitStore!FairSpec.
MCSpec ==
  /\ MCInit /\ [][MCNext]_all
  /\ \A l \in Requests : WF_vars(which = "latch" /\ (Scan(l) \/ Release(l) \/ Close(l)))
  /\ \A r \in {1, 2} : WF_scheduler(which = "scheduler" /\ S!Commit(r))
                       /\ WF_scheduler(which = "scheduler" /\ S!Enqueue(r))
  /\ \A w \in {1, 2} : WF_scheduler(which = "scheduler" /\ S!WorkerStep(w))
  /\ \A a \in 1 .. 4 : WF_scheduler(which = "scheduler" /\ S!ApplyStep(a))
  /\ WF_stored(which = "store" /\ E!Housekeeping) /\ WF_stored(which = "store" /\ E!ForcedFlush)


\* A crash loses nothing that is not replayed (SplitStore.tla).
CrashSafe == E!CrashSafe

\* A deferred truncation is performed (SplitStore.tla).
TruncationHappens == E!TruncationHappens
=============================================================================
