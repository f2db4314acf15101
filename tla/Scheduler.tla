----------------------------- MODULE Scheduler -----------------------------
(***************************************************************************)
(* The raft scheduler of a store (kvserver/scheduler.go): raft workers run *)
(* passes over queued replicas, hand the entries raft has committed to     *)
(* apply workers, and a merge applied by one replica stops another. An     *)
(* entry is its index; env.log says what the entries of a range do:        *)
(*   "put"     an ordinary command                                         *)
(*   "conf"    a configuration change, applied inside the pass             *)
(*   "remove"  a configuration change that removes this replica            *)
(*   "merge"   absorbs the range env.rhs once it has applied env.subsumed  *)
(***************************************************************************)
EXTENDS Integers, Sequences, FiniteSets, SequencesExt

CONSTANTS Ranges, NoRange,
          Workers,       \* raft workers, 1 .. n
          Appliers,      \* apply workers, n + 1 .. 2n
          GroupSize,     \* raftReadyGroupSize
          Environments   \* logs and circumstances, see Init

VARIABLES env,
          rep,           \* Replica: in the store map, stopped, what is applied
          raft,          \* RawNode: what is committed, what was handed out
          wake,          \* goroutines that stepped raft and have yet to enqueue
          queue, st,     \* raftScheduler.mu: the queue and schedState by range
          pass,          \* what each raft worker is at
          applyQueue, as,   \* raftScheduler.mu: applyQueue and applyState by range
          run            \* what each apply worker is at

vars == <<env, rep, raft, wake, queue, st, pass, applyQueue, as, run>>

NoState == [flags |-> {}, queued |-> FALSE, running |-> FALSE, worker |-> NoRange]
NoApply == [pending |-> <<>>, busy |-> 0, queued |-> FALSE, running |-> FALSE, deferred |-> {}]
NoPass  == [step |-> "idle", group |-> {}, flags |-> [r \in Ranges |-> {}], todo |-> <<>>,
            to |-> [r \in Ranges |-> 0], found |-> {}]
NoRun   == [id |-> NoRange, ents |-> <<>>, phase |-> "none", err |-> FALSE, found |-> FALSE]

\* applyState.bytes: entries queued and the run in progress.
Bytes(r) == Len(as[r].pending) + as[r].busy
Kind(r, i) == env.log[r][i]
Between(a, b) == [i \in 1 .. (b - a) |-> a + i]

Enqueued(r, f, q, s) ==
  LET new == ~s[r].queued /\ ~s[r].running
  IN  [queue |-> IF new THEN Append(q, r) ELSE q,
       st    |-> [s EXCEPT ![r].flags = @ \cup f, ![r].queued = @ \/ new]]

enqueue(r, f) == LET e == Enqueued(r, f, queue, st) IN queue' = e.queue /\ st' = e.st

\* Raft commits another entry (a step, a proposal) under raftMu; whoever did
\* that enqueues the replica afterwards, outside the lock.
Commit(r) ==
  /\ ~rep[r].stopped /\ raft[r].commit < Len(env.log[r])
  /\ raft' = [raft EXCEPT ![r].commit = @ + 1]
  /\ wake' = wake \cup {r}
  /\ UNCHANGED <<env, rep, queue, st, pass, applyQueue, as, run>>

Enqueue(r) ==
  /\ r \in wake
  /\ wake' = wake \ {r}
  /\ enqueue(r, {"ready"})
  /\ UNCHANGED <<env, rep, raft, pass, applyQueue, as, run>>

\* tickLoop: replicas of the store that are not quiescent.
Tick(r) ==
  /\ env.ticks /\ rep[r].present
  /\ enqueue(r, {"tick"})
  /\ UNCHANGED <<env, rep, raft, wake, pass, applyQueue, as, run>>

(***************************************************************************)
(* A raft worker's pass: pop a group, take every Ready, commit them in one *)
(* batch, finish each in turn. A replica over its apply bound gets none.   *)
(***************************************************************************)
Over(r) == Bytes(r) > env.applyBound

\* Idle workers are interchangeable: the first of them is the one that wakes.
First(w, idle) == w \in idle /\ \A v \in idle : w <= v

Pop(w) ==
  /\ First(w, {v \in Workers : pass[v].step = "idle"}) /\ queue # <<>>
  /\ LET n    == IF Len(queue) < GroupSize THEN Len(queue) ELSE GroupSize
         head == {queue[i] : i \in 1 .. n}
         mine == {r \in head : ~Over(r)}
     IN  /\ queue' = SubSeq(queue, n + 1, Len(queue))
         /\ pass' = [pass EXCEPT ![w] = [NoPass EXCEPT !.step = IF mine = {} THEN "idle" ELSE "take",
                       !.group = mine, !.flags = [r \in Ranges |-> IF r \in mine THEN st[r].flags ELSE {}],
                       !.todo = SelectSeq(SubSeq(queue, 1, n), LAMBDA r : r \in mine)]]
         /\ st' = [r \in Ranges |-> IF r \in mine
                     THEN [NoState EXCEPT !.running = TRUE, !.worker = w]
                     ELSE IF r \in head THEN [st[r] EXCEPT !.flags = {}, !.queued = FALSE] ELSE st[r]]
         /\ as' = [r \in Ranges |-> IF r \in head \ mine
                     THEN [as[r] EXCEPT !.deferred = @ \cup st[r].flags] ELSE as[r]]
  /\ UNCHANGED <<env, rep, raft, wake, applyQueue, run>>

\* runGroup's first half: takeReady, stageReady and the shared commit.
Has(r) == rep[r].present /\ ~rep[r].stopped /\ raft[r].handed < raft[r].commit
Take(w) ==
  /\ pass[w].step = "take"
  /\ pass' = [pass EXCEPT ![w].step = "finish", ![w].found = {r \in pass[w].group : rep[r].present},
                          ![w].todo = SelectSeq(@, Has),
                          ![w].to = [r \in Ranges |-> raft[r].commit]]
  /\ UNCHANGED <<env, rep, raft, wake, queue, st, applyQueue, as, run>>

\* enqueueApply: behind what the replica already has queued.
EnqueuedApply(r, ents) ==
  LET new == ~as[r].queued /\ ~as[r].running
  IN  /\ as' = [as EXCEPT ![r].pending = @ \o ents, ![r].queued = @ \/ new]
      /\ applyQueue' = IF new THEN Append(applyQueue, r) ELSE applyQueue

\* advanceReady: raft's handed-out index moves; more to say, and it is queued.
Advanced(r, to) ==
  /\ raft' = [raft EXCEPT ![r].handed = to]
  /\ IF raft[r].commit > to THEN enqueue(r, {"ready"}) ELSE UNCHANGED <<queue, st>>

Ents(w, r) == Between(raft[r].handed, pass[w].to[r])
Inline(w, r) == \E i \in 1 .. Len(Ents(w, r)) : Kind(r, Ents(w, r)[i]) \in {"conf", "remove"}

\* runGroup's second half for one member: skipped if a sibling's apply stopped
\* it, else its entries go to the apply workers ...
Finish(w) ==
  /\ pass[w].step = "finish" /\ pass[w].todo # <<>>
  /\ LET r == Head(pass[w].todo)
     IN  IF rep[r].stopped
         THEN UNCHANGED <<raft, queue, st, as, applyQueue>>
         ELSE /\ ~Inline(w, r)
              /\ EnqueuedApply(r, Ents(w, r))
              /\ Advanced(r, pass[w].to[r])
  /\ pass' = [pass EXCEPT ![w].todo = Tail(@)]
  /\ UNCHANGED <<env, rep, wake, run>>

Drained(w, r) == ~as[r].running /\ as[r].pending = <<>>
drainApply(w) ==
  /\ pass[w].step = "finish" /\ pass[w].todo # <<>>
  /\ LET r == Head(pass[w].todo)
     IN  /\ ~rep[r].stopped /\ Inline(w, r) /\ Drained(w, r)
         /\ run' = [run EXCEPT ![w] = [NoRun EXCEPT !.id = r, !.ents = Ents(w, r), !.found = TRUE]]
  /\ pass' = [pass EXCEPT ![w].step = "inline"]
  /\ UNCHANGED <<env, rep, raft, wake, queue, st, applyQueue, as>>

InlineEnd(w) ==
  /\ pass[w].step = "inline" /\ run[w].ents = <<>> /\ run[w].phase = "none"
  /\ IF run[w].err THEN UNCHANGED <<raft, queue, st>>
     ELSE Advanced(run[w].id, pass[w].to[run[w].id])
  /\ pass' = [pass EXCEPT ![w].step = "finish", ![w].todo = Tail(@)]
  /\ run' = [run EXCEPT ![w] = NoRun]
  /\ UNCHANGED <<env, rep, wake, applyQueue, as>>


PassEnd(w) ==
  /\ pass[w].step = "finish" /\ pass[w].todo = <<>>
  /\ LET again == {r \in pass[w].group : st[r].flags # {} /\ r \in pass[w].found}
     IN  /\ queue' = queue \o SetToSeq(again)
         /\ st' = [r \in Ranges |-> IF r \in again THEN [st[r] EXCEPT !.running = FALSE, !.queued = TRUE]
                                    ELSE IF r \in pass[w].group THEN NoState ELSE st[r]]
  /\ pass' = [pass EXCEPT ![w] = NoPass]
  /\ UNCHANGED <<env, rep, raft, wake, applyQueue, as, run>>

(***************************************************************************)
(* An apply worker's run, and the entries of a run or an inline apply.     *)
(***************************************************************************)
ApplyPop(a) ==
  /\ First(a, {b \in Appliers : run[b].id = NoRange}) /\ applyQueue # <<>>
  /\ LET r == Head(applyQueue)
         live == rep[r].present /\ ~rep[r].stopped
     IN  /\ applyQueue' = Tail(applyQueue)
         /\ as' = [as EXCEPT ![r].queued = FALSE, ![r].running = TRUE, ![r].pending = <<>>,
                             ![r].busy = Len(as[r].pending)]
         /\ run' = [run EXCEPT ![a] = [NoRun EXCEPT !.id = r, !.found = rep[r].present,
                                         !.ents = IF live THEN as[r].pending ELSE <<>>]]
  /\ UNCHANGED <<env, rep, raft, wake, queue, st, pass>>

\* failReady stops the group; a removed replica leaves the store map too.
Stopped(r, removed) == [rep EXCEPT ![r].stopped = TRUE, ![r].present = @ /\ ~removed]

\* applyEntry; an index already applied is passed over.
Current(a) == Head(run[a].ents)
ApplyEntry(a) ==
  /\ run[a].ents # <<>>
  /\ LET r == run[a].id
         i == Current(a)
     IN  IF i <= rep[r].applied
         THEN /\ run' = [run EXCEPT ![a].ents = Tail(@)]
              /\ UNCHANGED rep
         ELSE IF Kind(r, i) = "remove" \/ <<r, i>> \in env.fails
         THEN /\ run' = [run EXCEPT ![a].ents = <<>>, ![a].err = TRUE]
              /\ rep' = Stopped(r, Kind(r, i) = "remove")
         ELSE /\ Kind(r, i) # "merge"
              /\ run' = [run EXCEPT ![a].ents = Tail(@)]
              /\ rep' = [rep EXCEPT ![r].applied = i]
  /\ UNCHANGED <<env, raft, wake, queue, st, pass, applyQueue, as>>

\* stageMerge: the right-hand side must have applied the subsume; one that
\* stopped short of it aborts the apply. Then it leaves the store map ...
Merging(a) == /\ run[a].ents # <<>> /\ run[a].phase = "none"
              /\ Kind(run[a].id, Current(a)) = "merge" /\ Current(a) > rep[run[a].id].applied
MergeWait(a) ==
  /\ Merging(a)
  /\ LET h == env.rhs[run[a].id]
     IN  IF rep[h].applied >= env.subsumed[h]
         THEN /\ rep' = [rep EXCEPT ![h].present = FALSE]
              /\ run' = [run EXCEPT ![a].phase = "stop"]
         ELSE /\ rep[h].stopped
              /\ rep' = Stopped(run[a].id, FALSE)
              /\ run' = [run EXCEPT ![a].ents = <<>>, ![a].err = TRUE]
  /\ UNCHANGED <<env, raft, wake, queue, st, pass, applyQueue, as>>

stopReplica(a) ==
  /\ run[a].phase = "stop"
  /\ LET r == run[a].id
         h == env.rhs[r]
     IN  /\ \/ ~st[h].running /\ ~as[h].running
            \/ a \in Workers /\ st[h].running /\ st[h].worker = a
         /\ as' = IF as[h].running THEN as ELSE [as EXCEPT ![h].pending = <<>>, ![h].busy = 0]
         /\ rep' = [rep EXCEPT ![h].stopped = TRUE, ![h].absorbed = TRUE, ![r].applied = Current(a)]
  /\ run' = [run EXCEPT ![a].phase = "none", ![a].ents = Tail(@)]
  /\ UNCHANGED <<env, raft, wake, queue, st, pass, applyQueue>>

\* The run ends: deferred flags come back once the queue is within its bound,
\* and entries that arrived meanwhile queue the replica for another run.
ApplyEnd(a) ==
  /\ a \in Appliers /\ run[a].id # NoRange /\ run[a].ents = <<>> /\ run[a].phase = "none"
  /\ LET r    == run[a].id
         left == Len(as[r].pending)
         more == ~run[a].err /\ run[a].found /\ left > 0
         back == as[r].deferred # {} /\ left <= env.applyBound
     IN  /\ IF back THEN enqueue(r, as[r].deferred) ELSE UNCHANGED <<queue, st>>
         /\ as' = [as EXCEPT ![r] = IF more THEN [@ EXCEPT !.running = FALSE, !.queued = TRUE, !.busy = 0,
                                                           !.deferred = IF back THEN {} ELSE @]
                                    ELSE NoApply]
         /\ applyQueue' = IF more THEN Append(applyQueue, r) ELSE applyQueue
  /\ run' = [run EXCEPT ![a] = NoRun]
  /\ UNCHANGED <<env, rep, raft, wake, pass>>

Init ==
  /\ env \in Environments
  /\ rep = [r \in Ranges |-> [present |-> TRUE, stopped |-> FALSE, absorbed |-> FALSE, applied |-> 0]]
  /\ raft = [r \in Ranges |-> [commit |-> 0, handed |-> 0]]
  /\ wake = {} /\ queue = <<>> /\ st = [r \in Ranges |-> NoState]
  /\ pass = [w \in Workers |-> NoPass]
  /\ applyQueue = <<>> /\ as = [r \in Ranges |-> NoApply]
  /\ run = [a \in Workers \cup Appliers |-> NoRun]

WorkerStep(w) == Pop(w) \/ Take(w) \/ Finish(w) \/ drainApply(w) \/ InlineEnd(w) \/ PassEnd(w)
ApplyStep(a)  == ApplyPop(a) \/ ApplyEntry(a) \/ MergeWait(a) \/ stopReplica(a) \/ ApplyEnd(a)

Next ==
  \/ \E r \in Ranges : Commit(r) \/ Enqueue(r) \/ Tick(r)
  \/ \E w \in Workers : WorkerStep(w)
  \/ \E a \in Workers \cup Appliers : ApplyStep(a)

Spec == Init /\ [][Next]_vars

\* Goroutines keep running, and raft commits what is in its log.
Fairness ==
  /\ \A r \in Ranges : WF_vars(Commit(r)) /\ WF_vars(Enqueue(r))
  /\ \A w \in Workers : WF_vars(WorkerStep(w))
  /\ \A a \in Workers \cup Appliers : WF_vars(ApplyStep(a))
FairSpec == Spec /\ Fairness
----------------------------------------------------------------------------
\* The scheduler's bookkeeping agrees with what its workers are at.
TypeOK ==
  /\ \A r \in Ranges :
       /\ rep[r].applied \in 0 .. Len(env.log[r])
       /\ raft[r].handed \in 0 .. raft[r].commit /\ raft[r].commit \in 0 .. Len(env.log[r])
       /\ st[r].flags \subseteq {"tick", "ready"} /\ ~(st[r].queued /\ st[r].running)
       /\ st[r].queued <=> r \in Range(queue)
       /\ as[r].queued <=> r \in Range(applyQueue)
       /\ as[r].running <=> \E a \in Appliers : run[a].id = r
  /\ Len(queue) = Cardinality(Range(queue)) /\ Len(applyQueue) = Cardinality(Range(applyQueue))

\* Every replica applies its log entry by entry, with no gap, and one a merge has
\* absorbed applies nothing more ("its keys are gone, nothing may write them").
InOrder ==
  [][\A r \in Ranges : /\ rep'[r].applied \in {rep[r].applied, rep[r].applied + 1}
                       /\ rep[r].absorbed => rep'[r].applied = rep[r].applied]_vars

\* No wakeup is lost: what raft has committed is applied, although passes are
\* skipped over the apply bound, replicas stop, and merges and configuration
\* changes wait for apply runs ("a pass that waits (a merge apply on its RHS) must
\* not starve the RHS").
EverythingApplied ==
  []<>(\A r \in Ranges : rep[r].stopped \/ rep[r].applied = Len(env.log[r]))
=============================================================================
