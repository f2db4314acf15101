---------------------------- MODULE RangeSizing ----------------------------
(***************************************************************************)
(* When ranges are split and merged: by stored bytes (autosplit.go), by    *)
(* the request rate each leader measures (loadsplit.go), and back          *)
(* together when small and cold (RunRangeMergeOnce).  How a split or merge *)
(* is carried out is RangeChanges'; here it happens at once.               *)
(*                                                                         *)
(* Keys are 1 .. N with stored bytes and requests per tick; a range is     *)
(* named by its first key; rates are in requests per window.               *)
(* env: bytes, loads (the workloads, one after the other), start, the      *)
(* thresholds splitSize, mergeSize and splitLoad, window, settle, enough   *)
(* (minSplitObservations), barriers (keys where a placement or a retention *)
(* begins), and how often a tracker is lost (elections) or handed over     *)
(* (transfers), or a sample replaced.                                      *)
(***************************************************************************)
EXTENDS Integers, Sequences, FiniteSets, FiniteSetsExt, Functions

CONSTANT Environments

VARIABLES
  env,
  starts,     \* the first keys of the ranges
  load,       \* range -> its leader's replicaLoad
  phase,      \* which workload the clients run
  budget      \* what is left of elections, transfers and replacements

vars == <<env, starts, load, phase, budget>>

Keys == 1 .. Len(env.bytes)
EndOf(r) == Min({s \in starts : s > r} \union {Len(env.bytes) + 1})
Span(r) == r .. (EndOf(r) - 1)
Bytes(ks) == SumFunctionOnSet(env.bytes, ks)
Requests(ks) == SumFunctionOnSet(env.loads[phase], ks)

----------------------------------------------------------------------------
(* The tracker (replicaLoad): age is the time since windowStart, stamp the *)
(* time since the last load split, settle once that no longer matters.     *)

init == [cur |-> 0, prev |-> 0, age |-> 0, mature |-> FALSE, samples |-> <<>>, stamp |-> env.settle]

resetForSplit(l, loadSplit) == [init EXCEPT !.stamp = IF loadSplit THEN 0 ELSE l.stamp]

rotateLocked(l) ==
  IF l.age < env.window THEN l
  ELSE [l EXCEPT !.prev = l.cur, !.cur = 0, !.age = l.age - env.window, !.mature = TRUE]

\* The sliding rate, times the window.
qps(l) == l.prev * (env.window - l.age) + l.cur * env.window

\* A rate handed over counts as a full window just completed.
seed(rate) == [init EXCEPT !.prev = rate \div env.window, !.mature = TRUE]

\* One tick's requests: the rate, and per sampled key the traffic to its left
\* and from it on; every key seen becomes a sample, and one may be replaced.
\* Counts saturate at four times what a choice needs (SampleCap).
SampleCap == 4 * env.enough

Observed(s, k, r) ==
  IF s[1] + s[2] >= SampleCap THEN s
  ELSE <<s[1] + Requests({x \in Span(r) : x < k}), s[2] + Requests({x \in Span(r) : x >= k})>>

record(l, r, replaced) ==
  LET old == DOMAIN l.samples
      seen == {k \in Span(r) : env.loads[phase][k] > 0}
  IN [l EXCEPT !.cur = @ + Requests(Span(r)),
               !.samples = [k \in old \union seen |->
                  IF k \in old \ replaced THEN Observed(@[k], k, r) ELSE <<0, 0>>]]

\* The sample with the most even share among the two-sided, well observed
\* ones strictly inside the range.
Candidates(r) ==
  {k \in DOMAIN load[r].samples :
     LET s == load[r].samples[k]
     IN s[1] > 0 /\ s[2] > 0 /\ s[1] + s[2] >= env.enough /\ r < k /\ k < EndOf(r)}

Abs(x) == IF x < 0 THEN -x ELSE x

\* |left - right| / total of k is at most that of j.
EvenerThan(s, k, j) ==
  Abs(s[k][1] - s[k][2]) * (s[j][1] + s[j][2]) <= Abs(s[j][1] - s[j][2]) * (s[k][1] + s[k][2])

chooseSplitKey(r) == {k \in Candidates(r) : \A j \in Candidates(r) : EvenerThan(load[r].samples, k, j)}

\* The first stored key at or past half the bytes, not the first of all.
findSplitMidpoint(r) ==
  LET stored == {k \in Span(r) : env.bytes[k] > 0}
      past == {k \in stored : k # Min(stored) /\ Bytes({x \in stored : x < k}) >= Bytes(stored) \div 2}
  IN IF past = {} THEN {} ELSE {Min(past)}

----------------------------------------------------------------------------
(* Housekeeping                                                            *)

recentLoadSplit(r) == load[r].stamp < env.settle

\* (loadSplitThreshold) Zero is the default, below zero load does not matter.
loadSplitThreshold == IF env.splitLoad = 0 THEN env.defaultLoad ELSE env.splitLoad

TooBig(r) == env.splitSize > 0 /\ Bytes(Span(r)) > env.splitSize

TooHot(r) ==
  /\ loadSplitThreshold > 0 /\ ~TooBig(r)
  /\ load[r].mature /\ qps(load[r]) > loadSplitThreshold * env.window /\ ~recentLoadSplit(r)

Split(r, k, byLoad) ==
  /\ starts' = starts \union {k}
  /\ load' = [x \in starts' |-> IF x = r THEN resetForSplit(load[r], byLoad)
                                ELSE IF x = k THEN resetForSplit(init, byLoad) ELSE load[x]]
  /\ UNCHANGED <<env, phase, budget>>

\* RunAutoSplitOnce at range r.
AutoSplit(r) == r \in starts /\ TooBig(r) /\ \E k \in findSplitMidpoint(r) : Split(r, k, FALSE)

maybeLoadSplit(r) ==
  /\ r \in starts /\ TooHot(r)
  /\ \E k \in IF Candidates(r) # {} THEN chooseSplitKey(r) ELSE findSplitMidpoint(r) : Split(r, k, TRUE)

mergeSizeThreshold == IF env.mergeSize = 0 THEN env.splitSize \div 4 ELSE env.mergeSize

\* The pair's rate, a tracker that is not mature counting as nothing.
PairRate(r, s) == (IF load[r].mature THEN qps(load[r]) ELSE 0) + (IF load[s].mature THEN qps(load[s]) ELSE 0)

\* seeded fault: a pair merges whatever its load
ColdAlways(r, s) == TRUE

\* The pair is cold, and neither half was just split for its load.
Cold(r, s) ==
  loadSplitThreshold > 0 => /\ 4 * PairRate(r, s) <= loadSplitThreshold * env.window
                            /\ ~recentLoadSplit(r) /\ ~recentLoadSplit(s)

\* RunRangeMergeOnce at range r.
Merge(r) ==
  LET s == EndOf(r) IN
  /\ r \in starts /\ s \in starts /\ s \notin env.barriers
  /\ Bytes(Span(r)) < mergeSizeThreshold /\ Bytes(Span(s)) < mergeSizeThreshold
  /\ Cold(r, s)
  /\ starts' = starts \ {s}
  /\ load' = [x \in starts' |-> load[x]]
  /\ UNCHANGED <<env, phase, budget>>

----------------------------------------------------------------------------
Aged(l) == [l EXCEPT !.age = @ + 1, !.stamp = IF @ < env.settle THEN @ + 1 ELSE @]

\* A tick of the clock: what was asked in it is recorded.
Tick ==
  \E replaced \in SUBSET Keys :
    /\ Cardinality(replaced) <= (IF budget.replaced > 0 THEN 1 ELSE 0)
    /\ budget' = [budget EXCEPT !.replaced = @ - Cardinality(replaced)]
    /\ load' = [r \in starts |-> rotateLocked(Aged(record(load[r], r, replaced)))]
    /\ UNCHANGED <<env, starts, phase>>

\* The clients turn to something else.
Shift ==
  /\ phase < Len(env.loads)
  /\ phase' = phase + 1
  /\ UNCHANGED <<env, starts, load, budget>>

\* Another node leads r: warm after a transfer, if there was a rate to hand
\* over, cold after an election.
Transfer(r) ==
  /\ r \in starts /\ budget.transfers > 0
  /\ budget' = [budget EXCEPT !.transfers = @ - 1]
  /\ load' = [load EXCEPT ![r] = IF @.mature /\ qps(@) > 0 THEN seed(qps(@)) ELSE init]
  /\ UNCHANGED <<env, starts, phase>>

Elect(r) ==
  /\ r \in starts /\ budget.elections > 0
  /\ budget' = [budget EXCEPT !.elections = @ - 1]
  /\ load' = [load EXCEPT ![r] = init]
  /\ UNCHANGED <<env, starts, phase>>

Init ==
  /\ env \in Environments
  /\ starts = env.start
  /\ load = [r \in env.start |-> init]
  /\ phase = 1
  /\ budget = [elections |-> env.elections, transfers |-> env.transfers, replaced |-> env.replaced]

Housekeeping(r) == AutoSplit(r) \/ maybeLoadSplit(r) \/ Merge(r)

Next ==
  \/ Keys # {} /\ (Tick \/ Shift)
  \/ \E r \in Keys : AutoSplit(r) \/ maybeLoadSplit(r) \/ Merge(r) \/ Transfer(r) \/ Elect(r)

\* Requests keep coming, and housekeeping comes round to every range.
MostKeys == 4
Fairness == WF_vars(Keys # {} /\ Tick) /\ \A r \in 1 .. MostKeys : WF_vars(Housekeeping(r))

----------------------------------------------------------------------------
(* Properties                                                              *)

\* However the load moves and leaders change, once they stay the ranges do
\* too: no split is undone to be made again.  And then no range is left that
\* could be split and is too big or too hot (RunRangeMergeOnce: "Never undo a
\* load split").
Settles ==
  /\ <>[][starts' = starts]_starts
  /\ <>[](\A r \in starts : findSplitMidpoint(r) # {} =>
             /\ ~TooBig(r)
             /\ loadSplitThreshold > 0 => Requests(Span(r)) * env.window <= loadSplitThreshold)

-----------------------------------------------------------------------------
(* Small situations for RangeSizing: up to four keys, a window of two      *)
(* ticks, at most two workloads.                                           *)

Stored(bytes, loads) ==
  [bytes |-> bytes, loads |-> loads, start |-> {1}, splitSize |-> 16, mergeSize |-> 0, splitLoad |-> 4,
   defaultLoad |-> 8, window |-> 2, settle |-> 4, enough |-> 3, barriers |-> {},
   elections |-> 0, transfers |-> 0, replaced |-> 0]

\* Too many bytes, most of them under one key; one neighbour is tiny.
Big == [Stored(<<1, 1, 9, 3>>, <<<<0, 0, 1, 0>>>>) EXCEPT !.start = {1, 2}, !.splitSize = 8, !.elections = 1]

\* Small and hot: split for load and never merged back; leaders change.
Hot == [Stored(<<1, 1, 1>>, <<<<1, 1, 1>>>>) EXCEPT !.elections = 1, !.transfers = 1, !.replaced = 1]

\* One hot key, then another, then none.
Moving == Stored(<<1, 1, 1>>, <<<<3, 0, 1>>, <<0, 1, 3>>, <<0, 0, 0>>>>)

\* Small ranges that a placement boundary keeps apart.
Apart == [Stored(<<1, 0, 1, 1>>, <<<<0, 1, 0, 0>>>>) EXCEPT !.start = {1, 2, 3, 4}, !.barriers = {3}, !.splitLoad = 0]

\* Load does not split, and bytes merge by a threshold of their own.
Idle == [Stored(<<2, 2, 2, 2>>, <<<<4, 4, 4, 4>>>>) EXCEPT !.start = {1, 2, 3}, !.splitLoad = -1, !.mergeSize = 3]

\* Nothing stored.
Vacant == [Stored(<<>>, <<<<>>>>) EXCEPT !.start = {}]

Cases == {Big, Hot, Moving, Apart, Idle}
=============================================================================
