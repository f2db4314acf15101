--------------------------- MODULE ParallelCommit ---------------------------
(***************************************************************************)
(* One transaction commits in parallel (kvclient/txn.go parallelCommit)    *)
(* while other transactions read its keys, trip over its intents, push its *)
(* record and run status recovery on it. Every key stands for the part of  *)
(* the write batch that one range evaluates. Timestamps are natural        *)
(* numbers; hlc.Timestamp.Next is + 1.                                     *)
(***************************************************************************)
EXTENDS Integers, FiniteSets

CONSTANTS Environments,   \* what may happen: records with the fields of env
          Times           \* timestamps other transactions read at

VARIABLES
  env,                    \* the environment of this behaviour, chosen at the start:
                          \*   deferred: keys of the write batch Commit sends
                          \*   flushed: keys written and flushed before Commit
                          \*   pushers: other transactions' coordinators
                          \*   resends: whether send may have to send the batch again
                          \*   interruptions: whether contexts end and leaders change
  rec,                    \* the transaction record: [status, ts]
  intent, ver,            \* per key: the transaction's intent, its committed version
  tsc, missed,            \* per key: newest foreign read, newest one that missed the write
  txn, txn0,              \* t.mu.txn's read and write timestamps, now and at Commit
  pc, outcome,            \* the coordinator's place in Commit, and what it returned
  et, etTxn, etMsg,       \* the EndTxn: its answer, its header, whether it is in flight
  staged,                 \* the timestamp the staging EndTxn was answered with
  wb, wbTxn, wbTS, wbRes, \* the write batch: per key, its header, newest landed, result
  todo, verdict,          \* resolveAll: keys left, and the status and timestamp it sends
  push                    \* per pusher: where it is in push, recovery and resolution

store == <<rec, intent, ver, tsc>>
coord == <<txn, txn0, pc, outcome, et, etTxn, etMsg, staged, wb, wbTxn, wbTS, wbRes,
           todo, verdict>>
vars  == <<env, rec, intent, ver, tsc, missed, coord, push>>

Maximum(a, b) == IF a < b THEN b ELSE a

None     == [ts |-> 0, seq |-> 0]       \* no intent, or no version
Early    == 1                           \* sequence of the flushed writes
Late     == 2                           \* sequence of the deferred batch
Final    == {"COMMITTED", "ABORTED"}
Statuses == {"NONE", "PENDING", "STAGING"} \cup Final
Idle     == [at |-> "idle", ts |-> 0, todo |-> {}, ok |-> TRUE, status |-> "NONE"]

Deferred == env.deferred
Flushed  == env.flushed
Pushers  == env.pushers
Keys     == Flushed \cup Deferred

ASSUME TimesAssumption == Times \subseteq Nat \ {0}
ASSUME EnvAssumption   ==
  \A e \in Environments : /\ e.deferred # {}
                          /\ IsFiniteSet(e.deferred) /\ IsFiniteSet(e.flushed)
                          /\ {e.resends, e.interruptions} \subseteq BOOLEAN
----------------------------------------------------------------------------
(***************************************************************************)
(* The servers: evaluation of the requests the commit and its rivals send. *)
(***************************************************************************)

\* evalEndTxn with Commit set, after createTxnRecord when the EndTxn carries it:
\* the statuses that accept the flip, and the commit-equality condition.
Flippable == rec.status \notin Final
CanCommit(t) == Flippable /\ t.read = t.write

\* MVCCResolveIntent: the intent goes, and on commit its value becomes a version
\* at the commit timestamp.
ResolveIntent(k, status, ts) ==
  /\ intent' = [intent EXCEPT ![k] = None]
  /\ ver' = IF status = "COMMITTED" /\ intent[k] # None
            THEN [ver EXCEPT ![k] = [ts |-> ts, seq |-> intent[k].seq]]
            ELSE ver

\* The intent timestamp of a deferred write: pushed above the reads it would
\* otherwise land beneath.
Forwarded(k) == IF tsc[k] < wbTxn.write THEN wbTxn.write ELSE tsc[k] + 1

\* mvccWrite refuses to write at or below a committed version, unless it
\* rewrites the transaction's own intent.
TooOld(k) == intent[k] = None /\ ver[k] # None /\ Forwarded(k) <= ver[k].ts

BumpNothing(k, ts) == tsc' = tsc      \* seeded fault: reads are not recorded
BumpKey(k, ts) == tsc' = [tsc EXCEPT ![k] = Maximum(tsc[k], ts)]
----------------------------------------------------------------------------
Init ==
  /\ env \in Environments
  /\ txn \in [read : {1}, write : {1, 2}]
  /\ Flushed = {} => txn.write = 1
  /\ txn0 = txn /\ etTxn = txn /\ wbTxn = txn
  /\ rec = IF Flushed = {} THEN [status |-> "NONE", ts |-> 0]
           ELSE [status |-> "PENDING", ts |-> txn.write]
  /\ intent = [k \in Keys |-> IF k \in Flushed THEN [ts |-> txn.write, seq |-> Early]
                              ELSE None]
  /\ ver = [k \in Keys |-> None]
  /\ tsc = [k \in Keys |-> IF k \in Flushed THEN txn.write - 1 ELSE 0]
  /\ missed = tsc
  /\ pc = "open" /\ outcome = "none"
  /\ et = "wait" /\ etMsg = FALSE /\ staged = 0
  /\ wb = [k \in Deferred |-> "held"] /\ wbTS = 0 /\ wbRes = "wait"
  /\ todo = {} /\ verdict = [status |-> "NONE", ts |-> 0]
  /\ push = [p \in Pushers |-> Idle]
----------------------------------------------------------------------------
(***************************************************************************)
(* The coordinator.                                                        *)
(***************************************************************************)

\* Commit sends the staging EndTxn and the write batch together, or, for a
\* transaction older than txnPoisonGuardAge, the EndTxn first.
BeginCommit ==
  /\ pc = "open"
  /\ pc' = "commit" /\ etMsg' = TRUE
  /\ \E first \in {"sent", "held"} : wb' = [k \in Deferred |-> first]
  /\ UNCHANGED <<env, store, missed, txn, txn0, outcome, et, etTxn, staged, wbTxn, wbTS,
                 wbRes, todo, verdict, push>>

\* The poison guard's second half: the record is staged, the writes go out.
ReleaseWrites ==
  /\ pc = "commit" /\ et = "ok" /\ \A k \in Deferred : wb[k] = "held"
  /\ wb' = [k \in Deferred |-> "sent"]
  /\ UNCHANGED <<env, store, missed, txn, txn0, pc, outcome, et, etTxn, etMsg, staged, wbTxn,
                 wbTS, wbRes, todo, verdict, push>>

\* The EndTxn stages the record. With interruptions its answer can be lost.
Stage ==
  /\ etMsg /\ CanCommit(etTxn)
  /\ rec' = [status |-> "STAGING", ts |-> etTxn.write]
  /\ etMsg' = FALSE
  /\ \/ et = "wait" /\ et' = "ok" /\ staged' = etTxn.write
     \/ (et # "wait" \/ env.interruptions) /\ et' = "err" /\ staged' = staged
  /\ UNCHANGED <<env, intent, ver, tsc, missed, txn, txn0, pc, outcome, etTxn, wb, wbTxn, wbTS,
                 wbRes, todo, verdict, push>>

\* The EndTxn finds the record finalized by a pusher.
StageRefused ==
  /\ etMsg /\ ~Flippable
  /\ etMsg' = FALSE /\ et' = "err"
  /\ UNCHANGED <<env, store, missed, txn, txn0, pc, outcome, etTxn, staged, wb, wbTxn, wbTS,
                 wbRes, todo, verdict, push>>

\* maybeRefresh to newTS, when it succeeds (whether the reads were invalidated
\* is not modelled here): the timestamps move, unless they already have.
Refreshed(t, newTS) ==
  IF newTS <= t.read THEN t
  ELSE [read |-> newTS, write |-> Maximum(t.write, newTS)]

\* The EndTxn's timestamps diverged: refresh and send it again, or fail.
StageRetry ==
  /\ etMsg /\ Flippable /\ etTxn.read # etTxn.write
  /\ \/ /\ et = "wait" /\ pc = "commit"
        /\ txn' = Refreshed(txn, etTxn.write)
        /\ etTxn' = txn'
        /\ UNCHANGED <<et, etMsg>>
     \/ /\ et' = "err" /\ etMsg' = FALSE
        /\ UNCHANGED <<txn, etTxn>>
  /\ UNCHANGED <<env, store, missed, txn0, pc, outcome, staged, wb, wbTxn, wbTS, wbRes, todo,
                 verdict, push>>

\* One range evaluates its part of the write batch. When answers can be lost the
\* coordinator may not learn that it landed ("again": send retries in place).
Land(k) ==
  /\ wb[k] = "sent" /\ ~TooOld(k)
  /\ intent' = [intent EXCEPT ![k] = [ts |-> Forwarded(k), seq |-> Late]]
  /\ \E answer \in {"ok"} \cup (IF env.resends THEN {"again"} ELSE {}) :
       /\ wb' = [wb EXCEPT ![k] = answer]
       /\ wbTS' = Maximum(wbTS, Forwarded(k))
  /\ UNCHANGED <<env, rec, ver, tsc, missed, txn, txn0, pc, outcome, et, etTxn, etMsg, staged,
                 wbTxn, wbRes, todo, verdict, push>>

\* Another transaction's intent is in the way, or a version at or above the
\* write's timestamp is.
Conflict(k) ==
  /\ wb[k] = "sent"
  /\ \E answer \in {"again", "tooOld"} : wb' = [wb EXCEPT ![k] = answer]
  /\ UNCHANGED <<env, store, missed, txn, txn0, pc, outcome, et, etTxn, etMsg, staged, wbTxn,
                 wbTS, wbRes, todo, verdict, push>>

WbAnswered == pc = "commit" /\ wbRes = "wait" /\ \A k \in Deferred : wb[k] \notin {"held", "sent"}

WbDone ==
  /\ WbAnswered /\ \A k \in Deferred : wb[k] = "ok"
  /\ wbRes' = "ok"
  /\ txn' = [txn EXCEPT !.write = Maximum(txn.write, wbTS)]
  /\ UNCHANGED <<env, store, missed, txn0, pc, outcome, et, etTxn, etMsg, staged, wb, wbTxn,
                 wbTS, todo, verdict, push>>

\* A conflict was waited out, or an answer was ambiguous: send sends the whole
\* batch again under the same header.
WbResend ==
  /\ env.resends /\ WbAnswered /\ \E k \in Deferred : wb[k] = "again"
  /\ wb' = [k \in Deferred |-> "sent"] /\ wbTS' = 0
  /\ UNCHANGED <<env, store, missed, txn, txn0, pc, outcome, et, etTxn, etMsg, staged, wbTxn,
                 wbRes, todo, verdict, push>>

\* A write was too old: refresh, re-stamp the header and send the batch again.
WbRefresh ==
  /\ env.resends /\ WbAnswered /\ \E k \in Deferred : wb[k] = "tooOld"
  /\ \E newTS \in Times :
       /\ wbTxn.write < newTS
       /\ txn' = Refreshed(txn, newTS)
  /\ wbTxn' = txn'
  /\ wb' = [k \in Deferred |-> "sent"] /\ wbTS' = 0
  /\ UNCHANGED <<env, store, missed, txn0, pc, outcome, et, etTxn, etMsg, staged, wbRes, todo,
                 verdict, push>>

\* send gives up on the batch: conflict budget, lock timeout or failed refresh.
WbFail ==
  /\ WbAnswered /\ \E k \in Deferred : wb[k] # "ok"
  /\ wbRes' = "err"
  /\ UNCHANGED <<env, store, missed, txn, txn0, pc, outcome, et, etTxn, etMsg, staged, wb, wbTxn,
                 wbTS, todo, verdict, push>>

\* The context ends while requests are in flight: send returns, they may still
\* be evaluated.
GiveUp ==
  /\ env.interruptions /\ pc = "commit" /\ (et = "wait" \/ wbRes = "wait")
  /\ et' = IF et = "wait" THEN "err" ELSE et
  /\ wbRes' = IF wbRes = "wait" THEN "err" ELSE wbRes
  /\ UNCHANGED <<env, store, missed, txn, txn0, pc, outcome, etTxn, etMsg, staged, wb, wbTxn,
                 wbTS, todo, verdict, push>>

Failed == \/ et = "err" /\ (wbRes # "wait" \/ \A k \in Deferred : wb[k] = "held")
          \/ et = "ok" /\ wbRes = "err"
BothOK == et = "ok" /\ wbRes = "ok"

\* The staged commit condition: no write landed above the staged timestamp.
CommitCondition == wbTS <= staged

\* Both arrived at or below the staged timestamp: implicitly committed.
ReturnImplicit ==
  /\ pc = "commit" /\ BothOK /\ CommitCondition
  /\ pc' = "async" /\ outcome' = "committed"
  /\ UNCHANGED <<env, store, missed, txn, txn0, et, etTxn, etMsg, staged, wb, wbTxn, wbTS, wbRes,
                 todo, verdict, push>>

\* The writes were forwarded above the staged timestamp: refresh to theirs, then
\* finalize at it, or abort when the refresh fails.
Settle ==
  /\ pc = "commit" /\ BothOK /\ ~CommitCondition
  /\ \/ pc' = "finalize" /\ txn' = Refreshed(txn, wbTS)
     \/ pc' = "aborting" /\ UNCHANGED txn
  /\ UNCHANGED <<env, store, missed, txn0, outcome, et, etTxn, etMsg, staged, wb, wbTxn, wbTS,
                 wbRes, todo, verdict, push>>

Abandon ==
  /\ pc = "commit" /\ Failed
  /\ pc' = "aborting"
  /\ UNCHANGED <<env, store, missed, txn, txn0, outcome, et, etTxn, etMsg, staged, wb, wbTxn,
                 wbTS, wbRes, todo, verdict, push>>

\* evalEndTxn with Commit unset.
Aborted == IF Flippable THEN [status |-> "ABORTED", ts |-> txn.write] ELSE rec

\* The explicit abort before an error is returned: EndTxn(commit = false), whose
\* own failure is only logged, then resolveAll(ABORTED).
AbortRecord ==
  /\ pc = "aborting"
  /\ \/ rec' = Aborted
     \/ env.interruptions /\ rec' = rec
  /\ pc' = "resolving" /\ outcome' = "error"
  /\ todo' = Keys /\ verdict' = [status |-> "ABORTED", ts |-> txn0.write]
  /\ UNCHANGED <<env, intent, ver, tsc, missed, txn, txn0, et, etTxn, etMsg, staged, wb, wbTxn,
                 wbTS, wbRes, push>>

ResolveAs(ts) == pc' = "resolving" /\ todo' = Keys
                 /\ verdict' = [status |-> "COMMITTED", ts |-> ts]
NoResolve     == pc' = "done" /\ UNCHANGED <<todo, verdict>>

\* The finalizing EndTxn of the classic path.
Finalize ==
  /\ pc = "finalize"
  /\ \/ CanCommit(txn) /\ rec' = [status |-> "COMMITTED", ts |-> txn.write]
        /\ outcome' = "committed" /\ ResolveAs(txn.write)
     \/ rec.status = "COMMITTED" /\ rec' = rec
        /\ outcome' = "committed" /\ ResolveAs(rec.ts)
     \/ ~CanCommit(txn) /\ rec.status # "COMMITTED" /\ rec' = rec
        /\ outcome' = "error" /\ NoResolve
     \/ env.interruptions /\ outcome' = "error" /\ NoResolve
        /\ rec' \in {rec, IF CanCommit(txn) THEN [status |-> "COMMITTED", ts |-> txn.write]
                          ELSE rec}
  /\ UNCHANGED <<env, intent, ver, tsc, missed, txn, txn0, et, etTxn, etMsg, staged, wb, wbTxn,
                 wbTS, wbRes, push>>

\* The asynchronous finalize of an implicit commit, stamped with the transaction
\* as it was when Commit began. Its failure leaves the intents to recovery.
AsyncFinalize ==
  /\ pc = "async"
  /\ rec' = IF CanCommit(txn0) THEN [status |-> "COMMITTED", ts |-> txn0.write] ELSE rec
  /\ IF rec'.status = "COMMITTED" THEN ResolveAs(staged) ELSE NoResolve
  /\ UNCHANGED <<env, intent, ver, tsc, missed, txn, txn0, outcome, et, etTxn, etMsg, staged, wb,
                 wbTxn, wbTS, wbRes, push>>

ResolveOne(k) ==
  /\ pc = "resolving" /\ k \in todo
  /\ ResolveIntent(k, verdict.status, verdict.ts)
  /\ todo' = todo \ {k}
  /\ UNCHANGED <<env, rec, tsc, missed, txn, txn0, pc, outcome, et, etTxn, etMsg, staged, wb,
                 wbTxn, wbTS, wbRes, verdict, push>>

\* The coordinator dies, or its resolution times out: requests already sent may
\* still be evaluated.
Crash ==
  /\ pc # "crashed" /\ pc' = "crashed"
  /\ UNCHANGED <<env, store, missed, txn, txn0, outcome, et, etTxn, etMsg, staged, wb, wbTxn,
                 wbTS, wbRes, todo, verdict, push>>
----------------------------------------------------------------------------
(***************************************************************************)
(* The rivals.                                                             *)
(***************************************************************************)

\* A read of k at ts: the cache is bumped first; an intent at or below ts blocks
\* it (it will push); otherwise it is served, with or without the write.
Read(k, ts) ==
  /\ BumpKey(k, ts)
  /\ LET blocked == intent[k] # None /\ intent[k].ts <= ts
         sees    == ver[k] # None /\ ver[k].ts <= ts
     IN  missed' = IF blocked \/ sees THEN missed
                   ELSE [missed EXCEPT ![k] = Maximum(missed[k], ts)]
  /\ UNCHANGED <<env, rec, intent, ver, coord, push>>

Resolving(k, status, ts) ==
  [at |-> "resolve", ts |-> ts, todo |-> {k}, ok |-> TRUE, status |-> status]

\* evalPushTxn: the records a push may abort, and those it must not judge.
PushAbortsRecorded == rec.status = "PENDING"      \* seeded fault: a missing record is left
PushAborts == rec.status \in {"NONE", "PENDING"}

NeedsRecovery == rec.status = "STAGING"

\* A pusher that found an intent pushes the record: a live record may be aborted
\* (by expiry, priority or as a deadlock victim) or left alone; a missing one is
\* poisoned once the transaction is old enough; a staged one needs recovery.
Push(p) ==
  /\ push[p].at = "idle"
  /\ \E k \in Keys :
       /\ intent[k] # None
       /\ \/ /\ PushAborts
             /\ rec' = [status |-> "ABORTED", ts |-> rec.ts]
             /\ push' = [push EXCEPT ![p] = Resolving(k, "ABORTED", 0)]
          \/ /\ NeedsRecovery /\ rec' = rec
             /\ push' = [push EXCEPT ![p] =
                           [Idle EXCEPT !.at = "probe", !.ts = rec.ts, !.todo = Deferred]]
          \/ /\ rec.status \notin {"NONE", "PENDING"} /\ ~NeedsRecovery /\ rec' = rec
             /\ push' = [push EXCEPT ![p] = Resolving(k, rec.status, rec.ts)]
  /\ UNCHANGED <<env, intent, ver, tsc, missed, coord>>

\* One prevention read of recoverStagedTxn.
Probe(p, k) ==
  /\ push[p].at = "probe" /\ k \in push[p].todo
  /\ BumpKey(k, push[p].ts)
  /\ LET present == intent[k] # None /\ intent[k].ts <= push[p].ts
         left    == IF present THEN push[p].todo \ {k} ELSE {}
     IN  push' = [push EXCEPT ![p] =
                    [@ EXCEPT !.todo = left, !.ok = present,
                              !.at = IF left = {} THEN "recover" ELSE "probe"]]
  /\ UNCHANGED <<env, rec, intent, ver, missed, coord>>

\* What the prevention reads found.
VerdictCommitted(p) == "COMMITTED"    \* seeded fault: a missing write is overlooked
Verdict(p) == IF push[p].ok THEN "COMMITTED" ELSE "ABORTED"

\* evalRecoverTxn: only a record still STAGING takes the recoverer's verdict.
\* The pusher then pushes again and sees what became of it.
Recover(p) ==
  /\ push[p].at = "recover"
  /\ rec' = IF rec.status = "STAGING"
            THEN [rec EXCEPT !.status = Verdict(p)]
            ELSE rec
  /\ push' = [push EXCEPT ![p] = Idle]
  /\ UNCHANGED <<env, intent, ver, tsc, missed, coord>>

\* The pusher resolves an intent it found as the record said.
PushResolve(p) ==
  /\ push[p].at = "resolve"
  /\ \E k \in push[p].todo : ResolveIntent(k, push[p].status, push[p].ts)
  /\ push' = [push EXCEPT ![p] = Idle]
  /\ UNCHANGED <<env, rec, tsc, missed, coord>>

\* Recovery meets routing trouble, or the pusher dies.
PushAbandon(p) ==
  /\ push[p].at # "idle"
  /\ push' = [push EXCEPT ![p] = Idle]
  /\ UNCHANGED <<env, store, missed, coord>>

AllPushers == UNION {e.pushers : e \in Environments}
Pushing(p) == p \in Pushers /\ (Push(p) \/ (\E k \in Deferred : Probe(p, k)) \/ Recover(p) \/ PushResolve(p))
----------------------------------------------------------------------------
Coordinator ==
  \/ BeginCommit \/ ReleaseWrites \/ WbDone \/ WbResend \/ WbRefresh \/ WbFail \/ GiveUp
  \/ ReturnImplicit \/ Settle \/ Abandon \/ AbortRecord \/ Finalize \/ AsyncFinalize
  \/ \E k \in Keys : ResolveOne(k)

Ranges == Stage \/ StageRefused \/ StageRetry
          \/ \E k \in Deferred : Land(k) \/ Conflict(k)

Rivals ==
  \/ \E k \in Keys, ts \in Times : Read(k, ts)
  \/ \E p \in Pushers : Pushing(p) \/ PushAbandon(p)

Next == Coordinator \/ Ranges \/ Rivals \/ Crash

Spec == Init /\ [][Next]_vars

\* A reader or writer stopped by an intent keeps pushing until it is gone
\* (pushIntents retries for as long as its caller waits).
FairSpec == Spec /\ \A p \in AllPushers : WF_vars(Pushing(p))
----------------------------------------------------------------------------
Stamp  == [read : Nat, write : Nat]
Writes == [ts : Nat, seq : {0, Early, Late}]
Answer == {"wait", "ok", "err"}

\* Type invariant.
TypeOK ==
  /\ rec \in [status : Statuses, ts : Nat]
  /\ intent \in [Keys -> Writes] /\ ver \in [Keys -> Writes]
  /\ tsc \in [Keys -> Nat] /\ missed \in [Keys -> Nat]
  /\ txn \in Stamp /\ txn0 \in Stamp /\ etTxn \in Stamp /\ wbTxn \in Stamp
  /\ pc \in {"open", "commit", "async", "finalize", "aborting", "resolving", "done",
             "crashed"}
  /\ outcome \in {"none", "committed", "error"}
  /\ et \in Answer /\ etMsg \in BOOLEAN /\ staged \in Nat
  /\ wb \in [Deferred -> {"held", "sent", "ok", "again", "tooOld"}]
  /\ wbTS \in Nat /\ wbRes \in Answer
  /\ todo \in SUBSET Keys /\ verdict \in [status : {"NONE"} \cup Final, ts : Nat]
  /\ push \in [Pushers -> [at : {"idle", "probe", "recover", "resolve"}, ts : Nat,
                          todo : SUBSET Keys, ok : BOOLEAN, status : {"NONE"} \cup Final]]

\* The write key k must end up with if the transaction commits.
LastWrite(k) == IF k \in Deferred THEN Late ELSE Early

\* Nothing is sent twice, nothing interrupts the commit and no key is written both
\* before it and in its batch: the environment in which the guarantees of
\* docs/transactions.md hold in full.
Undisturbed == ~env.resends /\ ~env.interruptions /\ Flushed \cap Deferred = {}

\* The staged record together with its writes is already a commit.
Implicit == /\ rec.status = "STAGING"
            /\ \A k \in Deferred : intent[k].seq = Late /\ intent[k].ts <= rec.ts

\* Nothing of an aborted transaction is ever a committed version, whichever of
\* coordinator and pushers resolved its intents, and in whatever environment.
\* Undisturbed, whatever the other coordinators push, recover and resolve
\* meanwhile, a committed transaction loses no write: every key still has the
\* last value the transaction gave it, as an intent or as a version at the
\* commit timestamp (docs/transactions.md: "every intent the transaction wrote
\* anywhere in the cluster is logically committed"); and no read already served
\* without the write is contradicted by a commit at or below its timestamp.
OutcomeStands ==
  /\ rec.status = "ABORTED" => \A k \in Keys : ver[k] = None
  /\ Undisturbed /\ rec.status = "COMMITTED" => \A k \in Keys :
       /\ intent[k].seq = LastWrite(k) \/ ver[k] = [ts |-> rec.ts, seq |-> LastWrite(k)]
       /\ missed[k] < rec.ts

\* A coordinator that dies at any point of its commit leaves nothing behind for
\* good: once pushers stop being interrupted, expiry, status recovery and
\* resolution remove every intent it wrote or still had in flight.
CrashIsCleanedUp ==
  (<>(pc = "crashed") /\ <>[][\A p \in AllPushers : p \in Pushers => ~PushAbandon(p)]_vars)
    => <>[](\A k \in Keys : intent[k] = None)

AllKeys == UNION {e.deferred \cup e.flushed : e \in Environments}

Abstract == INSTANCE AtomicCommit WITH
  Keys     <- AllKeys,
  decision <- IF ~Undisturbed THEN "open"
              ELSE IF rec.status = "COMMITTED" \/ Implicit THEN "committed"
              ELSE IF rec.status = "ABORTED" THEN "aborted" ELSE "open",
  applied  <- {k \in Keys : Undisturbed /\ ver[k] # None},
  answer   <- IF Undisturbed THEN outcome ELSE "none"

\* Undisturbed, the parallel commit is an atomic commit, decided at the instant
\* the record is staged and every write is in place: that decision is final, no
\* write is visible before it, and the client's answer agrees with it.
Atomic == Abstract!ASpec
=============================================================================
