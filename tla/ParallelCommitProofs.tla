------------------------ MODULE ParallelCommitProofs ------------------------
(***************************************************************************)
(* Proofs about ParallelCommit, for any number of keys, pushers and        *)
(* timestamps: the outcome of a commit stands, and an undisturbed parallel *)
(* commit implements AtomicCommit.  Leaves that need no arithmetic go to   *)
(* Zenon; the others to SMT.                                               *)
(***************************************************************************)
EXTENDS ParallelCommit, TLAPS
----------------------------------------------------------------------------
(***************************************************************************)
(* In every environment: who acts on a commit acts on a record that says   *)
(* so, and a record that says so keeps saying so.                          *)
(***************************************************************************)
\* Versions, the coordinator's verdict and a resolving pusher's say committed
\* only where the record does.
CommitsRecorded ==
  /\ \A k \in Keys : ver[k] # None => rec.status = "COMMITTED"
  /\ verdict.status = "COMMITTED" => rec.status = "COMMITTED"
  /\ \A p \in Pushers :
       push[p].at = "resolve" /\ push[p].status = "COMMITTED" => rec.status = "COMMITTED"
----------------------------------------------------------------------------
(***************************************************************************)
(* Undisturbed: the strengthening.                                         *)
(***************************************************************************)

\* The deferred write of k is in place, at or below the staged timestamp.
Arrived(k) == wb[k] = "ok" /\ intent[k].ts <= staged

\* The staged record can no longer become an implicit commit: a write landed
\* above it, was refused, or can only land above it.
Prevented ==
  \/ staged < wbTS
  \/ \E k \in Deferred : \/ wb[k] \in {"again", "tooOld"}
                         \/ wb[k] # "ok" /\ staged <= tsc[k]

\* What the requests are stamped with.
Headers ==
  /\ wbTxn = txn0 /\ 0 < txn0.write
  /\ txn0.write <= txn.write /\ txn0.write <= etTxn.write
  /\ txn0.read = txn0.write => etTxn = txn0

\* The staging EndTxn is evaluated once, and its answer tells whether it staged.
StagedOnce ==
  /\ pc = "open" => et = "wait" /\ ~etMsg
  /\ etMsg => et = "wait"
  /\ et # "ok" => rec.status \in {"NONE", "PENDING", "ABORTED"}
  /\ et = "ok" => /\ rec.status \in {"STAGING"} \cup Final
                  /\ staged = etTxn.write /\ etTxn.read = etTxn.write
                  /\ rec.status = "STAGING" => rec.ts = staged

\* What the coordinator knows at each place of Commit.
Places ==
  /\ pc \in {"open", "commit", "finalize", "aborting"} => outcome = "none"
  /\ pc \in {"async", "finalize"} => BothOK
  /\ pc = "finalize" => staged < wbTS
  /\ pc = "async" => wbTS <= staged /\ outcome = "committed"
  /\ pc = "aborting" => et = "err" \/ (et = "ok" /\ Prevented)
  /\ pc = "open" => wbRes = "wait" /\ \A k \in Deferred : wb[k] = "held"
  /\ wbRes = "ok" => wbTS <= txn.write /\ \A k \in Deferred : wb[k] = "ok"
  /\ wbRes = "err" => \E k \in Deferred : wb[k] \in {"again", "tooOld"}

\* resolveAll carries out what the record says.
VerdictRecorded ==
  /\ pc = "resolving" => verdict.status \in Final
  /\ verdict.status # "NONE" => rec.status = verdict.status
  /\ verdict.status = "COMMITTED" => verdict.ts = rec.ts

\* A write that was made is an intent no served read has missed, or what the
\* record's final status makes of it.
Kept(k) ==
  \/ rec.status = "ABORTED"
  \/ /\ intent[k].seq = LastWrite(k) /\ missed[k] < intent[k].ts
     /\ intent[k].ts <= IF k \in Deferred THEN wbTS ELSE txn0.write
  \/ /\ rec.status = "COMMITTED" /\ intent[k] = None
     /\ ver[k] = [ts |-> rec.ts, seq |-> LastWrite(k)]

WritesKept ==
  /\ \A k \in Deferred : wb[k] # "ok" => intent[k] = None /\ ver[k] = None
  /\ \A k \in Deferred : wb[k] = "ok" => Kept(k)
  /\ \A k \in Flushed : Kept(k)

\* The newest landed write is there while nothing has been resolved.
NewestLanded ==
  rec.status \notin Final =>
    wbTS = 0 \/ \E k \in Deferred : wb[k] = "ok" /\ intent[k].ts = wbTS

\* A read that missed a write is in the timestamp cache.
ReadsRecorded == \A k \in Keys : missed[k] <= tsc[k]

\* A committed record has every write, above every read that missed one.
CommitComplete ==
  rec.status = "COMMITTED" =>
    /\ et = "ok" /\ \A k \in Deferred : wb[k] = "ok"
    /\ wbTS <= rec.ts /\ txn0.write <= rec.ts
    /\ \A k \in Keys : missed[k] < rec.ts
    /\ outcome = "committed" \/ wbTS <= staged
    /\ wbTS <= staged => rec.ts = staged

\* What a pusher knows at each place of a push and its recovery.
Knows(p) ==
  /\ push[p].at = "resolve" => /\ rec.status = push[p].status /\ rec.status \in Final
                               /\ rec.status = "COMMITTED" => push[p].ts = rec.ts
  /\ push[p].at \in {"probe", "recover"} => et = "ok" /\ push[p].ts = staged
  /\ push[p].at = "probe" /\ rec.status = "STAGING" =>
       \A k \in Deferred : k \notin push[p].todo => Arrived(k)
  /\ push[p].at = "recover" /\ rec.status = "STAGING" =>
       IF push[p].ok THEN \A k \in Deferred : Arrived(k) ELSE Prevented

PushersKnow == \A p \in Pushers : Knows(p)

\* Decisions and answers agree.
Agreed ==
  /\ rec.status = "ABORTED" /\ et = "ok" => Prevented
  /\ outcome = "committed" => \/ rec.status = "COMMITTED"
                              \/ rec.status = "STAGING" /\ \A k \in Deferred : Arrived(k)
  /\ outcome = "error" => \/ rec.status = "ABORTED"
                          \/ rec.status = "STAGING" /\ Prevented

\* The strengthening, in full.
CalmInv ==
  /\ Headers /\ StagedOnce /\ Places /\ VerdictRecorded /\ WritesKept /\ NewestLanded
  /\ ReadsRecorded /\ CommitComplete /\ PushersKnow /\ Agreed

\* The inductive invariant.
CommitInv == TypeOK /\ env \in Environments /\ CommitsRecorded /\ (Undisturbed => CalmInv)
----------------------------------------------------------------------------
(***************************************************************************)
(* Lemmas about the operators.                                             *)
(***************************************************************************)

\* The larger of two timestamps is one of them, and bounds both.
LEMMA MaximumBounds ==
  ASSUME NEW a \in Nat, NEW b \in Nat
  PROVE  /\ Maximum(a, b) \in Nat /\ a <= Maximum(a, b) /\ b <= Maximum(a, b)
         /\ Maximum(a, b) \in {a, b}
BY DEF Maximum

\* A deferred write lands at or above its header's timestamp and above every
\* read recorded on its key.
LEMMA ForwardedBounds ==
  ASSUME TypeOK, NEW k \in Keys
  PROVE  Forwarded(k) \in Nat /\ wbTxn.write <= Forwarded(k) /\ tsc[k] < Forwarded(k)
BY DEF TypeOK, Forwarded, Stamp

\* A refresh never moves a transaction's write timestamp back.
LEMMA RefreshedBounds ==
  ASSUME NEW t \in Stamp, NEW n \in Nat
  PROVE  /\ Refreshed(t, n) \in Stamp
         /\ t.write <= Refreshed(t, n).write /\ (n <= t.write => Refreshed(t, n).write = t.write)
BY DEF Stamp, Refreshed, Maximum

\* Recording a read of a key only raises its entry of the cache.
LEMMA BumpBounds ==
  ASSUME TypeOK, NEW k \in Keys, NEW ts \in Nat, BumpKey(k, ts)
  PROVE  /\ tsc' \in [Keys -> Nat] /\ ts <= tsc'[k]
         /\ \A j \in Keys : tsc[j] <= tsc'[j]
BY DEF TypeOK, BumpKey, Maximum

\* Resolving an intent touches one key.
LEMMA ResolveTypes ==
  ASSUME TypeOK, NEW k \in Keys, NEW status, NEW ts \in Nat, ResolveIntent(k, status, ts)
  PROVE  /\ intent' \in [Keys -> Writes] /\ ver' \in [Keys -> Writes]
         /\ intent'[k] = None
         /\ \A j \in Keys \ {k} : intent'[j] = intent[j] /\ ver'[j] = ver[j]
         /\ ver'[k] = IF status = "COMMITTED" /\ intent[k] # None
                      THEN [ts |-> ts, seq |-> intent[k].seq] ELSE ver[k]
BY Zenon DEF TypeOK, ResolveIntent, Writes, None, Early, Late

\* A pusher's state.
PusherState == [at : {"idle", "probe", "recover", "resolve"}, ts : Nat, todo : SUBSET Keys,
                ok : BOOLEAN, status : {"NONE"} \cup Final]

\* What a push leaves its pusher with, and the record.
LEMMA PushLeaves ==
  ASSUME TypeOK, NEW p \in Pushers, Push(p)
  PROVE  /\ push' \in [Pushers -> PusherState] /\ rec' \in [status : Statuses, ts : Nat]
         /\ \A q \in Pushers \ {p} : push'[q] = push[q]
         /\ \/ /\ rec.status \in {"NONE", "PENDING"} /\ rec'.status = "ABORTED"
               /\ push'[p].at = "resolve" /\ push'[p].status = "ABORTED"
            \/ /\ rec.status = "STAGING" /\ rec' = rec
               /\ push'[p].at = "probe" /\ push'[p].ts = rec.ts /\ push'[p].todo = Deferred
            \/ /\ rec.status \in Final /\ rec' = rec
               /\ push'[p].at = "resolve" /\ push'[p].status = rec.status /\ push'[p].ts = rec.ts
<1>1. PICK k \in Keys :
        \/ /\ rec.status \in {"NONE", "PENDING"} /\ rec' = [status |-> "ABORTED", ts |-> rec.ts]
           /\ push' = [push EXCEPT ![p] = Resolving(k, "ABORTED", 0)]
        \/ /\ rec.status = "STAGING" /\ rec' = rec
           /\ push' = [push EXCEPT ![p] =
                         [Idle EXCEPT !.at = "probe", !.ts = rec.ts, !.todo = Deferred]]
        \/ /\ rec.status \in Final /\ rec' = rec
           /\ push' = [push EXCEPT ![p] = Resolving(k, rec.status, rec.ts)]
  BY Zenon DEF Push, PushAborts, NeedsRecovery, TypeOK, Statuses
<1>2. rec' \in [status : Statuses, ts : Nat]
  BY <1>1 DEF TypeOK, Statuses, Final
<1>3. PICK r : r = rec
  BY Zenon
<1>4. PICK d : d = Deferred
  BY Zenon
<1>5. r.ts \in Nat /\ d \subseteq Keys /\ push \in [Pushers -> PusherState]
  BY Zenon, <1>3, <1>4 DEF TypeOK, Keys, PusherState
<1>6. PICK s : /\ push' = [push EXCEPT ![p] = s]
               /\ \/ s = Resolving(k, "ABORTED", 0) /\ r.status \in {"NONE", "PENDING"}
                  \/ s = [Idle EXCEPT !.at = "probe", !.ts = r.ts, !.todo = d] /\ r.status = "STAGING"
                  \/ s = Resolving(k, r.status, r.ts) /\ r.status \in Final
  BY Zenon, <1>1, <1>3, <1>4
<1>7. /\ s \in PusherState
      /\ \/ s.at = "resolve" /\ s.status = "ABORTED" /\ r.status \in {"NONE", "PENDING"}
         \/ s.at = "probe" /\ s.ts = r.ts /\ s.todo = d /\ r.status = "STAGING"
         \/ s.at = "resolve" /\ s.status = r.status /\ s.ts = r.ts /\ r.status \in Final
  <2>1. CASE s = Resolving(k, "ABORTED", 0) /\ r.status \in {"NONE", "PENDING"}
    BY Zenon, <1>5, <2>1 DEF Resolving, PusherState, Final
  <2>2. CASE s = [Idle EXCEPT !.at = "probe", !.ts = r.ts, !.todo = d] /\ r.status = "STAGING"
    <3>1. s = [at |-> "probe", ts |-> r.ts, todo |-> d, ok |-> TRUE, status |-> "NONE"]
      BY Zenon, <2>2 DEF Idle
    <3>2. s \in PusherState
      BY Zenon, <1>5, <3>1 DEF PusherState
    <3>3. s.at = "probe" /\ s.ts = r.ts /\ s.todo = d
      BY Zenon, <3>1
    <3>. QED
      BY Zenon, <2>2, <3>2, <3>3
  <2>3. CASE s = Resolving(k, r.status, r.ts) /\ r.status \in Final
    BY Zenon, <1>5, <2>3 DEF Resolving, PusherState, Final
  <2>. QED
    BY Zenon, <1>6, <2>1, <2>2, <2>3
<1>8. /\ push' \in [Pushers -> PusherState] /\ push'[p] = s
      /\ \A q \in Pushers \ {p} : push'[q] = push[q]
  BY Zenon, <1>5, <1>6, <1>7
<1>. QED
  BY <1>1, <1>2, <1>3, <1>4, <1>7, <1>8 DEF Final

\* A pusher that is done is idle again.
LEMMA PusherDone ==
  ASSUME TypeOK, NEW p \in Pushers, push' = [push EXCEPT ![p] = Idle]
  PROVE  /\ push' \in [Pushers -> PusherState] /\ push'[p].at = "idle"
         /\ \A q \in Pushers \ {p} : push'[q] = push[q]
BY Zenon DEF TypeOK, PusherState, Idle

\* The write of k that a pusher looks for is in place.
Found(p, k) == intent[k] # None /\ intent[k].ts <= push[p].ts

\* What a probe leaves its pusher to look for.
Left(p, k) == IF Found(p, k) THEN push[p].todo \ {k} ELSE {}

\* What a probe leaves its pusher with.
LEMMA ProbeLeaves ==
  ASSUME TypeOK, NEW p \in Pushers, NEW k \in Deferred, Probe(p, k)
  PROVE  /\ push' \in [Pushers -> PusherState]
         /\ \A q \in Pushers \ {p} : push'[q] = push[q]
         /\ push'[p].ts = push[p].ts /\ push'[p].todo = Left(p, k) /\ push'[p].ok = Found(p, k)
         /\ push'[p].at = IF Left(p, k) = {} THEN "recover" ELSE "probe"
<1>1. PICK todo1 : todo1 = Left(p, k)
  BY Zenon
<1>2. PICK ok1 : ok1 = Found(p, k)
  BY Zenon
<1>3. PICK at1 : at1 = IF Left(p, k) = {} THEN "recover" ELSE "probe"
  BY Zenon
<1>4. PICK old : old = push[p]
  BY Zenon
<1>5. push \in [Pushers -> PusherState] /\ old \in PusherState
  BY Zenon, <1>4 DEF TypeOK, PusherState
<1>6. todo1 \in SUBSET Keys /\ ok1 \in BOOLEAN /\ at1 \in {"recover", "probe"}
  BY Zenon, <1>1, <1>2, <1>3, <1>4, <1>5 DEF PusherState, Left, Found
<1>7. PICK new : new = [old EXCEPT !.todo = todo1, !.ok = ok1, !.at = at1]
  BY Zenon
<1>8. /\ new \in PusherState
      /\ new.ts = old.ts /\ new.todo = todo1 /\ new.ok = ok1 /\ new.at = at1
  BY Zenon, <1>5, <1>6, <1>7 DEF PusherState
<1>9. push' = [push EXCEPT ![p] = new]
  BY Zenon, <1>1, <1>2, <1>3, <1>4, <1>7, <1>5 DEF Probe, Left, Found
<1>. QED
  BY Zenon, <1>1, <1>2, <1>3, <1>4, <1>5, <1>8, <1>9
----------------------------------------------------------------------------
(***************************************************************************)
(* Types and the environment.                                              *)
(***************************************************************************)
LEMMA InitTyped == Init => TypeOK
<1>. SUFFICES ASSUME Init PROVE TypeOK
  BY Zenon
<1>. USE DEF Init, Stamp
<1>1. txn \in Stamp /\ txn.write \in {1, 2} /\ txn.write - 1 \in Nat
  OBVIOUS
<1>2. rec \in [status : Statuses, ts : Nat]
  BY Zenon, <1>1 DEF Statuses
<1>3. intent \in [Keys -> Writes] /\ ver \in [Keys -> Writes]
  BY Zenon, <1>1 DEF Writes, None, Early, Late
<1>4. tsc \in [Keys -> Nat] /\ missed \in [Keys -> Nat]
  BY Zenon, <1>1
<1>5. push \in [Pushers -> PusherState]
  BY Zenon DEF PusherState, Idle
<1>. QED
  BY Zenon, <1>1, <1>2, <1>3, <1>4, <1>5 DEF TypeOK, Answer, PusherState

LEMMA EnvStays == [Next]_vars => env' = env
BY ZenonT(40) DEF Next, vars, Coordinator, Ranges, Rivals, BeginCommit, ReleaseWrites, WbDone, WbResend,
   WbRefresh, WbFail, GiveUp, ReturnImplicit, Settle, Abandon, AbortRecord, Finalize,
   AsyncFinalize, ResolveOne, Stage, StageRefused, StageRetry, Land, Conflict, Read, Pushing,
   Push, Probe, Recover, PushResolve, PushAbandon, Crash

\* Every step keeps the types.
LEMMA TypeStep == ASSUME TypeOK, [Next]_vars PROVE TypeOK'
<1>0. env' = env /\ Keys' = Keys /\ Deferred' = Deferred /\ Pushers' = Pushers
  BY Zenon, EnvStays DEF Keys, Deferred, Flushed, Pushers
<1>. USE <1>0 DEF store, coord
<1>1. CASE BeginCommit
  BY ZenonT(40), <1>1 DEF TypeOK, BeginCommit
<1>2. CASE ReleaseWrites
  BY Zenon, <1>2 DEF TypeOK, ReleaseWrites
<1>3. CASE WbDone
  BY Zenon, <1>3, MaximumBounds DEF TypeOK, WbDone, Stamp, Answer
<1>4. CASE WbResend
  BY Zenon, <1>4 DEF TypeOK, WbResend
<1>5. CASE WbRefresh
  <2>1. PICK newTS \in Times : txn' = Refreshed(txn, newTS)
    BY Zenon, <1>5 DEF WbRefresh
  <2>2. txn' \in Stamp /\ wbTxn' \in Stamp
    BY Zenon, <1>5, <2>1, TimesAssumption, RefreshedBounds DEF TypeOK, WbRefresh
  <2>. QED
    BY Zenon, <1>5, <2>2 DEF TypeOK, WbRefresh
<1>6. CASE WbFail
  BY ZenonT(40), <1>6 DEF TypeOK, WbFail, Answer
<1>7. CASE GiveUp
  BY Zenon, <1>7 DEF TypeOK, GiveUp, Answer
<1>8. CASE ReturnImplicit
  BY Zenon, <1>8 DEF TypeOK, ReturnImplicit
<1>9. CASE Settle
  <2>1. wbTS \in Nat /\ txn \in Stamp
    BY Zenon DEF TypeOK
  <2>2. txn' \in Stamp
    BY Zenon, <1>9, <2>1, RefreshedBounds DEF Settle
  <2>. QED
    BY Zenon, <1>9, <2>2 DEF TypeOK, Settle
<1>10. CASE Abandon
  BY Zenon, <1>10 DEF TypeOK, Abandon
<1>11. CASE AbortRecord
  BY <1>11 DEF TypeOK, AbortRecord, Aborted, Statuses, Final, Stamp
<1>12. CASE Finalize
  BY <1>12 DEF TypeOK, Finalize, ResolveAs, NoResolve, Statuses, Final, Stamp
<1>13. CASE AsyncFinalize
  BY <1>13 DEF TypeOK, AsyncFinalize, ResolveAs, NoResolve, Statuses, Final, Stamp
<1>14. CASE Stage
  BY ZenonT(40), <1>14 DEF TypeOK, Stage, Statuses, Stamp, Answer
<1>15. CASE StageRefused
  BY Zenon, <1>15 DEF TypeOK, StageRefused, Answer
<1>16. CASE StageRetry
  <2>1. etTxn.write \in Nat /\ txn \in Stamp /\ etTxn \in Stamp
    BY Zenon DEF TypeOK, Stamp
  <2>2. txn' \in Stamp /\ etTxn' \in Stamp
    BY Zenon, <1>16, <2>1, RefreshedBounds DEF StageRetry
  <2>. QED
    BY Zenon, <1>16, <2>2 DEF TypeOK, StageRetry, Answer
<1>17. CASE Crash
  BY Zenon, <1>17 DEF TypeOK, Crash
<1>20. ASSUME NEW k \in Keys, ResolveOne(k) PROVE TypeOK'
  <2>1. verdict.ts \in Nat
    BY Zenon DEF TypeOK
  <2>2. intent' \in [Keys -> Writes] /\ ver' \in [Keys -> Writes]
    BY Zenon, <1>20, <2>1, ResolveTypes DEF ResolveOne
  <2>. QED
    BY Zenon, <1>20, <2>2 DEF TypeOK, ResolveOne
<1>21. ASSUME NEW k \in Deferred, Land(k) PROVE TypeOK'
  <2>1. k \in Keys
    BY Zenon DEF Keys
  <2>2. Forwarded(k) \in Nat /\ Maximum(wbTS, Forwarded(k)) \in Nat
    BY Zenon, <2>1, ForwardedBounds, MaximumBounds DEF TypeOK
  <2>3. intent' \in [Keys -> Writes]
    BY Zenon, <1>21, <2>1, <2>2 DEF TypeOK, Land, Writes
  <2>4. wb' \in [Deferred -> {"held", "sent", "ok", "again", "tooOld"}] /\ wbTS' \in Nat
    BY Zenon, <1>21, <2>2 DEF TypeOK, Land
  <2>. QED
    BY Zenon, <1>21, <2>3, <2>4 DEF TypeOK, Land
<1>22. ASSUME NEW k \in Deferred, Conflict(k) PROVE TypeOK'
  BY ZenonT(40), <1>22 DEF TypeOK, Conflict
<1>23. ASSUME NEW k \in Keys, NEW ts \in Times, Read(k, ts) PROVE TypeOK'
  <2>1. ts \in Nat /\ tsc' \in [Keys -> Nat]
    BY Zenon, <1>23, TimesAssumption, BumpBounds DEF Read
  <2>2. missed' \in [Keys -> Nat]
    BY Zenon, <1>23, <2>1 DEF TypeOK, Read, Maximum
  <2>. QED
    BY Zenon, <1>23, <2>1, <2>2 DEF TypeOK, Read
<1>24. ASSUME NEW p \in Pushers, Push(p) PROVE TypeOK'
  <2>1. push' \in [Pushers -> PusherState] /\ rec' \in [status : Statuses, ts : Nat]
    BY Zenon, <1>24, PushLeaves
  <2>. QED
    BY Zenon, <1>24, <2>1 DEF TypeOK, Push, PusherState
<1>25. ASSUME NEW p \in Pushers, NEW k \in Deferred, Probe(p, k) PROVE TypeOK'
  <2>1. push[p].ts \in Nat /\ k \in Keys
    BY Zenon DEF TypeOK, Keys
  <2>2. tsc' \in [Keys -> Nat]
    BY Zenon, <1>25, <2>1, BumpBounds DEF Probe
  <2>3. push' \in [Pushers -> PusherState]
    BY Zenon, <1>25, ProbeLeaves
  <2>. QED
    BY Zenon, <1>25, <2>2, <2>3 DEF TypeOK, Probe, PusherState
<1>27. ASSUME NEW p \in Pushers, Recover(p) PROVE TypeOK'
  <2>1. rec' \in [status : Statuses, ts : Nat]
    BY Zenon, <1>27 DEF TypeOK, Recover, Verdict, Statuses, Final
  <2>. QED
    BY Zenon, <1>27, <2>1, PusherDone DEF TypeOK, Recover, PusherState
<1>28. ASSUME NEW p \in Pushers, PushResolve(p) PROVE TypeOK'
  <2>1. PICK k \in Keys : ResolveIntent(k, push[p].status, push[p].ts)
    BY Zenon, <1>28 DEF PushResolve, TypeOK
  <2>2. push[p].ts \in Nat
    BY Zenon DEF TypeOK
  <2>3. intent' \in [Keys -> Writes] /\ ver' \in [Keys -> Writes]
    BY Zenon, <2>1, <2>2, ResolveTypes
  <2>. QED
    BY Zenon, <1>28, <2>3, PusherDone DEF TypeOK, PushResolve, PusherState
<1>29. ASSUME NEW p \in Pushers, PushAbandon(p) PROVE TypeOK'
  BY ZenonT(40), <1>29, PusherDone DEF TypeOK, PushAbandon, PusherState
<1>30. CASE UNCHANGED vars
  BY Zenon, <1>30 DEF TypeOK, vars
<1>. QED
  BY Zenon, <1>1, <1>2, <1>3, <1>4, <1>5, <1>6, <1>7, <1>8, <1>9, <1>10, <1>11, <1>12,
     <1>13, <1>14, <1>15, <1>16, <1>17, <1>20, <1>21, <1>22, <1>23,
     <1>24, <1>25, <1>27, <1>28, <1>29, <1>30
  DEF Next, Coordinator, Ranges, Rivals, Pushing

\* A final record stays as it is: no EndTxn, push or recovery flips it again.
LEMMA FinalStays == ASSUME [Next]_vars, rec.status \in Final PROVE rec' = rec
BY ZenonT(40) DEF Next, vars, store, coord, Coordinator, Ranges, Rivals, BeginCommit, ReleaseWrites, WbDone, WbResend,
   WbRefresh, WbFail, GiveUp, ReturnImplicit, Settle, Abandon, AbortRecord, Finalize,
   AsyncFinalize, ResolveOne, Stage, StageRefused, StageRetry, Land, Conflict, Read, Pushing,
   Push, Probe, Recover, PushResolve, PushAbandon, Crash,
   CanCommit, Flippable, Aborted, PushAborts, Final

\* Only resolution makes versions.
LEMMA VersionsMade ==
  ASSUME TypeOK, CommitsRecorded, [Next]_vars, NEW k \in Keys, ver'[k] # None
  PROVE  rec.status = "COMMITTED"
<1>1. CASE ver'[k] = ver[k]
  BY Zenon, <1>1 DEF CommitsRecorded
<1>2. ASSUME NEW j \in Keys, ResolveOne(j) PROVE rec.status = "COMMITTED"
  <2>1. verdict.ts \in Nat
    BY Zenon DEF TypeOK
  <2>2. ver'[k] = ver[k] \/ verdict.status = "COMMITTED"
    BY Zenon, <1>2, <2>1, ResolveTypes DEF ResolveOne
  <2>. QED
    BY Zenon, <1>1, <2>2 DEF CommitsRecorded
<1>3. ASSUME NEW p \in Pushers, PushResolve(p) PROVE rec.status = "COMMITTED"
  <2>1. PICK j \in Keys : ResolveIntent(j, push[p].status, push[p].ts)
    BY Zenon, <1>3 DEF PushResolve, TypeOK
  <2>2. push[p].ts \in Nat
    BY Zenon DEF TypeOK
  <2>3. ver'[k] = ver[k] \/ push[p].status = "COMMITTED"
    BY Zenon, <2>1, <2>2, ResolveTypes
  <2>. QED
    BY Zenon, <1>1, <1>3, <2>3 DEF CommitsRecorded, PushResolve
<1>4. ASSUME ~\E j \in Keys : ResolveOne(j), ~\E p \in Pushers : PushResolve(p)
      PROVE  ver' = ver
  BY ZenonT(40), <1>4 DEF Next, vars, store, coord, Coordinator, Ranges, Rivals, BeginCommit, ReleaseWrites,
     WbDone, WbResend, WbRefresh, WbFail, GiveUp, ReturnImplicit, Settle, Abandon, AbortRecord,
     Finalize, AsyncFinalize, Stage, StageRefused, StageRetry, Land, Conflict, Read, Pushing,
     Push, Probe, Recover, PushAbandon, Crash
<1>. QED
  BY Zenon, <1>1, <1>2, <1>3, <1>4

\* Who starts resolving as committed does so with the record committed.
LEMMA CommitsRecordedStep ==
  ASSUME TypeOK, CommitsRecorded, [Next]_vars PROVE CommitsRecorded'
<1>0. env' = env /\ Keys' = Keys /\ Pushers' = Pushers
  BY Zenon, EnvStays DEF Keys, Deferred, Flushed, Pushers
<1>1. rec.status = "COMMITTED" => rec'.status = "COMMITTED"
  BY Zenon, FinalStays DEF Final
<1>2. \A k \in Keys : ver'[k] # None => rec'.status = "COMMITTED"
  BY Zenon, <1>1, VersionsMade
<1>3. verdict'.status = "COMMITTED" => rec'.status = "COMMITTED"
  <2>1. \/ verdict' = verdict \/ AbortRecord \/ Finalize \/ AsyncFinalize
    BY ZenonT(40) DEF Next, vars, store, coord, Coordinator, Ranges, Rivals, BeginCommit, ReleaseWrites,
       WbDone, WbResend, WbRefresh, WbFail, GiveUp, ReturnImplicit, Settle, Abandon, ResolveOne,
       Stage, StageRefused, StageRetry, Land, Conflict, Read, Pushing, Push, Probe, Recover,
       PushResolve, PushAbandon, Crash
  <2>. QED
    BY <1>1, <2>1 DEF CommitsRecorded, AbortRecord, Finalize, AsyncFinalize, ResolveAs, NoResolve
<1>4. ASSUME NEW q \in Pushers, push'[q].at = "resolve", push'[q].status = "COMMITTED"
      PROVE  rec'.status = "COMMITTED"
  <2>1. CASE push'[q] = push[q]
    BY Zenon, <1>1, <1>4, <2>1 DEF CommitsRecorded
  <2>2. ASSUME NEW p \in Pushers, push' = [push EXCEPT ![p] = Idle] PROVE push'[q] = push[q]
    BY Zenon, <1>4, <2>2, PusherDone
  <2>3. ASSUME NEW p \in Pushers, Push(p) PROVE rec'.status = "COMMITTED"
    BY Zenon, <1>4, <2>1, <2>3, PushLeaves
  <2>4. ASSUME NEW p \in Pushers, NEW k \in Deferred, Probe(p, k) PROVE push'[q] = push[q]
    BY Zenon, <1>4, <2>4, ProbeLeaves
  <2>5. push' = push \/ \E p \in Pushers : \/ push' = [push EXCEPT ![p] = Idle] \/ Push(p)
                                           \/ \E k \in Deferred : Probe(p, k)
    BY Zenon DEF Next, vars, store, coord, Coordinator, Ranges, Rivals, BeginCommit, ReleaseWrites,
       WbDone, WbResend, WbRefresh, WbFail, GiveUp, ReturnImplicit, Settle, Abandon, ResolveOne,
       AbortRecord, Finalize, AsyncFinalize, Stage, StageRefused, StageRetry, Land, Conflict, Read,
       Pushing, Recover, PushResolve, PushAbandon, Crash
  <2>. QED
    BY Zenon, <2>1, <2>2, <2>3, <2>4, <2>5
<1>. QED
  BY Zenon, <1>0, <1>2, <1>3, <1>4 DEF CommitsRecorded

\* Commit sends its requests: nothing has been staged or written by it yet.
LEMMA BeginCommitStep ==
  ASSUME TypeOK, Undisturbed, CalmInv, BeginCommit PROVE CalmInv'
<1>0. Keys' = Keys /\ Deferred' = Deferred /\ Flushed' = Flushed /\ Pushers' = Pushers
  BY Zenon DEF BeginCommit, Keys, Deferred, Flushed, Pushers
<1>1. Headers' /\ StagedOnce' /\ Places' /\ VerdictRecorded'
  BY Zenon, <1>0 DEF CalmInv, BeginCommit, store, Headers, StagedOnce, Places, BothOK, Prevented,
     VerdictRecorded
<1>2. WritesKept'
  BY Zenon, <1>0 DEF CalmInv, BeginCommit, store, WritesKept, Kept, LastWrite, StagedOnce, Places
<1>3. NewestLanded'
  BY Zenon, <1>0 DEF CalmInv, BeginCommit, store, NewestLanded, StagedOnce, Places
<1>4. ReadsRecorded'
  BY Zenon, <1>0 DEF CalmInv, BeginCommit, store, ReadsRecorded, StagedOnce, Places
<1>5. CommitComplete'
  BY Zenon, <1>0 DEF CalmInv, BeginCommit, store, CommitComplete, StagedOnce, Places
<1>6. PushersKnow'
  BY Zenon, <1>0 DEF CalmInv, BeginCommit, store, PushersKnow, Knows, Arrived, Prevented,
     StagedOnce, Places
<1>7. Agreed'
  BY Zenon, <1>0 DEF CalmInv, BeginCommit, store, Agreed, Arrived, Prevented, StagedOnce, Places
<1>. QED
  BY Zenon, <1>1, <1>2, <1>3, <1>4, <1>5, <1>6, <1>7 DEF CalmInv

\* The staging EndTxn came first and is answered: the held writes go out.
LEMMA ReleaseWritesStep ==
  ASSUME TypeOK, Undisturbed, CalmInv, ReleaseWrites PROVE CalmInv'
<1>0. Keys' = Keys /\ Deferred' = Deferred /\ Flushed' = Flushed /\ Pushers' = Pushers
  BY Zenon DEF ReleaseWrites, Keys, Deferred, Flushed, Pushers
<1>1. Headers' /\ StagedOnce' /\ Places' /\ VerdictRecorded' /\ WritesKept' /\
      NewestLanded' /\ ReadsRecorded' /\ CommitComplete' /\ PushersKnow' /\ Agreed'
  BY <1>0 DEF CalmInv, ReleaseWrites, store, Headers, StagedOnce, Places, BothOK, Prevented,
     VerdictRecorded, WritesKept, Kept, LastWrite, NewestLanded, ReadsRecorded, CommitComplete,
     PushersKnow, Knows, Arrived, Agreed
<1>. QED
  BY Zenon, <1>1 DEF CalmInv

\* Every write was answered: t.mu.txn takes the newest timestamp they landed
\* at.
LEMMA WbDoneStep ==
  ASSUME TypeOK, Undisturbed, CalmInv, WbDone PROVE CalmInv'
<1>0. Keys' = Keys /\ Deferred' = Deferred /\ Flushed' = Flushed /\ Pushers' = Pushers
  BY Zenon DEF WbDone, Keys, Deferred, Flushed, Pushers
<1>a. txn \in Stamp /\ wbTS \in Nat /\ txn.write \in Nat
  BY Zenon DEF TypeOK, Stamp
<1>b. txn' \in Stamp /\ txn.write <= txn'.write /\ wbTS <= txn'.write
  BY Zenon, <1>a, MaximumBounds DEF WbDone, Stamp
<1>1. StagedOnce' /\ VerdictRecorded' /\ WritesKept' /\ NewestLanded' /\ ReadsRecorded' /\
      CommitComplete' /\ PushersKnow' /\ Agreed'
  BY <1>0 DEF CalmInv, WbDone, store, StagedOnce, VerdictRecorded, WritesKept, Kept,
     LastWrite, NewestLanded, ReadsRecorded, CommitComplete, PushersKnow, Knows, Arrived,
     Prevented, Agreed
<1>2. Headers'
  BY <1>0, <1>a, <1>b DEF CalmInv, WbDone, store, Headers, TypeOK, Stamp
<1>3. Places'
  BY Zenon, <1>0, <1>b DEF CalmInv, WbDone, store, Places, BothOK, Prevented, WbAnswered
<1>. QED
  BY Zenon, <1>1, <1>2, <1>3 DEF CalmInv

\* The batch failed with a write that did not land, and will not.
LEMMA WbFailStep ==
  ASSUME TypeOK, Undisturbed, CalmInv, WbFail PROVE CalmInv'
<1>0. Keys' = Keys /\ Deferred' = Deferred /\ Flushed' = Flushed /\ Pushers' = Pushers
  BY ZenonT(40) DEF WbFail, Keys, Deferred, Flushed, Pushers
<1>1. Headers' /\ StagedOnce' /\ VerdictRecorded' /\ WritesKept' /\ NewestLanded' /\
      ReadsRecorded' /\ CommitComplete' /\ PushersKnow' /\ Agreed'
  BY <1>0 DEF CalmInv, WbFail, store, Headers, StagedOnce, VerdictRecorded, WritesKept,
     Kept, LastWrite, NewestLanded, ReadsRecorded, CommitComplete, PushersKnow, Knows, Arrived,
     Prevented, Agreed
<1>2. Places'
  BY Zenon, <1>0 DEF CalmInv, WbFail, store, Places, BothOK, Prevented, TypeOK, WbAnswered
<1>. QED
  BY Zenon, <1>1, <1>2 DEF CalmInv

\* The implicit commit: every write landed at or below the staged timestamp, so
\* recovery has aborted nothing.
LEMMA ReturnImplicitStep ==
  ASSUME TypeOK, Undisturbed, CalmInv, ReturnImplicit PROVE CalmInv'
<1>0. Keys' = Keys /\ Deferred' = Deferred /\ Flushed' = Flushed /\ Pushers' = Pushers
  BY Zenon DEF ReturnImplicit, Keys, Deferred, Flushed, Pushers
<1>1. Headers' /\ StagedOnce' /\ VerdictRecorded' /\ WritesKept' /\ NewestLanded' /\
      ReadsRecorded' /\ CommitComplete' /\ PushersKnow'
  BY ZenonT(40), <1>0 DEF CalmInv, ReturnImplicit, store, Headers, StagedOnce, VerdictRecorded,
     WritesKept, Kept, LastWrite, NewestLanded, ReadsRecorded, CommitComplete, PushersKnow,
     Knows, Arrived, Prevented
<1>2. Places'
  BY Zenon, <1>0 DEF CalmInv, ReturnImplicit, store, Places, BothOK, Prevented, CommitCondition
<1>3. Agreed'
  <2>1. \A k \in Deferred : wb[k] = "ok"
    BY Zenon DEF CalmInv, ReturnImplicit, Places, BothOK
  <2>2. wbTS <= staged /\ ~Prevented
    BY <2>1 DEF TypeOK, Prevented, ReturnImplicit, CommitCondition
  <2>3. rec.status \in {"STAGING", "COMMITTED"}
    BY Zenon, <2>2 DEF CalmInv, ReturnImplicit, BothOK, StagedOnce, Agreed, Final
  <2>4. rec.status = "STAGING" => \A k \in Deferred : Arrived(k)
    BY <2>1, <2>2 DEF CalmInv, WritesKept, Kept, Arrived, TypeOK, Keys, Writes
  <2>. QED
    BY Zenon, <1>0, <2>3, <2>4 DEF ReturnImplicit, Agreed, Arrived, store
<1>. QED
  BY Zenon, <1>1, <1>2, <1>3 DEF CalmInv

\* A write landed above the staged timestamp: the staged record is prevented,
\* and the commit is finalized above it or aborted.
LEMMA SettleStep ==
  ASSUME TypeOK, Undisturbed, CalmInv, Settle PROVE CalmInv'
<1>0. Keys' = Keys /\ Deferred' = Deferred /\ Flushed' = Flushed /\ Pushers' = Pushers
  BY Zenon DEF Settle, Keys, Deferred, Flushed, Pushers
<1>a. txn \in Stamp /\ wbTS \in Nat /\ txn.write \in Nat
  BY DEF TypeOK, Stamp
<1>b. txn' \in Stamp /\ txn.write <= txn'.write
  BY <1>a, RefreshedBounds DEF Settle
<1>1. StagedOnce' /\ VerdictRecorded' /\ WritesKept' /\ NewestLanded' /\ ReadsRecorded' /\
      CommitComplete' /\ PushersKnow' /\ Agreed'
  BY <1>0 DEF CalmInv, Settle, store, StagedOnce, VerdictRecorded, WritesKept, Kept,
     LastWrite, NewestLanded, ReadsRecorded, CommitComplete, PushersKnow, Knows, Arrived,
     Prevented, Agreed
<1>2. Headers'
  BY <1>0, <1>a, <1>b DEF CalmInv, Settle, store, Headers, TypeOK, Stamp
<1>3. Places'
  BY <1>0, <1>a, <1>b DEF CalmInv, Settle, store, Places, BothOK, Prevented,
     CommitCondition, TypeOK, Stamp
<1>. QED
  BY <1>1, <1>2, <1>3 DEF CalmInv

\* A request failed: either nothing was staged, or a write is missing for good.
LEMMA AbandonStep ==
  ASSUME TypeOK, Undisturbed, CalmInv, Abandon PROVE CalmInv'
<1>0. Keys' = Keys /\ Deferred' = Deferred /\ Flushed' = Flushed /\ Pushers' = Pushers
  BY ZenonT(40) DEF Abandon, Keys, Deferred, Flushed, Pushers
<1>1. Headers' /\ StagedOnce' /\ VerdictRecorded' /\ WritesKept' /\ NewestLanded' /\
      ReadsRecorded' /\ CommitComplete' /\ PushersKnow' /\ Agreed'
  BY <1>0 DEF CalmInv, Abandon, store, Headers, StagedOnce, VerdictRecorded, WritesKept,
     Kept, LastWrite, NewestLanded, ReadsRecorded, CommitComplete, PushersKnow, Knows, Arrived,
     Prevented, Agreed
<1>2. Places'
  BY Zenon, <1>0 DEF CalmInv, Abandon, store, Places, BothOK, Prevented, Failed
<1>. QED
  BY <1>1, <1>2 DEF CalmInv

\* A crash of the coordinator changes nothing the servers hold.
LEMMA CrashStep ==
  ASSUME TypeOK, Undisturbed, CalmInv, Crash PROVE CalmInv'
<1>0. Keys' = Keys /\ Deferred' = Deferred /\ Flushed' = Flushed /\ Pushers' = Pushers
  BY ZenonT(40) DEF Crash, Keys, Deferred, Flushed, Pushers
<1>1. Headers' /\ StagedOnce' /\ Places' /\ VerdictRecorded' /\ WritesKept' /\
      NewestLanded' /\ ReadsRecorded' /\ CommitComplete' /\ PushersKnow' /\ Agreed'
  BY <1>0 DEF CalmInv, Crash, store, Headers, StagedOnce, Places, BothOK, Prevented,
     VerdictRecorded, WritesKept, Kept, LastWrite, NewestLanded, ReadsRecorded, CommitComplete,
     PushersKnow, Knows, Arrived, Agreed
<1>. QED
  BY <1>1 DEF CalmInv

\* The EndTxn stages a record nobody has finalized.
LEMMA StageStep ==
  ASSUME TypeOK, Undisturbed, CalmInv, Stage PROVE CalmInv'
<1>0. Keys' = Keys /\ Deferred' = Deferred /\ Flushed' = Flushed /\ Pushers' = Pushers
  BY Zenon DEF Stage, Keys, Deferred, Flushed, Pushers
<1>a. /\ rec.status \notin Final /\ et = "wait" /\ pc # "open" /\ etTxn.read = etTxn.write
      /\ rec' = [status |-> "STAGING", ts |-> etTxn.write]
      /\ et' = "ok" /\ staged' = etTxn.write /\ etMsg' = FALSE
  BY Zenon DEF Stage, CalmInv, StagedOnce, CanCommit, Flippable, Undisturbed
<1>b. /\ rec'.status = "STAGING" /\ rec'.ts = staged' /\ rec.status # "STAGING"
      /\ rec.status # "COMMITTED" /\ rec.status # "ABORTED"
  BY Zenon, <1>a DEF CalmInv, StagedOnce, Final
<1>1. Headers' /\ ReadsRecorded'
  BY Zenon, <1>0 DEF CalmInv, Stage, Headers, ReadsRecorded
<1>2. StagedOnce'
  BY Zenon, <1>0, <1>a, <1>b DEF CalmInv, Stage, StagedOnce
<1>3. Places'
  BY Zenon, <1>0, <1>a, <1>b DEF CalmInv, Stage, Places, BothOK, Prevented
<1>4. VerdictRecorded'
  BY Zenon, <1>0, <1>a, <1>b DEF CalmInv, Stage, VerdictRecorded, TypeOK, Final
<1>5. WritesKept'
  BY Zenon, <1>0, <1>a, <1>b DEF CalmInv, Stage, WritesKept, Kept, LastWrite
<1>6. NewestLanded'
  BY Zenon, <1>0, <1>a, <1>b DEF CalmInv, Stage, NewestLanded, Final
<1>7. CommitComplete'
  BY Zenon, <1>0, <1>a, <1>b DEF CalmInv, Stage, CommitComplete
<1>8. PushersKnow'
  BY Zenon, <1>0, <1>a, <1>b DEF CalmInv, Stage, PushersKnow, Knows, Arrived, Prevented, Final
<1>9. Agreed'
  BY Zenon, <1>0, <1>a, <1>b DEF CalmInv, Stage, Agreed, Arrived, Prevented
<1>. QED
  BY Zenon, <1>1, <1>2, <1>3, <1>4, <1>5, <1>6, <1>7, <1>8, <1>9 DEF CalmInv

\* The EndTxn finds a pusher's abort.
LEMMA StageRefusedStep ==
  ASSUME TypeOK, Undisturbed, CalmInv, StageRefused PROVE CalmInv'
<1>0. Keys' = Keys /\ Deferred' = Deferred /\ Flushed' = Flushed /\ Pushers' = Pushers
  BY Zenon DEF StageRefused, Keys, Deferred, Flushed, Pushers
<1>1. Headers' /\ StagedOnce' /\ VerdictRecorded' /\ WritesKept' /\ NewestLanded' /\
      ReadsRecorded' /\ Agreed'
  BY ZenonT(40), <1>0 DEF CalmInv, StageRefused, store, Headers, StagedOnce, VerdictRecorded,
     WritesKept, Kept, LastWrite, NewestLanded, ReadsRecorded, Agreed, Arrived, Prevented
<1>2. Places'
  BY Zenon, <1>0 DEF CalmInv, StageRefused, store, Places, BothOK, Prevented, StagedOnce
<1>3. CommitComplete'
  BY Zenon, <1>0 DEF CalmInv, StageRefused, store, CommitComplete, StagedOnce, Places
<1>4. PushersKnow'
  BY Zenon, <1>0 DEF CalmInv, StageRefused, store, PushersKnow, Knows, Arrived, Prevented,
     StagedOnce, Places
<1>. QED
  BY Zenon, <1>1, <1>2, <1>3, <1>4 DEF CalmInv

\* The EndTxn is sent again under newer timestamps, or fails.
LEMMA StageRetryStep ==
  ASSUME TypeOK, Undisturbed, CalmInv, StageRetry PROVE CalmInv'
<1>0. Keys' = Keys /\ Deferred' = Deferred /\ Flushed' = Flushed /\ Pushers' = Pushers
  BY Zenon DEF StageRetry, Keys, Deferred, Flushed, Pushers
<1>a. txn \in Stamp /\ etTxn \in Stamp /\ etTxn.write \in Nat /\ txn.write \in Nat /\ txn0.write \in Nat
  BY Zenon DEF TypeOK, Stamp
<1>b. txn' \in Stamp /\ txn.write <= txn'.write /\ txn'.write \in Nat
  <2>1. CASE txn' = txn
    BY <1>a, <2>1
  <2>2. CASE txn' = Refreshed(txn, etTxn.write)
    BY Zenon, <1>a, <2>2, RefreshedBounds DEF Stamp
  <2>. QED
    BY Zenon, <2>1, <2>2 DEF StageRetry
<1>d. txn0.read # txn0.write
  BY Zenon DEF StageRetry, CalmInv, Headers
<1>c. et = "wait"
  BY Zenon DEF StageRetry, CalmInv, StagedOnce
<1>1. StagedOnce' /\ VerdictRecorded' /\ WritesKept' /\ NewestLanded' /\ ReadsRecorded' /\
      Agreed'
  BY ZenonT(40), <1>0 DEF CalmInv, StageRetry, store, StagedOnce, VerdictRecorded, WritesKept, Kept,
     LastWrite, NewestLanded, ReadsRecorded, Agreed, Arrived, Prevented
<1>2. Headers'
  <2>1. /\ txn0.write <= txn.write /\ txn0.write <= etTxn.write
        /\ wbTxn = txn0 /\ 0 < txn0.write
    BY Zenon DEF CalmInv, Headers
  <2>2. txn0.write <= txn'.write
    BY <1>a, <1>b, <2>1
  <2>3. etTxn' = etTxn \/ etTxn' = txn'
    BY Zenon DEF StageRetry
  <2>4. txn0.write <= etTxn'.write
    BY Zenon, <2>1, <2>2, <2>3
  <2>. QED
    BY Zenon, <1>d, <2>1, <2>2, <2>4 DEF StageRetry, Headers
<1>3. Places'
  BY <1>0, <1>a, <1>b, <1>c DEF CalmInv, StageRetry, store, Places, BothOK, Prevented,
     TypeOK, Stamp
<1>4. CommitComplete'
  BY Zenon, <1>0, <1>c DEF CalmInv, StageRetry, store, CommitComplete, StagedOnce
<1>5. PushersKnow'
  BY Zenon, <1>0, <1>c DEF CalmInv, StageRetry, store, PushersKnow, Knows, Arrived, Prevented
<1>. QED
  BY Zenon, <1>1, <1>2, <1>3, <1>4, <1>5 DEF CalmInv

\* A write lands: above every read of its key, and above a prevented record.
LEMMA LandStep ==
  ASSUME TypeOK, Undisturbed, CalmInv, NEW k \in Deferred, Land(k) PROVE CalmInv'
<1>0. Keys' = Keys /\ Deferred' = Deferred /\ Flushed' = Flushed /\ Pushers' = Pushers
  BY Zenon DEF Land, Keys, Deferred, Flushed, Pushers
<1>a. PICK f : f = Forwarded(k)
  BY Zenon
<1>b. k \in Keys /\ f \in Nat /\ tsc[k] < f /\ tsc[k] \in Nat
  BY Zenon, <1>a, ForwardedBounds DEF Keys, TypeOK
<1>c. wb[k] = "sent" /\ wb' = [wb EXCEPT ![k] = "ok"] /\ wbTS' = Maximum(wbTS, f)
  BY Zenon, <1>a DEF Land, Undisturbed
<1>d. intent' = [intent EXCEPT ![k] = [ts |-> f, seq |-> Late]]
  BY Zenon, <1>a DEF Land
<1>e. /\ wb'[k] = "ok" /\ \A j \in Deferred \ {k} : wb'[j] = wb[j]
      /\ intent'[k].ts = f /\ intent'[k].seq = Late /\ \A j \in Keys \ {k} : intent'[j] = intent[j]
  BY Zenon, <1>b, <1>c, <1>d DEF TypeOK
<1>f. wbTS \in Nat /\ wbTS' \in Nat /\ wbTS <= wbTS' /\ f <= wbTS' /\ wbTS' \in {wbTS, f}
  BY ZenonT(40), <1>b, <1>c, MaximumBounds DEF TypeOK
<1>g. Prevented => Prevented'
  BY <1>0, <1>b, <1>c, <1>e, <1>f DEF Prevented, Land, TypeOK
<1>h. rec' = rec /\ rec.status # "COMMITTED" /\ outcome # "committed" /\ wbRes # "ok"
  BY Zenon, <1>c DEF Land, CalmInv, CommitComplete, Agreed, Arrived, Places
<1>1. Headers' /\ StagedOnce' /\ VerdictRecorded' /\ ReadsRecorded'
  BY Zenon, <1>0 DEF CalmInv, Land, Headers, StagedOnce, VerdictRecorded, ReadsRecorded
<1>2. Places'
  <2>1. /\ pc' = pc /\ outcome' = outcome /\ et' = et /\ wbRes' = wbRes /\ staged' = staged
        /\ staged \in Nat
        /\ wbRes = "err" => \E j \in Deferred \ {k} : wb[j] \in {"again", "tooOld"}
    BY Zenon, <1>c DEF Land, CalmInv, Places, TypeOK
  <2>. QED
    BY Zenon, <1>0, <1>c, <1>e, <1>f, <1>g, <1>h, <2>1 DEF CalmInv, Places, BothOK
<1>3. WritesKept'
  <2>1. ASSUME NEW j \in Keys \ {k}, Kept(j) PROVE Kept(j)'
    <3>1. intent[j].ts \in Nat /\ txn0.write \in Nat
      BY ZenonT(40) DEF TypeOK, Writes, Stamp
    <3>. QED
      BY <1>0, <1>e, <1>f, <1>h, <2>1, <3>1 DEF Land, Kept, LastWrite
  <2>2. Kept(k)'
    BY <1>0, <1>b, <1>e, <1>f DEF Land, Kept, LastWrite, CalmInv, ReadsRecorded, TypeOK
  <2>3. k \notin Flushed
    BY Zenon DEF Undisturbed
  <2>. QED
    BY ZenonT(40), <1>0, <1>c, <1>e, <1>h, <2>1, <2>2, <2>3 DEF Land, CalmInv, WritesKept, Keys
<1>4. NewestLanded'
  <2>1. CASE wbTS' = f
    BY Zenon, <1>0, <1>e, <2>1 DEF NewestLanded
  <2>2. CASE wbTS' = wbTS
    <3>1. ASSUME NEW j \in Deferred, wb[j] = "ok" PROVE wb'[j] = "ok" /\ intent'[j] = intent[j]
      BY Zenon, <1>c, <1>e, <3>1 DEF Keys
    <3>. QED
      BY Zenon, <1>0, <1>h, <2>2, <3>1 DEF CalmInv, NewestLanded
  <2>. QED
    BY Zenon, <1>f, <2>1, <2>2
<1>5. CommitComplete'
  BY Zenon, <1>0, <1>b, <1>c, <1>e, <1>f, <1>g, <1>h DEF CalmInv, Land, CommitComplete
<1>6. PushersKnow'
  <2>1. ASSUME NEW j \in Deferred, Arrived(j) PROVE Arrived(j)'
    BY Zenon, <1>c, <1>e, <2>1 DEF Arrived, Keys, Land
  <2>2. push' = push /\ et' = et /\ staged' = staged
    BY Zenon DEF Land
  <2>. QED
    BY Zenon, <1>0, <1>g, <1>h, <2>1, <2>2 DEF CalmInv, PushersKnow, Knows
<1>7. Agreed'
  BY Zenon, <1>0, <1>g, <1>h DEF Land, CalmInv, Agreed
<1>. QED
  BY Zenon, <1>1, <1>2, <1>3, <1>4, <1>5, <1>6, <1>7 DEF CalmInv

\* A write is refused: with nothing sent twice the record can only abort.
LEMMA ConflictStep ==
  ASSUME TypeOK, Undisturbed, CalmInv, NEW k \in Deferred, Conflict(k) PROVE CalmInv'
<1>0. Keys' = Keys /\ Deferred' = Deferred /\ Flushed' = Flushed /\ Pushers' = Pushers
  BY Zenon DEF Conflict, Keys, Deferred, Flushed, Pushers
<1>a. PICK answer \in {"again", "tooOld"} : wb' = [wb EXCEPT ![k] = answer]
  BY Zenon DEF Conflict
<1>b. wb[k] = "sent" /\ wb'[k] = answer /\ \A j \in Deferred \ {k} : wb'[j] = wb[j]
  BY Zenon, <1>a DEF Conflict, TypeOK
<1>c. Prevented'
  BY Zenon, <1>0, <1>a, <1>b DEF Prevented
<1>d. rec' = rec /\ rec.status # "COMMITTED" /\ outcome # "committed" /\ wbRes # "ok"
  BY Zenon, <1>b DEF Conflict, store, CalmInv, CommitComplete, Agreed, Arrived, Places
<1>e. \A j \in Deferred : wb'[j] = "ok" <=> wb[j] = "ok"
  BY Zenon, <1>a, <1>b
<1>1. Headers' /\ StagedOnce' /\ VerdictRecorded' /\ ReadsRecorded'
  BY Zenon, <1>0 DEF CalmInv, Conflict, store, Headers, StagedOnce, VerdictRecorded, ReadsRecorded
<1>2. Places'
  <2>1. /\ pc' = pc /\ outcome' = outcome /\ et' = et /\ wbRes' = wbRes /\ staged' = staged
        /\ wbTS' = wbTS
    BY Zenon DEF Conflict, store
  <2>. QED
    BY Zenon, <1>0, <1>a, <1>b, <1>c, <1>d, <2>1 DEF CalmInv, Places, BothOK
<1>3. WritesKept'
  <2>1. ASSUME NEW j \in Keys PROVE Kept(j)' <=> Kept(j)
    BY Zenon, <1>0 DEF Conflict, store, Kept, LastWrite
  <2>. QED
    BY Zenon, <1>0, <1>e, <2>1 DEF Conflict, store, CalmInv, WritesKept, Keys
<1>4. NewestLanded'
  BY Zenon, <1>0, <1>e DEF CalmInv, Conflict, store, NewestLanded
<1>5. CommitComplete'
  BY Zenon, <1>0, <1>d DEF CalmInv, Conflict, store, CommitComplete
<1>6. PushersKnow'
  <2>1. ASSUME NEW j \in Deferred PROVE Arrived(j)' <=> Arrived(j)
    BY Zenon, <1>e DEF Arrived, Conflict, store
  <2>2. push' = push /\ et' = et /\ staged' = staged
    BY Zenon DEF Conflict
  <2>. QED
    BY Zenon, <1>0, <1>c, <1>d, <2>1, <2>2 DEF CalmInv, PushersKnow, Knows
<1>7. Agreed'
  BY Zenon, <1>0, <1>c, <1>d DEF Conflict, CalmInv, Agreed
<1>. QED
  BY Zenon, <1>1, <1>2, <1>3, <1>4, <1>5, <1>6, <1>7 DEF CalmInv

\* The explicit abort flips the record, which nobody has committed.
LEMMA AbortRecordStep ==
  ASSUME TypeOK, Undisturbed, CalmInv, AbortRecord PROVE CalmInv'
<1>0. Keys' = Keys /\ Deferred' = Deferred /\ Flushed' = Flushed /\ Pushers' = Pushers
  BY ZenonT(40) DEF AbortRecord, Keys, Deferred, Flushed, Pushers
<1>a. rec.status # "COMMITTED" /\ rec.status \in Statuses
  BY DEF AbortRecord, CalmInv, Places, StagedOnce, CommitComplete, Prevented, TypeOK
<1>b. rec'.status = "ABORTED" /\ (rec.status = "ABORTED" => rec' = rec)
  BY <1>a DEF AbortRecord, Aborted, Flippable, Undisturbed, Statuses, Final
<1>c. et = "ok" => Prevented
  BY Zenon DEF AbortRecord, CalmInv, Places
<1>d. Prevented' <=> Prevented
  BY Zenon, <1>0 DEF AbortRecord, Prevented
<1>1. Headers' /\ Places' /\ ReadsRecorded'
  BY Zenon, <1>0 DEF CalmInv, AbortRecord, Headers, Places, BothOK, Prevented, ReadsRecorded
<1>2. StagedOnce'
  BY Zenon, <1>0, <1>b DEF CalmInv, AbortRecord, StagedOnce, Final
<1>3. VerdictRecorded'
  BY Zenon, <1>0, <1>b DEF CalmInv, AbortRecord, VerdictRecorded, Final
<1>4. WritesKept'
  BY Zenon, <1>0, <1>b DEF CalmInv, AbortRecord, WritesKept, Kept, LastWrite
<1>5. NewestLanded'
  BY Zenon, <1>0, <1>b DEF CalmInv, AbortRecord, NewestLanded, Final
<1>6. CommitComplete'
  BY Zenon, <1>0, <1>b DEF CalmInv, AbortRecord, CommitComplete
<1>7. PushersKnow'
  <2>1. \A p \in Pushers : push[p].at = "resolve" => rec.status = "ABORTED" /\ push[p].status = "ABORTED"
    BY Zenon, <1>a DEF CalmInv, PushersKnow, Knows, Final
  <2>2. push' = push /\ et' = et /\ staged' = staged
    BY Zenon DEF AbortRecord
  <2>. QED
    BY Zenon, <1>0, <1>b, <2>1, <2>2 DEF CalmInv, PushersKnow, Knows, Final
<1>8. Agreed'
  BY Zenon, <1>b, <1>c, <1>d DEF AbortRecord, Agreed
<1>. QED
  BY Zenon, <1>1, <1>2, <1>3, <1>4, <1>5, <1>6, <1>7, <1>8 DEF CalmInv

\* The finalizing EndTxn commits at or above every write, or fails for good.
LEMMA FinalizeStep ==
  ASSUME TypeOK, Undisturbed, CalmInv, Finalize PROVE CalmInv'
<1>0. Keys' = Keys /\ Deferred' = Deferred /\ Flushed' = Flushed /\ Pushers' = Pushers
  BY Zenon DEF Finalize, Keys, Deferred, Flushed, Pushers
<1>a. /\ et = "ok" /\ wbRes = "ok" /\ staged < wbTS /\ Prevented /\ outcome = "none"
      /\ rec.status \in {"STAGING"} \cup Final /\ \A k \in Deferred : wb[k] = "ok"
  BY Zenon DEF Finalize, CalmInv, Places, BothOK, StagedOnce, Prevented
<1>b. rec.status # "COMMITTED"
  BY <1>a DEF CalmInv, CommitComplete, TypeOK
<1>c. Prevented'
  BY Zenon, <1>0, <1>a DEF Finalize, Prevented
<1>d. wbTS <= txn.write /\ txn0.write <= txn.write /\ txn.write \in Nat
  BY Zenon, <1>a DEF CalmInv, Places, Headers, TypeOK, Stamp
<1>e. \/ /\ rec.status = "STAGING" /\ rec' = [status |-> "COMMITTED", ts |-> txn.write]
         /\ outcome' = "committed" /\ pc' = "resolving"
         /\ verdict' = [status |-> "COMMITTED", ts |-> txn.write]
      \/ rec' = rec /\ outcome' = "error" /\ pc' = "done" /\ verdict' = verdict
  BY Zenon, <1>a, <1>b DEF Finalize, CanCommit, Flippable, ResolveAs, NoResolve, Undisturbed, Final
<1>f. rec.status = "STAGING" => \A k \in Keys : Kept(k) /\ missed[k] < txn.write
  <2>1. ASSUME rec.status = "STAGING", NEW k \in Keys
        PROVE  Kept(k) /\ missed[k] < intent[k].ts /\ intent[k].ts <= txn.write
    <3>1. Kept(k)
      BY Zenon, <1>a DEF CalmInv, WritesKept, Keys
    <3>2. missed[k] < intent[k].ts /\ intent[k].ts <= IF k \in Deferred THEN wbTS ELSE txn0.write
      BY Zenon, <2>1, <3>1 DEF Kept
    <3>. QED
      BY <1>d, <3>1, <3>2 DEF TypeOK, Writes, Stamp
  <2>2. \A k \in Keys : missed[k] \in Nat /\ intent[k].ts \in Nat
    BY Zenon DEF TypeOK, Writes
  <2>. QED
    BY <1>d, <2>1, <2>2
<1>1. Headers' /\ ReadsRecorded'
  BY Zenon, <1>0 DEF CalmInv, Finalize, Headers, ReadsRecorded
<1>2. StagedOnce'
  BY <1>0, <1>a, <1>b, <1>e DEF CalmInv, Finalize, StagedOnce, Final
<1>3. Places'
  BY Zenon, <1>0, <1>a, <1>b, <1>e, <1>c DEF CalmInv, Finalize, Places, BothOK, Prevented
<1>4. VerdictRecorded'
  BY <1>0, <1>a, <1>b, <1>e DEF CalmInv, Finalize, VerdictRecorded, Final
<1>5. WritesKept'
  <2>1. ASSUME NEW k \in Keys, Kept(k) PROVE Kept(k)'
    BY Zenon, <1>0, <1>b, <1>e, <2>1 DEF Finalize, Kept, LastWrite
  <2>. QED
    BY Zenon, <1>0, <2>1 DEF Finalize, CalmInv, WritesKept, Keys
<1>6. NewestLanded'
  BY ZenonT(40), <1>0, <1>a, <1>b, <1>e DEF CalmInv, Finalize, NewestLanded, Final
<1>7. CommitComplete'
  <2>1. ~(wbTS <= staged)
    BY <1>a DEF TypeOK
  <2>. QED
    BY <1>0, <1>a, <1>b, <1>d, <1>e, <1>f, <2>1 DEF Finalize, CommitComplete
<1>8. PushersKnow'
  <2>1. \A p \in Pushers : push[p].at = "resolve" => rec.status = "ABORTED"
    BY Zenon, <1>b DEF CalmInv, PushersKnow, Knows, Final
  <2>2. push' = push /\ et' = et /\ staged' = staged /\ wb' = wb /\ intent' = intent
    BY Zenon DEF Finalize
  <2>. QED
    BY ZenonT(40), <1>0, <1>c, <1>e, <2>1, <2>2 DEF CalmInv, PushersKnow, Knows, Arrived, Final
<1>9. Agreed'
  BY <1>0, <1>a, <1>b, <1>c, <1>e DEF Finalize, CalmInv, Agreed, Final
<1>. QED
  BY <1>1, <1>2, <1>3, <1>4, <1>5, <1>6, <1>7, <1>8, <1>9 DEF CalmInv

\* The asynchronous EndTxn commits at the staged timestamp or leaves the record
\* to recovery.
LEMMA AsyncFinalizeStep ==
  ASSUME TypeOK, Undisturbed, CalmInv, AsyncFinalize PROVE CalmInv'
<1>0. Keys' = Keys /\ Deferred' = Deferred /\ Flushed' = Flushed /\ Pushers' = Pushers
  BY Zenon DEF AsyncFinalize, Keys, Deferred, Flushed, Pushers
<1>a. /\ et = "ok" /\ wbRes = "ok" /\ wbTS <= staged /\ outcome = "committed"
      /\ \A k \in Deferred : wb[k] = "ok"
  BY Zenon DEF AsyncFinalize, CalmInv, Places, BothOK
<1>b. /\ rec.status \in {"STAGING", "COMMITTED"}
      /\ rec.status = "STAGING" => \A k \in Deferred : Arrived(k)
  BY Zenon, <1>a DEF CalmInv, Agreed
<1>c. staged = etTxn.write /\ txn0.write <= staged /\ (txn0.read = txn0.write => staged = txn0.write)
  BY Zenon, <1>a DEF CalmInv, StagedOnce, Headers
<1>d. \/ /\ rec.status = "STAGING" /\ rec' = [status |-> "COMMITTED", ts |-> staged]
         /\ pc' = "resolving" /\ verdict' = [status |-> "COMMITTED", ts |-> staged]
      \/ /\ rec.status = "COMMITTED" /\ rec' = rec
         /\ pc' = "resolving" /\ verdict' = [status |-> "COMMITTED", ts |-> staged]
      \/ /\ rec.status = "STAGING" /\ rec' = rec /\ pc' = "done" /\ verdict' = verdict
  BY Zenon, <1>b, <1>c DEF AsyncFinalize, CanCommit, Flippable, ResolveAs, NoResolve, Final
<1>e. rec.status = "STAGING" => \A k \in Keys : missed[k] < staged
  <2>1. ASSUME rec.status = "STAGING", NEW k \in Keys
        PROVE  missed[k] < intent[k].ts /\ intent[k].ts <= staged
    <3>1. Kept(k)
      BY Zenon, <1>a DEF CalmInv, WritesKept, Keys
    <3>2. missed[k] < intent[k].ts /\ intent[k].ts <= IF k \in Deferred THEN wbTS ELSE txn0.write
      BY <2>1, <3>1 DEF Kept
    <3>. QED
      BY <1>a, <1>c, <3>2 DEF TypeOK, Writes, Stamp
  <2>2. \A k \in Keys : missed[k] \in Nat /\ intent[k].ts \in Nat
    BY DEF TypeOK, Writes
  <2>. QED
    BY <2>1, <2>2 DEF TypeOK
<1>f. rec.status = "COMMITTED" => rec.ts = staged
  BY Zenon, <1>a DEF CalmInv, CommitComplete
<1>1. Headers' /\ ReadsRecorded'
  BY Zenon, <1>0 DEF CalmInv, AsyncFinalize, Headers, ReadsRecorded
<1>2. StagedOnce'
  BY Zenon, <1>0, <1>a, <1>b, <1>d DEF CalmInv, AsyncFinalize, StagedOnce, Final
<1>3. Places'
  BY ZenonT(40), <1>0, <1>a, <1>b, <1>d DEF CalmInv, AsyncFinalize, Places, BothOK, Prevented
<1>4. VerdictRecorded'
  BY <1>0, <1>a, <1>b, <1>d, <1>f DEF CalmInv, AsyncFinalize, VerdictRecorded, Final
<1>5. WritesKept'
  <2>1. ASSUME NEW k \in Keys, Kept(k) PROVE Kept(k)'
    BY Zenon, <1>0, <1>d, <2>1 DEF AsyncFinalize, Kept, LastWrite
  <2>. QED
    BY Zenon, <1>0, <2>1 DEF AsyncFinalize, CalmInv, WritesKept, Keys
<1>6. NewestLanded'
  BY Zenon, <1>0, <1>a, <1>b, <1>d DEF CalmInv, AsyncFinalize, NewestLanded, Final
<1>7. CommitComplete'
  BY Zenon, <1>0, <1>a, <1>c, <1>d, <1>e DEF AsyncFinalize, CalmInv, CommitComplete
<1>8. PushersKnow'
  <2>1. \A p \in Pushers : push[p].at = "resolve" => rec.status = "COMMITTED"
    BY Zenon, <1>b DEF CalmInv, PushersKnow, Knows, Final
  <2>2. /\ push' = push /\ et' = et /\ staged' = staged /\ wb' = wb /\ intent' = intent
        /\ tsc' = tsc /\ wbTS' = wbTS
    BY Zenon DEF AsyncFinalize
  <2>3. Prevented' <=> Prevented
    BY Zenon, <1>0, <2>2 DEF Prevented
  <2>. QED
    BY ZenonT(40), <1>0, <1>d, <2>1, <2>2, <2>3 DEF CalmInv, PushersKnow, Knows, Arrived, Final
<1>9. Agreed'
  BY Zenon, <1>0, <1>a, <1>b, <1>d DEF AsyncFinalize, Agreed, Arrived
<1>. QED
  BY <1>1, <1>2, <1>3, <1>4, <1>5, <1>6, <1>7, <1>8, <1>9 DEF CalmInv

\* Resolving an intent as the record says loses no write.
LEMMA ResolveKeeps ==
  ASSUME TypeOK, Undisturbed, CalmInv, NEW k \in Keys, NEW status, NEW ts \in Nat,
         ResolveIntent(k, status, ts), rec.status = status, status \in Final,
         status = "COMMITTED" => ts = rec.ts,
         UNCHANGED <<env, rec, tsc, missed, txn0, et, staged, wb, wbTS>>
  PROVE  /\ WritesKept' /\ NewestLanded'
         /\ rec.status # "STAGING" /\ (Prevented' <=> Prevented)
<1>0. Keys' = Keys /\ Deferred' = Deferred /\ Flushed' = Flushed
  BY Zenon DEF Keys, Deferred, Flushed
<1>1. /\ intent'[k] = None /\ \A j \in Keys \ {k} : intent'[j] = intent[j] /\ ver'[j] = ver[j]
      /\ ver'[k] = IF status = "COMMITTED" /\ intent[k] # None
                   THEN [ts |-> ts, seq |-> intent[k].seq] ELSE ver[k]
  BY Zenon, ResolveTypes
<1>2. ASSUME NEW j \in Keys, Kept(j) PROVE Kept(j)'
  <2>1. CASE j # k
    BY Zenon, <1>0, <1>1, <1>2, <2>1 DEF Kept, LastWrite
  <2>2. CASE j = k /\ intent[k] = None
    BY Zenon, <1>0, <1>1, <1>2, <2>2 DEF Kept, LastWrite, None, Early, Late, Final
  <2>3. CASE j = k /\ intent[k] # None
    BY Zenon, <1>0, <1>1, <1>2, <2>3 DEF Kept, LastWrite, Final
  <2>. QED
    BY Zenon, <2>1, <2>2, <2>3
<1>3. \A j \in Deferred : wb[j] # "ok" => intent'[j] = None /\ ver'[j] = None
  BY Zenon, <1>1 DEF CalmInv, WritesKept, Keys
<1>4. WritesKept'
  BY Zenon, <1>0, <1>2, <1>3 DEF CalmInv, WritesKept, Keys
<1>5. NewestLanded'
  BY Zenon DEF NewestLanded
<1>6. Prevented' <=> Prevented
  BY Zenon, <1>0 DEF Prevented
<1>. QED
  BY Zenon, <1>4, <1>5, <1>6 DEF Final

\* The coordinator resolves an intent.
LEMMA ResolveOneStep ==
  ASSUME TypeOK, Undisturbed, CalmInv, NEW k \in Keys, ResolveOne(k) PROVE CalmInv'
<1>0. Keys' = Keys /\ Deferred' = Deferred /\ Flushed' = Flushed /\ Pushers' = Pushers
  BY Zenon DEF ResolveOne, Keys, Deferred, Flushed, Pushers
<1>a. verdict.ts \in Nat /\ verdict.status \in Final
  BY Zenon DEF ResolveOne, TypeOK, CalmInv, VerdictRecorded
<1>b. rec.status = verdict.status /\ (verdict.status = "COMMITTED" => verdict.ts = rec.ts)
  BY Zenon, <1>a DEF CalmInv, VerdictRecorded, Final
<1>c. WritesKept' /\ NewestLanded' /\ rec.status # "STAGING" /\ (Prevented' <=> Prevented)
  BY Zenon, <1>a, <1>b, ResolveKeeps DEF ResolveOne
<1>1. Headers' /\ StagedOnce' /\ VerdictRecorded' /\ ReadsRecorded' /\ CommitComplete'
  BY Zenon, <1>0 DEF CalmInv, ResolveOne, Headers, StagedOnce, VerdictRecorded, ReadsRecorded,
     CommitComplete
<1>2. Places'
  BY Zenon, <1>0, <1>c DEF ResolveOne, CalmInv, Places, BothOK
<1>3. WritesKept'
  BY Zenon, <1>c
<1>4. NewestLanded'
  BY Zenon, <1>c
<1>5. PushersKnow'
  BY Zenon, <1>0, <1>c DEF ResolveOne, CalmInv, PushersKnow, Knows
<1>6. Agreed'
  BY Zenon, <1>0, <1>c DEF ResolveOne, CalmInv, Agreed
<1>. QED
  BY Zenon, <1>1, <1>2, <1>3, <1>4, <1>5, <1>6 DEF CalmInv

\* A read is served, or finds an intent.
LEMMA ReadStep ==
  ASSUME TypeOK, Undisturbed, CalmInv, NEW k \in Keys, NEW ts \in Times, Read(k, ts) PROVE CalmInv'
<1>0. Keys' = Keys /\ Deferred' = Deferred /\ Flushed' = Flushed /\ Pushers' = Pushers
  BY Zenon DEF Read, Keys, Deferred, Flushed, Pushers
<1>a. ts \in Nat
  BY Zenon, TimesAssumption
<1>b. tsc' \in [Keys -> Nat] /\ ts <= tsc'[k] /\ \A j \in Keys : tsc[j] <= tsc'[j]
  BY Zenon, <1>a, BumpBounds DEF Read
<1>c. /\ \A j \in Keys \ {k} : missed'[j] = missed[j]
      /\ \/ missed'[k] = missed[k]
         \/ /\ missed'[k] \in {missed[k], ts} /\ missed[k] <= missed'[k]
            /\ intent[k] = None \/ ts < intent[k].ts
            /\ ver[k] = None \/ ts < ver[k].ts
  BY <1>a DEF Read, TypeOK, Maximum, Writes
<1>d. Prevented => Prevented'
  BY <1>0, <1>b DEF Prevented, Read, coord, TypeOK, Keys
<1>e. ASSUME NEW j \in Keys, Kept(j) PROVE Kept(j)'
  <2>1. missed'[j] < intent[j].ts \/ ~(missed[j] < intent[j].ts) \/ intent[j] = None
    BY ZenonT(40), <1>a, <1>c DEF TypeOK, Writes
  <2>2. intent[j].seq = LastWrite(j) => intent[j] # None
    BY DEF LastWrite, None, Early, Late
  <2>. QED
    BY Zenon, <1>0, <1>e, <2>1, <2>2 DEF Read, coord, Kept, LastWrite
<1>f. rec' = rec /\ intent' = intent /\ ver' = ver /\ wb' = wb /\ wbTS' = wbTS /\ push' = push
      /\ et' = et /\ staged' = staged /\ pc' = pc /\ outcome' = outcome /\ wbRes' = wbRes /\ txn' = txn
      /\ txn0' = txn0
  BY Zenon DEF Read, coord
<1>1. Headers' /\ StagedOnce' /\ VerdictRecorded' /\ NewestLanded'
  BY Zenon, <1>0 DEF CalmInv, Read, coord, Headers, StagedOnce, VerdictRecorded, NewestLanded
<1>2. Places'
  BY Zenon, <1>0, <1>d, <1>f DEF CalmInv, Places, BothOK
<1>3. WritesKept'
  BY Zenon, <1>0, <1>e, <1>f DEF CalmInv, WritesKept, Keys
<1>4. ReadsRecorded'
  <2>1. \A j \in Keys : missed[j] \in Nat /\ tsc[j] \in Nat /\ missed[j] <= tsc[j]
    BY ZenonT(40) DEF CalmInv, ReadsRecorded, TypeOK
  <2>2. ASSUME NEW j \in Keys PROVE missed'[j] <= tsc'[j]
    BY <1>a, <1>b, <1>c, <2>1
  <2>. QED
    BY Zenon, <1>0, <2>2 DEF ReadsRecorded
<1>5. CommitComplete'
  <2>1. ASSUME rec.status = "COMMITTED" PROVE missed'[k] < rec.ts
    <3>1. missed[k] < rec.ts /\ wbTS <= rec.ts /\ txn0.write <= rec.ts
      BY Zenon, <2>1 DEF CalmInv, CommitComplete
    <3>2. Kept(k)
      BY Zenon, <2>1 DEF CalmInv, CommitComplete, WritesKept, Keys
    <3>3. /\ missed[k] \in Nat /\ rec.ts \in Nat /\ intent[k].ts \in Nat /\ wbTS \in Nat
          /\ txn0.write \in Nat
      BY Zenon DEF TypeOK, Writes, Stamp
    <3>4. CASE intent[k].seq = LastWrite(k) /\ intent[k].ts <= rec.ts
      <4>1. intent[k] # None
        BY <3>4 DEF LastWrite, None, Early, Late
      <4>. QED
        BY <1>a, <1>c, <3>1, <3>3, <3>4, <4>1
    <3>5. CASE ver[k] = [ts |-> rec.ts, seq |-> LastWrite(k)]
      <4>1. ver[k] # None /\ ver[k].ts = rec.ts
        BY <3>5 DEF LastWrite, None, Early, Late
      <4>. QED
        BY ZenonT(40), <1>a, <1>c, <3>1, <3>3, <4>1
    <3>. QED
      BY <2>1, <3>1, <3>2, <3>3, <3>4, <3>5 DEF Kept
  <2>. QED
    BY ZenonT(40), <1>0, <1>c, <1>f, <2>1 DEF CalmInv, CommitComplete
<1>6. PushersKnow'
  BY ZenonT(40), <1>0, <1>d, <1>f DEF CalmInv, PushersKnow, Knows, Arrived
<1>7. Agreed'
  BY Zenon, <1>0, <1>d, <1>f DEF CalmInv, Agreed, Arrived
<1>. QED
  BY Zenon, <1>1, <1>2, <1>3, <1>4, <1>5, <1>6, <1>7 DEF CalmInv

\* A push aborts a record that was never staged, or starts recovery.
LEMMA PushStep ==
  ASSUME TypeOK, Undisturbed, CalmInv, NEW p \in Pushers, Push(p) PROVE CalmInv'
<1>0. Keys' = Keys /\ Deferred' = Deferred /\ Flushed' = Flushed /\ Pushers' = Pushers
  BY Zenon DEF Push, Keys, Deferred, Flushed, Pushers
<1>a. /\ \A q \in Pushers \ {p} : push'[q] = push[q]
      /\ \/ /\ rec.status \in {"NONE", "PENDING"} /\ rec'.status = "ABORTED"
            /\ push'[p].at = "resolve" /\ push'[p].status = "ABORTED"
         \/ /\ rec.status = "STAGING" /\ rec' = rec
            /\ push'[p].at = "probe" /\ push'[p].ts = rec.ts /\ push'[p].todo = Deferred
         \/ /\ rec.status \in Final /\ rec' = rec
            /\ push'[p].at = "resolve" /\ push'[p].status = rec.status /\ push'[p].ts = rec.ts
  BY Zenon, PushLeaves
<1>b. UNCHANGED <<intent, ver, tsc, missed, coord>>
  BY Zenon DEF Push
<1>c. Prevented' <=> Prevented
  BY Zenon, <1>0, <1>b DEF Prevented, coord
<1>d. rec.status \in {"NONE", "PENDING"} => et # "ok" /\ outcome = "none" /\ verdict.status = "NONE"
  BY Zenon DEF CalmInv, StagedOnce, Agreed, VerdictRecorded, TypeOK, Final
<1>e. rec' = rec \/ (rec.status \in {"NONE", "PENDING"} /\ rec'.status = "ABORTED")
  BY Zenon, <1>a
<1>1. Headers' /\ ReadsRecorded'
  BY Zenon, <1>0 DEF CalmInv, Push, coord, Headers, ReadsRecorded
<1>2. StagedOnce'
  BY Zenon, <1>0, <1>e, <1>d DEF CalmInv, Push, coord, StagedOnce, Final
<1>3. Places'
  BY Zenon, <1>0, <1>b, <1>c DEF coord, CalmInv, Places, BothOK
<1>4. VerdictRecorded'
  BY Zenon, <1>0, <1>e, <1>d DEF CalmInv, Push, coord, VerdictRecorded, Final
<1>5. WritesKept'
  <2>1. ASSUME NEW j \in Keys, Kept(j) PROVE Kept(j)'
    BY Zenon, <1>0, <1>b, <1>e, <2>1 DEF coord, Kept, LastWrite
  <2>. QED
    BY Zenon, <1>0, <1>b, <2>1 DEF coord, CalmInv, WritesKept, Keys
<1>6. NewestLanded'
  BY Zenon, <1>0, <1>e, <1>d DEF CalmInv, Push, coord, NewestLanded, Final
<1>7. CommitComplete'
  BY Zenon, <1>0, <1>e, <1>d DEF CalmInv, Push, coord, CommitComplete, Final
<1>8. PushersKnow'
  <2>1. ASSUME NEW q \in Pushers, q # p PROVE Knows(q)'
    <3>1. push'[q] = push[q] /\ Knows(q)
      BY Zenon, <1>a, <2>1 DEF CalmInv, PushersKnow
    <3>. QED
      BY Zenon, <1>0, <1>b, <1>c, <1>e, <3>1 DEF coord, Knows, Arrived, Final
  <2>2. Knows(p)'
    <3>1. rec.status = "STAGING" => et = "ok" /\ rec.ts = staged
      BY Zenon DEF CalmInv, StagedOnce
    <3>. QED
      BY Zenon, <1>0, <1>a, <1>b, <3>1 DEF coord, Knows, Final
  <2>. QED
    BY Zenon, <1>0, <2>1, <2>2 DEF PushersKnow
<1>9. Agreed'
  BY Zenon, <1>0, <1>b, <1>c, <1>d, <1>e DEF coord, CalmInv, Agreed, Arrived
<1>. QED
  BY Zenon, <1>1, <1>2, <1>3, <1>4, <1>5, <1>6, <1>7, <1>8, <1>9 DEF CalmInv

\* A prevention read finds a write in place, or keeps it from landing beneath.
LEMMA ProbeStep ==
  ASSUME TypeOK, Undisturbed, CalmInv, NEW p \in Pushers, NEW k \in Deferred, Probe(p, k)
  PROVE  CalmInv'
<1>0. Keys' = Keys /\ Deferred' = Deferred /\ Flushed' = Flushed /\ Pushers' = Pushers
  BY Zenon DEF Probe, Keys, Deferred, Flushed, Pushers
<1>a. k \in Keys /\ push[p].ts \in Nat /\ push[p].at = "probe" /\ k \in push[p].todo
  BY Zenon DEF Probe, Keys, TypeOK
<1>b. tsc' \in [Keys -> Nat] /\ push[p].ts <= tsc'[k] /\ \A j \in Keys : tsc[j] <= tsc'[j]
  BY Zenon, <1>a, BumpBounds DEF Probe
<1>c. UNCHANGED <<rec, intent, ver, missed, coord>>
  BY Zenon DEF Probe
<1>d. Prevented => Prevented'
  BY <1>0, <1>b, <1>c DEF Prevented, coord, TypeOK, Keys
<1>1. Headers' /\ StagedOnce' /\ VerdictRecorded' /\ WritesKept' /\ NewestLanded' /\
      CommitComplete'
  BY ZenonT(40), <1>0 DEF CalmInv, Probe, coord, Headers, StagedOnce, VerdictRecorded, WritesKept, Kept,
     LastWrite, NewestLanded, CommitComplete
<1>2. Places'
  BY Zenon, <1>0, <1>c, <1>d DEF coord, CalmInv, Places, BothOK
<1>3. ReadsRecorded'
  <2>1. ASSUME NEW j \in Keys PROVE missed[j] <= tsc'[j]
    <3>1. missed[j] \in Nat /\ tsc[j] \in Nat /\ missed[j] <= tsc[j] /\ tsc'[j] \in Nat
      BY Zenon, <1>b DEF CalmInv, ReadsRecorded, TypeOK
    <3>. QED
      BY <1>b, <3>1
  <2>. QED
    BY Zenon, <1>0, <1>c, <2>1 DEF ReadsRecorded
<1>4. PushersKnow'
  <2>1. ASSUME NEW j \in Deferred PROVE Arrived(j)' <=> Arrived(j)
    BY Zenon, <1>c DEF Arrived, coord
  <2>2. ASSUME NEW q \in Pushers, q # p PROVE Knows(q)'
    <3>1. push'[q] = push[q] /\ Knows(q)
      BY Zenon, <2>2, ProbeLeaves DEF CalmInv, PushersKnow
    <3>. QED
      BY Zenon, <1>0, <1>c, <1>d, <2>1, <3>1 DEF coord, Knows
  <2>3. Knows(p)'
    <3>1. /\ push'[p].ts = push[p].ts /\ push'[p].todo = Left(p, k) /\ push'[p].ok = Found(p, k)
          /\ push'[p].at = IF Left(p, k) = {} THEN "recover" ELSE "probe"
      BY Zenon, ProbeLeaves
    <3>2. et = "ok" /\ push[p].ts = staged
      BY Zenon, <1>a DEF CalmInv, PushersKnow, Knows
    <3>3. rec.status = "STAGING" => \A j \in Deferred : j \notin push[p].todo => Arrived(j)
      BY Zenon, <1>a DEF CalmInv, PushersKnow, Knows
    <3>4. CASE Found(p, k)
      <4>1. Arrived(k)
        BY Zenon, <3>2, <3>4 DEF Found, Arrived, CalmInv, WritesKept
      <4>2. rec.status = "STAGING" => \A j \in Deferred : j \notin Left(p, k) => Arrived(j)
        BY Zenon, <3>3, <3>4, <4>1 DEF Left
      <4>. QED
        BY Zenon, <1>0, <1>c, <2>1, <3>1, <3>2, <3>4, <4>2 DEF coord, Knows
    <3>5. CASE ~Found(p, k)
      <4>1. ASSUME wb[k] = "ok", rec.status = "STAGING" PROVE Prevented'
        <5>1. Kept(k) /\ intent[k] # None
          BY <4>1 DEF CalmInv, WritesKept, Kept, LastWrite, None, Early, Late
        <5>2. staged < intent[k].ts /\ intent[k].ts <= wbTS
          BY <1>a, <3>2, <3>5, <4>1, <5>1 DEF Found, Kept, TypeOK, Writes
        <5>. QED
          BY <1>0, <1>a, <1>c, <1>d, <5>2 DEF Prevented, TypeOK, Writes, coord
      <4>2. ASSUME wb[k] # "ok" PROVE Prevented'
        BY Zenon, <1>0, <1>b, <1>c, <3>2, <4>2 DEF Prevented, coord
      <4>3. rec.status = "STAGING" => Prevented'
        BY Zenon, <4>1, <4>2
      <4>. QED
        BY ZenonT(40), <1>0, <1>c, <3>1, <3>2, <3>5, <4>3 DEF coord, Knows, Left
    <3>. QED
      BY Zenon, <3>4, <3>5
  <2>. QED
    BY Zenon, <1>0, <2>2, <2>3 DEF PushersKnow
<1>5. Agreed'
  BY Zenon, <1>0, <1>c, <1>d DEF coord, CalmInv, Agreed, Arrived
<1>. QED
  BY Zenon, <1>1, <1>2, <1>3, <1>4, <1>5 DEF CalmInv

\* Recovery finishes what it found: every write in place, or one kept out.
LEMMA RecoverStep ==
  ASSUME TypeOK, Undisturbed, CalmInv, NEW p \in Pushers, Recover(p) PROVE CalmInv'
<1>0. Keys' = Keys /\ Deferred' = Deferred /\ Flushed' = Flushed /\ Pushers' = Pushers
  BY Zenon DEF Recover, Keys, Deferred, Flushed, Pushers
<1>a. UNCHANGED <<intent, ver, tsc, missed, coord>>
  BY Zenon DEF Recover
<1>b. Prevented' <=> Prevented
  BY <1>0, <1>a DEF Prevented, coord
<1>c. /\ push'[p].at = "idle" /\ \A q \in Pushers \ {p} : push'[q] = push[q]
  BY Zenon, PusherDone DEF Recover
<1>d. rec.status = "STAGING" => /\ et = "ok" /\ rec.ts = staged
                                /\ verdict.status = "NONE"
  BY Zenon DEF CalmInv, StagedOnce, VerdictRecorded, TypeOK, Final
<1>e. \/ rec' = rec
      \/ /\ rec.status = "STAGING" /\ push[p].ok /\ \A k \in Deferred : Arrived(k)
         /\ rec'.status = "COMMITTED" /\ rec'.ts = staged
      \/ rec.status = "STAGING" /\ Prevented /\ rec'.status = "ABORTED"
  BY Zenon, <1>d DEF Recover, Verdict, CalmInv, PushersKnow, Knows, TypeOK
<1>f. rec'.status = "COMMITTED" /\ rec' # rec => wbTS <= staged
  <2>1. CASE wbTS = 0
    BY <2>1 DEF TypeOK
  <2>2. CASE wbTS # 0
    BY Zenon, <1>e, <2>2 DEF CalmInv, NewestLanded, Arrived, Final
  <2>. QED
    BY Zenon, <2>1, <2>2
<1>g. ASSUME rec.status = "STAGING", \A k \in Deferred : Arrived(k), NEW k \in Keys
      PROVE  missed[k] < staged
  <2>1. Kept(k)
    BY Zenon, <1>g DEF CalmInv, WritesKept, Keys, Arrived
  <2>2. /\ missed[k] < intent[k].ts
        /\ intent[k].ts <= IF k \in Deferred THEN wbTS ELSE txn0.write
    BY Zenon, <1>g, <2>1 DEF Kept
  <2>3. txn0.write <= staged
    BY Zenon, <1>d, <1>g DEF CalmInv, StagedOnce, Headers
  <2>4. intent[k].ts <= staged
    BY <1>g, <2>2, <2>3 DEF Arrived, TypeOK, Writes, Stamp
  <2>. QED
    BY <2>2, <2>4 DEF TypeOK, Writes
<1>1. Headers' /\ ReadsRecorded'
  BY Zenon, <1>0 DEF CalmInv, Recover, coord, Headers, ReadsRecorded
<1>2. StagedOnce'
  BY Zenon, <1>0, <1>d, <1>e DEF CalmInv, Recover, coord, StagedOnce, Final
<1>3. Places'
  BY <1>0, <1>a, <1>b DEF coord, CalmInv, Places, BothOK
<1>4. VerdictRecorded'
  BY ZenonT(40), <1>0, <1>d, <1>e DEF CalmInv, Recover, coord, VerdictRecorded, Final
<1>5. WritesKept'
  <2>1. ASSUME NEW j \in Keys, Kept(j) PROVE Kept(j)'
    BY Zenon, <1>0, <1>a, <1>e, <2>1 DEF coord, Kept, LastWrite
  <2>. QED
    BY <1>0, <1>a, <2>1 DEF coord, CalmInv, WritesKept, Keys
<1>6. NewestLanded'
  BY Zenon, <1>0, <1>d, <1>e DEF CalmInv, Recover, coord, NewestLanded, Final
<1>7. CommitComplete'
  <2>1. CASE rec' = rec
    BY Zenon, <1>0, <1>a, <2>1 DEF coord, CalmInv, CommitComplete
  <2>2. CASE rec' # rec /\ rec'.status = "COMMITTED"
    <3>1. /\ rec.status = "STAGING" /\ (\A k \in Deferred : Arrived(k)) /\ rec'.ts = staged
          /\ et = "ok"
      BY Zenon, <1>d, <1>e, <2>2
    <3>2. wbTS <= staged /\ txn0.write <= staged
      BY Zenon, <1>f, <2>2, <3>1 DEF CalmInv, StagedOnce, Headers
    <3>3. \A k \in Keys : missed[k] < staged
      BY Zenon, <1>g, <3>1
    <3>. QED
      BY Zenon, <1>0, <1>a, <3>1, <3>2, <3>3 DEF coord, CommitComplete, Arrived
  <2>3. CASE rec'.status # "COMMITTED"
    BY Zenon, <2>3 DEF CommitComplete
  <2>. QED
    BY Zenon, <2>1, <2>2, <2>3
<1>8. PushersKnow'
  <2>1. ASSUME NEW q \in Pushers, q # p PROVE Knows(q)'
    <3>1. push'[q] = push[q] /\ Knows(q)
      BY Zenon, <1>c, <2>1 DEF CalmInv, PushersKnow
    <3>. QED
      BY Zenon, <1>0, <1>a, <1>b, <1>e, <3>1 DEF coord, Knows, Arrived, Final
  <2>. QED
    BY Zenon, <1>0, <1>c, <2>1 DEF PushersKnow, Knows
<1>9. Agreed'
  <2>1. rec' = rec => Agreed'
    BY <1>0, <1>a, <1>b DEF coord, CalmInv, Agreed, Arrived
  <2>2. ASSUME rec.status = "STAGING", Prevented PROVE outcome # "committed"
    <3>1. ~\A k \in Deferred : Arrived(k)
      BY <2>2 DEF CalmInv, NewestLanded, Prevented, Arrived, TypeOK, Final, Writes
    <3>. QED
      BY ZenonT(40), <2>2, <3>1 DEF CalmInv, Agreed
  <2>3. ASSUME rec.status = "STAGING", \A k \in Deferred : Arrived(k), wbTS <= staged
        PROVE  outcome # "error"
    <3>1. ~Prevented
      BY <2>3 DEF Prevented, Arrived, TypeOK
    <3>. QED
      BY Zenon, <2>3, <3>1 DEF CalmInv, Agreed
  <2>. QED
    BY ZenonT(40), <1>0, <1>a, <1>b, <1>e, <1>f, <2>1, <2>2, <2>3 DEF coord, Agreed
<1>. QED
  BY <1>1, <1>2, <1>3, <1>4, <1>5, <1>6, <1>7, <1>8, <1>9 DEF CalmInv

\* A pusher resolves an intent.
LEMMA PushResolveStep ==
  ASSUME TypeOK, Undisturbed, CalmInv, NEW p \in Pushers, PushResolve(p) PROVE CalmInv'
<1>0. Keys' = Keys /\ Deferred' = Deferred /\ Flushed' = Flushed /\ Pushers' = Pushers
  BY Zenon DEF PushResolve, Keys, Deferred, Flushed, Pushers
<1>a. /\ push[p].ts \in Nat /\ push[p].status = rec.status /\ rec.status \in Final
      /\ rec.status = "COMMITTED" => push[p].ts = rec.ts
  BY Zenon DEF PushResolve, TypeOK, CalmInv, PushersKnow, Knows
<1>b. PICK k \in Keys : ResolveIntent(k, push[p].status, push[p].ts)
  BY Zenon DEF PushResolve, TypeOK
<1>c. UNCHANGED <<env, rec, tsc, missed, coord>>
  BY Zenon DEF PushResolve
<1>d. UNCHANGED <<env, rec, tsc, missed, txn0, et, staged, wb, wbTS>>
  BY Zenon, <1>c DEF coord
<1>e. WritesKept' /\ NewestLanded' /\ rec.status # "STAGING" /\ (Prevented' <=> Prevented)
  BY Zenon, <1>a, <1>b, <1>d, ResolveKeeps
<1>f. push'[p].at = "idle" /\ \A q \in Pushers \ {p} : push'[q] = push[q]
  BY Zenon, PusherDone DEF PushResolve
<1>1. Headers' /\ StagedOnce' /\ VerdictRecorded' /\ ReadsRecorded' /\ CommitComplete'
  BY Zenon, <1>0 DEF CalmInv, PushResolve, coord, Headers, StagedOnce, VerdictRecorded,
     ReadsRecorded, CommitComplete
<1>2. Places'
  BY Zenon, <1>0, <1>c, <1>e DEF coord, CalmInv, Places, BothOK
<1>3. WritesKept'
  BY Zenon, <1>e
<1>4. NewestLanded'
  BY Zenon, <1>e
<1>5. PushersKnow'
  BY ZenonT(40), <1>0, <1>c, <1>e, <1>f DEF coord, CalmInv, PushersKnow, Knows
<1>6. Agreed'
  BY Zenon, <1>0, <1>c, <1>e DEF coord, CalmInv, Agreed
<1>. QED
  BY Zenon, <1>1, <1>2, <1>3, <1>4, <1>5, <1>6 DEF CalmInv

\* What the strengthening says besides the pushers is about the store and the
\* coordinator.
LEMMA CalmFrame ==
  ASSUME CalmInv, UNCHANGED <<env, store, missed, coord>>
  PROVE  /\ Headers' /\ StagedOnce' /\ Places' /\ VerdictRecorded' /\ WritesKept'
         /\ NewestLanded' /\ ReadsRecorded' /\ CommitComplete' /\ Agreed'
<1>0. Keys' = Keys /\ Deferred' = Deferred /\ Flushed' = Flushed
  BY Zenon DEF Keys, Deferred, Flushed
<1>1. UNCHANGED <<rec, intent, ver, tsc, missed, txn, txn0, pc, outcome, et, etTxn, etMsg,
                  staged, wb, wbTxn, wbTS, wbRes, verdict>>
  BY Zenon DEF store, coord
<1>2. (Prevented' <=> Prevented) /\ (BothOK' <=> BothOK)
  BY Zenon, <1>0, <1>1 DEF Prevented, BothOK
<1>3. \A k \in Keys : (Arrived(k)' <=> Arrived(k)) /\ (Kept(k)' <=> Kept(k))
  BY Zenon, <1>0, <1>1 DEF Arrived, Kept, LastWrite
<1>4. Deferred \subseteq Keys /\ Flushed \subseteq Keys
  BY Zenon DEF Keys, Deferred, Flushed
<1>5. Headers' /\ StagedOnce'
  BY Zenon, <1>1 DEF CalmInv, Headers, StagedOnce
<1>6. Places'
  BY Zenon, <1>0, <1>1, <1>2 DEF CalmInv, Places
<1>7. VerdictRecorded' /\ ReadsRecorded'
  BY Zenon, <1>0, <1>1 DEF CalmInv, VerdictRecorded, ReadsRecorded
<1>8. WritesKept'
  BY Zenon, <1>0, <1>1, <1>3, <1>4 DEF CalmInv, WritesKept
<1>9. NewestLanded' /\ CommitComplete'
  BY Zenon, <1>0, <1>1 DEF CalmInv, NewestLanded, CommitComplete
<1>10. Agreed'
  BY Zenon, <1>0, <1>1, <1>2, <1>3, <1>4 DEF CalmInv, Agreed
<1>. QED
  BY Zenon, <1>5, <1>6, <1>7, <1>8, <1>9, <1>10

\* A pusher gives up.
LEMMA PushAbandonStep ==
  ASSUME TypeOK, Undisturbed, CalmInv, NEW p \in Pushers, PushAbandon(p) PROVE CalmInv'
<1>0. Keys' = Keys /\ Deferred' = Deferred /\ Flushed' = Flushed /\ Pushers' = Pushers
  BY Zenon DEF PushAbandon, Keys, Deferred, Flushed, Pushers
<1>f. push'[p].at = "idle" /\ \A q \in Pushers \ {p} : push'[q] = push[q]
  BY Zenon, PusherDone DEF PushAbandon
<1>g. Prevented' <=> Prevented
  BY Zenon, <1>0 DEF Prevented, PushAbandon, store, coord
<1>1. Headers' /\ StagedOnce' /\ Places' /\ VerdictRecorded' /\ WritesKept' /\
      NewestLanded' /\ ReadsRecorded' /\ CommitComplete' /\ Agreed'
  BY ZenonT(40), CalmFrame DEF PushAbandon
<1>2. PushersKnow'
  BY <1>0, <1>f, <1>g DEF PushAbandon, store, coord, CalmInv, PushersKnow, Knows, Arrived
<1>. QED
  BY Zenon, <1>1, <1>2 DEF CalmInv
----------------------------------------------------------------------------
(***************************************************************************)
(* The invariant holds, and what follows from it.                          *)
(***************************************************************************)
LEMMA InitCalm == Init => CommitInv
<1>. SUFFICES ASSUME Init PROVE CommitInv
  OBVIOUS
<1>1. TypeOK /\ env \in Environments
  BY Zenon, InitTyped DEF Init
<1>2. CommitsRecorded
  BY Zenon DEF Init, CommitsRecorded, Idle
<1>3. /\ txn0 = txn /\ etTxn = txn /\ wbTxn = txn /\ txn.write \in {1, 2}
      /\ rec.status \in {"NONE", "PENDING"}
      /\ pc = "open" /\ outcome = "none" /\ et = "wait" /\ etMsg = FALSE /\ wbTS = 0
      /\ wbRes = "wait" /\ verdict.status = "NONE" /\ missed = tsc
      /\ (\A k \in Deferred : wb[k] = "held") /\ (\A p \in Pushers : push[p].at = "idle")
  BY Zenon DEF Init, Idle
<1>4. ASSUME Undisturbed PROVE WritesKept
  <2>1. ASSUME NEW k \in Deferred PROVE intent[k] = None /\ ver[k] = None
    BY ZenonT(40), <1>4 DEF Init, Undisturbed, Keys
  <2>2. ASSUME NEW k \in Flushed PROVE Kept(k)
    <3>1. k \notin Deferred /\ k \in Keys
      BY Zenon, <1>4 DEF Undisturbed, Keys
    <3>2. intent[k] = [ts |-> txn.write, seq |-> Early] /\ missed[k] = txn.write - 1
      BY Zenon, <3>1 DEF Init
    <3>. QED
      BY <1>3, <3>1, <3>2 DEF Kept, LastWrite
  <2>. QED
    BY Zenon, <1>3, <2>1, <2>2 DEF WritesKept
<1>5. ASSUME Undisturbed PROVE CalmInv
  <2>1. Headers
    BY <1>3 DEF Headers
  <2>2. ReadsRecorded
    BY <1>1, <1>3 DEF ReadsRecorded, TypeOK
  <2>. QED
    BY ZenonT(40), <1>3, <1>4, <1>5, <2>1, <2>2
    DEF CalmInv, StagedOnce, Places, VerdictRecorded, NewestLanded, CommitComplete, PushersKnow,
        Knows, Agreed, Final
<1>. QED
  BY Zenon, <1>1, <1>2, <1>5 DEF CommitInv

LEMMA CalmStep == ASSUME TypeOK, Undisturbed, CalmInv, [Next]_vars PROVE CalmInv'
<1>1. CASE UNCHANGED vars
  <2>1. UNCHANGED <<env, store, missed, coord, push>>
    BY Zenon, <1>1 DEF vars, store
  <2>2. UNCHANGED <<rec, intent, tsc, et, staged, wb, wbTS>>
    BY Zenon, <2>1 DEF store, coord
  <2>3. PushersKnow'
    BY ZenonT(40), <2>1, <2>2 DEF CalmInv, PushersKnow, Knows, Arrived, Prevented, Pushers, Deferred
  <2>. QED
    BY Zenon, <2>1, <2>3, CalmFrame DEF CalmInv
<1>2. ~WbResend /\ ~WbRefresh /\ ~GiveUp
  BY Zenon DEF Undisturbed, WbResend, WbRefresh, GiveUp
<1>3. CASE Coordinator
  BY Zenon, <1>2, <1>3, BeginCommitStep, ReleaseWritesStep, WbDoneStep, WbFailStep, ReturnImplicitStep,
     SettleStep, AbandonStep, AbortRecordStep, FinalizeStep, AsyncFinalizeStep, ResolveOneStep
  DEF Coordinator
<1>4. CASE Ranges
  BY Zenon, <1>4, StageStep, StageRefusedStep, StageRetryStep, LandStep, ConflictStep DEF Ranges
<1>5. CASE Rivals
  BY Zenon, <1>5, ReadStep, PushStep, ProbeStep, RecoverStep, PushResolveStep, PushAbandonStep
  DEF Rivals, Pushing
<1>. QED
  BY Zenon, <1>1, <1>3, <1>4, <1>5, CrashStep DEF Next

LEMMA CommitStep == CommitInv /\ [Next]_vars => CommitInv'
<1>. SUFFICES ASSUME CommitInv, [Next]_vars PROVE CommitInv'
  BY Zenon
<1>1. TypeOK' /\ CommitsRecorded' /\ env' = env
  BY Zenon, TypeStep, CommitsRecordedStep, EnvStays DEF CommitInv
<1>2. Undisturbed' <=> Undisturbed
  BY Zenon, <1>1 DEF Undisturbed, Flushed, Deferred
<1>3. Undisturbed => CalmInv'
  BY Zenon, CalmStep DEF CommitInv
<1>. QED
  BY Zenon, <1>1, <1>2, <1>3 DEF CommitInv

LEMMA CommitInvariant == Spec => []CommitInv
BY InitCalm, CommitStep, PTL DEF Spec

\* The record and the writes stay in their types (ParallelCommit.tla).
THEOREM TypeCorrect == Spec => []TypeOK
<1>1. CommitInv => TypeOK
  BY Zenon DEF CommitInv
<1>. QED
  BY <1>1, CommitInvariant, PTL

\* The outcome of a commit stands for any number of keys, pushers and reads:
\* nothing of an aborted transaction is ever a committed version; undisturbed,
\* a committed one (txn.go parallelCommit, intents.go recoverStagedTxn) loses no
\* write and contradicts no read.
THEOREM OutcomesStand == Spec => []OutcomeStands
<1>1. ASSUME CommitInv PROVE OutcomeStands
  <2>1. rec.status = "ABORTED" => \A k \in Keys : ver[k] = None
    BY Zenon, <1>1 DEF CommitInv, CommitsRecorded
  <2>2. ASSUME Undisturbed, rec.status = "COMMITTED", NEW k \in Keys
        PROVE  /\ intent[k].seq = LastWrite(k) \/ ver[k] = [ts |-> rec.ts, seq |-> LastWrite(k)]
               /\ missed[k] < rec.ts
    <3>1. Kept(k) /\ missed[k] < rec.ts
      BY Zenon, <1>1, <2>2 DEF CommitInv, CalmInv, CommitComplete, WritesKept, Keys
    <3>. QED
      BY Zenon, <2>2, <3>1 DEF Kept
  <2>. QED
    BY Zenon, <2>1, <2>2 DEF OutcomeStands
<1>. QED
  BY <1>1, CommitInvariant, PTL
----------------------------------------------------------------------------
(***************************************************************************)
(* Refinement: the refinement mapping of Abstract, by name.                *)
(***************************************************************************)
Decision == IF ~Undisturbed THEN "open"
            ELSE IF rec.status = "COMMITTED" \/ Implicit THEN "committed"
            ELSE IF rec.status = "ABORTED" THEN "aborted" ELSE "open"
Applied  == {k \in Keys : Undisturbed /\ ver[k] # None}
Answered == IF Undisturbed THEN outcome ELSE "none"

\* Undisturbed, an implicit commit is a staged record whose writes all arrived.
LEMMA ImplicitMeans ==
  ASSUME TypeOK, CalmInv
  PROVE  Implicit <=> rec.status = "STAGING" /\ \A k \in Deferred : Arrived(k)
<1>. SUFFICES ASSUME rec.status = "STAGING", NEW k \in Deferred
              PROVE  (intent[k].seq = Late /\ intent[k].ts <= rec.ts) <=> Arrived(k)
  BY Zenon DEF Implicit
<1>1. rec.ts = staged
  BY Zenon DEF CalmInv, StagedOnce
<1>2. CASE wb[k] = "ok"
  BY ZenonT(40), <1>1, <1>2 DEF CalmInv, WritesKept, Kept, LastWrite, Arrived
<1>3. CASE wb[k] # "ok"
  BY <1>3 DEF CalmInv, WritesKept, Arrived, None, Late
<1>. QED
  BY Zenon, <1>2, <1>3

\* What was prevented is not an implicit commit.
LEMMA PreventedOpen ==
  ASSUME TypeOK, CalmInv, rec.status = "STAGING", Prevented
  PROVE  ~\A k \in Deferred : Arrived(k)
BY DEF CalmInv, NewestLanded, Prevented, Arrived, TypeOK, Final, Writes

\* An implicit commit is never undone: it stays one until its record says so.
LEMMA ImplicitStays ==
  ASSUME TypeOK, Undisturbed, CalmInv, [Next]_vars, rec.status = "STAGING",
         \A k \in Deferred : Arrived(k)
  PROVE  \/ rec'.status = "COMMITTED"
         \/ rec'.status = "STAGING" /\ \A k \in Deferred : Arrived(k)'
<1>1. /\ et = "ok" /\ ~etMsg /\ pc \notin {"open", "aborting", "resolving", "finalize"}
      /\ ~Prevented
      /\ (\A k \in Deferred : wb[k] = "ok") /\ (\A p \in Pushers : push[p].at # "resolve")
  <2>1. ~Prevented
    BY Zenon, PreventedOpen
  <2>. QED
    BY Zenon, <2>1 DEF CalmInv, StagedOnce, Places, VerdictRecorded, PushersKnow, Knows, Arrived, Final, Prevented
<1>2. ASSUME rec' = rec, wb' = wb, intent' = intent, staged' = staged
      PROVE  rec'.status = "STAGING" /\ \A k \in Deferred : Arrived(k)'
  BY Zenon, <1>2 DEF Arrived
<1>3. CASE AsyncFinalize
  BY Zenon, <1>3 DEF AsyncFinalize, Arrived
<1>4. ASSUME NEW p \in Pushers, Recover(p)
      PROVE  \/ rec'.status = "COMMITTED"
             \/ rec'.status = "STAGING" /\ \A k \in Deferred : Arrived(k)'
  BY Zenon, <1>1, <1>4 DEF Recover, Verdict, CalmInv, PushersKnow, Knows, TypeOK
<1>5. CASE ReleaseWrites
  BY Zenon, <1>1, <1>5 DEF ReleaseWrites, store, Arrived
<1>6. ASSUME NEW p \in Pushers, Push(p)
      PROVE  rec' = rec /\ wb' = wb /\ intent' = intent /\ staged' = staged
  BY ZenonT(40), <1>6 DEF Push, PushAborts, coord
<1>. QED
  BY ZenonT(40), <1>1, <1>2, <1>3, <1>4, <1>5, <1>6
  DEF Next, vars, store, coord, Coordinator, Ranges, Rivals, BeginCommit, WbDone, WbResend,
      WbRefresh, WbFail, GiveUp, ReturnImplicit, Settle, Abandon, AbortRecord, Finalize, ResolveOne,
      Stage, StageRefused, StageRetry, Land, Conflict, Read, Pushing, Probe, PushResolve,
      PushAbandon, Crash, Undisturbed

\* The client is told once.
LEMMA ToldOnce ==
  ASSUME Undisturbed, CalmInv, [Next]_vars PROVE outcome' = outcome \/ outcome = "none"
BY ZenonT(40) DEF CalmInv, Places, Next, vars, store, coord, Coordinator, Ranges, Rivals, BeginCommit,
   ReleaseWrites, WbDone, WbResend, WbRefresh, WbFail, GiveUp, ReturnImplicit, Settle, Abandon,
   AbortRecord, Finalize, AsyncFinalize, ResolveOne, Stage, StageRefused, StageRetry, Land,
   Conflict, Read, Pushing, Push, Probe, Recover, PushResolve, PushAbandon, Crash

\* What an implicit commit is, as a consequence of the invariant.
Plain == Undisturbed =>
  /\ Implicit <=> rec.status = "STAGING" /\ \A k \in Deferred : Arrived(k)
  /\ rec.status = "STAGING" /\ Prevented => ~\A k \in Deferred : Arrived(k)

LEMMA PlainHolds == CommitInv => Plain
BY Zenon, ImplicitMeans, PreventedOpen DEF CommitInv, Plain

\* Versions are only added, and by steps that tell the client nothing.
LEMMA VersionsAdded ==
  ASSUME CommitInv, CommitInv', Undisturbed, Undisturbed', [Next]_vars
  PROVE  \/ ver' = ver
         \/ outcome' = outcome /\ \A k \in Keys : ver[k] # None => ver'[k] # None
<1>1. ASSUME NEW k \in Keys, NEW status, NEW ts \in Nat, ResolveIntent(k, status, ts)
      PROVE  \A j \in Keys : ver[j] # None => ver'[j] # None
  <2>1. intent'[k] = None /\ \A j \in Keys \ {k} : ver'[j] = ver[j]
    BY ZenonT(40), <1>1, ResolveTypes DEF CommitInv
  <2>2. ASSUME ver[k] # None PROVE ver'[k] # None
    <3>1. rec'.status = "COMMITTED" /\ k \in Keys'
      BY Zenon, <2>2, EnvStays, FinalStays DEF CommitInv, CommitsRecorded, Final, Keys, Deferred, Flushed
    <3>2. Kept(k)'
      BY Zenon, <3>1 DEF CommitInv, CalmInv, CommitComplete, WritesKept, Keys
    <3>3. LastWrite(k)' \in {Early, Late}
      BY Zenon DEF LastWrite
    <3>. QED
      BY <2>1, <3>1, <3>2, <3>3 DEF Kept, None, Early, Late
  <2>. QED
    BY Zenon, <2>1, <2>2
<1>2. ASSUME NEW k \in Keys, ResolveOne(k)
      PROVE  outcome' = outcome /\ \A j \in Keys : ver[j] # None => ver'[j] # None
  <2>1. verdict.ts \in Nat
    BY Zenon DEF CommitInv, TypeOK
  <2>. QED
    BY Zenon, <1>1, <1>2, <2>1 DEF ResolveOne
<1>3. ASSUME NEW p \in Pushers, PushResolve(p)
      PROVE  outcome' = outcome /\ \A j \in Keys : ver[j] # None => ver'[j] # None
  <2>1. PICK k \in Keys : ResolveIntent(k, push[p].status, push[p].ts)
    BY Zenon, <1>3 DEF PushResolve, CommitInv, TypeOK
  <2>2. push[p].ts \in Nat
    BY Zenon DEF CommitInv, TypeOK
  <2>. QED
    BY Zenon, <1>1, <1>3, <2>1, <2>2 DEF PushResolve, coord
<1>4. ASSUME ~\E k \in Keys : ResolveOne(k), ~\E p \in Pushers : PushResolve(p) PROVE ver' = ver
  BY ZenonT(40), <1>4 DEF Next, vars, store, coord, Coordinator, Ranges, Rivals, BeginCommit, ReleaseWrites,
     WbDone, WbResend, WbRefresh, WbFail, GiveUp, ReturnImplicit, Settle, Abandon, AbortRecord,
     Finalize, AsyncFinalize, Stage, StageRefused, StageRetry, Land, Conflict, Read, Pushing,
     Push, Probe, Recover, PushAbandon, Crash
<1>. QED
  BY Zenon, <1>2, <1>3, <1>4

\* A decision is final, and the answer agrees with it.
LEMMA DecisionFinal ==
  ASSUME CommitInv, CommitInv', Plain, Plain', Undisturbed, Undisturbed', [Next]_vars
  PROVE  /\ Decision # "open" => Decision' = Decision
         /\ outcome = "error" => Decision' # "committed"
         /\ outcome' = "committed" => Decision' = "committed"
         /\ outcome' = "error" => Decision' # "committed"
<1>0. /\ Decision \in {"open", "committed", "aborted"}
      /\ Decision = "committed" <=> rec.status = "COMMITTED" \/ Implicit
      /\ Decision' = "committed" <=> rec'.status = "COMMITTED" \/ Implicit'
      /\ Decision = "aborted" <=> rec.status = "ABORTED"
      /\ Decision' = "aborted" <=> rec'.status = "ABORTED"
  BY Zenon DEF Decision, Implicit
<1>1. /\ Implicit <=> rec.status = "STAGING" /\ \A k \in Deferred : Arrived(k)
      /\ Implicit' <=> rec'.status = "STAGING" /\ \A k \in Deferred' : Arrived(k)'
  BY Zenon DEF Plain
<1>2. Deferred' = Deferred
  BY Zenon, EnvStays DEF Deferred
<1>3. Decision # "open" => Decision' = Decision
  <2>1. CASE rec.status \in Final
    BY <1>0, <2>1, FinalStays DEF Final
  <2>2. CASE Implicit
    BY Zenon, <1>0, <1>1, <1>2, <2>2, ImplicitStays DEF CommitInv
  <2>. QED
    BY Zenon, <1>0, <2>1, <2>2 DEF Final
<1>4. outcome' = "committed" => Decision' = "committed"
  BY Zenon, <1>0, <1>1 DEF CommitInv, CalmInv, Agreed
<1>5. outcome' = "error" => Decision' # "committed"
  <2>1. ASSUME rec'.status = "STAGING", Prevented' PROVE ~\A k \in Deferred' : Arrived(k)'
    BY Zenon, <2>1 DEF Plain
  <2>. QED
    BY Zenon, <1>0, <1>1, <2>1 DEF CommitInv, CalmInv, Agreed
<1>6. outcome = "error" => outcome' = "error"
  BY Zenon, ToldOnce DEF CommitInv
<1>. QED
  BY Zenon, <1>3, <1>4, <1>5, <1>6

\* A step of the model is a step of the atomic commit, or changes nothing of it.
LEMMA AtomicStep ==
  ASSUME CommitInv, CommitInv', Plain, Plain', [Next]_vars
  PROVE  [Abstract!ANext]_(Abstract!avars)
<1>0. env' = env /\ Keys' = Keys /\ (Undisturbed' <=> Undisturbed)
  BY Zenon, EnvStays DEF Keys, Deferred, Flushed, Undisturbed
<1>1. CASE ~Undisturbed
  BY Zenon, <1>0, <1>1 DEF Abstract!avars
<1>2. CASE Undisturbed
  <2>1. /\ Decision # "open" => Decision' = Decision
        /\ outcome = "error" => Decision' # "committed"
        /\ outcome' = "committed" => Decision' = "committed"
        /\ outcome' = "error" => Decision' # "committed"
    BY Zenon, <1>0, <1>2, DecisionFinal
  <2>2. /\ Decision' \in {"open", "committed", "aborted"}
        /\ outcome' \in {"none", "committed", "error"} /\ (outcome' = outcome \/ outcome = "none")
    BY ZenonT(40), <1>0, <1>2, ToldOnce DEF Decision, CommitInv, TypeOK
  <2>3. Answered = outcome /\ Answered' = outcome'
    BY Zenon, <1>0, <1>2 DEF Answered
  <2>4. CASE Applied' = Applied
    <3>1. \/ Decision' = Decision /\ Answered' = Answered
          \/ Abstract!ADecide \/ Abstract!AAnswer \/ Abstract!ADecideAndAnswer
      BY Zenon, <2>1, <2>2, <2>3, <2>4
      DEF Abstract!ADecide, Abstract!AAnswer, Abstract!ADecideAndAnswer, Abstract!Decide,
          Abstract!Told, Decision, Applied, Answered
    <3>. QED
      BY Zenon, <2>4, <3>1 DEF Abstract!ANext, Abstract!avars, Decision, Applied, Answered
  <2>5. CASE Applied' # Applied
    <3>1. ver' # ver
      BY Zenon, <1>0, <1>2, <2>5 DEF Applied
    <3>2. outcome' = outcome /\ \A k \in Keys : ver[k] # None => ver'[k] # None
      BY Zenon, <1>0, <1>2, <3>1, VersionsAdded
    <3>3. PICK K : K = {k \in Keys : ver'[k] # None}
      BY ZenonT(40)
    <3>4. K \subseteq AllKeys /\ Applied' = Applied \cup K
      BY <1>0, <1>2, <3>2, <3>3 DEF Applied, AllKeys, CommitInv, Keys, Deferred, Flushed
    <3>5. Decision = "committed"
      <4>1. PICK k \in Keys : ver'[k] # None
        BY Zenon, <1>0, <1>2, <2>5, <3>2 DEF Applied
      <4>2. rec.status = "COMMITTED"
        BY Zenon, <4>1, VersionsMade DEF CommitInv
      <4>. QED
        BY Zenon, <1>2, <4>2 DEF Decision
    <3>6. Abstract!AApply
      BY Zenon, <2>1, <2>3, <3>2, <3>4, <3>5 DEF Abstract!AApply, Decision, Applied, Answered
    <3>. QED
      BY Zenon, <3>6 DEF Abstract!ANext
  <2>. QED
    BY Zenon, <2>4, <2>5
<1>. QED
  BY Zenon, <1>1, <1>2

\* Undisturbed, the parallel commit implements an atomic commit, for any number
\* of keys, pushers and reads: the decision is made once, at the instant the
\* record is staged with every write in place or when a record is flipped; no
\* write shows before it; and the client's answer (txn.go parallelCommit) agrees.
THEOREM CommitIsAtomic == Spec => Atomic
<1>1. Init => Abstract!AInit
  BY DEF Init, Abstract!AInit, Implicit
<1>2. CommitInv /\ CommitInv' /\ Plain /\ Plain' /\ [Next]_vars => [Abstract!ANext]_(Abstract!avars)
  BY Zenon, AtomicStep
<1>. QED
  BY <1>1, <1>2, CommitInvariant, PlainHolds, PTL DEF Spec, Atomic, Abstract!ASpec
=============================================================================
