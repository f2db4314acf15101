---------------------------- MODULE LatchProofs ----------------------------
(***************************************************************************)
(* Proofs about the span latches, for every number of keys and requests    *)
(* and every set of batches: conflicting latches are never held together,  *)
(* and nobody waits for a latch that is gone. Serialized alone is not      *)
(* inductive: it needs the three structures of the manager to agree.       *)
(***************************************************************************)
EXTENDS Latch, TLAPS

\* The two indexes of latchManager list exactly the held latches they are for.
Indexed ==
  /\ held = {l \in Requests : pc[l] = "held"}
  /\ ranged = {l \in held : IsRanged(l)}
  /\ \A k \in Keys : points[k] = {l \in held : k \in PointsOf(l)}

\* The done channel a waiter selects on is still to be closed.
Awaited ==
  \A l \in Requests :
    pc[l] = "waiting" => wait[l] \in Requests /\ pc[wait[l]] \in {"held", "closing"}

\* What is inductive.
LatchInv == TypeOK /\ Indexed /\ Serialized

\* A point span is found under its key, and keys are what spans start with.
LEMMA PointFound ==
  ASSUME TypeOK, NEW l \in Requests, NEW s \in spans[l]
  PROVE  /\ s \in Spans /\ s.start \in Keys
         /\ s.end = NoEnd => s.start \in PointsOf(l)
<1>1. spans[l] = {} \/ spans[l] \in Batches
  BY DEF TypeOK
<1>2. s \in Spans
  BY <1>1, BatchesAssumption
<1>3. s.start \in Keys
  BY <1>2 DEF Spans, Points, Ranges
<1> QED BY <1>2, <1>3 DEF PointsOf

\* overlaps is symmetric, so it does not matter which latch came first.
LEMMA OverlapsSymmetric ==
  ASSUME NEW a \in Spans, NEW b \in Spans
  PROVE  overlaps(a, b) <=> overlaps(b, a)
BY DEF overlaps

\* findConflict misses nobody: through the index, the ranged holders or the
\* scan of all holders it meets every holder in the way.
LEMMA ConflictFound ==
  ASSUME TypeOK, Indexed, NEW l \in Requests, NEW h \in held,
         conflicts(l, h), Overlapping(h, l)
  PROVE  h \in findConflict(l)
<1>1. PICK hs \in spans[h], s \in spans[l] : overlaps(hs, s)
  BY DEF Overlapping
<1>2. h \in Requests
  BY DEF TypeOK
<1>3. CASE s.end # NoEnd
  BY <1>1, <1>3 DEF findConflict
<1>4. CASE s.end = NoEnd /\ hs.end = NoEnd
  <2>1. hs.start = s.start
    BY <1>1, <1>4 DEF overlaps
  <2>2. s.start \in Keys /\ s.start \in PointsOf(h)
    BY <1>2, <1>4, <2>1, PointFound
  <2>3. h \in points[s.start]
    BY <2>2 DEF Indexed
  <2> QED BY <1>4, <2>3 DEF findConflict
<1>5. CASE s.end = NoEnd /\ hs.end # NoEnd
  <2>1. h \in ranged
    BY <1>5 DEF Indexed, IsRanged
  <2> QED BY <1>1, <1>5, <2>1 DEF findConflict
<1> QED BY <1>3, <1>4, <1>5

\* Every step keeps the manager and the requests well formed.
LEMMA LatchTypeStep ==
  ASSUME TypeOK, Indexed, [Next]_vars
  PROVE  TypeOK'
<1> USE DEF TypeOK
<1>1. CASE UNCHANGED vars
  BY <1>1 DEF vars
<1>2. ASSUME NEW l \in Requests, NEW S \in Batches, NEW m \in Modes, Arrive(l, S, m)
      PROVE  TypeOK'
  BY <1>2 DEF Arrive, manager
<1>3. ASSUME NEW l \in Requests, Scan(l)
      PROVE  TypeOK'
  <2>1. CASE findConflict(l) = {} /\ insert(l) /\ pc' = [pc EXCEPT ![l] = "held"] /\ UNCHANGED wait
    BY <1>3, <2>1 DEF Scan, insert
  <2>2. ASSUME NEW h \in findConflict(l),
               pc' = [pc EXCEPT ![l] = "waiting"], wait' = [wait EXCEPT ![l] = h],
               UNCHANGED manager
        PROVE  TypeOK'
    <3>1. spans[l] \subseteq Spans
      BY PointFound
    <3>2. h \in Requests
      BY <3>1, PointFound DEF findConflict
    <3> QED BY <1>3, <2>2, <3>2 DEF Scan, manager
  <2> QED BY <1>3, <2>1, <2>2 DEF Scan
<1>4. ASSUME NEW l \in Requests, Cancel(l)
      PROVE  TypeOK'
  BY <1>4 DEF Cancel, manager
<1>5. ASSUME NEW l \in Requests, Release(l)
      PROVE  TypeOK'
  BY <1>5 DEF Release, remove
<1>6. ASSUME NEW l \in Requests, Close(l)
      PROVE  TypeOK'
  BY <1>6 DEF Close, manager
<1> QED BY <1>1, <1>2, <1>3, <1>4, <1>5, <1>6 DEF Next

\* insert and remove keep the indexes in step with the held latches, and no
\* request changes its spans while it is held.
LEMMA IndexedStep ==
  ASSUME TypeOK, Indexed, [Next]_vars
  PROVE  Indexed'
<1>1. CASE UNCHANGED vars
  BY <1>1 DEF Indexed, vars, IsRanged, PointsOf
<1>2. ASSUME NEW l \in Requests, NEW S \in Batches, NEW m \in Modes, Arrive(l, S, m)
      PROVE  Indexed'
  <2>1. l \notin held /\ UNCHANGED <<held, points, ranged>>
    BY <1>2 DEF Arrive, Indexed, manager
  <2>2. \A h \in held : h \in Requests /\ spans'[h] = spans[h]
    BY <1>2, <2>1 DEF Arrive, TypeOK
  <2>3. held' = {x \in Requests : pc'[x] = "held"}
    BY <1>2, <2>1 DEF Arrive, Indexed, TypeOK
  <2>4. \A h \in held : IsRanged(h)' = IsRanged(h) /\ PointsOf(h)' = PointsOf(h)
    BY <2>2 DEF IsRanged, PointsOf
  <2> QED BY <2>1, <2>3, <2>4 DEF Indexed
<1>3. ASSUME NEW l \in Requests, Scan(l)
      PROVE  Indexed'
  <2>1. CASE insert(l) /\ pc' = [pc EXCEPT ![l] = "held"]
    <3>1. \A h \in Requests : IsRanged(h)' = IsRanged(h) /\ PointsOf(h)' = PointsOf(h)
      BY <1>3 DEF Scan, IsRanged, PointsOf
    <3>2. l \notin held
      BY <1>3 DEF Scan, Indexed
    <3>3. held' = {x \in Requests : pc'[x] = "held"}
      BY <2>1 DEF insert, Indexed, TypeOK
    <3>4. ranged' = {x \in held' : IsRanged(x)}
      BY <2>1, <3>2 DEF insert, Indexed
    <3>5. \A k \in Keys : points'[k] = {x \in held' : k \in PointsOf(x)}
      BY <2>1, <3>2 DEF insert, Indexed
    <3>6. held' \subseteq Requests
      BY <3>3
    <3> QED BY <3>1, <3>3, <3>4, <3>5, <3>6 DEF Indexed
  <2>2. CASE pc' = [pc EXCEPT ![l] = "waiting"] /\ UNCHANGED manager
    BY <1>3, <2>2 DEF Scan, Indexed, TypeOK, manager, IsRanged, PointsOf
  <2> QED BY <1>3, <2>1, <2>2 DEF Scan
<1>4. ASSUME NEW l \in Requests, Cancel(l)
      PROVE  Indexed'
  BY <1>4 DEF Cancel, Indexed, TypeOK, manager, IsRanged, PointsOf
<1>5. ASSUME NEW l \in Requests, Release(l)
      PROVE  Indexed'
  <2>1. \A h \in Requests : IsRanged(h)' = IsRanged(h) /\ PointsOf(h)' = PointsOf(h)
    BY <1>5 DEF Release, IsRanged, PointsOf
  <2>2. held' = {x \in Requests : pc'[x] = "held"}
    BY <1>5 DEF Release, remove, Indexed, TypeOK
  <2>3. ranged' = {x \in held' : IsRanged(x)}
    BY <1>5 DEF Release, remove, Indexed
  <2>4. \A k \in Keys : points'[k] = {x \in held' : k \in PointsOf(x)}
    BY <1>5 DEF Release, remove, Indexed
  <2>5. held' \subseteq Requests
    BY <2>2
  <2> QED BY <2>1, <2>2, <2>3, <2>4, <2>5 DEF Indexed
<1>6. ASSUME NEW l \in Requests, Close(l)
      PROVE  Indexed'
  <2>1. UNCHANGED <<held, points, ranged, spans>>
    BY <1>6 DEF Close, manager
  <2>2. \A x \in Requests : pc'[x] = "held" <=> pc[x] = "held"
    BY <1>6 DEF Close, Woken, TypeOK
  <2> QED BY <2>1, <2>2 DEF Indexed, IsRanged, PointsOf
<1> QED BY <1>1, <1>2, <1>3, <1>4, <1>5, <1>6 DEF Next

\* Only Scan puts a latch among the held ones, and it has met every holder in
\* the way.
LEMMA SerializedStep ==
  ASSUME LatchInv, [Next]_vars
  PROVE  Serialized'
<1> USE DEF LatchInv
<1>1. CASE UNCHANGED vars
  BY <1>1 DEF Serialized, vars, conflicts, Overlapping
<1>2. ASSUME NEW l \in Requests, NEW S \in Batches, NEW m \in Modes, Arrive(l, S, m)
      PROVE  Serialized'
  <2>1. l \notin held /\ held' = held
    BY <1>2 DEF Arrive, Indexed, manager
  <2>2. \A h \in held : spans'[h] = spans[h] /\ mode'[h] = mode[h]
    BY <1>2, <2>1 DEF Arrive, TypeOK
  <2> QED BY <2>1, <2>2 DEF Serialized, conflicts, Overlapping
<1>3. ASSUME NEW l \in Requests, Scan(l)
      PROVE  Serialized'
  <2>0. UNCHANGED <<spans, mode>>
    BY <1>3 DEF Scan
  <2>1. CASE findConflict(l) = {} /\ insert(l)
    <3> SUFFICES ASSUME NEW a \in held', NEW b \in held', a # b, conflicts(a, b)
                 PROVE  ~Overlapping(a, b)
      BY <2>0 DEF Serialized, conflicts, Overlapping
    <3>1. \A h \in held : conflicts(l, h) => ~Overlapping(h, l)
      BY <2>1, ConflictFound
    <3>2. CASE a \in held /\ b \in held
      BY <3>2 DEF Serialized
    <3>3. CASE a \in held /\ b = l
      BY <3>1, <3>3 DEF conflicts
    <3>4. CASE a = l /\ b \in held
      <4>1. ~Overlapping(b, a)
        BY <3>1, <3>4
      <4>2. \A s \in spans[a], t \in spans[b] : overlaps(s, t) <=> overlaps(t, s)
        BY <3>4, PointFound, OverlapsSymmetric DEF TypeOK
      <4> QED BY <4>1, <4>2 DEF Overlapping
    <3> QED BY <2>1, <3>2, <3>3, <3>4 DEF insert
  <2>2. CASE UNCHANGED manager
    BY <2>0, <2>2 DEF Serialized, conflicts, Overlapping, manager
  <2> QED BY <1>3, <2>1, <2>2 DEF Scan
<1>4. ASSUME NEW l \in Requests, Cancel(l) \/ Close(l)
      PROVE  Serialized'
  BY <1>4 DEF Cancel, Close, Serialized, conflicts, Overlapping, manager
<1>5. ASSUME NEW l \in Requests, Release(l)
      PROVE  Serialized'
  BY <1>5 DEF Release, remove, Serialized, conflicts, Overlapping
<1> QED BY <1>1, <1>2, <1>3, <1>4, <1>5 DEF Next

\* The indexes of the latch manager stay exact for every batch that comes and
\* goes (latch.go: insert, remove).
THEOREM LatchesIndexed == Spec => [](TypeOK /\ Indexed)
<1>1. Init => TypeOK /\ Indexed
  BY DEF Init, TypeOK, Indexed, Modes, IsRanged, PointsOf
<1> QED BY <1>1, LatchTypeStep, IndexedStep, PTL DEF Spec

\* Two overlapping latches, one of them exclusive, are never held together: what
\* runs under a latch is serialized (latch.go, the first half of L1).
THEOREM LatchesSerialize == Spec => []Serialized
<1>1. Init => LatchInv
  BY DEF Init, LatchInv, TypeOK, Indexed, Serialized, Modes, IsRanged, PointsOf
<1>2. LatchInv /\ [Next]_vars => LatchInv'
  BY LatchTypeStep, IndexedStep, SerializedStep DEF LatchInv
<1>3. LatchInv => Serialized
  BY DEF LatchInv
<1> QED BY <1>1, <1>2, <1>3, PTL DEF Spec
----------------------------------------------------------------------------
\* A waiter's holder leaves "held" only for "closing", and "closing" only by
\* waking all of its waiters.
LEMMA AwaitedStep ==
  ASSUME TypeOK, Indexed, Awaited, [Next]_vars
  PROVE  Awaited'
<1>1. CASE UNCHANGED vars
  BY <1>1 DEF Awaited, vars
<1>2. ASSUME NEW l \in Requests, NEW S \in Batches, NEW m \in Modes, Arrive(l, S, m)
      PROVE  Awaited'
  BY <1>2 DEF Arrive, Awaited, TypeOK
<1>3. ASSUME NEW l \in Requests, Scan(l)
      PROVE  Awaited'
  <2>1. CASE pc' = [pc EXCEPT ![l] = "held"] /\ UNCHANGED wait
    BY <1>3, <2>1 DEF Scan, Awaited, TypeOK
  <2>2. ASSUME NEW h \in findConflict(l),
               pc' = [pc EXCEPT ![l] = "waiting"], wait' = [wait EXCEPT ![l] = h]
        PROVE  Awaited'
    <3>1. h \in held
      <4>1. PICK s \in spans[l] : h \in held \cup points[s.start] \cup ranged /\ s.start \in Keys
        BY PointFound DEF findConflict
      <4> QED BY <4>1 DEF Indexed
    <3>2. h \in Requests /\ pc[h] = "held" /\ h # l
      BY <1>3, <3>1 DEF Indexed, Scan
    <3> QED BY <1>3, <2>2, <3>2 DEF Scan, Awaited, TypeOK
  <2> QED BY <1>3, <2>1, <2>2 DEF Scan
<1>4. ASSUME NEW l \in Requests, Cancel(l)
      PROVE  Awaited'
  BY <1>4 DEF Cancel, Awaited, TypeOK
<1>5. ASSUME NEW l \in Requests, Release(l)
      PROVE  Awaited'
  BY <1>5 DEF Release, Awaited, TypeOK
<1>6. ASSUME NEW l \in Requests, Close(l)
      PROVE  Awaited'
  <2> SUFFICES ASSUME NEW x \in Requests, pc'[x] = "waiting"
               PROVE  wait'[x] \in Requests /\ pc'[wait'[x]] \in {"held", "closing"}
    BY DEF Awaited
  <2>1. pc[x] = "waiting" /\ x \notin Woken(l) /\ x # l
    BY <1>6 DEF Close, Woken, TypeOK
  <2>2. wait'[x] = wait[x] /\ wait[x] # l
    BY <1>6, <2>1 DEF Close, Woken, TypeOK
  <2>3. pc[wait[x]] \in {"held", "closing"} /\ wait[x] \in Requests
    BY <2>1 DEF Awaited
  <2>4. wait[x] \notin Woken(l)
    BY <2>3 DEF Woken
  <2> QED BY <1>6, <2>2, <2>3, <2>4 DEF Close
<1> QED BY <1>1, <1>2, <1>3, <1>4, <1>5, <1>6 DEF Next

\* No wakeup is lost: a request waits only for a latch that is held, or whose
\* Release has still to close its channel, although the scan and the select are
\* separate steps (latch.go: Acquire, Release).
THEOREM NoLostWakeup == Spec => []Awaited
<1>1. Init => Awaited
  BY DEF Init, Awaited
<1> QED BY <1>1, AwaitedStep, LatchesIndexed, PTL DEF Spec
=============================================================================
