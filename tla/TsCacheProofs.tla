--------------------------- MODULE TsCacheProofs ---------------------------
(***************************************************************************)
(* Proofs about the timestamp cache, for every size of range, generation   *)
(* and batch: it is type correct, it forgets no read, and it implements    *)
(* ReadProtection. NoReadForgotten and TypeOK together are inductive.      *)
(***************************************************************************)
EXTENDS TsCache, TLAPS, FiniteSetTheorems

\* Overlap does not depend on the order of the spans.
LEMMA OverlapSymmetric ==
  ASSUME NEW a \in Spans, NEW b \in Spans
  PROVE  spansOverlap(a, b) <=> spansOverlap(b, a)
BY DEF spansOverlap

\* A span is a record of two numbers; a point read's span is its key alone.
LEMMA SpanType ==
  ASSUME NEW s \in Spans
  PROVE  /\ s.start \in Keys
         /\ s.end = NoEnd => s = [start |-> s.start, end |-> NoEnd]
BY DEF Spans, Points, Ranges

\* record keeps the newest read, and of two readers at one timestamp neither.
LEMMA RecordProperty ==
  ASSUME NEW old \in [ts : Nat, txn : Readers], NEW ts \in Nat, NEW txn \in Readers
  PROVE  LET e == record(old, ts, txn)
         IN  /\ e \in [ts : Nat, txn : Readers]
             /\ old.ts <= e.ts /\ ts <= e.ts
             /\ e.ts = old.ts => e.txn = old.txn \/ e.txn = NoTxn
             /\ e.ts = ts => e.txn = txn \/ e.txn = NoTxn
BY DEF record, Readers

\* The generation after a batch is recorded is well formed.
LEMMA RecordedType ==
  ASSUME cur \in Gen, NEW spans \in Batches, NEW ts \in Times, NEW txn \in Readers
  PROVE  Recorded(spans, ts, txn) \in Gen
<1> DEFINE hit   == {k \in Keys : [start |-> k, end |-> NoEnd] \in spans}
           wide  == {s \in spans : s.end # NoEnd /\ s # WholeRange}
           fresh == {k \in hit : cur.points[k] = NoRead}
<1>1. Cardinality(fresh) \in Nat
  <2>1. IsFiniteSet(Keys)
    BY NumKeysAssumption, FS_Interval DEF Keys
  <2> QED BY <2>1, FS_Subset, FS_CardinalityType
<1>2. Cardinality(wide) \in Nat
  <2>1. IsFiniteSet(spans)
    BY DEF Batches
  <2> QED BY <2>1, FS_Subset, FS_CardinalityType
<1>3. \A k \in Keys : record(cur.points[k], ts, txn) \in [ts : Nat, txn : Readers]
  BY RecordProperty, TimesAssumption DEF Gen
<1>4. {[span |-> s, ts |-> ts, txn |-> txn] : s \in wide} \in SUBSET Entry
  BY TimesAssumption DEF Entry, Batches
<1> HIDE DEF fresh, wide
<1>5. cur.n + Cardinality(fresh) + Cardinality(wide) \in Nat
  BY <1>1, <1>2 DEF Gen
<1> USE DEF fresh, wide
<1> QED BY <1>3, <1>4, <1>5 DEF Recorded, Gen

\* What the collapse of a generation leaves as floor: nothing of the generation,
\* nor the floor it started from, is above it.
LEMMA StampsType ==
  ASSUME NEW gen \in Gen
  PROVE  Stamps(gen) \subseteq Nat
BY DEF Stamps, Gen, Entry

\* Every step keeps the cache and its history well formed.
LEMMA TypeStep ==
  ASSUME TypeOK, [Next]_vars
  PROVE  TypeOK'
<1>1. CASE UNCHANGED vars
  BY <1>1 DEF TypeOK, vars
<1>2. ASSUME NEW spans \in Batches, NEW ts \in Times, NEW txn \in Readers,
             ServeRead(spans, ts, txn)
      PROVE  TypeOK'
  <2>1. Recorded(spans, ts, txn) \in Gen
    BY RecordedType DEF TypeOK
  <2>2. EmptyGen \in Gen
    BY DEF EmptyGen, Gen, NoRead, Readers
  <2>3. Raised(spans, ts) \in Nat
    BY TimesAssumption DEF Raised, TypeOK
  <2>4. Stamps(prev) \subseteq Nat
    BY StampsType DEF TypeOK
  <2>5. floor' \in Nat /\ cur' \in Gen /\ prev' \in Gen
    BY <1>2, <2>1, <2>2, <2>3, <2>4 DEF ServeRead, Bump, cache, TypeOK
  <2>6. {[span |-> s, ts |-> ts, txn |-> txn] : s \in spans} \in SUBSET Entry
    BY TimesAssumption DEF Entry, Batches
  <2> QED BY <1>2, <2>5, <2>6 DEF ServeRead, TypeOK
<1>3. ASSUME NEW spans \in Batches, NEW ts \in Times, NEW txn \in Readers,
             AdmitWrite(spans, ts, txn)
      PROVE  TypeOK'
  <2>1. {floor} \cup Stamps(cur) \cup Stamps(prev) \subseteq Nat
    BY StampsType DEF TypeOK
  <2>2. \A t \in Nat \ {0} :
          {[span |-> s, ts |-> t, txn |-> txn] : s \in spans} \in SUBSET Entry
    BY DEF Entry, Batches
  <2>3. wrote' \in SUBSET Entry
    BY <1>3, <2>1, <2>2, TimesAssumption DEF AdmitWrite
  <2> QED BY <1>3, <2>3 DEF AdmitWrite, TypeOK
<1> QED BY <1>1, <1>2, <1>3 DEF Next

\* The cache and its history are well formed in every reachable state.
THEOREM TypeCorrect == Spec => []TypeOK
<1>1. Init => TypeOK
  BY DEF Init, TypeOK, EmptyGen, Gen, NoRead, Readers
<1> QED BY <1>1, TypeStep, PTL DEF Spec
----------------------------------------------------------------------------
\* Recording a batch forgets nothing the generation held.
LEMMA RecordedKeeps ==
  ASSUME TypeOK, NEW spans \in Batches, NEW ts \in Times, NEW txn \in Readers,
         NEW r \in Entry, Remembers(cur, r)
  PROVE  Remembers(Recorded(spans, ts, txn), r)
<1>1. CASE r.span.end # NoEnd
  BY <1>1 DEF Remembers, Recorded
<1>2. CASE r.span.end = NoEnd
  <2> DEFINE k   == r.span.start
             gen == Recorded(spans, ts, txn)
             old == cur.points[k]
  <2>1. k \in Keys
    BY SpanType DEF Entry
  <2>2. gen.points[k] = record(old, ts, txn) \/ gen.points[k] = old
    BY <2>1 DEF Recorded
  <2>3. old \in [ts : Nat, txn : Readers] /\ ts \in Nat /\ r.ts \in Nat
    BY <2>1, TimesAssumption DEF TypeOK, Gen, Entry
  <2>4. r.ts < old.ts \/ (r.ts = old.ts /\ (old.txn = r.txn \/ old.txn = NoTxn))
    BY <1>2 DEF Remembers
  <2>5. CASE gen.points[k] = old
    BY <1>2, <2>4, <2>5 DEF Remembers
  <2>6. CASE gen.points[k] = record(old, ts, txn)
    <3> DEFINE e == record(old, ts, txn)
    <3>1. /\ e \in [ts : Nat, txn : Readers] /\ old.ts <= e.ts
          /\ e.ts = old.ts => e.txn = old.txn \/ e.txn = NoTxn
      BY <2>3, RecordProperty
    <3> HIDE DEF e
    <3>2. r.ts < e.ts \/ (r.ts = e.ts /\ (e.txn = r.txn \/ e.txn = NoTxn))
      BY <2>3, <2>4, <3>1
    <3> USE DEF e
    <3> QED BY <1>2, <2>6, <3>2 DEF Remembers
  <2> QED BY <2>2, <2>5, <2>6
<1> QED BY <1>1, <1>2

\* Recording a batch remembers each of its reads, or raises the floor to it.
LEMMA RecordedAdds ==
  ASSUME TypeOK, NEW spans \in Batches, NEW ts \in Times, NEW txn \in Readers,
         NEW s \in spans
  PROVE  \/ Remembers(Recorded(spans, ts, txn), [span |-> s, ts |-> ts, txn |-> txn])
         \/ Raised(spans, ts) = ts
<1> DEFINE r == [span |-> s, ts |-> ts, txn |-> txn]
           k == s.start
<1>0. s \in Spans /\ k \in Keys /\ ts \in Nat
  BY SpanType, TimesAssumption DEF Batches
<1>1. CASE s = WholeRange
  BY <1>1 DEF Raised
<1>2. CASE s # WholeRange /\ s.end # NoEnd
  BY <1>2 DEF Remembers, Recorded
<1>3. CASE s.end = NoEnd
  <2>1. s = [start |-> k, end |-> NoEnd]
    BY <1>0, <1>3, SpanType
  <2>2. Recorded(spans, ts, txn).points[k] = record(cur.points[k], ts, txn)
    BY <1>0, <2>1 DEF Recorded
  <2> DEFINE e == record(cur.points[k], ts, txn)
  <2>3. cur.points[k] \in [ts : Nat, txn : Readers]
    BY <1>0 DEF TypeOK, Gen
  <2>4. e.ts \in Nat /\ ts <= e.ts /\ (e.ts = ts => e.txn = txn \/ e.txn = NoTxn)
    BY <1>0, <2>3, RecordProperty
  <2> HIDE DEF e
  <2>5. ts < e.ts \/ (ts = e.ts /\ (e.txn = txn \/ e.txn = NoTxn))
    BY <1>0, <2>4
  <2> USE DEF e
  <2> QED BY <1>3, <2>2, <2>5 DEF Remembers
<1> QED BY <1>1, <1>2, <1>3

\* A read some generation remembers is at or below one of its timestamps.
LEMMA RememberedStamp ==
  ASSUME NEW gen \in Gen, NEW r \in Entry, Remembers(gen, r)
  PROVE  \E t \in Stamps(gen) : r.ts <= t
<1>1. CASE r.span.end = NoEnd
  BY <1>1, SpanType DEF Remembers, Stamps, Gen, Entry
<1>2. CASE r.span.end # NoEnd
  BY <1>2 DEF Remembers, Stamps, Entry
<1> QED BY <1>1, <1>2

\* A batch's bump keeps every read remembered or under the floor.
LEMMA RememberStep ==
  ASSUME TypeOK, NoReadForgotten, [Next]_vars
  PROVE  NoReadForgotten'
<1>1. CASE UNCHANGED vars
  BY <1>1 DEF NoReadForgotten, Remembers, vars
<1>2. ASSUME NEW spans \in Batches, NEW ts \in Times, NEW txn \in Readers,
             ServeRead(spans, ts, txn), NEW r \in reads'
      PROVE  r.ts <= floor' \/ Remembers(cur', r) \/ Remembers(prev', r)
  <2> DEFINE gen == Recorded(spans, ts, txn)
             new == {[span |-> s, ts |-> ts, txn |-> txn] : s \in spans}
  <2>0. ts \in Nat /\ floor \in Nat /\ r \in Entry /\ r.ts \in Nat
    <3>1. new \subseteq Entry
      BY TimesAssumption DEF Entry, Batches
    <3> QED BY <1>2, <3>1, TimesAssumption DEF ServeRead, TypeOK, Entry
  <2>1. CASE ~(floor < ts)
    <3>1. UNCHANGED <<floor, cur, prev>>
      BY <1>2, <2>1 DEF ServeRead, Bump, cache
    <3>2. CASE r \in reads
      BY <3>1, <3>2 DEF NoReadForgotten
    <3>3. CASE r \in new
      BY <2>0, <2>1, <3>1, <3>3
    <3> QED BY <1>2, <3>2, <3>3 DEF ServeRead
  <2>2. CASE floor < ts
    <3>1. floor <= Raised(spans, ts) /\ Raised(spans, ts) \in Nat
      BY <2>0, <2>2 DEF Raised
    <3>2. r.ts <= Raised(spans, ts) \/ Remembers(gen, r) \/ Remembers(prev, r)
      <4>1. CASE r \in reads
        <5>1. CASE r.ts <= floor
          BY <2>0, <3>1, <5>1
        <5>2. CASE Remembers(cur, r)
          BY <2>0, <5>2, RecordedKeeps
        <5> QED BY <4>1, <5>1, <5>2 DEF NoReadForgotten
      <4>2. CASE r \in new
        <5>1. PICK s \in spans : r = [span |-> s, ts |-> ts, txn |-> txn]
          BY <4>2
        <5>2. Remembers(gen, r) \/ Raised(spans, ts) = ts
          BY <5>1, RecordedAdds
        <5> QED BY <2>0, <5>1, <5>2
      <4> QED BY <1>2, <4>1, <4>2 DEF ServeRead
    <3>3. CASE ~Full(gen.n)
      <4>1. floor' = Raised(spans, ts) /\ cur' = gen /\ prev' = prev
        BY <1>2, <2>2, <3>3 DEF ServeRead, Bump
      <4> QED BY <3>2, <4>1
    <3>4. CASE Full(gen.n)
      <4>1. Collapsed(Raised(spans, ts), prev, floor') /\ prev' = gen /\ cur' = EmptyGen
        BY <1>2, <2>2, <3>4 DEF ServeRead, Bump
      <4>2. Raised(spans, ts) <= floor' /\ \A t \in Stamps(prev) : t <= floor'
        BY <4>1 DEF Collapsed
      <4>3. Stamps(prev) \subseteq Nat /\ floor' \in Nat
        BY <3>1, <4>1, StampsType DEF Collapsed, TypeOK
      <4>4. CASE r.ts <= Raised(spans, ts)
        BY <2>0, <3>1, <4>2, <4>3, <4>4
      <4>5. CASE Remembers(gen, r)
        BY <4>1, <4>5
      <4>6. CASE Remembers(prev, r)
        <5>1. PICK t \in Stamps(prev) : r.ts <= t
          BY <2>0, <4>6, RememberedStamp DEF TypeOK
        <5> QED BY <2>0, <4>2, <4>3, <5>1
      <4> QED BY <3>2, <4>4, <4>5, <4>6
    <3> QED BY <3>3, <3>4
  <2> QED BY <2>1, <2>2
<1>3. ASSUME NEW spans \in Batches, NEW ts \in Times, NEW txn \in Readers,
             AdmitWrite(spans, ts, txn)
      PROVE  NoReadForgotten'
  BY <1>3 DEF AdmitWrite, NoReadForgotten, Remembers
<1> QED BY <1>1, <1>2, <1>3 DEF Next, NoReadForgotten, Remembers

\* No read is ever forgotten by the cache, for any range, generation size and
\* batch (kvserver/tscache.go Bump).
THEOREM ReadsRemembered == Spec => []NoReadForgotten
<1>1. Init => NoReadForgotten
  BY DEF Init, NoReadForgotten
<1> QED BY <1>1, RememberStep, TypeCorrect, PTL DEF Spec
----------------------------------------------------------------------------
\* A remembered read that a write overlaps is among the entries the write is
\* checked against, as itself or as a newer or unattributed one.
LEMMA RememberedIsChecked ==
  ASSUME TypeOK, NEW gen \in Generations, NEW r \in Entry, Remembers(gen, r),
         NEW w \in Spans, spansOverlap(w, r.span)
  PROVE  \E e \in Overlapping(w) :
           /\ e \in [ts : Nat, txn : Readers]
           /\ \/ r.ts < e.ts
              \/ r.ts = e.ts /\ (e.txn = r.txn \/ e.txn = NoTxn)
<1>0. gen \in Gen /\ r.span \in Spans /\ spansOverlap(r.span, w)
  BY OverlapSymmetric DEF TypeOK, Generations, Entry
<1>1. CASE r.span.end = NoEnd
  <2> DEFINE k == r.span.start
             e == gen.points[k]
  <2>1. k \in Keys /\ r.span = [start |-> k, end |-> NoEnd]
    BY <1>0, <1>1, SpanType
  <2>2. e \in [ts : Nat, txn : Readers]
    BY <1>0, <2>1 DEF Gen
  <2>3. r.ts < e.ts \/ (r.ts = e.ts /\ (e.txn = r.txn \/ e.txn = NoTxn))
    BY <1>1 DEF Remembers
  <2>4. e # NoRead
    BY <2>2, <2>3 DEF NoRead, Entry
  <2>5. e \in Overlapping(w)
    BY <1>0, <2>1, <2>4 DEF Overlapping
  <2> QED BY <2>2, <2>3, <2>5
<1>2. CASE r.span.end # NoEnd
  <2>1. r \in gen.ranged
    BY <1>2 DEF Remembers
  <2> DEFINE e == [ts |-> r.ts, txn |-> r.txn]
  <2>2. e \in Overlapping(w)
    BY <1>0, <2>1 DEF Overlapping
  <2>3. e \in [ts : Nat, txn : Readers]
    BY DEF Entry
  <2> QED BY <2>2, <2>3
<1> QED BY <1>1, <1>2

\* A write AllowsWrite admits invalidates no read served before it.
LEMMA AllowedIsSafe ==
  ASSUME TypeOK, NoReadForgotten, NEW spans \in Batches, NEW ts \in Times,
         NEW txn \in Readers, AllowsWrite(spans, ts, txn),
         NEW s \in spans, NEW r \in reads
  PROVE  ~Protection!Invalidates([span |-> s, ts |-> ts, txn |-> txn], r)
<1> SUFFICES ASSUME spansOverlap(s, r.span)
             PROVE  ~(ts < r.ts \/ (ts = r.ts /\ (txn = NoTxn \/ txn # r.txn)))
  BY DEF Protection!Invalidates
<1>0. /\ r \in Entry /\ r.ts \in Nat /\ ts \in Nat /\ floor \in Nat /\ s \in Spans
      /\ floor < ts
  BY TimesAssumption DEF TypeOK, Entry, Batches, AllowsWrite
<1>1. CASE r.ts <= floor
  BY <1>0, <1>1
<1>2. ASSUME NEW gen \in Generations, Remembers(gen, r)
      PROVE  ~(ts < r.ts \/ (ts = r.ts /\ (txn = NoTxn \/ txn # r.txn)))
  <2>1. PICK e \in Overlapping(s) :
          /\ e \in [ts : Nat, txn : Readers]
          /\ \/ r.ts < e.ts
             \/ r.ts = e.ts /\ (e.txn = r.txn \/ e.txn = NoTxn)
    BY <1>0, <1>2, RememberedIsChecked
  <2>2. ~(ts < e.ts \/ (ts = e.ts /\ (txn = NoTxn \/ txn # e.txn)))
    BY DEF AllowsWrite
  <2> QED BY <1>0, <2>1, <2>2
<1> QED BY <1>1, <1>2 DEF NoReadForgotten, Generations

\* A write pushed just above what refused it invalidates no read either.
LEMMA PushedIsSafe ==
  ASSUME TypeOK, NoReadForgotten, NEW spans \in Batches, NEW txn \in Readers,
         NEW l \in Nat, IsLow(spans, l), NEW s \in spans, NEW r \in reads
  PROVE  ~Protection!Invalidates([span |-> s, ts |-> l + 1, txn |-> txn], r)
<1> SUFFICES ASSUME spansOverlap(s, r.span)
             PROVE  r.ts <= l
  BY DEF Protection!Invalidates, TypeOK, Entry
<1>0. r \in Entry /\ r.ts \in Nat /\ floor \in Nat /\ s \in Spans /\ floor <= l
  BY DEF TypeOK, Entry, Batches, IsLow
<1>1. CASE r.ts <= floor
  BY <1>0, <1>1
<1>2. ASSUME NEW gen \in Generations, Remembers(gen, r)
      PROVE  r.ts <= l
  <2>1. PICK e \in Overlapping(s) :
          e \in [ts : Nat, txn : Readers] /\ r.ts <= e.ts
    BY <1>0, <1>2, RememberedIsChecked
  <2>2. e.ts <= l
    BY DEF IsLow
  <2> QED BY <1>0, <2>1, <2>2
<1> QED BY <1>1, <1>2 DEF NoReadForgotten, Generations

\* The cache implements ReadProtection: no write the range admits, at its own
\* timestamp or pushed, ever invalidates a read it served.
THEOREM CacheProtects == Spec => Protects
<1>1. Init => Protection!RInit
  BY DEF Init, Protection!RInit
<1>2. ASSUME TypeOK, NoReadForgotten, [Next]_vars
      PROVE  [Protection!RNext]_(Protection!rvars)
  <2>1. CASE UNCHANGED vars
    BY <2>1 DEF vars, Protection!rvars
  <2>2. ASSUME NEW spans \in Batches, NEW ts \in Times, NEW txn \in Readers,
               ServeRead(spans, ts, txn)
        PROVE  Protection!RServe
    BY <2>2 DEF ServeRead, Protection!RServe
  <2>3. ASSUME NEW spans \in Batches, NEW ts \in Times, NEW txn \in Readers,
               AdmitWrite(spans, ts, txn)
        PROVE  Protection!RAdmit
    <3>1. {floor} \cup Stamps(cur) \cup Stamps(prev) \subseteq Nat
      BY <1>2, StampsType DEF TypeOK
    <3>2. ASSUME NEW w \in wrote', NEW r \in reads
          PROVE  ~Protection!Invalidates(w, r)
      <4>1. CASE AllowsWrite(spans, ts, txn)
        <5>1. PICK s \in spans : w = [span |-> s, ts |-> ts, txn |-> txn]
          BY <2>3, <4>1 DEF AdmitWrite
        <5> QED BY <1>2, <4>1, <5>1, AllowedIsSafe
      <4>2. CASE ~AllowsWrite(spans, ts, txn)
        <5>1. PICK l \in Nat, s \in spans :
                IsLow(spans, l) /\ w = [span |-> s, ts |-> l + 1, txn |-> txn]
          BY <2>3, <3>1, <4>2 DEF AdmitWrite
        <5> QED BY <1>2, <5>1, PushedIsSafe
      <4> QED BY <4>1, <4>2
    <3> QED BY <2>3, <3>2 DEF AdmitWrite, Protection!RAdmit
  <2> QED BY <1>2, <2>1, <2>2, <2>3 DEF Next, Protection!RNext
<1> QED BY <1>1, <1>2, TypeCorrect, ReadsRemembered, PTL
        DEF Spec, Protects, Protection!RSpec
=============================================================================
