------------------------------ MODULE TsCache ------------------------------
(***************************************************************************)
(* The timestamp cache of one range (kvserver/tscache.go): a range-wide    *)
(* floor and two generations of reads, rotated when the current one fills. *)
(* Keys are numbered; the whole range is the span 0 .. NumKeys.            *)
(***************************************************************************)
EXTENDS Integers, FiniteSets

CONSTANTS NumKeys,      \* keys 0 .. NumKeys-1
          GenSize,      \* tsCacheGenerationSize
          Times,        \* timestamps requests carry
          Txns, NoTxn,  \* transaction IDs, and uuid.Nil
          MaxSpans      \* most spans one batch names

ASSUME NumKeysAssumption == NumKeys \in Nat \ {0}
ASSUME GenSizeAssumption == GenSize \in Nat \ {0}
ASSUME TimesAssumption   == Times \subseteq Nat \ {0}
ASSUME NoTxnAssumption   == NoTxn \notin Txns
ASSUME MaxSpansAssumption == MaxSpans \in Nat \ {0}

VARIABLES floor, cur, prev,   \* tsCache: the floor and the two generations
          reads, wrote        \* history: reads served, the write admitted last

cache == <<floor, cur, prev>>
vars  == <<floor, cur, prev, reads, wrote>>

Keys   == 0 .. NumKeys - 1
NoEnd  == 0                    \* a nil End: the span is the single key Start
Points == [start : Keys, end : {NoEnd}]
Ranges == {s \in [start : Keys, end : 1 .. NumKeys] : s.start < s.end}
Spans  == Points \cup Ranges
WholeRange == [start |-> 0, end |-> NumKeys]
Readers == Txns \cup {NoTxn}

spansOverlap(a, b) ==
  \/ a.end = NoEnd /\ b.end = NoEnd /\ a.start = b.start
  \/ a.end = NoEnd /\ b.end # NoEnd /\ b.start <= a.start /\ a.start < b.end
  \/ a.end # NoEnd /\ b.end = NoEnd /\ a.start <= b.start /\ b.start < a.end
  \/ a.end # NoEnd /\ b.end # NoEnd /\ a.start < b.end /\ b.start < a.end

(***************************************************************************)
(* A generation: the newest read of each key (timestamp 0: none), the      *)
(* ranged reads, and the number of entries it holds.                       *)
(***************************************************************************)
NoRead   == [ts |-> 0, txn |-> NoTxn]
EmptyGen == [points |-> [k \in Keys |-> NoRead], ranged |-> {}, n |-> 0]

Entry == [span : Spans, ts : Nat \ {0}, txn : Readers]
Gen   == [points : [Keys -> [ts : Nat, txn : Readers]],
          ranged : SUBSET Entry, n : Nat]

record(old, ts, txn) ==
  IF old.ts < ts THEN [ts |-> ts, txn |-> txn]
  ELSE IF old.ts = ts /\ old.txn # txn THEN [ts |-> ts, txn |-> NoTxn]
  ELSE old

Recorded(spans, ts, txn) ==
  LET hit   == {k \in Keys : [start |-> k, end |-> NoEnd] \in spans}
      wide  == {s \in spans : s.end # NoEnd /\ s # WholeRange}
      fresh == {k \in hit : cur.points[k] = NoRead}
  IN  [points |-> [k \in Keys |-> IF k \in hit THEN record(cur.points[k], ts, txn)
                                  ELSE cur.points[k]],
       ranged |-> cur.ranged \cup {[span |-> s, ts |-> ts, txn |-> txn] : s \in wide},
       n      |-> cur.n + Cardinality(fresh) + Cardinality(wide)]

Raised(spans, ts) == IF WholeRange \in spans THEN ts ELSE floor

Stamps(gen) == {gen.points[k].ts : k \in Keys} \cup {e.ts : e \in gen.ranged}

Collapsed(f, gen, g) ==
  /\ g \in {f} \cup Stamps(gen)
  /\ \A t \in {f} \cup Stamps(gen) : t <= g

\* Whether the current generation is full after a batch.
Full(n) == n >= GenSize

Bump(spans, ts, txn) ==
  IF ~(floor < ts)
  THEN UNCHANGED cache
  ELSE LET gen == Recorded(spans, ts, txn)
       IN  IF Full(gen.n)
           THEN /\ \E g \in {Raised(spans, ts)} \cup Stamps(prev) :
                     /\ Collapsed(Raised(spans, ts), prev, g)
                     /\ floor' = g
                /\ prev' = gen
                /\ cur' = EmptyGen
           ELSE /\ floor' = Raised(spans, ts)
                /\ cur' = gen
                /\ prev' = prev

(***************************************************************************)
(* The entries a write is checked against: ranged entries that overlap it  *)
(* and the point reads inside it, of both generations.                     *)
(***************************************************************************)
OneGeneration == {cur}                 \* seeded fault: the older generation is not searched
Generations == {cur, prev}

Overlapping(w) ==
  UNION {{[ts |-> e.ts, txn |-> e.txn] :
             e \in {x \in gen.ranged : spansOverlap(x.span, w)}}
         \cup {gen.points[k] :
             k \in {x \in Keys : gen.points[x] # NoRead
                                 /\ spansOverlap([start |-> x, end |-> NoEnd], w)}}
         : gen \in Generations}

AllowsWrite(spans, ts, txn) ==
  /\ floor < ts
  /\ \A w \in spans : \A e \in Overlapping(w) :
       ~(ts < e.ts \/ (ts = e.ts /\ (txn = NoTxn \/ txn # e.txn)))

\* The timestamp AllowsWrite tells a refused writer it must exceed.
IsLow(spans, l) ==
  /\ l \in {floor} \cup UNION {{e.ts : e \in Overlapping(w)} : w \in spans}
  /\ floor <= l
  /\ \A w \in spans : \A e \in Overlapping(w) : e.ts <= l
----------------------------------------------------------------------------
Batches == {S \in SUBSET Spans : S # {} /\ IsFiniteSet(S) /\ Cardinality(S) <= MaxSpans}

Init == /\ floor = 0 /\ cur = EmptyGen /\ prev = EmptyGen
        /\ reads = {} /\ wrote = {}

\* A read: the cache is bumped before the read is evaluated and answered.
ServeRead(spans, ts, txn) ==
  /\ Bump(spans, ts, txn)
  /\ reads' = reads \cup {[span |-> s, ts |-> ts, txn |-> txn] : s \in spans}
  /\ wrote' = {}

\* A write: admitted at its own timestamp, or, when a transaction's write is
\* refused, pushed just above what refused it. A refused write without a
\* transaction is bounced and changes nothing.
AdmitWrite(spans, ts, txn) ==
  /\ UNCHANGED <<floor, cur, prev, reads>>
  /\ \/ /\ AllowsWrite(spans, ts, txn)
        /\ wrote' = {[span |-> s, ts |-> ts, txn |-> txn] : s \in spans}
     \/ /\ ~AllowsWrite(spans, ts, txn)
        /\ txn # NoTxn
        /\ \E l \in {floor} \cup Stamps(cur) \cup Stamps(prev) :
             /\ IsLow(spans, l)
             /\ wrote' = {[span |-> s, ts |-> l + 1, txn |-> txn] : s \in spans}
     \/ /\ ~AllowsWrite(spans, ts, txn)
        /\ txn = NoTxn
        /\ wrote' = {}

Next == \E spans \in Batches, ts \in Times, txn \in Readers :
          ServeRead(spans, ts, txn) \/ AdmitWrite(spans, ts, txn)

Spec == Init /\ [][Next]_vars
----------------------------------------------------------------------------
\* Type invariant of the cache and of the history kept beside it.
TypeOK ==
  /\ floor \in Nat /\ cur \in Gen /\ prev \in Gen
  /\ reads \in SUBSET Entry /\ wrote \in SUBSET Entry

\* How a generation remembers a read: a point read by an entry for its key that
\* is newer, or as new and attributed to the same reader or to nobody; a ranged
\* read by an entry of its own.
Remembers(gen, r) ==
  IF r.span.end = NoEnd
  THEN LET e == gen.points[r.span.start]
       IN  \/ r.ts < e.ts
           \/ r.ts = e.ts /\ (e.txn = r.txn \/ e.txn = NoTxn)
  ELSE r \in gen.ranged

\* No read is ever forgotten: whatever Bump records, replaces, rotates or
\* collapses, every read served stays remembered by a generation or lies at or
\* below the floor (tscache.go: "conservative, never incorrect").
NoReadForgotten ==
  \A r \in reads : r.ts <= floor \/ Remembers(cur, r) \/ Remembers(prev, r)

\* The promise the cache implements: AllowsWrite never admits a write that
\* invalidates a read already served.
Protection == INSTANCE ReadProtection WITH Overlap <- spansOverlap
Protects   == Protection!RSpec
=============================================================================
