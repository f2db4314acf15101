------------------------------- MODULE Select -------------------------------
(***************************************************************************)
(* A SELECT over one table: the access path the planner picks (access.go), *)
(* the plan cache in front of it (plancache.go), the decision whether the  *)
(* path already delivers ORDER BY (orderPlan), and the two executors, the  *)
(* one that collects (executePlan) and the one that streams pages          *)
(* (scanIter).  Around it the table changes: rows come and go, indexes are *)
(* added, published and dropped, a column is added, ANALYZE runs.          *)
(*                                                                         *)
(* A datum is a short string over the letters 0..Top (LIKE needs the       *)
(* letters, every other comparison only the order); NULL is apart.  Keys   *)
(* are tuples of datums: the encodings preserve order.  What an index      *)
(* holds is a function of the rows (module Rows shows that the writers     *)
(* keep it so); an index that is not public yet is still empty.            *)
(***************************************************************************)
EXTENDS Naturals, Integers, Sequences, FiniteSets, SequencesExt

CONSTANTS Environments, CacheSize, PageSize, PageMax, MaxRuns, MaxChanges

VARIABLES env, table, desc, stats, cache, answer, runs, changes

vars == <<env, table, desc, stats, cache, answer, runs, changes>>

(* The highest letter: nextPrefix drops it as the code drops byte 0xff. *)
Top == 1
Null == <<-1>>
NoBound == [val |-> Null, inclusive |-> FALSE]
NoStats == [id |-> 0, rows |-> 0, distinct |-> <<>>]
NoIndex == [name |-> "primary", cols |-> <<>>, unique |-> FALSE, public |-> TRUE]
NoAnswer == [stmt |-> <<>>, params |-> <<>>, rows |-> <<>>]

-----------------------------------------------------------------------------
(* Comparisons and the WHERE clause                                         *)

(* Datum.Compare on strings: the first letter that differs, else the length. *)
Below(x, y) ==
  \E i \in 1..Len(y) : /\ \A j \in 1..i - 1 : j <= Len(x) /\ x[j] = y[j]
                       /\ i > Len(x) \/ x[i] < y[i]

Holds(op, x, y) ==
  CASE op = "="  -> x = y
    [] op = "<"  -> Below(x, y)
    [] op = "<=" -> ~Below(y, x)
    [] op = ">"  -> Below(y, x)
    [] op = ">=" -> ~Below(x, y)
    [] op = "LIKE" -> IsPrefix(y, x)

(* evalExpr of a right-hand side: only a column reference needs the row. *)
EvalExpr(e, row, params) ==
  CASE e.kind = "lit" -> e.d
    [] e.kind = "param" -> params[e.i]
    [] e.kind = "col" -> row[e.c]

MatchesConj(cmp, row, params) ==
  CASE cmp.op = "IS NULL" -> row[cmp.col] = Null
    [] cmp.op = "IS NOT NULL" -> row[cmp.col] # Null
    [] OTHER -> LET d == EvalExpr(cmp.value, row, params)
                IN row[cmp.col] # Null /\ d # Null /\ Holds(cmp.op, row[cmp.col], d)

MatchesWhere(where, row, params) ==
  \A i \in 1..Len(where) : MatchesConj(where[i], row, params)

-----------------------------------------------------------------------------
(* Keys and index entries                                                    *)

(* Order of encoded keys: column by column. *)
KeyBelow(k, l) ==
  \E i \in 1..Len(k) : /\ Below(k[i], l[i])
                       /\ \A j \in 1..i - 1 : k[j] = l[j]

(* rowenc.ShardBucket: some hash of the logical key. *)
ShardBucket(d, vals) ==
  FoldLeft(LAMBDA n, v : n + Len(v) + (IF v = <<>> THEN 0 ELSE v[1]), 0, vals) % d.shards

Bucketed(d, vals) == IF d.shards > 0 THEN <<<<ShardBucket(d, vals)>>>> \o vals ELSE vals

ColumnsOf(cols, row) == [i \in DOMAIN cols |-> row[cols[i]]]

PrimaryKey(d, row) == Bucketed(d, ColumnsOf(d.pk, row))

(* The natural order of the primary key: the hidden bucket leads. *)
PhysicalPK(d) == IF d.shards > 0 THEN <<"_shard">> \o d.pk ELSE d.pk

(* EncodeIndexEntry: no entry when an indexed column is NULL; a non-unique   *)
(* entry carries the primary key behind the columns.                        *)
IndexEntries(d, idx) ==
  IF ~idx.public THEN {}
  ELSE {[key |-> ColumnsOf(idx.cols, r) \o (IF idx.unique THEN <<>> ELSE PrimaryKey(d, r)),
         row |-> r] :
        r \in {r \in table : \A c \in ToSet(idx.cols) : r[c] # Null}}

PrimaryEntries(d) == {[key |-> PrimaryKey(d, r), row |-> r] : r \in table}

-----------------------------------------------------------------------------
(* Planning                                                                  *)

(* nextPrefix: trailing top letters dropped, the last one incremented; <<>>  *)
(* when nothing is left.                                                     *)
NextPrefix(p) ==
  LET keep == {i \in 1..Len(p) : p[i] # Top}
  IN IF keep = {} THEN <<>>
     ELSE LET n == CHOOSE n \in keep : \A m \in keep : m <= n
          IN [i \in 1..n |-> IF i = n THEN p[i] + 1 ELSE p[i]]

LikeBoundsOf(cmp) ==
  IF cmp.op # "LIKE" \/ cmp.value.kind # "lit" \/ cmp.value.d = <<>> THEN <<>>
  ELSE LET p == cmp.value.d
           lit(d) == [kind |-> "lit", d |-> d]
       IN <<[col |-> cmp.col, op |-> ">=", value |-> lit(p)]>>
          \o (IF NextPrefix(p) = <<>> THEN <<>>
              ELSE <<[col |-> cmp.col, op |-> "<", value |-> lit(NextPrefix(p))]>>)

(* withLikeBounds: the range a literal prefix implies, as extra conjuncts. *)
WithLikeBounds(where) == where \o FlattenSeq([i \in DOMAIN where |-> LikeBoundsOf(where[i])])

Ranges == {"<", "<=", ">", ">="}

(* A conjunct usable for bounds: a comparison with a value known without a   *)
(* row and not NULL.                                                         *)
Usable(cmp, params) ==
  /\ cmp.op \in Ranges \cup {"="}
  /\ cmp.value.kind # "col"
  /\ EvalExpr(cmp.value, <<>>, params) # Null

(* The conjuncts that pin c by equality, in order. *)
Pins(where, params, c) ==
  {i \in DOMAIN where : where[i].op = "=" /\ where[i].col = c /\ Usable(where[i], params)}

ValueAt(where, params, i) == EvalExpr(where[i].value, <<>>, params)

FirstOf(S) == CHOOSE i \in S : \A j \in S : i <= j
LastOf(S) == CHOOSE i \in S : \A j \in S : j <= i

FullScan(where) == [kind |-> "full", idx |-> NoIndex, vals |-> <<>>, lo |-> NoBound,
                    hi |-> NoBound, residual |-> where]

Point(vals) == [FullScan(<<>>) EXCEPT !.kind = "pk point", !.vals = vals]

(* pkPointValues: every logical key column pinned; the last conjunct wins. *)
PKPointValues(d, where, params) ==
  IF \E i \in DOMAIN d.pk : Pins(where, params, d.pk[i]) = {} THEN <<>>
  ELSE [i \in DOMAIN d.pk |->
          ValueAt(where, params, LastOf(Pins(where, params, d.pk[i])))]

Bound(where, params, i) == [val |-> ValueAt(where, params, i),
                            inclusive |-> where[i].op \in {"<=", ">="}]

(* Whether b is at least as tight a bound as c. *)
Tighter(b, c, upper) ==
  \/ IF upper THEN Below(b.val, c.val) ELSE Below(c.val, b.val)
  \/ b.val = c.val /\ (~b.inclusive \/ c.inclusive)

(* tightenLo and tightenHi over the range conjuncts on c. *)
Tightest(where, params, c, upper) ==
  LET bounds == {Bound(where, params, i) :
                   i \in {i \in DOMAIN where :
                            /\ where[i].op \in (IF upper THEN {"<", "<="} ELSE {">", ">="})
                            /\ where[i].col = c
                            /\ Usable(where[i], params)}}
  IN IF bounds = {} THEN NoBound
     ELSE CHOOSE b \in bounds : \A d \in bounds : Tighter(b, d, upper)

(* The candidate over a prefix of pinned columns and a range on the next:    *)
(* the conjuncts those bounds guarantee are consumed.                        *)
Candidate(idx, cols, where, params, vals, ranged, lo, hi) ==
  [idx |-> idx, vals |-> vals, lo |-> lo, hi |-> hi,
   consumed |-> {i \in DOMAIN where :
                   /\ Usable(where[i], params)
                   /\ \/ where[i].op \in Ranges /\ where[i].col = ranged
                      \/ /\ where[i].op = "="
                         /\ \E j \in DOMAIN vals : cols[j] = where[i].col
                                                 /\ vals[j] = ValueAt(where, params, i)},
   score |-> 2 * Len(vals) + (IF lo = NoBound /\ hi = NoBound THEN 0 ELSE 1)]

RangedCandidate(idx, cols, where, params, vals, ranged) ==
  Candidate(idx, cols, where, params, vals, ranged, Tightest(where, params, ranged, FALSE),
            Tightest(where, params, ranged, TRUE))

PrefixCandidate(idx, cols, where, params, pinned) ==
  RangedCandidate(idx, cols, where, params,
                  [i \in 1..pinned |-> ValueAt(where, params, FirstOf(Pins(where, params, cols[i])))],
                  IF pinned < Len(cols) THEN cols[pinned + 1] ELSE "none")

(* buildCandidate: an equality prefix of the key columns, then the range on  *)
(* the next one.                                                             *)
BuildCandidate(idx, cols, where, params) ==
  PrefixCandidate(idx, cols, where, params,
                  CHOOSE n \in 0..Len(cols) :
                    /\ \A i \in 1..n : Pins(where, params, cols[i]) # {}
                    /\ n < Len(cols) => Pins(where, params, cols[n + 1]) = {})

(* Rows and costs are kept in units fine enough for the selectivities 1/3,   *)
(* 1/10 and 1/distinct to stay whole numbers.                                *)
Unit == 2160000
TableRows(st) == Unit * (IF st.rows > 0 THEN st.rows ELSE 1)

EstRows(cand, where, st) ==
  LET sel(i) == IF where[i].op # "=" THEN 3
                ELSE IF st.distinct[where[i].col] > 0 THEN st.distinct[where[i].col] ELSE 10
      est == FoldLeft(LAMBDA n, i : n \div sel(i), TableRows(st), SetToSeq(cand.consumed))
  IN IF est < Unit THEN Unit ELSE est

CostOf(cand, where, st) ==
  EstRows(cand, where, st) * (IF cand.idx # NoIndex /\ ~cand.idx.unique THEN 4 ELSE 1)

(* A non-unique index holds no row with a NULL: it serves only a WHERE that  *)
(* rejects NULL in each of its columns.                                      *)
NullSafe(d, where, params, c) ==
  \/ c \in d.notnull \cup ToSet(d.pk)
  \/ \E i \in DOMAIN where : where[i].col = c /\ (Usable(where[i], params)
                                                 \/ where[i].op = "IS NOT NULL")

Complete(d, where, params, idx) ==
  idx.unique \/ \A c \in ToSet(idx.cols) : NullSafe(d, where, params, c)

(* The better of the best so far and the next candidate, by score without    *)
(* statistics and by cost with them.                                         *)
Better(best, cand, where, st) ==
  IF st = NoStats THEN (IF cand.score > best.score THEN cand ELSE best)
  ELSE IF cand.score > 0 /\ (best.score = 0 \/ CostOf(cand, where, st) < CostOf(best, where, st))
       THEN cand ELSE best

(* The best constrained scan, unless the full scan is as good. *)
ScanPlan(st, where, best) ==
  IF best.score = 0 \/ (st # NoStats /\ CostOf(best, where, st) >= TableRows(st))
  THEN FullScan(where)
  ELSE [kind |-> IF best.idx = NoIndex THEN "pk scan" ELSE "index scan",
        idx |-> best.idx, vals |-> best.vals, lo |-> best.lo, hi |-> best.hi,
        residual |-> LET S == DOMAIN where \ best.consumed
                     IN [i \in 1..Cardinality(S) |-> where[SetToSortSeq(S, <)[i]]]]

UniquePoint(idx, where, params) ==
  [FullScan(<<>>) EXCEPT !.kind = "unique point", !.idx = idx,
     !.vals = [i \in DOMAIN idx.cols |->
                 ValueAt(where, params, FirstOf(Pins(where, params, idx.cols[i])))]]

(* pickPlanWithStats: point on the primary key, point on a unique index, the *)
(* best constrained scan, the full scan.                                     *)
PlanFor(d, st, where, params, pk) ==
  LET pinnedUnique == {i \in DOMAIN d.indexes :
                         /\ d.indexes[i].public /\ d.indexes[i].unique
                         /\ \A c \in ToSet(d.indexes[i].cols) : Pins(where, params, c) # {}}
      usable == SelectSeq(d.indexes, LAMBDA x : x.public /\ Complete(d, where, params, x))
  IN IF pk # <<>> THEN Point(Bucketed(d, pk))
     ELSE IF pinnedUnique # {} THEN UniquePoint(d.indexes[FirstOf(pinnedUnique)], where, params)
     ELSE ScanPlan(st, where,
            FoldLeft(LAMBDA b, x : Better(b, BuildCandidate(x, x.cols, where, params), where, st),
                     BuildCandidate(NoIndex, d.pk, where, params), usable))

BoundedPlan(d, st, where, params) == PlanFor(d, st, where, params, PKPointValues(d, where, params))

PickPlan(d, st, where, params) == BoundedPlan(d, st, WithLikeBounds(where), params)

-----------------------------------------------------------------------------
(* The plan cache: entries by statement, most recent first                   *)

(* pkPointShape: the conjunct that pins each key column, by shape alone: the *)
(* first equality, whatever its value turns out to be.                       *)
PKPointShape(d, where) ==
  LET eqs(c) == {i \in DOMAIN where : where[i].op = "=" /\ where[i].col = c}
  IN IF \E i \in DOMAIN d.pk : eqs(d.pk[i]) = {} THEN <<>>
     ELSE [i \in DOMAIN d.pk |-> FirstOf(eqs(d.pk[i]))]

(* bindPKPoint: the shape with this execution's values; <<>> when one of     *)
(* them cannot be bound.                                                     *)
BindPKPoint(shape, where, params) ==
  IF \E i \in DOMAIN shape : ~Usable(where[shape[i]], params) THEN <<>>
  ELSE [i \in DOMAIN shape |-> ValueAt(where, params, shape[i])]

Cached(s) == {e \in ToSet(cache) : e.stmt = s}

\* seeded fault: the entry is used while the statistics are the same
ValidByStats(e) == e.stats = stats.id

(* planEntry.valid: the very descriptor and statistics it was built on. *)
Valid(e) == e.desc = desc.id /\ e.stats = stats.id

ValidEntries(s) == {e \in Cached(s) : Valid(e)}

(* planCache.put behind get's move to front. *)
Put(e) ==
  LET rest == SelectSeq(cache, LAMBDA x : x.stmt # e.stmt)
  IN SubSeq(<<e>> \o rest, 1, IF Len(rest) < CacheSize THEN Len(rest) + 1 ELSE CacheSize)

ResolveProjection(s) == IF s.star THEN desc.cols ELSE s.proj

EntryFor(s) == [stmt |-> s, desc |-> desc.id, stats |-> stats.id,
                proj |-> ResolveProjection(s), point |-> PKPointShape(desc, s.where)]

(* planAccess: the cached point shape when its values bind, else the planner. *)
PlanAccess(s, params) ==
  LET bound == {p \in {BindPKPoint(e.point, s.where, params) : e \in ValidEntries(s)} : p # <<>>}
  IN IF bound # {} THEN Point(Bucketed(desc, CHOOSE p \in bound : TRUE))
     ELSE PickPlan(desc, stats, s.where, params)

-----------------------------------------------------------------------------
(* ORDER BY                                                                  *)

NullsFirst(oc) == IF oc.nulls = "default" THEN oc.desc ELSE oc.nulls = "first"

(* The order in which the path delivers rows. *)
NaturalOrder(plan) ==
  CASE plan.kind \in {"full", "pk point"} -> PhysicalPK(desc)
    [] plan.kind = "pk scan" -> desc.pk
    [] OTHER -> plan.idx.cols \o (IF plan.idx.unique THEN <<>> ELSE PhysicalPK(desc))

Fanned(plan) == plan.kind = "pk scan" /\ desc.shards > 0

(* The requested order on the columns the plan does not pin, and the path's. *)
Delivers(plan, order, free, rest) ==
  \/ plan.kind = "unique point"
  \/ /\ \A i \in DOMAIN order : order[i].nulls # "default" => NullsFirst(order[i]) = order[i].desc
     /\ Len(free) <= Len(rest)
     /\ \A i \in DOMAIN free : free[i].col = rest[i] /\ free[i].desc = free[1].desc
     /\ free = <<>> \/ ~free[1].desc \/ env.reverseOK

Decision(plan, free, satisfied) ==
  [satisfied |-> satisfied,
   reverse |-> satisfied /\ plan.kind # "unique point" /\ free # <<>> /\ free[1].desc,
   mergeFan |-> satisfied /\ Fanned(plan) /\ free # <<>>]

OrderBehind(plan, order, natural, npinned) ==
  LET free == SelectSeq(order, LAMBDA oc : \A i \in 1..npinned : natural[i] # oc.col)
  IN Decision(plan, free,
              Delivers(plan, order, free, SubSeq(natural, npinned + 1, Len(natural))))

(* orderPlan: whether the path delivers the order, and in which direction. *)
OrderPlan(plan, order) ==
  IF order = <<>> THEN [satisfied |-> TRUE, reverse |-> FALSE, mergeFan |-> FALSE]
  ELSE OrderBehind(plan, order, NaturalOrder(plan),
                   IF plan.kind = "pk point" THEN 0 ELSE Len(plan.vals))

(* The comparison of sortRows, on the ORDER BY columns. *)
SortsBefore(order, r, q) ==
  \E i \in DOMAIN order :
    LET x == r[order[i].col]  y == q[order[i].col]
    IN /\ \A j \in 1..i - 1 : r[order[j].col] = q[order[j].col]
       /\ x # y
       /\ IF x = Null \/ y = Null THEN (x = Null) = NullsFirst(order[i])
          ELSE IF order[i].desc THEN Below(y, x) ELSE Below(x, y)

SortRows(rows, order) ==
  LET before(i, j) == \/ SortsBefore(order, rows[i], rows[j])
                      \/ ~SortsBefore(order, rows[j], rows[i]) /\ i < j
      perm == SetToSortSeq(DOMAIN rows, before)
  IN [i \in DOMAIN rows |-> rows[perm[i]]]

-----------------------------------------------------------------------------
(* Execution                                                                 *)

(* spanBounds: the entries whose key has the pinned prefix and whose next    *)
(* column lies within the bounds; bucket is <<>> or the shard's column.      *)
InSpan(plan, bucket, key) ==
  LET k == SubSeq(key, Len(bucket) + 1, Len(key))
      n == Len(plan.vals)
  IN /\ SubSeq(key, 1, Len(bucket)) = bucket
     /\ SubSeq(k, 1, n) = plan.vals
     /\ plan.lo # NoBound => \/ Below(plan.lo.val, k[n + 1])
                             \/ plan.lo.inclusive /\ k[n + 1] = plan.lo.val
     /\ plan.hi # NoBound => \/ Below(k[n + 1], plan.hi.val)
                             \/ plan.hi.inclusive /\ k[n + 1] = plan.hi.val

Source(plan) == IF plan.kind = "index scan" THEN IndexEntries(desc, plan.idx)
                ELSE PrimaryEntries(desc)

(* The spans of the scan: one, or one per shard bucket. *)
Spans(plan) ==
  LET within(bucket) == {e \in Source(plan) : InSpan(plan, bucket, e.key)}
  IN IF Fanned(plan)
     THEN [b \in 1..desc.shards |-> within(<<<<b - 1>>>>)]
     ELSE <<within(<<>>)>>

(* spanScan: the first limit entries in the plan's direction (0: all). *)
SpanScan(span, limit, reverse) ==
  LET all == SetToSortSeq(span, LAMBDA e, f : IF reverse THEN KeyBelow(f.key, e.key)
                                              ELSE KeyBelow(e.key, f.key))
  IN IF limit > 0 /\ Len(all) > limit THEN SubSeq(all, 1, limit) ELSE all

CutRows(rows, keep) == IF keep > 0 /\ Len(rows) > keep THEN SubSeq(rows, 1, keep) ELSE rows

Filtered(entries, where, params) ==
  SelectSeq(entries, LAMBDA e : MatchesWhere(where, e.row, params))

(* scanPrimarySpan and the index scan: the limit goes into the scan only     *)
(* when the bounds guarantee the whole WHERE clause.                         *)
ScanLimit(plan, limit) == IF plan.residual = <<>> THEN limit ELSE 0

ScanSpan(plan, span, reverse, where, params, limit) ==
  CutRows(Filtered(SpanScan(span, ScanLimit(plan, limit), reverse), where, params), limit)

(* mergeFannedRows: the per-bucket runs merged by the key behind the bucket. *)
MergeFanned(runsOf, reverse, limit) ==
  CutRows(SetToSortSeq(UNION {ToSet(runsOf[b]) : b \in DOMAIN runsOf},
                       LAMBDA e, f : IF reverse THEN KeyBelow(Tail(f.key), Tail(e.key))
                                     ELSE KeyBelow(Tail(e.key), Tail(f.key))),
          limit)

RowsOf(entries) == [i \in DOMAIN entries |-> entries[i].row]

Gathered(fannedRuns, dec, limit) ==
  RowsOf(IF dec.mergeFan THEN MergeFanned(fannedRuns, dec.reverse, limit)
         ELSE CutRows(FlattenSeq(fannedRuns), limit))

ScanSpans(plan, spans, dec, where, params, limit) ==
  Gathered([b \in DOMAIN spans |-> ScanSpan(plan, spans[b], dec.reverse, where, params, limit)],
           dec, limit)

PointRead(entries, plan, where, params) ==
  SetToSeq({e.row : e \in {e \in entries : e.key = plan.vals /\ MatchesWhere(where, e.row, params)}})

(* executePlan: the matching rows, in the path's order. *)
ExecutePlan(plan, dec, where, params, limit) ==
  CASE plan.kind = "pk point" -> PointRead(PrimaryEntries(desc), plan, where, params)
    [] plan.kind = "unique point" -> PointRead(IndexEntries(desc, plan.idx), plan, where, params)
    [] OTHER -> ScanSpans(plan, Spans(plan), dec, where, params, limit)

(* What is left of the spans once a page of that size came back. *)
Behind(spans, got, size, reverse) ==
  IF Len(got) < size THEN Tail(spans)
  ELSE <<{e \in Head(spans) : IF reverse THEN KeyBelow(e.key, Last(got).key)
                              ELSE KeyBelow(Last(got).key, e.key)}>> \o Tail(spans)

(* A page no larger than the limit still allows when every scanned row is a  *)
(* result row.                                                               *)
PageFor(plan, limit, page, n) ==
  IF limit > 0 /\ plan.residual = <<>> /\ limit - n < page THEN limit - n ELSE page

(* scanIter.fill and next: pages of doubling size, the span left behind once *)
(* a page comes back short.                                                  *)
RECURSIVE Stream(_, _, _, _, _, _, _, _)
Stream(plan, spans, reverse, where, params, limit, page, out) ==
  LET turn(size, got) ==
        Stream(plan, Behind(spans, got, size, reverse), reverse, where, params, limit,
               IF got # <<>> /\ page < PageMax THEN 2 * page ELSE page,
               out \o RowsOf(Filtered(got, where, params)))
      fill(size) == turn(size, SpanScan(Head(spans), size, reverse))
  IN IF spans = <<>> \/ (limit > 0 /\ Len(out) >= limit) THEN CutRows(out, limit)
     ELSE fill(PageFor(plan, limit, page, Len(out)))

KeepCount(s) == IF s.limit < 0 THEN 0 ELSE s.limit + s.offset

TrimRows(rows, s) ==
  LET cut == SubSeq(rows, s.offset + 1, Len(rows))
  IN IF s.limit >= 0 /\ Len(cut) > s.limit THEN SubSeq(cut, 1, s.limit) ELSE cut

Dedupe(rows) ==
  LET firsts == {i \in DOMAIN rows : \A j \in 1..i - 1 : rows[j] # rows[i]}
      order == SetToSortSeq(firsts, <)
  IN [i \in DOMAIN order |-> rows[order[i]]]

Projection(s) ==
  IF ValidEntries(s) # {} THEN (CHOOSE e \in ValidEntries(s) : TRUE).proj ELSE ResolveProjection(s)

Fetch(s, params, streaming, plan, dec) ==
  LET limit == IF s.distinct \/ ~dec.satisfied THEN 0 ELSE KeepCount(s)
  IN IF /\ streaming /\ dec.satisfied /\ ~s.distinct /\ ~dec.mergeFan
        /\ plan.kind \in {"full", "pk scan", "index scan"}
     THEN Stream(plan, Spans(plan), dec.reverse, s.where, params, limit, PageSize, <<>>)
     ELSE ExecutePlan(plan, dec, s.where, params, limit)

Ordered(s, dec, rows) ==
  IF dec.satisfied THEN rows
  ELSE IF s.distinct THEN SortRows(rows, s.order)
  ELSE CutRows(SortRows(rows, s.order), KeepCount(s))

Delivered(s, proj, rows) ==
  LET out == [i \in DOMAIN rows |-> ColumnsOf(proj, rows[i])]
  IN TrimRows(IF s.distinct THEN Dedupe(out) ELSE out, s)

(* The single-table end of execSelect. *)
ExecPlanned(s, params, streaming, plan, dec) ==
  Delivered(s, Projection(s), Ordered(s, dec, Fetch(s, params, streaming, plan, dec)))

ExecOver(s, params, streaming, plan) ==
  ExecPlanned(s, params, streaming, plan, OrderPlan(plan, s.order))

ExecSelect(s, params, streaming) == ExecOver(s, params, streaming, PlanAccess(s, params))

-----------------------------------------------------------------------------
(* The system                                                                *)

Fits(rows) ==
  /\ \A r, q \in rows : ColumnsOf(desc.pk, r) = ColumnsOf(desc.pk, q) => r = q
  /\ \A i \in DOMAIN desc.indexes : desc.indexes[i].unique =>
       \A r, q \in {r \in rows : \A c \in ToSet(desc.indexes[i].cols) : r[c] # Null} :
         ColumnsOf(desc.indexes[i].cols, r) = ColumnsOf(desc.indexes[i].cols, q) => r = q

Init ==
  /\ env \in Environments
  /\ desc = [id |-> 1, cols |-> env.cols, pk |-> env.pk, shards |-> env.shards,
             notnull |-> env.notnull, indexes |-> env.indexes]
  /\ table \in SUBSET env.universe
  /\ Fits(table)
  /\ stats = NoStats
  /\ cache = <<>>
  /\ answer = NoAnswer
  /\ runs = 0
  /\ changes = 0

Run(s, params, streaming) ==
  /\ runs < MaxRuns
  /\ runs' = runs + 1
  /\ answer' = [stmt |-> s, params |-> params, rows |-> ExecSelect(s, params, streaming)]
  /\ cache' = Put(IF ValidEntries(s) # {} THEN CHOOSE e \in ValidEntries(s) : TRUE
                  ELSE EntryFor(s))
  /\ UNCHANGED <<env, table, desc, stats, changes>>

Change ==
  /\ changes < MaxChanges
  /\ changes' = changes + 1
  /\ answer' = NoAnswer
  /\ UNCHANGED <<env, cache, runs>>

Write ==
  /\ Change
  /\ \E r \in env.universe : table' \in {table \cup {r}, table \ {r}} \ {table}
  /\ Fits(table')
  /\ UNCHANGED <<desc, stats>>

(* CREATE INDEX in its two steps: written, then published. *)
CreateIndex ==
  /\ Change
  /\ \E x \in env.addable : /\ x.name \notin {desc.indexes[i].name : i \in DOMAIN desc.indexes}
                            /\ desc' = [desc EXCEPT !.id = @ + 1, !.indexes = Append(@, x)]
  /\ UNCHANGED <<table, stats>>

PublishIndex ==
  /\ Change
  /\ \E i \in DOMAIN desc.indexes :
       /\ ~desc.indexes[i].public
       /\ desc' = [desc EXCEPT !.id = @ + 1, !.indexes[i].public = TRUE]
  /\ UNCHANGED <<table, stats>>

DropIndex ==
  /\ Change
  /\ desc.indexes # <<>>
  /\ desc' = [desc EXCEPT !.id = @ + 1, !.indexes = Tail(@)]
  /\ UNCHANGED <<table, stats>>

AddColumn ==
  /\ Change
  /\ \E c \in env.addcols \ ToSet(desc.cols) :
       desc' = [desc EXCEPT !.id = @ + 1, !.cols = Append(@, c)]
  /\ UNCHANGED <<table, stats>>

(* ANALYZE: the counts as they are now; later writes leave them behind. *)
Analyze ==
  /\ Change
  /\ stats' = [id |-> changes + 1, rows |-> Cardinality(table),
               distinct |-> [c \in ToSet(desc.cols) \cup env.addcols |->
                               Cardinality({r[c] : r \in table} \ {Null})]]
  /\ UNCHANGED <<table, desc>>

Next ==
  \/ \E q \in env.stmts, b \in BOOLEAN : Run(q.stmt, q.params, b)
  \/ Write
  \/ CreateIndex
  \/ PublishIndex
  \/ DropIndex
  \/ AddColumn
  \/ Analyze

Spec == Init /\ [][Next]_vars

-----------------------------------------------------------------------------
(* What the statement means                                                  *)

(* Whatever path, plan cache entry or executor served it, a SELECT returns   *)
(* the rows of the table that satisfy its WHERE clause: each once (each      *)
(* distinct projection once under DISTINCT), as many as LIMIT and OFFSET     *)
(* leave, in the positions ORDER BY gives them and with the columns the      *)
(* table has now (execSelect, pickPlanWithStats, orderPlan, scanIter).       *)
SelectRight ==
  answer # NoAnswer =>
    LET s == answer.stmt
        cols == ResolveProjection(s)
        match == {r \in table : MatchesWhere(s.where, r, answer.params)}
        full == SortRows(SetToSeq(match), s.order)
        all == LET p == [i \in DOMAIN full |-> ColumnsOf(cols, full[i])]
               IN IF s.distinct THEN Dedupe(p) ELSE p
        sources(p) == {r \in match : ColumnsOf(cols, r) = p}
        count(seq, p) == Cardinality({i \in DOMAIN seq : seq[i] = p})
        keys(r) == [i \in DOMAIN s.order |-> r[s.order[i].col]]
    IN /\ Len(answer.rows) = Len(TrimRows(all, s))
       /\ \A p \in ToSet(answer.rows) : count(answer.rows, p) <= count(all, p)
       /\ ~s.distinct =>
            \A i \in DOMAIN answer.rows :
              \E r \in sources(answer.rows[i]) : keys(r) = keys(full[i + s.offset])
       /\ s.distinct =>
            \A i, j \in DOMAIN answer.rows : i < j =>
              \E r \in sources(answer.rows[i]) :
                \A q \in sources(answer.rows[j]) : ~SortsBefore(s.order, q, r)

-----------------------------------------------------------------------------
(* The tables and statements single-table SELECT is checked on: a plain      *)
(* table with a two-column index, a hash-sharded primary key, a unique index *)
(* scanned forward only.                                                     *)

L(d) == [kind |-> "lit", d |-> d]
P(i) == [kind |-> "param", i |-> i]
C(c) == [kind |-> "col", c |-> c]
W(col, op, v) == [col |-> col, op |-> op, value |-> v]
O(col, dsc) == [col |-> col, desc |-> dsc, nulls |-> "default"]
ON(col, dsc, n) == [col |-> col, desc |-> dsc, nulls |-> n]
S(where, order, limit, offset) == [where |-> where, order |-> order, limit |-> limit, offset |-> offset, distinct |-> FALSE, star |-> TRUE, proj |-> <<>>]
D(proj, where, order, limit) == [where |-> where, order |-> order, limit |-> limit, offset |-> 0, distinct |-> TRUE, star |-> FALSE, proj |-> proj]
Q(s, p) == [stmt |-> s, params |-> p]
x == <<0>>
xy == <<0, 1>>
y == <<1>>
R(k, a, b) == [k |-> k, a |-> a, b |-> b, c |-> Null]
Stmts == <<
  Q(S(<<>>, <<O("k", FALSE)>>, 1, 1), <<>>),
  Q(S(<<>>, <<O("k", TRUE)>>, 2, 0), <<>>),
  Q(S(<<>>, <<O("a", FALSE), O("k", FALSE)>>, 2, 0), <<>>),
  Q(S(<<>>, <<ON("a", FALSE, "first")>>, -1, 0), <<>>),
  Q(S(<<W("k", "=", P(1))>>, <<>>, -1, 0), <<x>>),
  Q(S(<<W("k", "=", P(1))>>, <<>>, -1, 0), <<Null>>),
  Q(S(<<W("k", "=", P(1)), W("a", "=", P(2))>>, <<>>, -1, 0), <<x, y>>),
  Q(S(<<W("a", "=", L(x))>>, <<O("b", TRUE)>>, 1, 0), <<>>),
  Q(S(<<W("a", ">=", L(x)), W("a", "<", L(y)), W("b", "IS NULL", L(x))>>, <<>>, 1, 0), <<>>),
  Q(S(<<W("a", ">", L(x))>>, <<O("a", TRUE)>>, 1, 0), <<>>),
  Q(S(<<W("a", "LIKE", L(x)), W("b", "=", L(x))>>, <<>>, -1, 0), <<>>),
  Q(S(<<W("a", "LIKE", L(y))>>, <<O("a", FALSE)>>, 2, 0), <<>>),
  Q(S(<<W("b", "=", L(y))>>, <<O("k", FALSE)>>, -1, 0), <<>>),
  Q(S(<<W("a", "=", C("b"))>>, <<>>, 1, 0), <<>>),
  Q(S(<<W("k", ">", L(x)), W("a", "<=", L(xy))>>, <<O("k", TRUE)>>, 1, 0), <<>>),
  Q(S(<<W("k", ">=", L(xy))>>, <<O("k", FALSE)>>, 2, 0), <<>>),
  Q(D(<<"a">>, <<W("k", ">=", L(x))>>, <<O("a", TRUE)>>, 2), <<>>),
  Q(S(<<W("a", "=", L(x)), W("a", "=", L(y))>>, <<>>, 0, 0), <<>>)>>
Pick(ns) == {Stmts[n] : n \in ns}
Rows1 == {R(x, x, Null), R(xy, x, y), R(y, Null, x), R(y, xy, y), R(x, y, x)}
Plain == [cols |-> <<"k", "a", "b">>, pk |-> <<"k">>, shards |-> 0, notnull |-> {}, indexes |-> <<[name |-> "ia", cols |-> <<"a", "b">>, unique |-> FALSE, public |-> TRUE]>>, universe |-> Rows1, addable |-> {[name |-> "ub", cols |-> <<"a">>, unique |-> FALSE, public |-> FALSE]}, addcols |-> {"c"}, stmts |-> Pick({3, 4, 8, 9, 10, 11, 12, 14}), reverseOK |-> TRUE]
Sharded == [Plain EXCEPT !.pk = <<"k", "a">>, !.shards = 2, !.stmts = Pick({1, 2, 5, 7, 13, 15, 16}), !.universe = {r \in Rows1 : r.a # Null}, !.indexes = <<[name |-> "ub", cols |-> <<"b">>, unique |-> FALSE, public |-> TRUE]>>]
Unq == [Plain EXCEPT !.indexes = <<[name |-> "ua", cols |-> <<"a">>, unique |-> TRUE, public |-> TRUE], [name |-> "ib", cols |-> <<"b">>, unique |-> FALSE, public |-> TRUE]>>, !.universe = {r \in Rows1 : r.a # Null}, !.reverseOK = FALSE, !.stmts = Pick({5, 6, 7, 10, 12, 17, 18})]
Cases == {Plain, Sharded, Unq}
=============================================================================
