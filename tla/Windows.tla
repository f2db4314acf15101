------------------------------- MODULE Windows -------------------------------
(***************************************************************************)
(* Grouping, aggregates (aggregate.go) and window functions (window.go):   *)
(* two stages over rows that are already there.                            *)
(*                                                                         *)
(* The select list, HAVING and ORDER BY of a grouped query are resolved to *)
(* aggregate specifications that are shared when they are the same; each   *)
(* group has a streaming accumulator for each.  A window item partitions   *)
(* the rows of the inner query, orders each partition, finds the peers,    *)
(* and computes a value per row from its position, from a neighbour or     *)
(* over a frame; DISTINCT, ORDER BY and LIMIT come last.                   *)
(*                                                                         *)
(* Rows come as a sequence of functions from column names; a datum is an   *)
(* integer of Width bits in two's complement or NULL, which is a number    *)
(* outside that range.  AVG is kept exact, times Scale.                    *)
(***************************************************************************)
EXTENDS Integers, Sequences, FiniteSets, SequencesExt

CONSTANTS Width, Environments

VARIABLES env, answer

vars == <<env, answer>>

Null == 1000
Scale == 60
MaxInt == 2 ^ (Width - 1) - 1
Wrap(n) == ((n + MaxInt + 1) % (2 ^ Width)) - MaxInt - 1
Overflow == [kind |-> "error", rows |-> <<>>]

-----------------------------------------------------------------------------
(* The accumulator                                                           *)

Zero == [count |-> 0, sumI |-> 0, sumD |-> 0, best |-> Null, vals |-> <<>>, seen |-> {},
         all |-> TRUE, any |-> FALSE, failed |-> FALSE]

Matches(filter, row) ==
  \A i \in DOMAIN filter : row[filter[i].col] # Null /\ row[filter[i].col] = filter[i].d

(* collects: the aggregates that keep every input. *)
Collects(sp) == sp.fn \in {"ARRAY_AGG", "PERCENTILE_DISC"}

(* The fold of one non-NULL input into the registers of its function. *)
Fold(st, sp, d) ==
  LET one == [st EXCEPT !.count = @ + 1, !.seen = @ \cup {d}]
      s == Wrap(st.sumI + d)
  IN CASE Collects(sp) -> [one EXCEPT !.vals = Append(@, d)]
       [] sp.fn \in {"SUM", "AVG"} ->
            IF (s > st.sumI) # (d > 0) /\ d # 0 THEN [st EXCEPT !.failed = TRUE]
            ELSE [one EXCEPT !.sumI = s, !.sumD = @ + d]
       [] sp.fn = "MIN" -> [one EXCEPT !.best = IF @ = Null \/ d < @ THEN d ELSE @]
       [] sp.fn = "MAX" -> [one EXCEPT !.best = IF @ = Null \/ d > @ THEN d ELSE @]
       [] sp.fn \in {"BOOL_AND", "BOOL_OR"} -> [one EXCEPT !.all = @ /\ d # 0, !.any = @ \/ d # 0]
       [] sp.fn = "COUNT" -> one

(* accumulate, for one specification and one row: FILTER, then the row       *)
(* itself for a star, then NULLs (only ARRAY_AGG keeps them), then DISTINCT. *)
Accumulate(st, sp, row) ==
  IF st.failed \/ ~Matches(sp.filter, row) THEN st
  ELSE IF sp.star THEN [st EXCEPT !.count = @ + 1]
  ELSE LET d == row[sp.col]
       IN IF d = Null THEN (IF sp.fn = "ARRAY_AGG" THEN [st EXCEPT !.vals = Append(@, d)] ELSE st)
          ELSE IF sp.distinct /\ d \in st.seen THEN st
          ELSE Fold(st, sp, d)

(* percentile: the first value at or past the fraction num/den. *)
Percentile(sp, vals) ==
  LET nth(sorted, idx) == sorted[IF idx < 1 THEN 1 ELSE idx]
  IN IF vals = <<>> THEN Null
     ELSE nth(SortSeq(vals, LAMBDA x, y : IF sp.desc THEN x > y ELSE x < y),
              (sp.num * Len(vals) + sp.den - 1) \div sp.den)

(* finish: the register the function reports; nothing counted is NULL, but   *)
(* for COUNT.  A collected array is reported by its length.                   *)
Finish(st, sp) ==
  CASE sp.fn = "COUNT" -> st.count
    [] sp.fn = "ARRAY_AGG" -> IF st.vals = <<>> THEN Null ELSE Len(st.vals)
    [] sp.fn = "PERCENTILE_DISC" -> Percentile(sp, st.vals)
    [] st.count = 0 -> Null
    [] sp.fn = "SUM" -> st.sumI
    [] sp.fn = "AVG" -> (st.sumD * Scale) \div st.count
    [] sp.fn \in {"MIN", "MAX"} -> st.best
    [] sp.fn = "BOOL_AND" -> IF st.all THEN 1 ELSE 0
    [] sp.fn = "BOOL_OR" -> IF st.any THEN 1 ELSE 0

-----------------------------------------------------------------------------
(* Resolution                                                                *)

(* resolveAggSpec's identity and sameSpec. *)
SpecKey(sp) == <<sp.fn, sp.star, sp.col, sp.num, sp.den, sp.distinct, Len(sp.filter)>>
SameSpec(a, b) == SpecKey(a) = SpecKey(b)

(* The position of sp among specs, after them when it is new. *)
PlaceOf(specs, sp) ==
  LET same == {i \in DOMAIN specs : SameSpec(specs[i], sp)}
  IN IF same = {} THEN Len(specs) + 1 ELSE CHOOSE i \in same : \A j \in same : i <= j

WithSpec(specs, sp) == IF PlaceOf(specs, sp) > Len(specs) THEN Append(specs, sp) ELSE specs

Projected(q) == SelectSeq(q.outs, LAMBDA o : o.kind = "agg")

(* resolveGrouped's list: the projected aggregates, one each, then those     *)
(* only ORDER BY and only HAVING compute.                                    *)
SpecsOf(q) ==
  LET outs == [i \in DOMAIN Projected(q) |-> Projected(q)[i].sp]
      add(specs, x) == IF x.kind = "agg" THEN WithSpec(specs, x.sp) ELSE specs
  IN FoldLeft(add, FoldLeft(add, outs, q.order), q.having)

(* The value of a select item, an ORDER BY term or a HAVING operand in a     *)
(* group; a projected aggregate reads its own position.                      *)
ValueIn(q, g, x) == IF x.kind = "col" THEN g.key[x.col] ELSE g.vals[PlaceOf(SpecsOf(q), x.sp)]

NthAgg(q, n) == Cardinality({i \in 1..n : q.outs[i].kind = "agg"})

OutIn(q, g, n) == IF q.outs[n].kind = "col" THEN g.key[q.outs[n].col] ELSE g.vals[NthAgg(q, n)]

-----------------------------------------------------------------------------
(* execGroupedOver                                                           *)

KeyOf(q, row) == [c \in ToSet(q.group) |-> row[c]]

GroupFrom(key, specs, st) ==
  [key |-> key, vals |-> [i \in DOMAIN specs |-> Finish(st[i], specs[i])],
   failed |-> \E i \in DOMAIN specs : st[i].failed]

GroupOver(key, specs, mine) ==
  GroupFrom(key, specs,
            [i \in DOMAIN specs |-> FoldLeft(LAMBDA s, r : Accumulate(s, specs[i], r), Zero, mine)])

(* Groups in the order first seen; without GROUP BY an empty input is one    *)
(* group all the same.                                                       *)
GroupsKeyed(q, rows, keys) ==
  [n \in DOMAIN keys |-> GroupOver(keys[n], SpecsOf(q),
                                  SelectSeq(rows, LAMBDA r : KeyOf(q, r) = keys[n]))]

Firsts(items) == SetToSortSeq({i \in DOMAIN items : \A j \in 1..i - 1 : items[j] # items[i]}, <)

Once(items) == LET at(firsts) == [n \in DOMAIN firsts |-> items[firsts[n]]] IN at(Firsts(items))

Groups(q, rows) ==
  GroupsKeyed(q, rows, IF q.group = <<>> /\ rows = <<>> THEN <<KeyOf(q, <<>>)>>
                       ELSE Once([i \in DOMAIN rows |-> KeyOf(q, rows[i])]))

(* compareDatum: a NULL on either side never matches. *)
Compares(op, l, r) ==
  /\ l # Null /\ r # Null
  /\ CASE op = "=" -> l = r
       [] op = ">" -> l > r
       [] op = "<" -> l < r

Having(q, g) ==
  \A i \in DOMAIN q.having : Compares(q.having[i].op, ValueIn(q, g, q.having[i]), q.having[i].d)

NullsFirst(oc) == IF oc.nulls = "default" THEN oc.desc ELSE oc.nulls = "first"

KeyBefore(order, x, y) ==
  \E i \in DOMAIN order :
    /\ \A j \in 1..i - 1 : x[j] = y[j]
    /\ x[i] # y[i]
    /\ IF x[i] = Null \/ y[i] = Null THEN (x[i] = Null) = NullsFirst(order[i])
       ELSE IF order[i].desc THEN x[i] > y[i] ELSE x[i] < y[i]

(* sortResultRows: a stable sort of items by their keys. *)
StableSort(items, keys, order) ==
  LET before(i, j) == \/ KeyBefore(order, keys[i], keys[j])
                      \/ ~KeyBefore(order, keys[j], keys[i]) /\ i < j
      perm == SetToSortSeq(DOMAIN items, before)
  IN [i \in DOMAIN items |-> items[perm[i]]]

Trim(rows, q) ==
  LET cut == SubSeq(rows, q.offset + 1, Len(rows))
  IN IF q.limit >= 0 /\ Len(cut) > q.limit THEN SubSeq(cut, 1, q.limit) ELSE cut

(* A row carries its hidden sort keys next to what it shows. *)
Shown(rows) == [n \in DOMAIN rows |-> rows[n].out]
Hidden(rows) == [n \in DOMAIN rows |-> rows[n].keys]

RowOf(q, g) == [out |-> [n \in DOMAIN q.outs |-> OutIn(q, g, n)],
                keys |-> [n \in DOMAIN q.order |-> ValueIn(q, g, q.order[n])]]

(* dedupeRowsPrefix: first occurrences by the visible part. *)
DedupeOn(items) ==
  LET at(firsts) == [n \in DOMAIN firsts |-> items[firsts[n]]] IN at(Firsts(Shown(items)))

(* DISTINCT, then ORDER BY on the hidden keys. *)
Arranged(q, made) ==
  LET sorted(once) == StableSort(once, Hidden(once), q.order)
  IN sorted(IF q.distinct THEN DedupeOn(made) ELSE made)

ResultOf(q, made) == [kind |-> "rows", rows |-> Trim(Shown(Arranged(q, made)), q)]

ExecGroups(q, groups) ==
  LET rowsOf(kept) == [n \in DOMAIN kept |-> RowOf(q, kept[n])]
  IN IF \E n \in DOMAIN groups : groups[n].failed THEN Overflow
     ELSE ResultOf(q, rowsOf(SelectSeq(groups, LAMBDA g : Having(q, g))))

ExecGrouped(q, rows) == ExecGroups(q, Groups(q, rows))

-----------------------------------------------------------------------------
(* What an aggregate means, over the set of input rows it applies to         *)

Inputs(sp, rows, I) == {i \in I : Matches(sp.filter, rows[i])
                                  /\ (sp.star \/ rows[i][sp.col] # Null)}

(* With DISTINCT one input stands for all of its value. *)
Counted(sp, rows, I) ==
  LET once(S) == {i \in S : \A j \in S : rows[j][sp.col] = rows[i][sp.col] => i <= j}
  IN IF sp.distinct THEN once(Inputs(sp, rows, I)) ELSE Inputs(sp, rows, I)

SumOf(sp, rows, S) == FoldLeft(LAMBDA n, i : n + rows[i][sp.col], 0, SetToSortSeq(S, <))

MeaningIn(sp, rows, S, vals) ==
  LET below(d) == Cardinality({i \in S : IF sp.desc THEN rows[i][sp.col] >= d
                                         ELSE rows[i][sp.col] <= d})
      first(V) == CHOOSE d \in V : \A e \in V : IF sp.desc THEN d >= e ELSE d <= e
  IN CASE sp.fn = "COUNT" -> Cardinality(S)
       [] S = {} -> Null
       [] sp.fn = "SUM" -> SumOf(sp, rows, S)
       [] sp.fn = "AVG" -> (SumOf(sp, rows, S) * Scale) \div Cardinality(S)
       [] sp.fn = "MIN" -> CHOOSE d \in vals : \A e \in vals : d <= e
       [] sp.fn = "MAX" -> CHOOSE d \in vals : \A e \in vals : d >= e
       [] sp.fn = "BOOL_AND" -> IF 0 \in vals THEN 0 ELSE 1
       [] sp.fn = "BOOL_OR" -> IF vals = {0} THEN 0 ELSE 1
       [] sp.fn = "PERCENTILE_DISC" ->
            first({d \in vals : below(d) * sp.den >= sp.num * Cardinality(S)})

MeaningOver(sp, rows, S) == MeaningIn(sp, rows, S, {rows[i][sp.col] : i \in S})

ArrayLength(S) == IF S = {} THEN Null ELSE Cardinality(S)

(* ARRAY_AGG keeps the NULLs the others leave out. *)
Meaning(sp, rows, I) ==
  IF sp.fn = "ARRAY_AGG"
  THEN ArrayLength(Counted(sp, rows, I)
                  \cup {i \in I : Matches(sp.filter, rows[i]) /\ rows[i][sp.col] = Null})
  ELSE MeaningOver(sp, rows, Counted(sp, rows, I))

MeaningOf(q, rows, I, key, x) == IF x.kind = "col" THEN key[x.col] ELSE Meaning(x.sp, rows, I)

(* The groups of a query as index sets, with HAVING applied. *)
GroupSets(q, rows) ==
  LET keys == {KeyOf(q, rows[i]) : i \in DOMAIN rows}
              \cup (IF q.group = <<>> THEN {KeyOf(q, <<>>)} ELSE {})
      sets == {[key |-> key, rows |-> {i \in DOMAIN rows : KeyOf(q, rows[i]) = key}] : key \in keys}
  IN {g \in sets : \A n \in DOMAIN q.having :
        Compares(q.having[n].op, MeaningOf(q, rows, g.rows, g.key, q.having[n]), q.having[n].d)}

(* A grouped result is right when its rows are those of the groups, in the   *)
(* positions their sort keys give them, and an error only an integer sum     *)
(* that left its range on the way.                                           *)
RowsRight(q, rows, full) ==
  LET times(s, p) == Cardinality({n \in DOMAIN s : s[n] = p})
      among(outs) == /\ Len(rows) = Len(Trim(outs, q))
                     /\ \A p \in ToSet(rows) : times(rows, p) <= times(outs, p)
  IN /\ among(Shown(full))
     /\ \A n \in DOMAIN rows :
          \E r \in ToSet(full) : r.out = rows[n] /\ r.keys = full[n + q.offset].keys

Leaves(n) == n > MaxInt \/ n < -MaxInt - 1

GroupedRight(q, rows, result) ==
  LET all(x, g) == [n \in DOMAIN x |-> MeaningOf(q, rows, g.rows, g.key, x[n])]
      made(groups) == [n \in DOMAIN groups |-> [out |-> all(q.outs, groups[n]),
                                               keys |-> all(q.order, groups[n])]]
      sums == {sp \in ToSet(SpecsOf(q)) : sp.fn \in {"SUM", "AVG"}}
  IN IF result = Overflow
     THEN \E sp \in sums, i \in 0..Len(rows) : \E key \in {KeyOf(q, rows[j]) : j \in DOMAIN rows} :
            Leaves(SumOf(sp, rows, Counted(sp, rows, {j \in 1..i : KeyOf(q, rows[j]) = key})))
     ELSE RowsRight(q, result.rows, Arranged(q, made(SetToSeq(GroupSets(q, rows)))))

NoAnswer == [kind |-> "none", rows |-> <<>>]

-----------------------------------------------------------------------------
(* One window item over the rows                                             *)

Cols(row, cols) == [n \in DOMAIN cols |-> row[cols[n]]]
OrderKey(it, row) == [n \in DOMAIN it.order |-> row[it.order[n].col]]

(* The indexes of r's partition, in window order: a stable sort. *)
Partition(it, rows, r) ==
  LET ordered(idx) == StableSort(idx, [n \in DOMAIN idx |-> OrderKey(it, rows[idx[n]])], it.order)
  IN ordered(SetToSortSeq({s \in DOMAIN rows : Cols(rows[s], it.parts) = Cols(rows[r], it.parts)}, <))

(* peerStart and peerEnd: the run of equal order keys around position i. *)
PeerStart(it, rows, idx, i) ==
  CHOOSE p \in 1..i :
    /\ \A q \in p..i : OrderKey(it, rows[idx[q]]) = OrderKey(it, rows[idx[i]])
    /\ p = 1 \/ OrderKey(it, rows[idx[p - 1]]) # OrderKey(it, rows[idx[i]])

PeerEnd(it, rows, idx, i) ==
  CHOOSE p \in i..Len(idx) :
    /\ \A q \in i..p : OrderKey(it, rows[idx[q]]) = OrderKey(it, rows[idx[i]])
    /\ p = Len(idx) \/ OrderKey(it, rows[idx[p + 1]]) # OrderKey(it, rows[idx[i]])

DistinctBefore(it, rows, idx, i) ==
  Cardinality({p \in 2..i : PeerStart(it, rows, idx, p) = p})

Clamp(p, n) == IF p < 1 THEN 1 ELSE IF p > n THEN n ELSE p

(* A bound of a written frame. *)
Bound(it, rows, idx, i, b, start) ==
  CASE b.kind = "unbounded preceding" -> 1
    [] b.kind = "unbounded following" -> Len(idx)
    [] b.kind = "current row" ->
         IF it.frame.mode = "ROWS" THEN i
         ELSE IF start THEN PeerStart(it, rows, idx, i) ELSE PeerEnd(it, rows, idx, i)
    [] b.kind = "preceding" -> Clamp(i - b.offset, Len(idx))
    [] b.kind = "following" -> Clamp(i + b.offset, Len(idx))


(* frame: as written, else up to the last peer, else the whole partition. *)
Frame(it, rows, idx, i) ==
  IF it.frame.mode # "default"
  THEN <<Bound(it, rows, idx, i, it.frame.start, TRUE), Bound(it, rows, idx, i, it.frame.end, FALSE)>>
  ELSE <<1, IF it.order = <<>> THEN Len(idx) ELSE PeerEnd(it, rows, idx, i)>>

(* ntile for the 1-based position i of n rows in k buckets. *)
Ntile(i, n, k0) ==
  LET k == IF k0 > n THEN n ELSE k0
      base == n \div k
      extra == n % k
  IN IF i - 1 < extra * (base + 1) THEN (i - 1) \div (base + 1) + 1
     ELSE extra + (i - 1 - extra * (base + 1)) \div base + 1

(* compute, for row r: ranks from the position and the peers, LAG and LEAD   *)
(* from a neighbour, the others over the frame.                              *)
OverFrame(it, rows, idx, f) ==
  LET arg(p) == rows[idx[p]][it.sp.col]
      finished(st) == IF st.failed THEN Null + 1 ELSE Finish(st, it.sp)
  IN CASE it.fn = "FIRST_VALUE" -> IF f[1] > f[2] THEN Null ELSE arg(f[1])
       [] it.fn = "LAST_VALUE" -> IF f[1] > f[2] THEN Null ELSE arg(f[2])
       [] it.fn = "NTH_VALUE" -> IF f[1] + it.offset - 1 <= f[2] THEN arg(f[1] + it.offset - 1)
                                 ELSE Null
       [] OTHER -> finished(FoldLeft(LAMBDA s, row : Accumulate(s, it.sp, row), Zero,
                                     [p \in 1..f[2] - f[1] + 1 |-> rows[idx[f[1] + p - 1]]]))

Neighbour(it, rows, idx, p) ==
  IF p \in DOMAIN idx THEN rows[idx[p]][it.sp.col] ELSE it.default

ComputeAt(it, rows, idx, i) ==
  CASE it.fn = "ROW_NUMBER" -> i
    [] it.fn = "RANK" -> PeerStart(it, rows, idx, i)
    [] it.fn = "DENSE_RANK" -> DistinctBefore(it, rows, idx, i) + 1
    [] it.fn = "NTILE" -> Ntile(i, Len(idx), it.offset)
    [] it.fn \in {"LAG", "LEAD"} ->
         Neighbour(it, rows, idx, IF it.fn = "LAG" THEN i - it.offset ELSE i + it.offset)
    [] OTHER -> OverFrame(it, rows, idx, Frame(it, rows, idx, i))

Compute(it, rows, r) ==
  LET within(idx) == ComputeAt(it, rows, idx, CHOOSE p \in DOMAIN idx : idx[p] = r)
  IN within(Partition(it, rows, r))

(* execWindowed: the visible columns, the window values after them, and the  *)
(* sort keys, which may be columns the select list does not show.            *)
MadeOf(q, row, out) ==
  [out |-> out,
   keys |-> [n \in DOMAIN q.order |-> IF q.order[n].pos > 0 THEN out[q.order[n].pos]
                                      ELSE row[q.order[n].col]]]

Made(q, rows, values) ==
  [r \in DOMAIN rows |-> MadeOf(q, rows[r], Cols(rows[r], q.cols) \o values[r])]

WindowResult(q, rows, values) ==
  IF \E r \in DOMAIN rows : \E n \in DOMAIN q.items : values[r][n] = Null + 1 THEN Overflow
  ELSE ResultOf(q, Made(q, rows, values))

ExecWindowed(q, rows) ==
  WindowResult(q, rows, [r \in DOMAIN rows |->
                           [n \in DOMAIN q.items |-> Compute(q.items[n], rows, r)]])

Init == env \in Environments /\ answer = NoAnswer

ExecuteGrouped ==
  /\ env.kind = "grouped" /\ answer = NoAnswer
  /\ answer' = ExecGrouped(env.query, env.rows)
  /\ UNCHANGED env

ExecuteWindowed ==
  /\ env.kind = "windowed" /\ answer = NoAnswer
  /\ answer' = ExecWindowed(env.query, env.rows)
  /\ UNCHANGED env

Next == ExecuteGrouped \/ ExecuteWindowed

Spec == Init /\ [][Next]_vars

-----------------------------------------------------------------------------
(* What a window function means                                              *)

(* Before: strictly earlier in the window's order; ties are broken by the    *)
(* order of the inner rows.                                                  *)
Mates(it, rows, r) == {s \in DOMAIN rows : Cols(rows[s], it.parts) = Cols(rows[r], it.parts)}
Sooner(it, rows, s, r) == KeyBefore(it.order, OrderKey(it, rows[s]), OrderKey(it, rows[r]))
Number(it, rows, r) ==
  1 + Cardinality({s \in Mates(it, rows, r) : Sooner(it, rows, s, r)
                                              \/ (~Sooner(it, rows, r, s) /\ s < r)})

(* Position s, given as its row and number, against a bound of the frame of  *)
(* the row at position i.                                                    *)
AtOrAfter(it, b, s, i, sooner) ==
  CASE b.kind = "unbounded preceding" -> TRUE
    [] b.kind = "current row" -> IF it.frame.mode = "ROWS" THEN s >= i ELSE ~sooner
    [] b.kind = "preceding" -> s >= i - b.offset
    [] b.kind = "following" -> s >= i + b.offset

AtOrBefore(it, b, s, i, later) ==
  CASE b.kind = "unbounded following" -> TRUE
    [] b.kind = "current row" -> IF it.frame.mode = "ROWS" THEN s <= i ELSE ~later
    [] b.kind = "preceding" -> s <= i - b.offset
    [] b.kind = "following" -> s <= i + b.offset

(* The rows of r's frame, by what the bounds say of each other row. *)
InFrame(it, rows, no, r) ==
  {s \in DOMAIN no :
     IF it.frame.mode = "default" THEN ~Sooner(it, rows, r, s)
     ELSE /\ AtOrAfter(it, it.frame.start, no[s], no[r], Sooner(it, rows, s, r))
          /\ AtOrBefore(it, it.frame.end, no[s], no[r], Sooner(it, rows, r, s))}

(* The number of each of r's mates. *)
Numbers(it, rows, r) == [s \in Mates(it, rows, r) |-> Number(it, rows, s)]

(* The buckets in order, as even as they can be, the larger ones first. *)
Bucket(i, n, k) ==
  LET upto(c) == c * (n \div k) + (IF c < n % k THEN c ELSE n % k)
  IN CHOOSE b \in 1..k : upto(b - 1) < i /\ i <= upto(b)

FrameMeaning(it, rows, no, F) ==
  LET at(k) == {s \in F : Cardinality({t \in F : no[t] <= no[s]}) = k}
      value(S) == IF S = {} THEN Null ELSE rows[CHOOSE s \in S : TRUE][it.sp.col]
  IN CASE it.fn = "FIRST_VALUE" -> value(at(1))
       [] it.fn = "LAST_VALUE" -> value(at(Cardinality(F)))
       [] it.fn = "NTH_VALUE" -> value(at(it.offset))
       [] OTHER -> Meaning(it.sp, rows, F)

NumberedMeaning(it, rows, no, r) ==
  LET M == DOMAIN no
      before == {s \in M : Sooner(it, rows, s, r)}
      there == {s \in M : no[s] = no[r] + (IF it.fn = "LAG" THEN -it.offset ELSE it.offset)}
  IN CASE it.fn = "ROW_NUMBER" -> no[r]
       [] it.fn = "RANK" -> 1 + Cardinality(before)
       [] it.fn = "DENSE_RANK" -> 1 + Cardinality({OrderKey(it, rows[s]) : s \in before})
       [] it.fn = "NTILE" ->
            Bucket(no[r], Cardinality(M), IF it.offset > Cardinality(M) THEN Cardinality(M) ELSE it.offset)
       [] it.fn \in {"LAG", "LEAD"} ->
            IF there = {} THEN it.default ELSE rows[CHOOSE s \in there : TRUE][it.sp.col]
       [] OTHER -> FrameMeaning(it, rows, no, InFrame(it, rows, no, r))

WindowMeaning(it, rows, r) == NumberedMeaning(it, rows, Numbers(it, rows, r), r)

WindowedRight(q, rows, result) ==
  IF result = Overflow
  THEN \E n \in {n \in DOMAIN q.items : q.items[n].fn \in {"SUM", "AVG"}}, r \in DOMAIN rows :
         \E S \in SUBSET InFrame(q.items[n], rows, Numbers(q.items[n], rows, r), r) :
           Leaves(SumOf(q.items[n].sp, rows, Counted(q.items[n].sp, rows, S)))
  ELSE result = ResultOf(q, Made(q, rows, [r \in DOMAIN rows |->
                              [n \in DOMAIN q.items |-> WindowMeaning(q.items[n], rows, r)]]))


-----------------------------------------------------------------------------
(* The grouped and windowed queries, over every sequence of up to three rows *)
(* (NULL groups, NULL values, a sum that leaves three bits).                 *)

Sp(fn, col) == [fn |-> fn, star |-> FALSE, col |-> col, distinct |-> FALSE, filter |-> <<>>, num |-> 0, den |-> 1, desc |-> FALSE]
StarSp == [Sp("COUNT", "v") EXCEPT !.star = TRUE]
Col(c) == [kind |-> "col", col |-> c]
Agg(sp) == [kind |-> "agg", sp |-> sp]
By(x, d, n) == x @@ [desc |-> d, nulls |-> n]
Hav(x, op, d) == x @@ [op |-> op, d |-> d]
G(group, outs, order, having, distinct, limit) == [group |-> group, outs |-> outs, order |-> order, having |-> having, distinct |-> distinct, limit |-> limit, offset |-> 0]
Grouped == {
  G(<<"g">>, <<Col("g"), Agg(StarSp), Agg(Sp("SUM", "v"))>>, <<By(Agg(Sp("MAX", "v")), TRUE, "default")>>, <<>>, FALSE, 2),
  G(<<>>, <<Agg(Sp("COUNT", "v")), Agg(Sp("MIN", "v")), Agg([Sp("SUM", "v") EXCEPT !.filter = <<[col |-> "g", d |-> 1]>>])>>, <<>>, <<>>, FALSE, -1),
  G(<<"g", "h">>, <<Agg([Sp("COUNT", "v") EXCEPT !.distinct = TRUE])>>, <<By(Col("g"), FALSE, "first")>>, <<Hav(Agg(StarSp), ">", 1)>>, TRUE, -1),
  G(<<"h">>, <<Agg(Sp("AVG", "v")), Agg(Sp("ARRAY_AGG", "v"))>>, <<By(Col("h"), TRUE, "last")>>, <<Hav(Agg([Sp("COUNT", "v") EXCEPT !.distinct = TRUE]), "<", 2), Hav(Agg(Sp("COUNT", "v")), ">", 0)>>, FALSE, -1),
  G(<<"h">>, <<Agg([Sp("PERCENTILE_DISC", "v") EXCEPT !.num = 1, !.den = 2, !.desc = TRUE]), Agg(Sp("BOOL_AND", "v")), Agg(Sp("BOOL_OR", "v"))>>, <<>>, <<Hav(Col("h"), "=", 0)>>, FALSE, -1)}
Def == [mode |-> "default"]
Fr(m, s, so, e, eo) == [mode |-> m, start |-> [kind |-> s, offset |-> so], end |-> [kind |-> e, offset |-> eo]]
It(fn, parts, order, frame, off) == [fn |-> fn, sp |-> Sp(fn, "v"), parts |-> parts, order |-> order, frame |-> frame, offset |-> off, default |-> Null]
O(c, d, n) == [col |-> c, desc |-> d, nulls |-> n, pos |-> 0]
W(cols, items, order, distinct, limit) == [cols |-> cols, items |-> items, order |-> order, distinct |-> distinct, limit |-> limit, offset |-> 0]
Windowed == {
  W(<<"v">>, <<It("ROW_NUMBER", <<"g">>, <<O("v", FALSE, "default")>>, Def, 0), It("RANK", <<"g">>, <<O("v", FALSE, "default")>>, Def, 0), It("DENSE_RANK", <<>>, <<O("v", TRUE, "default")>>, Def, 0)>>, <<O("h", FALSE, "first")>>, FALSE, -1),
  W(<<"g">>, <<It("NTILE", <<>>, <<O("v", TRUE, "last")>>, Def, 2), It("LAG", <<>>, <<O("h", FALSE, "default")>>, Def, 1), It("LEAD", <<"g">>, <<O("v", FALSE, "default")>>, Def, 1)>>, <<[O("g", FALSE, "default") EXCEPT !.pos = 2]>>, FALSE, 2),
  W(<<"h">>, <<It("FIRST_VALUE", <<"h">>, <<O("v", TRUE, "default")>>, Def, 0), It("LAST_VALUE", <<>>, <<O("h", FALSE, "default")>>, Def, 0), It("NTH_VALUE", <<>>, <<O("v", FALSE, "default")>>, Fr("RANGE", "current row", 0, "unbounded following", 0), 2)>>, <<>>, TRUE, -1),
  W(<<"v">>, <<It("SUM", <<>>, <<O("h", FALSE, "default")>>, Def, 0), It("COUNT", <<"g">>, <<O("v", FALSE, "default")>>, Fr("ROWS", "preceding", 1, "following", 1), 0), It("MAX", <<>>, <<O("v", TRUE, "default")>>, Fr("ROWS", "unbounded preceding", 0, "preceding", 0), 0)>>, <<>>, FALSE, -1)}
RowVals == {[g |-> 0, h |-> 0, v |-> 1], [g |-> 0, h |-> 1, v |-> 3], [g |-> 1, h |-> 0, v |-> Null], [g |-> 1, h |-> Null, v |-> 1], [g |-> Null, h |-> 1, v |-> -4], [g |-> 0, h |-> 0, v |-> 0]}
Rws == UNION {[1..n -> RowVals] : n \in 0..3}
Cases == {[kind |-> "grouped", query |-> q, rows |-> r] : q \in Grouped, r \in Rws} \cup {[kind |-> "windowed", query |-> q, rows |-> r] : q \in Windowed, r \in Rws}
=============================================================================
