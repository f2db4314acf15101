-------------------------------- MODULE Joins --------------------------------
(***************************************************************************)
(* A SELECT over joined tables (join.go): the sides and their names, USING *)
(* and NATURAL, the greedy reordering that statistics allow                *)
(* (join_reorder.go), the left-deep nested loop with its per-row lookups   *)
(* and its NULL extensions on either side, the WHERE clause on the base    *)
(* scan and on complete rows, and grouping over the joined rows            *)
(* (join_agg.go).                                                          *)
(*                                                                         *)
(* Datums are small numbers, NULL is -1.  A row is a function from column  *)
(* names; a side that found no partner holds the row of NULLs.  A lookup   *)
(* of rows by equalities returns them in primary-key order (module Select  *)
(* is about the paths that do it).  A reference is a qualifier ("" for     *)
(* none) and a column name.                                                *)
(***************************************************************************)
EXTENDS Integers, Sequences, FiniteSets, SequencesExt

CONSTANT Environments

VARIABLES env, answer

vars == <<env, answer>>

Null == -1
NoAnswer == [kind |-> "none", columns |-> <<>>, rows |-> <<>>]
Failed == [kind |-> "error", columns |-> <<>>, rows |-> <<>>]

-----------------------------------------------------------------------------
(* Sides and names                                                           *)

(* makeJoinSides: side 1 is the FROM table, each JOIN adds one; merged maps  *)
(* a USING column to the earlier side it was equated with.                   *)
MakeSides(q) ==
  [i \in 1..Len(q.joins) + 1 |->
     IF i = 1 THEN [table |-> q.table, alias |-> q.alias, left |-> FALSE, right |-> FALSE,
                    merged |-> <<>>]
     ELSE LET jc == q.joins[i - 1]
          IN [table |-> jc.table, alias |-> jc.alias, left |-> jc.kind \in {"left", "full"},
              right |-> jc.kind \in {"right", "full"}, merged |-> <<>>]]

Cols(side) == env.cols[side.table]
HasCol(side, c) == c \in ToSet(Cols(side))
Merged(side, c) == c \in DOMAIN side.merged

Nowhere == [side |-> 0, col |-> ""]

LeastOf(S) == CHOOSE i \in S : \A j \in S : i <= j

(* resolveJoinRef: a qualified name binds to the first side it names, a bare *)
(* one must be the column of exactly one side that does not merge it.        *)
At(sides, bound, c) ==
  IF Cardinality(bound) = 1 /\ \A i \in bound : HasCol(sides[i], c)
  THEN [side |-> CHOOSE i \in bound : TRUE, col |-> c] ELSE Nowhere

Resolve(sides, ref) ==
  At(sides,
     {i \in DOMAIN sides :
        IF ref.q = "" THEN HasCol(sides[i], ref.c) /\ ~Merged(sides[i], ref.c)
        ELSE /\ ref.q \in {sides[i].alias, sides[i].table}
             /\ \A j \in 1..i - 1 : ref.q \notin {sides[j].alias, sides[j].table}},
     ref.c)

(* The later side whose copy of a USING column is read when side i's is      *)
(* NULL; 0 when there is none.                                               *)
Alt(sides, i, c) ==
  LET later == {k \in i + 1..Len(sides) : Merged(sides[k], c) /\ sides[k].merged[c] = i}
  IN IF later = {} THEN 0 ELSE LeastOf(later)

SideValue(jr, i, c) == IF i <= Len(jr) THEN jr[i][c] ELSE Null

(* joinedRow.datum of a reference made by sideRef. *)
RECURSIVE Coalesced(_, _, _, _)
Coalesced(sides, jr, i, c) ==
  IF SideValue(jr, i, c) # Null \/ Alt(sides, i, c) = 0 THEN SideValue(jr, i, c)
  ELSE Coalesced(sides, jr, Alt(sides, i, c), c)

ValueAt(sides, jr, r, through) ==
  IF through THEN Coalesced(sides, jr, r.side, r.col) ELSE SideValue(jr, r.side, r.col)

Value(sides, jr, ref) == ValueAt(sides, jr, Resolve(sides, ref), ref.q = "")

(* The columns a USING or NATURAL clause of side k equates, with the first   *)
(* earlier side that owns each.                                              *)
Owners(sides, k, c) == {j \in 1..k - 1 : HasCol(sides[j], c) /\ ~Merged(sides[j], c)}

UsingNames(sides, k, jc) ==
  IF jc.natural THEN SelectSeq(Cols(sides[k]), LAMBDA c : Owners(sides, k, c) # {})
  ELSE jc.using

(* expandUsing: USING and NATURAL become ON equalities, side by side. *)
RECURSIVE ExpandUsing(_, _, _)
ExpandUsing(sides, joins, k) ==
  LET from(c) == LeastOf(Owners(sides, k, c))
      equated(jc, names) ==
        ExpandUsing([sides EXCEPT ![k].merged = [c \in ToSet(names) |-> from(c)]],
                    [joins EXCEPT ![k - 1].on = @ \o [i \in DOMAIN names |->
                                     [l |-> [q |-> sides[from(names[i])].alias, c |-> names[i]],
                                      r |-> [q |-> sides[k].alias, c |-> names[i]]]],
                                  ![k - 1].cross = @ \/ (jc.natural /\ names = <<>>)],
                    k + 1)
  IN IF k > Len(sides) THEN [sides |-> sides, joins |-> joins]
     ELSE equated(joins[k - 1], UsingNames(sides, k, joins[k - 1]))

-----------------------------------------------------------------------------
(* Reordering                                                                *)

Unit == 5400
RowEstimate(sides, i, where) ==
  LET st == env.stats[sides[i].table]
      local == SelectSeq(where, LAMBDA cmp : cmp.op \in {"=", "<"} /\ cmp.value.kind = "lit"
                                             /\ Resolve(sides, cmp.ref).side = i)
      sel(cmp) == IF cmp.op = "<" THEN 3
                  ELSE IF st.distinct[cmp.ref.c] > 0 THEN st.distinct[cmp.ref.c] ELSE 10
      est == FoldLeft(LAMBDA n, cmp : n \div sel(cmp),
                      Unit * (IF st.rows > 0 THEN st.rows ELSE 1), local)
  IN IF est < Unit THEN Unit ELSE est

(* The ON equalities of all levels, as pairs of sides. *)
Pool(sides, joins) ==
  FlattenSeq([i \in DOMAIN joins |->
    [n \in DOMAIN joins[i].on |->
       [a |-> Resolve(sides, joins[i].on[n].l), b |-> Resolve(sides, joins[i].on[n].r)]]])

Linked(pool, i, S) ==
  \E n \in DOMAIN pool : \/ pool[n].a.side = i /\ pool[n].b.side \in S
                         \/ pool[n].b.side = i /\ pool[n].a.side \in S

(* The greedy order: the cheapest side first, then the cheapest one linked   *)
(* to those placed; <<>> when the join graph falls apart.                    *)
RECURSIVE Greedy(_, _, _, _)
Greedy(sides, pool, est, order) ==
  LET left == DOMAIN sides \ ToSet(order)
      cand == IF order = <<>> THEN left ELSE {i \in left : Linked(pool, i, ToSet(order))}
      best == CHOOSE i \in cand : \A j \in cand : est[i] < est[j] \/ (est[i] = est[j] /\ i <= j)
  IN IF left = {} THEN order
     ELSE IF cand = {} THEN <<>>
     ELSE Greedy(sides, pool, est, Append(order, best))

MayReorder(sides, joins, pool) ==
  /\ \A i \in DOMAIN sides : ~sides[i].left /\ ~sides[i].right
  /\ \A i \in DOMAIN joins : joins[i].filter = <<>> /\ ~joins[i].cross
  /\ \A i, j \in DOMAIN sides : i # j =>
       {sides[i].alias, sides[i].table} \cap {sides[j].alias, sides[j].table} = {}
  /\ \A n \in DOMAIN pool :
       /\ pool[n].a # Nowhere /\ pool[n].b # Nowhere
       /\ pool[n].a.side # pool[n].b.side

Position(order, i) == CHOOSE p \in DOMAIN order : order[p] = i

(* Each pooled equality moves to the level that places its later side. *)
ReorderedJoins(sides, pool, order) ==
  LET level(p) == IF Position(order, p.a.side) > Position(order, p.b.side)
                  THEN Position(order, p.a.side) ELSE Position(order, p.b.side)
      cond(p) == [l |-> [q |-> sides[p.a.side].alias, c |-> p.a.col],
                  r |-> [q |-> sides[p.b.side].alias, c |-> p.b.col]]
      conds(ps) == [n \in DOMAIN ps |-> cond(ps[n])]
  IN [k \in 1..Len(order) - 1 |->
        [filter |-> <<>>, cross |-> FALSE,
         on |-> conds(SelectSeq(pool, LAMBDA p : level(p) = k + 1))]]

(* SELECT * written out over the sides in the order of the statement. *)
StarOver(sides) ==
  FlattenSeq([i \in DOMAIN sides |->
    [n \in DOMAIN Cols(sides[i]) |-> [q |-> sides[i].alias, c |-> Cols(sides[i])[n]]]])

(* resolveJoinQuery: the sides in the order of execution, their joins, and   *)
(* the select list when the star was written out for a reordering.           *)
Reordered(q, ex, pool, order) ==
  IF \E p \in DOMAIN order : order[p] # p
  THEN [sides |-> [p \in DOMAIN order |-> ex.sides[order[p]]],
        joins |-> ReorderedJoins(ex.sides, pool, order),
        star |-> FALSE, exprs |-> IF q.star THEN StarOver(ex.sides) ELSE q.exprs]
  ELSE [sides |-> ex.sides, joins |-> ex.joins, star |-> q.star, exprs |-> q.exprs]

OrderedBy(q, ex, pool) ==
  Reordered(q, ex, pool,
    IF env.analyzed /\ MayReorder(ex.sides, ex.joins, pool)
    THEN Greedy(ex.sides, pool, [i \in DOMAIN ex.sides |-> RowEstimate(ex.sides, i, q.where)], <<>>)
    ELSE <<>>)

PooledQuery(q, ex) == OrderedBy(q, ex, Pool(ex.sides, ex.joins))

JoinQuery(q) == PooledQuery(q, ExpandUsing(MakeSides(q), q.joins, 2))

-----------------------------------------------------------------------------
(* Execution                                                                 *)

ExprValue(sides, jr, e) == IF e.kind = "lit" THEN e.d ELSE Value(sides, jr, e.ref)

(* evalJoinWhere: comparisons with NULL never match. *)
Compares(op, l, r) ==
  CASE op = "IS NULL" -> l = Null
    [] op = "=" -> l # Null /\ r # Null /\ l = r
    [] op = "<" -> l # Null /\ r # Null /\ l < r

JoinWhere(sides, where, jr) ==
  \A i \in DOMAIN where :
    Compares(where[i].op, Value(sides, jr, where[i].ref), ExprValue(sides, jr, where[i].value))

(* baseOnlyWhere: conjuncts of the base side against constants, none when a  *)
(* RIGHT or FULL join keeps rows the base never matched.                     *)
AnyRight(sides) == \E i \in DOMAIN sides : sides[i].right


BaseWhere(sides, where) ==
  IF AnyRight(sides) THEN <<>>
  ELSE SelectSeq(where, LAMBDA cmp : Resolve(sides, cmp.ref).side = 1
                                     /\ (cmp.op = "IS NULL" \/ cmp.value.kind = "lit"))

(* fetchRows: the rows of a side that a fetch matches, in key order. *)
FetchRows(side, rows) ==
  LET pk == Cols(side)[1]  IN SetToSortSeq(rows, LAMBDA r, s : r[pk] < s[pk])

RowsOf(side) == env.tables[side.table]

NullRow(side) == [c \in ToSet(Cols(side)) |-> Null]

(* resolveOn: each equality as a column of an earlier side and one of side k. *)
OnPairs(sides, k, on) ==
  LET scope == SubSeq(sides, 1, k)
      pair(l, r) == IF l.side = k THEN <<r, l>> ELSE <<l, r>>
  IN {pair(Resolve(scope, on[n].l), Resolve(scope, on[n].r)) : n \in DOMAIN on}

(* The rows of a side that agree with the partial row on every equality. *)
Partners(side, pairs, jr) ==
  LET key(p) == SideValue(jr, p[1].side, p[1].col)
  IN IF \E p \in pairs : key(p) = Null THEN <<>>
     ELSE FetchRows(side, {r \in RowsOf(side) : \A p \in pairs : r[p[2].col] = key(p)})

Kept(sides, filter, jr, found) ==
  SelectSeq([i \in DOMAIN found |-> Append(jr, found[i])], LAMBDA x : JoinWhere(sides, filter, x))

OrNullRow(side, jr, kept) ==
  IF kept = <<>> /\ side.left THEN <<Append(jr, NullRow(side))>> ELSE kept

(* One partial row at level k: fan out over the matches, NULL-extend or drop. *)
Extend(sides, joins, k, jr) ==
  OrNullRow(sides[k], jr,
    Kept(sides, joins[k - 1].filter, jr,
         Partners(sides[k], OnPairs(sides, k, joins[k - 1].on), jr)))

(* Side k's rows without a partner, NULL-extended on every earlier side. *)
Lonely(sides, k, rest) ==
  [n \in DOMAIN rest |-> [i \in 1..k |-> IF i < k THEN NullRow(sides[i]) ELSE rest[n]]]

Unmatched(sides, k, next) ==
  LET pk == Cols(sides[k])[1]
      matched == {next[i][k][pk] : i \in DOMAIN next}
  IN IF ~sides[k].right THEN <<>>
     ELSE Lonely(sides, k, FetchRows(sides[k], {r \in RowsOf(sides[k]) : r[pk] \notin matched}))

RECURSIVE JoinLevels(_, _, _, _)
JoinLevels(sides, joins, k, joined) ==
  LET on(next) == JoinLevels(sides, joins, k + 1, next \o Unmatched(sides, k, next))
  IN IF k > Len(sides) THEN joined
     ELSE on(FlattenSeq([i \in DOMAIN joined |-> Extend(sides, joins, k, joined[i])]))

BaseRows(sides, where) ==
  FetchRows(sides[1], {r \in RowsOf(sides[1]) : JoinWhere(sides, BaseWhere(sides, where), <<r>>)})

JoinedFrom(q, jq, base) ==
  SelectSeq(JoinLevels(jq.sides, jq.joins, 2, [i \in DOMAIN base |-> <<base[i]>>]),
            LAMBDA jr : JoinWhere(jq.sides, q.where, jr))

Joined(q, jq) == JoinedFrom(q, jq, BaseRows(jq.sides, q.where))

(* resolveJoinProjection: the star shows a merged column once, from the side *)
(* that owns it; it and a bare name read through to the later copies.        *)
Projection(jq) ==
  LET read(r, through) == [side |-> r.side, col |-> r.col, through |-> through]
      shown(i, cols) == [n \in DOMAIN cols |-> [side |-> i, col |-> cols[n], through |-> TRUE]]
  IN IF ~jq.star
     THEN [n \in DOMAIN jq.exprs |-> read(Resolve(jq.sides, jq.exprs[n]), jq.exprs[n].q = "")]
     ELSE FlattenSeq([i \in DOMAIN jq.sides |->
            shown(i, SelectSeq(Cols(jq.sides[i]), LAMBDA c : ~Merged(jq.sides[i], c)))])

Project(sides, proj, jr) ==
  [n \in DOMAIN proj |-> ValueAt(sides, jr, proj[n], proj[n].through)]

Before(order, x, y) ==
  \E i \in DOMAIN order :
    /\ \A j \in 1..i - 1 : x[j] = y[j]
    /\ x[i] # y[i]
    /\ IF x[i] = Null \/ y[i] = Null THEN (x[i] = Null) = order[i].desc
       ELSE IF order[i].desc THEN x[i] > y[i] ELSE x[i] < y[i]

OrderKeys(sides, order, jr) == [i \in DOMAIN order |-> Value(sides, jr, order[i].ref)]

(* sortJoinedRows: stable, on materialized keys. *)
SortJoined(rows, keys, order) ==
  LET before(i, j) == \/ Before(order, keys[i], keys[j])
                      \/ ~Before(order, keys[j], keys[i]) /\ i < j
      perm == SetToSortSeq(DOMAIN rows, before)
  IN [i \in DOMAIN rows |-> rows[perm[i]]]

Trim(rows, limit) == IF limit >= 0 /\ Len(rows) > limit THEN SubSeq(rows, 1, limit) ELSE rows

(* canonJoinName and groupedJoinDesc: a grouping column under its qualified  *)
(* name, read from that side alone.                                          *)
Canonical(sides, ref) ==
  LET name(r) == [q |-> sides[r.side].alias, c |-> r.col] IN name(Resolve(sides, ref))

(* execGroupedJoin for COUNT( * ) per group: groups in the order first seen. *)
CountGroups(seen) ==
  LET firsts == {i \in DOMAIN seen : \A j \in 1..i - 1 : seen[j] # seen[i]}
      counted(order) == [n \in DOMAIN order |->
                           seen[order[n]] \o <<Cardinality({i \in DOMAIN seen : seen[i] = seen[order[n]]})>>]
  IN counted(SetToSortSeq(firsts, <))

Grouped(sides, rows, group) ==
  CountGroups([n \in DOMAIN rows |->
                 [i \in DOMAIN group |-> Value(sides, rows[n], Canonical(sides, group[i]))]])

RefsOf(q) ==
  (IF q.star THEN {} ELSE ToSet(q.exprs))
  \cup {q.where[i].ref : i \in DOMAIN q.where}
  \cup {q.where[i].value.ref : i \in {i \in DOMAIN q.where : q.where[i].value.kind = "col"}}
  \cup {q.order[i].ref : i \in DOMAIN q.order} \cup ToSet(q.group)

Ordered(sides, order, rows) ==
  SortJoined(rows, [i \in DOMAIN rows |-> OrderKeys(sides, order, rows[i])], order)

Projected(sides, proj, rows, limit) ==
  [kind |-> "rows", columns |-> [n \in DOMAIN proj |-> proj[n].col],
   rows |-> Trim([i \in DOMAIN rows |-> Project(sides, proj, rows[i])], limit)]

(* execJoinSelect. *)
ExecResolved(q, jq) ==
  IF \E ref \in RefsOf(q) : Resolve(jq.sides, ref) = Nowhere THEN Failed
  ELSE IF q.group # <<>>
       THEN [kind |-> "rows", columns |-> [i \in DOMAIN q.group |-> q.group[i].c] \o <<"count">>,
             rows |-> Trim(Grouped(jq.sides, Joined(q, jq), q.group), q.limit)]
  ELSE Projected(jq.sides, Projection(jq), Ordered(jq.sides, q.order, Joined(q, jq)), q.limit)

ExecJoin(q) == ExecResolved(q, JoinQuery(q))

Init == env \in Environments /\ answer = NoAnswer

Execute == /\ answer = NoAnswer
           /\ answer' = ExecJoin(env.query)
           /\ UNCHANGED env

Next == Execute

Spec == Init /\ [][Next]_vars

-----------------------------------------------------------------------------
(* What the statement means                                                  *)

(* The joined table as SQL defines it: all combinations that satisfy the     *)
(* condition of each level, plus, NULL-extended, what an outer join keeps.   *)
JoinedWith(sides, join, k, lefts, rights) ==
  LET holds(t) == /\ \A n \in DOMAIN join.on :
                       Compares("=", Value(sides, t, join.on[n].l), Value(sides, t, join.on[n].r))
                  /\ JoinWhere(sides, join.filter, t)
      padded(pairs) ==
        pairs
        \cup (IF sides[k].left
              THEN {Append(l, NullRow(sides[k])) :
                      l \in {l \in lefts : \A r \in rights : Append(l, r) \notin pairs}} ELSE {})
        \cup (IF sides[k].right
              THEN {[i \in 1..k |-> IF i < k THEN NullRow(sides[i]) ELSE r] :
                      r \in {r \in rights : \A l \in lefts : Append(l, r) \notin pairs}} ELSE {})
  IN padded({t \in {Append(l, r) : l \in lefts, r \in rights} : holds(t)})

RECURSIVE JoinedTable(_, _, _)
JoinedTable(sides, joins, k) ==
  IF k = 1 THEN {<<r>> : r \in env.tables[sides[1].table]}
  ELSE JoinedWith(sides, joins[k - 1], k, JoinedTable(sides, joins, k - 1),
                  env.tables[sides[k].table])

(* The answer names the columns of the select list, holds as many rows as    *)
(* the statement leaves, each as often as the joined table at most, and in   *)
(* each position a row whose ORDER BY values belong there.                   *)
RowsRight(q, sides, proj, match, full) ==
  LET out(t) == Project(sides, proj, t)
      times(seq, p) == Cardinality({i \in DOMAIN seq : seq[i] = p})
      among(all) == /\ Len(answer.rows) = Len(Trim(all, q.limit))
                    /\ \A p \in ToSet(answer.rows) : times(answer.rows, p) <= times(all, p)
  IN /\ answer.columns = [n \in DOMAIN proj |-> proj[n].col]
     /\ among([i \in DOMAIN full |-> out(full[i])])
     /\ \A i \in DOMAIN answer.rows :
          \E t \in match :
            /\ out(t) = answer.rows[i]
            /\ OrderKeys(sides, q.order, t) = OrderKeys(sides, q.order, full[i])

GroupsRight(q, sides, match) ==
  LET key(t) == [n \in DOMAIN q.group |-> Value(sides, t, q.group[n])]
  IN ToSet(answer.rows) = {g \o <<Cardinality({t \in match : key(t) = g})>> : g \in {key(t) : t \in match}}

MeantBy(q, ex, match) ==
  IF q.group # <<>>
  THEN GroupsRight(q, ex.sides, match)
  ELSE RowsRight(q, ex.sides, Projection([sides |-> ex.sides, joins |-> ex.joins,
                                          star |-> q.star, exprs |-> q.exprs]),
                 match, Ordered(ex.sides, q.order, SetToSeq(match)))

AnswerMeans(q, ex) ==
  IF answer = Failed THEN \E ref \in RefsOf(q) : Resolve(ex.sides, ref) = Nowhere
  ELSE MeantBy(q, ex, {t \in JoinedTable(ex.sides, ex.joins, Len(ex.sides)) :
                         JoinWhere(ex.sides, q.where, t)})


-----------------------------------------------------------------------------
(* The queries joins are checked on, over every content of three small       *)
(* tables, with and without statistics to reorder by.                        *)

R(q, c) == [q |-> q, c |-> c]
J(t, al, kind, using, nat, on, filter) == [table |-> t, alias |-> al, kind |-> kind, using |-> using, natural |-> nat, on |-> on, filter |-> filter, cross |-> kind = "cross"]
On(l, r) == [l |-> l, r |-> r]
Lit(d) == [kind |-> "lit", d |-> d]
Col(r) == [kind |-> "col", ref |-> r]
Cm(ref, op, v) == [ref |-> ref, op |-> op, value |-> v]
Asc(r) == [ref |-> r, desc |-> FALSE]
Desc(r) == [ref |-> r, desc |-> TRUE]
Q(joins, exprs, where, order, limit) == [table |-> "a", alias |-> "a", joins |-> joins, star |-> exprs = <<>>, exprs |-> exprs, where |-> where, order |-> order, limit |-> limit, group |-> <<>>]
bUsing(k) == J("b", "b", k, <<"id">>, FALSE, <<>>, <<>>)
bOn(k, f) == J("b", "b", k, <<>>, FALSE, <<On(R("a", "id"), R("b", "id"))>>, f)
cOn(k, f) == J("c", "k", k, <<>>, FALSE, <<On(R("k", "y"), R("b", "y"))>>, f)
cUsing(k) == J("c", "k", k, <<"y">>, FALSE, <<>>, <<>>)
Queries == {
  Q(<<bOn("inner", <<>>), cOn("inner", <<>>)>>, <<>>, <<Cm(R("", "x"), "=", Lit(0))>>, <<>>, -1),
  Q(<<bUsing("inner"), cUsing("inner")>>, <<R("", "id"), R("k", "z")>>, <<Cm(R("", "y"), "<", Lit(1))>>, <<Desc(R("", "z")), Asc(R("", "id"))>>, 2),
  Q(<<bUsing("left"), cOn("inner", <<>>)>>, <<>>, <<Cm(R("", "id"), "=", Lit(1))>>, <<>>, -1),
  Q(<<bUsing("full")>>, <<>>, <<>>, <<Asc(R("", "id"))>>, -1),
  Q(<<bUsing("right"), cUsing("left")>>, <<>>, <<Cm(R("a", "x"), "IS NULL", Lit(0))>>, <<>>, -1),
  Q(<<bOn("right", <<Cm(R("a", "x"), "=", Col(R("b", "y")))>>)>>, <<>>, <<Cm(R("a", "x"), "IS NULL", Lit(0))>>, <<Desc(R("b", "y"))>>, 1),
  Q(<<bOn("left", <<Cm(R("b", "y"), "=", Lit(0))>>), cOn("full", <<>>)>>, <<>>, <<>>, <<>>, -1),
  Q(<<J("b", "b", "cross", <<>>, FALSE, <<>>, <<>>)>>, <<R("a", "id"), R("b", "id")>>, <<Cm(R("b", "y"), "=", Col(R("a", "x")))>>, <<Desc(R("b", "id")), Asc(R("a", "id"))>>, 3),
  Q(<<J("b", "b", "inner", <<>>, TRUE, <<>>, <<>>), J("c", "k", "left", <<>>, TRUE, <<>>, <<>>)>>, <<>>, <<>>, <<>>, -1),
  Q(<<J("a", "p", "left", <<>>, FALSE, <<On(R("p", "x"), R("a", "id"))>>, <<>>)>>, <<>>, <<>>, <<>>, -1),
  [Q(<<bOn("left", <<>>), cOn("left", <<>>)>>, <<R("", "x")>>, <<>>, <<>>, -1) EXCEPT !.group = <<R("", "x"), R("k", "z")>>],
  [Q(<<bOn("inner", <<>>), cOn("inner", <<>>)>>, <<R("", "x")>>, <<>>, <<>>, -1) EXCEPT !.group = <<R("b", "y")>>],
  Q(<<bOn("inner", <<>>)>>, <<R("", "id")>>, <<>>, <<>>, -1)}
A == {[id |-> 1, x |-> 0], [id |-> 2, x |-> Null], [id |-> 0, x |-> 1]}
B == {[id |-> 1, y |-> 0], [id |-> 2, y |-> Null], [id |-> 3, y |-> 0]}
CC == {[y |-> 0, z |-> 0], [y |-> 1, z |-> Null], [y |-> 2, z |-> 1]}
St(n) == [rows |-> n, distinct |-> [c \in {"id", "x", "y", "z"} |-> n]]
Cases == {[tables |-> [a |-> ta, b |-> tb, c |-> tc], cols |-> [a |-> <<"id", "x">>, b |-> <<"id", "y">>, c |-> <<"y", "z">>], stats |-> [a |-> St(3), b |-> St(nb), c |-> St(1)], analyzed |-> nb > 0, query |-> q] : ta \in SUBSET A, tb \in SUBSET B, tc \in SUBSET CC, nb \in {0, 2}, q \in Queries}
=============================================================================
