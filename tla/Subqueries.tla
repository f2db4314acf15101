----------------------------- MODULE Subqueries -----------------------------
(***************************************************************************)
(* Queries inside queries.  An uncorrelated subquery is run once and       *)
(* spliced in as a literal, a value list or a constant (subquery.go).  A   *)
(* correlated conjunct leaves the WHERE clause and runs per fetched row:   *)
(* the references to that row are substituted in the whole tree below it,  *)
(* references to levels between stay symbolic and are found again when     *)
(* the substituted query runs, and a memo keyed by the substituted values  *)
(* saves repeated runs (correlated.go).  WITH members and derived tables   *)
(* are relations bound to a name for the rest of the statement, recursive  *)
(* ones iterate over a working table (cte.go), and set operations combine  *)
(* materialized members (setops.go).                                       *)
(*                                                                         *)
(* Datums are numbers, NULL is -1.  A relation is its column names and its *)
(* rows; the row of a query over several sides is one row per side.        *)
(*                                                                         *)
(* A select is [with, from, derived, where, outs, agg, distinct, limit,    *)
(* next]; a conjunct [op, q, c, val, vals, sub, ors]; an expression        *)
(* [k, v, q, c, sub] of kind lit, col or sub.  sub, derived and next hold  *)
(* at most one element.                                                    *)
(***************************************************************************)
EXTENDS Integers, Sequences, FiniteSets, SequencesExt

CONSTANTS Environments,
          MaxCorrDepth,    \* maxCorrDepth
          IterationCap     \* recursiveIterationCap

VARIABLES env, answer

vars == <<env, answer>>

Null == -1
NoAnswer == [ok |-> FALSE, rows |-> <<<<0>>>>]
Failed == [ok |-> FALSE, rows |-> <<>>]
Ok(rows) == [ok |-> TRUE, rows |-> rows]

Lit(v) == [k |-> "lit", v |-> v, q |-> "", c |-> "", sub |-> <<>>]
Const(b) == [op |-> IF b THEN "TRUE" ELSE "FALSE", q |-> "", c |-> "", val |-> Lit(Null),
             vals |-> <<>>, sub |-> <<>>, ors |-> <<>>]
Bad == [Const(FALSE) EXCEPT !.op = "BAD"]

-----------------------------------------------------------------------------
(* Scopes                                                                    *)

Side(rels, side) == [quals |-> {side.alias}, cols |-> ToSet(rels[side.tab].cols), qcols |-> {}]
Owns(rels, from) == [i \in DOMAIN from |-> Side(rels, from[i])]
Having(rels, from, c) == {i \in DOMAIN from : c \in ToSet(rels[from[i].tab].cols)}

(* selectScope, joinScope: the sides of a join merge into one level, with    *)
(* qualified names and the bare ones that only one side has.                 *)
Scope(rels, from) ==
  IF Len(from) = 1 THEN Side(rels, from[1])
  ELSE [quals |-> {from[i].alias : i \in DOMAIN from},
        cols |-> {c \in UNION {ToSet(rels[from[i].tab].cols) : i \in DOMAIN from} :
                    Cardinality(Having(rels, from, c)) = 1},
        qcols |-> UNION {{from[i].alias} \X ToSet(rels[from[i].tab].cols) : i \in DOMAIN from}]

HasCol(l, q, c) == <<q, c>> \in l.qcols \/ c \in l.cols

FirstIn(levels, Test(_)) ==
  LET least(hits) == IF hits = {} THEN 0 ELSE CHOOSE i \in hits : \A j \in hits : i <= j
  IN least({i \in DOMAIN levels : Test(levels[i])})


(* classify: 0 is the subquery's own scope, k its k-th enclosing one, -1 a   *)
(* name that resolves nowhere.  A nearer scope shadows a farther one.        *)
Classify(own, outers, q, c) ==
  LET mine == FirstIn(own, LAMBDA l : q \in l.quals)
      out  == FirstIn(outers, LAMBDA l : q \in l.quals)
      bare == FirstIn(outers, LAMBDA l : c \in l.cols)
  IN IF q # "" THEN IF mine > 0 THEN (IF HasCol(own[mine], q, c) THEN 0 ELSE -1)
                    ELSE IF out > 0 /\ HasCol(outers[out], q, c) THEN out ELSE -1
     ELSE IF \E i \in DOMAIN own : c \in own[i].cols THEN 0
     ELSE IF bare > 0 THEN bare ELSE -1

-----------------------------------------------------------------------------
(* Names and subqueries of a tree                                            *)

ExprNames(e) == IF e.k = "col" THEN {<<e.q, e.c>>} ELSE {}

(* condColumns and condSubqueries, OR groups included. *)
RECURSIVE CondNames(_), CondSubs(_)
CondNames(cj) ==
  (IF cj.c # "" THEN {<<cj.q, cj.c>>} ELSE {}) \cup ExprNames(cj.val)
  \cup UNION {UNION {CondNames(cj.ors[i][j]) : j \in DOMAIN cj.ors[i]} : i \in DOMAIN cj.ors}
CondSubs(cj) ==
  cj.sub \o cj.val.sub \o FlattenSeq([i \in DOMAIN cj.ors |->
                            FlattenSeq([j \in DOMAIN cj.ors[i] |-> CondSubs(cj.ors[i][j])])])

WhereSubs(sel) == FlattenSeq([i \in DOMAIN sel.where |-> CondSubs(sel.where[i])])
OutSubs(sel) == FlattenSeq([i \in DOMAIN sel.outs |-> sel.outs[i].sub])

(* innerSubShape: what correlation is looked for in. *)
RECURSIVE Covered(_)
Covered(sub) ==
  /\ sub.derived = <<>> /\ sub.next = <<>>
  /\ \A s \in ToSet(WhereSubs(sub)) \cup ToSet(OutSubs(sub)) : Covered(s)

(* analyzeSub: the names of the tree that resolve to the outermost scope,    *)
(* the statement being bound; bad when one resolves nowhere, stands where an *)
(* outer reference may not, or the tree is too deep.                         *)
Names(sub) == UNION {CondNames(sub.where[i]) : i \in DOMAIN sub.where}
OutNames(sub) == UNION {ExprNames(sub.outs[i]) : i \in DOMAIN sub.outs}

RECURSIVE Analyze(_, _, _)
Analyze(rels, sub, outers) ==
  LET analysis(own, level, nested) ==
        [bad |-> \/ Len(outers) > MaxCorrDepth
                 \/ -1 \in {level[n] : n \in DOMAIN level}
                 \/ sub.agg # "" /\ \E n \in OutNames(sub) : level[n] # 0
                 \/ \E a \in nested : a.bad,
         refs |-> {n \in DOMAIN level : level[n] = Len(outers)} \cup UNION {a.refs : a \in nested}]
      within(own) ==
        analysis(own, [n \in Names(sub) \cup OutNames(sub) |-> Classify(own, outers, n[1], n[2])],
                 {Analyze(rels, s, own \o outers) : s \in ToSet(WhereSubs(sub) \o OutSubs(sub))})
  IN within(Owns(rels, sub.from))

(* splitCorrelatedWhereScope and splitCorrelatedProj on the subqueries of    *)
(* one conjunct or output: the references that make it correlated.           *)
BindRefs(rels, subs, level) ==
  LET bound(found, refs) ==
        [bad |-> (\E a \in found : a.bad) \/ (refs # {} /\ \E s \in ToSet(subs) : ~Covered(s)),
         refs |-> refs]
      from(found) == bound(found, UNION {a.refs : a \in found})
  IN from({Analyze(rels, s, <<level>>) : s \in {s \in ToSet(subs) : Covered(s)}})

-----------------------------------------------------------------------------
(* Substitution                                                              *)

Cell(rels, from, row, i, c) ==
  LET cols == rels[from[i].tab].cols IN row[i][CHOOSE n \in DOMAIN cols : cols[n] = c]

(* bindDatum, and the executor's own resolution of a name. *)
Datum(rels, from, row, q, c) ==
  LET named == {i \in Having(rels, from, c) : from[i].alias = q}
  IN IF q # "" /\ named # {} THEN Cell(rels, from, row, CHOOSE i \in named : TRUE, c)
     ELSE Cell(rels, from, row, CHOOSE i \in Having(rels, from, c) : TRUE, c)

Compare(l, op, r) ==
  /\ l # Null /\ r # Null
  /\ CASE op = "=" -> l = r [] op = "!=" -> l # r [] op = "<" -> l < r [] op = ">" -> l > r

Mirror(op) == CASE op = "<" -> ">" [] op = ">" -> "<" [] OTHER -> op

(* substituteSub over the tree below the row in hand: bind is that row's     *)
(* [rels, from, row], outers the scopes between and, last, its own.          *)
RECURSIVE SubstSub(_, _, _), SubstCond(_, _, _, _), SubstExpr(_, _, _, _)
SubstExpr(bind, e, own, outers) ==
  LET at(level) == IF level = Len(outers) THEN Lit(Datum(bind.rels, bind.from, bind.row, e.q, e.c))
                   ELSE IF level = 0 /\ Len(own) = 1 THEN [e EXCEPT !.q = ""]
                   ELSE e
  IN CASE e.k = "sub" -> [e EXCEPT !.sub = <<SubstSub(bind, e.sub[1], own \o outers)>>]
       [] e.k = "lit" -> e
       [] OTHER -> at(Classify(own, outers, e.q, e.c))

(* A comparison whose left side is the bound row's. *)
FoldCond(cj, lhs, val) ==
  IF cj.op = "IS NULL" THEN Const(lhs = Null)
  ELSE IF cj.op \in {"IN", "NOT IN"} \/ val.k = "sub" THEN Bad
  ELSE IF val.k = "col"
  THEN [Const(FALSE) EXCEPT !.op = Mirror(cj.op), !.q = val.q, !.c = val.c, !.val = Lit(lhs)]
  ELSE Const(Compare(lhs, cj.op, val.v))

(* substituteConds: a left side that is the bound row's is folded away. *)
SubstCond(bind, cj, own, outers) ==
  LET at(level, new) ==
        IF cj.c # "" /\ level # 0 /\ level = Len(outers)
        THEN FoldCond(cj, Datum(bind.rels, bind.from, bind.row, cj.q, cj.c), new.val)
        ELSE IF cj.c # "" /\ level = 0 /\ Len(own) = 1 THEN [new EXCEPT !.q = ""] ELSE new
  IN IF cj.op = "OR"
     THEN [cj EXCEPT !.ors = [i \in DOMAIN cj.ors |-> [j \in DOMAIN cj.ors[i] |->
                                SubstCond(bind, cj.ors[i][j], own, outers)]]]
     ELSE at(Classify(own, outers, cj.q, cj.c),
             [cj EXCEPT !.val = SubstExpr(bind, @, own, outers),
                        !.sub = [i \in DOMAIN @ |-> SubstSub(bind, @[i], own \o outers)]])

SubstSub(bind, sub, outers) ==
  LET within(own) ==
        [sub EXCEPT !.where = [i \in DOMAIN sub.where |-> SubstCond(bind, sub.where[i], own, outers)],
                    !.outs = [i \in DOMAIN sub.outs |-> SubstExpr(bind, sub.outs[i], own, outers)]]
  IN within(Owns(bind.rels, sub.from))

(* substituteCond: the conjunct's subqueries, its own names left alone. *)
RECURSIVE SubstTop(_, _, _)
SubstTop(bind, cj, level) ==
  LET sub(s) == IF Covered(s) THEN SubstSub(bind, s, <<level>>) ELSE s
  IN [cj EXCEPT !.sub = [i \in DOMAIN cj.sub |-> sub(cj.sub[i])],
                !.val.sub = [i \in DOMAIN cj.val.sub |-> sub(cj.val.sub[i])],
                !.ors = [i \in DOMAIN cj.ors |-> [j \in DOMAIN cj.ors[i] |->
                           SubstTop(bind, cj.ors[i][j], level)]]]

-----------------------------------------------------------------------------
(* Evaluation of resolved conjuncts: matchesWhere, matchesIn                 *)

Eval(rels, from, row, e) == IF e.k = "lit" THEN e.v ELSE Datum(rels, from, row, e.q, e.c)

(* matchesIn and the comparisons, on the left side's value. *)
Compared(rels, from, row, cj, lhs) ==
  CASE cj.op = "IS NULL" -> lhs = Null
    [] cj.op = "IN" -> lhs # Null /\ \E i \in DOMAIN cj.vals : cj.vals[i] = lhs
    [] cj.op = "NOT IN" -> lhs # Null /\ \A i \in DOMAIN cj.vals : cj.vals[i] \notin {lhs, Null}
    [] OTHER -> Compare(lhs, cj.op, Eval(rels, from, row, cj.val))

RECURSIVE Matches(_, _, _, _)
Matches(rels, from, row, cj) ==
  CASE cj.op = "TRUE" -> TRUE
    [] cj.op = "FALSE" -> FALSE
    [] cj.op = "OR" -> \E i \in DOMAIN cj.ors : \A j \in DOMAIN cj.ors[i] :
                         Matches(rels, from, row, cj.ors[i][j])
    [] OTHER -> Compared(rels, from, row, cj, Datum(rels, from, row, cj.q, cj.c))

RECURSIVE IsBad(_)
IsBad(cj) == cj.op = "BAD" \/ \E i \in DOMAIN cj.ors : \E j \in DOMAIN cj.ors[i] : IsBad(cj.ors[i][j])

Dedupe(rows) ==
  FoldLeft(LAMBDA out, r : IF \E i \in DOMAIN out : out[i] = r THEN out ELSE Append(out, r), <<>>, rows)

Trim(rows, limit) == IF limit >= 0 /\ limit < Len(rows) THEN SubSeq(rows, 1, limit) ELSE rows

MaxOf(vals) == IF vals = {} THEN Null ELSE CHOOSE m \in vals : \A v \in vals : v <= m

(* The one row of an aggregate without GROUP BY. *)
Aggregate(agg, outs) ==
  LET over(some) == IF agg = "COUNT" THEN Len(some) ELSE MaxOf({some[i][1] : i \in DOMAIN some})
  IN <<<<over(SelectSeq(outs, LAMBDA o : o[1] # Null))>>>>

-----------------------------------------------------------------------------
(* Set operations on members already run                                     *)

Times(rows, r) == Len(SelectSeq(rows, LAMBDA x : x = r))

(* intersectRows and exceptRows: left rows in order, each met right row      *)
(* used once under ALL, each distinct row kept once otherwise.               *)
Intersect(left, right, all) ==
  FoldLeft(LAMBDA out, r : IF (IF all THEN Times(out, r) < Times(right, r)
                               ELSE Times(right, r) > 0 /\ Times(out, r) = 0)
                           THEN Append(out, r) ELSE out, <<>>, left)

Except(left, right, all) ==
  FoldLeft(LAMBDA acc, r :
             IF all /\ Times(acc.met, r) < Times(right, r) THEN [acc EXCEPT !.met = Append(@, r)]
             ELSE IF ~all /\ (Times(right, r) > 0 \/ Times(acc.out, r) > 0) THEN acc
             ELSE [acc EXCEPT !.out = Append(@, r)],
           [met |-> <<>>, out |-> <<>>], left).out

(* INTERSECT binds tighter; the rest folds left to right. *)
Combine(members) ==
  LET step(red, m) ==
        IF m.op = "INTERSECT" /\ red # <<>>
        THEN [red EXCEPT ![Len(red)].rows = Intersect(@, m.rows, m.all)]
        ELSE Append(red, m)
      fold(rows, m) == IF m.op = "EXCEPT" THEN Except(rows, m.rows, m.all)
                       ELSE IF m.all THEN rows \o m.rows ELSE Dedupe(rows \o m.rows)
      folded(reduced) == FoldLeft(fold, reduced[1].rows, Tail(reduced))
  IN folded(FoldLeft(step, <<>>, members))

-----------------------------------------------------------------------------
(* Execution                                                                 *)

Bound(rels, name, cols, rows) ==
  [n \in DOMAIN rels \cup {name} |-> IF n = name THEN [cols |-> cols, rows |-> rows] ELSE rels[n]]

Product(rels, from) ==
  FoldLeft(LAMBDA acc, side : FlattenSeq([i \in DOMAIN acc |->
                                [j \in DOMAIN rels[side.tab].rows |-> Append(acc[i], rels[side.tab].rows[j])]]),
           <<<<>>>>, from)

Key(rels, from, row, idx, refs) ==
  <<idx, [n \in refs |-> Datum(rels, from, row, n[1], n[2])]>>

RECURSIVE Exec(_, _), ExecWith(_, _, _), ExecRecursive(_, _, _, _, _), ResolveCond(_, _)

(* resolveValueExpr for a scalar subquery. *)
ResolveExpr(rels, e) ==
  LET scalar(res) == IF ~res.ok \/ Len(res.rows) > 1 THEN [ok |-> FALSE, e |-> e]
                     ELSE [ok |-> TRUE, e |-> Lit(IF res.rows = <<>> THEN Null ELSE res.rows[1][1])]
  IN IF e.k # "sub" THEN [ok |-> TRUE, e |-> e] ELSE scalar(Exec(e.sub[1], rels))

(* resolveWhereSubs on one conjunct. *)
ResolveCond(rels, cj) ==
  LET listed(res) == IF res.ok THEN [cj EXCEPT !.sub = <<>>, !.vals = [i \in DOMAIN res.rows |-> res.rows[i][1]]]
                     ELSE Bad
      probed(res) == IF res.ok THEN Const((res.rows # <<>>) = (cj.op = "EXISTS")) ELSE Bad
      valued(val) == IF val.ok THEN [cj EXCEPT !.val = val.e] ELSE Bad
  IN CASE cj.op = "OR" ->
            [cj EXCEPT !.ors = [i \in DOMAIN cj.ors |-> [j \in DOMAIN cj.ors[i] |->
                                  ResolveCond(rels, cj.ors[i][j])]]]
       [] cj.op \in {"IN", "NOT IN"} /\ cj.sub # <<>> -> listed(Exec(cj.sub[1], rels))
       [] cj.op \in {"EXISTS", "NOT EXISTS"} -> probed(Exec([cj.sub[1] EXCEPT !.limit = 1], rels))
       [] OTHER -> valued(ResolveExpr(rels, cj.val))

(* evalCorrelated over the fetched rows, conjunct by conjunct, with the      *)
(* statement's memo.                                                         *)
Tried(acc, rels, from, row, key, cj) ==
  [acc EXCEPT !.memo = [k \in DOMAIN @ \cup {key} |-> IF k = key THEN cj ELSE @[k]],
              !.ok = ~IsBad(cj),
              !.hit = ~IsBad(cj) /\ Matches(rels, from, row, cj)]

TryConjunct(acc, rels, from, row, cc, level, key) ==
  IF ~acc.hit \/ ~acc.ok THEN acc
  ELSE Tried(acc, rels, from, row, key,
             IF key \in DOMAIN acc.memo THEN acc.memo[key]
             ELSE ResolveCond(rels, SubstTop([rels |-> rels, from |-> from, row |-> row], cc.cj, level)))

Filter(rels, from, rows, corr, level) ==
  LET each(acc, row) ==
        LET kept(tried) == IF tried.ok /\ tried.hit THEN [tried EXCEPT !.kept = Append(@, row)] ELSE tried
        IN kept(FoldLeft(LAMBDA a, cc : TryConjunct(a, rels, from, row, cc, level,
                                                    Key(rels, from, row, cc.idx, cc.refs)),
                         [acc EXCEPT !.hit = TRUE], corr))
  IN FoldLeft(each, [memo |-> <<>>, ok |-> TRUE, hit |-> TRUE, kept |-> <<>>], rows)

(* splitCorrelatedProj: the outputs that are evaluated row by row. *)
ProjRefs(rels, sel, level) ==
  [i \in DOMAIN sel.outs |->
     IF sel.agg = "" THEN BindRefs(rels, sel.outs[i].sub, level) ELSE [bad |-> FALSE, refs |-> {}]]

(* evalCorrProj: substitute the row into the output's subquery and run it. *)
EvalProj(rels, from, row, out, level) ==
  ResolveExpr(rels, [out EXCEPT !.sub = <<SubstSub([rels |-> rels, from |-> from, row |-> row],
                                                   @[1], <<level>>)>>])

(* execSelect on one plain select: split, resolve, fetch, filter, project,   *)
(* one operator per stage.                                                   *)
Shape(sel, made) ==
  LET shaped(rows) == IF sel.agg # "" THEN Aggregate(sel.agg, rows)
                      ELSE IF sel.distinct THEN Dedupe(rows) ELSE rows
  IN IF \E r \in DOMAIN made : \E i \in DOMAIN made[r] : ~made[r][i].ok THEN Failed
     ELSE Ok(Trim(shaped([r \in DOMAIN made |-> [i \in DOMAIN made[r] |-> made[r][i].e.v]]), sel.limit))

ExecProject(sel, rels, level, projs, outs, kept) ==
  IF ~kept.ok THEN Failed
  ELSE Shape(sel, [r \in DOMAIN kept.kept |-> [i \in DOMAIN sel.outs |->
         IF projs[i].refs # {} THEN EvalProj(rels, sel.from, kept.kept[r], sel.outs[i], level)
         ELSE [ok |-> TRUE, e |-> Lit(Eval(rels, sel.from, kept.kept[r], outs[i].e))]]])

ExecResolved(sel, rels, level, corr, projs, where, outs) ==
  IF (\E n \in DOMAIN where : IsBad(where[n])) \/ (\E i \in DOMAIN outs : ~outs[i].ok) THEN Failed
  ELSE ExecProject(sel, rels, level, projs, outs,
         Filter(rels, sel.from,
                SelectSeq(Product(rels, sel.from),
                          LAMBDA row : \A n \in DOMAIN where : Matches(rels, sel.from, row, where[n])),
                corr, level))

ExecSplit(sel, rels, level, found, projs) ==
  LET corr == SelectSeq([i \in DOMAIN found |-> [cj |-> sel.where[i], idx |-> i, refs |-> found[i].refs]],
                        LAMBDA c : c.refs # {})
      resolved(plain) == [n \in DOMAIN plain |-> ResolveCond(rels, sel.where[plain[n]])]
  IN IF (\E i \in DOMAIN found : found[i].bad) \/ (\E i \in DOMAIN projs : projs[i].bad) THEN Failed
     ELSE ExecResolved(sel, rels, level, corr, projs,
            resolved(SelectSeq([i \in DOMAIN found |-> i], LAMBDA i : found[i].refs = {})),
            [i \in DOMAIN sel.outs |-> IF projs[i].refs # {} THEN [ok |-> TRUE, e |-> sel.outs[i]]
                                       ELSE ResolveExpr(rels, sel.outs[i])])

ExecScoped(sel, rels, level) ==
  ExecSplit(sel, rels, level,
            [i \in DOMAIN sel.where |-> BindRefs(rels, CondSubs(sel.where[i]), level)],
            ProjRefs(rels, sel, level))

ExecPlain(sel, rels) == ExecScoped(sel, rels, Scope(rels, sel.from))

(* The members of a chain of set operations, each with its operator; the     *)
(* head's LIMIT is the whole chain's.                                        *)
RECURSIVE Chain(_, _, _)
Chain(s, op, all) ==
  <<[op |-> op, all |-> all, sel |-> [s EXCEPT !.next = <<>>, !.limit = IF op = "" THEN -1 ELSE @]]>>
  \o (IF s.next = <<>> THEN <<>> ELSE Chain(s.next[1].sel, s.next[1].op, s.next[1].all))

(* execSetOps: each member on its own, the head's LIMIT on the whole. *)
ExecSetOps(sel, rels) ==
  LET ran(parts) == [i \in DOMAIN parts |-> [op |-> parts[i].op, all |-> parts[i].all,
                                            res |-> Exec(parts[i].sel, rels)]]
      combined(members) ==
        IF \E i \in DOMAIN members : ~members[i].res.ok THEN Failed
        ELSE Ok(Trim(Combine([i \in DOMAIN members |-> [op |-> members[i].op, all |-> members[i].all,
                                                       rows |-> members[i].res.rows]]), sel.limit))
  IN combined(ran(Chain(sel, "", FALSE)))

(* The rows of a step that a recursive UNION has not seen. *)
Unseen(rows, seen) == SelectSeq(Dedupe(rows), LAMBDA r : \A i \in DOMAIN seen : seen[i] # r)

(* execRecursiveCTE: the step runs over the working table until it adds      *)
(* nothing, at most IterationCap times.                                      *)
ExecRecursive(cte, rels, result, working, iter) ==
  LET next(sofar, step) ==
        IF ~step.ok THEN Failed
        ELSE ExecRecursive(cte, rels, sofar,
                           IF cte.sel.next[1].all THEN step.rows ELSE Unseen(step.rows, sofar), iter + 1)
  IN IF working = <<>> THEN Ok(result)
     ELSE IF iter >= IterationCap THEN Failed
     ELSE next(result \o working, Exec(cte.sel.next[1].sel, Bound(rels, cte.name, cte.cols, working)))

(* bindWith: the members in order, each seeing the ones before it. *)
ExecMember(cte, rels) ==
  LET from(seed) == IF ~seed.ok THEN Failed
                    ELSE ExecRecursive(cte, rels, <<>>,
                                       IF cte.sel.next[1].all THEN seed.rows ELSE Dedupe(seed.rows), 0)
  IN IF cte.recursive THEN from(Exec([cte.sel EXCEPT !.next = <<>>], rels)) ELSE Exec(cte.sel, rels)

ExecWith(members, sel, rels) ==
  LET bound(cte, res) == IF ~res.ok THEN Failed
                         ELSE ExecWith(Tail(members), sel, Bound(rels, cte.name, cte.cols, res.rows))
  IN IF members = <<>> THEN Exec([sel EXCEPT !.with = <<>>], rels)
     ELSE bound(Head(members), ExecMember(Head(members), rels))

(* execSelect's order: WITH, set operations, a derived table run as a        *)
(* relation under its alias (its conjuncts are resolved at once), the rest.  *)
Derived(sel, rels) ==
  IF sel.derived = <<>> THEN [ok |-> TRUE, rows |-> <<>>] ELSE Exec(sel.derived[1].sel, rels)

Exec(sel, rels) ==
  LET over(inner) ==
        IF ~inner.ok THEN Failed
        ELSE ExecPlain([sel EXCEPT !.derived = <<>>],
                       IF sel.derived = <<>> THEN rels
                       ELSE Bound(rels, sel.from[1].tab, sel.derived[1].cols, inner.rows))
  IN IF sel.with # <<>> THEN ExecWith(sel.with, sel, rels)
     ELSE IF sel.next # <<>> THEN ExecSetOps(sel, rels)
     ELSE over(Derived(sel, rels))

Init == env \in Environments /\ answer = NoAnswer

Execute ==
  /\ answer = NoAnswer
  /\ answer' = Exec(env.stmt, env.rels)
  /\ UNCHANGED env

Next == Execute

Spec == Init /\ [][Next]_vars

-----------------------------------------------------------------------------
(* What a query means: names are looked up in the rows in hand, the nearest  *)
(* first, and nothing is rewritten, remembered or run ahead.  A frame is     *)
(* [from, rels, row].                                                        *)

Frames(stack, q, c) ==
  {i \in DOMAIN stack : \E s \in DOMAIN stack[i].from :
     (q = "" \/ stack[i].from[s].alias = q) /\ s \in Having(stack[i].rels, stack[i].from, c)}

Look(stack, q, c) ==
  LET from(f) == Datum(f.rels, f.from, f.row, q, c)
      nearest(F) == from(stack[CHOOSE i \in F : \A j \in F : i <= j])
  IN nearest(Frames(stack, q, c))

RECURSIVE Means(_, _, _), Holds(_, _, _), Closure(_, _, _), Layers(_, _, _)

ValueOf(e, rels, stack) ==
  LET first(rows) == IF rows = <<>> THEN Null ELSE rows[1][1]
  IN CASE e.k = "lit" -> e.v
       [] e.k = "col" -> Look(stack, e.q, e.c)
       [] OTHER -> first(Means(e.sub[1], rels, stack))

(* A conjunct on the value of its left side and the rows of its subquery. *)
TestHolds(cj, lhs, rows) ==
  CASE cj.op = "IN" -> lhs # Null /\ <<lhs>> \in rows
    [] cj.op = "NOT IN" -> rows = {} \/ (lhs # Null /\ {<<lhs>>, <<Null>>} \cap rows = {})

Holds(cj, rels, stack) ==
  CASE cj.op = "OR" -> \E i \in DOMAIN cj.ors : \A j \in DOMAIN cj.ors[i] : Holds(cj.ors[i][j], rels, stack)
    [] cj.op \in {"EXISTS", "NOT EXISTS"} -> (Means(cj.sub[1], rels, stack) # <<>>) = (cj.op = "EXISTS")
    [] cj.op = "IS NULL" -> Look(stack, cj.q, cj.c) = Null
    [] cj.op \in {"IN", "NOT IN"} ->
         TestHolds(cj, Look(stack, cj.q, cj.c), ToSet(Means(cj.sub[1], rels, stack)))
    [] OTHER -> Compare(Look(stack, cj.q, cj.c), cj.op, ValueOf(cj.val, rels, stack))

(* How often each row comes out of a chain of set operations: INTERSECT      *)
(* binds tighter than the other two.                                         *)
Count(parts, r) ==
  LET Least(a, b) == IF a < b THEN a ELSE b
      Some(n) == IF n > 0 THEN 1 ELSE 0
      heads == {i \in DOMAIN parts : parts[i].op # "INTERSECT"}
      until(h) == CHOOSE e \in h..Len(parts) : ((h + 1)..e) \cap heads = {} /\ (e = Len(parts) \/ e + 1 \in heads)
      term(h) == FoldLeft(LAMBDA n, p : IF p.all THEN Least(n, Times(p.rows, r))
                                        ELSE Some(n * Times(p.rows, r)),
                          Times(parts[h].rows, r), SubSeq(parts, h + 1, until(h)))
      add(op, all, n, t) == CASE op = "" -> t
                              [] op = "EXCEPT" /\ all -> IF n > t THEN n - t ELSE 0
                              [] op = "EXCEPT" /\ ~all -> IF t > 0 THEN 0 ELSE Some(n)
                              [] OTHER -> IF all THEN n + t ELSE Some(n + t)
  IN FoldLeft(LAMBDA n, h : add(parts[h].op, parts[h].all, n, term(h)), 0, SetToSortSeq(heads, <))

(* The rows a recursive member reaches: the least set with the seed that the *)
(* step maps into itself, or, under ALL, one layer after another.            *)
Closure(cte, rels, S) ==
  LET with(more) == IF more \subseteq S THEN SetToSeq(S) ELSE Closure(cte, rels, S \cup more)
  IN with(ToSet(Means(cte.sel.next[1].sel, Bound(rels, cte.name, cte.cols, SetToSeq(S)), <<>>)))
Layers(cte, rels, layer) ==
  IF layer = <<>> THEN <<>>
  ELSE layer \o Layers(cte, rels, Means(cte.sel.next[1].sel, Bound(rels, cte.name, cte.cols, layer), <<>>))

MemberMeans(cte, rels) ==
  LET from(seed) == IF cte.sel.next[1].all THEN Layers(cte, rels, seed) ELSE Closure(cte, rels, ToSet(seed))
  IN IF cte.recursive THEN from(Means([cte.sel EXCEPT !.next = <<>>], rels, <<>>))
     ELSE Means(cte.sel, rels, <<>>)

ChainMeans(parts) ==
  FlattenSeq(SetToSeq({[n \in 1..Count(parts, r) |-> r] :
                         r \in UNION {ToSet(parts[i].rows) : i \in DOMAIN parts}}))

PlainMeans(sel, rels, stack) ==
  LET frame(row) == <<[from |-> sel.from, rels |-> rels, row |-> row]>> \o stack
      made(in) == [r \in DOMAIN in |-> [i \in DOMAIN sel.outs |-> ValueOf(sel.outs[i], rels, frame(in[r]))]]
      shaped(rows) == IF sel.agg # "" THEN Aggregate(sel.agg, rows)
                      ELSE Trim(IF sel.distinct THEN Dedupe(rows) ELSE rows, sel.limit)
  IN shaped(made(SelectSeq(Product(rels, sel.from),
                           LAMBDA row : \A i \in DOMAIN sel.where : Holds(sel.where[i], rels, frame(row)))))

Means(sel, rels, stack) ==
  LET bound(cte) == Means([sel EXCEPT !.with = Tail(@)],
                          Bound(rels, cte.name, cte.cols, MemberMeans(cte, rels)), stack)
      ran(parts) == [i \in DOMAIN parts |-> [op |-> parts[i].op, all |-> parts[i].all,
                                            rows |-> Means(parts[i].sel, rels, stack)]]
  IN IF sel.with # <<>> THEN bound(Head(sel.with))
     ELSE IF sel.next # <<>> THEN ChainMeans(ran(Chain(sel, "", FALSE)))
     ELSE PlainMeans(sel, IF sel.derived = <<>> THEN rels
                          ELSE Bound(rels, sel.from[1].tab, sel.derived[1].cols,
                                     Means(sel.derived[1].sel, rels, stack)), stack)


-----------------------------------------------------------------------------
(* The statements with nested queries, over small contents of three tables.  *)

Col(q, c) == [k |-> "col", v |-> 0, q |-> q, c |-> c, sub |-> <<>>]
Sub(s) == [k |-> "sub", v |-> 0, q |-> "", c |-> "", sub |-> <<s>>]
Cond(q, c, op, val) == [op |-> op, q |-> q, c |-> c, val |-> val, vals |-> <<>>, sub |-> <<>>, ors |-> <<>>]
CondSub(q, c, op, s) == [Cond(q, c, op, Lit(Null)) EXCEPT !.sub = <<s>>]
Exists(s) == CondSub("", "", "EXISTS", s)
NotExists(s) == CondSub("", "", "NOT EXISTS", s)
OrC(x, y) == [Cond("", "", "OR", Lit(Null)) EXCEPT !.ors = <<<<x>>, <<y>>>>]
T(t) == [tab |-> t, alias |-> t]
As(t, al) == [tab |-> t, alias |-> al]
Sel(from, where, outs) == [with |-> <<>>, from |-> from, derived |-> <<>>, where |-> where, outs |-> outs,
                           agg |-> "", distinct |-> FALSE, limit |-> -1, next |-> <<>>]
Then(s, op, all, t) == [s EXCEPT !.next = <<[op |-> op, all |-> all, sel |-> t]>>]
With(m, s) == [s EXCEPT !.with = m]
M(name, cols, sel, rec) == [name |-> name, cols |-> cols, sel |-> sel, recursive |-> rec]

AK == <<Col("", "k")>>
Stmts == <<
 \* correlated EXISTS
 Sel(<<T("a")>>, <<Exists(Sel(<<T("b")>>, <<Cond("b", "y", "=", Col("a", "x"))>>, <<Col("", "k")>>))>>, <<Col("", "k"), Col("", "x")>>),
 \* mirrored comparison, outer reference on the left
 Sel(<<T("a")>>, <<NotExists(Sel(<<T("b")>>, <<Cond("a", "x", "<", Col("b", "y"))>>, <<Col("", "k")>>))>>, AK),
 \* IN correlated, shadowed k
 Sel(<<T("a")>>, <<CondSub("", "k", "IN", Sel(<<T("b")>>, <<Cond("", "y", "=", Col("", "x"))>>, <<Col("", "k")>>))>>, AK),
 \* NOT IN correlated
 Sel(<<T("a")>>, <<CondSub("", "k", "NOT IN", Sel(<<T("b")>>, <<Cond("b", "k", "=", Col("a", "k"))>>, <<Col("", "y")>>))>>, AK),
 \* scalar compare with aggregate
 Sel(<<T("a")>>, <<Cond("", "x", "=", Sub([Sel(<<T("b")>>, <<Cond("b", "k", "=", Col("a", "k"))>>, <<Col("", "y")>>) EXCEPT !.agg = "MAX"]))>>, AK),
 \* OR of a correlated and a plain
 Sel(<<T("a")>>, <<OrC(Cond("", "x", "=", Lit(0)), Exists(Sel(<<T("b")>>, <<Cond("", "y", "=", Col("a", "k"))>>, AK)))>>, AK),
 \* projection
 Sel(<<T("a")>>, <<>>, <<Col("", "k"), Sub([Sel(<<T("b")>>, <<Cond("b", "y", "=", Col("a", "x"))>>, <<Col("", "k")>>) EXCEPT !.agg = "COUNT"])>>),
 \* two levels, the innermost names both
 Sel(<<T("a")>>, <<Exists(Sel(<<T("b")>>, <<Cond("", "y", "=", Lit(1)), Exists(Sel(<<T("c")>>, <<Cond("c", "k", "=", Col("b", "k")), Cond("c", "k", "=", Col("a", "x"))>>, AK))>>, AK))>>, AK),
 \* two levels, innermost names only the outermost
 Sel(<<T("a")>>, <<Exists(Sel(<<T("b")>>, <<NotExists(Sel(<<T("c")>>, <<Cond("c", "k", "=", Col("", "x"))>>, AK))>>, AK))>>, AK),
 \* shadowing by alias: same table inside
 Sel(<<T("a")>>, <<Exists(Sel(<<As("a", "o")>>, <<Cond("o", "k", "!=", Col("a", "k")), Cond("o", "x", "=", Col("a", "x"))>>, AK))>>, AK),
 Sel(<<T("a")>>, <<Exists(Sel(<<T("a")>>, <<Cond("a", "x", "=", Col("a", "k"))>>, AK))>>, AK),
 \* join inside, join outside
 Sel(<<T("a"), T("c")>>, <<Exists(Sel(<<T("b")>>, <<Cond("b", "k", "=", Col("c", "k")), Cond("", "y", "=", Col("", "x"))>>, AK))>>, <<Col("a", "k"), Col("c", "k")>>),
 Sel(<<T("a")>>, <<Exists(Sel(<<T("b"), T("c")>>, <<Cond("b", "k", "=", Col("c", "k")), Cond("", "y", "=", Col("", "x"))>>, <<Col("c", "k")>>))>>, AK),
 \* uncorrelated
 Sel(<<T("a")>>, <<CondSub("", "x", "IN", Sel(<<T("b")>>, <<>>, <<Col("", "y")>>)), Cond("", "k", "=", Sub([Sel(<<T("c")>>, <<>>, AK) EXCEPT !.agg = "MAX"]))>>, AK),
 \* set operations
 Then(Sel(<<T("a")>>, <<>>, AK), "UNION", TRUE, Then(Sel(<<T("b")>>, <<>>, AK), "INTERSECT", FALSE, Sel(<<T("c")>>, <<>>, AK))),
 Then(Sel(<<T("a")>>, <<>>, <<Col("", "x")>>), "EXCEPT", TRUE, Then(Sel(<<T("b")>>, <<>>, <<Col("", "y")>>), "UNION", FALSE, Sel(<<T("c")>>, <<>>, AK))),
 Then(Sel(<<T("a")>>, <<>>, <<Col("", "x")>>), "INTERSECT", TRUE, Then(Sel(<<T("b")>>, <<>>, <<Col("", "y")>>), "EXCEPT", FALSE, Sel(<<T("c")>>, <<>>, AK))),
 [Then(Sel(<<T("a")>>, <<>>, <<Col("", "x")>>), "UNION", FALSE, Sel(<<T("b")>>, <<>>, <<Col("", "y")>>)) EXCEPT !.limit = 2],
 \* IN over a set operation
 Sel(<<T("a")>>, <<CondSub("", "x", "IN", Then(Sel(<<T("b")>>, <<>>, <<Col("", "y")>>), "EXCEPT", FALSE, Sel(<<T("c")>>, <<>>, AK)))>>, AK),
 \* WITH, seen by two uses and by a correlated subquery
 With(<<M("w", <<"u">>, Sel(<<T("b")>>, <<Cond("", "y", "=", Lit(1))>>, AK), FALSE),
        M("v", <<"z">>, Sel(<<T("w")>>, <<>>, <<Col("", "u")>>), FALSE)>>,
      Sel(<<T("a")>>, <<Exists(Sel(<<T("w"), T("v")>>, <<Cond("w", "u", "=", Col("v", "z")), Cond("", "u", "=", Col("a", "k"))>>, <<Col("", "u")>>))>>, AK)),
 \* recursive: reachability along b(k -> y)
 With(<<M("r", <<"n">>, Then(Sel(<<T("c")>>, <<>>, AK), "UNION", FALSE, Sel(<<T("b"), T("r")>>, <<Cond("b", "k", "=", Col("r", "n"))>>, <<Col("", "y")>>)), TRUE)>>,
      Sel(<<T("r")>>, <<>>, <<Col("", "n")>>)),
 \* recursive with ALL along a(k < x): strictly increasing
 With(<<M("r", <<"n">>, Then(Sel(<<T("c")>>, <<>>, AK), "UNION", TRUE, Sel(<<T("a"), T("r")>>, <<Cond("a", "k", "=", Col("r", "n")), Cond("a", "k", "<", Col("a", "x"))>>, <<Col("", "x")>>)), TRUE)>>,
      Sel(<<T("a")>>, <<CondSub("", "k", "IN", Sel(<<T("r")>>, <<>>, <<Col("", "n")>>))>>, AK)),
 \* derived
 [Sel(<<T("d")>>, <<CondSub("", "z", "IN", Sel(<<T("c")>>, <<>>, AK))>>, <<Col("d", "z")>>) EXCEPT !.derived = <<[sel |-> [Sel(<<T("b")>>, <<>>, <<Col("", "y")>>) EXCEPT !.distinct = TRUE], cols |-> <<"z">>]>>],
 \* scalar that may have several rows
 Sel(<<T("a")>>, <<Cond("", "x", "=", Sub(Sel(<<T("b")>>, <<Cond("b", "y", "=", Col("a", "k"))>>, AK)))>>, AK)
>>
MayFail == {24}
V == {0, 1, Null}
Rels == {[a |-> [cols |-> <<"k", "x">>, rows |-> <<<<0, x0>>, <<1, x1>>>>],
          b |-> [cols |-> <<"k", "y">>, rows |-> SubSeq(<<<<0, y0>>, <<1, y1>>>>, 1, n)],
          c |-> [cols |-> <<"k">>, rows |-> cr]] :
           x0 \in V, x1 \in V, y0 \in V, y1 \in V, n \in {0, 2}, cr \in {<<>>, <<<<0>>>>, <<<<1>>>>, <<<<0>>, <<1>>>>}}
Cases == [stmt : {Stmts[i] : i \in DOMAIN Stmts \ MayFail}, rels : Rels, mayFail : {FALSE}]
   \cup [stmt : {Stmts[i] : i \in MayFail}, rels : Rels, mayFail : {TRUE}]
=============================================================================
