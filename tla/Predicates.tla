------------------------------ MODULE Predicates ------------------------------
(***************************************************************************)
(* Conditions and scalar expressions: the recursive-descent parser of     *)
(* pkg/sql/parser (boolean operators, predicates, arithmetic, CASE), its  *)
(* lowering of the boolean tree to a conjunction of comparisons without   *)
(* NOT, and the two evaluators of pkg/sql/session.go, the two-valued one  *)
(* of WHERE and the three-valued one of predicates used as values.        *)
(*                                                                        *)
(* An environment is a condition (a tree), a row and nothing else.  The   *)
(* condition is written down with the fewest parentheses SQL's precedence *)
(* allows; what is read back, lowered and evaluated is compared with what *)
(* the tree means.                                                        *)
(***************************************************************************)
EXTENDS Integers, Sequences, SequencesExt

CONSTANTS Environments, \* the (condition, row) pairs under study
          Width         \* the width of an integer, in bits

VARIABLES env,          \* the environment: [tree, row]
          answer        \* empty, or what WHERE and the value form gave

vars == <<env, answer>>

----------------------------------------------------------------------------
(* Data.  A datum is [f, v, s]: its family, its number, its text.          *)

Null == [f |-> "null", v |-> 0, s |-> <<>>]
Err == [f |-> "err", v |-> 0, s |-> <<>>]
Int4(n) == [f |-> "int", v |-> n, s |-> <<>>]
Float(n) == [f |-> "float", v |-> n, s |-> <<>>]
Bool(b) == [f |-> "bool", v |-> IF b THEN 1 ELSE 0, s |-> <<>>]
Text(t) == [f |-> "text", v |-> 0, s |-> t]

MinInt == -(2 ^ (Width - 1))
MaxInt == 2 ^ (Width - 1) - 1
Wrap(n) == ((n - MinInt) % (2 ^ Width)) + MinInt

(* Go's division truncates towards zero.                                   *)
Quo(n, d) ==
    LET a == IF n < 0 THEN -n ELSE n
        b == IF d < 0 THEN -d ELSE d
    IN IF (n < 0) = (d < 0) THEN a \div b ELSE -(a \div b)

----------------------------------------------------------------------------
(* The parser.  A token is [k, t, d]: its kind, its text, and the datum of *)
(* a literal.  A parse at position i gives [ok, at, e]: whether it read    *)
(* something, where it stopped, and what it read.                          *)

Peek(ts, i) == IF i \in 1..Len(ts) THEN ts[i] ELSE [k |-> "eof", t |-> "", d |-> Null]
At(ts, i, words) == Peek(ts, i).k # "lit" /\ Peek(ts, i).t \in words

Read(i, e) == [ok |-> TRUE, at |-> i, e |-> e]
Fail == [ok |-> FALSE, at |-> 0, e |-> <<>>]

CmpOps == {"=", "!=", "<", "<=", ">", ">="}

(* An expression is [base, op, right]: an operand and, when op is not the *)
(* empty string, the operator and right operand applied to it.             *)
Expr(base) == [base |-> base, op |-> "", right |-> <<>>]
Lit(d) == Expr([k |-> "lit", d |-> d])

foldBinOp(lhs, op, rhs) ==
    IF lhs.op = "" THEN [lhs EXCEPT !.op = op, !.right = <<rhs>>]
    ELSE [base |-> [k |-> "left", e |-> lhs], op |-> op, right |-> <<rhs>>]

(* A comparison of the executor: the column or the computed left side, the *)
(* operator, the right side, the IN list, the disjuncts of an OR.          *)
Comparison(c, x, op) ==
    [col |-> c, expr |-> x, op |-> op, val |-> <<>>, vals |-> <<>>, or |-> <<>>, esc |-> <<>>]

IsTrue(base) == [base EXCEPT !.op = "=", !.val = <<Lit(Bool(TRUE))>>]

(* ESCAPE 'c' is kept as <<c>>, ESCAPE '' as a mark no character equals;   *)
(* no ESCAPE at all is the empty sequence.                                 *)
EscapeOf(d) == IF d.s = <<>> THEN <<"none">> ELSE d.s

Leaf(c) == [op |-> "leaf", kids |-> <<>>, leaf |-> <<c>>]
Node(op, kids) == [op |-> op, kids |-> kids, leaf |-> <<>>]

startsPredicateSuffix(ts, i) ==
    \/ At(ts, i, CmpOps \cup {"is", "in", "between", "like"})
    \/ At(ts, i, {"NOT"}) /\ At(ts, i + 1, {"in", "between", "like"})

continuesValue(ts, i) ==
    At(ts, i, {"+", "-", "*", "/", "^"}) \/ startsPredicateSuffix(ts, i)

(* The words after which a bare boolean column may stand.                  *)
EndsValue(ts, i) ==
    \/ Peek(ts, i).k \in {"eof", "kw"}
    \/ At(ts, i, {")", ",", "then", "when", "else"})

parseCmpOp(ts, i) ==
    IF At(ts, i, CmpOps) THEN Read(i + 1, Peek(ts, i).t)
    ELSE IF At(ts, i, {"like"}) THEN Read(i + 1, "LIKE")
    ELSE IF At(ts, i, {"NOT"}) /\ At(ts, i + 1, {"like"}) THEN Read(i + 2, "NOT LIKE")
    ELSE Fail

boolLeaf(e) ==
    IF e.op = "" /\ e.base.k = "cmp" THEN e.base.cmp
    ELSE IsTrue(Comparison("", <<e>>, ""))

boolValue(conds) ==
    Expr([k |-> "cmp",
          cmp |-> IF Len(conds) = 1 THEN conds[1]
                  ELSE [Comparison("", <<>>, "OR") EXCEPT !.or = <<conds>>]])

Negated ==
    [o \in {"=", "!=", "<", ">=", ">", "<=", "IS NULL", "IS NOT NULL", "IN", "NOT IN",
            "LIKE", "NOT LIKE", "IS TRUE", "IS NOT TRUE", "IS FALSE", "IS NOT FALSE",
            "IS DISTINCT FROM", "IS NOT DISTINCT FROM"} |->
       CASE o = "=" -> "!=" [] o = "!=" -> "=" [] o = "<" -> ">=" [] o = ">=" -> "<"
         [] o = ">" -> "<=" [] o = "<=" -> ">"
         [] o = "IS NULL" -> "IS NOT NULL" [] o = "IS NOT NULL" -> "IS NULL"
         [] o = "IN" -> "NOT IN" [] o = "NOT IN" -> "IN"
         [] o = "LIKE" -> "NOT LIKE" [] o = "NOT LIKE" -> "LIKE"
         [] o = "IS TRUE" -> "IS NOT TRUE" [] o = "IS NOT TRUE" -> "IS TRUE"
         [] o = "IS FALSE" -> "IS NOT FALSE" [] o = "IS NOT FALSE" -> "IS FALSE"
         [] o = "IS DISTINCT FROM" -> "IS NOT DISTINCT FROM"
         [] o = "IS NOT DISTINCT FROM" -> "IS DISTINCT FROM"]

RECURSIVE negateComparison(_)

(* One disjunct of an OR, negated: the OR of its negated conjuncts.        *)
NegatedDisjunct(d) ==
    LET alts == [j \in DOMAIN d |-> <<negateComparison(d[j])>>]
    IN IF Len(alts) = 1 THEN alts[1][1]
       ELSE [Comparison("", <<>>, "OR") EXCEPT !.or = alts]

negateComparison(c) ==
    IF c.op # "OR" THEN [c EXCEPT !.op = Negated[@]]
    ELSE LET conj == [i \in DOMAIN c.or |-> NegatedDisjunct(c.or[i])]
         IN IF Len(conj) = 1 THEN conj[1]
            ELSE [Comparison("", <<>>, "OR") EXCEPT !.or = <<conj>>]

(* a = x OR a = y is a IN (x, y).                                          *)
AsIn(ds) ==
    \A i \in DOMAIN ds :
       /\ Len(ds[i]) = 1
       /\ ds[i][1].op = "=" /\ ds[i][1].col # "" /\ ds[i][1].or = <<>>
       /\ ds[i][1].col = ds[1][1].col

orAsIn(ds) ==
    [Comparison(ds[1][1].col, <<>>, "IN") EXCEPT
        !.vals = [i \in DOMAIN ds |-> ds[i][1].val[1]]]

(* Conjuncts side by side, or the OR of the disjuncts. *)
Joined(and, kids) ==
    IF and THEN FlattenSeq(kids)
    ELSE IF AsIn(kids) THEN <<orAsIn(kids)>>
    ELSE <<[Comparison("", <<>>, "OR") EXCEPT !.or = kids]>>

RECURSIVE lowerBool(_, _)


lowerBool(n, negated) ==
    CASE n.op = "not" -> lowerBool(n.kids[1], ~negated)
      [] n.op = "leaf" -> <<IF negated THEN negateComparison(n.leaf[1]) ELSE n.leaf[1]>>
      [] OTHER -> Joined((n.op = "and") # negated, [i \in DOMAIN n.kids |-> lowerBool(n.kids[i], negated)])

(* The rules of the grammar call each other through Parse, which reads the   *)
(* named rule at position i.                                                 *)
RECURSIVE Parse(_, _, _), MoreOr(_, _, _), MoreAnd(_, _, _), MoreAdd(_, _), MoreMul(_, _),
          MorePow(_, _), MoreValues(_, _, _), MoreWhens(_, _, _)

(* The factors of an AND and the terms of an OR, from the ones read.       *)
MoreAnd(ts, i, kids) ==
    IF ~At(ts, i, {"AND"}) THEN Read(i, kids)
    ELSE LET k == Parse("factor", ts, i + 1)
         IN IF k.ok THEN MoreAnd(ts, k.at, Append(kids, k.e)) ELSE Fail

MoreOr(ts, i, kids) ==
    IF ~At(ts, i, {"OR"}) THEN Read(i, kids)
    ELSE LET k == Parse("and", ts, i + 1)
         IN IF k.ok THEN MoreOr(ts, k.at, Append(kids, k.e)) ELSE Fail

(* What was read as a list is one node, the only member when it is one.    *)
Grouped(op, r) ==
    IF ~r.ok THEN Fail
    ELSE Read(r.at, IF Len(r.e) = 1 THEN r.e[1] ELSE Node(op, r.e))

parseBoolAnd(ts, i) ==
    LET n == Parse("factor", ts, i)
    IN IF n.ok THEN Grouped("and", MoreAnd(ts, n.at, <<n.e>>)) ELSE Fail

parseBoolOr(ts, i) ==
    LET n == Parse("and", ts, i)
    IN IF n.ok THEN Grouped("or", MoreOr(ts, n.at, <<n.e>>)) ELSE Fail

(* The tree of an atomic predicate's conjuncts, [conds, not].              *)
Atom(r) ==
    LET n == IF Len(r.e.conds) = 1 THEN Leaf(r.e.conds[1])
             ELSE Node("and", [j \in DOMAIN r.e.conds |-> Leaf(r.e.conds[j])])
    IN IF ~r.ok THEN Fail ELSE Read(r.at, IF r.e.not THEN Node("not", <<n>>) ELSE n)

parseBoolFactor(ts, i) ==
    IF At(ts, i, {"NOT"})
    THEN LET k == Parse("factor", ts, i + 1)
         IN IF k.ok THEN Read(k.at, Node("not", <<k.e>>)) ELSE Fail
    ELSE LET n == IF At(ts, i, {"("}) THEN Parse("or", ts, i + 1) ELSE Fail
         IN IF n.ok /\ At(ts, n.at, {")"}) /\ ~continuesValue(ts, n.at + 1)
            THEN Read(n.at + 1, n.e)
            ELSE LET r == Parse("conjuncts", ts, i) IN IF r.ok THEN Atom(r) ELSE Fail

MoreValues(ts, i, vals) ==
    LET v == Parse("add", ts, i)
        all == Append(vals, v.e)
    IN IF ~v.ok THEN Fail
       ELSE IF At(ts, v.at, {","}) THEN MoreValues(ts, v.at + 1, all)
       ELSE IF At(ts, v.at, {")"}) THEN Read(v.at + 1, all) ELSE Fail

One(i, c) == Read(i, [conds |-> <<c>>, not |-> FALSE])

(* x IS [NOT] NULL | TRUE | FALSE | DISTINCT FROM y, from after IS.        *)
IsTest(ts, i, base) ==
    LET not == At(ts, i, {"NOT"})
        j == IF not THEN i + 1 ELSE i
        v == Parse("add", ts, j + 2)
    IN IF At(ts, j, {"NULL"}) THEN One(j + 1, [base EXCEPT !.op = IF not THEN "IS NOT NULL" ELSE "IS NULL"])
       ELSE IF At(ts, j, {"TRUE"}) THEN One(j + 1, [base EXCEPT !.op = IF not THEN "IS NOT TRUE" ELSE "IS TRUE"])
       ELSE IF At(ts, j, {"FALSE"}) THEN One(j + 1, [base EXCEPT !.op = IF not THEN "IS NOT FALSE" ELSE "IS FALSE"])
       ELSE IF At(ts, j, {"distinct"}) /\ At(ts, j + 1, {"FROM"}) /\ v.ok
       THEN One(v.at, [base EXCEPT !.op = IF not THEN "IS NOT DISTINCT FROM" ELSE "IS DISTINCT FROM",
                                   !.val = <<v.e>>])
       ELSE Fail

InSuffix(ts, i, base, not) ==
    LET vs == IF At(ts, i, {"("}) THEN MoreValues(ts, i + 1, <<>>) ELSE Fail
    IN IF vs.ok
       THEN One(vs.at, [base EXCEPT !.op = IF not THEN "NOT IN" ELSE "IN", !.vals = vs.e])
       ELSE Fail

BetweenSuffix(ts, i, base, not) ==
    LET symmetric == At(ts, i, {"symmetric"})
        lo == Parse("add", ts, IF symmetric THEN i + 1 ELSE i)
        hi == Parse("add", ts, lo.at + 1)
        End(f, e) == IF symmetric THEN Expr([k |-> "func", f |-> f, args |-> <<lo.e, hi.e>>]) ELSE e
    IN IF lo.ok /\ At(ts, lo.at, {"AND"}) /\ hi.ok
       THEN Read(hi.at,
                 [conds |-> <<[base EXCEPT !.op = ">=", !.val = <<End("least", lo.e)>>],
                              [base EXCEPT !.op = "<=", !.val = <<End("greatest", hi.e)>>]>>,
                  not |-> not])
       ELSE Fail

(* lhs op value, with the ESCAPE of a pattern; a boolean value on its own  *)
(* is compared with TRUE.                                                  *)
OpSuffix(ts, lhs, computed, base) ==
    LET op == parseCmpOp(ts, lhs.at)
        v == Parse("add", ts, op.at)
        cmp == [base EXCEPT !.op = op.e, !.val = <<v.e>>]
    IN IF op.ok
       THEN IF ~v.ok THEN Fail
            ELSE IF op.e \in {"LIKE", "NOT LIKE"} /\ At(ts, v.at, {"escape"})
            THEN One(v.at + 2, [cmp EXCEPT !.esc = EscapeOf(Peek(ts, v.at + 1).d)])
            ELSE One(v.at, cmp)
       ELSE IF computed
       THEN IF lhs.e.base.k \in {"func", "lit", "case"} THEN One(lhs.at, IsTrue(base)) ELSE Fail
       ELSE IF EndsValue(ts, lhs.at) THEN One(lhs.at, IsTrue(base)) ELSE Fail

Suffix(ts, lhs, computed, base, not, j) ==
    IF At(ts, lhs.at, {"is"}) THEN IsTest(ts, lhs.at + 1, base)
    ELSE IF At(ts, j, {"in"}) THEN InSuffix(ts, j + 1, base, not)
    ELSE IF At(ts, j, {"between"}) THEN BetweenSuffix(ts, j + 1, base, not)
    ELSE OpSuffix(ts, lhs, computed, base)

parseConjuncts(ts, i) ==
    LET lhs == Parse("add", ts, i)
        computed == lhs.e.base.k # "col" \/ lhs.e.op # ""
        not == At(ts, lhs.at, {"NOT"}) /\ At(ts, lhs.at + 1, {"in", "between"})
    IN IF ~lhs.ok THEN Fail
       ELSE Suffix(ts, lhs, computed,
                   IF computed THEN Comparison("", <<lhs.e>>, "") ELSE Comparison(lhs.e.base.c, <<>>, ""),
                   not, IF not THEN lhs.at + 1 ELSE lhs.at)

(* The rest of a boolean value after its first factor.                     *)
finishBoolValue(ts, i, first) ==
    LET lowered(o) == IF o.ok THEN Read(o.at, boolValue(lowerBool(o.e, FALSE))) ELSE Fail
        ored(a) == IF a.ok THEN lowered(Grouped("or", MoreOr(ts, a.at, <<a.e>>))) ELSE Fail
    IN ored(Grouped("and", MoreAnd(ts, i, <<first>>)))

FinishAtom(ts, a) == finishBoolValue(ts, a.at, a.e)

parseValueOrBool(ts, i) ==
    LET n == Parse("factor", ts, i)
        e == Parse("add", ts, i)
        r == Parse("conjuncts", ts, i)
    IN IF At(ts, i, {"NOT"})
       THEN IF n.ok THEN finishBoolValue(ts, n.at, n.e) ELSE Fail
       ELSE IF ~e.ok THEN Fail
       ELSE IF startsPredicateSuffix(ts, e.at)
       THEN IF r.ok THEN FinishAtom(ts, Atom(r)) ELSE Fail
       ELSE IF At(ts, e.at, {"AND", "OR"})
       THEN finishBoolValue(ts, e.at, Leaf(boolLeaf(e.e)))
       ELSE e

MoreAdd(ts, l) ==
    LET r == Parse("mul", ts, l.at + 1)
    IN IF ~l.ok \/ ~At(ts, l.at, {"+", "-"}) THEN l
       ELSE IF r.ok THEN MoreAdd(ts, Read(r.at, foldBinOp(l.e, Peek(ts, l.at).t, r.e))) ELSE Fail

MoreMul(ts, l) ==
    LET r == Parse("pow", ts, l.at + 1)
    IN IF ~l.ok \/ ~At(ts, l.at, {"*", "/"}) THEN l
       ELSE IF r.ok THEN MoreMul(ts, Read(r.at, foldBinOp(l.e, Peek(ts, l.at).t, r.e))) ELSE Fail

MorePow(ts, l) ==
    LET r == Parse("primary", ts, l.at + 1)
    IN IF ~l.ok \/ ~At(ts, l.at, {"^"}) THEN l
       ELSE IF r.ok THEN MorePow(ts, Read(r.at, foldBinOp(l.e, "^", r.e))) ELSE Fail

parseAddExpr(ts, i) == MoreAdd(ts, Parse("mul", ts, i))
parseMulExpr(ts, i) == MoreMul(ts, Parse("pow", ts, i))
parsePowExpr(ts, i) == MorePow(ts, Parse("primary", ts, i))

(* WHEN condition THEN value ..., from the ones read.                      *)
MoreWhens(ts, i, whens) ==
    LET c == Parse("or", ts, i + 1)
        v == Parse("add", ts, c.at + 1)
    IN IF ~At(ts, i, {"when"}) THEN Read(i, whens)
       ELSE IF c.ok /\ At(ts, c.at, {"then"}) /\ v.ok
       THEN MoreWhens(ts, v.at, Append(whens, [cond |-> lowerBool(c.e, FALSE), res |-> v.e]))
       ELSE Fail

parseCase(ts, i) ==
    LET ws == MoreWhens(ts, i + 1, <<>>)
        els == At(ts, ws.at, {"else"})
        e == Parse("add", ts, ws.at + 1)
        j == IF els THEN e.at ELSE ws.at
    IN IF ws.ok /\ ws.e # <<>> /\ (els => e.ok) /\ At(ts, j, {"END"})
       THEN Read(j + 1, Expr([k |-> "case", whens |-> ws.e, els |-> IF els THEN <<e.e>> ELSE <<>>]))
       ELSE Fail

(* A literal, or a number with a minus sign before it.                     *)
parseValueExpr(ts, i) ==
    LET neg == At(ts, i, {"-"})
        j == IF neg THEN i + 1 ELSE i
        t == Peek(ts, j)
    IN CASE t.k = "lit" -> Read(j + 1, Lit(IF neg THEN [t.d EXCEPT !.v = -@] ELSE t.d))
         [] At(ts, j, {"TRUE"}) -> Read(j + 1, Lit(Bool(TRUE)))
         [] At(ts, j, {"FALSE"}) -> Read(j + 1, Lit(Bool(FALSE)))
         [] At(ts, j, {"NULL"}) -> Read(j + 1, Lit(Null))
         [] OTHER -> Fail

parsePrimaryExpr(ts, i) ==
    IF At(ts, i, {"("}) /\ At(ts, i + 1, {"NOT"})
    THEN LET n == Parse("or", ts, i + 1)
         IN IF n.ok /\ At(ts, n.at, {")"}) THEN Read(n.at + 1, boolValue(lowerBool(n.e, FALSE))) ELSE Fail
    ELSE IF At(ts, i, {"("})
    THEN LET e == Parse("value or bool", ts, i + 1)
         IN IF e.ok /\ At(ts, e.at, {")"}) THEN Read(e.at + 1, e.e) ELSE Fail
    ELSE IF At(ts, i, {"case"}) THEN parseCase(ts, i)
    ELSE IF Peek(ts, i).k = "id" THEN Read(i + 1, Expr([k |-> "col", c |-> Peek(ts, i).t]))
    ELSE parseValueExpr(ts, i)

Parse(rule, ts, i) ==
    CASE rule = "or" -> parseBoolOr(ts, i)
      [] rule = "and" -> parseBoolAnd(ts, i)
      [] rule = "factor" -> parseBoolFactor(ts, i)
      [] rule = "conjuncts" -> parseConjuncts(ts, i)
      [] rule = "value or bool" -> parseValueOrBool(ts, i)
      [] rule = "add" -> parseAddExpr(ts, i)
      [] rule = "mul" -> parseMulExpr(ts, i)
      [] rule = "pow" -> parsePowExpr(ts, i)
      [] rule = "primary" -> parsePrimaryExpr(ts, i)

parseOptWhere(ts) ==
    LET whole(n) == IF n.ok /\ n.at = Len(ts) + 1 THEN Read(n.at, lowerBool(n.e, FALSE)) ELSE Fail
    IN whole(Parse("or", ts, 1))

----------------------------------------------------------------------------
(* Evaluation.  Err is an error the statement fails with.                  *)

applyArith(l, op, r) ==
    LET s == Wrap(l.v + r.v)
        d == Wrap(l.v - r.v)
        p == Wrap(l.v * r.v)
    IN CASE l.f = "null" \/ r.f = "null" -> Null
         [] op = "^" -> Float(l.v ^ r.v)
         [] l.f # "int" \/ r.f # "int" ->
              Float(CASE op = "+" -> l.v + r.v [] op = "-" -> l.v - r.v [] op = "*" -> l.v * r.v)
         [] op = "+" -> IF (s > l.v) # (r.v > 0) /\ r.v # 0 THEN Err ELSE Int4(s)
         [] op = "-" -> IF (d < l.v) # (r.v > 0) /\ r.v # 0 THEN Err ELSE Int4(d)
         [] op = "*" ->
              IF l.v = 0 \/ r.v = 0 THEN Int4(0)
              ELSE IF \/ Wrap(Quo(p, r.v)) # l.v
                      \/ l.v = -1 /\ r.v = MinInt
                      \/ r.v = -1 /\ l.v = MinInt
              THEN Err ELSE Int4(p)
         [] op = "/" -> IF r.v = 0 THEN Err ELSE Int4(Wrap(Quo(l.v, r.v)))

(* A LIKE pattern as the regular expression it becomes: a quoted character,*)
(* any character, or any run of characters.                                *)
escapeRune(esc) == IF esc = <<>> THEN "\\" ELSE esc[1]

RECURSIVE LikeFrom(_, _, _)
LikeFrom(pat, esc, escaped) ==
    IF pat = <<>> THEN <<>>
    ELSE LET c == Head(pat)
             Quoted == <<[k |-> "char", c |-> c]>>
         IN IF escaped THEN Quoted \o LikeFrom(Tail(pat), esc, FALSE)
            ELSE IF c = esc THEN LikeFrom(Tail(pat), esc, TRUE)
            ELSE (IF c = "%" THEN <<[k |-> "run", c |-> c]>>
                  ELSE IF c = "_" THEN <<[k |-> "any", c |-> c]>>
                  ELSE Quoted) \o LikeFrom(Tail(pat), esc, FALSE)

likeToRegexpEsc(pat, esc) == LikeFrom(pat, escapeRune(esc), FALSE)

(* The regular expression library, on these anchored patterns.             *)
RECURSIVE MatchString(_, _)
MatchString(re, t) ==
    IF re = <<>> THEN t = <<>>
    ELSE IF Head(re).k = "run"
    THEN \E n \in 0..Len(t) : MatchString(Tail(re), SubSeq(t, n + 1, Len(t)))
    ELSE /\ t # <<>>
         /\ Head(re).k = "any" \/ Head(re).c = Head(t)
         /\ MatchString(Tail(re), Tail(t))

cmpHolds(op, l, r) ==
    CASE op = "=" -> l = r [] op = "!=" -> l # r [] op = "<" -> l < r
      [] op = "<=" -> l <= r [] op = ">" -> l > r [] op = ">=" -> l >= r

applyCmpOpEsc(c, l, r) ==
    IF c.op \in {"LIKE", "NOT LIKE"}
    THEN MatchString(likeToRegexpEsc(r.s, c.esc), l.s) = (c.op = "LIKE")
    ELSE cmpHolds(c.op, l.v, r.v)

NullAware == {"IS TRUE", "IS NOT TRUE", "IS FALSE", "IS NOT FALSE", "IS DISTINCT FROM", "IS NOT DISTINCT FROM"}
BoolTests == NullAware \ {"IS DISTINCT FROM", "IS NOT DISTINCT FROM"}

boolTest(op, d) ==
    LET not == op \in {"IS NOT TRUE", "IS NOT FALSE"}
        want == op \in {"IS TRUE", "IS NOT TRUE"}
    IN IF d.f = "null" THEN not ELSE ((d.v = 1) = want) # not

distinctFrom(op, l, r) ==
    LET distinct == (l.f = "null") # (r.f = "null") \/ (l.f # "null" /\ r.f # "null" /\ l.v # r.v)
    IN distinct # (op = "IS NOT DISTINCT FROM")

applyNullAware(op, l, r) == IF op \in BoolTests THEN boolTest(op, l) ELSE distinctFrom(op, l, r)

RECURSIVE evalExprEnv(_, _), cond3(_, _), conds3(_, _, _), Or3(_, _, _), condsHold(_, _), evalCase(_, _, _)

(* The values of a list, up to the first that fails.                       *)
Vals(es, row) == [i \in DOMAIN es |-> evalExprEnv(es[i], row)]
Fails(vs) == \E i \in DOMAIN vs : vs[i].f = "err"

(* least() and greatest() skip NULLs.                                      *)
Extremum(f, vs) ==
    LET known == {i \in DOMAIN vs : vs[i].f # "null"}
    IN IF Fails(vs) THEN Err
       ELSE IF known = {} THEN Null
       ELSE vs[CHOOSE i \in known : \A j \in known :
                 IF f = "least" THEN vs[i].v <= vs[j].v ELSE vs[i].v >= vs[j].v]

evalCase(whens, els, row) ==
    LET from(hit) == CASE hit = "E" -> Err
                       [] hit = "T" -> evalExprEnv(Head(whens).res, row)
                       [] OTHER -> evalCase(Tail(whens), els, row)
    IN IF whens = <<>> THEN (IF els = <<>> THEN Null ELSE evalExprEnv(els[1], row))
       ELSE from(condsHold(Head(whens).cond, row))

OfTruth(t) == CASE t = "E" -> Err [] t = "U" -> Null [] OTHER -> Bool(t = "T")

EvalBase(b, row) ==
    CASE b.k = "lit" -> b.d
      [] b.k = "col" -> row[b.c]
      [] b.k = "left" -> evalExprEnv(b.e, row)
      [] b.k = "case" -> evalCase(b.whens, b.els, row)
      [] b.k = "func" -> Extremum(b.f, Vals(b.args, row))
      [] b.k = "cmp" -> OfTruth(cond3(b.cmp, row))

evalExprEnv(e, row) ==
    LET applied(base, rhs) == IF rhs.f = "err" THEN Err ELSE applyArith(base, e.op, rhs)
        from(base) == IF base.f = "err" \/ e.op = "" THEN base
                      ELSE applied(base, evalExprEnv(e.right[1], row))
    IN from(EvalBase(e.base, row))

Truth(b) == IF b THEN "T" ELSE "F"
Lhs(c, row) == IF c.expr # <<>> THEN evalExprEnv(c.expr[1], row) ELSE row[c.col]

(* The list of an IN, the one right side otherwise. *)
Rhs(c, row) ==
    CASE c.op \in {"IN", "NOT IN"} -> Vals(c.vals, row)
      [] c.op \in BoolTests \cup {"IS NULL", "IS NOT NULL"} -> <<Null>>
      [] OTHER -> Vals(c.val, row)

(* The first of the list that fails or equals d; 0 when none.              *)
FirstStop(vs, d) ==
    LET least(stops) == IF stops = {} THEN 0 ELSE CHOOSE i \in stops : \A j \in stops : i <= j
    IN least({i \in DOMAIN vs : vs[i].f = "err" \/ (vs[i].f # "null" /\ d.f # "null" /\ vs[i].v = d.v)})
SawNull(vs) == \E i \in DOMAIN vs : vs[i].f = "null"

(* The OR of the disjuncts under three-valued logic.                       *)
Or3(ds, row, unknown) ==
    LET from(t) == IF t \in {"E", "T"} THEN t ELSE Or3(Tail(ds), row, unknown \/ t = "U")
    IN IF ds = <<>> THEN (IF unknown THEN "U" ELSE "F") ELSE from(conds3(Head(ds), row, FALSE))

(* IN and NOT IN as a value: the list's first stop is at at.               *)
In3(c, d, vs, at) ==
    CASE d.f = "null" -> "U"
      [] d.f # "null" /\ at # 0 -> IF vs[at].f = "err" THEN "E" ELSE Truth(c.op = "IN")
      [] OTHER -> IF SawNull(vs) THEN "U" ELSE Truth(c.op # "IN")

(* A comparison on its two sides, r the list of the right ones; a NULL     *)
(* makes it unknown.                                                       *)
Test(c, l, r, unknown) ==
    IF c.op \in {"IS NULL", "IS NOT NULL"} THEN Truth((l.f = "null") = (c.op = "IS NULL"))
    ELSE IF r[1].f = "err" THEN "E"
    ELSE IF c.op \in NullAware THEN Truth(applyNullAware(c.op, l, r[1]))
    ELSE IF l.f = "null" \/ r[1].f = "null" THEN unknown
    ELSE Truth(applyCmpOpEsc(c, l, r[1]))

cond3(c, row) ==
    LET of(l, r) == IF l.f = "err" THEN "E"
                    ELSE IF c.op \in {"IN", "NOT IN"} THEN In3(c, l, r, FirstStop(r, l))
                    ELSE Test(c, l, r, "U")
    IN IF c.op = "OR" THEN Or3(c.or, row, FALSE) ELSE of(Lhs(c, row), Rhs(c, row))

conds3(cs, row, unknown) ==
    LET from(t) == IF t \in {"E", "F"} THEN t ELSE conds3(Tail(cs), row, unknown \/ t = "U")
    IN IF cs = <<>> THEN (IF unknown THEN "U" ELSE "T") ELSE from(cond3(Head(cs), row))

(* The first disjunct that does not fail to hold decides. *)
FirstOf(ts) ==
    LET least(alts) == IF alts = {} THEN "F" ELSE ts[CHOOSE i \in alts : \A j \in alts : i <= j]
    IN least({i \in DOMAIN ts : ts[i] # "F"})

(* Two-valued: one conjunct of a CASE condition or a computed comparison.  *)
Hold(c, row) ==
    LET listed(vs, at) == IF at # 0 /\ vs[at].f = "err" THEN "E" ELSE Truth((at # 0) = (c.op = "IN"))
        of(l, r) == IF l.f = "err" THEN "E"
                    ELSE IF c.op \in {"IN", "NOT IN"} THEN listed(r, FirstStop(r, l))
                    ELSE Test(c, l, r, "F")
    IN IF c.op = "OR" THEN FirstOf([i \in DOMAIN c.or |-> condsHold(c.or[i], row)])
       ELSE of(Lhs(c, row), Rhs(c, row))

condsHold(cs, row) ==
    LET from(t) == IF t # "T" THEN t ELSE condsHold(Tail(cs), row)
    IN IF cs = <<>> THEN "T" ELSE from(Hold(Head(cs), row))

matchesIn(c, l, vs, at) ==
    IF l.f = "null" THEN "F"
    ELSE IF at # 0 /\ vs[at].f = "err" THEN "E"
    ELSE Truth(IF c.op = "IN" THEN at # 0 ELSE at = 0 /\ ~SawNull(vs))

RECURSIVE matchesWhere(_, _)

(* One conjunct of a WHERE.                                                *)
MatchOne(c, row) ==
    LET of(l, r) == IF c.op \in {"IN", "NOT IN"} THEN matchesIn(c, l, r, FirstStop(r, l))
                    ELSE Test(c, l, r, "F")
    IN IF c.expr # <<>> THEN condsHold(<<c>>, row)
       ELSE IF c.op = "OR" THEN FirstOf([i \in DOMAIN c.or |-> matchesWhere(c.or[i], row)])
       ELSE of(row[c.col], Rhs(c, row))

matchesWhere(cs, row) ==
    LET from(t) == IF t # "T" THEN t ELSE matchesWhere(Tail(cs), row)
    IN IF cs = <<>> THEN "T" ELSE from(MatchOne(Head(cs), row))

----------------------------------------------------------------------------
(* Writing a condition down.  A node stands bare where its precedence is   *)
(* at least the level asked for, in parentheses otherwise.                 *)

T(k, t) == [k |-> k, t |-> t, d |-> Null]
Kw(t) == <<T("kw", t)>>
Id(t) == <<T("id", t)>>
Op(t) == <<T("op", t)>>

Prec(n) ==
    CASE n.n = "or" -> 1 [] n.n = "and" -> 2 [] n.n = "not" -> 3
      [] n.n \in {"cmp", "in", "between", "is", "like"} -> 4
      [] n.n = "bin" -> (CASE n.op \in {"+", "-"} -> 5 [] n.op \in {"*", "/"} -> 6 [] n.op = "^" -> 7)
      [] OTHER -> 8

NotWord(n) == IF n.not THEN Kw("NOT") ELSE <<>>

RECURSIVE Write(_, _), WriteList(_), WriteWhens(_)
Bare(n) ==
    CASE n.n \in {"or", "and"} ->
           Write(n.l, Prec(n)) \o Kw(IF n.n = "or" THEN "OR" ELSE "AND") \o Write(n.r, Prec(n) + 1)
      [] n.n = "not" -> Kw("NOT") \o Write(n.l, 3)
      [] n.n = "cmp" -> Write(n.l, 5) \o Op(n.op) \o Write(n.r, 5)
      [] n.n = "in" -> Write(n.l, 5) \o NotWord(n) \o Id("in") \o Op("(") \o WriteList(n.list) \o Op(")")
      [] n.n = "between" ->
           Write(n.l, 5) \o NotWord(n) \o Id("between") \o (IF n.sym THEN Id("symmetric") ELSE <<>>)
             \o Write(n.lo, 5) \o Kw("AND") \o Write(n.hi, 5)
      [] n.n = "is" ->
           Write(n.l, 5) \o Id("is") \o NotWord(n)
             \o (IF n.what = "DISTINCT" THEN Id("distinct") \o Kw("FROM") \o Write(n.r, 5) ELSE Kw(n.what))
      [] n.n = "like" ->
           Write(n.l, 5) \o NotWord(n) \o Id("like") \o Write(n.r, 5)
             \o (IF n.esc = <<>> THEN <<>> ELSE Id("escape") \o Write(n.esc[1], 8))
      [] n.n = "bin" -> Write(n.l, Prec(n)) \o Op(n.op) \o Write(n.r, Prec(n) + 1)
      [] n.n = "case" ->
           Id("case") \o WriteWhens(n.whens)
             \o (IF n.els = <<>> THEN <<>> ELSE Id("else") \o Write(n.els[1], 5)) \o Kw("END")
      [] n.n = "col" -> Id(n.c)
      [] n.n = "lit" ->
           CASE n.d.f = "null" -> Kw("NULL")
             [] n.d.f = "bool" -> Kw(IF n.d.v = 1 THEN "TRUE" ELSE "FALSE")
             [] n.d.f = "int" /\ n.d.v < 0 -> Op("-") \o <<[k |-> "lit", t |-> "", d |-> Int4(-n.d.v)]>>
             [] OTHER -> <<[k |-> "lit", t |-> "", d |-> n.d]>>

Write(n, level) ==
    LET written(w) == IF Prec(n) >= level THEN w ELSE Op("(") \o w \o Op(")") IN written(Bare(n))
WriteList(ns) == Write(Head(ns), 5) \o (IF Tail(ns) = <<>> THEN <<>> ELSE Op(",") \o WriteList(Tail(ns)))
WriteWhens(ws) ==
    IF ws = <<>> THEN <<>>
    ELSE Id("when") \o Write(Head(ws).cond, 1) \o Id("then") \o Write(Head(ws).res, 5) \o WriteWhens(Tail(ws))

----------------------------------------------------------------------------
(* Reading the condition of the environment and evaluating it on the row:  *)
(* as a WHERE, and as the value of a select item.                          *)

Init == env \in Environments /\ answer = <<>>

AsWhere(r) == IF r.ok THEN matchesWhere(r.e, env.row) ELSE "refused"
AsValue(r) == IF r.ok THEN evalExprEnv(r.e, env.row) ELSE Text(<<"refused">>)

Answer(ts) == [where |-> AsWhere(parseOptWhere(ts)),
               value |-> AsValue(Parse("value or bool", Op("(") \o ts \o Op(")"), 1))]

Execute ==
    /\ answer = <<>>
    /\ answer' = <<Answer(Write(env.tree, 1))>>
    /\ UNCHANGED env

Next == Execute

Spec == Init /\ [][Next]_vars /\ WF_vars(Next)

----------------------------------------------------------------------------
(* What a condition means: Kleene's logic over exact numbers.  An error    *)
(* (an overflow, a division by zero) is "E"; an operand that decides the   *)
(* connective hides the error of the other one, or does not.               *)

NotT(t) == CASE t = "T" -> "F" [] t = "F" -> "T" [] OTHER -> t

AndT(s, t) ==
    IF "E" \in {s, t} THEN {s, t} \cap {"E", "F", "U"}
    ELSE {IF "F" \in {s, t} THEN "F" ELSE IF "U" \in {s, t} THEN "U" ELSE "T"}

RECURSIVE Means(_, _), Value(_, _)

(* The relation of two values: UNKNOWN with a NULL, an error with an error.*)
Related(ls, rs, R(_, _)) ==
    UNION {IF "err" \in {l.f, r.f} THEN {"E"} \cup {"U" : f \in {l.f, r.f} \cap {"null"}}
           ELSE IF "null" \in {l.f, r.f} THEN {"U"}
           ELSE {Truth(R(l, r))} : l \in ls, r \in rs}

RECURSIVE Like(_, _, _)
Like(t, p, e) ==
    CASE p = <<>> -> t = <<>>
      [] p # <<>> /\ p[1] = e /\ Len(p) > 1 -> t # <<>> /\ t[1] = p[2] /\ Like(Tail(t), SubSeq(p, 3, Len(p)), e)
      [] p # <<>> /\ p[1] = "%" /\ e # "%" -> Like(t, Tail(p), e) \/ (t # <<>> /\ Like(Tail(t), p, e))
      [] OTHER -> t # <<>> /\ p[1] \in {"_", t[1]} /\ Like(Tail(t), Tail(p), e)

Conj(ss, ts) == UNION {AndT(s, t) : s \in ss, t \in ts}
Neg(ss) == {NotT(s) : s \in ss}

RECURSIVE AnyOf(_)
AnyOf(ss) == IF ss = <<>> THEN {"F"} ELSE Neg(Conj(Neg(Head(ss)), Neg(AnyOf(Tail(ss)))))

Holds(op, l, r) ==
    CASE op = "=" -> l.v = r.v [] op = "!=" -> ~(l.v = r.v) [] op = "<" -> l.v < r.v
      [] op = ">" -> r.v < l.v [] op = "<=" -> ~(r.v < l.v) [] op = ">=" -> ~(l.v < r.v)

AsTruth(d) == CASE d.f = "err" -> "E" [] d.f = "null" -> "U" [] OTHER -> Truth(d.v = 1)

Same(l, r) == IF "null" \in {l.f, r.f} THEN l.f = r.f ELSE l.v = r.v

MeansIs(n, row) ==
    LET ls == Value(n.l, row)
    IN {IF l.f = "err" THEN "E"
        ELSE CASE n.what = "NULL" -> Truth(l.f = "null")
               [] n.what = "TRUE" -> Truth(l.f = "bool" /\ l.v = 1)
               [] n.what = "FALSE" -> Truth(l.f = "bool" /\ l.v = 0) : l \in ls}

MeansDistinct(n, row) ==
    {IF "err" \in {l.f, r.f} THEN "E" ELSE Truth(~Same(l, r)) : l \in Value(n.l, row), r \in Value(n.r, row)}

MeansBetween(n, row) ==
    LET x == Value(n.l, row)
        lo == Value(n.lo, row)
        hi == Value(n.hi, row)
        GE(l, r) == Holds(">=", l, r)
        LE(l, r) == Holds("<=", l, r)
        Plain(a, b) == Conj(Related(x, a, GE), Related(x, b, LE))
    IN IF n.sym THEN AnyOf(<<Plain(lo, hi), Plain(hi, lo)>>) ELSE Plain(lo, hi)

Maybe(n, ss) == IF n.not THEN Neg(ss) ELSE ss

Means(n, row) ==
    CASE n.n = "and" -> Conj(Means(n.l, row), Means(n.r, row))
      [] n.n = "or" -> Neg(Conj(Neg(Means(n.l, row)), Neg(Means(n.r, row))))
      [] n.n = "not" -> Neg(Means(n.l, row))
      [] n.n = "cmp" -> LET R(l, r) == Holds(n.op, l, r)
                        IN Related(Value(n.l, row), Value(n.r, row), R)
      [] n.n = "in" -> LET R(l, r) == l.v = r.v
                       IN Maybe(n, AnyOf([i \in DOMAIN n.list |-> Related(Value(n.l, row), Value(n.list[i], row), R)]))
      [] n.n = "between" -> Maybe(n, MeansBetween(n, row))
      [] n.n = "is" -> Maybe(n, IF n.what = "DISTINCT" THEN MeansDistinct(n, row) ELSE MeansIs(n, row))
      [] n.n = "like" -> LET e == IF n.esc = <<>> THEN "\\" ELSE IF n.esc[1].d.s = <<>> THEN "none" ELSE n.esc[1].d.s[1]
                             R(l, r) == Like(l.s, r.s, e)
                         IN Maybe(n, Related(Value(n.l, row), Value(n.r, row), R))
      [] OTHER -> {AsTruth(d) : d \in Value(n, row)}

(* The exact result of an operator, an error when it has none.             *)
Exact(op, l, r) ==
    LET z == CASE op = "+" -> l.v + r.v [] op = "-" -> l.v - r.v [] op = "*" -> l.v * r.v
               [] op = "/" -> IF r.v = 0 THEN MaxInt + 1 ELSE Quo(l.v, r.v)
               [] op = "^" -> l.v ^ r.v
        floats == op = "^" \/ "float" \in {l.f, r.f}
    IN CASE "err" \in {l.f, r.f} -> Err
         [] "null" \in {l.f, r.f} -> Null
         [] floats -> Float(z)
         [] OTHER -> IF z \in MinInt..MaxInt THEN Int4(z) ELSE Err

RECURSIVE CaseValue(_, _, _)
CaseValue(whens, els, row) ==
    IF whens = <<>> THEN (IF els = <<>> THEN {Null} ELSE Value(els[1], row))
    ELSE UNION {CASE t = "E" -> {Err}
                  [] t = "T" -> Value(Head(whens).res, row)
                  [] OTHER -> CaseValue(Tail(whens), els, row) : t \in Means(Head(whens).cond, row)}

Value(n, row) ==
    CASE n.n = "col" -> {row[n.c]}
      [] n.n = "lit" -> {n.d}
      [] n.n = "bin" -> {Exact(n.op, l, r) : l \in Value(n.l, row), r \in Value(n.r, row)}
      [] n.n = "case" -> CaseValue(n.whens, n.els, row)
      [] OTHER -> {OfTruth(t) : t \in Means(n, row)}


----
(* The conditions: every pair of atoms under AND and OR, negated, tested,    *)
(* nested once more and inside CASE; arithmetic at the edges of three bits;  *)
(* LIKE with each kind of escape.                                            *)

A == [n |-> "col", c |-> "a"]
B == [n |-> "col", c |-> "b"]
P == [n |-> "col", c |-> "p"]
S == [n |-> "col", c |-> "s"]
N(i) == [n |-> "lit", d |-> Int4(i)]
Nil == [n |-> "lit", d |-> Null]
Tx(t) == [n |-> "lit", d |-> Text(t)]
Cmp(l, o, r) == [n |-> "cmp", op |-> o, l |-> l, r |-> r]
Bin(l, o, r) == [n |-> "bin", op |-> o, l |-> l, r |-> r]
And(l, r) == [n |-> "and", l |-> l, r |-> r]
Or(l, r) == [n |-> "or", l |-> l, r |-> r]
Not(l) == [n |-> "not", l |-> l]
In(l, list) == [n |-> "in", not |-> FALSE, l |-> l, list |-> list]
NotIn(l, list) == [n |-> "in", not |-> TRUE, l |-> l, list |-> list]
Between(l, lo, hi, not, sym) == [n |-> "between", not |-> not, sym |-> sym, l |-> l, lo |-> lo, hi |-> hi]
Is(l, what, not) == [n |-> "is", not |-> not, what |-> what, l |-> l]
Distinct(l, r, not) == [n |-> "is", not |-> not, what |-> "DISTINCT", l |-> l, r |-> r]
LikeN(l, r, esc, not) == [n |-> "like", not |-> not, l |-> l, r |-> r, esc |-> esc]
Case(c, v, els) == [n |-> "case", whens |-> <<[cond |-> c, res |-> v]>>, els |-> els]

Bools == {Cmp(A, "=", N(1)), Cmp(A, "=", B), NotIn(A, <<N(1), Nil>>), P, Cmp(Bin(A, "+", B), "<", N(3)),
          Between(A, N(0), B, TRUE, FALSE), Is(P, "TRUE", TRUE)}
Twos == UNION {{And(x, y), Or(x, y)} : x \in Bools, y \in Bools}
Trees1 == Twos \cup {Not(t) : t \in Twos} \cup {Is(t, w, n) : t \in Twos, w \in {"TRUE", "NULL"}, n \in BOOLEAN}
Trees2 == {Or(t, Cmp(A, "=", N(2))) : t \in Twos} \cup {And(Cmp(A, "!=", N(2)), t) : t \in Twos}
          \cup {Not(Or(Not(t), Cmp(B, ">=", N(0)))) : t \in Twos}
          \cup {Cmp(Case(t, B, e), "=", N(1)) : t \in {Or(x, y) : x \in Bools \ {NotIn(A, <<N(1), Nil>>)}, y \in Bools \ {NotIn(A, <<N(1), Nil>>)}}, e \in {<<>>, <<N(1)>>}}
Ops == {"+", "-", "*"}
Arith == {Cmp(Bin(Bin(A, o, B), q, N(3)), "<", N(2)) : o \in Ops, q \in Ops \cup {"/", "^"}}
         \cup {Cmp(Bin(A, o, Bin(B, q, N(3))), "<=", B) : o \in Ops, q \in Ops}
         \cup {Cmp(Bin(N(2), o, Bin(A, q, B)), ">", N(-3)) : o \in {"-", "*"}, q \in {"+", "*"}}
         \cup {Cmp(Bin(A, "/", B), "=", N(-1)), Cmp(Bin(A, "-", N(-3)), "=", N(1))}
Others == {Between(A, B, N(1), n, TRUE) : n \in BOOLEAN} \cup {Distinct(A, B, n) : n \in BOOLEAN}
          \cup {Distinct(Bin(A, "+", N(1)), Nil, n) : n \in BOOLEAN}
          \cup {In(A, <<B, N(2)>>), Not(In(A, <<B, Nil>>)), In(Bin(A, "+", N(1)), <<N(2), B>>)}
Pats == {Tx(<<"%">>), Tx(<<"x", "%">>), Tx(<<"%", "x">>), Tx(<<"_", "%">>), Tx(<<"\\", "%">>), Tx(<<"e", "_">>), Tx(<<"%", "x", "%", "x">>)}
Likes == {LikeN(S, p, e, n) : p \in Pats, e \in {<<>>, <<Tx(<<"e">>)>>, <<Tx(<<>>)>>}, n \in BOOLEAN}
Ints == {Null, Int4(-4), Int4(-1), Int4(0), Int4(1), Int4(2), Int4(3)}
Rows == {[a |-> a, b |-> b, p |-> p, s |-> Null] : a \in {Null, Int4(0), Int4(1), Int4(2)}, b \in {Null, Int4(1), Int4(3)}, p \in {Null, Bool(TRUE), Bool(FALSE)}}
RowsA == {[a |-> a, b |-> b, p |-> Null, s |-> Null] : a \in Ints, b \in Ints}
RowsO == {r \in RowsA : r.b.f # "null"}
RowsS == {[a |-> Null, b |-> Null, p |-> Null, s |-> t] : t \in {Null} \cup {Text(w) : w \in UNION {[1..n -> {"x", "%"}] : n \in 0..3}} \cup {Text(<<"\\", "x">>), Text(<<"e", "x">>), Text(<<"_">>)}}
Cases == [tree : Trees1 \cup Trees2, row : Rows]
   \cup [tree : Arith, row : {x \in RowsA : ~(x.a = Int4(-4) /\ x.b = Int4(-1))}]
   \cup [tree : Others, row : RowsO]
   \cup [tree : Likes, row : RowsS]
====
