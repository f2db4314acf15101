------------------------------ MODULE Columns ------------------------------
(***************************************************************************)
(* The columns of a table while its descriptor changes under its writers.  *)
(*                                                                         *)
(* A row's value maps column IDs to tagged datums (rowenc.go); what a      *)
(* reader sees depends on the descriptor it decodes with.  ADD COLUMN,     *)
(* DROP COLUMN, RENAME COLUMN, SET and DROP DEFAULT and TRUNCATE are one   *)
(* descriptor write each (exec.go, ddl.go).  ALTER COLUMN TYPE             *)
(* (retype.go) publishes a hidden shadow column, converts the rows and     *)
(* swaps; a re-shard (reshard.go) publishes a second layout, copies the    *)
(* rows and swaps.  Every gateway plans with the version it leased         *)
(* (SchemaChange.tla has the leases themselves) and moves to the newest    *)
(* one when it renews; a drain waits for all of them.                      *)
(***************************************************************************)
EXTENDS Integers, Sequences, FiniteSets, FiniteSetsExt, SequencesExt, Functions

CONSTANT Environments

VARIABLES env,     \* the scenario: see Cases
          descs,   \* every version of the descriptor, the newest last
          lease,   \* gateway -> the version it plans with
          rows,    \* layout -> primary key -> row value
          retype,  \* the ALTER COLUMN TYPE statement
          reshard, \* the re-shard statement
          wiping,  \* layouts the janitor is about to wipe
          logical, \* what the table holds: primary key -> column -> datum
          left     \* statements that may still be issued

vars == <<env, descs, lease, rows, retype, reshard, wiping, logical, left>>

-----------------------------------------------------------------------------
(* Datums, columns and row values.                                         *)

DNull == [type |-> "null", v |-> 0]
Datum(t, v) == [type |-> t, v |-> v]
IsNull(d) == d = DNull

\* The cast between types; a value the new type cannot hold is refused.
Converts(d, t) == IsNull(d) \/ d.type = t \/ d.v \notin env.refused
ConvertTo(d, t) == IF IsNull(d) THEN d ELSE Datum(t, d.v)

\* A column.  obj is the column as the user knows it: a rewrite of its type
\* moves it to a new ID.  def is the constant default, expr the expression
\* default, each a sequence of at most one datum.
Column(id, obj, name, t) ==
  [id |-> id, obj |-> obj, name |-> name, type |-> t, hidden |-> FALSE,
   from |-> 0, fill |-> FALSE, def |-> <<>>, expr |-> <<>>]

Ids(d) == {c.id : c \in ToSet(d.cols)}
ColByID(d, id) == CHOOSE c \in ToSet(d.cols) : c.id = id
Visible(d) == {c \in ToSet(d.cols) : ~c.hidden}
Named(d, n) == {c \in Visible(d) : c.name = n}

\* The shadow's value is the original's, converted, on every write.
Derived(d, row) ==
  LET shadows == {c \in ToSet(d.cols) : c.from # 0 /\ c.from \in DOMAIN row}
  IN [id \in DOMAIN row \union {c.id : c \in shadows} |->
        IF \E c \in shadows : c.id = id
        THEN ConvertTo(row[ColByID(d, id).from], ColByID(d, id).type) ELSE row[id]]

Encodes(d, row) ==
  \A c \in ToSet(d.cols) :
    c.from # 0 /\ c.from \in DOMAIN row => Converts(row[c.from], c.type)

\* A NULL is omitted, except in a column that absence would fill.
EncodeValue(d, row) ==
  LET r == Derived(d, row)
  IN Restrict(r, {id \in DOMAIN r : ~IsNull(r[id]) \/ ColByID(d, id).fill})

\* Columns the descriptor does not know, and payloads of another type, are
\* skipped; then what is absent from a fill-on-read column is its default.
DecodeValue(d, value) ==
  LET known  == {id \in DOMAIN value \intersect Ids(d) :
                   IsNull(value[id]) \/ value[id].type = ColByID(d, id).type}
      filled == {c.id : c \in {x \in ToSet(d.cols) : x.fill /\ x.def # <<>>}} \ known
  IN [id \in known \union filled |->
        IF id \in known THEN value[id] ELSE ColByID(d, id).def[1]]

\* An omitted column takes its expression default, else the constant.
defaultValue(c) ==
  IF c.expr # <<>> THEN ConvertTo(c.expr[1], c.type)
  ELSE IF c.def # <<>> THEN c.def[1] ELSE DNull

ReadCol(d, value, c) ==
  LET row == DecodeValue(d, value) IN IF c.id \in DOMAIN row THEN row[c.id] ELSE DNull

-----------------------------------------------------------------------------
(* Descriptors and leases.                                                 *)

Newest == Len(descs)
Latest == descs[Newest]
Layouts(d) == {d.live} \union (IF d.shadow = 0 THEN {} ELSE {d.shadow})
Drained(v) == \A g \in env.gateways : lease[g] >= v

\* Catalog.Update: the next version; the gateway that ran the statement
\* plans with it at once.
Update(g, d, kind) ==
  /\ descs' = Append(descs, [d EXCEPT !.kind = kind])
  /\ lease' = [lease EXCEPT ![g] = Newest + 1]

\* Version-safe: a statement changes only the newest descriptor.
MayAlter(g) == lease[g] = Newest

\* Unless the scenario is eager, a gateway ahead of another one does not
\* write while the difference adds or moves a column or a layout.
Settled(g) ==
  \/ env.eager
  \/ \A v \in 1..lease[g] :
       (\E h \in env.gateways : lease[h] < v)
         => descs[v].kind \notin {"add", "swap", "reshard", "reswap"}

Renew(g) == /\ lease[g] < Newest
            /\ lease' = [lease EXCEPT ![g] = Newest]
            /\ UNCHANGED <<env, descs, rows, retype, reshard, wiping, logical, left>>

-----------------------------------------------------------------------------
(* INSERT, UPDATE and DELETE, each planned with the gateway's descriptor.  *)

Store(d, k, value) ==
  rows' = [l \in DOMAIN rows |->
             IF l \in Layouts(d) THEN (k :> value) @@ rows[l] ELSE rows[l]]

\* What the statement means: the columns it knows get what it wrote.  A
\* statement planned before a TRUNCATE is one that came before it.
Means(d, k, row) ==
  logical' =
    IF Latest.live \notin Layouts(d) THEN logical
    ELSE (k :> [o \in {c.obj : c \in Visible(Latest)} |->
                  LET mine == {c \in Visible(d) : c.obj = o}
                      new  == CHOOSE c \in Visible(Latest) : c.obj = o
                  IN IF mine = {} THEN
                       IF k \in DOMAIN logical THEN logical[k][o]
                       ELSE IF new.fill THEN new.def[1] ELSE DNull
                     ELSE LET c == CHOOSE c \in mine : TRUE
                          IN ConvertTo(IF c.id \in DOMAIN row THEN row[c.id] ELSE DNull,
                                       new.type)]) @@ logical

Wrote(g, d, k, row) ==
  /\ Settled(g)
  /\ Encodes(d, row)
  /\ Store(d, k, EncodeValue(d, row))
  /\ Means(d, k, row)
  /\ left' = [left EXCEPT !.writes = @ - 1]
  /\ UNCHANGED <<env, descs, lease, retype, reshard, wiping>>

Writable(c) == {Datum(c.type, v) : v \in env.values}
                 \union (IF env.nulls \/ ~c.fill THEN {DNull} ELSE {})

\* buildInsertRow and insertRow: one column given, the others by default.
Insert(g, k) ==
  /\ left.writes > 0
  /\ LET d == descs[lease[g]] IN
     /\ k \notin DOMAIN rows[d.live]
     /\ \E c \in Visible(d) : \E x \in Writable(c) :
          Wrote(g, d, k, [id \in Ids(d) |->
                            IF id = c.id THEN x ELSE defaultValue(ColByID(d, id))])

UpdateRow(g, k) ==
  /\ left.writes > 0
  /\ LET d == descs[lease[g]] IN
     /\ k \in DOMAIN rows[d.live]
     /\ \E c \in Visible(d) : \E x \in Writable(c) :
          Wrote(g, d, k, (c.id :> x) @@ DecodeValue(d, rows[d.live][k]))

Delete(g, k) ==
  /\ left.writes > 0
  /\ Settled(g)
  /\ LET d == descs[lease[g]] IN
     /\ k \in DOMAIN rows[d.live]
     /\ rows' = [l \in DOMAIN rows |->
                   IF l \in Layouts(d) THEN Restrict(rows[l], DOMAIN rows[l] \ {k})
                   ELSE rows[l]]
     /\ logical' = IF Latest.live \in Layouts(d)
                   THEN Restrict(logical, DOMAIN logical \ {k}) ELSE logical
  /\ left' = [left EXCEPT !.writes = @ - 1]
  /\ UNCHANGED <<env, descs, lease, retype, reshard, wiping>>

-----------------------------------------------------------------------------
(* The statements that are one descriptor write.                           *)

Altered(g, d, kind) ==
  /\ MayAlter(g) /\ left.alters > 0
  /\ Update(g, d, kind)
  /\ left' = [left EXCEPT !.alters = @ - 1]
  /\ UNCHANGED <<env, retype, reshard, wiping>>

\* Column IDs are never reused; a default fills the rows there are.
AddedColumn(d, name, t, def) ==
  [d EXCEPT !.cols = Append(@, [Column(d.next, d.next, name, t) EXCEPT
                                  !.def = def, !.fill = def # <<>>]),
            !.next = @ + 1]

AddColumn(g) ==
  \E name \in env.names, def \in env.defaults :
    /\ Named(Latest, name) = {}
    /\ Altered(g, AddedColumn(Latest, name, "int", def), "add")
    /\ logical' = [k \in DOMAIN logical |->
                     (Latest.next :> IF def = <<>> THEN DNull ELSE def[1]) @@ logical[k]]
    /\ UNCHANGED rows

DropColumn(g) ==
  \E c \in Visible(Latest) :
    /\ Altered(g, [Latest EXCEPT !.cols = SelectSeq(@, LAMBDA x : x.id # c.id)], "drop")
    /\ logical' = [k \in DOMAIN logical |->
                     Restrict(logical[k], DOMAIN logical[k] \ {c.obj})]
    /\ UNCHANGED rows

Replaced(d, c, new) ==
  [d EXCEPT !.cols = [i \in DOMAIN @ |-> IF @[i].id = c.id THEN new ELSE @[i]]]

execRenameColumn(g) ==
  \E c \in Visible(Latest), name \in env.names :
    /\ Named(Latest, name) = {}
    /\ Altered(g, Replaced(Latest, c, [c EXCEPT !.name = name]), "rename")
    /\ UNCHANGED <<rows, logical>>

\* The constant of a fill-on-read column keeps filling its old rows: the
\* new default is stored as the expression default, NULL for none.
WithDefault(c, x) ==
  IF c.fill THEN [c EXCEPT !.expr = <<x>>]
  ELSE IF IsNull(x) THEN [c EXCEPT !.def = <<>>, !.expr = <<>>]
  ELSE [c EXCEPT !.def = <<x>>, !.expr = <<>>]

execSetDefault(g) ==
  \E c \in Visible(Latest) :
    \E x \in {DNull} \union {Datum(c.type, v) : v \in env.values} :
      /\ IsNull(x) => env.nulls \/ ~c.fill
      /\ Altered(g, Replaced(Latest, c, WithDefault(c, x)), "default")
      /\ UNCHANGED <<rows, logical>>

\* TRUNCATE moves the table to a fresh layout and retires the old one.
truncateLayout(d) ==
  LET next == Max({d.idx, d.live + 1})
  IN [d EXCEPT !.live = next, !.idx = next + 1, !.retired = @ \union {d.live}]

execTruncate(g) ==
  /\ env.truncates
  /\ Latest.shadow = 0
  /\ Altered(g, truncateLayout(Latest), "truncate")
  /\ rows' = (truncateLayout(Latest).live :> <<>>) @@ rows
  /\ logical' = <<>>

\* The janitor drops the expired layouts from the descriptor, a version of
\* its own, and then wipes them.  They expire after the GC TTL, hours, and a
\* lease after seconds: no gateway still plans with an expired layout.
RunReshardJanitorOnce ==
  /\ wiping = {} /\ Latest.retired # {} /\ left.janitors > 0
  /\ \A g \in env.gateways : descs[lease[g]].live \notin Latest.retired
  /\ descs' = Append(descs, [Latest EXCEPT !.retired = {}, !.kind = "janitor"])
  /\ wiping' = Latest.retired
  /\ left' = [left EXCEPT !.janitors = @ - 1]
  /\ UNCHANGED <<env, lease, rows, retype, reshard, logical>>

WipeIndexEntries ==
  \E l \in wiping :
    /\ rows' = [rows EXCEPT ![l] = <<>>]
    /\ wiping' = wiping \ {l}
    /\ UNCHANGED <<env, descs, lease, retype, reshard, logical, left>>

-----------------------------------------------------------------------------
(* ALTER COLUMN TYPE: publish, drain, convert, swap, drain.                *)

Idle == [pc |-> "idle", g |-> 0, old |-> 0, shadow |-> 0, ver |-> 0, todo |-> {}, layout |-> 0]

RetypePublish(g) ==
  LET d == Latest IN
  /\ retype.pc = "idle" /\ left.retypes > 0
  /\ MayAlter(g)
  /\ d.shadow = 0
  /\ \A c \in ToSet(d.cols) : c.from = 0
  /\ \E c \in Visible(d) :
       /\ c.type = "int"
       /\ Update(g, [d EXCEPT !.cols = Append(@, [Column(d.next, c.obj, "", "text") EXCEPT
                                                    !.hidden = TRUE, !.from = c.id]),
                              !.next = @ + 1], "publish")
       /\ retype' = [Idle EXCEPT !.pc = "drain", !.g = g, !.old = c.id,
                                 !.shadow = d.next, !.ver = Newest + 1]
  /\ left' = [left EXCEPT !.retypes = @ - 1]
  /\ UNCHANGED <<env, rows, reshard, wiping, logical>>


\* The drain, and the plan of the sweep: the rows there are at the boundary,
\* in the layout that is then live.
RetypePlan ==
  /\ retype.pc = "drain" /\ Drained(retype.ver)
  /\ LET l == descs[lease[retype.g]].live
     IN retype' = [retype EXCEPT !.pc = "backfill", !.layout = l, !.todo = DOMAIN rows[l]]
  /\ UNCHANGED <<env, descs, lease, rows, reshard, wiping, logical, left>>

\* One chunk in its own transaction: rows that already carry the shadow, and
\* NULLs, are left; the others are written back and the hook converts them.
RetypeChunk ==
  /\ retype.pc = "backfill" /\ retype.todo # {}
  /\ LET d   == descs[lease[retype.g]]
         k   == Min(retype.todo)
         l   == retype.layout
         row == IF k \in DOMAIN rows[l] THEN DecodeValue(d, rows[l][k]) ELSE <<>>
         has == retype.old \in DOMAIN row /\ retype.shadow \notin DOMAIN row
     IN IF \/ retype.shadow \notin Ids(d)
           \/ has /\ ~Converts(row[retype.old], "text")
        THEN retype' = [retype EXCEPT !.pc = "abandon"] /\ UNCHANGED rows
        ELSE /\ retype' = [retype EXCEPT !.todo = @ \ {k}]
             /\ rows' = IF has THEN [rows EXCEPT ![l][k] = EncodeValue(d, row)] ELSE rows
  /\ UNCHANGED <<env, descs, lease, reshard, wiping, logical, left>>

\* The shadow takes the column's name, place and defaults; the original is
\* dropped, its bytes skipped from now on.
RetypeSwap ==
  /\ retype.pc = "backfill" /\ retype.todo = {} /\ MayAlter(retype.g)
  /\ LET d == Latest IN
     IF {retype.old, retype.shadow} \subseteq Ids(d)
     THEN LET old == ColByID(d, retype.old)
              new == [ColByID(d, retype.shadow) EXCEPT
                        !.name = old.name, !.hidden = FALSE, !.from = 0,
                        !.def = IF old.def = <<>> THEN <<>>
                                ELSE <<ConvertTo(old.def[1], "text")>>,
                        !.fill = old.fill, !.expr = old.expr]
              cut == SelectSeq(d.cols, LAMBDA c : c.id # retype.shadow)
          IN IF old.def # <<>> /\ ~Converts(old.def[1], "text")
             THEN retype' = [retype EXCEPT !.pc = "abandon"]
                  /\ UNCHANGED <<descs, lease, logical>>
             ELSE /\ Update(retype.g, Replaced([d EXCEPT !.cols = cut], old, new), "swap")
                  /\ retype' = [retype EXCEPT !.pc = "done", !.ver = Newest + 1]
                  /\ logical' = [k \in DOMAIN logical |->
                                   [logical[k] EXCEPT ![old.obj] = ConvertTo(@, "text")]]
     ELSE retype' = [retype EXCEPT !.pc = "abandon"] /\ UNCHANGED <<descs, lease, logical>>
  /\ UNCHANGED <<env, rows, reshard, wiping, left>>

\* A failure or a cancelled statement removes the shadow and drains.
RetypeCancel ==
  /\ retype.pc = "backfill" /\ left.cancels > 0
  /\ retype' = [retype EXCEPT !.pc = "abandon"]
  /\ left' = [left EXCEPT !.cancels = @ - 1]
  /\ UNCHANGED <<env, descs, lease, rows, reshard, wiping, logical>>

RetypeAbandon ==
  /\ retype.pc = "abandon" /\ MayAlter(retype.g)
  /\ Update(retype.g, [Latest EXCEPT !.cols = SelectSeq(@, LAMBDA c : c.id # retype.shadow)],
            "abandon")
  /\ retype' = [retype EXCEPT !.pc = "done", !.ver = Newest + 1]
  /\ UNCHANGED <<env, rows, reshard, wiping, logical, left>>

RetypeDone ==
  /\ retype.pc = "done" /\ Drained(retype.ver)
  /\ retype' = Idle
  /\ UNCHANGED <<env, descs, lease, rows, reshard, wiping, logical, left>>

-----------------------------------------------------------------------------
(* ALTER TABLE SET (shards = n): publish, drain, copy, swap, drain.        *)

ReshardPublish(g) ==
  LET d   == Latest
      new == Max({d.idx, d.live + 1})
  IN /\ reshard.pc = "idle" /\ left.reshards > 0
     /\ MayAlter(g)
     /\ d.shadow = 0
     /\ env.beside \/ retype.pc = "idle"
     /\ Update(g, [d EXCEPT !.shadow = new, !.idx = new + 1], "reshard")
     /\ rows' = (new :> <<>>) @@ rows
     /\ reshard' = [Idle EXCEPT !.pc = "drain", !.g = g, !.shadow = new,
                                !.ver = Newest + 1, !.layout = d.live]
     /\ left' = [left EXCEPT !.reshards = @ - 1]
     /\ UNCHANGED <<env, retype, wiping, logical>>

ReshardPlan ==
  /\ reshard.pc = "drain" /\ Drained(reshard.ver)
  /\ reshard' = [reshard EXCEPT !.pc = "backfill", !.todo = DOMAIN rows[reshard.layout]]
  /\ UNCHANGED <<env, descs, lease, rows, retype, wiping, logical, left>>

\* A chunk copies the value bytes verbatim; several workers take them.
reshardChunk ==
  /\ reshard.pc = "backfill"
  /\ \E k \in reshard.todo :
       /\ reshard' = [reshard EXCEPT !.todo = @ \ {k}]
       /\ rows' = IF k \in DOMAIN rows[reshard.layout]
                  THEN [rows EXCEPT ![reshard.shadow] =
                          (k :> rows[reshard.layout][k]) @@ @]
                  ELSE rows
  /\ UNCHANGED <<env, descs, lease, retype, wiping, logical, left>>

ReshardSwap ==
  /\ reshard.pc = "backfill" /\ reshard.todo = {} /\ MayAlter(reshard.g)
  /\ Update(reshard.g, [Latest EXCEPT !.live = reshard.shadow, !.shadow = 0,
                                      !.retired = @ \union {Latest.live}], "reswap")
  /\ reshard' = [reshard EXCEPT !.pc = "done", !.ver = Newest + 1]
  /\ UNCHANGED <<env, rows, retype, wiping, logical, left>>

ReshardAbandon ==
  /\ reshard.pc = "backfill" /\ MayAlter(reshard.g) /\ left.cancels > 0
  /\ Update(reshard.g, [Latest EXCEPT !.shadow = 0], "unshard")
  /\ reshard' = [reshard EXCEPT !.pc = "wipe", !.ver = Newest + 1]
  /\ left' = [left EXCEPT !.cancels = @ - 1]
  /\ UNCHANGED <<env, rows, retype, wiping, logical>>

ReshardDone ==
  /\ reshard.pc \in {"done", "wipe"} /\ Drained(reshard.ver)
  /\ rows' = IF reshard.pc = "wipe" THEN [rows EXCEPT ![reshard.shadow] = <<>>] ELSE rows
  /\ reshard' = Idle
  /\ UNCHANGED <<env, descs, lease, retype, wiping, logical, left>>

-----------------------------------------------------------------------------

\* One column, one layout, and the rows the scenario starts with.
Init ==
  /\ env \in Environments
  /\ descs = <<[cols |-> <<Column(1, 1, "a", "int")>>, next |-> 2, live |-> 1, idx |-> 2,
                shadow |-> 0, retired |-> {}, kind |-> "create"]>>
  /\ lease = [g \in env.gateways |-> 1]
  /\ rows = (1 :> [k \in env.loaded |-> (1 :> Datum("int", 1))])
  /\ logical = [k \in env.loaded |-> (1 :> Datum("int", 1))]
  /\ retype = Idle /\ reshard = Idle /\ wiping = {}
  /\ left = env.left

Gateway(g) ==
  \/ Renew(g)
  \/ \E k \in env.keys : Insert(g, k) \/ UpdateRow(g, k) \/ Delete(g, k)

Alter(g) ==
  \/ AddColumn(g) \/ DropColumn(g) \/ execRenameColumn(g)
  \/ execSetDefault(g) \/ execTruncate(g)

Statement(g) == RetypePublish(g) \/ ReshardPublish(g)

Background ==
  \/ RunReshardJanitorOnce \/ WipeIndexEntries
  \/ RetypePlan \/ RetypeChunk \/ RetypeSwap \/ RetypeCancel \/ RetypeAbandon \/ RetypeDone
  \/ ReshardPlan \/ reshardChunk \/ ReshardSwap \/ ReshardAbandon \/ ReshardDone

Next == (\E g \in env.gateways : Gateway(g) \/ Alter(g) \/ Statement(g)) \/ Background

Spec == Init /\ [][Next]_vars

-----------------------------------------------------------------------------

\* Whatever was added, dropped, renamed, given a default, rewritten to another
\* type, re-sharded or truncated meanwhile, every gateway reads every row with
\* exactly what was last written to each of its columns: a row that predates a
\* column reads the default of its ADD, a NULL written later stays NULL, a
\* dropped column never comes back under another name, and a converted column
\* has every value (rowenc.EncodeValue and DecodeValue under execAlterTable,
\* execSetDefault, execRetypeOnline, execReshardOnline and execTruncate).
ColumnsRight ==
  \A g \in env.gateways :
    LET d == descs[lease[g]] IN
    (\A v \in (lease[g] + 1)..Newest : descs[v].kind # "truncate")
      => /\ DOMAIN rows[d.live] = DOMAIN logical
         /\ \A k \in DOMAIN logical : \A c \in Visible(d), n \in Visible(Latest) :
              c.obj = n.obj =>
                ConvertTo(ReadCol(d, rows[d.live][k], c), n.type) = logical[k][n.obj]

----
(* Scenarios of Columns: two gateways and one or two rows.                 *)

\* gateways and keys; loaded: the rows there are.  values and defaults are
\* what statements write, nulls whether a fill-on-read column may be set to
\* NULL, refused what the new type cannot hold.  eager: a gateway ahead of
\* another writes all the same.  beside: a re-shard may start beside a
\* rewrite.  left: statements of each kind.
Scenario(gs, ks, loaded, l) ==
  [gateways |-> gs, keys |-> ks, loaded |-> loaded, values |-> {1, 2},
   names |-> {"a", "b"}, defaults |-> {<<>>, <<Datum("int", 2)>>}, nulls |-> TRUE,
   refused |-> {}, eager |-> FALSE, beside |-> FALSE, truncates |-> FALSE, left |-> l]

Budget(w, a, t, s) ==
  [writes |-> w, alters |-> a, retypes |-> t, reshards |-> s, janitors |-> 0, cancels |-> 0]

\* ADD, DROP, RENAME and the defaults, one after another and under writers.
Defaults == Scenario({1, 2}, {1}, {1}, Budget(2, 3, 0, 0))

\* TRUNCATE, writers that have not noticed, and the janitor.
Truncated == [Scenario({1, 2}, {1}, {1}, [Budget(2, 2, 0, 0) EXCEPT !.janitors = 1])
                EXCEPT !.truncates = TRUE, !.names = {"a"}, !.values = {2}, !.defaults = {<<>>}]

\* A rewrite, first beside writers, then of a column that fills old rows.
Rewritten == [Scenario({1, 2}, {1, 2}, {1}, Budget(2, 0, 1, 0)) EXCEPT !.nulls = FALSE]
RewrittenFill ==
  [Scenario({1, 2}, {1}, {1}, Budget(2, 1, 1, 0)) EXCEPT
     !.nulls = FALSE, !.names = {"b"}, !.values = {1}]

\* A rewrite that meets a value it cannot hold, or is cancelled, and the next.
Refused == [Scenario({1, 2}, {1}, {1}, [Budget(2, 0, 2, 0) EXCEPT !.cancels = 1]) EXCEPT
              !.nulls = FALSE, !.refused = {2}]

\* A re-shard beside writers and an added column.
Resharded == [Scenario({1, 2}, {1, 2}, {1}, [Budget(2, 1, 0, 1) EXCEPT
                !.cancels = 1, !.janitors = 1]) EXCEPT !.names = {"b"}, !.values = {2}]

\* A rewrite of a column that fills old rows and holds a NULL.
FillNull == [Scenario({1}, {1}, {1}, Budget(1, 1, 1, 0)) EXCEPT !.names = {"b"}]
\* A gateway ahead of another writes the column it alone knows.
Ahead == [Scenario({1, 2}, {1}, {1}, Budget(2, 1, 0, 0)) EXCEPT !.eager = TRUE]
\* A re-shard beside a rewrite.
Beside == [Scenario({1}, {1}, {1}, Budget(0, 0, 1, 1)) EXCEPT !.beside = TRUE]

Cases == {Defaults, Truncated, Rewritten, RewrittenFill, Refused, Resharded}

\* No table.
Untabled == [Scenario({}, {}, {}, Budget(0, 0, 0, 0)) EXCEPT !.names = {}]
====
