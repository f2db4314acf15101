---------------------------- MODULE SchemaChange ----------------------------
(***************************************************************************)
(* Online schema changes over descriptor leases.                           *)
(*                                                                         *)
(* Every gateway caches a table's descriptor under a lease record          *)
(* (catalog/lease.go); statements plan against the cache and take the      *)
(* lease's expiration as their commit deadline.  A change publishes an     *)
(* intermediate descriptor, drains the leases, backfills in chunks and     *)
(* publishes the final one: CREATE INDEX (online_ddl.go) and the re-shard  *)
(* of a table (reshard.go) are the two long ones, ALTER TABLE publishes    *)
(* and drains once.                                                        *)
(*                                                                         *)
(* A time is what is left of it: expirations, deadlines and the patience   *)
(* of a drain count down with Tick, and 0 is past.  The transactions are   *)
(* serializable (Transactions.tla): a statement commits at its start       *)
(* timestamp unless a read or a write of its row pushed it, and what a     *)
(* push does to it is decided when it happens.                             *)
(***************************************************************************)
EXTENDS Naturals, FiniteSets

CONSTANTS Gateways, Builder, Alterer, \* gateways; where the two changes run
          Last,                       \* the rows are 1..Last, in key order
          Values,                     \* indexed values, not 0
          TTL,                        \* ticks a lease lives
          Environments

VARIABLES env,    \* the scenario: see EnvironmentType
          desc,   \* the committed descriptor
          lease,  \* lease records
          cache,  \* each gateway's cached descriptor
          acq,    \* lease acquisitions in flight
          stmt,   \* each gateway's statement in flight
          change, \* the schema changes
          truth,  \* the table: row -> value, 0 for none
          shadow, \* entries of the new index, or rows of the new layout
          begun   \* statements begun, at most env.statements

vars == <<env, desc, lease, cache, acq, stmt, change, truth, shadow, begun>>

Rows == 1..Last
Owners == {"renew", "stmt", "ddl"}
Changes == {"build", "alter"}
Time == 0..TTL
Never == TTL + 1                      \* no deadline

\* writers: gateways that run statements, statements in all.  renewing: those
\* whose renewals are not stalled.  reshard: the build is a re-shard.
\* alter: an ALTER TABLE runs too, and with overlap beside the build.  gap: a statement, or a second
\* acquisition, may come between an acquisition's look at the cache and its
\* own entry.  slow: a statement may outlive the sleep of a re-shard.  warm:
\* gateways that hold a lease already.
EnvironmentType ==
  [writers : SUBSET Gateways, statements : Nat, renewing : SUBSET Gateways,
   reshard : BOOLEAN, alter : BOOLEAN, overlap : BOOLEAN, gap : BOOLEAN, slow : BOOLEAN,
   warm : SUBSET Gateways]

\* mode: how far the build has come in this descriptor; column: whether it has
\* the altered column.
Descriptors == [version : Nat, mode : {"absent", "dual", "live"}, column : BOOLEAN]
First == [version |-> 1, mode |-> "absent", column |-> FALSE]

NoLease == [version |-> 0, expiration |-> 0, prior |-> 0]
NoEntry == [desc |-> First, expiration |-> 0, prior |-> 0, handed |-> FALSE, handedExp |-> 0, there |-> FALSE]
NoAcq   == [stage |-> "idle", desc |-> First, expiration |-> 0, prior |-> 0, handedExp |-> 0, pushed |-> FALSE]
Held    == [NoAcq EXCEPT !.expiration = TTL]
NoStmt  == [stage |-> "idle", desc |-> First, deadline |-> Never, own |-> FALSE,
            row |-> 1, value |-> 0, below |-> FALSE, late |-> FALSE, doomed |-> FALSE]

At(d) == IF d = "build" THEN Builder ELSE Alterer
Image == {<<r, truth[r]>> : r \in {s \in Rows : truth[s] # 0}}
-----------------------------------------------------------------------------
\* Statements: LookupIn, the deadline, and the commit.

Live(g) == cache[g].there /\ cache[g].expiration > 0

\* What a push to the present does to a statement that has not written yet: at
\* or past its deadline the commit is refused (checkDeadline), and a
\* descriptor its own transaction read must not have changed (the refresh).
Pushed(s) ==
  [s EXCEPT !.below = FALSE,
            !.doomed = @ \/ s.deadline = 0 \/ (s.own /\ s.desc.version # desc.version)]

PushAll(rows, ss) ==
  [g \in Gateways |-> IF ss[g].stage \in {"lookup", "ready"} /\ ss[g].row \in rows
                      THEN Pushed(ss[g]) ELSE ss[g]]

CanBegin(g) == g \in env.writers /\ begun < env.statements

\* The cached path marks the entry as handed out and pins the deadline.
TakeCached(g) ==
  /\ CanBegin(g) /\ stmt[g].stage = "idle" /\ Live(g)
  /\ \E r \in Rows, v \in Values \cup {0} :
       stmt' = [stmt EXCEPT ![g] = [NoStmt EXCEPT !.stage = "ready", !.row = r, !.value = v,
                  !.desc = cache[g].desc, !.deadline = cache[g].expiration]]
  /\ cache' = [cache EXCEPT ![g].handed = TRUE]
  /\ begun' = begun + 1
  /\ UNCHANGED <<env, desc, lease, acq, change, truth, shadow>>

\* The uncached path reads the descriptor in the statement's transaction, then
\* takes a lease in another one.
TakeUncached(g) ==
  /\ CanBegin(g) /\ stmt[g].stage = "idle" /\ ~Live(g) /\ acq[<<g, "stmt">>].stage = "idle"
  /\ \E r \in Rows, v \in Values \cup {0} :
       stmt' = [stmt EXCEPT ![g] = [NoStmt EXCEPT !.stage = "lookup", !.row = r, !.value = v,
                  !.desc = desc, !.own = TRUE]]
  /\ begun' = begun + 1
  /\ UNCHANGED <<env, desc, lease, cache, acq, change, truth, shadow>>

Intent(r) == \E g \in Gateways : stmt[g].stage = "laid" /\ stmt[g].row = r

\* The write: what pushed it has been decided; the intent holds its timestamp.
Lay(g) ==
  /\ stmt[g].stage = "ready" /\ ~stmt[g].doomed /\ ~Intent(stmt[g].row)
  /\ stmt' = [stmt EXCEPT ![g].stage = "laid"]
  /\ UNCHANGED <<env, desc, lease, cache, acq, change, truth, shadow, begun>>

\* The row and the entries of the index, or of the layout, the statement knows
\* of.  Another statement of the row not yet written is now behind a newer
\* version.  A commit below the boundary is one the sweep can still find.
Commit(g) ==
  LET s == stmt[g]
      gone == IF env.reshard THEN {s.row} \X Values ELSE {<<s.row, truth[s.row]>>}
      new  == {<<s.row, v>> : v \in {s.value} \ {0}}
  IN /\ s.stage = "laid"
     /\ truth' = [truth EXCEPT ![s.row] = s.value]
     /\ shadow' = IF s.desc.mode = "absent" THEN shadow ELSE (shadow \ gone) \cup new
     /\ stmt' = PushAll({s.row}, [stmt EXCEPT ![g] = NoStmt])
     /\ change' = [change EXCEPT !["build"].planned =
                      IF ~s.below THEN @ ELSE IF s.value = 0 THEN @ \ {s.row} ELSE @ \cup {s.row}]
     /\ UNCHANGED <<env, desc, lease, cache, acq, begun>>

\* A statement that fails, is aborted by another or gives up.
Abort(g) ==
  /\ stmt[g].stage \in {"ready", "laid"}
  /\ stmt' = [stmt EXCEPT ![g] = NoStmt]
  /\ UNCHANGED <<env, desc, lease, cache, acq, change, truth, shadow, begun>>
-----------------------------------------------------------------------------
\* Lease acquisition: acquireLease, carryOver, refreshOne.

Wants(g, o) ==
  CASE o = "renew" -> g \in env.renewing /\ cache[g].there
    [] o = "stmt"  -> stmt[g].stage = "lookup"
    [] o = "ddl"   -> \E d \in Changes : At(d) = g /\ change[d].stage = "adopt"

AcquireRead(g, o) ==
  /\ Wants(g, o) /\ acq[<<g, o>>].stage = "idle"
  /\ acq' = [acq EXCEPT ![<<g, o>>] = [NoAcq EXCEPT !.stage = "read", !.desc = desc]]
  /\ UNCHANGED <<env, desc, lease, cache, stmt, change, truth, shadow, begun>>

Max2(a, b) == IF a > b THEN a ELSE b


\* What the entry acquired at version inherits from the one it replaces.
\* Times past are 0 already.
carryOver(g, version) ==
  LET old == cache[g]
      out == IF old.handed THEN Max2(old.handedExp, old.expiration) ELSE old.handedExp
  IN IF ~old.there THEN [prior |-> 0, handedExp |-> 0]
     ELSE IF old.desc.version < version THEN [prior |-> Max2(old.prior, out), handedExp |-> 0]
     ELSE [prior |-> old.prior, handedExp |-> out]

Carried(a, c) == [a EXCEPT !.stage = "carried", !.expiration = TTL,
                           !.prior = c.prior, !.handedExp = c.handedExp]

Carry(g, o) ==
  LET a == acq[<<g, o>>] IN
  /\ env.gap /\ a.stage = "read"
  /\ acq' = [acq EXCEPT ![<<g, o>>] = Carried(a, carryOver(g, a.desc.version))]
  /\ UNCHANGED <<env, desc, lease, cache, stmt, change, truth, shadow, begun>>

\* The lease transaction commits at its own timestamp unless a scan of the
\* leases or another acquisition pushed it; then the descriptor it read must
\* be current, or it starts again.
MayCommit(a) == ~a.pushed \/ a.desc = desc
Record(a) == [version |-> a.desc.version, expiration |-> a.expiration, prior |-> a.prior]
Entry(a) == [desc |-> a.desc, expiration |-> a.expiration, prior |-> a.prior,
             handed |-> FALSE, handedExp |-> a.handedExp, there |-> TRUE]

PushAcquisitions(gs) ==
  [p \in DOMAIN acq |-> IF p[1] \in gs /\ acq[p].stage \in {"read", "carried"}
                        THEN [acq[p] EXCEPT !.pushed = TRUE] ELSE acq[p]]

CommitLease(g, o) ==
  LET a == acq[<<g, o>>] IN
  /\ a.stage = "carried" /\ MayCommit(a)
  /\ lease' = [lease EXCEPT ![g] = Record(a)]
  /\ acq' = [PushAcquisitions({g}) EXCEPT ![<<g, o>>].stage = "committed"]
  /\ UNCHANGED <<env, desc, cache, stmt, change, truth, shadow, begun>>

Reread(g, o) ==
  LET a == acq[<<g, o>>] IN
  /\ a.stage \in {"read", "carried"} /\ ~MayCommit(a)
  /\ acq' = [acq EXCEPT ![<<g, o>>] = [NoAcq EXCEPT !.stage = "read", !.desc = desc]]
  /\ UNCHANGED <<env, desc, lease, cache, stmt, change, truth, shadow, begun>>

\* The acquirer goes on: a statement with the new deadline, a change with its
\* drain, for twice the lease's life.
Resume(g, o, deadline) ==
  /\ stmt' = IF o = "stmt" THEN [stmt EXCEPT ![g].stage = "ready", ![g].deadline = deadline] ELSE stmt
  /\ change' = IF o # "ddl" THEN change
               ELSE [d \in Changes |-> IF At(d) = g /\ change[d].stage = "adopt"
                       THEN [change[d] EXCEPT !.stage = "drain", !.patience = 2 * TTL,
                                              !.version = acq[<<g, o>>].desc.version]
                       ELSE change[d]]

Install(g, o) ==
  LET a == acq[<<g, o>>] IN
  /\ a.stage = "committed"
  /\ cache' = [cache EXCEPT ![g] = Entry(a)]
  /\ acq' = [acq EXCEPT ![<<g, o>>] = NoAcq]
  /\ Resume(g, o, a.expiration)
  /\ UNCHANGED <<env, desc, lease, truth, shadow, begun>>

\* The three with nothing of the gateway's in between.
AcquireAtOnce(g, o) ==
  LET a == Carried(acq[<<g, o>>], carryOver(g, acq[<<g, o>>].desc.version)) IN
  /\ ~env.gap /\ acq[<<g, o>>].stage = "read" /\ MayCommit(a)
  /\ lease' = [lease EXCEPT ![g] = Record(a)]
  /\ cache' = [cache EXCEPT ![g] = Entry(a)]
  /\ acq' = [PushAcquisitions({g}) EXCEPT ![<<g, o>>] = NoAcq]
  /\ Resume(g, o, a.expiration)
  /\ UNCHANGED <<env, desc, truth, shadow, begun>>

\* The lease transaction of a statement fails: it goes on with the descriptor
\* it read and no deadline.  A renewal that fails leaves the entry as it is:
\* it is one that has not committed.
AcquireFail(g) ==
  /\ acq[<<g, "stmt">>].stage = "read"
  /\ acq' = [acq EXCEPT ![<<g, "stmt">>] = NoAcq]
  /\ Resume(g, "stmt", Never)
  /\ UNCHANGED <<env, desc, lease, cache, truth, shadow, begun>>
-----------------------------------------------------------------------------
\* The changes.

\* A change's own lookup: the cache while it lives.  An uncached lookup's
\* lease is replaced by the adoption that follows every write of it.
Seen(g) == IF Live(g) THEN cache[g].desc ELSE desc

\* Update puts the descriptor it was given, one version on, and drops the
\* gateway's entry.
Update(d, next) ==
  /\ desc' = [next EXCEPT !.version = @ + 1]
  /\ cache' = [cache EXCEPT ![At(d)] = NoEntry]

Turn(d, stage, then) ==
  change' = [change EXCEPT ![d].stage = stage, ![d].then = then, ![d].covered = 0]

\* Nothing in the code keeps two changes of a table apart.
Turnable(d) == change[d].stage = "idle" /\
  (env.overlap \/ \A e \in Changes : change[e].stage \in {"idle", "done", "failed"})

PublishBuild ==
  /\ Turnable("build")
  /\ Update("build", [Seen(Builder) EXCEPT !.mode = "dual"])
  /\ Turn("build", "adopt", "plan")
  /\ UNCHANGED <<env, lease, acq, stmt, truth, shadow, begun>>

PublishAlter ==
  /\ env.alter /\ Turnable("alter")
  /\ Update("alter", [Seen(Alterer) EXCEPT !.column = TRUE])
  /\ Turn("alter", "adopt", "done")
  /\ UNCHANGED <<env, lease, acq, stmt, truth, shadow, begun>>

Adopted(version) ==
  \A g \in Gateways :
    lease[g].expiration > 0 => lease[g].version >= version /\ lease[g].prior = 0

\* waitForAdoption: one scan of the leases, at the present.
Poll(d) ==
  /\ change[d].stage = "drain"
  /\ acq' = PushAcquisitions(Gateways)
  /\ change' = [change EXCEPT ![d].polled = TRUE,
                  ![d].stage = IF Adopted(change[d].version) \/ change[d].patience = 0
                               THEN change[d].then ELSE @]
  /\ UNCHANGED <<env, desc, lease, cache, stmt, truth, shadow, begun>>

\* The boundary of the planning sweep: it finds the rows committed at or below
\* it.  below: the statement's timestamp is; late: pushed to the boundary it
\* would miss its deadline.  A re-shard sleeps before it, which is meant to
\* outlast the statements begun before the drain.
Plan ==
  /\ change["build"].stage = "plan"
  /\ env.reshard /\ ~env.slow => \A g \in Gateways : stmt[g].stage # "idle" => stmt[g].desc.mode # "absent"
  /\ change' = [change EXCEPT !["build"].stage = "backfill",
                              !["build"].planned = {r \in Rows : truth[r] # 0}]
  /\ stmt' = [g \in Gateways |-> IF stmt[g].stage = "idle" THEN stmt[g]
                 ELSE [stmt[g] EXCEPT !.below = TRUE, !.late = stmt[g].deadline = 0]]
  /\ UNCHANGED <<env, desc, lease, cache, acq, truth, shadow, begun>>

\* One chunk: a sweep at the boundary plans it, a serializable transaction
\* reads the rows and writes their entries; it waits for intents.  A chunk of
\* CREATE INDEX ends at a planned row or covers the rest; a re-shard's ends at
\* a planned row.
Chunk ==
  LET c == change["build"] IN
  /\ c.stage = "backfill" /\ c.covered < Last
  /\ \E e \in (c.planned \cap (c.covered + 1)..Last) \cup (IF env.reshard THEN {} ELSE {Last}) :
       LET span == (c.covered + 1)..e
           new  == {x \in Image : x[1] \in span}
           gone == IF env.reshard THEN {x[1] : x \in new} \X Values ELSE {}
       IN /\ \A r \in span : ~Intent(r)
          /\ Seen(Builder).mode = "dual"
          /\ shadow' = (shadow \ gone) \cup new
          /\ change' = [change EXCEPT !["build"].covered = e]
          /\ stmt' = PushAll(span, stmt)
  /\ UNCHANGED <<env, desc, lease, cache, acq, truth, begun>>

\* The sweep of a re-shard that finds nothing more: its read at the boundary
\* is remembered too, and it sees no intents.
SweepEmpty ==
  LET c == change["build"]
      rest == (c.covered + 1)..Last
  IN /\ env.reshard /\ c.stage = "backfill" /\ c.covered < Last
     /\ c.planned \cap rest = {}
     /\ stmt' = [g \in Gateways |-> IF stmt[g].stage = "ready" /\ stmt[g].below /\ stmt[g].late /\ stmt[g].row \in rest
                                    THEN [stmt[g] EXCEPT !.doomed = TRUE] ELSE stmt[g]]
     /\ change' = [change EXCEPT !["build"].covered = Last]
     /\ UNCHANGED <<env, desc, lease, cache, acq, truth, shadow, begun>>

\* create-index-public, reshard-swap.
Flip ==
  LET c == change["build"] IN
  /\ c.stage = "backfill" /\ c.covered = Last
  /\ Seen(Builder).mode = "dual"
  /\ Update("build", [Seen(Builder) EXCEPT !.mode = "live"])
  /\ Turn("build", "adopt", "done")
  /\ UNCHANGED <<env, lease, acq, stmt, truth, shadow, begun>>

\* A failed backfill (a duplicate, an error, a descriptor without the index)
\* takes the index out again, drains and wipes.
Abandon ==
  /\ change["build"].stage = "backfill"
  /\ Update("build", [Seen(Builder) EXCEPT !.mode = "absent"])
  /\ Turn("build", "adopt", "wipe")
  /\ UNCHANGED <<env, lease, acq, stmt, truth, shadow, begun>>

Wipe ==
  /\ change["build"].stage = "wipe"
  /\ shadow' = {}
  /\ Turn("build", "failed", "failed")
  /\ UNCHANGED <<env, desc, lease, cache, acq, stmt, truth, begun>>
-----------------------------------------------------------------------------
Less(t) == IF t = 0 \/ t = Never THEN t ELSE t - 1

\* A tick is much longer than the interval of a drain's polls (TTL / 20).
Tick ==
  /\ \A d \in Changes : change[d].stage = "drain" => change[d].polled
  /\ lease' = [g \in Gateways |-> [lease[g] EXCEPT !.expiration = Less(@), !.prior = Less(@)]]
  /\ cache' = [g \in Gateways |-> [cache[g] EXCEPT !.expiration = Less(@), !.prior = Less(@),
                                                   !.handedExp = Less(@)]]
  /\ acq' = [p \in DOMAIN acq |-> [acq[p] EXCEPT !.expiration = Less(@), !.prior = Less(@),
                                                 !.handedExp = Less(@)]]
  /\ stmt' = [g \in Gateways |-> [stmt[g] EXCEPT !.deadline = Less(@)]]
  /\ change' = [d \in Changes |-> [change[d] EXCEPT !.patience = IF @ = 0 THEN 0 ELSE @ - 1, !.polled = FALSE]]
  /\ UNCHANGED <<env, desc, truth, shadow, begun>>

Init ==
  /\ env \in Environments
  /\ desc = First
  /\ lease = [g \in Gateways |-> IF g \in env.warm THEN Record(Held) ELSE NoLease]
  /\ cache = [g \in Gateways |-> IF g \in env.warm THEN Entry(Held) ELSE NoEntry]
  /\ acq = [p \in Gateways \X Owners |-> NoAcq]
  /\ stmt = [g \in Gateways |-> NoStmt]
  /\ change = [d \in Changes |-> [stage |-> "idle", then |-> "idle", version |-> 0,
                                  patience |-> 0, polled |-> FALSE, covered |-> 0, planned |-> {}]]
  /\ truth = [r \in Rows |-> 0]
  /\ shadow = {}
  /\ begun = 0

Statement(g) == TakeCached(g) \/ TakeUncached(g) \/ Lay(g) \/ Commit(g) \/ Abort(g) \/ AcquireFail(g)
Acquire(g, o) ==
  \/ AcquireRead(g, o) \/ Reread(g, o) \/ AcquireAtOnce(g, o)
  \/ Carry(g, o) \/ CommitLease(g, o) \/ Install(g, o)
Build == PublishBuild \/ Plan \/ Chunk \/ SweepEmpty \/ Flip \/ Abandon \/ Wipe

Next ==
  \/ \E g \in Gateways : Statement(g)
  \/ \E g \in Gateways, o \in Owners : Acquire(g, o)
  \/ Build \/ PublishAlter \/ (\E d \in Changes : Poll(d))
  \/ Tick

Spec == Init /\ [][Next]_vars
-----------------------------------------------------------------------------
TypeOK ==
  /\ desc \in Descriptors
  /\ \A g \in Gateways :
       /\ lease[g] \in [version : Nat, expiration : Time, prior : Time]
       /\ cache[g] \in [desc : Descriptors, expiration : Time, prior : Time, handed : BOOLEAN,
                        handedExp : Time, there : BOOLEAN]
       /\ stmt[g] \in [stage : {"idle", "lookup", "ready", "laid"}, desc : Descriptors,
                       deadline : Time \cup {Never}, own : BOOLEAN, row : Rows,
                       value : Values \cup {0}, below : BOOLEAN, late : BOOLEAN, doomed : BOOLEAN]
  /\ \A p \in Gateways \X Owners :
       acq[p] \in [stage : {"idle", "read", "carried", "committed"}, desc : Descriptors,
                   expiration : Time, prior : Time, handedExp : Time, pushed : BOOLEAN]
  /\ \A d \in Changes :
       change[d] \in [stage : {"idle", "adopt", "drain", "plan", "backfill", "wipe", "done", "failed"},
                      then : {"idle", "plan", "wipe", "done", "failed"}, version : Nat,
                      patience : 0..(2 * TTL), polled : BOOLEAN, covered : 0..Last, planned : SUBSET Rows]
  /\ truth \in [Rows -> Values \cup {0}]
  /\ shadow \subseteq Rows \X Values
  /\ begun \in Nat

=============================================================================
