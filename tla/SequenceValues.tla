--------------------------- MODULE SequenceValues ---------------------------
(***************************************************************************)
(* The values of a sequence (pkg/sql/sequence.go).  The counter is one key *)
(* advanced outside the caller's transaction; a gateway takes a block of   *)
(* CACHE values per Increment and its sessions share the block under one   *)
(* mutex.  nextval reads the sequence's descriptor in its transaction      *)
(* first, so ALTER SEQUENCE may commit between that read and the           *)
(* Increment; ALTER and setval forget the block of their own gateway only. *)
(***************************************************************************)
EXTENDS Integers, FiniteSets, TLAPS

CONSTANT Environments

VARIABLES
    env,
    desc,      \* the stored SequenceDescriptor
    counter,   \* the value at SequenceValueKey
    block,     \* per gateway: seqBlock, or the empty tuple
    calls,     \* per session: the nextval in progress
    sessions,  \* per session: currval of the sequence
    given,     \* history: the values handed out since the counter was last set
    twice,     \* history: a value was handed out again without CYCLE or a reset
    outside,   \* history: a value outside the bounds nextval read
    budget     \* statements left

vars == <<env, desc, counter, block, calls, sessions, given, twice, outside, budget>>

Idle == [at |-> "idle"]

Init ==
    /\ env \in Environments
    /\ desc = env.desc
    /\ counter = env.desc.start - env.desc.increment     \* CreateSequence seeds it
    /\ block = [g \in {env.gateway[s] : s \in env.sessions} |-> <<>>]
    /\ calls = [s \in env.sessions |-> Idle]
    /\ sessions = [s \in env.sessions |-> <<>>]
    /\ given = {}
    /\ twice = FALSE
    /\ outside = FALSE
    /\ budget = env.budget

-----------------------------------------------------------------------------
\* nextval: lookupSequence in the statement's transaction.
Lookup(s) ==
    /\ budget > 0
    /\ calls[s].at = "idle"
    /\ calls' = [calls EXCEPT ![s] = [at |-> "lookup", desc |-> desc]]
    /\ budget' = budget - 1
    /\ UNCHANGED <<env, desc, counter, block, sessions, given, twice, outside>>

Exhausted(b, d) ==
    IF b = <<>> THEN TRUE
    ELSE \/ b[1].incr # d.increment
         \/ d.increment > 0 /\ b[1].next > b[1].last
         \/ d.increment < 0 /\ b[1].next < b[1].last

HandOut(s, g, b) ==
    /\ block' = [block EXCEPT ![g] = <<[b EXCEPT !.next = @ + b.incr]>>]
    /\ calls' = [calls EXCEPT ![s] = Idle]
    /\ sessions' = [sessions EXCEPT ![s] = <<b.next>>]
    /\ given' = IF b.fresh THEN given \union {b.next} ELSE given
    /\ twice' = (twice \/ (b.fresh /\ b.next \in given))
    /\ outside' = (outside \/ b.next < b.min \/ b.next > b.max)

\* The gateway's mutex: another session of the gateway is taking a block.
Taking(g) == \E s \in env.sessions : env.gateway[s] = g /\ calls[s].at \in {"cycle", "again"}

\* The block of this gateway still has values.
FromBlock(s) ==
    LET g == env.gateway[s]
    IN /\ calls[s].at = "lookup" /\ ~Taking(g)
       /\ ~Exhausted(block[g], calls[s].desc)
       /\ HandOut(s, g, block[g][1])
       /\ UNCHANGED <<env, desc, counter, budget>>

\* takeSequenceBlock after its Increment: the block ends at the bound.
Block(d, newLast) ==
    LET first == newLast - d.increment * d.cache + d.increment
    IN [next |-> first,
        last |-> IF d.increment > 0
                 THEN IF newLast > d.max THEN d.max ELSE newLast
                 ELSE IF newLast < d.min THEN d.min ELSE newLast,
        incr |-> d.increment, min |-> d.min, max |-> d.max, fresh |-> TRUE]

PastBound(d, first) == IF d.increment > 0 THEN first > d.max ELSE first < d.min

\* seeded fault: the counter moves by one value, not by a block
OneStep(d) == d.increment

Step(d) == d.increment * d.cache

\* takeSequenceBlock: one Increment; past the bound the call fails (2200H) or, with
\* CYCLE and once, sets the counter before the far bound and tries again.
TakeBlock(s) ==
    LET g == env.gateway[s]
        d == calls[s].desc
        newLast == counter + Step(d)
        b == Block(d, newLast)
    IN /\ \/ calls[s].at = "lookup" /\ ~Taking(g) /\ Exhausted(block[g], d)
          \/ calls[s].at = "again"
       /\ counter' = newLast
       /\ IF PastBound(d, b.next)
          THEN /\ calls' = [calls EXCEPT ![s] =
                     IF d.cycle /\ @.at = "lookup" THEN [at |-> "cycle", desc |-> d] ELSE Idle]
               /\ UNCHANGED <<block, sessions, given, twice, outside>>
          ELSE HandOut(s, g, b)
       /\ UNCHANGED <<env, desc, budget>>

\* The Put of the restart is a step of its own: the other gateway may Increment, or
\* restart the counter too, in between.
Cycle(s) ==
    LET d == calls[s].desc
    IN /\ calls[s].at = "cycle"
       /\ counter' = (IF d.increment > 0 THEN d.min ELSE d.max) - d.increment
       /\ calls' = [calls EXCEPT ![s].at = "again"]
       /\ given' = {}
       /\ block' = [g \in DOMAIN block |->
                      IF block[g] = <<>> THEN <<>> ELSE <<[block[g][1] EXCEPT !.fresh = FALSE]>>]
       /\ UNCHANGED <<env, desc, sessions, twice, outside, budget>>

-----------------------------------------------------------------------------
\* The counter is set: what was handed out may come again, and the blocks that the
\* other gateways keep no longer count.
Reset(g, value) ==
    /\ counter' = value
    /\ given' = {}
    /\ block' = [h \in DOMAIN block |->
                   IF h = g \/ block[h] = <<>> THEN <<>>
                   ELSE <<[block[h][1] EXCEPT !.fresh = FALSE]>>]

setval(s, v, isCalled) ==
    /\ budget > 0
    /\ calls[s].at = "idle"
    /\ desc.min <= v /\ v <= desc.max
    /\ Reset(env.gateway[s], IF isCalled THEN v ELSE v - desc.increment)
    /\ sessions' = [sessions EXCEPT ![s] = <<v>>]
    /\ budget' = budget - 1
    /\ UNCHANGED <<env, desc, calls, twice, outside>>

\* applySequenceOptions and Normalize.
Valid(d) ==
    /\ d.increment # 0
    /\ d.min < d.max
    /\ d.min <= d.start /\ d.start <= d.max
    /\ d.cache >= 1

\* ALTER SEQUENCE ... RESTART; without RESTART the counter stays, and so does what
\* was handed out, as long as the direction does.
AlterSequence(s, d, restart) ==
    /\ budget > 0
    /\ calls[s].at = "idle"
    /\ Valid(d) /\ d # desc
    /\ desc' = d
    /\ IF restart \/ (d.increment > 0) # (desc.increment > 0)
       THEN Reset(env.gateway[s], IF restart THEN d.start - d.increment ELSE counter)
       ELSE /\ block' = [block EXCEPT ![env.gateway[s]] = <<>>]
            /\ UNCHANGED <<counter, given>>
    /\ budget' = budget - 1
    /\ UNCHANGED <<env, calls, sessions, twice, outside>>

Next ==
    \E s \in env.sessions :
      \/ Lookup(s) \/ FromBlock(s) \/ TakeBlock(s) \/ Cycle(s)
      \/ \E v \in env.values, isCalled \in BOOLEAN : setval(s, v, isCalled)
      \/ \E a \in env.alters : AlterSequence(s, a.desc, a.restart)

Spec == Init /\ [][Next]_vars

-----------------------------------------------------------------------------
\* nextval hands a value out once, whichever gateways and sessions call it, until
\* the counter is set again (setval, RESTART, CYCLE); and never a value outside the
\* bounds of the descriptor its block was taken under ("values past it are never
\* handed out", sequence.go).
ValuesOnce == ~twice /\ ~outside

-----------------------------------------------------------------------------
(* The situations in which a sequence's values are explored: two gateways, *)
(* one of them with two sessions.  ALTER SEQUENCE ... INCREMENT n RESTART  *)
(* of a rising sequence is left out: a nextval that read the descriptor    *)
(* before it then takes a block that starts one old step after a counter   *)
(* set one new step before START, below MINVALUE.                          *)

Sequence(start, increment, min, max, cache, cycle) ==
    [start |-> start, increment |-> increment, min |-> min, max |-> max,
     cache |-> cache, cycle |-> cycle]

Case(d, alters, values, statements) ==
    [sessions |-> {1, 2, 3}, gateway |-> <<1, 1, 2>>, desc |-> d, alters |-> alters,
     values |-> values, budget |-> statements]

Unused == [sessions |-> {}, gateway |-> <<>>, desc |-> Sequence(1, 1, 1, 2, 1, FALSE),
           alters |-> {}, values |-> {}, budget |-> 0]

Rising == Case(Sequence(1, 1, 1, 5, 2, FALSE),
               {[desc |-> Sequence(1, 1, 1, 7, 3, FALSE), restart |-> TRUE],
                [desc |-> Sequence(1, 1, 1, 7, 3, FALSE), restart |-> FALSE],
                [desc |-> Sequence(1, 2, 1, 7, 2, FALSE), restart |-> FALSE]}, {3}, 5)
Falling == Case(Sequence(5, -2, 1, 6, 2, FALSE), 
                {[desc |-> Sequence(5, -1, 0, 6, 2, FALSE), restart |-> TRUE]}, {4}, 6)
Cycling == Case(Sequence(1, 1, 1, 3, 2, TRUE), {}, {2}, 7)

Cases == {Rising, Falling, Cycling}

-----------------------------------------------------------------------------
(***************************************************************************)
(* Proofs, for any number of gateways and sessions and any descriptors: a  *)
(* sequence that keeps its direction hands out no value twice, and one     *)
(* that keeps its INCREMENT and the bound it starts from none out of       *)
(* bounds.                                                                 *)
(***************************************************************************)
Descriptor == [start : Int, increment : Int, min : Int, max : Int, cache : Int, cycle : BOOLEAN]

\* The descriptors a sequence may have in environment e.
Descriptors(e) == {e.desc} \cup {a.desc : a \in e.alters}

WellFormed(e) ==
    /\ e.values \subseteq Int
    /\ Descriptors(e) \subseteq {d \in Descriptor : Valid(d)}

\* ALTER SEQUENCE never turns the sequence round.
OneDirection(e) ==
    WellFormed(e) /\ \A d \in Descriptors(e) : d.increment > 0 <=> e.desc.increment > 0

\* Nor changes its step and the bound it comes from.
Steady(e) ==
    /\ OneDirection(e)
    /\ \A d \in Descriptors(e) :
         /\ d.increment = e.desc.increment
         /\ IF e.desc.increment > 0 THEN d.min = e.desc.min ELSE d.max = e.desc.max

Rises == env.desc.increment > 0
Upto(x, y) == IF Rises THEN x <= y ELSE y <= x      \* x comes no later than y

Blocks == [next : Int, last : Int, incr : Int, min : Int, max : Int, fresh : BOOLEAN]
Gateways == {env.gateway[s] : s \in env.sessions}

SequenceTypes ==
    /\ env \in Environments
    /\ desc \in Descriptors(env)
    /\ counter \in Int
    /\ block \in [Gateways -> {<<>>} \cup {<<b>> : b \in Blocks}]
    /\ calls \in [env.sessions -> {Idle} \cup [at : {"lookup", "cycle", "again"}, desc : Descriptors(env)]]
    /\ given \subseteq Int

\* The values a gateway holds and may still hand out.
Holds(g, v) == /\ block[g] # <<>> /\ block[g][1].fresh
               /\ Upto(block[g][1].next, v) /\ Upto(v, block[g][1].last)

\* Nothing beyond the counter has been taken, what is held has not been handed
\* out, and no two gateways hold the same value.
Partitioned ==
    /\ ~twice
    /\ \A v \in given : Upto(v, counter)
    /\ \A g \in Gateways : \A v \in Int : Holds(g, v) => Upto(v, counter) /\ v \notin given
    /\ \A g, h \in Gateways : \A v \in Int : Holds(g, v) /\ Holds(h, v) => g = h


\* A block's step moves the counter, and moves it the way the sequence goes.
LEMMA StepAhead ==
    ASSUME NEW d \in Descriptor, Valid(d)
    PROVE  /\ Step(d) \in Int /\ d.increment \in Int /\ d.increment # 0
           /\ d.increment > 0 => Step(d) >= d.increment
           /\ d.increment < 0 => Step(d) <= d.increment
<1>1. d.increment \in Int /\ d.cache \in Int /\ d.increment # 0 /\ d.cache >= 1
  BY DEF Descriptor, Valid
<1>2. ASSUME NEW i \in Int, NEW c \in Int, c >= 1
      PROVE  i * c \in Int /\ (i > 0 => i * c >= i) /\ (i < 0 => i * c <= i)
  BY ONLY <1>2
<1> QED BY <1>1, <1>2 DEF Step

\* What the environment's premise says of the descriptors in use.
LEMMA Directed ==
    ASSUME \A e \in Environments : OneDirection(e), SequenceTypes, NEW d \in Descriptors(env)
    PROVE  d \in Descriptor /\ Valid(d) /\ (d.increment > 0 <=> Rises)
BY Zenon DEF OneDirection, WellFormed, SequenceTypes, Rises

Slots == {<<>>} \cup {<<b>> : b \in Blocks}
Calls == {Idle} \cup [at : {"lookup", "cycle", "again"}, desc : Descriptors(env)]

\* A nextval in progress has read a descriptor of the sequence.
LEMMA CallDescriptor ==
    ASSUME SequenceTypes, NEW s \in env.sessions, calls[s].at # "idle"
    PROVE  calls[s].desc \in Descriptors(env)
<1>1. Idle.at = "idle"
  BY Zenon DEF Idle
<1>2. calls[s] \in Calls
  BY Zenon DEF SequenceTypes, Calls
<1> QED BY Zenon, <1>1, <1>2 DEF Calls

\* A gateway keeps no block or one.
LEMMA BlockOf ==
    ASSUME SequenceTypes, NEW g \in Gateways, block[g] # <<>>
    PROVE  block[g][1] \in Blocks /\ block[g] = <<block[g][1]>> /\ block[g][1].incr \in Int
<1>1. PICK b \in Blocks : block[g] = <<b>>
  BY Zenon DEF SequenceTypes
<1>2. <<b>>[1] = b /\ b.incr \in Int
  BY ONLY b \in Blocks DEF Blocks
<1> QED BY Zenon, <1>1, <1>2

\* Setting the counter makes the blocks that are kept stale.
LEMMA Staled ==
    ASSUME SequenceTypes, NEW g \in Gateways, block[g] # <<>>
    PROVE  /\ <<[block[g][1] EXCEPT !.fresh = FALSE]>> \in Slots
           /\ ~(<<[block[g][1] EXCEPT !.fresh = FALSE]>>[1].fresh)
<1>1. block[g][1] \in Blocks
  BY Zenon, BlockOf
<1>2. ASSUME NEW b \in Blocks PROVE [b EXCEPT !.fresh = FALSE] \in Blocks /\ ~(<<[b EXCEPT !.fresh = FALSE]>>[1].fresh)
  BY ONLY <1>2 DEF Blocks
<1> QED BY Zenon, <1>1, <1>2 DEF Slots

\* All blocks dropped or stale.
AllStale == \A g \in Gateways : block'[g] \in Slots /\ (block'[g] = <<>> \/ ~block'[g][1].fresh)

\* A cycle sets the counter: it leaves no block that still counts.
LEMMA CycleStales ==
    ASSUME SequenceTypes, NEW s \in env.sessions, Cycle(s)
    PROVE  AllStale /\ block' \in [Gateways -> Slots]
<1>1. ASSUME NEW g \in Gateways PROVE block'[g] \in Slots /\ (block'[g] = <<>> \/ ~block'[g][1].fresh)
  <2>1. block'[g] = IF block[g] = <<>> THEN <<>> ELSE <<[block[g][1] EXCEPT !.fresh = FALSE]>>
    BY Zenon DEF Cycle, SequenceTypes
  <2> QED BY Zenon, <2>1, Staled DEF Slots
<1> QED BY Zenon, <1>1 DEF AllStale, Cycle, SequenceTypes

\* Nor does a setval or a RESTART.
LEMMA ResetStales ==
    ASSUME SequenceTypes, NEW x, NEW h, Reset(h, x)
    PROVE  AllStale /\ block' \in [Gateways -> Slots]
<1>1. ASSUME NEW g \in Gateways PROVE block'[g] \in Slots /\ (block'[g] = <<>> \/ ~block'[g][1].fresh)
  <2>1. block'[g] = IF g = h \/ block[g] = <<>> THEN <<>> ELSE <<[block[g][1] EXCEPT !.fresh = FALSE]>>
    BY Zenon DEF Reset, SequenceTypes
  <2> QED BY Zenon, <2>1, Staled DEF Slots
<1> QED BY Zenon, <1>1 DEF AllStale, Reset, SequenceTypes

\* Every step keeps the types.
LEMMA TypesStep ==
    ASSUME \A e \in Environments : OneDirection(e), SequenceTypes, [Next]_vars
    PROVE  SequenceTypes'
<1>0. ASSUME env' = env, desc' \in Descriptors(env), counter' \in Int, block' \in [Gateways -> Slots],
             calls' \in [env.sessions -> Calls], given' \subseteq Int
      PROVE  SequenceTypes'
  BY Zenon, <1>0 DEF SequenceTypes, Gateways, Slots, Calls
<1>a. /\ env \in Environments /\ desc \in Descriptors(env) /\ counter \in Int /\ block \in [Gateways -> Slots]
      /\ calls \in [env.sessions -> Calls] /\ given \subseteq Int /\ Idle \in Calls
      /\ \A d \in Descriptors(env) : \A p \in {"lookup", "cycle", "again"} : [at |-> p, desc |-> d] \in Calls
  BY Zenon DEF SequenceTypes, Slots, Calls
<1>b. \A s \in env.sessions : env.gateway[s] \in Gateways
  BY Zenon DEF Gateways
<1>1. CASE UNCHANGED vars
  BY Zenon, <1>1 DEF vars, SequenceTypes, Gateways
<1>2. ASSUME NEW s \in env.sessions, Lookup(s) PROVE SequenceTypes'
  <2>1. /\ env' = env /\ desc' = desc /\ counter' = counter /\ block' = block /\ given' = given
        /\ calls' = [calls EXCEPT ![s] = [at |-> "lookup", desc |-> desc]]
    BY Zenon, <1>2 DEF Lookup
  <2>2. calls' \in [env.sessions -> Calls]
    BY Zenon, <1>a, <2>1
  <2> QED BY Zenon, <1>0, <1>a, <2>1, <2>2
<1>3. ASSUME NEW s \in env.sessions, NEW b \in Blocks, HandOut(s, env.gateway[s], b),
             env' = env, desc' = desc, counter' \in Int
      PROVE  SequenceTypes'
  <2>1. [b EXCEPT !.next = @ + b.incr] \in Blocks /\ b.next \in Int
    BY ONLY b \in Blocks DEF Blocks
  <2>2. block' \in [Gateways -> Slots]
    BY Zenon, <1>3, <1>a, <1>b, <2>1 DEF HandOut, Slots
  <2>3. calls' \in [env.sessions -> Calls]
    BY Zenon, <1>3, <1>a DEF HandOut
  <2>4. given' \subseteq Int
    BY Zenon, <1>3, <1>a, <2>1 DEF HandOut
  <2> QED BY Zenon, <1>0, <1>3, <1>a, <2>2, <2>3, <2>4
<1>4. ASSUME NEW s \in env.sessions, FromBlock(s) PROVE SequenceTypes'
  <2>1. block[env.gateway[s]] # <<>>
    BY Zenon, <1>4 DEF FromBlock, Exhausted
  <2>2. block[env.gateway[s]][1] \in Blocks
    BY Zenon, <1>b, <2>1, BlockOf
  <2>3. env' = env /\ desc' = desc /\ counter' = counter /\ HandOut(s, env.gateway[s], block[env.gateway[s]][1])
    BY Zenon, <1>4 DEF FromBlock
  <2> QED BY Zenon, <1>3, <1>a, <2>2, <2>3
<1>5. ASSUME NEW s \in env.sessions, TakeBlock(s) PROVE SequenceTypes'
  <2>1. calls[s].desc \in Descriptors(env)
    BY Zenon, <1>5, CallDescriptor DEF TakeBlock
  <2>2. PICK d \in Descriptors(env) : d = calls[s].desc
    BY Zenon, <2>1
  <2>3. d \in Descriptor /\ Step(d) \in Int
    BY Zenon, <2>2, Directed, StepAhead
  <2>4. Block(d, counter + Step(d)) \in Blocks /\ counter + Step(d) \in Int
    BY <1>a, <2>3 DEF Block, Blocks, Descriptor, Step
  <2>5. PICK b \in Blocks : b = Block(d, counter + Step(d))
    BY Zenon, <2>4
  <2>6. counter' \in Int /\ env' = env /\ desc' = desc
    BY Zenon, <1>5, <2>2, <2>4 DEF TakeBlock
  <2>7. CASE HandOut(s, env.gateway[s], b)
    BY Zenon, <1>3, <2>6, <2>7
  <2>8. CASE /\ calls' = [calls EXCEPT ![s] =
                     IF d.cycle /\ @.at = "lookup" THEN [at |-> "cycle", desc |-> d] ELSE Idle]
             /\ block' = block /\ given' = given
    <3>1. [at |-> "cycle", desc |-> d] \in Calls
      BY Zenon, <1>a, <2>2
    <3>2. calls' \in [env.sessions -> Calls]
      BY Zenon, <1>a, <2>8, <3>1
    <3> QED BY Zenon, <1>0, <1>a, <2>6, <2>8, <3>2
  <2> QED BY Zenon, <1>5, <2>2, <2>5, <2>7, <2>8 DEF TakeBlock
<1>7. ASSUME NEW s \in env.sessions, Cycle(s) PROVE SequenceTypes'
  <2>1. calls[s].desc \in Descriptors(env)
    BY Zenon, <1>7, CallDescriptor DEF Cycle
  <2>2. PICK d \in Descriptors(env) : d = calls[s].desc
    BY Zenon, <2>1
  <2>3. d \in Descriptor
    BY Zenon, <2>2, Directed
  <2>4. (IF d.increment > 0 THEN d.min ELSE d.max) - d.increment \in Int
    BY ONLY <2>3 DEF Descriptor
  <2>5. counter' \in Int /\ given' = {} /\ env' = env /\ desc' = desc
        /\ calls' = [calls EXCEPT ![s].at = "again"] /\ calls[s].at = "cycle"
    BY Zenon, <1>7, <2>2, <2>4 DEF Cycle
  <2>6. [calls[s] EXCEPT !.at = "again"] \in Calls
    <3>1. calls[s] \in [at : {"lookup", "cycle", "again"}, desc : Descriptors(env)]
      <4>1. Idle.at = "idle"
        BY Zenon DEF Idle
      <4> QED BY Zenon, <1>a, <2>5, <4>1 DEF Calls
    <3> QED BY Zenon, <3>1 DEF Calls
  <2>7. calls' \in [env.sessions -> Calls]
    BY Zenon, <1>a, <2>5, <2>6
  <2>8. block' \in [Gateways -> Slots]
    BY Zenon, <1>7, CycleStales
  <2>9. given' \subseteq Int
    BY Zenon, <2>5
  <2> QED BY Zenon, <1>0, <1>a, <2>5, <2>7, <2>8, <2>9
<1>9. ASSUME NEW s \in env.sessions, NEW v \in env.values, NEW isCalled \in BOOLEAN, setval(s, v, isCalled)
      PROVE  SequenceTypes'
  <2>1. desc \in Descriptor /\ v \in Int
    BY Zenon, <1>a, Directed DEF OneDirection, WellFormed
  <2>2. PICK x : x = IF isCalled THEN v ELSE v - desc.increment
    BY Zenon
  <2>3. x \in Int
    BY ONLY <2>1, <2>2, isCalled \in BOOLEAN DEF Descriptor
  <2>4. Reset(env.gateway[s], x) /\ env' = env /\ desc' = desc /\ calls' = calls
    BY Zenon, <1>9, <2>2 DEF setval
  <2>5. block' \in [Gateways -> Slots] /\ counter' = x /\ given' \subseteq Int
    BY Zenon, <2>4, ResetStales DEF Reset
  <2> QED BY Zenon, <1>0, <1>a, <2>3, <2>4, <2>5
<1>10. ASSUME NEW s \in env.sessions, NEW a \in env.alters, AlterSequence(s, a.desc, a.restart)
       PROVE  SequenceTypes'
  <2>1. a.desc \in Descriptors(env)
    BY Zenon DEF Descriptors
  <2>2. a.desc \in Descriptor
    BY Zenon, <2>1, Directed
  <2>3. PICK x : x = IF a.restart THEN a.desc.start - a.desc.increment ELSE counter
    BY Zenon
  <2>4. x \in Int
    <3>1. a.desc.start - a.desc.increment \in Int
      BY ONLY <2>2 DEF Descriptor
    <3> QED BY Zenon, <1>a, <2>3, <3>1
  <2>5. env' = env /\ desc' = a.desc /\ calls' = calls
    BY Zenon, <1>10 DEF AlterSequence
  <2>6. CASE Reset(env.gateway[s], x)
    <3>1. block' \in [Gateways -> Slots] /\ counter' = x /\ given' \subseteq Int
      BY Zenon, <2>6, ResetStales DEF Reset
    <3> QED BY Zenon, <1>0, <1>a, <2>1, <2>4, <2>5, <3>1
  <2>7. CASE block' = [block EXCEPT ![env.gateway[s]] = <<>>] /\ counter' = counter /\ given' = given
    <3>1. block' \in [Gateways -> Slots]
      BY Zenon, <1>a, <2>7 DEF Slots
    <3> QED BY Zenon, <1>0, <1>a, <2>1, <2>5, <2>7, <3>1
  <2> QED BY Zenon, <1>10, <2>3, <2>6, <2>7 DEF AlterSequence
<1> QED BY Zenon, <1>1, <1>2, <1>4, <1>5, <1>7, <1>9, <1>10 DEF Next

\* Upto is a total order of the integers, in which a step of the sequence goes up.
LEMMA Order ==
    /\ \A x \in Int : Upto(x, x)
    /\ \A x, y \in Int : Upto(x, y) \/ Upto(y, x)
    /\ \A x, y \in Int : Upto(x, y) /\ Upto(y, x) => x = y
    /\ \A x, y, z \in Int : Upto(x, y) /\ Upto(y, z) => Upto(x, z)
    /\ \A x, i \in Int : i # 0 /\ (i > 0 <=> Rises) => x + i \in Int /\ Upto(x, x + i) /\ ~Upto(x + i, x)
<1>1. CASE Rises
  BY <1>1 DEF Upto
<1>2. CASE ~Rises
  BY <1>2 DEF Upto
<1> QED BY Zenon, <1>1, <1>2

\* Handing out the first value of a block that is nobody else's keeps the values
\* apart, whether the block is a gateway's own or fresh from the counter.
LEMMA HandOutApart ==
    ASSUME SequenceTypes, Partitioned, NEW s \in env.sessions, NEW g \in Gateways, NEW b \in Blocks,
           b.incr # 0, b.incr > 0 <=> Rises, HandOut(s, g, b), env' = env,
           counter' \in Int, Upto(counter, counter'),
           b.fresh => Upto(b.next, counter') /\ b.next \notin given,
           b.fresh => \A v \in Int : Upto(b.next, v) /\ Upto(v, b.last) => Upto(v, counter') /\ v \notin given,
           b.fresh => \A h \in Gateways \ {g} : \A v \in Int :
                        Holds(h, v) => v # b.next /\ ~(Upto(b.next, v) /\ Upto(v, b.last))
    PROVE  Partitioned'
<1>0. /\ Rises' = Rises /\ Gateways' = Gateways /\ counter \in Int /\ given \subseteq Int
      /\ b.next \in Int /\ b.last \in Int /\ b.incr \in Int /\ b.fresh \in BOOLEAN
  BY Zenon DEF Rises, Gateways, SequenceTypes, Blocks
<1>1. \A x, y \in Int : (IF Rises' THEN x <= y ELSE y <= x) <=> Upto(x, y)
  BY Zenon, <1>0 DEF Upto
<1>2. PICK nx \in Int : nx = b.next + b.incr /\ Upto(b.next, nx) /\ ~Upto(nx, b.next)
  <2>1. b.next + b.incr \in Int /\ Upto(b.next, b.next + b.incr) /\ ~Upto(b.next + b.incr, b.next)
    BY Zenon, <1>0, Order
  <2> QED BY Zenon, <2>1
<1>3. PICK nb \in Blocks : nb = [b EXCEPT !.next = nx] /\ nb.next = nx /\ nb.last = b.last /\ nb.fresh = b.fresh
  <2>1. [b EXCEPT !.next = nx] \in Blocks
    BY ONLY nx \in Int, b \in Blocks DEF Blocks
  <2>2. /\ [b EXCEPT !.next = nx].next = nx /\ [b EXCEPT !.next = nx].last = b.last
        /\ [b EXCEPT !.next = nx].fresh = b.fresh
    BY ONLY nx \in Int, b \in Blocks DEF Blocks
  <2> QED BY Zenon, <2>1, <2>2
<1>4. /\ block'[g] = <<nb>> /\ \A h \in Gateways \ {g} : block'[h] = block[h]
      /\ given' = (IF b.fresh THEN given \union {b.next} ELSE given)
      /\ twice' = (twice \/ (b.fresh /\ b.next \in given))
  BY Zenon, <1>2, <1>3 DEF HandOut, SequenceTypes
<1>5. <<nb>> # <<>> /\ <<nb>>[1] = nb
  BY ONLY TRUE
<1>6. ~twice'
  BY Zenon, <1>4 DEF Partitioned
<1>7. \A v \in given' : Upto(v, counter)'
  <2>1. \A v \in given : v \in Int /\ Upto(v, counter')
    BY Zenon, <1>0, Order DEF Partitioned
  <2>2. \A v \in given' : v \in Int /\ Upto(v, counter')
    BY Zenon, <1>0, <1>4, <2>1
  <2> QED BY Zenon, <1>1, <2>2 DEF Upto
<1>8. \A v \in Int : Holds(g, v)' => b.fresh /\ Upto(nx, v) /\ Upto(v, b.last)
  <2> SUFFICES ASSUME NEW v \in Int, Holds(g, v)' PROVE b.fresh /\ Upto(nx, v) /\ Upto(v, b.last)
    BY Zenon
  <2>1. block'[g][1].next = nx /\ block'[g][1].last = b.last /\ block'[g][1].fresh = b.fresh
    BY Zenon, <1>3, <1>4, <1>5
  <2>2. b.fresh
    BY Zenon, <2>1 DEF Holds
  <2>3. CASE Rises
    BY Zenon, <1>0, <2>1, <2>2, <2>3 DEF Holds, Upto
  <2>4. CASE ~Rises
    BY Zenon, <1>0, <2>1, <2>2, <2>4 DEF Holds, Upto
  <2> QED BY Zenon, <2>3, <2>4
<1>9. ASSUME NEW v \in Int, Holds(g, v)' PROVE b.fresh /\ Upto(b.next, v) /\ Upto(v, b.last) /\ v # b.next
  <2>1. b.fresh /\ Upto(nx, v) /\ Upto(v, b.last)
    BY Zenon, <1>8, <1>9
  <2>2. Upto(b.next, v)
    BY Zenon, <1>0, <1>2, <2>1, Order
  <2>3. v # b.next
    BY Zenon, <1>2, <2>1
  <2> QED BY Zenon, <2>1, <2>2, <2>3
<1>10. \A h \in Gateways \ {g} : \A v \in Int : Holds(h, v)' => Holds(h, v)
  <2> SUFFICES ASSUME NEW h \in Gateways \ {g}, NEW v \in Int, Holds(h, v)' PROVE Holds(h, v)
    BY Zenon
  <2>1. block'[h] = block[h]
    BY Zenon, <1>4
  <2>2. CASE Rises
    BY Zenon, <1>0, <2>1, <2>2 DEF Holds, Upto
  <2>3. CASE ~Rises
    BY Zenon, <1>0, <2>1, <2>3 DEF Holds, Upto
  <2> QED BY Zenon, <2>2, <2>3
<1>11. ASSUME NEW h \in Gateways, NEW v \in Int, Holds(h, v)' PROVE Upto(v, counter') /\ v \notin given'
  <2>1. CASE h = g
    BY Zenon, <1>4, <1>9, <1>11, <2>1
  <2>2. CASE h # g
    <3>1. Holds(h, v)
      BY Zenon, <1>10, <1>11, <2>2
    <3>2. Upto(v, counter) /\ v \notin given /\ (b.fresh => v # b.next)
      BY Zenon, <2>2, <3>1 DEF Partitioned
    <3> QED BY Zenon, <1>0, <1>4, <3>2, Order
  <2> QED BY Zenon, <2>1, <2>2
<1>12. ASSUME NEW h \in Gateways, NEW k \in Gateways, NEW v \in Int, Holds(h, v)', Holds(k, v)' PROVE h = k
  <2>1. CASE h # g /\ k # g
    BY Zenon, <1>10, <1>12, <2>1 DEF Partitioned
  <2>2. CASE h = g
    BY Zenon, <1>9, <1>10, <1>12, <2>2
  <2>3. CASE k = g
    BY Zenon, <1>9, <1>10, <1>12, <2>3
  <2> QED BY Zenon, <2>1, <2>2, <2>3
<1>13. \A g_1 \in Gateways' : \A v \in Int : Holds(g_1, v)' => Upto(v, counter)' /\ v \notin given'
  BY Zenon, <1>0, <1>1, <1>11 DEF Upto
<1> QED BY Zenon, <1>0, <1>6, <1>7, <1>12, <1>13 DEF Partitioned

\* Nothing handed out and nothing held: the values are apart.
LEMMA StaleApart ==
    ASSUME SequenceTypes', AllStale, given' = {}, ~twice', env' = env
    PROVE  Partitioned'
<1>1. Gateways' = Gateways
  BY Zenon DEF Gateways
<1>2. \A g \in Gateways : \A v : ~Holds(g, v)'
  BY Zenon DEF AllStale, Holds
<1> QED BY Zenon, <1>1, <1>2 DEF Partitioned

\* Nor does a smaller block, with the same counter and history, bring them together.
LEMMA FewerApart ==
    ASSUME SequenceTypes, Partitioned, env' = env, given' = given, twice' = twice, counter' \in Int,
           Upto(counter, counter'), \A g \in Gateways : block'[g] = block[g] \/ block'[g] = <<>>
    PROVE  Partitioned'
<1>0. Gateways' = Gateways /\ Rises' = Rises /\ counter \in Int /\ given \subseteq Int
  BY Zenon DEF Gateways, Rises, SequenceTypes
<1>1. \A g \in Gateways : \A v : Holds(g, v)' => Holds(g, v)
  <2> SUFFICES ASSUME NEW g \in Gateways, NEW v, Holds(g, v)' PROVE Holds(g, v)
    BY Zenon
  <2>1. block'[g] = block[g]
    BY Zenon DEF Holds
  <2>2. CASE Rises
    BY Zenon, <1>0, <2>1, <2>2 DEF Holds, Upto
  <2>3. CASE ~Rises
    BY Zenon, <1>0, <2>1, <2>3 DEF Holds, Upto
  <2> QED BY Zenon, <2>2, <2>3
<1>2. \A v \in Int : Upto(v, counter) => Upto(v, counter)'
  <2> SUFFICES ASSUME NEW v \in Int, Upto(v, counter) PROVE Upto(v, counter)'
    BY Zenon
  <2>1. Upto(v, counter')
    BY Zenon, <1>0, Order
  <2> QED BY Zenon, <1>0, <2>1 DEF Upto
<1>3. \A v \in given' : Upto(v, counter)'
  BY Zenon, <1>0, <1>2 DEF Partitioned
<1>4. \A g \in Gateways' : \A v \in Int : Holds(g, v)' => Upto(v, counter)' /\ v \notin given'
  BY Zenon, <1>0, <1>1, <1>2 DEF Partitioned
<1>5. \A g, h \in Gateways' : \A v \in Int : Holds(g, v)' /\ Holds(h, v)' => g = h
  BY Zenon, <1>0, <1>1 DEF Partitioned
<1> QED BY Zenon, <1>3, <1>4, <1>5 DEF Partitioned

\* Every step keeps the values apart.
LEMMA ApartStep ==
    ASSUME \A e \in Environments : OneDirection(e), SequenceTypes, Partitioned, [Next]_vars
    PROVE  Partitioned'
<1>0. /\ counter \in Int /\ given \subseteq Int /\ Upto(counter, counter) /\ SequenceTypes'
      /\ \A s \in env.sessions : env.gateway[s] \in Gateways
  BY Zenon, Order, TypesStep DEF SequenceTypes, Gateways
<1>1. ASSUME UNCHANGED <<env, counter, given, twice, block>> PROVE Partitioned'
  BY Zenon, <1>0, <1>1, FewerApart
<1>2. ASSUME NEW s \in env.sessions, FromBlock(s) PROVE Partitioned'
  <2> DEFINE g == env.gateway[s]
  <2>1. g \in Gateways /\ block[g] # <<>> /\ ~Exhausted(block[g], calls[s].desc) /\ calls[s].desc \in Descriptors(env)
        /\ HandOut(s, g, block[g][1]) /\ env' = env /\ counter' = counter
    BY Zenon, <1>0, <1>2, CallDescriptor DEF FromBlock, Exhausted
  <2>2. PICK b \in Blocks : b = block[g][1]
    BY Zenon, <2>1, BlockOf
  <2>3. PICK d \in Descriptors(env) : d = calls[s].desc
    BY Zenon, <2>1
  <2>4. d \in Descriptor /\ d.increment # 0 /\ (d.increment > 0 <=> Rises)
    BY Zenon, <2>3, Directed DEF Valid
  <2>5. /\ b.incr = d.increment /\ ~(d.increment > 0 /\ b.next > b.last) /\ ~(d.increment < 0 /\ b.next < b.last)
    BY Zenon, <2>1, <2>2, <2>3 DEF Exhausted
  <2>6. Upto(b.next, b.last) /\ b.next \in Int /\ b.last \in Int
    BY ONLY <2>4, <2>5, b \in Blocks DEF Upto, Blocks, Descriptor
  <2>7. \A v \in Int : b.fresh /\ Upto(b.next, v) /\ Upto(v, b.last) => Holds(g, v)
    BY Zenon, <2>1, <2>2 DEF Holds
  <2>8. b.fresh => Holds(g, b.next)
    BY Zenon, <2>6, <2>7, Order
  <2>9. b.fresh => Upto(b.next, counter') /\ b.next \notin given
    BY Zenon, <2>1, <2>6, <2>8 DEF Partitioned
  <2>10. b.fresh => \A v \in Int : Upto(b.next, v) /\ Upto(v, b.last) => Upto(v, counter') /\ v \notin given
    BY Zenon, <2>1, <2>7 DEF Partitioned
  <2>11. b.fresh => \A h \in Gateways \ {g} : \A v \in Int :
                      Holds(h, v) => v # b.next /\ ~(Upto(b.next, v) /\ Upto(v, b.last))
    BY Zenon, <2>1, <2>6, <2>7, <2>8 DEF Partitioned
  <2>12. counter' \in Int /\ Upto(counter, counter') /\ HandOut(s, g, b) /\ b.incr # 0 /\ (b.incr > 0 <=> Rises)
    BY Zenon, <1>0, <2>1, <2>2, <2>4, <2>5
  <2> HIDE DEF g
  <2> QED BY Zenon, <2>1, <2>9, <2>10, <2>11, <2>12, HandOutApart
<1>3. ASSUME NEW s \in env.sessions, TakeBlock(s) PROVE Partitioned'
  <2>1. calls[s].desc \in Descriptors(env) /\ env.gateway[s] \in Gateways
    BY Zenon, <1>0, <1>3, CallDescriptor DEF TakeBlock
  <2>2. PICK d \in Descriptors(env) : d = calls[s].desc
    BY Zenon, <2>1
  <2>3. PICK g \in Gateways : g = env.gateway[s]
    BY Zenon, <2>1
  <2>4. d \in Descriptor /\ Valid(d) /\ (d.increment > 0 <=> Rises) /\ d.increment # 0 /\ d.increment \in Int
    BY Zenon, <2>2, Directed DEF Valid, Descriptor
  <2>5. PICK k \in Int : k = Step(d) /\ (d.increment > 0 => k >= d.increment) /\ (d.increment < 0 => k <= d.increment)
    BY Zenon, <2>4, StepAhead
  <2>6. PICK b \in Blocks : b = Block(d, counter + k)
    <3>1. Block(d, counter + k) \in Blocks
      BY <1>0, <2>4, <2>5 DEF Block, Blocks, Descriptor, Step
    <3> QED BY Zenon, <3>1
  <2>7. /\ b.next = counter + d.increment /\ b.incr = d.increment
        /\ b.last \in Int /\ b.next \in Int /\ (d.increment > 0 => b.last <= counter + k) /\ (d.increment < 0 => b.last >= counter + k)
    BY ONLY <1>0, <2>4, <2>5, <2>6 DEF Block, Blocks, Descriptor, Step
  <2>8. PICK n \in Int : n = counter + k
    BY ONLY <1>0, <2>5
  <2>9. Upto(counter, n) /\ Upto(b.next, n) /\ Upto(b.last, n) /\ ~Upto(b.next, counter)
    BY ONLY <1>0, <2>4, <2>5, <2>7, <2>8 DEF Upto, Rises
  <2>10. counter' = n /\ env' = env
    BY Zenon, <1>3, <2>2, <2>5, <2>8 DEF TakeBlock
  <2>11. CASE given' = given /\ twice' = twice /\ block' = block
    BY Zenon, <2>9, <2>10, <2>11, FewerApart
  <2>12. CASE HandOut(s, g, b)
    <3>1. \A v \in Int : Upto(v, counter) => v # b.next /\ ~Upto(b.next, v)
      BY Zenon, <1>0, <2>7, <2>9, Order
    <3>2. \A v \in given : v \in Int /\ Upto(v, counter)
      BY Zenon, <1>0 DEF Partitioned
    <3>3. b.next \notin given
      BY Zenon, <3>1, <3>2
    <3>4. \A v \in Int : Upto(b.next, v) /\ Upto(v, b.last) => Upto(v, n) /\ v \notin given
      BY Zenon, <2>7, <2>9, <3>1, <3>2, Order
    <3>5. \A h \in Gateways \ {g} : \A v \in Int :
            Holds(h, v) => v # b.next /\ ~(Upto(b.next, v) /\ Upto(v, b.last))
      BY Zenon, <3>1 DEF Partitioned
    <3> QED BY Zenon, <2>4, <2>7, <2>9, <2>10, <2>12, <3>3, <3>4, <3>5, HandOutApart
  <2> QED BY Zenon, <1>3, <2>2, <2>3, <2>5, <2>6, <2>11, <2>12 DEF TakeBlock
<1>4. ASSUME NEW s \in env.sessions, Cycle(s) PROVE Partitioned'
  <2>1. AllStale
    BY Zenon, <1>4, CycleStales
  <2>2. given' = {} /\ ~twice' /\ env' = env
    BY Zenon, <1>4 DEF Cycle, Partitioned
  <2> QED BY Zenon, <1>0, <2>1, <2>2, StaleApart
<1>5. ASSUME NEW g, NEW x, Reset(g, x), twice' = twice, env' = env PROVE Partitioned'
  <2>1. AllStale
    BY Zenon, <1>5, ResetStales
  <2>2. given' = {} /\ ~twice'
    BY Zenon, <1>5 DEF Reset, Partitioned
  <2> QED BY Zenon, <1>0, <1>5, <2>1, <2>2, StaleApart
<1>6. ASSUME NEW s \in env.sessions, NEW v \in env.values, NEW isCalled \in BOOLEAN, setval(s, v, isCalled)
      PROVE  Partitioned'
  BY Zenon, <1>5, <1>6 DEF setval
<1>7. ASSUME NEW s \in env.sessions, NEW a \in env.alters, AlterSequence(s, a.desc, a.restart)
      PROVE  Partitioned'
  <2>1. twice' = twice /\ env' = env
    BY Zenon, <1>7 DEF AlterSequence
  <2>2. CASE \E x : Reset(env.gateway[s], x)
    BY Zenon, <1>5, <2>1, <2>2
  <2>3. CASE block' = [block EXCEPT ![env.gateway[s]] = <<>>] /\ counter' = counter /\ given' = given
    <3>1. \A g \in Gateways : block'[g] = block[g] \/ block'[g] = <<>>
      BY Zenon, <2>3 DEF SequenceTypes
    <3> QED BY Zenon, <1>0, <2>1, <2>3, <3>1, FewerApart
  <2> QED BY Zenon, <1>7, <2>2, <2>3 DEF AlterSequence
<1>8. ASSUME NEW s \in env.sessions, Lookup(s) PROVE Partitioned'
  BY Zenon, <1>1, <1>8 DEF Lookup
<1>9. CASE UNCHANGED vars
  BY Zenon, <1>1, <1>9 DEF vars
<1> QED BY Zenon, <1>2, <1>3, <1>4, <1>6, <1>7, <1>8, <1>9 DEF Next

\* A new sequence has handed nothing out.
LEMMA ApartInit ==
    ASSUME \A e \in Environments : OneDirection(e), Init
    PROVE  SequenceTypes /\ Partitioned
<1>1. env.desc \in Descriptors(env) /\ env \in Environments
  BY Zenon DEF Init, Descriptors
<1>2. env.desc \in Descriptor
  BY Zenon, <1>1 DEF OneDirection, WellFormed
<1>3. counter \in Int
  BY <1>2 DEF Init, Descriptor
<1>4. SequenceTypes
  BY Zenon, <1>1, <1>3 DEF Init, SequenceTypes, Gateways
<1>5. \A g \in Gateways : block[g] = <<>>
  BY Zenon DEF Init, Gateways
<1> QED BY Zenon, <1>4, <1>5 DEF Init, Partitioned, Holds

\* nextval never hands out a value twice until the counter is set again, whatever
\* the CACHE, INCREMENT and bounds, however many gateways and sessions call it, and
\* whatever ALTER SEQUENCE changes but the direction (takeSequenceBlock).
THEOREM HandedOutOnce ==
    ASSUME \A e \in Environments : OneDirection(e)
    PROVE  Spec => []~twice
<1>1. Init => SequenceTypes /\ Partitioned
  BY Zenon, ApartInit
<1>2. SequenceTypes /\ Partitioned /\ [Next]_vars => (SequenceTypes /\ Partitioned)'
  BY Zenon, TypesStep, ApartStep
<1>3. SequenceTypes /\ Partitioned => ~twice
  BY Zenon DEF Partitioned
<1> QED BY <1>1, <1>2, <1>3, PTL DEF Spec

\* The bound a sequence comes from, and the value before it.
Origin == IF Rises THEN env.desc.min ELSE env.desc.max
Before == Origin - env.desc.increment

\* A block lies between the bounds it was taken under, but for its last step.
Within(b) ==
    /\ b.incr = env.desc.increment
    /\ Upto(Origin, b.next)
    /\ IF Rises THEN b.min = Origin /\ b.last <= b.max ELSE b.max = Origin /\ b.min <= b.last

\* The counter is never short of the value before the first, and every block that
\* is kept lies within its bounds.
Bounded ==
    /\ ~outside
    /\ Upto(Before, counter)
    /\ \A g \in Gateways : block[g] # <<>> => Within(block[g][1])

\* What a steady environment says of the descriptors in use.
LEMMA SteadyDescriptor ==
    ASSUME \A e \in Environments : Steady(e), SequenceTypes, NEW d \in Descriptors(env)
    PROVE  /\ d \in Descriptor /\ Valid(d) /\ d.increment = env.desc.increment /\ (d.increment > 0 <=> Rises)
           /\ IF Rises THEN d.min = Origin ELSE d.max = Origin
<1>1. Steady(env) /\ OneDirection(env)
  BY Zenon DEF SequenceTypes, Steady
<1> QED BY Zenon, <1>1 DEF Steady, OneDirection, WellFormed, Rises, Origin

\* And of its scale.
LEMMA Scale ==
    ASSUME \A e \in Environments : Steady(e), SequenceTypes
    PROVE  /\ Origin \in Int /\ Before \in Int /\ env.desc.increment \in Int /\ env.desc.increment # 0
           /\ Before + env.desc.increment = Origin /\ Upto(Before, Origin)
<1>1. env.desc \in Descriptors(env)
  BY Zenon DEF Descriptors
<1>2. env.desc \in Descriptor /\ Valid(env.desc)
  BY Zenon, <1>1, SteadyDescriptor
<1> QED BY ONLY <1>2 DEF Descriptor, Valid, Origin, Before, Rises, Upto

\* The scale is of the environment.
LEMMA ScaleStays ==
    ASSUME env' = env
    PROVE  /\ Origin' = Origin /\ Before' = Before /\ Gateways' = Gateways
           /\ \A x, y : Upto(x, y)' <=> Upto(x, y)
           /\ \A b : Within(b)' <=> Within(b)
<1>1. Origin' = Origin /\ Before' = Before /\ Gateways' = Gateways /\ Rises' = Rises
  BY Zenon DEF Origin, Before, Gateways, Rises
<1>2. ASSUME NEW x, NEW y PROVE Upto(x, y)' <=> Upto(x, y)
  BY Zenon, <1>1 DEF Upto
<1>3. ASSUME NEW b PROVE Within(b)' <=> Within(b)
  BY Zenon, <1>1 DEF Within, Upto
<1> QED BY Zenon, <1>1, <1>2, <1>3

\* Handing out a value within the bounds keeps the blocks within them.
LEMMA HandOutWithin ==
    ASSUME \A e \in Environments : Steady(e), SequenceTypes, Bounded, NEW s \in env.sessions,
           NEW g \in Gateways, NEW b \in Blocks, HandOut(s, g, b), env' = env, Within(b),
           b.min <= b.next, b.next <= b.max, Upto(Before, counter')
    PROVE  Bounded'
<1>0. env.desc.increment \in Int /\ env.desc.increment # 0 /\ (env.desc.increment > 0 <=> Rises) /\ Origin \in Int
  BY Zenon, Scale DEF Rises
<1>1. b.next \in Int /\ b.min \in Int /\ b.max \in Int /\ b.last \in Int /\ b.incr = env.desc.increment
  BY Zenon DEF Within, Blocks
<1>2. PICK n \in Int : n = b.next + b.incr /\ Upto(Origin, n)
  <2>1. b.next + b.incr \in Int /\ Upto(b.next, b.next + b.incr)
    BY Zenon, <1>0, <1>1, Order
  <2>2. Upto(Origin, b.next + b.incr)
    BY Zenon, <1>0, <1>1, <2>1, Order DEF Within
  <2> QED BY Zenon, <2>1, <2>2
<1>3. PICK c \in Blocks : /\ c = [b EXCEPT !.next = n] /\ c.next = n /\ c.incr = b.incr /\ c.min = b.min
                          /\ c.max = b.max /\ c.last = b.last
  <2>1. [b EXCEPT !.next = n] \in Blocks
    BY ONLY n \in Int, b \in Blocks DEF Blocks
  <2>2. ASSUME NEW c, c = [b EXCEPT !.next = n]
        PROVE  c.next = n /\ c.incr = b.incr /\ c.min = b.min /\ c.max = b.max /\ c.last = b.last
    BY ONLY <2>2, n \in Int, b \in Blocks DEF Blocks
  <2> QED BY Zenon, <2>1, <2>2
<1>4. Within(c)
  BY Zenon, <1>2, <1>3 DEF Within
<1>5. <<c>>[1] = c
  BY ONLY TRUE
<1>6. block'[g] = <<c>> /\ \A h \in Gateways \ {g} : block'[h] = block[h]
  BY Zenon, <1>2, <1>3 DEF HandOut, SequenceTypes
<1>7. ~(b.next < b.min) /\ ~(b.next > b.max)
  BY ONLY <1>1, b.min <= b.next, b.next <= b.max
<1>8. ~outside'
  BY Zenon, <1>7 DEF HandOut, Bounded
<1>9. \A h \in Gateways : block'[h] # <<>> => Within(block'[h][1])
  BY Zenon, <1>4, <1>5, <1>6 DEF Bounded
<1> QED BY Zenon, <1>8, <1>9, ScaleStays DEF Bounded

\* Changing the counter within the scale, and dropping blocks or calling them stale.
LEMMA ResetWithin ==
    ASSUME \A e \in Environments : Steady(e), SequenceTypes, Bounded, env' = env, outside' = outside,
           Upto(Before, counter'),
           \A g \in Gateways : \/ block'[g] = <<>> \/ block'[g] = block[g]
                               \/ block[g] # <<>> /\ block'[g] = <<[block[g][1] EXCEPT !.fresh = FALSE]>>
    PROVE  Bounded'
<1>1. ASSUME NEW g \in Gateways, block'[g] # <<>> PROVE Within(block'[g][1])
  <2>1. CASE block'[g] = block[g]
    BY Zenon, <1>1, <2>1 DEF Bounded
  <2>2. ASSUME block[g] # <<>>, block'[g] = <<[block[g][1] EXCEPT !.fresh = FALSE]>> PROVE Within(block'[g][1])
    <3>1. PICK b \in Blocks : b = block[g][1] /\ Within(b)
      BY Zenon, <2>2, BlockOf DEF Bounded
    <3>2. PICK c : c = [b EXCEPT !.fresh = FALSE]
      BY Zenon
    <3>3. c.next = b.next /\ c.incr = b.incr /\ c.min = b.min /\ c.max = b.max /\ c.last = b.last /\ <<c>>[1] = c
      BY ONLY <3>2, b \in Blocks DEF Blocks
    <3>4. Within(c)
      BY Zenon, <3>1, <3>3 DEF Within
    <3> QED BY Zenon, <2>2, <3>1, <3>2, <3>3, <3>4
  <2> QED BY Zenon, <1>1, <2>1, <2>2
<1> QED BY Zenon, <1>1, ScaleStays DEF Bounded

\* Every step keeps the blocks within their bounds.
LEMMA WithinStep ==
    ASSUME \A e \in Environments : Steady(e), SequenceTypes, Bounded, [Next]_vars
    PROVE  Bounded'
<1>0. /\ \A e \in Environments : OneDirection(e)
      /\ counter \in Int /\ \A s \in env.sessions : env.gateway[s] \in Gateways
      /\ DOMAIN block = Gateways /\ desc \in Descriptors(env) /\ Upto(Before, counter)
  BY Zenon DEF Steady, SequenceTypes, Gateways, Bounded
<1>a. /\ Origin \in Int /\ Before \in Int /\ env.desc.increment \in Int /\ env.desc.increment # 0
      /\ Before + env.desc.increment = Origin /\ Upto(Before, Origin) /\ (env.desc.increment > 0 <=> Rises)
  BY Zenon, Scale DEF Rises
<1>1. ASSUME UNCHANGED <<env, counter, block, outside>> PROVE Bounded'
  BY Zenon, <1>0, <1>1, ResetWithin
<1>2. ASSUME NEW s \in env.sessions, FromBlock(s) PROVE Bounded'
  <2>1. PICK g \in Gateways : g = env.gateway[s]
    BY Zenon, <1>0
  <2>2. /\ block[g] # <<>> /\ ~Exhausted(block[g], calls[s].desc) /\ calls[s].desc \in Descriptors(env)
        /\ HandOut(s, g, block[g][1]) /\ env' = env /\ counter' = counter
    BY Zenon, <1>2, <2>1, CallDescriptor DEF FromBlock, Exhausted
  <2>3. PICK b \in Blocks : b = block[g][1] /\ Within(b)
    BY Zenon, <2>2, BlockOf DEF Bounded
  <2>4. PICK d \in Descriptors(env) : d = calls[s].desc
    BY Zenon, <2>2
  <2>5. d.increment = env.desc.increment
    BY Zenon, SteadyDescriptor
  <2>6. ~(d.increment > 0 /\ b.next > b.last) /\ ~(d.increment < 0 /\ b.next < b.last)
    BY Zenon, <2>2, <2>3, <2>4 DEF Exhausted
  <2>7. b.min <= b.next /\ b.next <= b.max
    BY ONLY <1>a, <2>3, <2>5, <2>6 DEF Within, Upto, Blocks
  <2> QED BY Zenon, <1>0, <2>2, <2>3, <2>7, HandOutWithin
<1>3. ASSUME NEW s \in env.sessions, TakeBlock(s) PROVE Bounded'
  <2>1. calls[s].desc \in Descriptors(env) /\ env.gateway[s] \in Gateways
    BY Zenon, <1>0, <1>3, CallDescriptor DEF TakeBlock
  <2>2. PICK d \in Descriptors(env) : d = calls[s].desc
    BY Zenon, <2>1
  <2>3. PICK g \in Gateways : g = env.gateway[s]
    BY Zenon, <2>1
  <2>4. /\ d \in Descriptor /\ Valid(d) /\ d.increment = env.desc.increment
        /\ IF Rises THEN d.min = Origin ELSE d.max = Origin
    BY Zenon, <2>2, SteadyDescriptor
  <2>5. PICK k \in Int : k = Step(d) /\ (d.increment > 0 => k >= d.increment) /\ (d.increment < 0 => k <= d.increment)
    BY Zenon, <2>4, StepAhead
  <2>6. PICK b \in Blocks : b = Block(d, counter + k)
    <3>1. Block(d, counter + k) \in Blocks
      BY <1>0, <2>4, <2>5 DEF Block, Blocks, Descriptor, Step
    <3> QED BY Zenon, <3>1
  <2>7. /\ b.next = counter + d.increment /\ b.incr = d.increment /\ b.min = d.min /\ b.max = d.max
        /\ b.last \in Int /\ (d.increment > 0 => b.last <= d.max) /\ (d.increment < 0 => b.last >= d.min)
        /\ d.min \in Int /\ d.max \in Int
    BY ONLY <1>0, <2>4, <2>5, <2>6 DEF Block, Blocks, Descriptor, Step
  <2>8. PICK n \in Int : n = counter + k
    BY ONLY <1>0, <2>5
  <2>9. Upto(Before, n)
    BY ONLY <1>0, <1>a, <2>4, <2>5, <2>8 DEF Upto
  <2>10. counter' = n /\ env' = env
    BY Zenon, <1>3, <2>2, <2>5, <2>8 DEF TakeBlock
  <2>11. CASE block' = block /\ outside' = outside
    BY Zenon, <2>9, <2>10, <2>11, ResetWithin
  <2>12. CASE HandOut(s, g, b) /\ ~PastBound(d, b.next)
    <3>1. b.min <= b.next /\ b.next <= b.max
      BY ONLY <1>0, <1>a, <2>4, <2>7, <2>12 DEF Upto, PastBound
    <3>2. Within(b)
      BY ONLY <1>0, <1>a, <2>4, <2>7 DEF Within, Upto
    <3> QED BY Zenon, <2>9, <2>10, <2>12, <3>1, <3>2, HandOutWithin
  <2> QED BY Zenon, <1>3, <2>2, <2>3, <2>5, <2>6, <2>11, <2>12 DEF TakeBlock
<1>4. ASSUME NEW s \in env.sessions, Cycle(s) PROVE Bounded'
  <2>1. calls[s].desc \in Descriptors(env)
    BY Zenon, <1>4, CallDescriptor DEF Cycle
  <2>2. PICK d \in Descriptors(env) : d = calls[s].desc
    BY Zenon, <2>1
  <2>3. /\ d.increment = env.desc.increment /\ IF Rises THEN d.min = Origin ELSE d.max = Origin
    BY Zenon, SteadyDescriptor
  <2>4. counter' = (IF d.increment > 0 THEN d.min ELSE d.max) - d.increment
    BY Zenon, <1>4, <2>2 DEF Cycle
  <2>5. counter' = Before
    BY ONLY <1>a, <2>3, <2>4
  <2>6. \A g \in Gateways : \/ block'[g] = <<>> \/ block'[g] = block[g]
                            \/ block[g] # <<>> /\ block'[g] = <<[block[g][1] EXCEPT !.fresh = FALSE]>>
    BY Zenon, <1>0, <1>4 DEF Cycle
  <2>7. env' = env /\ outside' = outside
    BY Zenon, <1>4 DEF Cycle
  <2>8. Upto(Before, counter')
    BY Zenon, <1>a, <2>5, Order
  <2> QED BY Zenon, <2>6, <2>7, <2>8, ResetWithin
<1>5. ASSUME NEW g, NEW x, Reset(g, x), Upto(Before, x), outside' = outside, env' = env PROVE Bounded'
  <2>1. \A h \in Gateways : \/ block'[h] = <<>> \/ block'[h] = block[h]
                            \/ block[h] # <<>> /\ block'[h] = <<[block[h][1] EXCEPT !.fresh = FALSE]>>
    BY Zenon, <1>0, <1>5 DEF Reset
  <2>2. Upto(Before, counter')
    BY Zenon, <1>5 DEF Reset
  <2> QED BY Zenon, <1>5, <2>1, <2>2, ResetWithin
<1>6. ASSUME NEW s \in env.sessions, NEW v \in env.values, NEW isCalled \in BOOLEAN, setval(s, v, isCalled)
      PROVE  Bounded'
  <2>1. /\ desc \in Descriptor /\ desc.increment = env.desc.increment
        /\ IF Rises THEN desc.min = Origin ELSE desc.max = Origin
    BY Zenon, <1>0, SteadyDescriptor
  <2>2. v \in Int
    BY Zenon, <1>0 DEF OneDirection, WellFormed, SequenceTypes
  <2>3. PICK x : x = IF isCalled THEN v ELSE v - desc.increment
    BY Zenon
  <2>4. desc.min <= v /\ v <= desc.max /\ Reset(env.gateway[s], x) /\ outside' = outside /\ env' = env
    BY Zenon, <1>6, <2>3 DEF setval
  <2>5. desc.min <= v /\ v <= desc.max /\ desc.min \in Int /\ desc.max \in Int
    BY Zenon, <2>1, <2>4 DEF Descriptor
  <2>6. Upto(Before, x)
    BY ONLY <1>a, <2>1, <2>2, <2>3, <2>5, isCalled \in BOOLEAN DEF Upto
  <2> QED BY Zenon, <1>5, <2>4, <2>6
<1>7. ASSUME NEW s \in env.sessions, NEW a \in env.alters, AlterSequence(s, a.desc, a.restart)
      PROVE  Bounded'
  <2>1. PICK d \in Descriptors(env) : d = a.desc
    BY Zenon DEF Descriptors
  <2>2. /\ d \in Descriptor /\ Valid(d) /\ d.increment = env.desc.increment
        /\ IF Rises THEN d.min = Origin ELSE d.max = Origin
    BY Zenon, SteadyDescriptor
  <2>3. outside' = outside /\ env' = env
    BY Zenon, <1>7 DEF AlterSequence
  <2>4. Upto(Before, d.start - d.increment)
    BY ONLY <1>a, <2>2 DEF Upto, Descriptor, Valid
  <2>5. CASE Reset(env.gateway[s], d.start - d.increment)
    BY Zenon, <1>5, <2>3, <2>4, <2>5
  <2>6. CASE Reset(env.gateway[s], counter)
    BY Zenon, <1>0, <1>5, <2>3, <2>6
  <2>7. CASE block' = [block EXCEPT ![env.gateway[s]] = <<>>] /\ counter' = counter
    <3>1. \A g \in Gateways : block'[g] = block[g] \/ block'[g] = <<>>
      BY Zenon, <2>7 DEF SequenceTypes
    <3> QED BY Zenon, <1>0, <2>3, <2>7, <3>1, ResetWithin
  <2> QED BY Zenon, <1>7, <2>1, <2>5, <2>6, <2>7 DEF AlterSequence
<1>8. ASSUME NEW s \in env.sessions, Lookup(s) PROVE Bounded'
  BY Zenon, <1>1, <1>8 DEF Lookup
<1>9. CASE UNCHANGED vars
  BY Zenon, <1>1, <1>9 DEF vars
<1> QED BY Zenon, <1>2, <1>3, <1>4, <1>6, <1>7, <1>8, <1>9 DEF Next

\* A sequence that keeps its INCREMENT and the bound it comes from hands out every
\* value once and none outside the bounds that nextval read, whatever its CACHE and
\* far bound, through setval, RESTART, CYCLE and any number of gateways ("values past
\* it are never handed out", sequence.go).
THEOREM ValuesStayOnce ==
    ASSUME \A e \in Environments : Steady(e)
    PROVE  Spec => []ValuesOnce
<1>0. \A e \in Environments : OneDirection(e)
  BY Zenon DEF Steady
<1>1. Init => SequenceTypes /\ Partitioned /\ Bounded
  <2> SUFFICES ASSUME Init PROVE SequenceTypes /\ Partitioned /\ Bounded
    BY Zenon
  <2>1. SequenceTypes /\ Partitioned
    BY Zenon, <1>0, ApartInit
  <2>2. /\ env.desc \in Descriptor /\ Valid(env.desc)
        /\ Origin \in Int /\ Before \in Int /\ Before + env.desc.increment = Origin
    <3>1. env.desc \in Descriptors(env)
      BY Zenon DEF Descriptors
    <3> QED BY Zenon, <2>1, <3>1, SteadyDescriptor, Scale
  <2>3. counter = env.desc.start - env.desc.increment
    BY Zenon DEF Init
  <2>4. Upto(Before, counter)
    BY ONLY <2>2, <2>3 DEF Descriptor, Valid, Upto, Origin, Rises
  <2>5. \A g \in Gateways : block[g] = <<>>
    BY Zenon DEF Init, Gateways
  <2> QED BY Zenon, <2>1, <2>4, <2>5 DEF Init, Bounded
<1>2. SequenceTypes /\ Partitioned /\ Bounded /\ [Next]_vars => (SequenceTypes /\ Partitioned /\ Bounded)'
  BY Zenon, <1>0, TypesStep, ApartStep, WithinStep
<1>3. SequenceTypes /\ Partitioned /\ Bounded => ValuesOnce
  BY Zenon DEF Partitioned, Bounded, ValuesOnce
<1> QED BY <1>1, <1>2, <1>3, PTL DEF Spec
=============================================================================
