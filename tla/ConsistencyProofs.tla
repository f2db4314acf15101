------------------------- MODULE ConsistencyProofs -------------------------
(***************************************************************************)
(* Proof that the consistency sweep raises no false alarm, for any number  *)
(* of nodes, ranges, writes, probes, restarts, snapshots and corruptions.  *)
(* The argument: a check stands at one place of one log, a replica         *)
(* captures for it the state of exactly that place, and every digest that  *)
(* is ever compared is the digest of such a capture.  Leaves that need no  *)
(* arithmetic go to Zenon; the others to SMT.                              *)
(***************************************************************************)
EXTENDS Consistency, TLAPS, FiniteSetTheorems

Ids == 1 .. env.probes
States == [writes : Nat, bad : BOOLEAN]
Digest(s) == <<s.writes, s.bad>>
Sums == {Digest(s) : s \in States}
Jobs == [range : Ranges, id : Ids, sum : Sums]
Kept == [id : Ids, sum : Sums]
Probes == [range : Ranges, id : Ids, todo : SUBSET Nodes, sum : {<<>>} \cup {<<s>> : s \in Sums}]
Alarms == [range : Ranges, node : Nodes, id : Ids]
Budget == [writes : Nat, probes : 0 .. env.probes, restarts : Nat, snapshots : Nat, corruptions : Nat]

\* The writes among the first k entries of a log.
WritesIn(q, k) == Cardinality({i \in 1 .. k : q[i] = 0})

\* The variables have their types.
TypeOK ==
  /\ env \in Env
  /\ log \in [Ranges -> Seq(Nat)]
  /\ applied \in [Nodes -> [Ranges -> Nat]]
  /\ state \in [Nodes -> [Ranges -> States]]
  /\ computing \in [Nodes -> SUBSET Jobs]
  /\ results \in [Nodes -> [Ranges -> Seq(Kept)]]
  /\ cursor \in Nat
  /\ probe \in {<<>>} \cup {<<p>> : p \in Probes}
  /\ mismatches \subseteq Alarms
  /\ captured \in [Ids -> [Nodes -> {<<>>} \cup {<<s>> : s \in States}]]
  /\ left \in Budget

\* Checks are numbered in the order they are proposed, and each is in one place.
ChecksOnce ==
  /\ \A r \in Ranges : \A i \in 1 .. Len(log[r]) : log[r][i] <= env.probes - left.probes
  /\ \A r, q \in Ranges : \A i \in 1 .. Len(log[r]), j \in 1 .. Len(log[q]) :
       log[r][i] = log[q][j] /\ log[r][i] # 0 => r = q /\ i = j

\* A replica has the writes of the part of the log it has applied.
StateFollows ==
  \A n \in Nodes, r \in Ranges :
    /\ applied[n][r] <= Len(log[r])
    /\ state[n][r].writes = WritesIn(log[r], applied[n][r])

\* What was captured for a check is the state at the check's place.
InPlace(e, n) ==
  captured[e][n] # <<>> =>
    \E r \in Ranges : \E i \in 1 .. applied[n][r] :
      log[r][i] = e /\ captured[e][n][1].writes = WritesIn(log[r], i)
CapturedInPlace == \A e \in Ids, n \in Nodes : InPlace(e, n)

\* sum is the digest of what node n captured for a check.
DigestOf(n, id, sum) == captured[id][n] # <<>> /\ sum = Digest(captured[id][n][1])

\* Every digest, being computed, kept or compared, is of a capture.
DigestsTrue ==
  /\ \A n \in Nodes : \A c \in computing[n] : DigestOf(n, c.id, c.sum)
  /\ \A n \in Nodes, r \in Ranges : \A i \in 1 .. Len(results[n][r]) :
       DigestOf(n, results[n][r][i].id, results[n][r][i].sum)
  /\ probe # <<>> /\ probe[1].sum # <<>> =>
       Leader \in Nodes /\ DigestOf(Leader, probe[1].id, probe[1].sum[1])

\* A failure reported of a check is one of two captures that differ.
MismatchesReal ==
  \A m \in mismatches :
    /\ Leader \in Nodes
    /\ captured[m.id][m.node] # <<>> /\ captured[m.id][Leader] # <<>>
    /\ captured[m.id][m.node] # captured[m.id][Leader]

\* What is inductive.
SweepInv == TypeOK /\ ChecksOnce /\ StateFollows /\ CapturedInPlace /\ DigestsTrue /\ MismatchesReal

\* One more entry is one more write, or a check.
LEMMA WritesCounted ==
  ASSUME NEW q \in Seq(Nat), NEW k \in Nat
  PROVE  /\ WritesIn(q, 0) = 0
         /\ WritesIn(q, k) \in Nat
         /\ WritesIn(q, k + 1) = IF q[k + 1] = 0 THEN WritesIn(q, k) + 1 ELSE WritesIn(q, k)
<1> DEFINE W(j) == {i \in 1 .. j : q[i] = 0}
<1>1. IsFiniteSet(W(k))
  <2>1. IsFiniteSet(1 .. k)
    BY FS_Interval
  <2> QED BY Zenon, <2>1, FS_Subset
<1>2. W(0) = {}
  OBVIOUS
<1>3. CASE q[k + 1] = 0
  <2>1. W(k + 1) = W(k) \cup {k + 1} /\ k + 1 \notin W(k)
    BY <1>3
  <2> HIDE DEF W
  <2>2. Cardinality(W(k + 1)) = Cardinality(W(k)) + 1
    BY Zenon, <1>1, <2>1, FS_AddElement
  <2> USE DEF W
  <2> QED BY Zenon, <1>1, <1>2, <1>3, <2>2, FS_EmptySet, FS_CardinalityType DEF WritesIn
<1>4. CASE q[k + 1] # 0
  <2>1. W(k + 1) = W(k)
    BY <1>4
  <2> QED BY Zenon, <1>1, <1>2, <1>4, <2>1, FS_EmptySet, FS_CardinalityType DEF WritesIn
<1> QED BY Zenon, <1>3, <1>4

\* What is appended to a log changes nothing before it.
LEMMA WritesKept ==
  ASSUME NEW q \in Seq(Nat), NEW x \in Nat, NEW k \in 0 .. Len(q)
  PROVE  WritesIn(Append(q, x), k) = WritesIn(q, k)
<1>1. \A i \in 1 .. k : Append(q, x)[i] = q[i]
  OBVIOUS
<1> QED BY Zenon, <1>1 DEF WritesIn

\* Equal digests are digests of equal states, and of two states with the same
\* writes that differ one is bad.
LEMMA DigestTells ==
  ASSUME NEW s \in States, NEW t \in States
  PROVE  /\ Digest(s) # Digest(t) => s # t
         /\ s # t /\ s.writes = t.writes => s.bad \/ t.bad
<1>1. s = [writes |-> s.writes, bad |-> s.bad] /\ t = [writes |-> t.writes, bad |-> t.bad]
  BY Zenon DEF States
<1>2. s.bad \in BOOLEAN /\ t.bad \in BOOLEAN
  BY Zenon DEF States
<1>3. ASSUME s.writes = t.writes, ~s.bad, ~t.bad
      PROVE  s = t
  <2>1. s.bad = t.bad
    BY Zenon, <1>2, <1>3
  <2> QED BY Zenon, <1>1, <1>3, <2>1
<1> QED BY Zenon, <1>3 DEF Digest

\* The environment is chosen once, and with it the sets it sizes.
LEMMA SetsStay ==
  ASSUME env' = env
  PROVE  /\ Ids' = Ids /\ Nodes' = Nodes /\ Ranges' = Ranges
         /\ Jobs' = Jobs /\ Kept' = Kept /\ Probes' = Probes /\ Alarms' = Alarms /\ Budget' = Budget
BY Zenon DEF Ids, Nodes, Ranges, Jobs, Kept, Probes, Alarms, Budget

\* What one entry of a table of tables becomes.
LEMMA EntryChanged ==
  ASSUME NEW S, NEW T, NEW V, NEW f \in [S -> [T -> V]], NEW a \in S, NEW b \in T, NEW v \in V
  PROVE  /\ [f EXCEPT ![a][b] = v] \in [S -> [T -> V]]
         /\ \A x \in S, y \in T : [f EXCEPT ![a][b] = v][x][y] = IF x = a /\ y = b THEN v ELSE f[x][y]
BY Zenon

\* A check's number tells where it stands.
LEMMA CheckPlaced ==
  ASSUME ChecksOnce, NEW p \in Ranges, NEW q \in Ranges,
         NEW i \in 1 .. Len(log[p]), NEW j \in 1 .. Len(log[q]),
         log[p][i] = log[q][j], log[p][i] # 0
  PROVE  p = q /\ i = j
BY DEF ChecksOnce

\* What is spent is one of what was left.
LEMMA Spent ==
  ASSUME left \in Budget, env \in Env
  PROVE  /\ \A w \in {"writes", "restarts", "snapshots", "corruptions"} :
              Spend(w) => left' \in Budget /\ left'.probes = left.probes
         /\ Spend("probes") => /\ left' \in Budget /\ left.probes \in 1 .. env.probes
                               /\ left'.probes = left.probes - 1
<1>1. env.probes \in Nat
  BY Zenon DEF Env
<1>2. ASSUME NEW w \in {"writes", "restarts", "snapshots", "corruptions"}, Spend(w)
      PROVE  left' \in Budget /\ left'.probes = left.probes
  <2>1. CASE w = "writes"
    BY <1>2, <2>1 DEF Spend, Budget
  <2>2. CASE w = "restarts"
    BY <1>2, <2>2 DEF Spend, Budget
  <2>3. CASE w = "snapshots"
    BY <1>2, <2>3 DEF Spend, Budget
  <2>4. CASE w = "corruptions"
    BY <1>2, <2>4 DEF Spend, Budget
  <2> QED BY Zenon, <2>1, <2>2, <2>3, <2>4
<1>3. ASSUME Spend("probes")
      PROVE  /\ left' \in Budget /\ left.probes \in 1 .. env.probes
             /\ left'.probes = left.probes - 1
  BY <1>1, <1>3 DEF Spend, Budget
<1> QED BY Zenon, <1>2, <1>3

\* What a log grows by disturbs nothing that was applied or captured.
LEMMA LogGrows ==
  ASSUME SweepInv, NEW r \in Ranges, NEW x \in Nat, env' = env,
         log' = [log EXCEPT ![r] = Append(@, x)], UNCHANGED <<applied, state, captured>>
  PROVE  /\ \A q \in Ranges : \A i \in 1 .. Len(log'[q]) :
              \/ i \in 1 .. Len(log[q]) /\ log'[q][i] = log[q][i]
              \/ q = r /\ i = Len(log[r]) + 1 /\ log'[q][i] = x
         /\ StateFollows' /\ CapturedInPlace'
<1> USE DEF SweepInv
<1>0. Ids' = Ids /\ Nodes' = Nodes /\ Ranges' = Ranges
  BY Zenon, SetsStay
<1>1. \A q \in Ranges : log[q] \in Seq(Nat) /\ log'[q] = IF q = r THEN Append(log[q], x) ELSE log[q]
  BY Zenon DEF TypeOK
<1>2. ASSUME NEW q \in Ranges
      PROVE  \A i \in 1 .. Len(log'[q]) :
               \/ i \in 1 .. Len(log[q]) /\ log'[q][i] = log[q][i]
               \/ q = r /\ i = Len(log[r]) + 1 /\ log'[q][i] = x
  BY <1>1
<1>3. ASSUME NEW q \in Ranges, NEW j \in 0 .. Len(log[q])
      PROVE  /\ j <= Len(log'[q]) /\ WritesIn(log'[q], j) = WritesIn(log[q], j)
             /\ \A i \in 1 .. j : log'[q][i] = log[q][i]
  <2>1. CASE q = r
    <3>1. log'[q] = Append(log[q], x) /\ log[q] \in Seq(Nat)
      BY Zenon, <1>1, <2>1
    <3>2. WritesIn(log'[q], j) = WritesIn(log[q], j)
      BY ZenonT(40), <3>1, WritesKept
    <3> QED BY <3>1, <3>2
  <2>2. CASE q # r
    BY <1>1, <2>2
  <2> QED BY Zenon, <2>1, <2>2
<1>4. ASSUME NEW n \in Nodes, NEW q \in Ranges
      PROVE  applied[n][q] \in 0 .. Len(log[q])
  BY DEF StateFollows, TypeOK
<1>5. StateFollows'
  BY <1>0, <1>3, <1>4 DEF StateFollows
<1>6. CapturedInPlace'
  <2> SUFFICES ASSUME NEW e \in Ids, NEW n \in Nodes PROVE InPlace(e, n)'
    BY Zenon, <1>0 DEF CapturedInPlace
  <2> SUFFICES ASSUME captured[e][n] # <<>>
               PROVE  \E q \in Ranges : \E i \in 1 .. applied[n][q] :
                        log'[q][i] = e /\ captured[e][n][1].writes = WritesIn(log'[q], i)
    BY Zenon, <1>0 DEF InPlace
  <2>0. PICK q \in Ranges : \E i \in 1 .. applied[n][q] :
               log[q][i] = e /\ captured[e][n][1].writes = WritesIn(log[q], i)
    BY Zenon DEF CapturedInPlace, InPlace
  <2>1. PICK i \in 1 .. applied[n][q] :
               log[q][i] = e /\ captured[e][n][1].writes = WritesIn(log[q], i)
    BY Zenon, <2>0
  <2>2. i \in 0 .. Len(log[q]) /\ i \in 1 .. i
    BY <1>4
  <2>3. WritesIn(log'[q], i) = WritesIn(log[q], i) /\ log'[q][i] = log[q][i]
    BY Zenon, <1>3, <2>2
  <2> QED BY Zenon, <2>1, <2>3
<1> QED BY Zenon, <1>2, <1>5, <1>6

\* A write is appended: it is no check, and before it nothing changes.
LEMMA WriteStep ==
  ASSUME SweepInv, NEW r \in Ranges, Write(r)
  PROVE  SweepInv'
<1> USE DEF SweepInv
<1>0. /\ Ids' = Ids /\ Nodes' = Nodes /\ Ranges' = Ranges /\ env' = env
      /\ Jobs' = Jobs /\ Kept' = Kept /\ Probes' = Probes /\ Alarms' = Alarms /\ Budget' = Budget
  BY Zenon, SetsStay DEF Write
<1>1. left' \in Budget /\ left'.probes = left.probes
  BY Zenon, Spent DEF TypeOK, Write
<1>2. log' \in [Ranges -> Seq(Nat)]
  BY DEF TypeOK, Write
<1>3. TypeOK'
  BY Zenon, <1>0, <1>1, <1>2 DEF TypeOK, Write
<1>4. /\ \A q \in Ranges : \A i \in 1 .. Len(log'[q]) :
           \/ i \in 1 .. Len(log[q]) /\ log'[q][i] = log[q][i]
           \/ q = r /\ i = Len(log[r]) + 1 /\ log'[q][i] = 0
      /\ StateFollows' /\ CapturedInPlace'
  BY Zenon, LogGrows DEF Write
<1>5. ChecksOnce'
  <2>1. env.probes - left.probes \in Nat
    <3>1. env.probes \in Nat /\ left.probes \in 0 .. env.probes
      BY Zenon DEF TypeOK, Env, Budget
    <3> QED BY ONLY <3>1
  <2>2. \A q \in Ranges : \A i \in 1 .. Len(log'[q]) : log'[q][i] <= env.probes - left.probes
    BY <1>4, <2>1 DEF ChecksOnce
  <2>3. ASSUME NEW p \in Ranges, NEW q \in Ranges, NEW i \in 1 .. Len(log'[p]),
               NEW j \in 1 .. Len(log'[q]), log'[p][i] = log'[q][j], log'[p][i] # 0
        PROVE  p = q /\ i = j
    <3>1. i \in 1 .. Len(log[p]) /\ log'[p][i] = log[p][i]
      BY Zenon, <1>4, <2>3
    <3>2. j \in 1 .. Len(log[q]) /\ log'[q][j] = log[q][j]
      BY Zenon, <1>4, <2>3
    <3>3. log[p][i] = log[q][j] /\ log[p][i] # 0
      BY Zenon, <2>3, <3>1, <3>2
    <3> QED BY ONLY ChecksOnce, <3>1, <3>2, <3>3 DEF ChecksOnce
  <2>4. \A p, q \in Ranges : \A i \in 1 .. Len(log'[p]), j \in 1 .. Len(log'[q]) :
          log'[p][i] = log'[q][j] /\ log'[p][i] # 0 => p = q /\ i = j
    BY ZenonT(40), <2>3
  <2> QED BY Zenon, <1>0, <1>1, <2>2, <2>4 DEF ChecksOnce
<1>6. DigestsTrue' /\ MismatchesReal'
  BY ZenonT(40), <1>0 DEF Write, DigestsTrue, MismatchesReal, DigestOf
<1> QED BY Zenon, <1>3, <1>4, <1>5, <1>6

\* A check gets the next number and the end of one log.
LEMMA ProposeStep ==
  ASSUME SweepInv, ProposeChecksum
  PROVE  SweepInv'
<1> USE DEF SweepInv
<1>0. /\ Ids' = Ids /\ Nodes' = Nodes /\ Ranges' = Ranges /\ env' = env
      /\ Jobs' = Jobs /\ Kept' = Kept /\ Probes' = Probes /\ Alarms' = Alarms /\ Budget' = Budget
  BY Zenon, SetsStay DEF ProposeChecksum
<1>1. /\ left' \in Budget /\ left.probes \in 1 .. env.probes
      /\ left'.probes = left.probes - 1
  BY Zenon, Spent DEF ProposeChecksum, TypeOK
<1>2. env.probes \in Nat /\ env.ranges \in Nat \ {0} /\ cursor \in Nat
  BY <1>1 DEF TypeOK, Env
<1>a. PICK r \in Ranges : r = (cursor % env.ranges) + 1
  BY <1>2 DEF Ranges
<1>b. PICK id \in Ids : id = env.probes - left.probes + 1
  BY <1>1, <1>2 DEF Ids
<1>3. r \in Ranges /\ id \in Ids /\ id \in Nat /\ id = env.probes - left'.probes
  BY <1>1, <1>2, <1>b DEF Ids
<1>4. /\ log' = [log EXCEPT ![r] = Append(@, id)] /\ UNCHANGED <<applied, state, captured>>
      /\ probe' = <<[range |-> r, id |-> id, sum |-> <<>>, todo |-> Nodes \ {Leader}]>>
      /\ cursor' = cursor + 1
      /\ UNCHANGED <<computing, results, mismatches>>
  BY Zenon, <1>a, <1>b DEF ProposeChecksum
<1>5. \A q \in Ranges : \A i \in 1 .. Len(log[q]) : log[q][i] \in Nat /\ log[q][i] < id
  <2>1. ASSUME NEW q \in Ranges, NEW i \in 1 .. Len(log[q])
        PROVE  log[q][i] \in Nat /\ log[q][i] <= env.probes - left.probes
    BY DEF ChecksOnce, TypeOK
  <2> QED BY <1>1, <1>2, <1>b, <2>1
<1>6. TypeOK'
  <2>1. log' \in [Ranges -> Seq(Nat)]
    BY <1>3, <1>4 DEF TypeOK
  <2>2. [range |-> r, id |-> id, sum |-> <<>>, todo |-> Nodes \ {Leader}] \in Probes
    BY Zenon, <1>3 DEF Probes
  <2>3. probe' \in {<<>>} \cup {<<p>> : p \in Probes}
    BY Zenon, <1>4, <2>2
  <2> QED BY <1>0, <1>1, <1>4, <2>1, <2>3 DEF TypeOK
<1>7. /\ \A q \in Ranges : \A i \in 1 .. Len(log'[q]) :
           \/ i \in 1 .. Len(log[q]) /\ log'[q][i] = log[q][i]
           \/ q = r /\ i = Len(log[r]) + 1 /\ log'[q][i] = id
      /\ StateFollows' /\ CapturedInPlace'
  <2>1. id \in Nat /\ r \in Ranges /\ env' = env
    BY Zenon, <1>0, <1>3
  <2> HIDE DEF SweepInv
  <2> QED BY Zenon, <1>4, <2>1, LogGrows
<1>8. ChecksOnce'
  <2>1. ASSUME NEW q \in Ranges, NEW i \in 1 .. Len(log'[q])
        PROVE  log'[q][i] <= id
    <3>1. CASE i \in 1 .. Len(log[q]) /\ log'[q][i] = log[q][i]
      BY ONLY <1>3, <1>5, <3>1
    <3>2. CASE log'[q][i] = id
      BY ONLY <1>3, <3>2
    <3> QED BY ONLY Zenon, <1>7, <2>1, <3>1, <3>2
  <2>2. ASSUME NEW p \in Ranges, NEW q \in Ranges, NEW i \in 1 .. Len(log'[p]),
               NEW j \in 1 .. Len(log'[q]), log'[p][i] = log'[q][j], log'[p][i] # 0
        PROVE  p = q /\ i = j
    <3>1. CASE i \in 1 .. Len(log[p]) /\ log'[p][i] = log[p][i]
      <4>1. log'[q][j] # id
        BY <1>3, <1>5, <2>2, <3>1
      <4>2. j \in 1 .. Len(log[q]) /\ log'[q][j] = log[q][j]
        BY Zenon, <1>7, <4>1
      <4>3. log[p][i] = log[q][j] /\ log[p][i] # 0
        BY Zenon, <2>2, <3>1, <4>2
      <4> QED BY ONLY ChecksOnce, <3>1, <4>2, <4>3 DEF ChecksOnce
    <3>2. CASE p = r /\ i = Len(log[r]) + 1 /\ log'[p][i] = id
      <4>1. ~(j \in 1 .. Len(log[q]) /\ log'[q][j] = log[q][j])
        BY <1>3, <1>5, <2>2, <3>2
      <4> QED BY Zenon, <1>7, <3>2, <4>1
    <3> QED BY Zenon, <1>7, <3>1, <3>2
  <2>3. \A p, q \in Ranges : \A i \in 1 .. Len(log'[p]), j \in 1 .. Len(log'[q]) :
          log'[p][i] = log'[q][j] /\ log'[p][i] # 0 => p = q /\ i = j
    BY ZenonT(40), <2>2
  <2> QED BY Zenon, <1>0, <1>3, <2>1, <2>3 DEF ChecksOnce
<1>9. DigestsTrue'
  <2>1. probe'[1].sum = <<>>
    BY Zenon, <1>4
  <2> QED BY ZenonT(40), <1>0, <1>4, <2>1 DEF DigestsTrue, DigestOf
<1>10. MismatchesReal'
  BY Zenon, <1>0, <1>4 DEF MismatchesReal
<1> QED BY Zenon, <1>6, <1>7, <1>8, <1>9, <1>10

\* Where neither the logs nor what was applied of them changes, captures stay
\* in their places.
LEMMA PlacesStay ==
  ASSUME SweepInv, UNCHANGED <<env, log, captured>>, left'.probes = left.probes
  PROVE  /\ ChecksOnce'
         /\ UNCHANGED applied => CapturedInPlace'
         /\ UNCHANGED <<applied, state>> => StateFollows'
<1>0. Ids' = Ids /\ Nodes' = Nodes /\ Ranges' = Ranges
  BY Zenon, SetsStay
<1>1. ChecksOnce'
  BY <1>0 DEF SweepInv, ChecksOnce
<1>2. ASSUME UNCHANGED applied
      PROVE  CapturedInPlace'
  BY <1>0, <1>2 DEF SweepInv, CapturedInPlace, InPlace
<1>3. ASSUME UNCHANGED <<applied, state>>
      PROVE  StateFollows'
  BY Zenon, <1>0, <1>3 DEF SweepInv, StateFollows
<1> QED BY Zenon, <1>1, <1>2, <1>3

\* A replica moves past an entry: what it captured before is still behind it.
LEMMA CapturedStays ==
  ASSUME SweepInv, UNCHANGED <<env, log>>, NEW e \in Ids, NEW n \in Nodes,
         \A q \in Ranges : applied'[n][q] \in Nat /\ applied[n][q] <= applied'[n][q],
         captured'[e][n] = captured[e][n]
  PROVE  InPlace(e, n)'
<1>0. Ids' = Ids /\ Nodes' = Nodes /\ Ranges' = Ranges
  BY Zenon, SetsStay
<1> SUFFICES ASSUME captured[e][n] # <<>>
             PROVE  \E q \in Ranges : \E i \in 1 .. applied'[n][q] :
                      log[q][i] = e /\ captured[e][n][1].writes = WritesIn(log[q], i)
  BY Zenon, <1>0 DEF InPlace
<1>1. PICK q \in Ranges : \E i \in 1 .. applied[n][q] :
             log[q][i] = e /\ captured[e][n][1].writes = WritesIn(log[q], i)
  BY Zenon DEF SweepInv, CapturedInPlace, InPlace
<1>2. applied[n][q] \in Nat
  BY Zenon DEF SweepInv, TypeOK
<1> QED BY <1>1, <1>2

\* A write or a check is applied, the check for the first time on this replica.
LEMMA ApplyStep ==
  ASSUME SweepInv, NEW n \in Nodes, NEW r \in Ranges, Apply(n, r)
  PROVE  SweepInv'
<1> USE DEF SweepInv
<1>k. PICK k : k = applied[n][r]
  BY Zenon
<1>e. PICK e : e = log[r][k + 1]
  BY Zenon
<1>0. /\ Ids' = Ids /\ Nodes' = Nodes /\ Ranges' = Ranges /\ env' = env
      /\ Jobs' = Jobs /\ Kept' = Kept /\ Probes' = Probes /\ Alarms' = Alarms /\ Budget' = Budget
  BY Zenon, SetsStay DEF Apply
<1>1. /\ k \in Nat /\ log[r] \in Seq(Nat) /\ k < Len(log[r]) /\ e \in Nat
      /\ state[n][r] \in States /\ state[n][r].writes = WritesIn(log[r], k)
  <2>1. k \in Nat /\ log[r] \in Seq(Nat) /\ state[n][r] \in States
    BY Zenon, <1>k DEF TypeOK
  <2>2. k < Len(log[r]) /\ state[n][r].writes = WritesIn(log[r], k)
    BY Zenon, <1>k DEF Apply, StateFollows
  <2>3. log[r][k + 1] \in Nat
    BY ONLY <2>1, <2>2
  <2> QED BY Zenon, <1>e, <2>1, <2>2, <2>3
<1>2. /\ applied' \in [Nodes -> [Ranges -> Nat]]
      /\ \A m \in Nodes, q \in Ranges :
           applied'[m][q] = IF m = n /\ q = r THEN k + 1 ELSE applied[m][q]
  <2>1. applied' = [applied EXCEPT ![n][r] = k + 1] /\ k + 1 \in Nat
    BY <1>1, <1>k DEF Apply
  <2>2. applied \in [Nodes -> [Ranges -> Nat]]
    BY Zenon DEF TypeOK
  <2> QED BY ONLY SMT, n \in Nodes, r \in Ranges, <2>1, <2>2, EntryChanged
<1>3. UNCHANGED <<env, log, results, cursor, probe, mismatches, left>>
  BY Zenon DEF Apply
<1>4. \A m \in Nodes, q \in Ranges : applied'[m][q] \in Nat /\ applied[m][q] <= applied'[m][q]
  <2>1. ASSUME NEW m \in Nodes, NEW q \in Ranges
        PROVE  applied[m][q] \in Nat
    BY Zenon DEF TypeOK
  <2>2. ASSUME NEW m \in Nodes, NEW q \in Ranges
        PROVE  applied'[m][q] \in Nat /\ applied[m][q] <= applied'[m][q]
    <3>1. applied'[m][q] = IF m = n /\ q = r THEN k + 1 ELSE applied[m][q]
      BY Zenon, <1>2
    <3>2. applied[m][q] \in Nat
      BY Zenon, <2>1
    <3> QED BY ONLY <1>1, <1>k, <3>1, <3>2
  <2> QED BY Zenon, <2>2
<1>5. WritesIn(log[r], k + 1) = IF e = 0 THEN WritesIn(log[r], k) + 1 ELSE WritesIn(log[r], k)
  BY Zenon, <1>1, <1>e, WritesCounted
<1>6. CASE e = 0
  <2>1. UNCHANGED <<computing, captured>> /\ state' = [state EXCEPT ![n][r].writes = @ + 1]
    BY Zenon, <1>6, <1>k, <1>e DEF Apply
  <2>2. /\ state' \in [Nodes -> [Ranges -> States]]
        /\ \A m \in Nodes, q \in Ranges :
             state'[m][q].writes = IF m = n /\ q = r THEN state[n][r].writes + 1 ELSE state[m][q].writes
    <3>1. PICK s : s = [state[n][r] EXCEPT !.writes = @ + 1]
      BY Zenon
    <3>2. s \in States /\ s.writes = state[n][r].writes + 1
      BY <1>1, <3>1 DEF States
    <3>3. state' = [state EXCEPT ![n][r] = s]
      BY Zenon, <2>1, <3>1
    <3>4. /\ state' \in [Nodes -> [Ranges -> States]]
          /\ \A m \in Nodes, q \in Ranges : state'[m][q] = IF m = n /\ q = r THEN s ELSE state[m][q]
      <4>1. state \in [Nodes -> [Ranges -> States]]
        BY Zenon DEF TypeOK
      <4> QED BY ONLY SMT, n \in Nodes, r \in Ranges, <3>2, <3>3, <4>1, EntryChanged
    <3> QED BY Zenon, <3>2, <3>4
  <2>3. TypeOK'
    BY Zenon, <1>0, <1>2, <1>3, <2>1, <2>2 DEF TypeOK
  <2>4. ChecksOnce'
    BY Zenon, <1>3, <2>1, PlacesStay
  <2>5. StateFollows'
    <3> SUFFICES ASSUME NEW m \in Nodes, NEW q \in Ranges
                 PROVE  /\ applied'[m][q] <= Len(log[q])
                        /\ state'[m][q].writes = WritesIn(log[q], applied'[m][q])
      BY Zenon, <1>0, <1>3 DEF StateFollows
    <3>1. CASE m = n /\ q = r
      BY <1>1, <1>2, <1>5, <1>6, <2>2, <3>1
    <3>2. CASE ~(m = n /\ q = r)
      BY ZenonT(40), <1>2, <2>2, <3>2 DEF StateFollows
    <3> QED BY Zenon, <3>1, <3>2
  <2>6. CapturedInPlace'
    BY Zenon, <1>0, <1>3, <1>4, <2>1, CapturedStays DEF CapturedInPlace
  <2>7. DigestsTrue' /\ MismatchesReal'
    BY ZenonT(40), <1>0, <1>3, <2>1 DEF DigestsTrue, MismatchesReal, DigestOf
  <2> QED BY Zenon, <2>3, <2>4, <2>5, <2>6, <2>7
<1>7. CASE e # 0
  <2>0. k + 1 \in 1 .. Len(log[r])
    BY <1>1
  <2>1. e \in Ids
    <3>1. e <= env.probes - left.probes
      BY Zenon, <1>e, <2>0 DEF ChecksOnce
    <3>2. left.probes \in Nat /\ env.probes \in Nat
      BY DEF TypeOK, Budget, Env
    <3> QED BY <1>1, <1>7, <3>1, <3>2 DEF Ids
  <2>2. captured[e][n] = <<>>
    <3> SUFFICES ASSUME captured[e][n] # <<>> PROVE FALSE
      BY Zenon
    <3>1. PICK q \in Ranges : \E i \in 1 .. applied[n][q] : log[q][i] = e
      BY Zenon, <2>1 DEF CapturedInPlace, InPlace
    <3>2. PICK i \in 1 .. applied[n][q] : log[q][i] = e
      BY Zenon, <3>1
    <3>3. applied[n][q] \in Nat /\ applied[n][q] <= Len(log[q])
      BY Zenon DEF TypeOK, StateFollows
    <3>4. i \in 1 .. Len(log[q])
      BY <3>3
    <3>5. q = r /\ i = k + 1
      BY <1>7, <1>e, <2>0, <3>2, <3>4, CheckPlaced
    <3> QED BY <1>1, <1>k, <3>2, <3>5
  <2>a. PICK job : job = [range |-> r, id |-> e, sum |-> Digest(state[n][r])]
    BY Zenon
  <2>3. /\ state' = state
        /\ computing' = [computing EXCEPT ![n] = @ \union {job}]
        /\ captured' = [captured EXCEPT ![e][n] = <<state[n][r]>>]
    BY Zenon, <1>7, <1>k, <1>e, <2>a DEF Apply, checksumRangeState, Digest
  <2>4. job \in Jobs
    BY Zenon, <1>1, <2>1, <2>a DEF Jobs, Sums
  <2>5. /\ computing' \in [Nodes -> SUBSET Jobs]
        /\ \A m \in Nodes : \A c \in computing'[m] : c \in computing[m] \/ (m = n /\ c = job)
    BY ZenonT(40), <2>3, <2>4 DEF TypeOK
  <2>6. /\ captured' \in [Ids -> [Nodes -> {<<>>} \cup {<<s>> : s \in States}]]
        /\ \A d \in Ids, m \in Nodes :
             captured'[d][m] = IF d = e /\ m = n THEN <<state[n][r]>> ELSE captured[d][m]
    <3>1. <<state[n][r]>> \in {<<>>} \cup {<<s>> : s \in States}
      BY Zenon, <1>1
    <3> QED BY <2>1, <2>3, <3>1, EntryChanged DEF TypeOK
  <2>7. TypeOK'
    BY ZenonT(40), <1>0, <1>2, <1>3, <2>3, <2>5, <2>6 DEF TypeOK
  <2>8. ChecksOnce'
    BY <1>0, <1>3 DEF ChecksOnce
  <2>9. StateFollows'
    <3> SUFFICES ASSUME NEW m \in Nodes, NEW q \in Ranges
                 PROVE  /\ applied'[m][q] <= Len(log[q])
                        /\ state[m][q].writes = WritesIn(log[q], applied'[m][q])
      BY Zenon, <1>0, <1>3, <2>3 DEF StateFollows
    <3>1. CASE m = n /\ q = r
      BY <1>1, <1>2, <1>5, <1>7, <3>1
    <3>2. CASE ~(m = n /\ q = r)
      BY ZenonT(40), <1>2, <3>2 DEF StateFollows
    <3> QED BY Zenon, <3>1, <3>2
  <2>10. CapturedInPlace'
    <3> SUFFICES ASSUME NEW d \in Ids, NEW m \in Nodes PROVE InPlace(d, m)'
      BY Zenon, <1>0 DEF CapturedInPlace
    <3>1. CASE d = e /\ m = n
      <4>1. captured'[d][m] = <<state[n][r]>> /\ applied'[m][r] = k + 1
        BY Zenon, <1>2, <2>6, <3>1
      <4>2. captured'[d][m][1].writes = WritesIn(log[r], k + 1) /\ k + 1 \in 1 .. applied'[m][r]
        BY <1>1, <1>5, <1>7, <4>1
      <4> QED BY Zenon, <1>0, <1>3, <1>e, <3>1, <4>2 DEF InPlace
    <3>2. CASE ~(d = e /\ m = n)
      BY ZenonT(40), <1>3, <1>4, <2>6, <3>2, CapturedStays
    <3> QED BY Zenon, <3>1, <3>2
  <2>11. ASSUME NEW m \in Nodes, NEW d \in Ids, NEW s, DigestOf(m, d, s)
         PROVE  DigestOf(m, d, s)'
    BY Zenon, <2>2, <2>6, <2>11 DEF DigestOf
  <2>12. DigestOf(n, job.id, job.sum)'
    <3>1. captured'[e][n] = <<state[n][r]>>
      BY Zenon, <2>1, <2>6
    <3>2. job.id = e /\ job.sum = Digest(state[n][r])
      BY Zenon, <2>a
    <3> QED BY <3>1, <3>2 DEF DigestOf
  <2>13. DigestsTrue'
    <3>1. ASSUME NEW m \in Nodes, NEW c \in computing'[m]
          PROVE  DigestOf(m, c.id, c.sum)'
      <4>1. CASE c \in computing[m]
        <5>1. c.id \in Ids
          BY <4>1 DEF TypeOK, Jobs
        <5> QED BY Zenon, <2>11, <4>1, <5>1 DEF DigestsTrue
      <4> QED BY Zenon, <2>5, <2>12, <4>1
    <3>2. ASSUME NEW m \in Nodes, NEW q \in Ranges, NEW i \in 1 .. Len(results[m][q])
          PROVE  DigestOf(m, results[m][q][i].id, results[m][q][i].sum)'
      <4>1. PICK x \in Kept : x = results[m][q][i]
        BY DEF TypeOK
      <4>2. x.id \in Ids /\ DigestOf(m, x.id, x.sum)
        BY Zenon, <4>1 DEF DigestsTrue, Kept
      <4>3. DigestOf(m, x.id, x.sum)'
        BY Zenon, <2>11, <4>2
      <4> QED BY Zenon, <1>3, <4>1, <4>3
    <3>3. ASSUME probe # <<>>, probe[1].sum # <<>>
          PROVE  Leader \in Nodes /\ DigestOf(Leader, probe[1].id, probe[1].sum[1])'
      <4>1. PICK p \in Probes : probe = <<p>>
        BY Zenon, <3>3 DEF TypeOK
      <4>2. p.id \in Ids /\ Leader \in Nodes /\ DigestOf(Leader, p.id, p.sum[1])
        BY Zenon, <3>3, <4>1 DEF DigestsTrue, Probes
      <4>3. DigestOf(Leader, p.id, p.sum[1])'
        BY Zenon, <2>11, <4>2
      <4> QED BY Zenon, <1>3, <4>1, <4>2, <4>3
    <3> QED BY Zenon, <1>0, <1>3, <3>1, <3>2, <3>3 DEF DigestsTrue
  <2>14. MismatchesReal'
    <3> SUFFICES ASSUME NEW m \in mismatches
                 PROVE  /\ Leader \in Nodes
                        /\ captured'[m.id][m.node] # <<>> /\ captured'[m.id][Leader] # <<>>
                        /\ captured'[m.id][m.node] # captured'[m.id][Leader]
      BY Zenon, <1>0, <1>3 DEF MismatchesReal
    <3>1. m.id \in Ids /\ m.node \in Nodes /\ Leader \in Nodes
      BY Zenon DEF TypeOK, Alarms, MismatchesReal
    <3>2. /\ captured'[m.id][m.node] = captured[m.id][m.node]
          /\ captured'[m.id][Leader] = captured[m.id][Leader]
      BY ZenonT(40), <2>2, <2>6, <3>1 DEF MismatchesReal
    <3> QED BY Zenon, <3>1, <3>2 DEF MismatchesReal
  <2> QED BY Zenon, <2>7, <2>8, <2>9, <2>10, <2>13, <2>14
<1> QED BY Zenon, <1>6, <1>7

\* Every element of b is x or an element of q.
Drawn(b, q, x) == \A i \in 1 .. Len(b) : b[i] = x \/ \E j \in 1 .. Len(q) : b[i] = q[j]

\* What was in a sequence is still in it after one more, but for the first.
LEMMA NewestKept ==
  ASSUME NEW V, NEW q \in Seq(V), NEW x \in V, NEW b,
         b = Append(q, x) \/ b = Tail(Append(q, x))
  PROVE  b \in Seq(V) /\ Drawn(b, q, x)
<1> USE DEF Drawn
<1>1. CASE b = Append(q, x)
  BY <1>1
<1>2. CASE b = Tail(Append(q, x))
  <2>1. /\ Append(q, x) \in Seq(V) /\ Len(Append(q, x)) = Len(q) + 1 /\ Len(q) \in Nat
        /\ Append(q, x) # <<>>
    OBVIOUS
  <2>2. /\ b \in Seq(V) /\ Len(b) = Len(q)
        /\ \A i \in 1 .. Len(b) : b[i] = Append(q, x)[i + 1]
    BY <1>2, <2>1
  <2>3. ASSUME NEW i \in 1 .. Len(b)
        PROVE  b[i] = x \/ \E j \in 1 .. Len(q) : b[i] = q[j]
    <3>1. CASE i = Len(q)
      BY <2>1, <2>2, <3>1
    <3>2. CASE i # Len(q)
      <4>1. i + 1 \in 1 .. Len(q)
        BY <2>1, <2>2, <3>2
      <4>2. b[i] = q[i + 1]
        BY <2>2, <4>1
      <4> QED BY Zenon, <4>1, <4>2
    <3> QED BY Zenon, <3>1, <3>2
  <2> QED BY Zenon, <2>2, <2>3
<1> QED BY Zenon, <1>1, <1>2

\* A hash is done: it is kept under its check's number.
LEMMA ChecksumStep ==
  ASSUME SweepInv, NEW n \in Nodes, NEW c \in computing[n], startChecksum(n, c)
  PROVE  SweepInv'
<1> USE DEF SweepInv
<1>0. /\ Ids' = Ids /\ Nodes' = Nodes /\ Ranges' = Ranges /\ env' = env
      /\ Jobs' = Jobs /\ Kept' = Kept /\ Probes' = Probes /\ Alarms' = Alarms /\ Budget' = Budget
  BY Zenon, SetsStay DEF startChecksum
<1>1. UNCHANGED <<env, log, applied, state, cursor, probe, mismatches, captured, left>>
  BY Zenon DEF startChecksum
<1>2. c \in Jobs /\ DigestOf(n, c.id, c.sum)
  BY Zenon DEF TypeOK, DigestsTrue
<1>3. PICK x : x = [id |-> c.id, sum |-> c.sum]
  BY Zenon
<1>4. x \in Kept /\ c.range \in Ranges /\ DigestOf(n, x.id, x.sum)
  BY Zenon, <1>2, <1>3 DEF Jobs, Kept
<1>5. PICK q : q = results[n][c.range]
  BY Zenon
<1>6. q \in Seq(Kept)
  BY Zenon, <1>4, <1>5 DEF TypeOK
<1>7. PICK b : b = IF Len(Append(q, x)) > env.keep THEN Tail(Append(q, x)) ELSE Append(q, x)
  BY Zenon
<1>8. results' = [results EXCEPT ![n][c.range] = b]
  BY Zenon, <1>3, <1>5, <1>7 DEF startChecksum
<1>9. b \in Seq(Kept) /\ Drawn(b, q, x)
  <2>1. PICK V : V = Kept
    BY Zenon
  <2>2. q \in Seq(V) /\ x \in V /\ (b = Append(q, x) \/ b = Tail(Append(q, x)))
    BY Zenon, <1>4, <1>6, <1>7, <2>1
  <2>3. b \in Seq(V) /\ Drawn(b, q, x)
    BY ONLY ZenonT(40), <2>2, NewestKept
  <2> QED BY Zenon, <2>1, <2>3
<1>10. /\ results' \in [Nodes -> [Ranges -> Seq(Kept)]]
       /\ \A m \in Nodes, r \in Ranges :
            results'[m][r] = IF m = n /\ r = c.range THEN b ELSE results[m][r]
  <2>1. results \in [Nodes -> [Ranges -> Seq(Kept)]]
    BY Zenon DEF TypeOK
  <2> QED BY ONLY SMT, n \in Nodes, <1>4, <1>8, <1>9, <2>1, EntryChanged
<1>11. /\ computing' \in [Nodes -> SUBSET Jobs]
       /\ \A m \in Nodes : computing'[m] \subseteq computing[m]
  BY Zenon DEF startChecksum, TypeOK
<1>12. TypeOK'
  BY Zenon, <1>0, <1>1, <1>10, <1>11 DEF TypeOK
<1>13. ChecksOnce' /\ StateFollows' /\ CapturedInPlace'
  BY Zenon, <1>1, PlacesStay
<1>14. \A m, d, s : DigestOf(m, d, s) => captured'[d][m] # <<>> /\ s = Digest(captured'[d][m][1])
  BY Zenon, <1>1 DEF DigestOf
<1>15. DigestsTrue'
  <2>1. ASSUME NEW m \in Nodes, NEW d \in computing'[m]
        PROVE  DigestOf(m, d.id, d.sum)'
    BY ZenonT(40), <1>11, <1>14 DEF DigestsTrue, DigestOf
  <2>2. ASSUME NEW m \in Nodes, NEW r \in Ranges, NEW i \in 1 .. Len(results'[m][r])
        PROVE  DigestOf(m, results[m][r][i].id, results[m][r][i].sum)'
    <3>1. CASE m = n /\ r = c.range
      <4>1. results'[m][r] = b
        BY Zenon, <1>10, <3>1
      <4>2. DigestOf(n, b[i].id, b[i].sum)
        BY ZenonT(40), <1>4, <1>5, <1>9, <3>1, <4>1 DEF DigestsTrue, Drawn
      <4> QED BY Zenon, <1>14, <3>1, <4>1, <4>2 DEF DigestOf
    <3>2. CASE ~(m = n /\ r = c.range)
      <4>1. results'[m][r] = results[m][r]
        BY Zenon, <1>10, <3>2
      <4>2. DigestOf(m, results[m][r][i].id, results[m][r][i].sum)
        BY Zenon, <4>1 DEF DigestsTrue
      <4> QED BY Zenon, <1>14, <4>1, <4>2 DEF DigestOf
    <3> QED BY Zenon, <3>1, <3>2
  <2>3. probe' # <<>> /\ probe'[1].sum # <<>> =>
          Leader \in Nodes /\ DigestOf(Leader, probe[1].id, probe[1].sum[1])'
    BY Zenon, <1>1 DEF DigestsTrue, DigestOf
  <2> QED BY Zenon, <1>0, <2>1, <2>2, <2>3 DEF DigestsTrue
<1>16. MismatchesReal'
  BY Zenon, <1>0, <1>1 DEF MismatchesReal
<1> QED BY Zenon, <1>12, <1>13, <1>15, <1>16

\* A snapshot brings a follower to the leader's place with the leader's state.
LEMMA InstallStep ==
  ASSUME SweepInv, NEW n \in Nodes, NEW r \in Ranges, Install(n, r)
  PROVE  SweepInv'
<1> USE DEF SweepInv
<1>0. /\ Ids' = Ids /\ Nodes' = Nodes /\ Ranges' = Ranges /\ env' = env
      /\ Jobs' = Jobs /\ Kept' = Kept /\ Probes' = Probes /\ Alarms' = Alarms /\ Budget' = Budget
  BY Zenon, SetsStay DEF Install
<1>1. UNCHANGED <<env, log, computing, results, cursor, probe, mismatches, captured>>
  BY Zenon DEF Install
<1>2. left' \in Budget /\ left'.probes = left.probes
  BY Zenon, Spent DEF Install, TypeOK
<1>3. Leader \in Nodes
  BY DEF Leader, Nodes, TypeOK, Env
<1>4. PICK k : k = applied[Leader][r]
  BY Zenon
<1>5. PICK s : s = state[Leader][r]
  OBVIOUS
<1>6. /\ k \in Nat /\ s \in States /\ applied[n][r] \in Nat /\ applied[n][r] < k
      /\ k <= Len(log[r]) /\ s.writes = WritesIn(log[r], k)
  BY Zenon, <1>3, <1>4, <1>5 DEF TypeOK, StateFollows, Install
<1>7. /\ applied' \in [Nodes -> [Ranges -> Nat]]
      /\ \A m \in Nodes, q \in Ranges : applied'[m][q] = IF m = n /\ q = r THEN k ELSE applied[m][q]
  <2>1. applied' = [applied EXCEPT ![n][r] = k] /\ applied \in [Nodes -> [Ranges -> Nat]]
    BY Zenon, <1>4 DEF Install, TypeOK
  <2> QED BY ONLY SMT, n \in Nodes, r \in Ranges, <1>6, <2>1, EntryChanged
<1>8. /\ state' \in [Nodes -> [Ranges -> States]]
      /\ \A m \in Nodes, q \in Ranges : state'[m][q] = IF m = n /\ q = r THEN s ELSE state[m][q]
  <2>1. state' = [state EXCEPT ![n][r] = s] /\ state \in [Nodes -> [Ranges -> States]]
    BY Zenon, <1>5 DEF Install, TypeOK
  <2> QED BY ONLY SMT, n \in Nodes, r \in Ranges, <1>6, <2>1, EntryChanged
<1>9. TypeOK'
  BY Zenon, <1>0, <1>1, <1>2, <1>7, <1>8 DEF TypeOK
<1>10. ChecksOnce'
  BY Zenon, <1>1, <1>2, PlacesStay
<1>11. StateFollows'
  <2> SUFFICES ASSUME NEW m \in Nodes, NEW q \in Ranges
               PROVE  /\ applied'[m][q] <= Len(log[q])
                      /\ state'[m][q].writes = WritesIn(log[q], applied'[m][q])
    BY Zenon, <1>0, <1>1 DEF StateFollows
  <2>1. CASE m = n /\ q = r
    BY Zenon, <1>6, <1>7, <1>8, <2>1
  <2>2. CASE ~(m = n /\ q = r)
    BY ZenonT(40), <1>7, <1>8, <2>2 DEF StateFollows
  <2> QED BY <2>1, <2>2
<1>12. \A m \in Nodes, q \in Ranges : applied'[m][q] \in Nat /\ applied[m][q] <= applied'[m][q]
  <2>1. \A m \in Nodes, q \in Ranges : applied[m][q] \in Nat
    BY Zenon DEF TypeOK
  <2> QED BY <1>6, <1>7, <2>1
<1>13. CapturedInPlace'
  BY Zenon, <1>0, <1>1, <1>12, CapturedStays DEF CapturedInPlace
<1>14. DigestsTrue' /\ MismatchesReal'
  BY ZenonT(40), <1>0, <1>1 DEF DigestsTrue, MismatchesReal, DigestOf
<1> QED BY <1>9, <1>10, <1>11, <1>13, <1>14

\* A restart forgets digests and the probe, and no state.
LEMMA RestartStep ==
  ASSUME SweepInv, NEW n \in Nodes, Restart(n)
  PROVE  SweepInv'
<1> USE DEF SweepInv
<1>0. /\ Ids' = Ids /\ Nodes' = Nodes /\ Ranges' = Ranges /\ env' = env
      /\ Jobs' = Jobs /\ Kept' = Kept /\ Probes' = Probes /\ Alarms' = Alarms /\ Budget' = Budget
  BY Zenon, SetsStay DEF Restart
<1>1. UNCHANGED <<env, log, applied, state, mismatches, captured>>
  BY Zenon DEF Restart
<1>2. left' \in Budget /\ left'.probes = left.probes
  BY Zenon, Spent DEF Restart, TypeOK
<1>3. /\ computing' \in [Nodes -> SUBSET Jobs]
      /\ \A m \in Nodes : computing'[m] \subseteq computing[m]
  BY Zenon DEF Restart, TypeOK
<1>4. /\ results' \in [Nodes -> [Ranges -> Seq(Kept)]]
      /\ \A m \in Nodes, r \in Ranges : results'[m][r] = <<>> \/ results'[m][r] = results[m][r]
  BY DEF Restart, TypeOK
<1>5. cursor' \in Nat /\ (probe' = <<>> \/ probe' = probe)
  BY Zenon DEF Restart, TypeOK
<1>6. TypeOK'
  BY Zenon, <1>0, <1>1, <1>2, <1>3, <1>4, <1>5 DEF TypeOK
<1>7. ChecksOnce' /\ StateFollows' /\ CapturedInPlace'
  BY Zenon, <1>1, <1>2, PlacesStay
<1>8. \A m, d, s : DigestOf(m, d, s) => captured'[d][m] # <<>> /\ s = Digest(captured'[d][m][1])
  BY Zenon, <1>1 DEF DigestOf
<1>9. DigestsTrue'
  <2>1. ASSUME NEW m \in Nodes, NEW d \in computing'[m]
        PROVE  DigestOf(m, d.id, d.sum)'
    BY Zenon, <1>3, <1>8 DEF DigestsTrue, DigestOf
  <2>2. ASSUME NEW m \in Nodes, NEW r \in Ranges, NEW i \in 1 .. Len(results'[m][r])
        PROVE  DigestOf(m, results[m][r][i].id, results[m][r][i].sum)'
    <3>1. results'[m][r] # <<>>
      OBVIOUS
    <3>2. results'[m][r] = results[m][r]
      BY Zenon, <1>4, <3>1
    <3>3. DigestOf(m, results[m][r][i].id, results[m][r][i].sum)
      BY Zenon, <3>2 DEF DigestsTrue
    <3> QED BY Zenon, <1>8, <3>2, <3>3 DEF DigestOf
  <2>3. probe' # <<>> /\ probe'[1].sum # <<>> =>
          Leader \in Nodes /\ DigestOf(Leader, probe[1].id, probe[1].sum[1])'
    BY Zenon, <1>1, <1>5 DEF DigestsTrue, DigestOf
  <2> QED BY Zenon, <1>0, <2>1, <2>2, <2>3 DEF DigestsTrue
<1>10. MismatchesReal'
  BY Zenon, <1>0, <1>1 DEF MismatchesReal
<1> QED BY Zenon, <1>6, <1>7, <1>9, <1>10

\* A disk fault leaves the count of writes alone.
LEMMA CorruptStep ==
  ASSUME SweepInv, NEW n \in Nodes, NEW r \in Ranges, Corrupt(n, r)
  PROVE  SweepInv'
<1> USE DEF SweepInv
<1>0. /\ Ids' = Ids /\ Nodes' = Nodes /\ Ranges' = Ranges /\ env' = env
      /\ Jobs' = Jobs /\ Kept' = Kept /\ Probes' = Probes /\ Alarms' = Alarms /\ Budget' = Budget
  BY Zenon, SetsStay DEF Corrupt
<1>1. UNCHANGED <<env, log, applied, computing, results, cursor, probe, mismatches, captured>>
  BY Zenon DEF Corrupt
<1>2. left' \in Budget /\ left'.probes = left.probes
  BY Zenon, Spent DEF Corrupt, TypeOK
<1>3. PICK s : s = [state[n][r] EXCEPT !.bad = TRUE]
  BY Zenon
<1>4. s \in States /\ s.writes = state[n][r].writes
  <2>1. state[n][r] \in States
    BY Zenon DEF TypeOK
  <2> QED BY Zenon, <1>3, <2>1 DEF States
<1>5. /\ state' \in [Nodes -> [Ranges -> States]]
      /\ \A m \in Nodes, q \in Ranges : state'[m][q] = IF m = n /\ q = r THEN s ELSE state[m][q]
  <2>1. state' = [state EXCEPT ![n][r] = s] /\ state \in [Nodes -> [Ranges -> States]]
    BY Zenon, <1>3 DEF Corrupt, TypeOK
  <2> QED BY ONLY SMT, n \in Nodes, r \in Ranges, <1>4, <2>1, EntryChanged
<1>6. TypeOK'
  BY Zenon, <1>0, <1>1, <1>2, <1>5 DEF TypeOK
<1>7. ChecksOnce' /\ CapturedInPlace'
  BY ZenonT(40), <1>1, <1>2, PlacesStay
<1>8. StateFollows'
  BY <1>0, <1>1, <1>4, <1>5 DEF StateFollows
<1>9. DigestsTrue' /\ MismatchesReal'
  BY ZenonT(40), <1>0, <1>1 DEF DigestsTrue, MismatchesReal, DigestOf
<1> QED BY Zenon, <1>6, <1>7, <1>8, <1>9

\* What getChecksum answers is the digest of what the node captured.
LEMMA AnswersTrue ==
  ASSUME SweepInv, NEW n \in Nodes, NEW r \in Ranges, NEW id \in Ids, NEW s \in getChecksum(n, r, id)
  PROVE  s \in Sums /\ DigestOf(n, id, s)
<1>1. PICK i \in 1 .. Len(results[n][r]) : results[n][r][i].id = id /\ s = results[n][r][i].sum
  <2>1. results[n][r] \in Seq(Kept)
    BY Zenon DEF SweepInv, TypeOK
  <2>2. DOMAIN results[n][r] = 1 .. Len(results[n][r])
    BY <2>1
  <2>3. \E i \in DOMAIN results[n][r] : results[n][r][i].id = id /\ s = results[n][r][i].sum
    BY Zenon DEF getChecksum
  <2> QED BY Zenon, <2>2, <2>3
<1>2. results[n][r][i] \in Kept
  BY DEF SweepInv, TypeOK
<1> QED BY Zenon, <1>1, <1>2 DEF SweepInv, DigestsTrue, Kept

\* The leader's own digest joins the probe, or the probe is given up.
LEMMA LocalStep ==
  ASSUME SweepInv, LocalChecksum, Nodes # {}
  PROVE  SweepInv'
<1> USE DEF SweepInv
<1>0. /\ Ids' = Ids /\ Nodes' = Nodes /\ Ranges' = Ranges /\ env' = env
      /\ Jobs' = Jobs /\ Kept' = Kept /\ Probes' = Probes /\ Alarms' = Alarms /\ Budget' = Budget
  BY Zenon, SetsStay DEF LocalChecksum
<1>1. UNCHANGED <<env, log, applied, state, computing, results, cursor, mismatches, captured, left>>
  BY Zenon DEF LocalChecksum
<1>2. Leader \in Nodes
  BY DEF Leader, Nodes, TypeOK, Env
<1>3. PICK p \in Probes : probe = <<p>>
  BY Zenon DEF LocalChecksum, TypeOK
<1>4. \/ probe' = <<>>
      \/ \E s \in getChecksum(Leader, p.range, p.id) : probe' = <<[p EXCEPT !.sum = <<s>>]>>
  BY Zenon, <1>3 DEF LocalChecksum
<1>5. ASSUME NEW s \in getChecksum(Leader, p.range, p.id), probe' = <<[p EXCEPT !.sum = <<s>>]>>
      PROVE  /\ probe' \in {<<>>} \cup {<<t>> : t \in Probes}
             /\ DigestOf(Leader, probe'[1].id, probe'[1].sum[1])
  <2>1. p.range \in Ranges /\ p.id \in Ids
    BY Zenon DEF Probes
  <2>2. s \in Sums /\ DigestOf(Leader, p.id, s)
    BY Zenon, <1>2, <2>1, AnswersTrue
  <2>3. PICK t : t = [p EXCEPT !.sum = <<s>>]
    BY Zenon
  <2>4. t \in Probes /\ t.id = p.id /\ t.sum = <<s>>
    BY Zenon, <2>2, <2>3 DEF Probes
  <2>5. probe' = <<t>>
    BY Zenon, <1>5, <2>3
  <2>6. probe'[1] = t /\ t.sum[1] = s
    BY <2>4, <2>5
  <2>7. DigestOf(Leader, probe'[1].id, probe'[1].sum[1])
    BY ONLY Zenon, <2>2, <2>4, <2>6
  <2> QED BY Zenon, <2>4, <2>5, <2>7
<1>6. TypeOK'
  BY Zenon, <1>0, <1>1, <1>4, <1>5 DEF TypeOK
<1>7. ChecksOnce' /\ StateFollows' /\ CapturedInPlace'
  BY Zenon, <1>1, PlacesStay
<1>8. DigestsTrue'
  <2>1. \A m \in Nodes : \A c \in computing'[m] : DigestOf(m, c.id, c.sum)'
    BY Zenon, <1>1 DEF DigestsTrue, DigestOf
  <2>2. \A m \in Nodes, r \in Ranges : \A i \in 1 .. Len(results'[m][r]) :
          DigestOf(m, results[m][r][i].id, results[m][r][i].sum)'
    BY Zenon, <1>1 DEF DigestsTrue, DigestOf
  <2>3. probe' # <<>> => DigestOf(Leader, probe[1].id, probe[1].sum[1])'
    BY Zenon, <1>1, <1>4, <1>5 DEF DigestOf
  <2> QED BY Zenon, <1>0, <1>2, <2>1, <2>2, <2>3 DEF DigestsTrue
<1>9. MismatchesReal'
  BY Zenon, <1>0, <1>1 DEF MismatchesReal
<1> QED BY Zenon, <1>6, <1>7, <1>8, <1>9

\* A failure is reported where two digests of one check differ.
LEMMA CollectStep ==
  ASSUME SweepInv, NEW n \in Nodes, Collect(n)
  PROVE  SweepInv'
<1> USE DEF SweepInv
<1>0. /\ Ids' = Ids /\ Nodes' = Nodes /\ Ranges' = Ranges /\ env' = env
      /\ Jobs' = Jobs /\ Kept' = Kept /\ Probes' = Probes /\ Alarms' = Alarms /\ Budget' = Budget
  BY Zenon, SetsStay DEF Collect
<1>1. UNCHANGED <<env, log, applied, state, computing, results, cursor, captured, left>>
  BY Zenon DEF Collect
<1>2. PICK p \in Probes : probe = <<p>>
  BY Zenon DEF Collect, TypeOK
<1>3. p.range \in Ranges /\ p.id \in Ids /\ p.todo \subseteq Nodes
  BY Zenon DEF Probes
<1>4. p.sum # <<>> /\ Leader \in Nodes /\ DigestOf(Leader, p.id, p.sum[1])
  BY Zenon, <1>2 DEF Collect, DigestsTrue
<1>5. PICK t : t = [p EXCEPT !.todo = @ \ {n}]
  BY Zenon
<1>6. t \in Probes /\ t.id = p.id /\ t.sum = p.sum
  BY Zenon, <1>3, <1>5 DEF Probes
<1>7. probe' = <<>> \/ probe' = <<t>>
  BY Zenon, <1>2, <1>5 DEF Collect
<1>8. PICK a : a = [range |-> p.range, node |-> n, id |-> p.id]
  BY Zenon
<1>9. \/ mismatches' = mismatches
      \/ \E s \in getChecksum(n, p.range, p.id) : s # p.sum[1] /\ mismatches' = mismatches \union {a}
  BY Zenon, <1>2, <1>8 DEF Collect
<1>10. a \in Alarms /\ a.id = p.id /\ a.node = n
  BY Zenon, <1>3, <1>8 DEF Alarms
<1>11. TypeOK'
  BY Zenon, <1>0, <1>1, <1>6, <1>7, <1>9, <1>10 DEF TypeOK
<1>12. ChecksOnce' /\ StateFollows' /\ CapturedInPlace'
  BY Zenon, <1>1, PlacesStay
<1>13. DigestsTrue'
  <2>1. \A m \in Nodes : \A c \in computing'[m] : DigestOf(m, c.id, c.sum)'
    BY Zenon, <1>1 DEF DigestsTrue, DigestOf
  <2>2. \A m \in Nodes, r \in Ranges : \A i \in 1 .. Len(results'[m][r]) :
          DigestOf(m, results[m][r][i].id, results[m][r][i].sum)'
    BY Zenon, <1>1 DEF DigestsTrue, DigestOf
  <2>3. probe' # <<>> => DigestOf(Leader, probe[1].id, probe[1].sum[1])'
    BY <1>1, <1>4, <1>6, <1>7 DEF DigestOf
  <2> QED BY Zenon, <1>0, <1>4, <2>1, <2>2, <2>3 DEF DigestsTrue
<1>14. ASSUME NEW s \in getChecksum(n, p.range, p.id), s # p.sum[1]
       PROVE  /\ captured[p.id][n] # <<>> /\ captured[p.id][Leader] # <<>>
              /\ captured[p.id][n] # captured[p.id][Leader]
  <2>1. DigestOf(n, p.id, s)
    BY Zenon, <1>3, AnswersTrue
  <2> QED BY Zenon, <1>4, <1>14, <2>1 DEF DigestOf
<1>15. MismatchesReal'
  <2> SUFFICES ASSUME NEW m \in mismatches'
               PROVE  /\ Leader \in Nodes
                      /\ captured[m.id][m.node] # <<>> /\ captured[m.id][Leader] # <<>>
                      /\ captured[m.id][m.node] # captured[m.id][Leader]
    BY Zenon, <1>0, <1>1 DEF MismatchesReal
  <2>1. CASE m \in mismatches
    BY Zenon, <2>1 DEF MismatchesReal
  <2>2. CASE m \notin mismatches
    <3>1. PICK s \in getChecksum(n, p.range, p.id) : s # p.sum[1] /\ m = a
      BY Zenon, <1>9, <2>2
    <3> QED BY Zenon, <1>4, <1>10, <1>14, <3>1
  <2> QED BY Zenon, <2>1, <2>2
<1> QED BY Zenon, <1>11, <1>12, <1>13, <1>15

\* Before anything is written nothing is captured, and nothing computed.
LEMMA SweepStarts ==
  ASSUME Init
  PROVE  SweepInv
<1>1. env \in Env
  BY Zenon, EnvAssumption DEF Init
<1>2. \A r \in Ranges : log[r] = <<>>
  BY Zenon DEF Init
<1>3. \A n \in Nodes : computing[n] = {}
  BY Zenon DEF Init
<1>4. \A n \in Nodes, r \in Ranges : results[n][r] = <<>> /\ applied[n][r] = 0 /\ state[n][r].writes = 0
  BY Zenon DEF Init
<1>5. TypeOK
  <2>1. left \in Budget
    BY <1>1 DEF Init, Budget, Env
  <2>2. <<>> \in Seq(Nat) /\ <<>> \in Seq(Kept) /\ [writes |-> 0, bad |-> FALSE] \in States
    BY DEF States
  <2> QED BY Zenon, <1>1, <2>1, <2>2 DEF Init, TypeOK, Ids
<1>6. WritesIn(<<>>, 0) = 0
  <2>1. <<>> \in Seq(Nat) /\ 0 \in Nat
    OBVIOUS
  <2> QED BY ONLY Zenon, <2>1, WritesCounted
<1>7. ChecksOnce /\ StateFollows
  BY <1>2, <1>4, <1>6 DEF ChecksOnce, StateFollows
<1>8. CapturedInPlace
  BY Zenon DEF Init, CapturedInPlace, InPlace, Ids
<1>9. DigestsTrue /\ MismatchesReal
  BY <1>3, <1>4 DEF Init, DigestsTrue, MismatchesReal
<1> QED BY Zenon, <1>5, <1>7, <1>8, <1>9 DEF SweepInv

\* The two captures of one check have the same writes, so one of two that
\* differ is of a replica a fault has struck.
LEMMA DifferenceIsDamage ==
  ASSUME SweepInv
  PROVE  AlarmsRight
<1> USE DEF SweepInv
<1> SUFFICES ASSUME NEW m \in mismatches
             PROVE  \E n \in {m.node, Leader} : captured[m.id][n][1].bad
  BY Zenon DEF AlarmsRight, MismatchesReal
<1>1. m.id \in Ids /\ m.node \in Nodes /\ Leader \in Nodes
  BY Zenon DEF TypeOK, Alarms, MismatchesReal
<1>2. /\ captured[m.id][m.node] # <<>> /\ captured[m.id][Leader] # <<>>
      /\ captured[m.id][m.node] # captured[m.id][Leader]
  BY Zenon DEF MismatchesReal
<1>3. \A n \in Nodes, q \in Ranges :
        applied[n][q] \in Nat /\ applied[n][q] <= Len(log[q]) /\ Len(log[q]) \in Nat
  BY DEF TypeOK, StateFollows
<1>4. PICK s \in States : captured[m.id][m.node] = <<s>>
  BY <1>1, <1>2 DEF TypeOK
<1>5. PICK t \in States : captured[m.id][Leader] = <<t>>
  BY <1>1, <1>2 DEF TypeOK
<1>6. PICK r \in Ranges : \E i \in 1 .. applied[m.node][r] :
        log[r][i] = m.id /\ s.writes = WritesIn(log[r], i)
  BY <1>1, <1>2, <1>4 DEF CapturedInPlace, InPlace
<1>7. PICK i \in 1 .. applied[m.node][r] : log[r][i] = m.id /\ s.writes = WritesIn(log[r], i)
  BY Zenon, <1>6
<1>8. PICK q \in Ranges : \E j \in 1 .. applied[Leader][q] :
        log[q][j] = m.id /\ t.writes = WritesIn(log[q], j)
  BY <1>1, <1>2, <1>5 DEF CapturedInPlace, InPlace
<1>9. PICK j \in 1 .. applied[Leader][q] : log[q][j] = m.id /\ t.writes = WritesIn(log[q], j)
  BY Zenon, <1>8
<1>10. i \in 1 .. Len(log[r]) /\ j \in 1 .. Len(log[q]) /\ m.id # 0
  BY <1>1, <1>3 DEF Ids
<1>11. r = q /\ i = j
  BY <1>7, <1>9, <1>10, CheckPlaced
<1>12. s.bad \/ t.bad
  BY ZenonT(40), <1>2, <1>4, <1>5, <1>7, <1>9, <1>11, DigestTells
<1> QED BY <1>4, <1>5, <1>12

\* The sweep raises no false alarm: every failure it reports is of two replicas
\* whose states differed when they applied the check, one of them damaged,
\* whatever lags, snapshots, restarts and forgotten results came between
\* (server/consistency.go: collectAndCompare).
THEOREM NoFalseAlarm == Spec => []AlarmsRight
<1>1. Init => SweepInv
  BY Zenon, SweepStarts
<1>2. SweepInv /\ [Next]_vars => SweepInv'
  <2> SUFFICES ASSUME SweepInv, [Next]_vars PROVE SweepInv'
    BY Zenon
  <2>1. CASE Next
    BY ZenonT(40), <2>1, WriteStep, ApplyStep, InstallStep, CorruptStep, ChecksumStep, RestartStep, CollectStep,
       ProposeStep, LocalStep DEF Next
  <2>2. CASE UNCHANGED vars
    <3>0. /\ Ids' = Ids /\ Nodes' = Nodes /\ Ranges' = Ranges
          /\ Jobs' = Jobs /\ Kept' = Kept /\ Probes' = Probes /\ Alarms' = Alarms /\ Budget' = Budget
      BY Zenon, <2>2, SetsStay DEF vars
    <3>1. TypeOK'
      BY Zenon, <2>2, <3>0 DEF vars, SweepInv, TypeOK
    <3>2. ChecksOnce' /\ StateFollows' /\ CapturedInPlace'
      BY Zenon, <2>2, PlacesStay DEF vars
    <3>3. DigestsTrue' /\ MismatchesReal'
      BY ZenonT(40), <2>2, <3>0 DEF vars, SweepInv, DigestsTrue, MismatchesReal, DigestOf
    <3> QED BY Zenon, <3>1, <3>2, <3>3 DEF SweepInv
  <2> QED BY Zenon, <2>1, <2>2
<1>3. SweepInv => AlarmsRight
  BY Zenon, DifferenceIsDamage
<1> QED BY <1>1, <1>2, <1>3, PTL DEF Spec
=============================================================================
