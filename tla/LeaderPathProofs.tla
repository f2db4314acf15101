-------------------------- MODULE LeaderPathProofs --------------------------
(***************************************************************************)
(* Proofs about reads and writes across leadership changes, for any number *)
(* of replicas, requests and elections, any election timeout and any clock *)
(* offset: served reads are linearizable, and no write goes beneath one.   *)
(* The argument: a read that has its latch, its mark in the timestamp      *)
(* cache and a fresh lease (or a quorum's answer) is known to whoever may  *)
(* write from then on - to this replica by its own cache, to a later       *)
(* leader by the clock it raises its cache to.                             *)
(***************************************************************************)
EXTENDS LeaderPath, TLAPS, FiniteSetTheorems

Positions == 1 .. Len(log)

\* One raft leader per term; a replica's view of its group is of an earlier
\* term, or is right.
Leaders ==
  /\ rterm[ldr] = term /\ rlead[ldr] = TRUE
  /\ \A n \in Nodes : /\ mterm[n] <= rterm[n] /\ rterm[n] <= term
                      /\ rlead[n] /\ rterm[n] = term => n = ldr
                      /\ mterm[n] = rterm[n] => mlead[n] = rlead[n]

\* Terms never decrease along the log, a replica knows of no entry of a term it
\* has not heard of, and a leader that knows of an entry of its own term knows
\* of everything that is committed.
Ordered ==
  /\ \A i, j \in Positions : i <= j => log[i].term <= log[j].term
  /\ \A i \in Positions : log[i].term <= term
  /\ \A n \in Nodes : applied[n] <= known[n]
  /\ \A n \in Nodes : \A i \in 1 .. known[n] : log[i].term <= rterm[n]
  /\ \A i \in 1 .. commit : log[i].term = term => known[ldr] = commit

\* A request is proposed at most once, and acknowledged when it is committed.
Once ==
  /\ \A i, j \in Positions : log[i].req # NoReq /\ log[i].req = log[j].req => i = j
  /\ \A q \in Requests : req[q].pc \notin {"proposed", "written", "failed"} =>
       \A i \in Positions : log[i].req # q
  /\ \A q \in Requests : req[q].pc = "written" => \E i \in 1 .. commit : log[i].req = q

\* Nothing is stamped in the future.
Clocks ==
  /\ heard <= now /\ ratchet <= now
  /\ \A q \in Requests : /\ req[q].begin <= commit
                         /\ IsRead(q) => req[q].ts <= now

\* An answer stamped at time t: whoever leads, a majority has heard a leader
\* since; and an election timeout has passed if n is not the one that leads.
Stamped(n, t) == t # None => t <= heard /\ (n # ldr => t + ElectionTimeout <= heard)

Stamps ==
  LeaseReads /\ LeaseHolds =>
    /\ xfer = NoNode
    /\ \A n \in Nodes : Stamped(n, contact[n]) /\ Stamped(n, ans[n])

\* A read that bumped the cache on the strength of a lease was on the leader:
\* once the replica knows of an entry of its term it knows of what the read has
\* to see.  And from its index on the read has it.
CanSee(q) ==
  LeaseReads /\ req[q].pc = "bumped" =>
    \A i \in 1 .. known[req[q].node] :
      log[i].term = rterm[req[q].node] => req[q].begin <= known[req[q].node]

Sees(q) == req[q].pc \in {"indexed", "evaluated", "served"} => req[q].begin <= req[q].idx

Seen == LeaseHolds => \A q \in Requests : CanSee(q) /\ Sees(q)

\* What linearizability rests on.
ReadInv == TypeOK /\ Leaders /\ Ordered /\ Once /\ Clocks /\ Stamps /\ Seen
----------------------------------------------------------------------------
(***************************************************************************)
(* The latches and the cache.                                              *)
(***************************************************************************)
\* Two latches are held together at a replica only by reads (module Latch).
Exclusive ==
  \A x, y \in Requests :
    x # y /\ LatchHeld(x) /\ LatchHeld(y) /\ req[x].node = req[y].node => IsRead(x) /\ IsRead(y)

\* A read's timestamp is remembered where it was served (module TsCache), and a
\* check was made in a term the replica had noted.
Remembered ==
  \A q \in Requests :
    /\ req[q].pc \in {"bumped", "indexed", "evaluated", "served"} => req[q].ts <= low[req[q].node]
    /\ req[q].pc = "checked" => req[q].term <= mterm[req[q].node]

\* A leader's own entries were proposed in the term it has noted, and hold their
\* latches until they are applied.
Latched ==
  Orderly => \A n \in Nodes, i \in Positions :
    rlead[n] /\ log[i].term = rterm[n] /\ log[i].req # NoReq =>
      /\ mterm[n] = rterm[n]
      /\ applied[n] < i => req[log[i].req].node = n /\ req[log[i].req].pc = "proposed"

\* The replica noted that it leads and has raised its cache.
Settled(n) == mterm[n] = rterm[n] /\ ~owed[n]

\* A later leader's clock is past the read when it is elected: the lease, or the
\* messages of the quorum round, see to that.
ClockPast(r) == IF LeaseReads THEN req[r].ts + MaxOffset <= heard + ElectionTimeout
                              ELSE req[r].ts <= ratchet

\* The leader's cache has the read, or has still to be raised past it.
CachePast(r) == \/ req[r].ts <= low[ldr]
                \/ ~Settled(ldr) /\ (LeaseReads => req[r].ts + MaxOffset <= now)

\* A write that the leader has checked and may still propose is above the read.
ChecksPast(r) ==
  \A q \in Requests :
    req[q].pc = "checked" /\ req[q].node = ldr /\ req[q].term = term => req[r].ts < req[q].ts

\* So is every entry the read did not or will not see.
LogPast(r) ==
  \A i \in Positions :
    log[i].req # NoReq /\ log[i].ts <= req[r].ts =>
      IF req[r].pc = "bumped" THEN log[i].term <= rterm[req[r].node] ELSE i <= req[r].idx

\* The reads the group is bound by.
Binding(r) == \/ req[r].pc \in {"indexed", "evaluated", "served"}
              \/ LeaseReads /\ req[r].pc = "bumped"

Promise(r) == ClockPast(r) /\ CachePast(r) /\ ChecksPast(r) /\ LogPast(r)

Promised == Orderly /\ LeaseHolds => \A r \in Requests : Binding(r) => Promise(r)

\* What is inductive.
WriteInv == ReadInv /\ Exclusive /\ Remembered /\ Latched /\ Promised
----------------------------------------------------------------------------
(***************************************************************************)
(* Lemmas about the operators.                                             *)
(***************************************************************************)
\* An environment's fields, and that it stays.
LEMMA EnvTypes ==
  ASSUME TypeOK
  PROVE  /\ ElectionTimeout \in Nat /\ LeaseReads \in BOOLEAN
         /\ MaxOffset \in Nat /\ 0 < MaxOffset
BY EnvAssumption DEF TypeOK, ElectionTimeout, LeaseReads

\* No step changes the environment a behaviour began with.
LEMMA EnvStays ==
  ASSUME [Next]_vars
  PROVE  env' = env
BY ZenonT(40) DEF Next, vars, Tick, Answer, Receive, Transfer, Elect, Hear, Commit, Learn, StageReady,
       BumpOnLead, Apply, Arrive, ReadBump, ReadIndex, Evaluate, Return, Check, Propose, Cancel

\* Forwarding a timestamp never lowers it.
LEMMA ForwardBounds ==
  ASSUME NEW a \in Int, NEW b \in Int
  PROVE  Forward(a, b) \in {a, b} /\ a <= Forward(a, b) /\ b <= Forward(a, b)
BY DEF Forward

\* An election keeps a prefix of the log, with everything committed, and adds an
\* empty entry.
LEMMA ElectedLog ==
  ASSUME TypeOK, NEW p \in commit .. Len(log), log' = Append(SubSeq(log, 1, p), Noop(term + 1))
  PROVE  /\ log' \in Seq(Entry) /\ Len(log') = p + 1 /\ p \in Nat
         /\ \A i \in 1 .. p : log'[i] = log[i]
         /\ log'[p + 1] = Noop(term + 1)
<1>1. Noop(term + 1) \in Entry
  BY DEF TypeOK, Noop, Entry
<1>2. p \in Nat /\ 1 <= p /\ p <= Len(log) /\ log \in Seq(Entry)
  BY DEF TypeOK
<1>3. /\ SubSeq(log, 1, p) \in Seq(Entry) /\ Len(SubSeq(log, 1, p)) = p
      /\ \A i \in 1 .. p : SubSeq(log, 1, p)[i] = log[i]
  BY ONLY <1>2
<1> QED BY ONLY <1>1, <1>2, <1>3, log' = Append(SubSeq(log, 1, p), Noop(term + 1))

\* A proposal adds one entry.
LEMMA ProposedLog ==
  ASSUME TypeOK, NEW e \in Entry, log' = Append(log, e)
  PROVE  /\ log' \in Seq(Entry) /\ Len(log') = Len(log) + 1 /\ Len(log) \in Nat
         /\ \A i \in Positions : log'[i] = log[i]
         /\ log'[Len(log) + 1] = e
BY SMTT(30) DEF TypeOK, Positions

\* A fresh lease is the leader's, and ends before anyone else's can begin.
LEMMA FreshLeads ==
  ASSUME TypeOK, Clocks, Stamps, LeaseReads, LeaseHolds, NEW n \in Nodes, leaseContactFresh(n)
  PROVE  n = ldr /\ now + MaxOffset <= heard + ElectionTimeout
<1>1. contact[n] \in Nat /\ contact[n] # None /\ Stamped(n, contact[n])
  BY Zenon DEF TypeOK, Stamps, leaseContactFresh, None
<1>2. now - contact[n] <= ElectionTimeout - MaxOffset
  BY Zenon DEF leaseContactFresh
<1>3. now \in Nat /\ heard \in Nat /\ heard <= now
  BY Zenon DEF TypeOK, Clocks
<1> QED BY <1>1, <1>2, <1>3, EnvTypes DEF Stamped
----------------------------------------------------------------------------
(***************************************************************************)
(* The values the variables have.                                          *)
(***************************************************************************)
LEMMA Scalars ==
  ASSUME TypeOK
  PROVE  /\ now \in Nat /\ term \in Nat /\ heard \in Nat /\ ratchet \in Nat /\ ldr \in Nodes
         /\ log \in Seq(Entry) /\ Len(log) \in Nat
         /\ commit \in Nat /\ 1 <= commit /\ commit <= Len(log)
<1>1. /\ now \in Nat /\ term \in Nat /\ heard \in Nat /\ ratchet \in Nat /\ ldr \in Nodes
      /\ log \in Seq(Entry) /\ commit \in 1 .. Len(log)
  BY Zenon DEF TypeOK
<1> QED BY ONLY <1>1

\* The types of what one replica keeps.
LEMMA NodeValues ==
  ASSUME TypeOK, NEW n \in Nodes
  PROVE  /\ rterm[n] \in Nat /\ mterm[n] \in Nat /\ low[n] \in Nat
         /\ rlead[n] \in BOOLEAN /\ mlead[n] \in BOOLEAN /\ owed[n] \in BOOLEAN
         /\ known[n] \in Nat /\ 1 <= known[n] /\ known[n] <= commit
         /\ applied[n] \in Nat /\ 1 <= applied[n] /\ applied[n] <= commit
<1>1. /\ rterm[n] \in Nat /\ mterm[n] \in Nat /\ low[n] \in Nat
      /\ rlead[n] \in BOOLEAN /\ mlead[n] \in BOOLEAN /\ owed[n] \in BOOLEAN
      /\ known[n] \in 1 .. commit /\ applied[n] \in 1 .. commit
  BY Zenon DEF TypeOK
<1>2. commit \in Nat
  BY Zenon, Scalars
<1>3. /\ known[n] \in Nat /\ 1 <= known[n] /\ known[n] <= commit
      /\ applied[n] \in Nat /\ 1 <= applied[n] /\ applied[n] <= commit
  BY ONLY <1>1, <1>2
<1> QED BY Zenon, <1>1, <1>3

\* The types of one log entry.
LEMMA EntryValues ==
  ASSUME TypeOK, NEW i \in Positions
  PROVE  /\ log[i].term \in Nat /\ log[i].ts \in Nat /\ log[i].req \in Requests \cup {NoReq}
         /\ i \in Nat /\ 1 <= i /\ i <= Len(log)
<1>1. log \in Seq(Entry) /\ i \in 1 .. Len(log) /\ Len(log) \in Nat
  BY Zenon, Scalars DEF Positions
<1>2. log[i] \in Entry /\ i \in Nat /\ 1 <= i /\ i <= Len(log)
  BY ONLY <1>1
<1> QED BY Zenon, <1>2 DEF Entry

\* The types of one request.
LEMMA RequestValues ==
  ASSUME TypeOK, NEW q \in Requests
  PROVE  /\ req[q].pc \in Places /\ req[q].node \in Nodes /\ req[q].ts \in Nat
         /\ req[q].term \in Nat /\ req[q].begin \in Nat /\ req[q].idx \in Nat
BY Zenon DEF TypeOK, Request
----------------------------------------------------------------------------
(***************************************************************************)
(* What the steps do to the requests.                                      *)
(***************************************************************************)
Others(q) == \A x \in Requests : x # q => req'[x] = req[x]
SameHeader(q) == req'[q].node = req[q].node /\ req'[q].ts = req[q].ts /\ req'[q].begin = req[q].begin

\* To moves one request to another place and changes nothing else of it.
LEMMA ToEffect ==
  ASSUME TypeOK, NEW q \in Requests, NEW pc \in Places, To(q, pc)
  PROVE  /\ req' \in [Requests -> Request] /\ Others(q) /\ SameHeader(q) /\ req'[q].pc = pc
         /\ req'[q].term = req[q].term /\ req'[q].idx = req[q].idx
<1>1. req \in [Requests -> Request] /\ req' = [req EXCEPT ![q].pc = pc]
  BY Zenon DEF TypeOK, To
<1> QED BY ONLY <1>1, q \in Requests, pc \in Places DEF Others, SameHeader, Request

\* Setting a request's place and index changes nothing else of it.
LEMMA IndexEffect ==
  ASSUME TypeOK, NEW q \in Requests, NEW pc \in Places, NEW x \in Nat,
         req' = [req EXCEPT ![q].pc = pc, ![q].idx = x]
  PROVE  /\ req' \in [Requests -> Request] /\ Others(q) /\ SameHeader(q) /\ req'[q].pc = pc
         /\ req'[q].term = req[q].term /\ req'[q].idx = x
<1>1. req \in [Requests -> Request]
  BY Zenon DEF TypeOK
<1> QED BY ONLY ZenonT(40), <1>1, q \in Requests, pc \in Places, x \in Nat,
                req' = [req EXCEPT ![q].pc = pc, ![q].idx = x] DEF Others, SameHeader, Request

\* A new request notes its replica, its timestamp and what is committed.
LEMMA ArriveEffect ==
  ASSUME TypeOK, NEW q \in Requests, NEW n \in Nodes, NEW pc \in {"read", "write"}, NEW ts \in 1 .. now,
         Arrive(q, n, pc, ts)
  PROVE  /\ req' \in [Requests -> Request] /\ Others(q) /\ req[q].pc = "idle" /\ req'[q].pc = pc
         /\ req'[q].node = n /\ req'[q].ts = ts /\ req'[q].begin = commit /\ ts \in Nat /\ ts <= now
<1>0. req[q] = Idle /\ Idle.pc = "idle"
  BY Zenon DEF Arrive, Idle
<1>1. /\ req \in [Requests -> Request] /\ req[q].pc = "idle" /\ now \in Nat /\ commit \in Nat
      /\ req' = [req EXCEPT ![q] = [@ EXCEPT !.pc = pc, !.node = n, !.ts = ts, !.begin = commit]]
  BY Zenon, <1>0, Scalars DEF TypeOK, Arrive
<1>2. ts \in Nat /\ ts <= now
  BY ONLY <1>1, ts \in 1 .. now
<1> QED BY ONLY ZenonT(40), <1>1, <1>2, q \in Requests, n \in Nodes, pc \in {"read", "write"}
        DEF Others, Request, Places

\* The same, under a name.
Arrived(q, pc, ts) == Others(q) /\ req'[q].pc = pc /\ req'[q].ts = ts /\ req'[q].begin = commit

\* An arrival changes no other request and no read that was under way.
LEMMA ArriveMoves ==
  ASSUME TypeOK, NEW q \in Requests, NEW n \in Nodes, NEW pc \in {"read", "write"}, NEW ts \in 1 .. now,
         Arrive(q, n, pc, ts)
  PROVE  Arrived(q, pc, ts)
<1>1. /\ req \in [Requests -> Request]
      /\ req' = [req EXCEPT ![q] = [@ EXCEPT !.pc = pc, !.node = n, !.ts = ts, !.begin = commit]]
  BY Zenon DEF TypeOK, Arrive
<1> QED BY ONLY <1>1, q \in Requests DEF Arrived, Others, Request

\* ReadBump: the cache covers the read, which goes on only with a fresh lease.
LEMMA ReadBumpEffect ==
  ASSUME TypeOK, NEW q \in Requests, ReadBump(q)
  PROVE  /\ req' \in [Requests -> Request] /\ Others(q) /\ SameHeader(q)
         /\ req[q].pc = "read" /\ req'[q].pc \in {"bumped", "failed"}
         /\ req'[q].pc = "bumped" => (LeaseReads => leaseContactFresh(req[q].node))
         /\ low' = [low EXCEPT ![req[q].node] = Forward(low[req[q].node], req[q].ts)]
<1>1. PICK pc : pc = IF LeaseReads /\ ~leaseContactFresh(req[q].node) THEN "failed" ELSE "bumped"
  BY Zenon
<1>2. pc \in Places /\ pc \in {"bumped", "failed"} /\ To(q, pc) /\ req[q].pc = "read"
  BY Zenon, <1>1 DEF ReadBump, Places
<1>3. low' = [low EXCEPT ![req[q].node] = Forward(low[req[q].node], req[q].ts)]
  BY Zenon DEF ReadBump
<1> QED BY Zenon, <1>1, <1>2, <1>3, ToEffect

\* ReadIndex: the read's index is what its replica knows to be committed.
LEMMA ReadIndexEffect ==
  ASSUME TypeOK, NEW q \in Requests, ReadIndex(q)
  PROVE  /\ req' \in [Requests -> Request] /\ Others(q) /\ SameHeader(q)
         /\ req[q].pc = "bumped" /\ req'[q].pc = "indexed"
         /\ req'[q].term = req[q].term /\ req'[q].idx = known[req[q].node]
<1>1. PICK n \in Nodes : n = req[q].node
  BY Zenon, RequestValues
<1>2. PICK x \in Nat : x = known[n]
  BY Zenon, <1>1, NodeValues
<1>3. "indexed" \in Places
  BY Zenon DEF Places
<1>4. /\ req' = [req EXCEPT ![q].pc = "indexed", ![q].idx = x]
      /\ req[q].pc = "bumped"
  BY Zenon, <1>1, <1>2 DEF ReadIndex
<1>5. /\ req' \in [Requests -> Request] /\ Others(q) /\ SameHeader(q) /\ req'[q].pc = "indexed"
      /\ req'[q].term = req[q].term /\ req'[q].idx = x
  BY ZenonT(40), <1>3, <1>4, IndexEffect
<1> QED BY Zenon, <1>1, <1>2, <1>4, <1>5

\* Evaluate: the read saw what is applied at its replica, its index at least.
LEMMA EvaluateEffect ==
  ASSUME TypeOK, NEW q \in Requests, Evaluate(q)
  PROVE  /\ req' \in [Requests -> Request] /\ Others(q) /\ SameHeader(q)
         /\ req[q].pc = "indexed" /\ req'[q].pc = "evaluated"
         /\ req'[q].term = req[q].term /\ req'[q].idx = applied[req[q].node]
<1>1. PICK n \in Nodes : n = req[q].node
  BY Zenon, RequestValues
<1>2. PICK x \in Nat : x = applied[n]
  BY Zenon, <1>1, NodeValues
<1>3. "evaluated" \in Places
  BY Zenon DEF Places
<1>4. /\ req' = [req EXCEPT ![q].pc = "evaluated", ![q].idx = x]
      /\ req[q].pc = "indexed"
  BY Zenon, <1>1, <1>2 DEF Evaluate
<1>5. /\ req' \in [Requests -> Request] /\ Others(q) /\ SameHeader(q) /\ req'[q].pc = "evaluated"
      /\ req'[q].term = req[q].term /\ req'[q].idx = x
  BY ZenonT(40), <1>3, <1>4, IndexEffect
<1> QED BY Zenon, <1>1, <1>2, <1>4, <1>5

\* Return: the read is served or fails.
LEMMA ReturnEffect ==
  ASSUME TypeOK, NEW q \in Requests, Return(q)
  PROVE  /\ req' \in [Requests -> Request] /\ Others(q) /\ SameHeader(q)
         /\ req[q].pc = "evaluated" /\ req'[q].pc \in {"failed", "served"}
         /\ req'[q].term = req[q].term /\ req'[q].idx = req[q].idx
<1>1. PICK pc : pc = IF LeaseReads /\ ~leaseContactFresh(req[q].node) THEN "failed" ELSE "served"
  BY Zenon
<1>2. pc \in Places /\ pc \in {"failed", "served"} /\ To(q, pc) /\ req[q].pc = "evaluated"
  BY Zenon, <1>1 DEF Return, Places
<1> QED BY Zenon, <1>2, ToEffect

\* Check: the write is above its replica's cache, in the term noted there.
LEMMA CheckEffect ==
  ASSUME TypeOK, NEW q \in Requests, Check(q)
  PROVE  /\ req' \in [Requests -> Request] /\ Others(q)
         /\ req[q].pc = "write" /\ req'[q].pc = "checked"
         /\ req'[q].node = req[q].node /\ req'[q].begin = req[q].begin
         /\ req'[q].term = mterm[req[q].node]
         /\ req'[q].ts = IF low[req[q].node] < req[q].ts THEN req[q].ts ELSE low[req[q].node] + 1
<1>1. PICK t : t = mterm[req[q].node]
  BY Zenon
<1>2. PICK s : s = IF low[req[q].node] < req[q].ts THEN req[q].ts ELSE low[req[q].node] + 1
  BY Zenon
<1>3. low[req[q].node] \in Nat /\ req[q].ts \in Nat /\ t \in Nat
  BY Zenon, <1>1, RequestValues, NodeValues
<1>4. s \in Nat
  BY ONLY <1>2, <1>3
<1>5. /\ req \in [Requests -> Request] /\ req[q].pc = "write"
      /\ req' = [req EXCEPT ![q].pc = "checked", ![q].term = t, ![q].ts = s]
  BY Zenon, <1>1, <1>2 DEF TypeOK, Check
<1>6. /\ req' \in [Requests -> Request] /\ Others(q) /\ req'[q].pc = "checked"
      /\ req'[q].node = req[q].node /\ req'[q].begin = req[q].begin
      /\ req'[q].term = t /\ req'[q].ts = s
  BY ONLY ZenonT(40), <1>3, <1>4, <1>5, q \in Requests DEF Others, Request, Places
<1> QED BY Zenon, <1>1, <1>2, <1>5, <1>6

\* Propose: the write is in flight or has failed.
LEMMA ProposeEffect ==
  ASSUME TypeOK, NEW q \in Requests, Propose(q)
  PROVE  /\ req' \in [Requests -> Request] /\ Others(q) /\ SameHeader(q)
         /\ req[q].pc = "checked" /\ req'[q].pc \in {"proposed", "failed"}
         /\ req'[q].term = req[q].term
<1>1. PICK pc : pc = IF rlead[req[q].node] /\ (req[q].node = ldr => xfer = NoNode) THEN "proposed" ELSE "failed"
  BY Zenon
<1>2. pc \in Places /\ pc \in {"proposed", "failed"} /\ To(q, pc) /\ req[q].pc = "checked"
  BY Zenon, <1>1 DEF Propose, Places
<1> QED BY Zenon, <1>2, ToEffect

\* Cancel: a write in flight fails.
LEMMA CancelEffect ==
  ASSUME TypeOK, NEW q \in Requests, Cancel(q)
  PROVE  /\ req' \in [Requests -> Request] /\ Others(q) /\ SameHeader(q)
         /\ req[q].pc = "proposed" /\ req'[q].pc = "failed"
BY Zenon, ToEffect DEF Cancel, Places

\* A request that a step of the replica's loops ends.
Ends(x) == /\ SameHeader(x) /\ req[x].pc = "proposed" /\ req'[x].pc \in {"written", "failed"}

\* StageReady: a replica that notes a change of term fails what it had in flight.
LEMMA StageReadyEffect ==
  ASSUME TypeOK, NEW n \in Nodes, StageReady(n)
  PROVE  /\ req' \in [Requests -> Request]
         /\ \A x \in Requests : \/ req'[x] = req[x]
                                \/ Ends(x) /\ req[x].node = n /\ req'[x].pc = "failed"
<1>1. ASSUME NEW x \in Requests
      PROVE  /\ req'[x] \in Request
             /\ req'[x] = req[x] \/ (Ends(x) /\ req[x].node = n /\ req'[x].pc = "failed")
  <2>1. /\ req[x] \in Request
        /\ \/ req'[x] = req[x]
           \/ req'[x] = [req[x] EXCEPT !.pc = "failed"] /\ req[x].node = n /\ req[x].pc = "proposed"
    BY Zenon DEF TypeOK, StageReady, Failed
  <2> QED BY ONLY <2>1 DEF Ends, SameHeader, Request, Places
<1>2. req' = [x \in Requests |-> req'[x]]
  BY Zenon DEF StageReady
<1> QED BY Zenon, <1>1, <1>2

\* Apply: the next entry is applied and the proposal waiting for it is answered.
LEMMA ApplyEffect ==
  ASSUME TypeOK, NEW n \in Nodes, Apply(n)
  PROVE  /\ req' \in [Requests -> Request]
         /\ \A x \in Requests : \/ req'[x] = req[x]
                                \/ /\ Ends(x) /\ req[x].node = n /\ req'[x].pc = "written"
                                   /\ x = log[applied[n] + 1].req
<1>1. PICK q : q = log[applied[n] + 1].req
  BY Zenon
<1>2. CASE q \in Requests /\ req[q].node = n /\ req[q].pc = "proposed"
  <2>1. To(q, "written") /\ "written" \in Places
    BY Zenon, <1>1, <1>2 DEF Apply, To, Places
  <2>2. /\ req' \in [Requests -> Request] /\ Others(q) /\ SameHeader(q) /\ req'[q].pc = "written"
    BY Zenon, <1>2, <2>1, ToEffect
  <2>3. Ends(q)
    BY Zenon, <1>2, <2>2 DEF Ends
  <2> QED BY Zenon, <1>1, <1>2, <2>2, <2>3 DEF Others
<1>3. CASE ~(q \in Requests /\ req[q].node = n /\ req[q].pc = "proposed")
  BY Zenon, <1>1, <1>3 DEF Apply, TypeOK
<1> QED BY Zenon, <1>2, <1>3
----------------------------------------------------------------------------
(***************************************************************************)
(* Which steps touch what.                                                 *)
(***************************************************************************)
LEMMA TermsMove ==
  ASSUME [Next]_vars
  PROVE  \/ UNCHANGED <<term, ldr, rterm, rlead, mterm, mlead>>
         \/ \E n \in Nodes : Elect(n) \/ Hear(n) \/ StageReady(n)
BY ZenonT(60) DEF Next, vars, raft, views, Tick, Answer, Receive, Transfer, Commit, Learn,
       BumpOnLead, Apply, Arrive, ReadBump, ReadIndex, Evaluate, Return, Check, Propose, Cancel

\* Which steps change the log.
LEMMA LogMoves ==
  ASSUME [Next]_vars
  PROVE  \/ UNCHANGED <<log, commit>>
         \/ Commit
         \/ \E n \in Nodes : Elect(n)
         \/ \E q \in Requests : Propose(q)
BY ZenonT(40) DEF Next, vars, raft, Tick, Answer, Receive, Transfer, Hear, Learn, StageReady,
       BumpOnLead, Apply, Arrive, ReadBump, ReadIndex, Evaluate, Return, Check, Cancel

\* Which steps change what replicas know and have applied.
LEMMA KnownMoves ==
  ASSUME [Next]_vars
  PROVE  \/ UNCHANGED <<known, applied>>
         \/ Commit
         \/ \E n \in Nodes : Learn(n) \/ Apply(n)
BY ZenonT(40) DEF Next, vars, lag, Tick, Answer, Receive, Transfer, Elect, Hear, StageReady,
       BumpOnLead, Arrive, ReadBump, ReadIndex, Evaluate, Return, Check, Propose, Cancel

\* Which steps change a request.
LEMMA RequestsMove ==
  ASSUME [Next]_vars
  PROVE  \/ UNCHANGED req
         \/ \E n \in Nodes : StageReady(n) \/ Apply(n)
         \/ \E q \in Requests :
              \/ \E n \in Nodes, pc \in {"read", "write"}, ts \in 1 .. now : Arrive(q, n, pc, ts)
              \/ ReadBump(q) \/ ReadIndex(q) \/ Evaluate(q) \/ Return(q)
              \/ Check(q) \/ Propose(q) \/ Cancel(q)
BY Zenon DEF Next, vars, Tick, Answer, Receive, Transfer, Elect, Hear, Commit, Learn, BumpOnLead

\* Which steps change a timestamp cache.
LEMMA CacheMoves ==
  ASSUME [Next]_vars
  PROVE  \/ UNCHANGED low
         \/ \E n \in Nodes : BumpOnLead(n)
         \/ \E q \in Requests : ReadBump(q)
BY ZenonT(40) DEF Next, vars, views, Tick, Answer, Receive, Transfer, Elect, Hear, Commit, Learn,
       StageReady, Apply, Arrive, ReadIndex, Evaluate, Return, Check, Propose, Cancel

\* Which steps change clocks and stamps.
LEMMA TimesMove ==
  ASSUME [Next]_vars
  PROVE  \/ UNCHANGED <<now, heard, ratchet, xfer, ans, contact>>
         \/ Tick \/ Answer \/ Commit
         \/ \E n \in Nodes : Receive(n) \/ Transfer(n) \/ Elect(n)
         \/ \E q \in Requests : ReadIndex(q)
BY ZenonT(40) DEF Next, vars, raft, lease, Hear, Learn, StageReady, BumpOnLead, Apply, Arrive,
       ReadBump, Evaluate, Return, Check, Propose, Cancel
----------------------------------------------------------------------------
(***************************************************************************)
(* Types.                                                                  *)
(***************************************************************************)
LEMMA TypeInit == Init => TypeOK
<1> SUFFICES ASSUME Init PROVE TypeOK
  BY Zenon
<1>1. Noop(1) \in Entry /\ Idle \in Request
  BY Zenon, NodesAssumption DEF Noop, Entry, Idle, Request, Places
<1>2. log \in Seq(Entry) /\ Len(log) = 1
  BY <1>1 DEF Init
<1>3. commit \in 1 .. Len(log) /\ 1 \in Nat /\ 0 \in Nat /\ 1 \in 1 .. commit
  <2>1. commit = 1
    BY Zenon DEF Init
  <2> QED BY ONLY <1>2, <2>1
<1> QED BY Zenon, <1>1, <1>2, <1>3, NodesAssumption DEF Init, TypeOK

\* Every step keeps the types.
LEMMA TypeStep ==
  ASSUME TypeOK, [Next]_vars
  PROVE  TypeOK'
<1> USE DEF None
<1>1. CASE UNCHANGED vars
  BY Zenon, <1>1 DEF TypeOK, vars, raft, views, lag, lease
<1>2. CASE Tick
  <2>1. now' = now + 1 /\ now \in Nat
    BY Zenon, <1>2, Scalars DEF Tick
  <2>2. now' \in Nat
    BY ONLY <2>1
  <2> QED BY Zenon, <1>2, <2>2 DEF TypeOK, Tick, raft, views, lag, lease
<1>3. CASE Answer
  BY Zenon, <1>3 DEF TypeOK, Answer, Answered, views, lag
<1>4. CASE Commit
  <2>1. Len(log) \in Nat /\ 1 <= commit /\ commit <= Len(log) /\ commit \in Nat /\ commit' = Len(log)
    BY Zenon, <1>4, Scalars DEF Commit
  <2>2. Len(log) \in 1 .. Len(log) /\ commit' \in 1 .. Len(log) /\ \A x \in 1 .. commit : x \in 1 .. commit'
    BY ONLY <2>1
  <2>3. known' \in [Nodes -> 1 .. commit'] /\ applied' \in [Nodes -> 1 .. commit']
    BY ZenonT(40), <1>4, <2>1, <2>2 DEF TypeOK, Commit
  <2>4. ans' \in [Nodes -> Nat \cup {None}]
    BY Zenon, <1>4 DEF TypeOK, Commit, Answered
  <2> QED BY ZenonT(40), <1>4, <2>2, <2>3, <2>4 DEF TypeOK, Commit, views
<1>5. ASSUME NEW n \in Nodes, Receive(n) \/ Transfer(n) \/ Hear(n) \/ Learn(n)
      PROVE  TypeOK'
  <2>1. CASE Receive(n)
    BY Zenon, <2>1 DEF TypeOK, Receive, raft, views, lag
  <2>2. CASE Transfer(n)
    BY Zenon, <2>2 DEF TypeOK, Transfer, raft, views, lag, lease
  <2>3. CASE Hear(n)
    BY Zenon, <2>3 DEF TypeOK, Hear, views, lag, lease
  <2>4. CASE Learn(n)
    <3>1. commit \in Nat /\ 1 <= commit
      BY Zenon, Scalars
    <3>2. commit \in 1 .. commit
      BY ONLY <3>1
    <3>3. known' \in [Nodes -> 1 .. commit]
      BY Zenon, <2>4, <3>2 DEF TypeOK, Learn
    <3> QED BY Zenon, <2>4, <3>3 DEF TypeOK, Learn, raft, views, lease
  <2> QED BY ZenonT(40), <1>5, <2>1, <2>2, <2>3, <2>4
<1>6. ASSUME NEW n \in Nodes, Elect(n)
      PROVE  TypeOK'
  <2>1. PICK p \in commit .. Len(log) : log' = Append(SubSeq(log, 1, p), Noop(term + 1))
    BY Zenon, <1>6 DEF Elect
  <2>2. log' \in Seq(Entry) /\ Len(log') = p + 1 /\ p \in Nat
    BY Zenon, <2>1, ElectedLog
  <2>3. commit' \in 1 .. Len(log')
    <3>1. commit' = commit /\ commit \in Nat /\ 1 <= commit /\ Len(log) \in Nat
      BY Zenon, <1>6, Scalars DEF Elect
    <3> QED BY ONLY <2>1, <2>2, <3>1
  <2>4. term + 1 \in Nat
    <3>1. term \in Nat
      BY Zenon, Scalars
    <3> QED BY ONLY <3>1
  <2>5. rterm' \in [Nodes -> Nat] /\ rlead' \in [Nodes -> BOOLEAN]
    BY Zenon, <1>6, <2>4 DEF TypeOK, Elect
  <2> QED BY ZenonT(40), <1>6, <2>2, <2>3, <2>4, <2>5 DEF TypeOK, Elect, views, lag, lease
<1>7. ASSUME NEW n \in Nodes, StageReady(n)
      PROVE  TypeOK'
  <2>1. req' \in [Requests -> Request]
    BY Zenon, <1>7, StageReadyEffect
  <2> QED BY Zenon, <1>7, <2>1 DEF TypeOK, StageReady, raft, lag, lease
<1>8. ASSUME NEW n \in Nodes, BumpOnLead(n)
      PROVE  TypeOK'
  <2>1. PICK c \in Forward(now - MaxOffset, ratchet) .. now : low' = [low EXCEPT ![n] = Forward(@, c)]
    BY Zenon, <1>8 DEF BumpOnLead
  <2>2. MaxOffset \in Nat /\ ratchet \in Nat /\ now \in Nat
    BY Zenon, EnvTypes, Scalars
  <2>3. c \in Nat
    BY ONLY <2>1, <2>2 DEF Forward
  <2>4. low' \in [Nodes -> Nat]
    BY Zenon, <2>1, <2>3 DEF TypeOK, Forward
  <2> QED BY Zenon, <1>8, <2>4 DEF TypeOK, BumpOnLead, raft, lag, lease
<1>9. ASSUME NEW n \in Nodes, Apply(n)
      PROVE  TypeOK'
  <2>1. req' \in [Requests -> Request]
    BY Zenon, <1>9, ApplyEffect
  <2>2. applied' \in [Nodes -> 1 .. commit]
    <3>1. /\ applied[n] < known[n] /\ applied[n] \in Nat /\ known[n] \in Nat /\ known[n] <= commit
          /\ commit \in Nat
      BY Zenon, <1>9, NodeValues, Scalars DEF Apply
    <3>2. applied[n] + 1 \in 1 .. commit
      BY ONLY <3>1
    <3> QED BY Zenon, <1>9, <3>2 DEF TypeOK, Apply
  <2> QED BY Zenon, <1>9, <2>1, <2>2 DEF TypeOK, Apply, raft, views, lease
<1>10. ASSUME NEW q \in Requests, NEW n \in Nodes, NEW pc \in {"read", "write"},
              NEW ts \in 1 .. now, Arrive(q, n, pc, ts)
       PROVE  TypeOK'
  <2>1. req' \in [Requests -> Request]
    BY Zenon, <1>10, ArriveEffect
  <2> QED BY Zenon, <1>10, <2>1 DEF TypeOK, Arrive, raft, views, lag, lease
<1>11. ASSUME NEW q \in Requests, ReadBump(q)
       PROVE  TypeOK'
  <2>1. req' \in [Requests -> Request]
    BY Zenon, <1>11, ReadBumpEffect
  <2>2. low' \in [Nodes -> Nat]
    BY Zenon, <1>11 DEF TypeOK, ReadBump, Forward, Request
  <2> QED BY Zenon, <1>11, <2>1, <2>2 DEF TypeOK, ReadBump, raft, lag, lease
<1>12. ASSUME NEW q \in Requests, ReadIndex(q)
       PROVE  TypeOK'
  <2>1. req[q].ts \in Nat
    BY Zenon, RequestValues
  <2>2. req' \in [Requests -> Request]
    BY Zenon, <1>12, ReadIndexEffect
  <2>3. ratchet' \in Nat /\ heard' \in Nat
    BY Zenon, <1>12, <2>1 DEF TypeOK, ReadIndex, Forward
  <2> QED BY ZenonT(40), <1>12, <2>2, <2>3 DEF TypeOK, ReadIndex, views, lag, lease
<1>13. ASSUME NEW q \in Requests, Evaluate(q) \/ Return(q) \/ Cancel(q)
       PROVE  TypeOK'
  <2>1. req' \in [Requests -> Request]
    BY Zenon, <1>13, EvaluateEffect, ReturnEffect, CancelEffect
  <2> QED BY Zenon, <1>13, <2>1 DEF TypeOK, Evaluate, Return, Cancel, raft, views, lag, lease
<1>14. ASSUME NEW q \in Requests, Check(q)
       PROVE  TypeOK'
  <2>1. req' \in [Requests -> Request]
    BY Zenon, <1>14, CheckEffect
  <2> QED BY Zenon, <1>14, <2>1 DEF TypeOK, Check, raft, views, lag, lease
<1>15. ASSUME NEW q \in Requests, Propose(q)
       PROVE  TypeOK'
  <2>1. req' \in [Requests -> Request]
    BY Zenon, <1>15, ProposeEffect
  <2>2. [term |-> term, req |-> q, ts |-> req[q].ts] \in Entry
    BY Zenon DEF TypeOK, Entry, Request
  <2>3. PICK e \in Entry : e = [term |-> term, req |-> q, ts |-> req[q].ts]
    BY Zenon, <2>2
  <2>4. log' = log \/ log' = Append(log, e)
    BY Zenon, <1>15, <2>3 DEF Propose
  <2>5. log' \in Seq(Entry) /\ Len(log') \in {Len(log), Len(log) + 1} /\ commit' = commit
    BY ZenonT(40), <1>15, <2>4, ProposedLog, Scalars DEF Propose
  <2>6. commit \in Nat /\ Len(log) \in Nat /\ 1 <= commit /\ commit <= Len(log)
    BY Zenon, Scalars
  <2>7. commit' \in 1 .. Len(log')
    BY ONLY <2>5, <2>6
  <2> QED BY ZenonT(40), <1>15, <2>1, <2>5, <2>7 DEF TypeOK, Propose, views, lag, lease
<1> QED BY ZenonT(40), <1>1, <1>2, <1>3, <1>4, <1>5, <1>6, <1>7, <1>8, <1>9, <1>10, <1>11, <1>12, <1>13,
           <1>14, <1>15 DEF Next
----------------------------------------------------------------------------
(***************************************************************************)
(* Leaders, log and clocks.                                                *)
(***************************************************************************)
LEMMA LeadersStep ==
  ASSUME TypeOK, Leaders, [Next]_vars
  PROVE  Leaders'
<1>0. /\ term \in Nat /\ ldr \in Nodes
      /\ \A m \in Nodes : rterm[m] \in Nat /\ mterm[m] \in Nat /\ mterm[m] <= rterm[m] /\ rterm[m] <= term
  BY Zenon, Scalars, NodeValues DEF Leaders
<1>1. CASE UNCHANGED <<term, ldr, rterm, rlead, mterm, mlead>>
  BY Zenon, <1>1 DEF Leaders
<1>2. ASSUME NEW n \in Nodes, Elect(n)
      PROVE  Leaders'
  <2>1. /\ term' = term + 1 /\ ldr' = n /\ UNCHANGED <<mterm, mlead>>
        /\ \A m \in Nodes : /\ rterm'[m] = IF m = n THEN term + 1 ELSE rterm[m]
                            /\ rlead'[m] = IF m = n THEN TRUE ELSE rlead[m]
    BY Zenon, <1>2 DEF Elect, TypeOK, views
  <2>2. \A m \in Nodes : /\ mterm[m] <= rterm'[m] /\ rterm'[m] <= term + 1
                        /\ rterm[m] # term + 1 /\ mterm[m] # term + 1
    <3>1. \A m \in Nodes : rterm'[m] = IF m = n THEN term + 1 ELSE rterm[m]
      BY Zenon, <2>1
    <3> QED BY ONLY <1>0, <3>1
  <2> QED BY Zenon, <2>1, <2>2 DEF Leaders
<1>3. ASSUME NEW n \in Nodes, Hear(n)
      PROVE  Leaders'
  <2>1. /\ rterm[n] < term /\ UNCHANGED <<term, ldr, mterm, mlead>>
        /\ \A m \in Nodes : /\ rterm'[m] = IF m = n THEN term ELSE rterm[m]
                            /\ rlead'[m] = IF m = n THEN FALSE ELSE rlead[m]
    BY Zenon, <1>3 DEF Hear, TypeOK, views
  <2>2. /\ mterm[n] # term /\ rterm[n] # term
        /\ \A m \in Nodes : mterm[m] <= rterm'[m] /\ rterm'[m] <= term
    <3>1. rterm[n] < term /\ \A m \in Nodes : rterm'[m] = IF m = n THEN term ELSE rterm[m]
      BY Zenon, <2>1
    <3> QED BY ONLY n \in Nodes, <1>0, <3>1
  <2>3. n # ldr
    BY Zenon, <2>2 DEF Leaders
  <2>4. rterm'[ldr] = term /\ rlead'[ldr] = TRUE
    BY Zenon, <1>0, <2>1, <2>3 DEF Leaders
  <2>5. \A m \in Nodes : rlead'[m] /\ rterm'[m] = term => m = ldr
    BY Zenon, <2>1 DEF Leaders
  <2>6. \A m \in Nodes : mterm[m] = rterm'[m] => mlead[m] = rlead'[m]
    BY Zenon, <2>1, <2>2 DEF Leaders
  <2> QED BY ZenonT(40), <2>1, <2>2, <2>4, <2>5, <2>6 DEF Leaders
<1>4. ASSUME NEW n \in Nodes, StageReady(n)
      PROVE  Leaders'
  <2>1. /\ UNCHANGED <<term, ldr, rterm, rlead>>
        /\ \A m \in Nodes : /\ mterm'[m] = IF m = n THEN rterm[n] ELSE mterm[m]
                            /\ mlead'[m] = IF m = n THEN rlead[n] ELSE mlead[m]
    BY Zenon, <1>4 DEF StageReady, TypeOK, raft
  <2> QED BY ONLY SMTT(30), n \in Nodes, <1>0, <2>1, Leaders DEF Leaders
<1> QED BY Zenon, <1>1, <1>2, <1>3, <1>4, TermsMove

\* Every step keeps the log in the order of its terms.
LEMMA OrderedStep ==
  ASSUME TypeOK, Leaders, Ordered, [Next]_vars
  PROVE  Ordered'
<1> USE DEF Positions
<1>0. /\ term \in Nat /\ commit \in Nat /\ commit <= Len(log) /\ Len(log) \in Nat /\ ldr \in Nodes
      /\ \A m \in Nodes : /\ known[m] \in Nat /\ known[m] <= commit /\ rterm[m] \in Nat
                          /\ applied[m] \in Nat /\ rterm[m] <= term
      /\ \A i \in 1 .. Len(log) : log[i].term \in Nat
  BY Zenon, Scalars, NodeValues, EntryValues DEF Leaders
<1>1. ASSUME NEW n \in Nodes, Elect(n)
      PROVE  Ordered'
  <2>1. PICK p \in commit .. Len(log) : log' = Append(SubSeq(log, 1, p), Noop(term + 1))
    BY Zenon, <1>1 DEF Elect
  <2>2. /\ Len(log') = p + 1 /\ p \in Nat /\ commit <= p /\ p <= Len(log)
        /\ \A i \in 1 .. p : log'[i] = log[i]
        /\ log'[p + 1].term = term + 1
    <3>1. Noop(term + 1).term = term + 1
      BY Zenon DEF Noop
    <3>2. commit <= p /\ p <= Len(log)
      BY ONLY <1>0, <2>1
    <3> QED BY Zenon, <2>1, <3>1, <3>2, ElectedLog
  <2>3. /\ term' = term + 1 /\ ldr' = n /\ UNCHANGED <<commit, known, applied>>
        /\ \A m \in Nodes : rterm'[m] = IF m = n THEN term + 1 ELSE rterm[m]
    BY Zenon, <1>1 DEF Elect, lag, TypeOK
  <2>4. \A i \in 1 .. Len(log') : \/ i \in 1 .. p /\ i \in 1 .. Len(log) /\ log'[i] = log[i]
                                  \/ i = p + 1 /\ log'[i].term = term + 1
    BY ONLY <1>0, <2>2
  <2>5. \A i, j \in 1 .. Len(log') : i <= j => log'[i].term <= log'[j].term
    <3> SUFFICES ASSUME NEW i \in 1 .. Len(log'), NEW j \in 1 .. Len(log'), i <= j
                 PROVE  log'[i].term <= log'[j].term
      BY Zenon
    <3>1. \A k \in 1 .. Len(log) : log[k].term <= term
      BY Zenon DEF Ordered
    <3>2. \A k, l \in 1 .. Len(log) : k <= l => log[k].term <= log[l].term
      BY Zenon DEF Ordered
    <3> QED BY ONLY SMTT(30), <1>0, <2>2, <2>4, <3>1, <3>2, i \in 1 .. Len(log'), j \in 1 .. Len(log'), i <= j
  <2>6. \A i \in 1 .. Len(log') : log'[i].term <= term'
    <3>1. \A k \in 1 .. Len(log) : log[k].term <= term
      BY Zenon DEF Ordered
    <3> QED BY ONLY SMTT(30), <1>0, <2>3, <2>4, <3>1
  <2>7. \A m \in Nodes : \A i \in 1 .. known'[m] : log'[i].term <= rterm'[m]
    <3>1. \A m \in Nodes : \A i \in 1 .. known[m] : log[i].term <= rterm[m]
      BY Zenon DEF Ordered
    <3> SUFFICES ASSUME NEW m \in Nodes, NEW i \in 1 .. known[m]
                 PROVE  log'[i].term <= rterm'[m]
      BY Zenon, <2>3
    <3>2. i \in 1 .. p /\ i \in 1 .. Len(log)
      BY ONLY m \in Nodes, i \in 1 .. known[m], <1>0, <2>2
    <3>3. log'[i] = log[i] /\ log[i].term <= rterm[m] /\ log[i].term \in Nat
      BY ZenonT(40), <1>0, <2>2, <3>1, <3>2
    <3> QED BY ONLY SMTT(30), m \in Nodes, <1>0, <2>3, <3>3
  <2>8. \A i \in 1 .. commit' : log'[i].term # term'
    <3>1. \A k \in 1 .. Len(log) : log[k].term <= term
      BY Zenon DEF Ordered
    <3> QED BY ONLY SMTT(30), <1>0, <2>2, <2>3, <3>1
  <2> QED BY Zenon, <2>3, <2>5, <2>6, <2>7, <2>8 DEF Ordered
<1>2. ASSUME NEW q \in Requests, Propose(q), log' # log
      PROVE  Ordered'
  <2> DEFINE e == [term |-> term, req |-> q, ts |-> req[q].ts]
  <2>1. e \in Entry /\ e.term = term
    BY Zenon DEF TypeOK, Entry, Request
  <2>2. /\ log' = Append(log, e)
        /\ UNCHANGED <<term, ldr, commit, rterm, known, applied>>
    BY Zenon, <1>2 DEF Propose, lag
  <2> HIDE DEF e
  <2>3. /\ Len(log') = Len(log) + 1 /\ Len(log) \in Nat
        /\ \A i \in 1 .. Len(log) : log'[i] = log[i]
        /\ log'[Len(log) + 1] = e
    BY Zenon, <2>1, <2>2, ProposedLog
  <2>4. \A i \in 1 .. Len(log') : \/ i \in 1 .. Len(log) /\ log'[i] = log[i]
                                  \/ i = Len(log) + 1 /\ log'[i].term = term
    BY ONLY SMTT(30), <2>1, <2>3
  <2>5. \A i, j \in 1 .. Len(log') : i <= j => log'[i].term <= log'[j].term
    <3> SUFFICES ASSUME NEW i \in 1 .. Len(log'), NEW j \in 1 .. Len(log'), i <= j
                 PROVE  log'[i].term <= log'[j].term
      BY Zenon
    <3>1. \A k \in 1 .. Len(log) : log[k].term <= term
      BY Zenon DEF Ordered
    <3>2. \A k, l \in 1 .. Len(log) : k <= l => log[k].term <= log[l].term
      BY Zenon DEF Ordered
    <3> QED BY ONLY SMTT(30), <1>0, <2>3, <2>4, <3>1, <3>2, i \in 1 .. Len(log'), j \in 1 .. Len(log'), i <= j
  <2>6. \A i \in 1 .. Len(log') : log'[i].term <= term
    <3>1. \A k \in 1 .. Len(log) : log[k].term <= term
      BY Zenon DEF Ordered
    <3> QED BY ONLY <1>0, <2>4, <3>1
  <2>7. \A m \in Nodes : \A i \in 1 .. known[m] : log'[i].term <= rterm[m]
    <3>1. \A m \in Nodes : \A i \in 1 .. known[m] : log[i].term <= rterm[m]
      BY Zenon DEF Ordered
    <3> QED BY ONLY SMTT(30), <1>0, <2>3, <3>1
  <2>8. \A i \in 1 .. commit : log'[i].term = term => known[ldr] = commit
    <3>1. \A i \in 1 .. commit : log[i].term = term => known[ldr] = commit
      BY Zenon DEF Ordered
    <3> QED BY ONLY SMTT(30), <1>0, <2>3, <3>1
  <2> QED BY ZenonT(40), <2>2, <2>5, <2>6, <2>7, <2>8 DEF Ordered
<1>3. CASE Commit
  <2>1. /\ commit' = Len(log) /\ UNCHANGED <<term, ldr, log, rterm, applied>>
        /\ \A m \in Nodes : known'[m] = IF m = ldr THEN Len(log) ELSE known[m]
    <3>1. known \in [Nodes -> 1 .. commit]
      BY Zenon DEF TypeOK
    <3> QED BY Zenon, <1>3, <3>1 DEF Commit
  <2>2. \A m \in Nodes : applied'[m] <= known'[m]
    <3>1. \A m \in Nodes : applied[m] <= known[m]
      BY Zenon DEF Ordered
    <3> QED BY ONLY SMTT(30), <1>0, <2>1, <3>1
  <2>3. \A m \in Nodes : \A i \in 1 .. known'[m] : log'[i].term <= rterm'[m]
    <3>1. \A m \in Nodes : \A i \in 1 .. known[m] : log[i].term <= rterm[m]
      BY Zenon DEF Ordered
    <3>2. rterm[ldr] = term /\ \A i \in 1 .. Len(log) : log[i].term <= term
      BY Zenon DEF Ordered, Leaders
    <3> QED BY Zenon, <2>1, <3>1, <3>2
  <2>4. known'[ldr'] = commit'
    BY Zenon, <1>0, <2>1
  <2> QED BY ZenonT(40), <2>1, <2>2, <2>3, <2>4 DEF Ordered
<1>4. ASSUME NEW n \in Nodes, Learn(n)
      PROVE  Ordered'
  <2>1. /\ rterm[n] = term /\ known[n] < commit /\ UNCHANGED <<term, ldr, log, commit, rterm, applied>>
        /\ \A m \in Nodes : known'[m] = IF m = n THEN commit ELSE known[m]
    <3>1. known \in [Nodes -> 1 .. commit]
      BY Zenon DEF TypeOK
    <3> QED BY Zenon, <1>4, <3>1 DEF Learn, raft
  <2>2. \A m \in Nodes : applied'[m] <= known'[m]
    <3>1. \A m \in Nodes : applied[m] <= known[m]
      BY Zenon DEF Ordered
    <3> QED BY ONLY SMTT(30), n \in Nodes, <1>0, <2>1, <3>1
  <2>3. \A m \in Nodes : \A i \in 1 .. known'[m] : log'[i].term <= rterm'[m]
    <3>1. \A m \in Nodes : \A i \in 1 .. known[m] : log[i].term <= rterm[m]
      BY Zenon DEF Ordered
    <3>2. \A i \in 1 .. Len(log) : log[i].term <= term
      BY Zenon DEF Ordered
    <3> QED BY ONLY SMTT(30), n \in Nodes, <1>0, <2>1, <3>1, <3>2
  <2>4. \A i \in 1 .. commit : log[i].term = term => known'[ldr] = commit
    BY Zenon, <1>0, <2>1 DEF Ordered
  <2> QED BY ZenonT(40), <2>1, <2>2, <2>3, <2>4 DEF Ordered
<1>5. ASSUME NEW n \in Nodes, Apply(n)
      PROVE  Ordered'
  <2>1. /\ applied[n] < known[n] /\ UNCHANGED <<term, ldr, log, commit, rterm, known>>
        /\ \A m \in Nodes : applied'[m] = IF m = n THEN applied[n] + 1 ELSE applied[m]
    <3>1. applied \in [Nodes -> 1 .. commit]
      BY Zenon DEF TypeOK
    <3> QED BY Zenon, <1>5, <3>1 DEF Apply, raft
  <2>2. \A m \in Nodes : applied'[m] <= known'[m]
    <3>1. \A m \in Nodes : applied[m] <= known[m]
      BY Zenon DEF Ordered
    <3> QED BY ONLY SMTT(30), n \in Nodes, <1>0, <2>1, <3>1
  <2> QED BY Zenon, <2>1, <2>2 DEF Ordered
<1>6. ASSUME NEW n \in Nodes, Hear(n)
      PROVE  Ordered'
  <2>1. /\ UNCHANGED <<term, ldr, log, commit, known, applied>>
        /\ \A m \in Nodes : rterm'[m] = IF m = n THEN term ELSE rterm[m]
    BY Zenon, <1>6 DEF Hear, lag, TypeOK
  <2>2. \A m \in Nodes : \A i \in 1 .. known[m] : log[i].term <= rterm'[m]
    <3>1. \A m \in Nodes : \A i \in 1 .. known[m] : log[i].term <= rterm[m]
      BY Zenon DEF Ordered
    <3> QED BY ONLY SMTT(30), n \in Nodes, <1>0, <2>1, <3>1
  <2> QED BY Zenon, <2>1, <2>2 DEF Ordered
<1>7. CASE UNCHANGED <<term, ldr, rterm, log, commit, known, applied>>
  BY Zenon, <1>7 DEF Ordered
<1>8. ASSUME NEW n \in Nodes, StageReady(n)
      PROVE  UNCHANGED <<term, ldr, rterm, log, commit, known, applied>>
  BY Zenon, <1>8 DEF StageReady, raft, lag
<1>9. CASE UNCHANGED <<term, ldr, rterm, log, commit>> /\ ~UNCHANGED <<known, applied>>
  BY ZenonT(40), <1>3, <1>4, <1>5, <1>9, KnownMoves
<1>10. ASSUME NEW q \in Requests, Propose(q), log' = log
       PROVE  UNCHANGED <<term, ldr, rterm, log, commit, known, applied>>
  BY Zenon, <1>10 DEF Propose, lag
<1> QED BY ZenonT(40), <1>1, <1>2, <1>3, <1>6, <1>7, <1>8, <1>9, <1>10, TermsMove, LogMoves

\* Every step keeps proposals single and acknowledged ones committed.
LEMMA OnceStep ==
  ASSUME TypeOK, Ordered, Once, [Next]_vars
  PROVE  Once'
<1> USE DEF Positions
<1>0. /\ Len(log) \in Nat /\ commit \in Nat /\ commit <= Len(log)
      /\ \A i \in Positions : log[i].req \in Requests \cup {NoReq}
      /\ NoReq \notin Requests
  BY Zenon, Scalars, EntryValues, NodesAssumption
<1>1. ASSUME NEW n \in Nodes, Elect(n)
      PROVE  Once'
  <2>1. PICK p \in commit .. Len(log) : log' = Append(SubSeq(log, 1, p), Noop(term + 1))
    BY Zenon, <1>1 DEF Elect
  <2>2. /\ Len(log') = p + 1 /\ p \in Nat /\ commit <= p /\ p <= Len(log)
        /\ \A i \in 1 .. p : log'[i] = log[i]
        /\ log'[p + 1].req = NoReq
    <3>1. Noop(term + 1).req = NoReq
      BY Zenon DEF Noop
    <3>2. commit <= p /\ p <= Len(log)
      BY ONLY <1>0, <2>1
    <3> QED BY Zenon, <2>1, <3>1, <3>2, ElectedLog
  <2>3. UNCHANGED <<commit, req>>
    BY Zenon, <1>1 DEF Elect
  <2>4. \A i \in 1 .. Len(log') : (i \in 1 .. Len(log) /\ log'[i] = log[i]) \/ log'[i].req = NoReq
    BY ONLY <1>0, <2>2
  <2>5. \A i \in 1 .. commit : log'[i] = log[i]
    BY ONLY <1>0, <2>2
  <2> QED BY ZenonT(40), <1>0, <2>3, <2>4, <2>5 DEF Once
<1>2. ASSUME NEW q \in Requests, Propose(q)
      PROVE  Once'
  <2>1. /\ req[q].pc = "checked" /\ commit' = commit /\ req'[q].pc \in {"proposed", "failed"}
        /\ \A x \in Requests : x # q => req'[x] = req[x]
    BY Zenon, <1>2, ProposeEffect DEF Propose, Others
  <2>2. \A i \in 1 .. Len(log) : log[i].req # q
    BY Zenon, <2>1 DEF Once
  <2>3. CASE log' = log
    BY Zenon, <2>1, <2>3 DEF Once
  <2>4. CASE log' # log
    <3> DEFINE e == [term |-> term, req |-> q, ts |-> req[q].ts]
    <3>1. e \in Entry /\ e.req = q
      BY Zenon DEF TypeOK, Entry, Request
    <3>2. log' = Append(log, e)
      BY Zenon, <1>2, <2>4 DEF Propose
    <3> HIDE DEF e
    <3>3. /\ Len(log') = Len(log) + 1
          /\ \A i \in 1 .. Len(log) : log'[i] = log[i]
          /\ log'[Len(log) + 1].req = q
      BY Zenon, <3>1, <3>2, ProposedLog
    <3>0. \A i \in 1 .. Len(log') : \/ i \in 1 .. Len(log) /\ log'[i] = log[i]
                                    \/ i = Len(log) + 1 /\ log'[i].req = q
      BY ONLY <1>0, <3>3
    <3>4. \A i, j \in 1 .. Len(log') : log'[i].req # NoReq /\ log'[i].req = log'[j].req => i = j
      BY ZenonT(40), <2>2, <3>0 DEF Once
    <3>5. \A x \in Requests : req'[x].pc \notin {"proposed", "written", "failed"} =>
            \A i \in 1 .. Len(log') : log'[i].req # x
      BY ZenonT(40), <2>1, <3>0 DEF Once
    <3>6. \A x \in Requests : req'[x].pc = "written" => \E i \in 1 .. commit : log'[i].req = x
      <4>1. \A i \in 1 .. commit : log'[i] = log[i]
        BY ONLY <1>0, <3>3
      <4> QED BY ZenonT(40), <2>1, <4>1 DEF Once
    <3> QED BY ZenonT(40), <2>1, <3>4, <3>5, <3>6 DEF Once
  <2> QED BY Zenon, <2>3, <2>4
<1>3. CASE Commit
  <2>1. UNCHANGED <<log, req>> /\ commit' = Len(log)
    BY Zenon, <1>3 DEF Commit
  <2>2. \A i \in 1 .. commit : i \in 1 .. Len(log)
    BY ONLY <1>0
  <2> QED BY ZenonT(40), <2>1, <2>2 DEF Once
<1>4. ASSUME NEW n \in Nodes, Apply(n)
      PROVE  Once'
  <2> DEFINE i == applied[n] + 1
  <2>1. i \in 1 .. commit
    <3>1. /\ applied[n] < known[n] /\ applied[n] \in Nat /\ known[n] \in Nat /\ known[n] <= commit
          /\ commit \in Nat
      BY Zenon, <1>4, NodeValues, Scalars DEF Apply
    <3> QED BY ONLY <3>1
  <2>2. UNCHANGED <<log, commit>>
    BY Zenon, <1>4 DEF Apply, raft
  <2>3. \A x \in Requests : \/ req'[x] = req[x]
                            \/ log[i].req = x /\ req[x].pc = "proposed" /\ req'[x].pc = "written"
    BY Zenon, <1>4, ApplyEffect DEF Ends
  <2> HIDE DEF i
  <2> QED BY ZenonT(40), <1>0, <2>1, <2>2, <2>3 DEF Once
<1>5. ASSUME UNCHANGED <<log, commit>>,
             \A x \in Requests : /\ req'[x].pc = "written" => req[x].pc = "written"
                                 /\ req[x].pc \in {"proposed", "written", "failed"} =>
                                      req'[x].pc \in {"proposed", "written", "failed"}
      PROVE  Once'
  BY Zenon, <1>5 DEF Once
<1>6. ASSUME NEW n \in Nodes, StageReady(n)
      PROVE  Once'
  <2>1. \A x \in Requests : req'[x] = req[x] \/ (req[x].pc = "proposed" /\ req'[x].pc = "failed")
    BY Zenon, <1>6, StageReadyEffect DEF Ends
  <2>2. UNCHANGED <<log, commit>>
    BY Zenon, <1>6 DEF StageReady, raft
  <2> QED BY Zenon, <1>5, <2>1, <2>2
<1>7. ASSUME NEW q \in Requests,
             \/ \E n \in Nodes, pc \in {"read", "write"}, ts \in 1 .. now : Arrive(q, n, pc, ts)
             \/ ReadBump(q) \/ ReadIndex(q) \/ Evaluate(q) \/ Return(q) \/ Check(q) \/ Cancel(q)
      PROVE  Once'
  <2>1. \A x \in Requests : x # q => req'[x] = req[x]
    BY ZenonT(40), <1>7, ArriveEffect, ReadBumpEffect, ReadIndexEffect, EvaluateEffect, ReturnEffect,
       CheckEffect, CancelEffect DEF Others
  <2>2. /\ req'[q].pc # "written"
        /\ req[q].pc \in {"proposed", "written", "failed"} => req'[q].pc \in {"proposed", "written", "failed"}
    BY ZenonT(40), <1>7, ArriveEffect, ReadBumpEffect, ReadIndexEffect, EvaluateEffect, ReturnEffect,
       CheckEffect, CancelEffect
  <2>3. UNCHANGED <<log, commit>>
    BY Zenon, <1>7 DEF Arrive, ReadBump, ReadIndex, Evaluate, Return, Check, Cancel, raft
  <2> QED BY Zenon, <1>5, <2>1, <2>2, <2>3
<1>8. CASE UNCHANGED <<log, commit, req>>
  BY Zenon, <1>8 DEF Once
<1> QED BY ZenonT(40), <1>1, <1>2, <1>3, <1>4, <1>6, <1>7, <1>8, LogMoves, RequestsMove

\* Times, terms and the caches only advance.
LEMMA Monotone ==
  ASSUME TypeOK, Leaders, Clocks, [Next]_vars
  PROVE  /\ now <= now' /\ heard <= heard' /\ ratchet <= ratchet' /\ commit <= commit'
         /\ \A n \in Nodes : rterm[n] <= rterm'[n] /\ mterm[n] <= mterm'[n] /\ low[n] <= low'[n]
<1>1. /\ now \in Nat /\ heard \in Nat /\ ratchet \in Nat /\ commit \in Nat /\ Len(log) \in Nat
      /\ commit <= Len(log) /\ heard <= now /\ ratchet <= now /\ term \in Nat
  BY Zenon, Scalars DEF Clocks
<1>2. \A n \in Nodes : /\ rterm[n] \in Nat /\ mterm[n] \in Nat /\ low[n] \in Nat
                       /\ mterm[n] <= rterm[n] /\ rterm[n] <= term
  BY Zenon DEF TypeOK, Leaders
<1>3. now <= now' /\ heard <= heard' /\ ratchet <= ratchet'
  <2>1. ASSUME NEW q \in Requests, ReadIndex(q)
        PROVE  now <= now' /\ heard <= heard' /\ ratchet <= ratchet'
    <3>1. req[q].ts \in Nat
      BY Zenon, RequestValues
    <3>2. /\ now' = now
          /\ heard' = heard \/ heard' = now
          /\ ratchet' = ratchet \/ ratchet' = Forward(ratchet, req[q].ts)
      BY Zenon, <2>1 DEF ReadIndex
    <3> QED BY ONLY <1>1, <3>1, <3>2 DEF Forward
  <2>2. \/ \E q \in Requests : ReadIndex(q)
        \/ /\ now' = now \/ now' = now + 1
           /\ heard' = heard \/ heard' = now
           /\ ratchet' = ratchet \/ ratchet' = now
    BY ZenonT(40), TimesMove DEF Tick, Answer, Commit, Receive, Transfer, Elect, raft
  <2>3. ASSUME now' = now \/ now' = now + 1, heard' = heard \/ heard' = now,
               ratchet' = ratchet \/ ratchet' = now
        PROVE  now <= now' /\ heard <= heard' /\ ratchet <= ratchet'
    BY ONLY <1>1, <2>3
  <2> QED BY Zenon, <2>1, <2>2, <2>3
<1>4. commit <= commit'
  <2>1. commit' = commit \/ commit' = Len(log)
    BY Zenon, LogMoves DEF Commit, Elect, Propose
  <2> QED BY ONLY <1>1, <2>1
<1>5. \A n \in Nodes : rterm[n] <= rterm'[n] /\ mterm[n] <= mterm'[n]
  <2>1. ASSUME NEW m \in Nodes, Elect(m)
        PROVE  \A n \in Nodes : rterm[n] <= rterm'[n] /\ mterm[n] <= mterm'[n]
    <3>1. /\ mterm' = mterm
          /\ \A n \in Nodes : rterm'[n] = IF n = m THEN term + 1 ELSE rterm[n]
      BY Zenon, <2>1 DEF Elect, views, TypeOK
    <3> QED BY ONLY <1>1, <1>2, <3>1
  <2>2. ASSUME NEW m \in Nodes, Hear(m)
        PROVE  \A n \in Nodes : rterm[n] <= rterm'[n] /\ mterm[n] <= mterm'[n]
    <3>1. /\ mterm' = mterm
          /\ \A n \in Nodes : rterm'[n] = IF n = m THEN term ELSE rterm[n]
      BY Zenon, <2>2 DEF Hear, views, TypeOK
    <3> QED BY ONLY <1>1, <1>2, <3>1
  <2>3. ASSUME NEW m \in Nodes, StageReady(m)
        PROVE  \A n \in Nodes : rterm[n] <= rterm'[n] /\ mterm[n] <= mterm'[n]
    <3>1. /\ rterm' = rterm
          /\ \A n \in Nodes : mterm'[n] = IF n = m THEN rterm[m] ELSE mterm[n]
      BY Zenon, <2>3 DEF StageReady, raft, TypeOK
    <3> QED BY ONLY SMTT(30), m \in Nodes, <1>1, <1>2, <3>1
  <2>4. ASSUME UNCHANGED <<rterm, mterm>>
        PROVE  \A n \in Nodes : rterm[n] <= rterm'[n] /\ mterm[n] <= mterm'[n]
    BY ONLY <1>2, <2>4
  <2> QED BY Zenon, <2>1, <2>2, <2>3, <2>4, TermsMove
<1>6. \A n \in Nodes : low[n] <= low'[n]
  <2>1. ASSUME NEW m \in Nodes, BumpOnLead(m)
        PROVE  \A n \in Nodes : low[n] <= low'[n]
    <3>1. PICK c \in Forward(now - MaxOffset, ratchet) .. now : low' = [low EXCEPT ![m] = Forward(@, c)]
      BY Zenon, <2>1 DEF BumpOnLead
    <3>2. c \in Int
      BY ONLY c \in Forward(now - MaxOffset, ratchet) .. now
    <3>3. \A n \in Nodes : low'[n] = IF n = m THEN Forward(low[m], c) ELSE low[n]
      BY Zenon, <3>1 DEF TypeOK
    <3> QED BY ONLY m \in Nodes, <1>2, <3>2, <3>3 DEF Forward
  <2>2. ASSUME NEW q \in Requests, ReadBump(q)
        PROVE  \A n \in Nodes : low[n] <= low'[n]
    <3>1. req[q].ts \in Nat /\ req[q].node \in Nodes
      BY Zenon, RequestValues
    <3>0. /\ low \in [Nodes -> Nat]
          /\ low' = [low EXCEPT ![req[q].node] = Forward(low[req[q].node], req[q].ts)]
      BY Zenon, <2>2 DEF ReadBump, TypeOK
    <3>2. \A n \in Nodes : low'[n] = IF n = req[q].node THEN Forward(low[n], req[q].ts) ELSE low[n]
      BY Zenon, <3>0, <3>1
    <3> QED BY ONLY <1>2, <3>1, <3>2 DEF Forward
  <2>3. ASSUME low' = low
        PROVE  \A n \in Nodes : low[n] <= low'[n]
    BY ONLY <1>2, <2>3
  <2> QED BY Zenon, <2>1, <2>2, <2>3, CacheMoves
<1> QED BY Zenon, <1>3, <1>4, <1>5, <1>6

\* No step stamps anything in the future.
LEMMA ClocksStep ==
  ASSUME TypeOK, Leaders, Clocks, [Next]_vars
  PROVE  Clocks'
<1> DEFINE Kept(q) ==
      \/ req'[q].begin = req[q].begin /\ req'[q].ts = req[q].ts /\ (IsRead(q)' => IsRead(q))
      \/ req'[q].begin = commit /\ req'[q].ts <= now
      \/ req'[q].begin = req[q].begin /\ ~IsRead(q)'
<1>1. /\ now \in Nat /\ heard \in Nat /\ ratchet \in Nat /\ commit \in Nat
      /\ \A q \in Requests : req[q].ts \in Nat /\ req[q].begin \in Nat
      /\ heard <= now /\ ratchet <= now
  BY Zenon, Scalars, RequestValues DEF Clocks
<1>2. now' \in Nat /\ commit' \in Nat /\ now <= now' /\ commit <= commit'
  <2>1. now' \in Nat /\ commit' \in 1 .. Len(log')
    BY Zenon, TypeStep DEF TypeOK
  <2>2. commit' \in Nat
    BY ONLY <2>1
  <2> QED BY Zenon, <2>1, <2>2, Monotone
<1>3. heard' <= now' /\ ratchet' <= now'
  <2>1. ASSUME NEW q \in Requests, ReadIndex(q)
        PROVE  heard' <= now' /\ ratchet' <= now'
    <3>1. req[q].ts <= now
      BY Zenon, <2>1 DEF Clocks, IsRead, ReadIndex
    <3>2. /\ now' = now
          /\ heard' = heard \/ heard' = now
          /\ ratchet' = ratchet \/ ratchet' = Forward(ratchet, req[q].ts)
      BY Zenon, <2>1 DEF ReadIndex
    <3> QED BY ONLY q \in Requests, <1>1, <3>1, <3>2 DEF Forward
  <2>2. \/ \E q \in Requests : ReadIndex(q)
        \/ /\ heard' = heard \/ heard' = now
           /\ ratchet' = ratchet \/ ratchet' = now
    BY ZenonT(40), TimesMove DEF Tick, Answer, Commit, Receive, Transfer, Elect, raft
  <2>3. ASSUME heard' = heard \/ heard' = now, ratchet' = ratchet \/ ratchet' = now
        PROVE  heard' <= now' /\ ratchet' <= now'
    BY ONLY <1>1, <1>2, <2>3
  <2> QED BY Zenon, <2>1, <2>2, <2>3
<1>4. \A q \in Requests : Kept(q)
  <2>1. CASE UNCHANGED req
    BY Zenon, <2>1 DEF IsRead
  <2>2. ASSUME NEW n \in Nodes, StageReady(n)
        PROVE  \A q \in Requests : Kept(q)
    BY Zenon, <2>2, StageReadyEffect DEF Ends, SameHeader, IsRead
  <2>3. ASSUME NEW n \in Nodes, Apply(n)
        PROVE  \A q \in Requests : Kept(q)
    BY Zenon, <2>3, ApplyEffect DEF Ends, SameHeader, IsRead
  <2>4. ASSUME NEW q \in Requests, NEW n \in Nodes, NEW pc \in {"read", "write"}, NEW ts \in 1 .. now,
               Arrive(q, n, pc, ts)
        PROVE  \A x \in Requests : Kept(x)
    <3>0. Arrived(q, pc, ts)
      BY Zenon, <2>4, ArriveMoves
    <3>1. Others(q) /\ req'[q].begin = commit /\ req'[q].ts = ts
      BY Zenon, <3>0 DEF Arrived
    <3>2. req'[q].ts <= now
      BY ONLY <1>1, <3>1, ts \in 1 .. now
    <3> QED BY Zenon, <3>1, <3>2 DEF Others, IsRead
  <2>5. ASSUME NEW q \in Requests,
               ReadBump(q) \/ ReadIndex(q) \/ Evaluate(q) \/ Return(q) \/ Check(q) \/ Propose(q) \/ Cancel(q)
        PROVE  \A x \in Requests : Kept(x)
    <3>1. CASE ReadBump(q)
      BY Zenon, <3>1, ReadBumpEffect DEF Others, SameHeader, IsRead
    <3>2. CASE ReadIndex(q)
      BY Zenon, <3>2, ReadIndexEffect DEF Others, SameHeader, IsRead
    <3>3. CASE Evaluate(q)
      BY Zenon, <3>3, EvaluateEffect DEF Others, SameHeader, IsRead
    <3>4. CASE Return(q)
      BY Zenon, <3>4, ReturnEffect DEF Others, SameHeader, IsRead
    <3>5. CASE Check(q)
      BY Zenon, <3>5, CheckEffect DEF Others, IsRead
    <3>6. CASE Propose(q) \/ Cancel(q)
      BY Zenon, <3>6, ProposeEffect, CancelEffect DEF Others, SameHeader, IsRead
    <3> QED BY ZenonT(40), <2>5, <3>1, <3>2, <3>3, <3>4, <3>5, <3>6
  <2> HIDE DEF Kept
  <2> QED BY Zenon, <2>1, <2>2, <2>3, <2>4, <2>5, RequestsMove
<1>5. \A q \in Requests : req'[q].begin <= commit' /\ (IsRead(q)' => req'[q].ts <= now')
  <2> SUFFICES ASSUME NEW q \in Requests
               PROVE  req'[q].begin <= commit' /\ (IsRead(q)' => req'[q].ts <= now')
    BY Zenon
  <2>1. req[q].begin <= commit /\ (IsRead(q) => req[q].ts <= now) /\ Kept(q)
    BY Zenon, <1>4 DEF Clocks
  <2>2. req'[q].ts \in Nat
    BY Zenon, TypeStep DEF TypeOK, Request
  <2>3. \/ req'[q].begin = req[q].begin \/ req'[q].begin = commit
    BY Zenon, <2>1
  <2>4. IsRead(q)' => (req'[q].ts <= now)
    BY Zenon, <2>1
  <2>5. req'[q].begin <= commit'
    BY ONLY SMTT(30), <1>1, <1>2, <2>1, <2>3, q \in Requests
  <2>6. req'[q].ts <= now => req'[q].ts <= now'
    BY ONLY <1>1, <1>2, <2>2
  <2> QED BY Zenon, <2>4, <2>5, <2>6
<1> QED BY Zenon, <1>3, <1>5 DEF Clocks

\* Every step keeps a majority's answers as old as an election timeout allows.
LEMMA StampsStep ==
  ASSUME TypeOK, Clocks, Stamps, [Next]_vars
  PROVE  Stamps'
<1> SUFFICES ASSUME LeaseReads, LeaseHolds
             PROVE  xfer' = NoNode /\ \A n \in Nodes : Stamped(n, contact[n])' /\ Stamped(n, ans[n])'
  BY Zenon, EnvStays DEF Stamps, LeaseReads, LeaseHolds, Faults
<1>1. ElectionTimeout' = ElectionTimeout /\ ElectionTimeout \in Nat
  BY Zenon, EnvStays, EnvTypes DEF ElectionTimeout
<1>2. now \in Nat /\ heard \in Nat /\ heard <= now
  BY Zenon DEF TypeOK, Clocks
<1>3. /\ xfer = NoNode
      /\ \A n \in Nodes : /\ Stamped(n, contact[n]) /\ Stamped(n, ans[n])
                          /\ contact[n] \in Nat \cup {None} /\ ans[n] \in Nat \cup {None}
  BY Zenon DEF Stamps, TypeOK
<1>4. CASE Tick
  BY Zenon, <1>1, <1>3, <1>4 DEF Tick, raft, lease, Stamped
<1>5. CASE Answer \/ Commit
  <2>1. /\ heard' = now /\ ans' = [ans EXCEPT ![ldr] = now]
        /\ UNCHANGED <<ldr, contact, xfer>>
    BY Zenon, <1>5 DEF Answer, Commit, Answered
  <2>2. \A n \in Nodes : Stamped(n, contact[n])'
    BY ONLY SMTT(30), <1>1, <1>2, <1>3, <2>1 DEF Stamped, None
  <2>3. \A n \in Nodes : ans'[n] = IF n = ldr THEN now ELSE ans[n]
    BY Zenon, <2>1 DEF TypeOK
  <2>4. \A n \in Nodes : Stamped(n, ans[n])'
    BY ONLY SMTT(30), <1>1, <1>2, <1>3, <2>1, <2>3 DEF Stamped, None
  <2> QED BY Zenon, <1>3, <2>1, <2>2, <2>4
<1>6. ASSUME NEW m \in Nodes, Receive(m)
      PROVE  xfer' = NoNode /\ \A n \in Nodes : Stamped(n, contact[n])' /\ Stamped(n, ans[n])'
  <2>1. /\ ans[m] = now /\ ans' = [ans EXCEPT ![m] = None] /\ contact' = [contact EXCEPT ![m] = now]
        /\ UNCHANGED <<ldr, heard, xfer>>
    BY Zenon, <1>6 DEF Receive, raft, LeaseHolds
  <2>2. \A n \in Nodes : /\ contact'[n] = IF n = m THEN now ELSE contact[n]
                         /\ ans'[n] = IF n = m THEN None ELSE ans[n]
    BY Zenon, <2>1 DEF TypeOK
  <2> QED BY ZenonT(40), <1>1, <1>3, <2>1, <2>2 DEF Stamped
<1>7. ASSUME NEW m \in Nodes, Transfer(m)
      PROVE  FALSE
  BY Zenon, <1>7 DEF Transfer, LeaseHolds
<1>8. ASSUME NEW m \in Nodes, Elect(m)
      PROVE  xfer' = NoNode /\ \A n \in Nodes : Stamped(n, contact[n])' /\ Stamped(n, ans[n])'
  <2>1. heard' = now /\ ldr' = m /\ xfer' = NoNode /\ UNCHANGED <<ans, contact>>
    BY Zenon, <1>8 DEF Elect, lease
  <2>2. now >= heard + ElectionTimeout
    BY Zenon, <1>3, <1>8, NodesAssumption DEF Elect, NoNode
  <2> QED BY ONLY <1>1, <1>2, <1>3, <2>1, <2>2 DEF Stamped, None
<1>9. ASSUME NEW q \in Requests, ReadIndex(q)
      PROVE  UNCHANGED <<heard, ldr, xfer, ans, contact>>
  BY Zenon, <1>9 DEF ReadIndex, lease
<1>10. CASE UNCHANGED <<heard, ldr, xfer, ans, contact>>
  BY Zenon, <1>1, <1>3, <1>10 DEF Stamped
<1>11. ASSUME NEW m \in Nodes, Hear(m) \/ StageReady(m)
       PROVE  UNCHANGED <<heard, ldr, xfer, ans, contact>>
  BY Zenon, <1>11 DEF Hear, StageReady, raft, lease
<1> QED BY ZenonT(40), <1>4, <1>5, <1>6, <1>7, <1>8, <1>9, <1>10, <1>11, TimesMove, TermsMove
----------------------------------------------------------------------------
(***************************************************************************)
(* Reads see what they have to.                                            *)
(***************************************************************************)
LEMMA SeenStep ==
  ASSUME TypeOK, Leaders, Ordered, Clocks, Stamps, Seen, [Next]_vars
  PROVE  Seen'
<1> SUFFICES ASSUME LeaseHolds, NEW q \in Requests
             PROVE  CanSee(q)' /\ Sees(q)'
  BY Zenon, EnvStays DEF Seen, LeaseReads, LeaseHolds, Faults
<1> DEFINE n == req[q].node
<1>1. CanSee(q) /\ Sees(q)
  BY Zenon DEF Seen
<1>2. /\ n \in Nodes /\ req[q].begin \in Nat /\ req[q].idx \in Nat /\ req[q].begin <= commit
      /\ commit \in Nat /\ commit <= Len(log) /\ Len(log) \in Nat
      /\ known[n] \in Nat /\ known[n] <= commit /\ applied[n] \in Nat /\ applied[n] <= known[n]
      /\ term \in Nat /\ rterm[n] \in Nat
      /\ \A i \in 1 .. Len(log) : log[i].term \in Nat
  <2>1. PICK m \in Nodes : m = n
    BY Zenon, RequestValues
  <2>2. /\ known[m] \in Nat /\ known[m] <= commit /\ applied[m] \in Nat /\ applied[m] <= known[m]
        /\ rterm[m] \in Nat
    BY Zenon, NodeValues DEF Ordered
  <2> QED BY ZenonT(40), <2>1, <2>2, Scalars, RequestValues, EntryValues DEF Clocks, Positions
<1>3. LeaseReads' = LeaseReads
  BY Zenon, EnvStays DEF LeaseReads
<1>4. CASE req'[q] = req[q]
  <2>1. Sees(q)'
    BY Zenon, <1>1, <1>4 DEF Sees
  <2>2. CASE UNCHANGED <<log, known, rterm>>
    BY ZenonT(40), <1>1, <1>3, <1>4, <2>1, <2>2 DEF CanSee
  <2>3. CASE req[q].begin <= known'[n]
    BY Zenon, <1>4, <2>1, <2>3 DEF CanSee
  <2>4. ASSUME known'[n] = known[n], \A i \in 1 .. known[n] : log'[i] = log[i], rterm'[n] = rterm[n]
        PROVE  CanSee(q)'
    BY ZenonT(40), <1>1, <1>3, <1>4, <2>4 DEF CanSee
  <2>5. ASSUME known'[n] = known[n], \A i \in 1 .. known[n] : log'[i] = log[i], rterm'[n] > rterm[n],
               rterm'[n] \in Nat
        PROVE  CanSee(q)'
    <3>1. \A i \in 1 .. known[n] : log[i].term <= rterm[n]
      BY Zenon, <1>2 DEF Ordered
    <3>2. \A i \in 1 .. known[n] : i \in 1 .. Len(log)
      BY ONLY SMTT(30), <1>2
    <3>3. \A i \in 1 .. known'[n] : log'[i].term # rterm'[n]
      BY ONLY SMTT(30), <1>2, <2>5, <3>1, <3>2
    <3> QED BY Zenon, <1>4, <3>3 DEF CanSee
  <2>6. ASSUME NEW m \in Nodes, Elect(m)
        PROVE  CanSee(q)'
    <3>1. PICK p \in commit .. Len(log) : log' = Append(SubSeq(log, 1, p), Noop(term + 1))
      BY ZenonT(40), <2>6 DEF Elect
    <3>0. p \in Nat /\ commit <= p
      BY ONLY SMTT(30), <1>2, <3>1
    <3>2. \A i \in 1 .. known[n] : log'[i] = log[i]
      <4>1. \A i \in 1 .. p : log'[i] = log[i]
        BY ZenonT(40), <3>1, ElectedLog
      <4> QED BY ONLY <1>2, <3>0, <4>1
    <3>3. known' = known /\ (rterm'[n] = rterm[n] \/ rterm'[n] = term + 1)
      BY ZenonT(40), <1>2, <2>6 DEF Elect, lag, TypeOK
    <3>4. rterm[n] <= term
      BY ZenonT(40), <1>2 DEF Leaders
    <3>5. term + 1 > rterm[n] /\ term + 1 \in Nat
      BY ONLY <1>2, <3>4
    <3> QED BY Zenon, <2>4, <2>5, <3>2, <3>3, <3>5
  <2>7. ASSUME NEW m \in Nodes, Hear(m)
        PROVE  CanSee(q)'
    <3>1. /\ known' = known /\ log' = log
          /\ rterm'[n] = rterm[n] \/ (rterm'[n] = term /\ rterm[n] < term)
      BY ZenonT(40), <1>2, <2>7 DEF Hear, lag, TypeOK
    <3>2. rterm[n] < term => term > rterm[n]
      BY ONLY <1>2
    <3> QED BY ZenonT(40), <1>2, <2>4, <2>5, <3>1, <3>2
  <2>8. ASSUME NEW x \in Requests, Propose(x)
        PROVE  CanSee(q)'
    <3>1. known' = known /\ rterm' = rterm
      BY Zenon, <2>8 DEF Propose, lag
    <3>2. [term |-> term, req |-> x, ts |-> req[x].ts] \in Entry
      BY Zenon DEF TypeOK, Entry, Request
    <3>3. \A i \in 1 .. Len(log) : log'[i] = log[i]
      BY ZenonT(40), <2>8, <3>2, ProposedLog DEF Propose, Positions
    <3>4. \A i \in 1 .. known[n] : i \in 1 .. Len(log)
      BY ONLY <1>2
    <3> QED BY ZenonT(40), <2>4, <3>1, <3>3, <3>4
  <2>9. CASE Commit
    <3>1. known' = [known EXCEPT ![ldr] = Len(log)] /\ log' = log /\ rterm' = rterm
      BY Zenon, <2>9 DEF Commit
    <3>2. known'[n] = known[n] \/ known'[n] = Len(log)
      BY ZenonT(40), <1>2, <3>1 DEF TypeOK
    <3>3. known'[n] = Len(log) => req[q].begin <= known'[n]
      BY ONLY <1>2
    <3> QED BY ZenonT(40), <2>1, <2>3, <2>4, <3>1, <3>2, <3>3
  <2>10. ASSUME NEW m \in Nodes, Learn(m)
         PROVE  CanSee(q)'
    <3>1. known' = [known EXCEPT ![m] = commit] /\ log' = log /\ rterm' = rterm
      BY Zenon, <2>10 DEF Learn, raft
    <3>2. known'[n] = known[n] \/ known'[n] = commit
      BY ZenonT(40), <1>2, <3>1 DEF TypeOK
    <3> QED BY ZenonT(40), <1>2, <2>3, <2>4, <3>1, <3>2
  <2>11. ASSUME NEW m \in Nodes, StageReady(m) \/ Apply(m)
         PROVE  UNCHANGED <<log, known, rterm>>
    BY Zenon, <2>11 DEF StageReady, Apply, raft, lag
  <2>12. CanSee(q)'
    BY ZenonT(40), <2>2, <2>6, <2>7, <2>8, <2>9, <2>10, <2>11, LogMoves, KnownMoves, TermsMove
  <2> QED BY Zenon, <2>1, <2>12
<1>5. ASSUME ReadBump(q) PROVE CanSee(q)' /\ Sees(q)'
  <2>1. /\ UNCHANGED <<log, known, rterm, commit>>
        /\ req'[q].pc = "bumped" => (LeaseReads => leaseContactFresh(n))
    BY Zenon, <1>5, ReadBumpEffect DEF ReadBump, raft, lag
  <2>2. req'[q].node = n /\ req'[q].begin = req[q].begin /\ req'[q].pc \in {"failed", "bumped"}
    BY Zenon, <1>5, ReadBumpEffect DEF SameHeader
  <2>3. Sees(q)'
    BY Zenon, <2>2 DEF Sees
  <2>4. ASSUME LeaseReads, req'[q].pc = "bumped", NEW i \in 1 .. known[n], log[i].term = rterm[n]
        PROVE  req[q].begin <= known[n]
    <3>1. leaseContactFresh(n)
      BY Zenon, <2>1, <2>4
    <3>2. n = ldr
      BY Zenon, <1>2, <2>4, <3>1, FreshLeads
    <3>3. rterm[n] = term
      BY Zenon, <3>2 DEF Leaders
    <3>4. i \in 1 .. commit
      BY ONLY <1>2, i \in 1 .. known[n]
    <3>5. known[ldr] = commit
      BY Zenon, <2>4, <3>3, <3>4 DEF Ordered
    <3> QED BY Zenon, <1>2, <3>2, <3>5
  <2> QED BY ZenonT(40), <1>3, <2>1, <2>2, <2>3, <2>4 DEF CanSee
<1>6. ASSUME ReadIndex(q) PROVE CanSee(q)' /\ Sees(q)'
  <2>1. req'[q].pc = "indexed" /\ req'[q].idx = known[n] /\ req'[q].begin = req[q].begin
    BY Zenon, <1>6, ReadIndexEffect DEF SameHeader
  <2>2. CASE LeaseReads
    <3>1. PICK i \in 1 .. applied[n] : log[i].term = rterm[n]
      BY ZenonT(40), <1>6, <2>2 DEF ReadIndex, OwnTermApplied
    <3>2. i \in 1 .. known[n]
      BY ONLY <1>2, i \in 1 .. applied[n]
    <3>3. req[q].begin <= known[n]
      BY ZenonT(40), <1>1, <1>6, <2>2, <3>1, <3>2 DEF CanSee, ReadIndex
    <3> QED BY Zenon, <2>1, <3>3 DEF CanSee, Sees
  <2>3. CASE ~LeaseReads
    <3>1. n = ldr /\ log[known[n]].term = rterm[n]
      BY Zenon, <1>6, <2>3 DEF ReadIndex
    <3>2. rterm[n] = term /\ known[n] \in 1 .. commit
      BY ZenonT(40), <1>2, <3>1 DEF Leaders, TypeOK
    <3>3. known[n] = commit
      BY Zenon, <3>1, <3>2 DEF Ordered
    <3> QED BY Zenon, <1>2, <2>1, <3>3 DEF CanSee, Sees
  <2> QED BY Zenon, <2>2, <2>3
<1>7. ASSUME Evaluate(q) PROVE CanSee(q)' /\ Sees(q)'
  <2>1. /\ req'[q].pc = "evaluated" /\ req'[q].idx = applied[n] /\ req'[q].begin = req[q].begin
        /\ applied[n] >= req[q].idx /\ req[q].pc = "indexed"
    BY Zenon, <1>7, EvaluateEffect DEF Evaluate, SameHeader
  <2>2. req[q].begin <= req[q].idx
    BY ZenonT(40), <1>1, <2>1 DEF Sees
  <2>3. req[q].begin <= applied[n]
    BY ONLY <1>2, <2>1, <2>2
  <2> QED BY Zenon, <2>1, <2>3 DEF CanSee, Sees
<1>8. ASSUME Return(q) PROVE CanSee(q)' /\ Sees(q)'
  <2>1. /\ req'[q].pc \in {"failed", "served"} /\ req'[q].idx = req[q].idx /\ req'[q].begin = req[q].begin
        /\ req[q].pc = "evaluated"
    BY ZenonT(40), <1>8, ReturnEffect DEF SameHeader
  <2> QED BY Zenon, <1>1, <2>1 DEF CanSee, Sees
<1>9. ASSUME req'[q].pc \in {"read", "write", "checked", "proposed", "written", "failed"}
      PROVE  CanSee(q)' /\ Sees(q)'
  BY Zenon, <1>9 DEF CanSee, Sees
<1>10. ASSUME NEW m \in Nodes, StageReady(m) \/ Apply(m)
       PROVE  req'[q] = req[q] \/ req'[q].pc \in {"written", "failed"}
  BY ZenonT(40), <1>10, StageReadyEffect, ApplyEffect
<1>11. ASSUME NEW x \in Requests,
              \/ \E m \in Nodes, pc \in {"read", "write"}, ts \in 1 .. now : Arrive(x, m, pc, ts)
              \/ Check(x) \/ Propose(x) \/ Cancel(x)
       PROVE  req'[q] = req[q] \/ req'[q].pc \in {"read", "write", "checked", "proposed", "failed"}
  <2>1. CASE x = q
    BY ZenonT(40), <1>11, <2>1, ArriveEffect, CheckEffect, ProposeEffect, CancelEffect
  <2>2. CASE x # q
    BY Zenon, <1>11, <2>2, ArriveEffect, CheckEffect, ProposeEffect, CancelEffect DEF Others
  <2> QED BY Zenon, <2>1, <2>2
<1>12. ASSUME NEW x \in Requests, x # q, ReadBump(x) \/ ReadIndex(x) \/ Evaluate(x) \/ Return(x)
       PROVE  req'[q] = req[q]
  BY ZenonT(40), <1>12, ReadBumpEffect, ReadIndexEffect, EvaluateEffect, ReturnEffect DEF Others
<1> QED BY ZenonT(40), <1>4, <1>5, <1>6, <1>7, <1>8, <1>9, <1>10, <1>11, <1>12, RequestsMove

\* A behaviour starts with everything in order.
LEMMA ReadInit == Init => ReadInv
<1> SUFFICES ASSUME Init PROVE ReadInv
  OBVIOUS
<1>1. TypeOK
  BY Zenon, TypeInit
<1>2. Len(log) = 1 /\ log[1] = Noop(1) /\ Noop(1).term = 1 /\ Noop(1).req = NoReq
  BY Zenon DEF Init, Noop
<1>3. \A q \in Requests : req[q].pc = "idle" /\ req[q].begin = 0
  BY Zenon DEF Init, Idle
<1>0. \A i \in 1 .. 1 : i = 1
  BY ONLY TRUE
<1>4. Leaders
  <2>1. 1 <= 1
    BY ONLY TRUE
  <2> QED BY Zenon, <2>1, NodesAssumption DEF Init, Leaders
<1>5. Ordered
  <2>1. 1 <= 1
    BY ONLY TRUE
  <2>2. /\ term = 1 /\ commit = 1 /\ ldr \in Nodes
        /\ \A n \in Nodes : known[n] = 1 /\ applied[n] = 1 /\ rterm[n] = 1
    BY Zenon, NodesAssumption DEF Init
  <2> QED BY ZenonT(40), <1>0, <1>2, <2>1, <2>2 DEF Ordered, Positions
<1>6. Once
  BY ZenonT(40), <1>0, <1>2, <1>3, NodesAssumption DEF Once, Positions
<1>7. Clocks
  <2>1. 1 <= 1 /\ 0 <= 1
    BY ONLY TRUE
  <2> QED BY Zenon, <1>3, <2>1 DEF Init, Clocks, IsRead
<1>8. Stamps
  <2>1. 1 <= 1
    BY ONLY TRUE
  <2> QED BY Zenon, <2>1 DEF Init, Stamps, Stamped
<1>9. Seen
  BY Zenon, <1>3 DEF Seen, CanSee, Sees
<1> QED BY ZenonT(40), <1>1, <1>4, <1>5, <1>6, <1>7, <1>8, <1>9 DEF ReadInv

\* The invariant of reads is inductive.
LEMMA ReadStep == ReadInv /\ [Next]_vars => ReadInv'
BY ZenonT(40), TypeStep, LeadersStep, OrderedStep, OnceStep, ClocksStep, StampsStep, SeenStep DEF ReadInv

\* Types are kept by every step of the replicas and of their raft group.
THEOREM TypeCorrect == Spec => []TypeOK
<1>1. TypeOK /\ [Next]_vars => TypeOK'
  BY Zenon, TypeStep
<1> QED BY TypeInit, <1>1, PTL DEF Spec

\* Reads are linearizable whichever replica serves them, by lease
\* (leaseReadIndex) or by a quorum round, and an acknowledged write is
\* committed, once: for any number of replicas, requests and elections.
THEOREM ReadsLinearize == Spec => []Linearizable
<1>1. ReadInv => Linearizable
  <2> SUFFICES ASSUME ReadInv PROVE Linearizable
    BY Zenon
  <2>1. ASSUME LeaseHolds, NEW r \in Served, NEW i \in 1 .. req[r].begin
        PROVE  i <= req[r].idx
    <3>1. r \in Requests /\ req[r].pc = "served"
      BY Zenon DEF Served
    <3>2. req[r].begin <= req[r].idx
      BY Zenon, <2>1, <3>1 DEF ReadInv, Seen, Sees
    <3>3. req[r].begin \in Nat /\ req[r].idx \in Nat
      BY Zenon, <3>1 DEF ReadInv, TypeOK, Request
    <3> QED BY ONLY <3>2, <3>3, i \in 1 .. req[r].begin
  <2>2. ASSUME NEW q \in Requests, req[q].pc = "written"
        PROVE  Cardinality({i \in 1 .. commit : log[i].req = q}) = 1
    <3>1. PICK i \in 1 .. commit : log[i].req = q
      BY Zenon, <2>2 DEF ReadInv, Once
    <3>2. commit \in Nat /\ commit <= Len(log) /\ Len(log) \in Nat
      BY Zenon, Scalars DEF ReadInv
    <3>3. q # NoReq
      BY Zenon, NodesAssumption
    <3>0. \A j \in 1 .. commit : j \in 1 .. Len(log)
      BY ONLY <3>2
    <3>4. \A j \in 1 .. commit : log[j].req = q => j = i
      BY Zenon, <3>0, <3>1, <3>3 DEF ReadInv, Once, Positions
    <3>5. {j \in 1 .. commit : log[j].req = q} = {i}
      BY Zenon, <3>1, <3>4
    <3> QED BY Zenon, <3>5, FS_Singleton
  <2> QED BY Zenon, <2>1, <2>2 DEF Linearizable
<1> QED BY ReadInit, ReadStep, <1>1, PTL DEF Spec
----------------------------------------------------------------------------
(***************************************************************************)
(* Latches, the cache and proposals in flight.                             *)
(***************************************************************************)
LEMMA ExclusiveStep ==
  ASSUME TypeOK, Exclusive, [Next]_vars
  PROVE  Exclusive'
<1> DEFINE Same(x) == LatchHeld(x)' => LatchHeld(x) /\ req'[x].node = req[x].node /\ (IsRead(x) => IsRead(x)')
<1>1. ASSUME \A x \in Requests : Same(x)
      PROVE  Exclusive'
  BY Zenon, <1>1 DEF Exclusive
<1>2. ASSUME NEW q \in Requests, ReadBump(q) \/ Check(q)
      PROVE  Exclusive'
  <2>1. \A x \in Requests : req'[x].node = req[x].node /\ (x # q => req'[x] = req[x])
    BY ZenonT(40), <1>2, ReadBumpEffect, CheckEffect DEF Others, SameHeader
  <2>2. \A x \in Requests : x # q => LatchHeld(x)' = LatchHeld(x) /\ IsRead(x)' = IsRead(x)
    BY Zenon, <2>1 DEF LatchHeld, IsRead
  <2>3. CASE ReadBump(q)
    <3>1. LatchHeld(q)' => IsRead(q)'
      BY Zenon, <2>3, ReadBumpEffect DEF LatchHeld, IsRead
    <3>2. \A x \in Requests : x # q /\ LatchHeld(x) /\ req[x].node = req[q].node => IsRead(x)
      BY Zenon, <2>3 DEF ReadBump, Free
    <3> QED BY ZenonT(40), <2>1, <2>2, <3>1, <3>2 DEF Exclusive
  <2>4. CASE Check(q)
    <3>1. \A x \in Requests : ~(x # q /\ LatchHeld(x) /\ req[x].node = req[q].node)
      BY Zenon, <2>4 DEF Check, Free
    <3> QED BY ZenonT(40), <2>1, <2>2, <3>1 DEF Exclusive
  <2> QED BY ZenonT(40), <1>2, <2>3, <2>4
<1>3. ASSUME NEW n \in Nodes, StageReady(n)
      PROVE  \A x \in Requests : Same(x)
  BY Zenon, <1>3, StageReadyEffect DEF Ends, LatchHeld, IsRead
<1>4. ASSUME NEW n \in Nodes, Apply(n)
      PROVE  \A x \in Requests : Same(x)
  BY Zenon, <1>4, ApplyEffect DEF Ends, LatchHeld, IsRead
<1>5. ASSUME NEW q \in Requests, NEW n \in Nodes, NEW pc \in {"read", "write"}, NEW ts \in 1 .. now,
             Arrive(q, n, pc, ts)
      PROVE  \A x \in Requests : Same(x)
  <2>0. Arrived(q, pc, ts)
    BY Zenon, <1>5, ArriveMoves
  <2>1. Others(q) /\ req'[q].pc = pc
    BY Zenon, <2>0 DEF Arrived
  <2> QED BY Zenon, <2>1 DEF Others, LatchHeld, IsRead
<1>6. ASSUME NEW q \in Requests, ReadIndex(q) \/ Evaluate(q) \/ Return(q) \/ Propose(q) \/ Cancel(q)
      PROVE  \A x \in Requests : Same(x)
  <2>1. CASE ReadIndex(q)
    BY Zenon, <2>1, ReadIndexEffect DEF Others, SameHeader, LatchHeld, IsRead
  <2>2. CASE Evaluate(q)
    BY Zenon, <2>2, EvaluateEffect DEF Others, SameHeader, LatchHeld, IsRead
  <2>3. CASE Return(q)
    BY Zenon, <2>3, ReturnEffect DEF Others, SameHeader, LatchHeld, IsRead
  <2>4. CASE Propose(q)
    BY Zenon, <2>4, ProposeEffect DEF Others, SameHeader, LatchHeld, IsRead
  <2>5. CASE Cancel(q)
    BY Zenon, <2>5, CancelEffect DEF Others, SameHeader, LatchHeld, IsRead
  <2> QED BY ZenonT(40), <1>6, <2>1, <2>2, <2>3, <2>4, <2>5
<1>7. CASE UNCHANGED req
  BY Zenon, <1>7 DEF Exclusive, LatchHeld, IsRead
<1> HIDE DEF Same
<1> QED BY ZenonT(40), <1>1, <1>2, <1>3, <1>4, <1>5, <1>6, <1>7, RequestsMove

\* Every step keeps reads in the cache of the replica that serves them.
LEMMA RememberedStep ==
  ASSUME TypeOK, Leaders, Clocks, Remembered, [Next]_vars
  PROVE  Remembered'
<1> SUFFICES ASSUME NEW q \in Requests
             PROVE  /\ req'[q].pc \in {"bumped", "indexed", "evaluated", "served"} =>
                         req'[q].ts <= low'[req'[q].node]
                    /\ req'[q].pc = "checked" => req'[q].term <= mterm'[req'[q].node]
  BY Zenon DEF Remembered
<1> DEFINE n == req[q].node
<1>1. /\ n \in Nodes /\ req[q].ts \in Nat /\ req[q].term \in Nat
      /\ low[n] \in Nat /\ low'[n] \in Nat /\ mterm[n] \in Nat /\ mterm'[n] \in Nat
  BY Zenon, TypeStep DEF TypeOK, Request
<1>2. low[n] <= low'[n] /\ mterm[n] <= mterm'[n]
  BY Zenon, <1>1, Monotone
<1>3. /\ req[q].pc \in {"bumped", "indexed", "evaluated", "served"} => req[q].ts <= low[n]
      /\ req[q].pc = "checked" => req[q].term <= mterm[n]
  BY Zenon DEF Remembered
<1>4. ASSUME req'[q].node = n, req'[q].ts = req[q].ts, req'[q].term = req[q].term,
             \/ req'[q].pc = req[q].pc
             \/ req'[q].pc \in {"indexed", "evaluated", "served"} /\ req[q].pc \in {"bumped", "indexed", "evaluated"}
      PROVE  /\ req'[q].pc \in {"bumped", "indexed", "evaluated", "served"} =>
                  req'[q].ts <= low'[req'[q].node]
             /\ req'[q].pc = "checked" => req'[q].term <= mterm'[req'[q].node]
  <2>1. req[q].ts <= low[n] => req'[q].ts <= low'[req'[q].node]
    BY ONLY SMTT(30), <1>1, <1>2, <1>4
  <2>2. req[q].term <= mterm[n] => req'[q].term <= mterm'[req'[q].node]
    BY ONLY <1>1, <1>2, <1>4
  <2> QED BY ZenonT(40), <1>3, <1>4, <2>1, <2>2
<1>5. CASE req'[q] = req[q]
  BY Zenon, <1>4, <1>5
<1>6. CASE req'[q].pc \in {"read", "write", "proposed", "written", "failed"}
  BY Zenon, <1>6
<1>7. ASSUME NEW m \in Nodes, StageReady(m) \/ Apply(m)
      PROVE  req'[q] = req[q] \/ req'[q].pc \in {"written", "failed"}
  BY Zenon, <1>7, StageReadyEffect, ApplyEffect
<1>8. ASSUME NEW x \in Requests,
             \/ \E m \in Nodes, pc \in {"read", "write"}, ts \in 1 .. now : Arrive(x, m, pc, ts)
             \/ Propose(x) \/ Cancel(x)
      PROVE  req'[q] = req[q] \/ req'[q].pc \in {"read", "write", "proposed", "failed"}
  <2>0. ASSUME NEW m \in Nodes, NEW pc \in {"read", "write"}, NEW ts \in 1 .. now, Arrive(q, m, pc, ts)
        PROVE  req'[q].pc \in {"read", "write", "proposed", "failed"}
    <3>1. Arrived(q, pc, ts)
      BY Zenon, <2>0, ArriveMoves
    <3> QED BY Zenon, <3>1 DEF Arrived
  <2>1. CASE x = q
    BY ZenonT(40), <1>8, <2>0, <2>1, ProposeEffect, CancelEffect
  <2>2. CASE x # q
    BY ZenonT(40), <1>8, <2>2, ArriveEffect, ProposeEffect, CancelEffect DEF Others
  <2> QED BY Zenon, <2>1, <2>2
<1>9. ASSUME NEW x \in Requests, x # q,
             ReadBump(x) \/ ReadIndex(x) \/ Evaluate(x) \/ Return(x) \/ Check(x)
      PROVE  req'[q] = req[q]
  BY ZenonT(40), <1>9, ReadBumpEffect, ReadIndexEffect, EvaluateEffect, ReturnEffect, CheckEffect DEF Others
<1>10. CASE ReadBump(q)
  <2>1. /\ req'[q].pc \in {"bumped", "failed"} /\ req'[q].ts = req[q].ts /\ req'[q].node = n
        /\ low' = [low EXCEPT ![n] = Forward(low[n], req[q].ts)]
    BY ZenonT(40), <1>10, ReadBumpEffect DEF SameHeader
  <2>2. low'[n] = Forward(low[n], req[q].ts)
    BY ZenonT(40), <1>1, <2>1 DEF TypeOK
  <2>3. req'[q].ts <= low'[req'[q].node]
    BY ONLY SMTT(30), <1>1, <2>1, <2>2 DEF Forward
  <2> QED BY Zenon, <2>1, <2>3
<1>11. CASE ReadIndex(q) \/ Evaluate(q) \/ Return(q)
  <2>1. /\ req'[q].node = n /\ req'[q].ts = req[q].ts /\ req'[q].term = req[q].term
        /\ req'[q].pc \in {"indexed", "evaluated", "served", "failed"}
        /\ req[q].pc \in {"bumped", "indexed", "evaluated"}
    BY ZenonT(40), <1>11, ReadIndexEffect, EvaluateEffect, ReturnEffect DEF SameHeader
  <2> QED BY ZenonT(40), <1>4, <1>6, <2>1
<1>12. CASE Check(q)
  <2>1. req'[q].pc = "checked" /\ req'[q].node = n /\ req'[q].term = mterm[n]
    BY ZenonT(40), <1>12, CheckEffect
  <2>2. req'[q].term <= mterm'[req'[q].node]
    BY ONLY <1>1, <1>2, <2>1
  <2> QED BY Zenon, <2>1, <2>2
<1> QED BY ZenonT(40), <1>5, <1>6, <1>7, <1>8, <1>9, <1>10, <1>11, <1>12, RequestsMove

\* Every step keeps a leader's unapplied entries under their latches.
LEMMA LatchedStep ==
  ASSUME TypeOK, Leaders, Ordered, Once, Remembered, Latched, [Next]_vars
  PROVE  Latched'
<1> SUFFICES ASSUME Orderly, NEW n \in Nodes, NEW i \in Positions',
                    rlead'[n], log'[i].term = rterm'[n], log'[i].req # NoReq
             PROVE  /\ mterm'[n] = rterm'[n]
                    /\ applied'[n] < i => req'[log'[i].req].node = n /\ req'[log'[i].req].pc = "proposed"
  BY ZenonT(40), EnvStays DEF Latched, Orderly, Faults
<1> DEFINE Held(x) == req[x].node = n /\ req[x].pc = "proposed"
<1>1. /\ term \in Nat /\ rterm[n] \in Nat /\ mterm[n] \in Nat /\ applied[n] \in Nat /\ Len(log) \in Nat
      /\ i \in Nat
      /\ \A j \in Positions : log[j].term \in Nat /\ log[j].req \in Requests \cup {NoReq}
      /\ mterm[n] <= rterm[n] /\ rterm[n] <= term
  <2>1. i \in Nat
    BY ONLY i \in Positions' DEF Positions
  <2> QED BY Zenon, <2>1, Scalars, NodeValues, EntryValues DEF Leaders
<1>2. ASSUME i \in Positions, rlead[n], log[i].term = rterm[n], log[i].req # NoReq
      PROVE  mterm[n] = rterm[n] /\ (applied[n] < i => Held(log[i].req)) /\ log[i].req \in Requests
  BY Zenon, <1>1, <1>2 DEF Latched
<1>3. ASSUME log' = log, rlead' = rlead, rterm' = rterm, mterm'[n] = mterm[n], applied'[n] = applied[n],
             \A x \in Requests : Held(x) => req'[x] = req[x]
      PROVE  /\ mterm'[n] = rterm'[n]
             /\ applied'[n] < i => req'[log'[i].req].node = n /\ req'[log'[i].req].pc = "proposed"
  BY Zenon, <1>2, <1>3 DEF Positions
<1>4. ASSUME NEW m \in Nodes, Elect(m)
      PROVE  /\ mterm'[n] = rterm'[n]
             /\ applied'[n] < i => req'[log'[i].req].node = n /\ req'[log'[i].req].pc = "proposed"
  <2>1. PICK p \in commit .. Len(log) : log' = Append(SubSeq(log, 1, p), Noop(term + 1))
    BY Zenon, <1>4 DEF Elect
  <2>2. /\ Len(log') = p + 1 /\ p \in Nat /\ p <= Len(log)
        /\ \A j \in 1 .. p : log'[j] = log[j]
        /\ log'[p + 1].req = NoReq
    <3>1. Noop(term + 1).req = NoReq
      BY Zenon DEF Noop
    <3>2. commit \in Nat
      BY Zenon, Scalars
    <3>3. p <= Len(log)
      BY ONLY SMTT(30), <1>1, <2>1, <3>2
    <3> QED BY ZenonT(40), <2>1, <3>1, <3>3, ElectedLog
  <2>3. i \in 1 .. p /\ i \in Positions /\ log'[i] = log[i]
    <3>1. i # p + 1
      BY Zenon, <2>2
    <3>2. i \in 1 .. p /\ i \in 1 .. Len(log)
      BY ONLY SMTT(30), <1>1, <2>2, <3>1, i \in Positions' DEF Positions
    <3> QED BY Zenon, <2>2, <3>2 DEF Positions
  <2>4. UNCHANGED <<mterm, applied, req>>
    BY Zenon, <1>4 DEF Elect, views, lag
  <2>5. n # m
    <3>1. log[i].term <= term
      BY Zenon, <2>3 DEF Ordered
    <3>2. rterm'[m] = term + 1
      BY ZenonT(40), <1>4 DEF Elect, TypeOK
    <3>3. log[i].term = rterm'[n] /\ log[i].term \in Nat
      BY ZenonT(40), <1>1, <2>3
    <3> QED BY ONLY SMTT(30), <1>1, <3>1, <3>2, <3>3
  <2>6. rterm'[n] = rterm[n] /\ rlead'[n] = rlead[n]
    BY ZenonT(40), <1>4, <2>5 DEF Elect, TypeOK
  <2> QED BY ZenonT(40), <1>2, <2>3, <2>4, <2>6
<1>5. ASSUME NEW m \in Nodes, Hear(m)
      PROVE  /\ mterm'[n] = rterm'[n]
             /\ applied'[n] < i => req'[log'[i].req].node = n /\ req'[log'[i].req].pc = "proposed"
  <2>1. UNCHANGED <<log, mterm, applied, req>>
    BY Zenon, <1>5 DEF Hear, views, lag
  <2>2. n # m
    BY ZenonT(40), <1>5 DEF Hear, TypeOK
  <2>3. rterm'[n] = rterm[n] /\ rlead'[n] = rlead[n]
    BY ZenonT(40), <1>5, <2>2 DEF Hear, TypeOK
  <2> QED BY ZenonT(40), <1>2, <2>1, <2>3 DEF Positions
<1>6. ASSUME NEW m \in Nodes, StageReady(m)
      PROVE  /\ mterm'[n] = rterm'[n]
             /\ applied'[n] < i => req'[log'[i].req].node = n /\ req'[log'[i].req].pc = "proposed"
  <2>1. UNCHANGED <<log, rterm, rlead, applied>>
    BY Zenon, <1>6 DEF StageReady, raft, lag
  <2>2. mterm[n] = rterm[n]
    BY Zenon, <1>2, <2>1 DEF Positions
  <2>3. m # n
    BY ZenonT(40), <1>6, <2>2 DEF StageReady, Leaders
  <2>4. mterm'[n] = mterm[n]
    BY ZenonT(40), <1>6, <2>3 DEF StageReady, TypeOK
  <2>5. \A x \in Requests : Held(x) => req'[x] = req[x]
    BY Zenon, <1>6, <2>3 DEF StageReady
  <2> QED BY ZenonT(40), <1>3, <2>1, <2>4, <2>5
<1>7. ASSUME NEW m \in Nodes, Apply(m)
      PROVE  /\ mterm'[n] = rterm'[n]
             /\ applied'[n] < i => req'[log'[i].req].node = n /\ req'[log'[i].req].pc = "proposed"
  <2> DEFINE j == applied[m] + 1
  <2>1. UNCHANGED <<log, rterm, rlead, mterm>> /\ applied' = [applied EXCEPT ![m] = j]
    BY Zenon, <1>7 DEF Apply, raft, views
  <2>2. j \in Positions
    <3>1. /\ applied[m] < known[m] /\ applied[m] \in Nat /\ known[m] \in Nat /\ known[m] <= commit
          /\ commit \in Nat /\ commit <= Len(log)
      BY Zenon, <1>7, NodeValues, Scalars DEF Apply
    <3> QED BY ONLY SMTT(30), <1>1, <3>1 DEF Positions
  <2>3. \A x \in Requests : req'[x] = req[x] \/ (log[j].req = x /\ req[x].node = m)
    BY Zenon, <1>7, ApplyEffect
  <2>4. mterm[n] = rterm[n] /\ (applied[n] < i => Held(log[i].req)) /\ log[i].req \in Requests /\ i \in Positions
    BY Zenon, <1>2, <2>1 DEF Positions
  <2>5. applied'[n] = IF n = m THEN j ELSE applied[n]
    BY Zenon, <2>1 DEF TypeOK
  <2>6. ASSUME applied'[n] < i
        PROVE  Held(log[i].req) /\ req'[log[i].req] = req[log[i].req]
    <3>1. applied[n] < i
      <4>1. n = m => applied'[n] = applied[n] + 1
        BY Zenon, <2>5
      <4>2. n # m => applied'[n] = applied[n]
        BY Zenon, <2>5
      <4> QED BY ONLY SMTT(30), <1>1, <2>6, <4>1, <4>2
    <3>2. Held(log[i].req)
      BY ZenonT(40), <2>4, <3>1
    <3>3. ASSUME log[j].req = log[i].req, req[log[i].req].node = m
          PROVE  FALSE
      <4>1. i = j
        BY ZenonT(40), <2>2, <2>4, <3>3, NodesAssumption DEF Once
      <4>2. n = m
        BY Zenon, <3>2, <3>3
      <4>3. applied'[n] = i
        BY Zenon, <2>5, <4>1, <4>2
      <4> QED BY ONLY SMTT(30), <1>1, <2>6, <4>3
    <3> QED BY ZenonT(40), <2>3, <2>4, <3>2, <3>3
  <2> QED BY Zenon, <2>1, <2>4, <2>6
<1>8. ASSUME NEW q \in Requests, Propose(q)
      PROVE  /\ mterm'[n] = rterm'[n]
             /\ applied'[n] < i => req'[log'[i].req].node = n /\ req'[log'[i].req].pc = "proposed"
  <2>1. /\ UNCHANGED <<rterm, rlead, mterm, applied>> /\ req[q].pc = "checked"
        /\ \A x \in Requests : x # q => req'[x] = req[x]
    BY Zenon, <1>8, ProposeEffect DEF Propose, Others, views, lag
  <2>2. CASE log' = log
    BY ZenonT(40), <1>3, <2>1, <2>2
  <2>3. CASE log' # log
    <3> DEFINE e == [term |-> term, req |-> q, ts |-> req[q].ts]
    <3>1. e \in Entry /\ e.req = q /\ e.term = term
      BY Zenon DEF TypeOK, Entry, Request
    <3>2. /\ log' = Append(log, e) /\ rlead[req[q].node] /\ req[q].node = ldr /\ xfer = NoNode
          /\ req'[q].node = req[q].node /\ req'[q].pc = "proposed"
      <4>1. log' = Append(log, e) /\ rlead[req[q].node] /\ req[q].node = ldr /\ xfer = NoNode
        BY Zenon, <1>8, <2>3 DEF Propose
      <4>2. To(q, "proposed") /\ "proposed" \in Places
        BY Zenon, <1>8, <4>1 DEF Propose, Places
      <4> QED BY ZenonT(40), <4>1, <4>2, ToEffect DEF SameHeader
    <3> HIDE DEF e
    <3>3. /\ Len(log') = Len(log) + 1
          /\ \A j \in Positions : log'[j] = log[j]
          /\ log'[Len(log) + 1] = e
      BY ZenonT(40), <3>1, <3>2, ProposedLog
    <3>4. CASE i \in Positions
      <4>1. log[i].req # q /\ log'[i] = log[i]
        BY Zenon, <2>1, <3>3, <3>4 DEF Once
      <4> QED BY ZenonT(40), <1>2, <2>1, <3>4, <4>1
    <3>5. CASE i = Len(log) + 1
      <4>1. rterm[n] = term /\ n = ldr
        BY ZenonT(40), <2>1, <3>1, <3>3, <3>5 DEF Leaders
      <4>2. req[q].term = rterm[n]
        BY Zenon, <1>8, <3>2, <4>1 DEF Propose, Orderly
      <4>3. req[q].term <= mterm[n]
        BY ZenonT(40), <2>1, <3>2, <4>1 DEF Remembered
      <4>4. mterm[n] = rterm[n]
        BY ONLY SMTT(30), <1>1, <4>2, <4>3
      <4> QED BY ZenonT(40), <2>1, <3>1, <3>2, <3>3, <3>5, <4>1, <4>4
    <3>6. i \in Positions \/ i = Len(log) + 1
      BY ONLY SMTT(30), <1>1, <3>3, i \in Positions' DEF Positions
    <3> QED BY ZenonT(40), <3>4, <3>5, <3>6
  <2> QED BY Zenon, <2>2, <2>3
<1>9. CASE UNCHANGED <<log, rlead, rterm, mterm, applied, req>>
  BY Zenon, <1>3, <1>9
<1>10. ASSUME NEW m \in Nodes, Learn(m)
       PROVE  UNCHANGED <<log, rlead, rterm, mterm, applied, req>>
  BY Zenon, <1>10 DEF Learn, raft, views
<1>11. CASE Commit
  BY Zenon, <1>9, <1>11 DEF Commit, views
<1>12. ASSUME NEW q \in Requests,
              \/ \E m \in Nodes, pc \in {"read", "write"}, ts \in 1 .. now : Arrive(q, m, pc, ts)
              \/ ReadBump(q) \/ ReadIndex(q) \/ Evaluate(q) \/ Return(q) \/ Check(q) \/ Cancel(q)
       PROVE  /\ UNCHANGED <<log, rlead, rterm, mterm, applied>>
              /\ \A x \in Requests : Held(x) => req'[x] = req[x]
  <2>1. UNCHANGED <<log, rlead, rterm, mterm, applied>>
    BY ZenonT(40), <1>12 DEF Arrive, ReadBump, ReadIndex, Evaluate, Return, Check, Cancel, raft, views, lag
  <2>2. req[q].pc # "proposed" /\ \A x \in Requests : x # q => req'[x] = req[x]
    <3>1. CASE Cancel(q)
      BY Zenon, <3>1 DEF Cancel, Orderly
    <3>2. CASE ~Cancel(q)
      BY ZenonT(40), <1>12, <3>2, ArriveEffect, ReadBumpEffect, ReadIndexEffect, EvaluateEffect,
         ReturnEffect, CheckEffect DEF Others
    <3> QED BY Zenon, <3>1, <3>2
  <2> QED BY ZenonT(40), <2>1, <2>2
<1> HIDE DEF Held
<1> QED BY ZenonT(40), <1>3, <1>4, <1>5, <1>6, <1>7, <1>8, <1>9, <1>10, <1>11, <1>12, RequestsMove, LogMoves,
           TermsMove, KnownMoves
----------------------------------------------------------------------------
(***************************************************************************)
(* What a read is promised, step by step.                                  *)
(***************************************************************************)
LEMMA OwedMoves ==
  ASSUME [Next]_vars
  PROVE  UNCHANGED owed \/ \E n \in Nodes : StageReady(n) \/ BumpOnLead(n)
BY ZenonT(40) DEF Next, vars, views, Tick, Answer, Receive, Transfer, Elect, Hear, Commit, Learn, Apply, Arrive,
       ReadBump, ReadIndex, Evaluate, Return, Check, Propose, Cancel

\* Clocks do not fall behind a read they have passed.
LEMMA ClockKept ==
  ASSUME ReadInv, [Next]_vars, NEW r \in Requests, req'[r].ts = req[r].ts, ClockPast(r)
  PROVE  ClockPast(r)'
<1>1. heard <= heard' /\ ratchet <= ratchet'
  BY Zenon, Monotone DEF ReadInv
<1>2. /\ heard \in Nat /\ heard' \in Nat /\ ratchet \in Nat /\ ratchet' \in Nat /\ req[r].ts \in Nat
      /\ ElectionTimeout \in Nat /\ MaxOffset \in Nat
  BY ZenonT(40), EnvTypes, TypeStep DEF ReadInv, TypeOK, Request
<1>3. LeaseReads' = LeaseReads /\ ElectionTimeout' = ElectionTimeout
  BY Zenon, EnvStays DEF LeaseReads, ElectionTimeout
<1>4. req[r].ts + MaxOffset <= heard + ElectionTimeout => req'[r].ts + MaxOffset <= heard' + ElectionTimeout'
  BY ONLY SMTT(30), <1>1, <1>2, <1>3, req'[r].ts = req[r].ts
<1>5. req[r].ts <= ratchet => req'[r].ts <= ratchet'
  BY ONLY SMTT(30), <1>1, <1>2, req'[r].ts = req[r].ts
<1> QED BY Zenon, <1>3, <1>4, <1>5 DEF ClockPast

\* Nor does the leader's cache, through elections and its own bump.
LEMMA CacheKept ==
  ASSUME ReadInv, LeaseHolds, [Next]_vars, NEW r \in Requests, req'[r].ts = req[r].ts,
         ClockPast(r), CachePast(r)
  PROVE  CachePast(r)'
<1>1. /\ ldr \in Nodes /\ ldr' \in Nodes /\ now \in Nat /\ now' \in Nat /\ now <= now' /\ req[r].ts \in Nat
      /\ low[ldr] \in Nat /\ low'[ldr] \in Nat /\ low[ldr] <= low'[ldr]
  BY ZenonT(40), TypeStep, Monotone DEF ReadInv, TypeOK, Request
<1>2. /\ LeaseReads' = LeaseReads /\ ElectionTimeout \in Nat /\ MaxOffset \in Nat
      /\ LeaseReads \in BOOLEAN
  BY Zenon, EnvStays, EnvTypes DEF LeaseReads, ReadInv
<1>3. ASSUME ldr' = ldr, Settled(ldr)' => Settled(ldr)
      PROVE  CachePast(r)'
  <2>1. req[r].ts <= low[ldr] => req'[r].ts <= low'[ldr']
    BY ONLY SMTT(30), <1>1, <1>3, req'[r].ts = req[r].ts
  <2>2. req[r].ts + MaxOffset <= now => req'[r].ts + MaxOffset <= now'
    BY ONLY SMTT(30), <1>1, <1>2, req'[r].ts = req[r].ts
  <2> QED BY ZenonT(40), <1>2, <1>3, <2>1, <2>2 DEF CachePast
<1>4. ASSUME NEW m \in Nodes, Elect(m)
      PROVE  CachePast(r)'
  <2>1. /\ ldr' = m /\ mterm' = mterm /\ now' = now /\ rterm'[m] = term + 1
        /\ now >= heard + ElectionTimeout \/ xfer = m
    BY ZenonT(40), <1>4 DEF Elect, views, ReadInv, TypeOK
  <2>2. /\ mterm[m] \in Nat /\ term \in Nat /\ rterm[m] \in Nat
        /\ mterm[m] <= rterm[m] /\ rterm[m] <= term
    BY ZenonT(40), Scalars, NodeValues DEF ReadInv, Leaders
  <2>3. ~Settled(ldr)'
    <3>1. mterm[m] # term + 1
      BY ONLY <2>2
    <3> QED BY ZenonT(40), <2>1, <3>1 DEF Settled
  <2>4. ASSUME LeaseReads PROVE req[r].ts + MaxOffset <= now
    <3>1. xfer # m
      BY ZenonT(40), <2>4, NodesAssumption DEF ReadInv, Stamps, NoNode
    <3>2. req[r].ts + MaxOffset <= heard + ElectionTimeout /\ heard \in Nat
      BY ZenonT(40), <2>4 DEF ClockPast, ReadInv, TypeOK
    <3>3. now >= heard + ElectionTimeout
      BY Zenon, <2>1, <3>1
    <3> QED BY ONLY SMTT(30), <1>1, <1>2, <3>2, <3>3
  <2>5. LeaseReads => req'[r].ts + MaxOffset <= now'
    BY Zenon, <2>1, <2>4
  <2> QED BY ZenonT(40), <1>2, <2>3, <2>5 DEF CachePast
<1>5. ASSUME NEW m \in Nodes, Hear(m)
      PROVE  CachePast(r)'
  <2>1. ldr' = ldr /\ m # ldr /\ UNCHANGED <<mterm, owed>> /\ rterm'[ldr] = rterm[ldr]
    <3>1. rterm[ldr] = term /\ rterm[m] < term /\ term \in Nat
      BY ZenonT(40), <1>5, Scalars DEF Hear, ReadInv, Leaders
    <3>2. m # ldr
      BY ONLY <3>1
    <3> QED BY ZenonT(40), <1>1, <1>5, <3>2 DEF Hear, views, ReadInv, TypeOK
  <2> QED BY ZenonT(40), <1>3, <2>1 DEF Settled
<1>6. ASSUME NEW m \in Nodes, StageReady(m)
      PROVE  CachePast(r)'
  <2>1. /\ UNCHANGED <<ldr, rterm>> /\ mterm' = [mterm EXCEPT ![m] = rterm[m]]
        /\ owed' = [owed EXCEPT ![m] = rlead[m]]
    BY Zenon, <1>6 DEF StageReady, raft
  <2>2. CASE m = ldr
    <3>1. owed'[ldr]
      BY ZenonT(40), <1>1, <2>1, <2>2 DEF ReadInv, TypeOK, Leaders
    <3> QED BY ZenonT(40), <1>3, <2>1, <3>1 DEF Settled
  <2>3. CASE m # ldr
    <3>1. owed'[ldr] = owed[ldr] /\ mterm'[ldr] = mterm[ldr]
      BY ZenonT(40), <1>1, <2>1, <2>3 DEF ReadInv, TypeOK
    <3> QED BY ZenonT(40), <1>3, <2>1, <3>1 DEF Settled
  <2> QED BY Zenon, <2>2, <2>3
<1>7. ASSUME NEW m \in Nodes, BumpOnLead(m)
      PROVE  CachePast(r)'
  <2>1. /\ UNCHANGED <<ldr, rterm, mterm, now, ratchet>> /\ owed' = [owed EXCEPT ![m] = FALSE]
    BY Zenon, <1>7 DEF BumpOnLead, raft
  <2>2. PICK c \in Forward(now - MaxOffset, ratchet) .. now : low' = [low EXCEPT ![m] = Forward(@, c)]
    BY Zenon, <1>7 DEF BumpOnLead
  <2>3. CASE m # ldr
    <3>1. owed'[ldr] = owed[ldr]
      BY ZenonT(40), <1>1, <2>1, <2>3 DEF ReadInv, TypeOK
    <3> QED BY ZenonT(40), <1>3, <2>1, <3>1 DEF Settled
  <2>4. CASE m = ldr /\ req[r].ts <= low[ldr]
    <3>1. req'[r].ts <= low'[ldr']
      BY ONLY SMTT(30), <1>1, <2>1, <2>4, req'[r].ts = req[r].ts
    <3> QED BY Zenon, <3>1 DEF CachePast
  <2>5. CASE m = ldr /\ ~(req[r].ts <= low[ldr])
    <3>1. ratchet \in Nat
      BY Zenon, Scalars DEF ReadInv
    <3>2. c \in Int /\ now - MaxOffset <= c /\ ratchet <= c
      BY ONLY SMTT(30), <1>1, <1>2, <3>1, c \in Forward(now - MaxOffset, ratchet) .. now DEF Forward
    <3>3. req[r].ts <= c
      <4>1. (LeaseReads /\ req[r].ts + MaxOffset <= now) \/ (~LeaseReads /\ req[r].ts <= ratchet)
        BY Zenon, <2>5 DEF CachePast, ClockPast
      <4>2. req[r].ts + MaxOffset <= now \/ req[r].ts <= ratchet
        BY Zenon, <4>1
      <4> QED BY ONLY SMTT(30), <1>1, <1>2, <3>1, <3>2, <4>2
    <3>4. low'[ldr] = Forward(low[ldr], c)
      BY ZenonT(40), <1>1, <2>2, <2>5 DEF ReadInv, TypeOK
    <3>5. c <= low'[ldr]
      BY ONLY SMTT(30), <1>1, <3>2, <3>4 DEF Forward
    <3>6. req'[r].ts <= low'[ldr']
      BY ONLY SMTT(30), <1>1, <2>1, <3>2, <3>3, <3>5, req'[r].ts = req[r].ts
    <3> QED BY Zenon, <3>6 DEF CachePast
  <2> QED BY ZenonT(40), <2>3, <2>4, <2>5
<1>8. CASE UNCHANGED <<ldr, rterm, mterm, owed>>
  BY ZenonT(40), <1>3, <1>8 DEF Settled
<1> QED BY ZenonT(40), <1>4, <1>5, <1>6, <1>7, <1>8, TermsMove, OwedMoves

\* Which requests come to be checked.
LEMMA ChecksMove ==
  ASSUME TypeOK, [Next]_vars, NEW q \in Requests, req'[q].pc = "checked"
  PROVE  req'[q] = req[q] \/ Check(q)
<1>1. ASSUME NEW m \in Nodes, StageReady(m) \/ Apply(m)
      PROVE  req'[q] = req[q]
  BY ZenonT(40), <1>1, StageReadyEffect, ApplyEffect
<1>2. ASSUME NEW x \in Requests,
             \/ \E m \in Nodes, pc \in {"read", "write"}, ts \in 1 .. now : Arrive(x, m, pc, ts)
             \/ ReadBump(x) \/ ReadIndex(x) \/ Evaluate(x) \/ Return(x) \/ Propose(x) \/ Cancel(x)
      PROVE  req'[q] = req[q]
  <2>1. ASSUME NEW m \in Nodes, NEW pc \in {"read", "write"}, NEW ts \in 1 .. now, Arrive(x, m, pc, ts)
        PROVE  req'[q] = req[q]
    <3>1. Arrived(x, pc, ts)
      BY Zenon, <2>1, ArriveMoves
    <3> QED BY Zenon, <3>1 DEF Arrived, Others
  <2>2. CASE ReadBump(x)
    BY Zenon, <2>2, ReadBumpEffect DEF Others
  <2>3. CASE ReadIndex(x)
    BY Zenon, <2>3, ReadIndexEffect DEF Others
  <2>4. CASE Evaluate(x)
    BY Zenon, <2>4, EvaluateEffect DEF Others
  <2>5. CASE Return(x)
    BY Zenon, <2>5, ReturnEffect DEF Others
  <2>6. CASE Propose(x)
    BY Zenon, <2>6, ProposeEffect DEF Others
  <2>7. CASE Cancel(x)
    BY Zenon, <2>7, CancelEffect DEF Others
  <2> QED BY ZenonT(40), <1>2, <2>1, <2>2, <2>3, <2>4, <2>5, <2>6, <2>7
<1>3. ASSUME NEW x \in Requests, Check(x), x # q
      PROVE  req'[q] = req[q]
  BY Zenon, <1>3, CheckEffect DEF Others
<1> QED BY ZenonT(40), <1>1, <1>2, <1>3, RequestsMove

\* Nor do the writes the leader has checked.
LEMMA ChecksKept ==
  ASSUME ReadInv, Remembered, Orderly, [Next]_vars, NEW r \in Requests, req'[r].ts = req[r].ts,
         CachePast(r), ChecksPast(r)
  PROVE  ChecksPast(r)'
<1> SUFFICES ASSUME NEW q \in Requests, req'[q].pc = "checked", req'[q].node = ldr', req'[q].term = term'
             PROVE  req[r].ts < req'[q].ts
  BY Zenon DEF ChecksPast
<1>1. ASSUME NEW m \in Nodes, Elect(m)
      PROVE  FALSE
  <2>1. req' = req /\ term' = term + 1
    BY Zenon, <1>1 DEF Elect
  <2>2. PICK n \in Nodes : n = req[q].node
    BY Zenon, RequestValues DEF ReadInv
  <2>3. /\ term \in Nat /\ mterm[n] \in Nat /\ rterm[n] \in Nat /\ req[q].term \in Nat
        /\ mterm[n] <= rterm[n] /\ rterm[n] <= term
    BY ZenonT(40), Scalars, NodeValues, RequestValues DEF ReadInv, Leaders
  <2>4. req[q].term <= mterm[n] /\ req[q].term = term + 1
    BY Zenon, <2>1, <2>2 DEF Remembered
  <2> QED BY ONLY <2>3, <2>4
<1>2. ldr' = ldr /\ term' = term
  BY ZenonT(40), <1>1, TermsMove DEF Hear, StageReady, raft
<1>3. CASE req'[q] = req[q]
  BY ZenonT(40), <1>2, <1>3 DEF ChecksPast
<1>4. CASE Check(q)
  <2> DEFINE n == req[q].node
  <2>1. /\ req'[q].ts = (IF low[n] < req[q].ts THEN req[q].ts ELSE low[n] + 1)
        /\ req'[q].node = n /\ mterm[n] = rterm[n] /\ ~owed[n]
    BY ZenonT(40), <1>4, CheckEffect DEF Check, Orderly, ReadInv
  <2>2. n \in Nodes /\ low[n] \in Nat /\ req[q].ts \in Nat /\ req[r].ts \in Nat
    BY Zenon DEF ReadInv, TypeOK, Request
  <2>3. req[r].ts <= low[n]
    BY Zenon, <1>2, <2>1 DEF CachePast, Settled
  <2> QED BY ONLY SMTT(30), <2>1, <2>2, <2>3
<1> QED BY ZenonT(40), <1>3, <1>4, ChecksMove DEF ReadInv

\* Nor do the entries of the log.
LEMMA LogKept ==
  ASSUME ReadInv, Orderly, [Next]_vars, NEW r \in Requests, req'[r] = req[r],
         ChecksPast(r), LogPast(r)
  PROVE  LogPast(r)'
<1> DEFINE n == req[r].node
<1>1. /\ n \in Nodes /\ rterm[n] \in Nat /\ rterm'[n] \in Nat /\ rterm[n] <= rterm'[n]
      /\ req[r].ts \in Nat /\ Len(log) \in Nat /\ Len(log') \in Nat
      /\ \A i \in Positions : log[i].term \in Nat
  <2>0. TypeOK /\ TypeOK'
    BY Zenon, TypeStep DEF ReadInv
  <2>1. log' \in Seq(Entry)
    BY ZenonT(40), <2>0 DEF TypeOK
  <2>2. Len(log') \in Nat
    BY ONLY <2>1
  <2>3. n \in Nodes
    BY ZenonT(40), <2>0, RequestValues
  <2>4. rterm[n] \in Nat /\ rterm'[n] \in Nat
    BY ZenonT(40), <2>0, <2>3 DEF TypeOK
  <2>5. rterm[n] <= rterm'[n]
    BY Zenon, <2>3, Monotone DEF ReadInv
  <2> QED BY ZenonT(40), <2>0, <2>2, <2>3, <2>4, <2>5, Scalars, RequestValues, EntryValues
<1>2. ASSUME NEW i \in Positions', i \in Positions, log'[i] = log[i],
             log'[i].req # NoReq, log'[i].ts <= req[r].ts
      PROVE  IF req[r].pc = "bumped" THEN log'[i].term <= rterm'[n] ELSE i <= req[r].idx
  <2>1. /\ req[r].pc = "bumped" => log[i].term <= rterm[n]
        /\ req[r].pc # "bumped" => i <= req[r].idx
    BY ZenonT(40), <1>2 DEF LogPast
  <2>2. log[i].term <= rterm[n] => log'[i].term <= rterm'[n]
    BY ONLY SMTT(30), <1>1, <1>2
  <2> QED BY Zenon, <2>1, <2>2
<1>3. SUFFICES ASSUME NEW i \in Positions', log'[i].req # NoReq, log'[i].ts <= req[r].ts
               PROVE  i \in Positions /\ log'[i] = log[i]
  BY Zenon, <1>2 DEF LogPast
<1>4. CASE UNCHANGED <<log, commit>>
  BY Zenon, <1>4 DEF Positions
<1>5. CASE Commit
  BY Zenon, <1>5 DEF Commit, Positions
<1>6. ASSUME NEW m \in Nodes, Elect(m)
      PROVE  i \in Positions /\ log'[i] = log[i]
  <2>1. PICK p \in commit .. Len(log) : log' = Append(SubSeq(log, 1, p), Noop(term + 1))
    BY Zenon, <1>6 DEF Elect
  <2>2. /\ Len(log') = p + 1 /\ p \in Nat /\ p <= Len(log)
        /\ \A j \in 1 .. p : log'[j] = log[j]
        /\ log'[p + 1].req = NoReq
    <3>1. Noop(term + 1).req = NoReq
      BY Zenon DEF Noop
    <3>2. commit \in Nat
      BY ZenonT(40), Scalars DEF ReadInv
    <3>3. p <= Len(log)
      BY ONLY <1>1, <2>1, <3>2
    <3> QED BY ZenonT(40), <2>1, <3>1, <3>3, ElectedLog DEF ReadInv
  <2>3. i # p + 1
    BY ZenonT(40), <1>3, <2>2
  <2>4. i \in 1 .. p /\ i \in Positions
    BY ONLY SMTT(30), <1>1, <2>2, <2>3, i \in Positions' DEF Positions
  <2> QED BY Zenon, <2>2, <2>4
<1>7. ASSUME NEW q \in Requests, Propose(q)
      PROVE  i \in Positions /\ log'[i] = log[i]
  <2>1. CASE log' = log
    BY Zenon, <2>1 DEF Positions
  <2>2. CASE log' # log
    <3> DEFINE e == [term |-> term, req |-> q, ts |-> req[q].ts]
    <3>1. e \in Entry /\ e.ts = req[q].ts
      BY Zenon DEF ReadInv, TypeOK, Entry, Request
    <3>2. log' = Append(log, e) /\ rlead[ldr] /\ req[q].node = ldr /\ req[q].pc = "checked"
      BY Zenon, <1>7, <2>2 DEF Propose
    <3>3. req[q].term = term
      BY ZenonT(40), <1>7, <3>2 DEF Propose, Orderly, ReadInv, Leaders
    <3>4. req[r].ts < req[q].ts /\ req[q].ts \in Nat
      BY ZenonT(40), <3>2, <3>3 DEF ChecksPast, ReadInv, TypeOK, Request
    <3> HIDE DEF e
    <3>5. /\ Len(log') = Len(log) + 1
          /\ \A j \in Positions : log'[j] = log[j]
          /\ log'[Len(log) + 1] = e
      BY ZenonT(40), <3>1, <3>2, ProposedLog DEF ReadInv
    <3>6. i # Len(log) + 1
      <4>1. i = Len(log) + 1 => log'[i].ts = req[q].ts
        BY ZenonT(40), <3>1, <3>5
      <4> QED BY ONLY SMTT(30), <1>1, <1>3, <3>4, <4>1
    <3>7. i \in Positions
      BY ONLY SMTT(30), <1>1, <3>5, <3>6, i \in Positions' DEF Positions
    <3> QED BY ZenonT(40), <3>5, <3>7
  <2> QED BY Zenon, <2>1, <2>2
<1> QED BY ZenonT(40), <1>4, <1>5, <1>6, <1>7, LogMoves

\* A write that is in flight on a replica excludes a read there.
LEMMA NothingInFlight ==
  ASSUME ReadInv, Exclusive, Latched, Orderly, NEW r \in Requests, req[r].pc = "bumped",
         rlead[req[r].node], NEW i \in Positions, log[i].req # NoReq,
         log[i].term = rterm[req[r].node]
  PROVE  i <= applied[req[r].node]
<1> DEFINE n == req[r].node  x == log[i].req
<1>1. n \in Nodes /\ applied[n] \in Nat /\ i \in Nat /\ x \in Requests
  <2>1. PICK m \in Nodes : m = n
    BY Zenon, RequestValues DEF ReadInv
  <2>2. applied[m] \in Nat
    BY Zenon, NodeValues DEF ReadInv
  <2> QED BY ZenonT(40), <2>1, <2>2, EntryValues DEF ReadInv
<1>2. SUFFICES ASSUME applied[n] < i PROVE FALSE
  <2>1. i <= applied[n] \/ applied[n] < i
    BY ONLY <1>1
  <2> QED BY Zenon, <2>1
<1>3. req[x].node = n /\ req[x].pc = "proposed"
  BY ZenonT(40), <1>1, <1>2 DEF Latched
<1>4. LatchHeld(x) /\ LatchHeld(r) /\ x # r /\ ~IsRead(x)
  BY Zenon, <1>3 DEF LatchHeld, IsRead
<1> QED BY ZenonT(40), <1>1, <1>3, <1>4 DEF Exclusive

\* Neither is one checked there.
LEMMA NothingChecked ==
  ASSUME NEW r \in Requests, Exclusive, LatchHeld(r), IsRead(r), NEW q \in Requests, req[q].pc = "checked",
         req[q].node = req[r].node
  PROVE  FALSE
BY Zenon DEF Exclusive, LatchHeld, IsRead

\* The read that took its latch under a fresh lease is promised.
LEMMA PromiseBumped ==
  ASSUME ReadInv, LeaseHolds, [Next]_vars, NEW r \in Requests, ReadBump(r), Binding(r)'
  PROVE  Promise(r)'
<1> DEFINE n == req[r].node
<1>1. /\ UNCHANGED <<env, now, log, term, ldr, heard, rterm, mterm, owed>> /\ Free(r, TRUE)
      /\ low' = [low EXCEPT ![n] = Forward(@, req[r].ts)]
      /\ \A x \in Requests : x # r => req'[x] = req[x]
  BY Zenon, ReadBumpEffect DEF ReadBump, raft, Others, ReadInv
<1>2. /\ req'[r].node = n /\ req'[r].ts = req[r].ts
      /\ req'[r].pc \in {"bumped", "failed"}
      /\ req'[r].pc = "bumped" => (LeaseReads => leaseContactFresh(n))
  BY Zenon, ReadBumpEffect DEF SameHeader, ReadInv
<1>3. LeaseReads' = LeaseReads /\ ElectionTimeout' = ElectionTimeout
  BY Zenon, <1>1 DEF LeaseReads, ElectionTimeout
<1>4. LeaseReads /\ req'[r].pc = "bumped" /\ leaseContactFresh(n)
  BY ZenonT(40), <1>2, <1>3 DEF Binding
<1>5. /\ n \in Nodes /\ req[r].ts \in Nat /\ now \in Nat /\ heard \in Nat /\ low[n] \in Nat
      /\ ElectionTimeout \in Nat /\ MaxOffset \in Nat
  BY ZenonT(40), EnvTypes DEF ReadInv, TypeOK, Request
<1>6. n = ldr /\ now + MaxOffset <= heard + ElectionTimeout
  BY ZenonT(40), <1>4, <1>5, FreshLeads DEF ReadInv
<1>7. req[r].ts <= now
  BY Zenon DEF ReadInv, Clocks, ReadBump, IsRead
<1>8. ClockPast(r)'
  <2>1. req'[r].ts + MaxOffset <= heard' + ElectionTimeout'
    BY ONLY SMTT(30), <1>1, <1>2, <1>3, <1>5, <1>6, <1>7
  <2> QED BY ZenonT(40), <1>3, <1>4, <2>1 DEF ClockPast
<1>9. CachePast(r)'
  <2>1. low'[n] = Forward(low[n], req[r].ts)
    BY ZenonT(40), <1>1, <1>5 DEF ReadInv, TypeOK
  <2>2. req[r].ts <= low'[n]
    BY ONLY <1>5, <2>1 DEF Forward
  <2> QED BY ZenonT(40), <1>1, <1>2, <1>6, <2>2 DEF CachePast
<1>10. ChecksPast(r)'
  <2>1. \A q \in Requests : ~(req'[q].pc = "checked" /\ req'[q].node = n)
    BY ZenonT(40), <1>1, <1>4 DEF Free, LatchHeld, IsRead
  <2> QED BY ZenonT(40), <1>1, <1>6, <2>1 DEF ChecksPast
<1>11. LogPast(r)'
  <2>1. rterm[n] = term /\ \A i \in Positions : log[i].term <= term
    BY ZenonT(40), <1>6 DEF ReadInv, Leaders, Ordered
  <2> QED BY ZenonT(40), <1>1, <1>2, <1>4, <2>1 DEF LogPast, Positions
<1> QED BY ZenonT(40), <1>8, <1>9, <1>10, <1>11 DEF Promise

\* The read index: everything the read will not see is above it.
LEMMA IndexedLog ==
  ASSUME ReadInv, Exclusive, Latched, Promised, Orderly, LeaseHolds, NEW r \in Requests, ReadIndex(r)
  PROVE  LogPast(r)'
<1> DEFINE n == req[r].node
<1>1. /\ req'[r].pc = "indexed" /\ req'[r].idx = known[n] /\ req'[r].ts = req[r].ts /\ log' = log
      /\ req[r].pc = "bumped" /\ rlead[n]
  BY Zenon, ReadIndexEffect DEF ReadIndex, ReadInv, SameHeader
<1>2. /\ n \in Nodes /\ applied[n] \in Nat /\ known[n] \in Nat /\ applied[n] <= known[n]
      /\ commit \in Nat /\ known[n] <= commit /\ 1 <= known[n] /\ commit <= Len(log) /\ Len(log) \in Nat
      /\ rterm[n] \in Nat /\ \A j \in Positions : log[j].term \in Nat
  <2>1. PICK m \in Nodes : m = n
    BY Zenon, RequestValues DEF ReadInv
  <2>2. /\ applied[m] \in Nat /\ known[m] \in Nat /\ applied[m] <= known[m] /\ known[m] <= commit
        /\ 1 <= known[m] /\ rterm[m] \in Nat
    BY Zenon, NodeValues DEF ReadInv, Ordered
  <2> QED BY ZenonT(40), <2>1, <2>2, Scalars, EntryValues DEF ReadInv
<1>3. SUFFICES ASSUME NEW i \in Positions, log[i].req # NoReq, log[i].ts <= req[r].ts, known[n] < i
               PROVE  FALSE
  <2>1. \A i \in Positions : known[n] < i \/ i <= known[n]
    BY ONLY <1>2 DEF Positions
  <2>2. SUFFICES ASSUME NEW i \in Positions, log[i].req # NoReq, log[i].ts <= req[r].ts
                 PROVE  i <= known[n]
    BY Zenon, <1>1 DEF LogPast, Positions
  <2> QED BY ZenonT(40), <2>1, <2>2
<1>4. log[i].term = rterm[n]
  <2>1. CASE LeaseReads
    <3>1. PICK j \in 1 .. applied[n] : log[j].term = rterm[n]
      BY Zenon, <2>1 DEF ReadIndex, OwnTermApplied
    <3>2. Promise(r)
      BY ZenonT(40), <1>1, <2>1 DEF Promised, Binding
    <3>3. log[i].term <= rterm[n]
      BY ZenonT(40), <1>1, <1>3, <3>2 DEF Promise, LogPast
    <3>4. log[j].term <= log[i].term
      <4>1. j \in Positions /\ j <= i
        BY ONLY SMTT(30), <1>2, <1>3, j \in 1 .. applied[n], i \in Positions DEF Positions
      <4> QED BY ZenonT(40), <4>1 DEF ReadInv, Ordered
    <3>5. log[i].term \in Nat
      BY ZenonT(40), <1>2
    <3> QED BY ONLY SMTT(30), <1>2, <3>1, <3>3, <3>4, <3>5
  <2>2. CASE ~LeaseReads
    <3>1. ldr = n /\ log[known[n]].term = rterm[n]
      BY ZenonT(40), <2>2 DEF ReadIndex
    <3>2. known[n] \in Positions /\ known[n] <= i
      BY ONLY SMTT(30), <1>2, <1>3, i \in Positions DEF Positions
    <3>3. rterm[n] = term
      BY Zenon, <3>1 DEF ReadInv, Leaders
    <3>4. log[known[n]].term <= log[i].term /\ log[i].term <= term /\ log[i].term \in Nat
      BY Zenon, <1>2, <3>2 DEF ReadInv, Ordered
    <3> QED BY ONLY SMTT(30), <1>2, <3>1, <3>3, <3>4
  <2> QED BY ZenonT(40), <2>1, <2>2
<1>5. i <= applied[n]
  BY ZenonT(40), <1>1, <1>3, <1>4, NothingInFlight
<1> QED BY ONLY SMTT(30), <1>2, <1>3, <1>5, i \in Positions DEF Positions

\* A read that obtains its index is promised.
LEMMA PromiseIndexed ==
  ASSUME WriteInv, Orderly, LeaseHolds, [Next]_vars, NEW r \in Requests, ReadIndex(r)
  PROVE  Promise(r)'
<1> DEFINE n == req[r].node
<1>0. ReadInv /\ Exclusive /\ Remembered /\ Latched /\ Promised
  BY Zenon DEF WriteInv
<1>1. /\ req'[r].ts = req[r].ts /\ req[r].pc = "bumped" /\ n \in Nodes /\ req[r].ts \in Nat
      /\ \A x \in Requests : x # r => req'[x] = req[x]
      /\ req'[r].pc = "indexed" /\ UNCHANGED <<env, ldr, term, low, mterm, rterm, owed, now>>
  <2>1. /\ req'[r].ts = req[r].ts /\ req[r].pc = "bumped" /\ req'[r].pc = "indexed"
        /\ \A x \in Requests : x # r => req'[x] = req[x]
    BY Zenon, <1>0, ReadIndexEffect DEF ReadInv, Others, SameHeader
  <2>2. n \in Nodes /\ req[r].ts \in Nat
    BY Zenon, <1>0, RequestValues DEF ReadInv
  <2>3. UNCHANGED <<env, ldr, term, low, mterm, rterm, owed, now>>
    BY Zenon DEF ReadIndex, views
  <2> QED BY ZenonT(40), <2>1, <2>2, <2>3
<1>2. LogPast(r)'
  BY Zenon, <1>0, IndexedLog
<1>3. CASE LeaseReads
  <2>1. Promise(r)
    BY ZenonT(40), <1>0, <1>1, <1>3 DEF Promised, Binding
  <2>2. ClockPast(r)' /\ CachePast(r)' /\ ChecksPast(r)'
    BY ZenonT(40), <1>0, <1>1, <2>1, ClockKept, CacheKept, ChecksKept DEF Promise
  <2> QED BY ZenonT(40), <1>2, <2>2 DEF Promise
<1>4. CASE ~LeaseReads
  <2>1. n = ldr /\ ratchet' = Forward(ratchet, req[r].ts) /\ ratchet \in Nat
    BY ZenonT(40), <1>0, <1>4 DEF ReadIndex, ReadInv, TypeOK
  <2>2. ClockPast(r)'
    <3>1. req'[r].ts <= ratchet'
      BY ONLY SMTT(30), <1>1, <2>1 DEF Forward
    <3> QED BY ZenonT(40), <1>1, <1>4, <3>1 DEF ClockPast, LeaseReads
  <2>3. CachePast(r)'
    BY ZenonT(40), <1>0, <1>1, <2>1 DEF CachePast, Remembered
  <2>4. \A q \in Requests : ~(req'[q].pc = "checked" /\ req'[q].node = n)
    BY ZenonT(40), <1>0, <1>1, NothingChecked DEF LatchHeld, IsRead
  <2>5. ChecksPast(r)'
    BY ZenonT(40), <1>1, <2>1, <2>4 DEF ChecksPast
  <2> QED BY ZenonT(40), <1>2, <2>2, <2>3, <2>5 DEF Promise
<1> QED BY ZenonT(40), <1>3, <1>4

\* What a step does to a read that counts.
LEMMA BindingMoves ==
  ASSUME TypeOK, [Next]_vars, NEW r \in Requests, Binding(r)'
  PROVE  \/ req'[r] = req[r] /\ Binding(r)
         \/ ReadBump(r) \/ ReadIndex(r)
         \/ /\ req'[r].ts = req[r].ts /\ Binding(r) /\ req[r].pc # "bumped" /\ req'[r].pc # "bumped"
            /\ log' = log /\ req'[r].idx >= req[r].idx
<1>0. LeaseReads' = LeaseReads
  BY Zenon, EnvStays DEF LeaseReads
<1>1. req'[r].pc \in {"bumped", "indexed", "evaluated", "served"}
  BY Zenon DEF Binding
<1>2. CASE req'[r] = req[r]
  BY ZenonT(40), <1>0, <1>2 DEF Binding
<1>3. ASSUME NEW m \in Nodes, StageReady(m) \/ Apply(m)
      PROVE  req'[r] = req[r]
  BY ZenonT(40), <1>1, <1>3, StageReadyEffect, ApplyEffect
<1>4. ASSUME NEW x \in Requests,
             \/ \E m \in Nodes, pc \in {"read", "write"}, ts \in 1 .. now : Arrive(x, m, pc, ts)
             \/ Check(x) \/ Propose(x) \/ Cancel(x)
      PROVE  req'[r] = req[r]
  <2>1. ASSUME NEW m \in Nodes, NEW pc \in {"read", "write"}, NEW ts \in 1 .. now, Arrive(x, m, pc, ts)
        PROVE  req'[r] = req[r]
    <3>1. Arrived(x, pc, ts)
      BY Zenon, <2>1, ArriveMoves
    <3> QED BY Zenon, <1>1, <3>1 DEF Arrived, Others
  <2>2. CASE Check(x)
    BY ZenonT(40), <1>1, <2>2, CheckEffect DEF Others
  <2>3. CASE Propose(x)
    BY ZenonT(40), <1>1, <2>3, ProposeEffect DEF Others
  <2>4. CASE Cancel(x)
    BY ZenonT(40), <1>1, <2>4, CancelEffect DEF Others
  <2> QED BY ZenonT(40), <1>4, <2>1, <2>2, <2>3, <2>4
<1>5. ASSUME NEW x \in Requests, x # r, ReadBump(x) \/ ReadIndex(x) \/ Evaluate(x) \/ Return(x)
      PROVE  req'[r] = req[r]
  BY ZenonT(40), <1>5, ReadBumpEffect, ReadIndexEffect, EvaluateEffect, ReturnEffect DEF Others
<1>6. CASE Evaluate(r)
  <2>1. req'[r].ts = req[r].ts /\ req[r].pc = "indexed" /\ req'[r].pc = "evaluated" /\ log' = log
    BY ZenonT(40), <1>6, EvaluateEffect DEF Evaluate, SameHeader, raft
  <2>2. req'[r].idx >= req[r].idx
    <3>1. req'[r].idx = applied[req[r].node] /\ applied[req[r].node] >= req[r].idx
      BY ZenonT(40), <1>6, EvaluateEffect DEF Evaluate
    <3> QED BY ONLY <3>1
  <2> QED BY ZenonT(40), <2>1, <2>2 DEF Binding
<1>7. CASE Return(r)
  <2>1. /\ req'[r].ts = req[r].ts /\ req[r].pc = "evaluated" /\ req'[r].pc # "bumped" /\ log' = log
        /\ req'[r].idx = req[r].idx /\ req[r].idx \in Nat
    BY ZenonT(40), <1>7, ReturnEffect, RequestValues DEF Return, SameHeader, raft
  <2>2. req'[r].idx >= req[r].idx
    BY ONLY <2>1
  <2> QED BY ZenonT(40), <2>1, <2>2 DEF Binding
<1> QED BY ZenonT(40), <1>2, <1>3, <1>4, <1>5, <1>6, <1>7, RequestsMove

\* Every step keeps what reads are promised.
LEMMA PromisedStep ==
  ASSUME WriteInv, [Next]_vars
  PROVE  Promised'
<1> SUFFICES ASSUME Orderly, LeaseHolds, NEW r \in Requests, Binding(r)'
             PROVE  Promise(r)'
  BY Zenon, EnvStays DEF Promised, Orderly, LeaseHolds, LeaseReads, Faults
<1>1. ReadInv /\ Remembered /\ TypeOK /\ (Binding(r) => Promise(r))
  BY Zenon DEF WriteInv, Promised, ReadInv
<1>2. ASSUME req'[r].ts = req[r].ts, Binding(r)
      PROVE  ClockPast(r)' /\ CachePast(r)' /\ ChecksPast(r)'
  BY ZenonT(40), <1>1, <1>2, ClockKept, CacheKept, ChecksKept DEF Promise
<1>3. CASE req'[r] = req[r] /\ Binding(r)
  BY ZenonT(40), <1>1, <1>2, <1>3, LogKept DEF Promise
<1>4. CASE ReadBump(r)
  BY ZenonT(40), <1>1, <1>4, PromiseBumped
<1>5. CASE ReadIndex(r)
  BY Zenon, <1>5, PromiseIndexed
<1>6. CASE /\ req'[r].ts = req[r].ts /\ Binding(r) /\ req[r].pc # "bumped" /\ req'[r].pc # "bumped"
           /\ log' = log /\ req'[r].idx >= req[r].idx
  <2>1. req[r].idx \in Nat /\ req'[r].idx \in Nat
    BY ZenonT(40), <1>1, TypeStep DEF TypeOK, Request
  <2>2. LogPast(r)'
    <3>1. \A i \in Positions : log[i].req # NoReq /\ log[i].ts <= req[r].ts => i <= req[r].idx
      BY ZenonT(40), <1>1, <1>6 DEF Promise, LogPast
    <3>2. \A i \in Positions : i \in Int
      BY ONLY SMTT(30), TRUE DEF Positions
    <3>3. \A i \in Positions : i <= req[r].idx => i <= req'[r].idx
      BY ONLY SMTT(30), <1>6, <2>1, <3>2
    <3> QED BY Zenon, <1>6, <3>1, <3>3 DEF LogPast, Positions
  <2> QED BY ZenonT(40), <1>2, <1>6, <2>2 DEF Promise
<1> QED BY ZenonT(40), <1>1, <1>3, <1>4, <1>5, <1>6, BindingMoves

\* The invariant of writes holds at the start.
LEMMA WriteInit == Init => WriteInv
<1> SUFFICES ASSUME Init PROVE WriteInv
  OBVIOUS
<1>1. \A q \in Requests : req[q].pc = "idle"
  BY Zenon DEF Init, Idle
<1>2. Len(log) = 1 /\ log[1].req = NoReq
  BY Zenon DEF Init, Noop
<1>3. Exclusive /\ Remembered /\ Promised
  BY Zenon, <1>1 DEF Exclusive, Remembered, Promised, Binding, LatchHeld
<1>4. Latched
  <2>1. \A i \in 1 .. 1 : i = 1
    BY ONLY TRUE
  <2> QED BY ZenonT(40), <1>2, <2>1 DEF Latched, Positions
<1> QED BY ZenonT(40), ReadInit, <1>3, <1>4 DEF WriteInv

\* And is inductive.
LEMMA WriteStep == WriteInv /\ [Next]_vars => WriteInv'
BY ZenonT(40), ReadStep, ExclusiveStep, RememberedStep, LatchedStep, PromisedStep DEF WriteInv, ReadInv

\* Once a read is served no write at or below its timestamp commits that the
\* read did not see, on whatever replica and after however many elections:
\* latches, timestamp cache, lease and the new leader's bump together see to it.
THEOREM NothingBeneathReads == Spec => []NoWriteBeneathRead
<1>1. WriteInv => NoWriteBeneathRead
  <2> SUFFICES ASSUME WriteInv, Orderly, LeaseHolds, NEW r \in Served, NEW i \in 1 .. commit,
                      log[i].req # NoReq, log[i].ts <= req[r].ts
               PROVE  i <= req[r].idx
    BY Zenon DEF NoWriteBeneathRead
  <2>1. r \in Requests /\ req[r].pc = "served"
    BY Zenon DEF Served
  <2>2. i \in Positions
    <3>1. commit \in Nat /\ commit <= Len(log) /\ Len(log) \in Nat
      BY Zenon, Scalars DEF WriteInv, ReadInv
    <3> QED BY ONLY <3>1, i \in 1 .. commit DEF Positions
  <2>3. LogPast(r)
    BY Zenon, <2>1 DEF WriteInv, Promised, Binding, Promise
  <2> QED BY ZenonT(40), <2>1, <2>2, <2>3 DEF LogPast
<1> QED BY WriteInit, WriteStep, <1>1, PTL DEF Spec
=============================================================================
