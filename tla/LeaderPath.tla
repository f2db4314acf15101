---------------------------- MODULE LeaderPath ----------------------------
(***************************************************************************)
(* One range's replicas serving reads and writes of one key                *)
(* (kvserver/replica.go: Replica.Execute, stageReady, proposeCmd, the lease *)
(* and the read index). The raft library is external: elections, the log   *)
(* and its commit index are the actions of a correct raft group; what the  *)
(* replica believes of it (mterm, mlead) lags behind.                      *)
(* Latches and the timestamp cache appear as what Latch and TsCache show   *)
(* of them: overlapping requests exclude each other, and a read's          *)
(* timestamp is remembered.                                                *)
(***************************************************************************)
EXTENDS Integers, Sequences, FiniteSets

CONSTANTS Nodes, First,     \* replicas; First leads term 1
          Requests, NoReq,
          MaxOffset,        \* Clock.MaxOffset
          MaxTerm,          \* bound on the elections
          Environments      \* records with the fields of env

ASSUME NodesAssumption == First \in Nodes /\ NoReq \notin Requests \cup Nodes
ASSUME EnvAssumption ==
  /\ MaxOffset \in Nat \ {0}          \* Node.start: 0 stands for the default
  /\ MaxTerm \in Nat
  /\ \A e \in Environments : /\ {e.timeout, e.until} \subseteq Nat
                            /\ e.leaseReads \in BOOLEAN
                            /\ e.faults \subseteq {"cancel", "transfer", "delay", "race"}

VARIABLES env,              \* the environment of this behaviour, chosen at the start:
                            \*   leaseReads: lease reads, or a quorum round per read index
                            \*   timeout: raftElectionTicks * RaftTickInterval
                            \*   until: bound on the clock
                            \*   faults: which of these may happen:
  \* "cancel"   a request's context ends while its proposal is in flight
  \* "transfer" leadership is transferred (TransferLeader)
  \* "delay"    a follower's answer is received later than it was sent
  \* "race"     leadership changes between a write's check and its proposal
          now,              \* real time; every node's clock is within MaxOffset below it
          term, ldr,        \* the newest term and its raft leader
          log, commit,      \* the leader's log and how much of it is committed
          heard, ratchet,   \* when a quorum last heard the leader; the HLC it has seen
          xfer,             \* the node asked to take over, or NoNode
          rterm, rlead,     \* each raft group: its term, whether it leads
          mterm, mlead,     \* each replica's view of its group (r.mu)
          owed,             \* leadership noted, cache not yet bumped
          known, applied,   \* commit index known, and applied, at each replica
          low,              \* timestamp cache
          ans, contact,     \* a majority's answer in flight, and when one was received
          req               \* the requests

raft  == <<term, ldr, log, commit, heard, rterm, rlead>>
views == <<mterm, mlead, owed, low>>
lag   == <<known, applied>>
lease == <<ans, contact>>
vars  == <<env, now, raft, ratchet, xfer, views, lag, lease, req>>

LeaseReads      == env.leaseReads
ElectionTimeout == env.timeout
MaxTime         == env.until
Faults          == env.faults

NoNode == NoReq
None   == 0 - 1
Noop(t) == [term |-> t, req |-> NoReq, ts |-> 0]
Idle == [pc |-> "idle", node |-> First, ts |-> 0, term |-> 0, begin |-> 0, idx |-> 0]

LatchHeld(q) == req[q].pc \in {"bumped", "indexed", "evaluated", "checked", "proposed"}
IsRead(q)    == req[q].pc \in {"read", "bumped", "indexed", "evaluated", "served"}

Forward(a, b) == IF a < b THEN b ELSE a

Init == /\ env \in Environments
        /\ now = 1 /\ term = 1 /\ ldr = First
        /\ log = <<Noop(1)>> /\ commit = 1 /\ heard = 1 /\ ratchet = 0 /\ xfer = NoNode
        /\ rterm = [n \in Nodes |-> 1] /\ rlead = [n \in Nodes |-> n = First]
        /\ mterm = rterm /\ mlead = rlead /\ owed = [n \in Nodes |-> FALSE]
        /\ known = [n \in Nodes |-> 1] /\ applied = known
        /\ low = [n \in Nodes |-> 0]
        /\ ans = [n \in Nodes |-> None] /\ contact = [n \in Nodes |-> IF n = First THEN 1 ELSE None]
        /\ req = [q \in Requests |-> Idle]

To(q, pc) == req' = [req EXCEPT ![q].pc = pc]
----------------------------------------------------------------------------
(* Time and the raft group.                                                *)

Tick == /\ now < MaxTime
        /\ now' = now + 1
        /\ UNCHANGED <<env, raft, ratchet, xfer, views, lag, lease, req>>

\* A majority hears the leader and answers; the answer is stamped when received,
\* for the lease reads to judge their contact by.
Answered == IF LeaseReads THEN [ans EXCEPT ![ldr] = now] ELSE ans

Answer == /\ rlead[ldr]
          /\ heard' = now
          /\ ans' = Answered
          /\ UNCHANGED <<env, now, term, ldr, log, commit, rterm, rlead, ratchet, xfer, views, lag, contact, req>>

Receive(n) ==
  /\ ans[n] # None
  /\ "delay" \in Faults \/ ans[n] = now
  /\ contact' = [contact EXCEPT ![n] = now]
  /\ ans' = [ans EXCEPT ![n] = None]
  /\ UNCHANGED <<env, now, raft, ratchet, xfer, views, lag, req>>

\* The leader asks n to campaign at once (adminTransferLease): its message
\* carries the leader's clock, which has seen every request it was sent.
Transfer(n) ==
  /\ "transfer" \in Faults
  /\ n # ldr /\ rlead[ldr] /\ mlead[ldr] /\ xfer = NoNode /\ term < MaxTerm
  /\ xfer' = n
  /\ ratchet' = now
  /\ UNCHANGED <<env, now, raft, views, lag, lease, req>>

\* n wins an election: followers vote once they have not heard the leader for
\* an election timeout, or at once in a transfer. Of the uncommitted log a
\* prefix survives; the new leader appends an empty entry.
Elect(n) ==
  /\ term < MaxTerm
  /\ now >= heard + ElectionTimeout \/ xfer = n
  /\ \E p \in commit .. Len(log) : log' = Append(SubSeq(log, 1, p), Noop(term + 1))
  /\ term' = term + 1 /\ ldr' = n /\ heard' = now /\ xfer' = NoNode
  /\ rterm' = [rterm EXCEPT ![n] = term + 1]
  /\ rlead' = [rlead EXCEPT ![n] = TRUE]
  /\ UNCHANGED <<env, now, commit, ratchet, views, lag, lease, req>>

\* A deposed leader or a follower hears of the newest term.
Hear(n) ==
  /\ rterm[n] < term
  /\ rterm' = [rterm EXCEPT ![n] = term]
  /\ rlead' = [rlead EXCEPT ![n] = FALSE]
  /\ UNCHANGED <<env, now, term, ldr, log, commit, heard, ratchet, xfer, views, lag, lease, req>>

Commit ==
  /\ commit < Len(log) /\ rlead[ldr]
  /\ commit' = Len(log)
  /\ known' = [known EXCEPT ![ldr] = Len(log)]
  /\ heard' = now
  /\ ans' = Answered
  /\ UNCHANGED <<env, now, term, ldr, log, rterm, rlead, ratchet, xfer, views, applied, contact, req>>

Learn(n) ==
  /\ rterm[n] = term /\ known[n] < commit
  /\ known' = [known EXCEPT ![n] = commit]
  /\ UNCHANGED <<env, now, raft, ratchet, xfer, views, applied, lease, req>>
----------------------------------------------------------------------------
(* The replica: its Ready loop and its apply loop.                         *)

Failed(q) == [req[q] EXCEPT !.pc = "failed"]

\* stageReady, under r.mu: note term and leadership; a replica that lost the
\* leadership, even if it has it back, answers its proposals ambiguously.
StageReady(n) ==
  /\ <<mterm[n], mlead[n]>> # <<rterm[n], rlead[n]>>
  /\ mterm' = [mterm EXCEPT ![n] = rterm[n]]
  /\ mlead' = [mlead EXCEPT ![n] = rlead[n]]
  /\ owed'  = [owed EXCEPT ![n] = rlead[n]]
  /\ req' = [q \in Requests |->
               IF mlead[n] /\ req[q].node = n /\ req[q].pc = "proposed" THEN Failed(q) ELSE req[q]]
  /\ UNCHANGED <<env, now, raft, ratchet, xfer, low, lag, lease>>

\* stageReady, after it released r.mu: a new leader cannot know what reads the
\* old one served, and raises the cache to its clock.
BumpForgotten(n) ==               \* seeded fault: a new leader trusts its own cache
  /\ owed[n] /\ owed' = [owed EXCEPT ![n] = FALSE]
  /\ UNCHANGED <<env, now, raft, ratchet, xfer, mterm, mlead, low, lag, lease, req>>

BumpOnLead(n) ==
  /\ owed[n]
  /\ owed' = [owed EXCEPT ![n] = FALSE]
  /\ \E c \in Forward(now - MaxOffset, ratchet) .. now : low' = [low EXCEPT ![n] = Forward(@, c)]
  /\ UNCHANGED <<env, now, raft, ratchet, xfer, mterm, mlead, lag, lease, req>>

Apply(n) ==
  /\ applied[n] < known[n]
  /\ applied' = [applied EXCEPT ![n] = @ + 1]
  /\ LET q == log[applied[n] + 1].req
     IN  req' = IF q \in Requests /\ req[q].node = n /\ req[q].pc = "proposed"
                THEN [req EXCEPT ![q].pc = "written"] ELSE req
  /\ UNCHANGED <<env, now, raft, ratchet, xfer, views, known, lease>>
----------------------------------------------------------------------------
(* Replica.Execute.                                                        *)

\* A request arrives at a replica that takes itself for the leader. Its
\* timestamp is a reading of its gateway's clock, at most the time.
Arrive(q, n, pc, ts) ==
  /\ req[q] = Idle /\ mlead[n]
  /\ req' = [req EXCEPT ![q] = [@ EXCEPT !.pc = pc, !.node = n, !.ts = ts, !.begin = commit]]
  /\ UNCHANGED <<env, now, raft, ratchet, xfer, views, lag, lease>>

Free(q, shared) ==
  \A x \in Requests : (x # q /\ LatchHeld(x) /\ req[x].node = req[q].node) => (shared /\ IsRead(x))

leaseContactFresh(n) ==
  /\ MaxOffset < ElectionTimeout
  /\ contact[n] # None /\ now - contact[n] <= ElectionTimeout - MaxOffset

\* The read's latch is taken and the cache bumped, before anything is read.
ReadBump(q) ==
  LET n == req[q].node
  IN  /\ req[q].pc = "read" /\ Free(q, TRUE)
      /\ low' = [low EXCEPT ![n] = Forward(@, req[q].ts)]
      /\ To(q, IF LeaseReads /\ ~leaseContactFresh(n) THEN "failed" ELSE "bumped")
      /\ UNCHANGED <<env, now, raft, ratchet, xfer, mterm, mlead, owed, lag, lease>>

\* An entry of the group's own term is applied here (appliedTerm).
OwnTermApplied(n) == \E i \in 1 .. applied[n] : log[i].term = rterm[n]

\* leaseReadIndex: the commit index the leader knows, on the strength of its
\* lease; or a quorum round, which only the newest term's leader completes and
\* whose messages carry its clock to a quorum.
ReadIndexAny(q) ==                \* seeded fault: the index is what is applied here
  /\ req[q].pc = "bumped"
  /\ req' = [req EXCEPT ![q].pc = "indexed", ![q].idx = applied[req[q].node]]
  /\ UNCHANGED <<env, now, raft, ratchet, xfer, views, lag, lease>>

ReadIndex(q) ==
  LET n == req[q].node
  IN  /\ req[q].pc = "bumped" /\ rlead[n]
      /\ IF LeaseReads
         THEN OwnTermApplied(n) /\ UNCHANGED <<ratchet, heard>>
         ELSE /\ ldr = n /\ log[known[n]].term = rterm[n]
              /\ ratchet' = Forward(ratchet, req[q].ts) /\ heard' = now
      /\ req' = [req EXCEPT ![q].pc = "indexed", ![q].idx = known[n]]
      /\ UNCHANGED <<env, now, term, ldr, log, commit, rterm, rlead, xfer, views, lag, lease>>

\* waitApplied and evalReadOnly: idx becomes how much of the log the read saw.
Evaluate(q) ==
  LET n == req[q].node
  IN  /\ req[q].pc = "indexed" /\ applied[n] >= req[q].idx
      /\ req' = [req EXCEPT ![q].pc = "evaluated", ![q].idx = applied[n]]
      /\ UNCHANGED <<env, now, raft, ratchet, xfer, views, lag, lease>>

\* The lease is checked again before the result is returned.
Return(q) ==
  /\ req[q].pc = "evaluated"
  /\ To(q, IF LeaseReads /\ ~leaseContactFresh(req[q].node) THEN "failed" ELSE "served")
  /\ UNCHANGED <<env, now, raft, ratchet, xfer, views, lag, lease>>

\* The write's exclusive latch is taken and the cache checked: a transaction's
\* write that the cache refuses is pushed just above it.
Check(q) ==
  LET n == req[q].node
  IN  /\ req[q].pc = "write" /\ Free(q, FALSE)
      /\ "race" \in Faults \/ (mterm[n] = rterm[n] /\ ~owed[n])
      /\ req' = [req EXCEPT ![q].pc = "checked", ![q].term = mterm[n],
                            ![q].ts = IF low[n] < @ THEN @ ELSE low[n] + 1]
      /\ UNCHANGED <<env, now, raft, ratchet, xfer, views, lag, lease>>

Propose(q) ==
  LET n == req[q].node
  IN  /\ req[q].pc = "checked"
      /\ "race" \in Faults \/ req[q].term = rterm[n] \/ ~rlead[n]
      /\ To(q, IF rlead[n] /\ (n = ldr => xfer = NoNode) THEN "proposed" ELSE "failed")
      /\ log' = IF rlead[n] /\ n = ldr /\ xfer = NoNode
                THEN Append(log, [term |-> term, req |-> q, ts |-> req[q].ts]) ELSE log
      /\ UNCHANGED <<env, now, term, ldr, commit, heard, rterm, rlead, ratchet, xfer, views, lag, lease>>

\* The context ends while the proposal is in flight: the request returns
\* "proposal abandoned" and its deferred Release gives the latch up.
Cancel(q) ==
  /\ "cancel" \in Faults
  /\ req[q].pc = "proposed"
  /\ To(q, "failed")
  /\ UNCHANGED <<env, now, raft, ratchet, xfer, views, lag, lease>>

Next ==
  \/ Tick \/ Answer \/ Commit
  \/ \E n \in Nodes : Receive(n) \/ Transfer(n) \/ Elect(n) \/ Hear(n) \/ Learn(n)
                      \/ StageReady(n) \/ BumpOnLead(n) \/ Apply(n)
  \/ \E q \in Requests :
       \/ \E n \in Nodes, pc \in {"read", "write"}, ts \in 1 .. now : Arrive(q, n, pc, ts)
       \/ ReadBump(q) \/ ReadIndex(q) \/ Evaluate(q) \/ Return(q)
       \/ Check(q) \/ Propose(q) \/ Cancel(q)

Spec == Init /\ [][Next]_vars
----------------------------------------------------------------------------
\* Type invariant: positions lie within the log, and times are numbers.
Entry   == [term : Nat, req : Requests \cup {NoReq}, ts : Nat]
Places  == {"idle", "read", "bumped", "indexed", "evaluated", "served",
            "write", "checked", "proposed", "written", "failed"}
Request == [pc : Places, node : Nodes, ts : Nat, term : Nat, begin : Nat, idx : Nat]

TypeOK ==
  /\ env \in Environments
  /\ now \in Nat /\ term \in Nat /\ heard \in Nat /\ ratchet \in Nat
  /\ ldr \in Nodes /\ xfer \in Nodes \cup {NoNode}
  /\ log \in Seq(Entry) /\ commit \in 1 .. Len(log)
  /\ rterm \in [Nodes -> Nat] /\ rlead \in [Nodes -> BOOLEAN]
  /\ mterm \in [Nodes -> Nat] /\ mlead \in [Nodes -> BOOLEAN] /\ owed \in [Nodes -> BOOLEAN]
  /\ known \in [Nodes -> 1 .. commit] /\ applied \in [Nodes -> 1 .. commit]
  /\ low \in [Nodes -> Nat]
  /\ ans \in [Nodes -> Nat \cup {None}] /\ contact \in [Nodes -> Nat \cup {None}]
  /\ req \in [Requests -> Request]

Served == {q \in Requests : req[q].pc = "served"}

\* What the lease is documented to rest on: nobody is elected before the
\* followers' election timeout has passed, and answers are stamped when sent.
LeaseHolds == LeaseReads => Faults \cap {"transfer", "delay"} = {}

\* No proposal outlives its latch, and none is checked before the cache is bumped.
Orderly == Faults \cap {"cancel", "race"} = {}

\* Invariants L1 and L2 together (latch.go) across leadership changes
\* (architecture.md, "Linearizable reads"): once a read is served, no write at
\* or below its timestamp commits that the read did not see. (A proposal whose
\* context ended, or that a new leadership overtook, escapes its latch.)
NoWriteBeneathRead ==
  Orderly /\ LeaseHolds =>
  \A r \in Served : \A i \in 1 .. commit :
    (log[i].req # NoReq /\ log[i].ts <= req[r].ts) => i <= req[r].idx

\* A served read saw every write that was committed when it arrived, whichever
\* replica served it: no deposed leader answers from stale state.  And an
\* acknowledged write is never lost: its entry is committed, once.
Linearizable ==
  /\ LeaseHolds => \A r \in Served : \A i \in 1 .. req[r].begin :
                     log[i].req # NoReq => i <= req[r].idx
  /\ \A q \in Requests : req[q].pc = "written" =>
       Cardinality({i \in 1 .. commit : log[i].req = q}) = 1
=============================================================================
