-------------------------- MODULE ClosedTimestamps --------------------------
(***************************************************************************)
(* Closed timestamps and quiescence of one range (kvserver/closedts.go,    *)
(* quiesce.go): the leader promises that nothing at or below T will ever   *)
(* be written, through the log while the range is busy, beside it while it *)
(* is not, and for all its quiescent ranges at once while they sleep; a    *)
(* follower serves stale reads from the promise. Requests that wake the    *)
(* range race the promises. One follower is watched; a third replica may   *)
(* take the leadership over.                                               *)
(***************************************************************************)
EXTENDS Integers, Sequences, FiniteSets

CONSTANTS Requests,      \* writes, one at a time each
          Lag,           \* ClosedTimestampLag
          Environments   \* circumstances, see Init

VARIABLES env,
          now,           \* the leader's clock
          term,          \* raft: the newest leadership
          log, commit,   \* raft: the leader's log and commit index
          quiet,         \* Replica.mu.quiescent, on the leader
          floor,         \* the floor of the leader's timestamp cache
          registered,    \* sideRegistered: the follower was told of the range
          group, woken,  \* Store.side: groupTS, and whether the range is in woken
          mine,          \* sideClosedTS on the leader
          logged,        \* closedTSLogged
          req,           \* requests inside Execute
          round,         \* the publisher's round
          out, net,      \* the heartbeat queue's closed entries; envelopes sent
          fol            \* the follower: term, applied index, side promise, registry

leader == <<quiet, floor, registered, mine, logged>>
store  == <<group, woken, out>>
vars   == <<env, now, term, log, commit, quiet, floor, registered, group, woken, mine,
            logged, req, round, out, net, fol>>

Later(a, b) == IF a < b THEN b ELSE a
NoRequest   == [pc |-> "idle", ts |-> 0, was |-> FALSE, at |-> 0]
NoRound == [pc |-> "idle", target |-> 0, dest |-> FALSE, at |-> 0]
Empty   == [kind |-> "empty", ts |-> 0]   \* the first entry of a leadership
NoReg   == [term |-> 0, index |-> 0]
ClosedIn(n) == LET c == {log[i].ts : i \in {j \in 1 .. n : log[j].kind = "closed"}}
               IN  CHOOSE t \in c \cup {0} : \A u \in c : u <= t
FollowerClosed == Later(ClosedIn(fol.applied), fol.side)
LeaderClosed   == Later(Later(ClosedIn(commit), mine), IF quiet /\ registered THEN group ELSE 0)

\* Exclusive latches: from the timestamp-cache check until the write applied.
InFlight == {q \in Requests : req[q].pc \in {"held", "proposed"}}
Waking   == {q \in Requests : req[q].pc \in {"note", "bump"}}

(***************************************************************************)
(* Execute: a request wakes the range. unquiesce clears the flag first,    *)
(* notes the wake next, and forwards the cache floor to the group promise  *)
(* last; a request that finds the range awake does none of that.           *)
(***************************************************************************)
Arrive(q, ts) ==
  /\ q \in env.requests /\ req[q].pc = "idle" /\ (env.racing \/ Waking = {})
  /\ req' = [req EXCEPT ![q] = [pc |-> IF quiet THEN "note" ELSE "ready", ts |-> ts,
                                  was |-> registered, at |-> 0]]
  /\ quiet' = FALSE /\ registered' = FALSE
  /\ UNCHANGED <<env, now, term, log, commit, floor, mine, logged, store, round, net, fol>>

WakeNote(q) ==
  /\ req[q].pc = "note"
  /\ woken' = (woken \/ req[q].was)
  /\ req' = [req EXCEPT ![q].pc = "bump"]
  /\ UNCHANGED <<env, now, term, log, commit, leader, group, out, round, net, fol>>

WakeBump(q) ==
  /\ req[q].pc = "bump"
  /\ floor' = Later(floor, group)
  /\ req' = [req EXCEPT ![q].pc = "ready"]
  /\ UNCHANGED <<env, now, term, log, commit, quiet, registered, mine, logged, store, round, net, fol>>

\* The latch and the cache check, and a write pushed above the floor.
Check(q) ==
  /\ req[q].pc = "ready" /\ InFlight = {}
  /\ req' = [req EXCEPT ![q].pc = "held", ![q].ts = IF @ <= floor THEN floor + 1 ELSE @]
  /\ UNCHANGED <<env, now, term, log, commit, leader, store, round, net, fol>>

\* proposeCmd wakes the range again, which is too late for the check.
Propose(q) ==
  /\ req[q].pc = "held"
  /\ log' = Append(log, [kind |-> "write", ts |-> req[q].ts])
  /\ quiet' = FALSE /\ registered' = FALSE
  /\ woken' = (woken \/ (quiet /\ registered))
  /\ floor' = IF quiet THEN Later(floor, group) ELSE floor
  /\ req' = [req EXCEPT ![q].pc = "proposed", ![q].at = Len(log')]
  /\ UNCHANGED <<env, now, term, commit, mine, logged, group, out, round, net, fol>>

\* Raft commits and the leader applies; the request's latch is released.
Commit ==
  /\ commit < Len(log)
  /\ commit' = commit + 1
  /\ req' = [q \in Requests |-> IF req[q].at = commit' THEN NoRequest ELSE req[q]]
  /\ round' = IF round.at = commit' THEN [round EXCEPT !.pc = "group", !.at = 0] ELSE round
  /\ logged' = IF round.at = commit' THEN Len(log) ELSE logged
  /\ UNCHANGED <<env, now, term, log, quiet, floor, registered, mine, store, net, fol>>

\* maybeQuiesce: nothing proposed, everything applied and replicated. It does
\* not see a request that has not proposed yet.
Quiesce ==
  /\ ~quiet /\ commit = Len(log)
  /\ env.sleeps /\ (env.sleepy \/ \A q \in Requests : req[q].pc = "idle")
  /\ round.pc # "proposed"
  /\ quiet' = TRUE
  /\ UNCHANGED <<env, now, term, log, commit, floor, registered, mine, logged, store, req, round, net, fol>>

(***************************************************************************)
(* A publication round: the promise first, then the wakes, then the range  *)
(* itself, and the group promise last.                                     *)
(***************************************************************************)
Wake  == [kind |-> "wake", term |-> 0, index |-> 0, ts |-> 0]
Group(t) == [kind |-> "group", term |-> 0, index |-> 0, ts |-> t]
Promise(t) == [kind |-> "range", term |-> term, index |-> Len(log), ts |-> t]

RoundStart ==
  /\ round.pc = "idle" /\ now - Lag > group
  /\ group' = Later(group, now - Lag)
  /\ out' = IF woken THEN Append(out, Wake) ELSE out
  /\ woken' = FALSE
  /\ round' = [pc |-> "visit", target |-> now - Lag, dest |-> env.others, at |-> 0]
  /\ UNCHANGED <<env, now, term, log, commit, leader, req, net, fol>>

Visit ==
  /\ round.pc = "visit"
  /\ round' = [round EXCEPT !.dest = @ \/ quiet,
       !.pc = IF quiet THEN (IF registered THEN "group" ELSE "register")
              ELSE IF LeaderClosed >= round.target THEN "group"
              ELSE IF Len(log) # logged THEN "log" ELSE "side"]
  /\ UNCHANGED <<env, now, term, log, commit, leader, store, req, net, fol>>

\* seeded fault: the writes in flight are not waited for
DrainAtOnce ==
  /\ round.pc \in {"register", "log", "side"}
  /\ floor' = Later(floor, round.target)
  /\ round' = [round EXCEPT !.pc = CASE @ = "register" -> "enroll" [] @ = "log" -> "propose" [] OTHER -> "send"]
  /\ UNCHANGED <<env, now, term, log, commit, quiet, registered, mine, logged, store, req, net, fol>>

\* The promise of all three paths: a shared latch on the whole range drains the
\* writes in flight, and the floor moves up under it.
Drain ==
  /\ round.pc \in {"register", "log", "side"} /\ InFlight = {}
  /\ floor' = Later(floor, round.target)
  /\ round' = [round EXCEPT !.pc = CASE @ = "register" -> "enroll" [] @ = "log" -> "propose" [] OTHER -> "send"]
  /\ UNCHANGED <<env, now, term, log, commit, quiet, registered, mine, logged, store, req, net, fol>>

\* The latch is not had in time: the range is passed over, the group is not.
Expire ==
  /\ env.expires /\ round.pc \in {"register", "log", "side"} /\ InFlight # {}
  /\ round' = [round EXCEPT !.pc = "group"]
  /\ UNCHANGED <<env, now, term, log, commit, leader, store, req, net, fol>>

\* registerClosedTimestamp, unless the range woke meanwhile.
Enroll ==
  /\ round.pc = "enroll"
  /\ IF quiet
     THEN /\ registered' = TRUE /\ mine' = Later(mine, round.target)
          /\ out' = Append(out, Promise(round.target))
     ELSE UNCHANGED <<registered, mine, out>>
  /\ round' = [round EXCEPT !.pc = "group"]
  /\ UNCHANGED <<env, now, term, log, commit, quiet, floor, logged, group, woken, req, net, fol>>

\* publishClosedTimestampSide: the index is read after the latch is released.
SendSide ==
  /\ round.pc = "send"
  /\ mine' = Later(mine, round.target)
  /\ out' = Append(out, Promise(round.target))
  /\ round' = [round EXCEPT !.pc = "group"]
  /\ UNCHANGED <<env, now, term, log, commit, quiet, floor, registered, logged, group, woken, req, net, fol>>

\* publishClosedTimestamp: the promise rides the log and wakes the range.
ProposeClosed ==
  /\ round.pc = "propose"
  /\ log' = Append(log, [kind |-> "closed", ts |-> round.target])
  /\ quiet' = FALSE /\ registered' = FALSE
  /\ woken' = (woken \/ (quiet /\ registered))
  /\ floor' = IF quiet THEN Later(floor, group) ELSE floor
  /\ round' = [round EXCEPT !.pc = "proposed", !.at = Len(log')]
  /\ UNCHANGED <<env, now, term, commit, mine, logged, group, out, req, net, fol>>

SendGroup ==
  /\ round.pc = "group"
  /\ out' = IF round.dest THEN Append(out, Group(round.target)) ELSE out
  /\ round' = NoRound
  /\ UNCHANGED <<env, now, term, log, commit, leader, group, woken, req, net, fol>>

\* sendQueuedHeartbeats, by the round or by any scheduler pass.
Flush ==
  /\ out # <<>>
  /\ net' = net \o out
  /\ out' = <<>>
  /\ UNCHANGED <<env, now, term, log, commit, leader, group, woken, req, round, fol>>

Lose ==
  /\ env.lossy /\ out # <<>>
  /\ out' = <<>>
  /\ UNCHANGED <<env, now, term, log, commit, leader, group, woken, req, round, net, fol>>

(***************************************************************************)
(* The follower: acceptClosedTimestamp and its registry.                   *)
(***************************************************************************)
Accepts(e) == fol.term = e.term /\ fol.applied >= e.index

Deliver ==
  /\ net # <<>> /\ (env.slow \/ fol.applied = commit)
  /\ LET e == Head(net)
         r == IF e.kind = "group" THEN fol.reg ELSE [term |-> e.term, index |-> e.index]
         ok == e.kind # "wake" /\ r # NoReg /\ Accepts(r)
     IN  fol' = [fol EXCEPT !.side = IF ok THEN Later(@, e.ts) ELSE @,
                            !.reg = IF ok /\ r.index > 0 THEN r
                                    ELSE IF e.kind = "range" THEN @ ELSE NoReg]
  /\ net' = Tail(net)
  /\ UNCHANGED <<env, now, term, log, commit, leader, store, req, round>>

Apply ==
  /\ fol.applied < commit
  /\ fol' = [fol EXCEPT !.applied = @ + 1, !.term = term]
  /\ UNCHANGED <<env, now, term, log, commit, leader, store, req, round, net>>

\* Another replica wins an election: what was not committed is lost or kept, the
\* new leader's cache starts at its clock, the old one's requests are answered.
Elect ==
  /\ term < env.terms
  /\ term' = term + 1
  /\ \E n \in commit .. Len(log) : log' = Append(SubSeq(log, 1, n), Empty)
  /\ quiet' = FALSE /\ registered' = FALSE /\ mine' = 0 /\ logged' = 0
  /\ floor' = now /\ group' = 0 /\ woken' = FALSE /\ out' = <<>>
  /\ req' = [q \in Requests |-> NoRequest] /\ round' = NoRound
  /\ UNCHANGED <<env, now, commit, net, fol>>

Hear ==
  /\ fol.term < term
  /\ fol' = [fol EXCEPT !.term = term]
  /\ UNCHANGED <<env, now, term, log, commit, leader, store, req, round, net>>

Tick ==
  /\ now < env.until
  /\ now' = now + 1
  /\ UNCHANGED <<env, term, log, commit, leader, store, req, round, net, fol>>

Init ==
  /\ env \in Environments
  /\ now = 1 /\ term = 1 /\ log = <<Empty>> /\ commit = 1
  /\ quiet = FALSE /\ floor = 0 /\ registered = FALSE /\ group = 0 /\ woken = FALSE
  /\ mine = 0 /\ logged = 0
  /\ req = [q \in Requests |-> NoRequest] /\ round = NoRound /\ out = <<>> /\ net = <<>>
  /\ fol = [term |-> 1, applied |-> 1, side |-> 0, reg |-> NoReg]

Written == Cardinality({i \in DOMAIN log : log[i].kind = "write"})

Next ==
  \/ \E q \in Requests :
       \/ \E ts \in 1 .. now : Written < env.writes /\ Arrive(q, ts)
       \/ WakeNote(q) \/ WakeBump(q) \/ Check(q) \/ Propose(q)
  \/ Commit \/ Quiesce \/ RoundStart \/ Visit \/ Drain \/ Expire \/ Enroll \/ SendSide \/ ProposeClosed
  \/ SendGroup \/ Flush \/ Lose \/ Deliver \/ Apply \/ Elect \/ Hear \/ Tick

Spec == Init /\ [][Next]_vars
-----------------------------------------------------------------------------
\* Every index and timestamp is one that exists.
TypeOK ==
  /\ commit \in 0 .. Len(log) /\ fol.applied \in 0 .. commit /\ fol.term \in 1 .. term
  /\ {floor, group, mine, fol.side} \subseteq 0 .. (env.until + 1)
  /\ logged \in 0 .. Len(log) /\ fol.reg.index \in Nat
  /\ \A q \in Requests : req[q].pc \in {"idle", "note", "bump", "ready", "held", "proposed"}

\* "no write at or below T will ever commit on this range" (closedts.go): nothing
\* the follower has still to apply, and no write that has passed its check, lies at
\* or below the timestamp the follower serves stale reads at.
ClosedIsClosed ==
  /\ \A i \in (fol.applied + 1) .. Len(log) : log[i].kind = "write" => log[i].ts > FollowerClosed
  /\ \A q \in Requests : req[q].pc = "held" => req[q].ts > FollowerClosed
=============================================================================
