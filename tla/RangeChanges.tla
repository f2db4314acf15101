---------------------------- MODULE RangeChanges ----------------------------
(***************************************************************************)
(* Changes of range descriptors: splits (split.go), merges (merge.go),     *)
(* replica changes (replicate.go) and the requests that run beside them    *)
(* (Execute in replica.go).                                                *)
(*                                                                         *)
(* Two adjacent ranges "l" and "r" start on the same nodes.  Each range    *)
(* has one committed log; every replica applies it at its own pace and     *)
(* Apply is the state machine of apply.go.  An administrative operation is *)
(* a process on the node that leads its range: it reads the descriptor,    *)
(* does something slow (a range id, a snapshot, a round of confirmations), *)
(* and proposes a command built from what it read.  What makes this sound  *)
(* is the generation check every replica repeats at apply time, the latch  *)
(* a split, a subsume and a merge hold over the whole range, and the       *)
(* freeze.                                                                 *)
(*                                                                         *)
(* Raft is external: a proposal is committed when it is appended, a        *)
(* replica learns entries while a majority of its group exists.            *)
(***************************************************************************)
EXTENDS Integers, Sequences, FiniteSets, TLC

CONSTANTS
    Nodes,        \* the nodes; Home of them hold both ranges at the start
    Home,
    SplitKeys,    \* the keys AdminSplit may be called with, once each
    Changes,      \* the AdminChangeReplicas calls: [range, node, add]
    Writes,       \* the keys of the write requests, one request each
    Environments, \* records with the fields of env
    NoNode        \* no node

ASSUME RangeChangesAssumption ==
    /\ Home \subseteq Nodes
    /\ Home # {}
    /\ SplitKeys \subseteq {2, 4}
    /\ Writes \subseteq 1..4
    /\ NoNode \notin Nodes
    /\ \A e \in Environments :
         /\ e.splits \subseteq SplitKeys /\ e.changes \subseteq Changes
         /\ e.writes \subseteq Writes
         /\ e.timeouts \in Nat /\ e.moves \in Nat
         /\ {e.merges, e.lagging, e.snapshots} \subseteq BOOLEAN

Keys   == 1..4

\* "l" is [1,3), "r" is [3,5); a split at k creates the range "s"k.
NewRange(k) == IF k = 2 THEN "s2" ELSE "s4"
Ranges == {"l", "r"} \cup {NewRange(k) : k \in SplitKeys}

Descriptor == [id : Ranges, lo : 1..5, hi : 1..5, nodes : SUBSET Nodes, gen : 1..9]
ContainsKey(desc, k) == desc.lo <= k /\ k < desc.hi

\* A node's place for a range: no replica, or one with its descriptor, the
\* range it is frozen for ("" when it serves), its applied index, and
\* whether it is a preseeded replica that has not applied its own addition.
NoReplica == [exists |-> FALSE]
NewReplica(desc, at, seeded) ==
    [exists |-> TRUE, desc |-> desc, mergedInto |-> "", applied |-> at, seeded |-> seeded]

VARIABLES
    env,      \* the environment of this behaviour, chosen at the start:
              \*   splits, changes, writes: the calls that are made
              \*   merges: whether housekeeping merges ranges
              \*   timeouts: how often a merge gives up on a confirmation
              \*   moves: how often raft leadership moves by itself
              \*   lagging: whether a new leader may have committed entries to apply
              \*   snapshots: whether a lagging follower is caught up by snapshot
    log,      \* the committed log of every range
    rep,      \* every node's replica of every range
    data,     \* the keys written in every node's state engine
    lead,     \* the raft leader of every range
    latch,    \* held latches: [node, range, by, whole]
    split, change, write, merge,    \* the operations under way
    timeouts, moves,                \* merges given up, leaders moved
    fatal     \* nodes that stopped in log.Fatalf

logs == <<log, lead, moves>>
ops  == <<split, change, write, merge, timeouts, latch>>
vars == <<env, log, rep, data, lead, latch, split, change, write, merge, timeouts, moves, fatal>>

Idle == [pc |-> "idle"]
Done == [pc |-> "done"]

Init ==
    LET l == [id |-> "l", lo |-> 1, hi |-> 3, nodes |-> Home, gen |-> 1]
        r == [id |-> "r", lo |-> 3, hi |-> 5, nodes |-> Home, gen |-> 1]
    IN /\ env \in Environments
       /\ log = [q \in Ranges |-> <<>>]
       /\ rep = [n \in Nodes |-> [q \in Ranges |->
                    IF n \in Home /\ q = "l" THEN NewReplica(l, 0, FALSE)
                    ELSE IF n \in Home /\ q = "r" THEN NewReplica(r, 0, FALSE)
                    ELSE NoReplica]]
       /\ data = [n \in Nodes |-> {}]
       /\ \E n \in Home : lead = [q \in Ranges |-> IF q \in {"l", "r"} THEN n ELSE NoNode]
       /\ latch = {}
       /\ split = [k \in SplitKeys |-> Idle]
       /\ change = [c \in Changes |-> Idle]
       /\ write = [k \in Writes |-> Idle]
       /\ merge = Idle
       /\ timeouts = 0 /\ moves = 0 /\ fatal = {}

Leads(n, q)    == n \notin fatal /\ lead[q] = n /\ rep[n][q].exists
Serves(n, q)   == Leads(n, q) /\ rep[n][q].mergedInto = ""
Latched(n, q)  == \E h \in latch : h.node = n /\ h.range = q
Excluded(n, q) == \E h \in latch : h.node = n /\ h.range = q /\ h.whole
Hold(n, q, by, whole) == [node |-> n, range |-> q, by |-> by, whole |-> whole]
Held(by)       == {h \in latch : h.by = by}

Propose(q, cmd) == log' = [log EXCEPT ![q] = Append(@, cmd)]
NextIndex(q)    == Len(log[q]) + 1

\* Raft elects only a replica that holds the whole log; it may not have applied it.
MayLead(n, q) == rep[n][q].exists /\ (env.lagging \/ rep[n][q].applied = Len(log[q]))

\* proposeCmd has its answer: the command was applied here, or the replica stopped.
Answered(n, q, at) == rep[n][q].exists /\ n \notin fatal => rep[n][q].applied >= at
-----------------------------------------------------------------------------
(* AdminSplit.                                                             *)

\* The frozen check, the bounds check and the trigger; a range id is fetched.
SplitStart(k) ==
    /\ k \in env.splits /\ split[k] = Idle
    /\ \E n \in Nodes, q \in Ranges :
         /\ Serves(n, q)
         /\ LET desc == rep[n][q].desc IN
            /\ ContainsKey(desc, k) /\ k # desc.lo
            /\ split' = [split EXCEPT ![k] =
                 [pc |-> "built", node |-> n, range |-> q,
                  left  |-> [desc EXCEPT !.hi = k, !.gen = @ + 1],
                  right |-> [desc EXCEPT !.id = NewRange(k), !.lo = k, !.gen = @ + 1]]]
    /\ UNCHANGED <<env, logs, rep, data, fatal, change, write, merge, timeouts, latch>>

SplitPropose(k) ==
    LET s == split[k] IN
    /\ s.pc = "built" /\ ~Latched(s.node, s.range)
    /\ IF Leads(s.node, s.range)
         THEN /\ Propose(s.range, [op |-> "split", left |-> s.left, right |-> s.right])
              /\ latch' = latch \cup {Hold(s.node, s.range, <<"split", k>>, TRUE)}
              /\ split' = [split EXCEPT ![k] = [pc |-> "proposed", node |-> s.node,
                                                range |-> s.range, at |-> NextIndex(s.range)]]
         ELSE split' = [split EXCEPT ![k] = Done] /\ UNCHANGED <<log, latch>>
    /\ UNCHANGED <<env, lead, moves, rep, data, fatal, change, write, merge, timeouts>>

SplitEnd(k) ==
    /\ split[k].pc = "proposed"
    /\ Answered(split[k].node, split[k].range, split[k].at)
    /\ latch' = latch \ Held(<<"split", k>>)
    /\ split' = [split EXCEPT ![k] = Done]
    /\ UNCHANGED <<env, logs, rep, data, fatal, change, write, merge, timeouts>>
-----------------------------------------------------------------------------
(* Merges: housekeeping on the node that leads both neighbours.            *)

\* Two neighbours led by n, and what the pass makes of them.
Neighbours(n, x, q) ==
    /\ Serves(n, x) /\ rep[n][q].exists
    /\ rep[n][q].desc.lo = rep[n][x].desc.hi
SameNodes(n, x, q) == rep[n][x].desc.nodes = rep[n][q].desc.nodes

MergeStart(n, x, q) ==
    /\ env.merges /\ merge = Idle
    /\ Neighbours(n, x, q) /\ SameNodes(n, x, q) /\ Leads(n, q)
    /\ merge' = [pc |-> "subsume", node |-> n, lhs |-> x, rhs |-> q]
    /\ UNCHANGED <<env, logs, rep, data, fatal, split, change, write, timeouts, latch>>

\* Crashed mid-merge and the memberships differ: the freeze is undone.
TryUnfreeze(n, x, q) ==
    /\ merge = Idle
    /\ Neighbours(n, x, q) /\ ~SameNodes(n, x, q)
    /\ rep[n][q].mergedInto = x /\ Leads(n, q) /\ ~Latched(n, q)
    /\ Propose(q, [op |-> "unfreeze"])
    /\ latch' = latch \cup {Hold(n, q, <<"merge">>, TRUE)}
    /\ merge' = [pc |-> "proposed", node |-> n, range |-> q, at |-> NextIndex(q)]
    /\ UNCHANGED <<env, lead, moves, rep, data, fatal, split, change, write, timeouts>>

\* Leadership of a neighbour that is to be merged is pulled here.
PullLeader(n, x, q) ==
    /\ env.merges /\ merge = Idle
    /\ Neighbours(n, x, q) /\ SameNodes(n, x, q)
    /\ lead[q] \notin {n, NoNode} /\ MayLead(n, q)
    /\ lead' = [lead EXCEPT ![q] = n]
    /\ UNCHANGED <<env, log, moves, rep, data, fatal, ops>>

\* Phase 1: Execute the Subsume, under an exclusive latch over the range.
Subsume ==
    /\ merge.pc = "subsume" /\ ~Latched(merge.node, merge.rhs)
    /\ IF Leads(merge.node, merge.rhs)
         THEN /\ Propose(merge.rhs, [op |-> "subsume", into |-> merge.lhs])
              /\ latch' = latch \cup {Hold(merge.node, merge.rhs, <<"merge">>, TRUE)}
              /\ merge' = [merge EXCEPT !.pc = "freezing"] @@ [at |-> NextIndex(merge.rhs)]
         ELSE merge' = Idle /\ UNCHANGED <<log, latch>>
    /\ UNCHANGED <<env, lead, moves, rep, data, fatal, split, change, write, timeouts>>

MergeTriggerEarly(left, right, at) ==   \* seeded fault: the subsume index is read before the subsume applies
    [op |-> "merge", left |-> left, right |-> right, at |-> 0,
     merged |-> [left EXCEPT !.hi = right.hi,
                             !.gen = IF right.gen > @ THEN right.gen + 1 ELSE @ + 1]]
\* The merge trigger, from both descriptors re-read behind the subsume.
MergeTrigger(left, right, at) ==
    [op |-> "merge", left |-> left, right |-> right, at |-> at,
     merged |-> [left EXCEPT !.hi = right.hi,
                             !.gen = IF right.gen > @ THEN right.gen + 1 ELSE @ + 1]]

Frozen ==
    LET x == rep[merge.node][merge.lhs]
        q == rep[merge.node][merge.rhs]
    IN /\ merge.pc = "freezing" /\ Answered(merge.node, merge.rhs, merge.at)
       /\ latch' = latch \ Held(<<"merge">>)
       /\ merge' = IF x.exists /\ q.exists /\ x.desc.hi = q.desc.lo
                     THEN [pc |-> "confirming", node |-> merge.node, lhs |-> merge.lhs,
                           trig |-> MergeTrigger(x.desc, q.desc, q.applied),
                           waiting |-> q.desc.nodes \ {merge.node}]
                     ELSE Idle
       /\ UNCHANGED <<env, logs, rep, data, fatal, split, change, write, timeouts>>

ConfirmSkipped(m) ==    \* seeded fault: the confirmation is skipped
    /\ merge.pc = "confirming" /\ m \in merge.waiting
    /\ merge' = [merge EXCEPT !.waiting = @ \ {m}]
    /\ UNCHANGED <<env, logs, rep, data, fatal, split, change, write, timeouts, latch>>
\* WaitForApplication on one replica of the right-hand side.
Confirm(m) ==
    /\ merge.pc = "confirming" /\ m \in merge.waiting
    /\ LET q == rep[m][merge.trig.right.id] IN q.exists /\ q.applied >= merge.trig.at
    /\ merge' = [merge EXCEPT !.waiting = @ \ {m}]
    /\ UNCHANGED <<env, logs, rep, data, fatal, split, change, write, timeouts, latch>>

\* mergeApplicationWait passes: the merge is left to a later pass.
GiveUp ==
    /\ merge.pc = "confirming" /\ merge.waiting # {}
    /\ timeouts < env.timeouts /\ timeouts' = timeouts + 1
    /\ merge' = Idle
    /\ UNCHANGED <<env, logs, rep, data, fatal, split, change, write, latch>>

\* Phase 2: the merge command on the left-hand side.
MergePropose ==
    /\ merge.pc = "confirming" /\ merge.waiting = {}
    /\ ~Latched(merge.node, merge.lhs)
    /\ IF Leads(merge.node, merge.lhs)
         THEN /\ Propose(merge.lhs, merge.trig)
              /\ latch' = latch \cup {Hold(merge.node, merge.lhs, <<"merge">>, TRUE)}
              /\ merge' = [pc |-> "proposed", node |-> merge.node, range |-> merge.lhs,
                           at |-> NextIndex(merge.lhs)]
         ELSE merge' = Idle /\ UNCHANGED <<log, latch>>
    /\ UNCHANGED <<env, lead, moves, rep, data, fatal, split, change, write, timeouts>>

MergeEnd ==
    /\ merge.pc = "proposed" /\ Answered(merge.node, merge.range, merge.at)
    /\ latch' = latch \ Held(<<"merge">>)
    /\ merge' = Idle
    /\ UNCHANGED <<env, logs, rep, data, fatal, split, change, write, timeouts>>
-----------------------------------------------------------------------------
(* AdminChangeReplicas.                                                    *)

\* The frozen check and the new descriptor; nothing is latched.
ChangeStart(c) ==
    /\ c \in env.changes /\ change[c] = Idle
    /\ \E n \in Nodes :
         /\ Serves(n, c.range)
         /\ LET desc == rep[n][c.range].desc IN
            /\ (c.node \in desc.nodes) = ~c.add
            /\ c.node # n
            /\ change' = [change EXCEPT ![c] =
                 [pc |-> IF c.add THEN "seed" ELSE "conf", node |-> n, prior |-> desc,
                  desc |-> [desc EXCEPT !.nodes = IF c.add THEN @ \cup {c.node} ELSE @ \ {c.node},
                                        !.gen = @ + 1]]]
    /\ UNCHANGED <<env, logs, rep, data, fatal, split, write, merge, timeouts, latch>>

\* The part of a node's engine a snapshot of desc replaces.
Seeded(m, n, desc) ==
    {k \in data[m] : ~ContainsKey(desc, k)} \cup {k \in data[n] : ContainsKey(desc, k)}

StaleLeftover(m, c) ==
    LET r == rep[m][c.range] IN
    /\ r.desc.gen <= change[c].prior.gen
    /\ m \notin change[c].prior.nodes

OverlapsLive(m, q) ==
    \E o \in Ranges \ {q} : /\ rep[m][o].exists
                            /\ rep[m][o].desc.lo < rep[m][q].desc.hi
                            /\ rep[m][q].desc.lo < rep[m][o].desc.hi

\* ApplySnapshotStream on the node to be added: a new replica, in place of
\* a stale leftover if there is one.  On any other replica installSnapshot
\* only stages the stream, for a raft snapshot that is not sent, or refuses.
Preseed(c) ==
    LET n == change[c].node
        m == c.node
        r == rep[m][c.range]
        accepted == \/ ~r.exists
                    \/ StaleLeftover(m, c) /\ ~OverlapsLive(m, c.range)
        staged == /\ ~StaleLeftover(m, c) /\ r.applied < rep[n][c.range].applied
                  /\ r.desc.lo = change[c].desc.lo /\ r.desc.hi = change[c].desc.hi
    IN /\ change[c].pc = "seed" /\ rep[n][c.range].exists
       /\ IF accepted
            THEN /\ rep' = [rep EXCEPT ![m][c.range] =
                              NewReplica(change[c].desc, rep[n][c.range].applied, TRUE)]
                 /\ data' = [data EXCEPT ![m] = Seeded(m, n, change[c].desc)]
                 /\ change' = [change EXCEPT ![c].pc = "conf"]
            ELSE /\ change' = [change EXCEPT ![c] = IF staged THEN [@ EXCEPT !.pc = "conf"] ELSE Done]
                 /\ UNCHANGED <<rep, data>>
       /\ UNCHANGED <<env, logs, fatal, split, write, merge, timeouts, latch>>

\* raft refuses to hold two conf changes that are not applied: the second
\* becomes an empty entry.
PendingConf(n, q) ==
    \E i \in rep[n][q].applied + 1 .. Len(log[q]) : log[q][i].op = "conf"

ProposeConfChange(c) ==
    LET n == change[c].node IN
    /\ change[c].pc = "conf"
    /\ change' = [change EXCEPT ![c] = Done]
    /\ IF Leads(n, c.range)
         THEN Propose(c.range, IF PendingConf(n, c.range) THEN [op |-> "noop"]
                               ELSE [op |-> "conf", desc |-> change[c].desc])
         ELSE UNCHANGED log
    /\ UNCHANGED <<env, lead, moves, rep, data, fatal, split, write, merge, timeouts, latch>>
-----------------------------------------------------------------------------
(* Write requests: Execute.                                                *)

\* isLeader and checkKeyBounds.
CheckKeyBounds(k) ==
    /\ k \in env.writes /\ write[k] = Idle
    /\ \E n \in Nodes, q \in Ranges :
         /\ Leads(n, q) /\ ContainsKey(rep[n][q].desc, k)
         /\ write' = [write EXCEPT ![k] = [pc |-> "checked", node |-> n, range |-> q]]
    /\ UNCHANGED <<env, logs, rep, data, fatal, split, change, merge, timeouts, latch>>

\* The latch, then checkFrozen, then the proposal.
WritePropose(k) ==
    LET w == write[k] IN
    /\ w.pc = "checked" /\ ~Excluded(w.node, w.range)
    /\ IF Serves(w.node, w.range)
         THEN /\ Propose(w.range, [op |-> "write", key |-> k])
              /\ latch' = latch \cup {Hold(w.node, w.range, <<"write", k>>, FALSE)}
              /\ write' = [write EXCEPT ![k] = [pc |-> "proposed", node |-> w.node,
                                                range |-> w.range, at |-> NextIndex(w.range)]]
         ELSE write' = [write EXCEPT ![k] = Idle] /\ UNCHANGED <<log, latch>>
    /\ UNCHANGED <<env, lead, moves, rep, data, fatal, split, change, merge, timeouts>>

\* The outcome: applied and acknowledged, or unknown.
WriteEnd(k) ==
    LET w == write[k] IN
    /\ w.pc = "proposed" /\ Answered(w.node, w.range, w.at)
    /\ latch' = latch \ Held(<<"write", k>>)
    /\ write' = [write EXCEPT ![k] =
         [pc |-> IF rep[w.node][w.range].exists /\ w.node \notin fatal THEN "acked" ELSE "unknown"]]
    /\ UNCHANGED <<env, logs, rep, data, fatal, split, change, merge, timeouts>>
-----------------------------------------------------------------------------
(* Raft, and the state machine of apply.go.                                *)

\* n can still learn q's log: its group has a majority, and counts n.
Learns(n, q) ==
    LET nodes  == rep[n][q].desc.nodes
        alive  == {m \in nodes : rep[m][q].exists /\ m \notin fatal}
        leader == lead[q]
    IN /\ n = leader \/ 2 * Cardinality(alive) > Cardinality(nodes)
       /\ IF leader # NoNode /\ rep[leader][q].exists
            THEN n \in rep[leader][q].desc.nodes
            ELSE ~rep[n][q].seeded

CanApply(n, q, op) ==
    /\ n \notin fatal /\ rep[n][q].exists
    /\ rep[n][q].applied < Len(log[q])
    /\ log[q][rep[n][q].applied + 1].op = op
    /\ Learns(n, q)
Entry(n, q)   == log[q][rep[n][q].applied + 1]
Advanced(n, q) == [rep EXCEPT ![n][q].applied = @ + 1]

NeverStale(current, produced) == FALSE  \* seeded fault: the generation is not compared at apply
StaleDescriptorChange(current, produced) == produced # current + 1

ApplyNoop(n, q) ==
    /\ CanApply(n, q, "noop")
    /\ rep' = Advanced(n, q)
    /\ UNCHANGED <<env, logs, data, fatal, ops>>

ApplyWrite(n, q) ==
    /\ CanApply(n, q, "write")
    /\ rep' = Advanced(n, q)
    /\ data' = [data EXCEPT ![n] = @ \cup {Entry(n, q).key}]
    /\ UNCHANGED <<env, logs, fatal, ops>>

ApplySubsume(n, q) ==
    /\ CanApply(n, q, "subsume")
    /\ rep' = [Advanced(n, q) EXCEPT ![n][q].mergedInto = Entry(n, q).into]
    /\ UNCHANGED <<env, logs, data, fatal, ops>>

ApplyUnfreeze(n, q) ==
    /\ CanApply(n, q, "unfreeze")
    /\ rep' = [Advanced(n, q) EXCEPT ![n][q].mergedInto = ""]
    /\ UNCHANGED <<env, logs, data, fatal, ops>>

\* stageSplit and finishSplit: the leader campaigns for the new range.
ApplySplit(n, q) ==
    LET e == Entry(n, q)
        stale == StaleDescriptorChange(rep[n][q].desc.gen, e.left.gen)
    IN /\ CanApply(n, q, "split")
       /\ rep' = IF stale THEN Advanced(n, q)
                 ELSE [Advanced(n, q) EXCEPT
                         ![n][q].desc = e.left,
                         ![n][e.right.id] = IF n \in e.right.nodes
                                              THEN NewReplica(e.right, 0, FALSE) ELSE @]
       /\ lead' = IF ~stale /\ lead[q] = n /\ lead[e.right.id] = NoNode
                    THEN [lead EXCEPT ![e.right.id] = n] ELSE lead
       /\ UNCHANGED <<env, log, moves, data, fatal, ops>>

\* stageMerge: refused when the left-hand side has moved on; otherwise the
\* local right-hand side must exist and must have reached the subsume, and
\* is absorbed if it is the one the trigger was built from.
ApplyMerge(n, q) ==
    LET e     == Entry(n, q)
        right == rep[n][e.right.id]
        fresh == rep[n][q].desc.gen = e.left.gen
    IN /\ CanApply(n, q, "merge")
       /\ fresh /\ right.exists => right.applied >= e.at
       /\ rep' = IF fresh /\ ~right.exists THEN rep
                 ELSE IF fresh /\ right.desc.gen = e.right.gen /\ right.desc.hi = e.merged.hi
                        THEN [Advanced(n, q) EXCEPT ![n][q].desc = e.merged,
                                                    ![n][e.right.id] = NoReplica]
                 ELSE Advanced(n, q)
       /\ fatal' = IF fresh /\ ~right.exists THEN fatal \cup {n} ELSE fatal
       /\ UNCHANGED <<env, logs, data, ops>>

\* A conf change: refused when stale; the node it removes wipes its replica.
ApplyConf(n, q) ==
    LET e     == Entry(n, q)
        cur   == rep[n][q].desc
        stale == StaleDescriptorChange(cur.gen, e.desc.gen) /\ cur # e.desc
        gone  == ~stale /\ n \notin e.desc.nodes
    IN /\ CanApply(n, q, "conf")
       /\ rep' = IF stale THEN Advanced(n, q)
                 ELSE IF gone THEN [rep EXCEPT ![n][q] = NoReplica]
                 ELSE [Advanced(n, q) EXCEPT ![n][q].desc = e.desc, ![n][q].seeded = FALSE]
       /\ data' = IF gone THEN [data EXCEPT ![n] = {k \in @ : ~ContainsKey(e.desc, k)}] ELSE data
       /\ UNCHANGED <<env, logs, fatal, ops>>

\* A follower behind the truncated log gets the leader's state instead
\* (installSnapshot, applySnapshot): descriptor, data and applied index.
CatchUp(n, q) ==
    LET from == rep[lead[q]][q] IN
    /\ env.snapshots /\ n \notin fatal /\ lead[q] \notin {n, NoNode}
    /\ rep[n][q].exists /\ from.exists /\ n \in from.desc.nodes
    /\ rep[n][q].applied < from.applied
    /\ rep[n][q].desc.lo = from.desc.lo /\ rep[n][q].desc.hi = from.desc.hi
    /\ rep' = [rep EXCEPT ![n][q].desc = from.desc, ![n][q].applied = from.applied,
                          ![n][q].seeded = FALSE]
    /\ data' = [data EXCEPT ![n] = Seeded(n, lead[q], from.desc)]
    /\ UNCHANGED <<env, logs, fatal, ops>>

\* An election: at will a bounded number of times, and whenever the leader is gone.
Elect(n, q) ==
    LET old == lead[q] IN
    /\ n # old /\ n \notin fatal
    /\ MayLead(n, q) /\ ~rep[n][q].seeded /\ Learns(n, q)
    /\ lead' = [lead EXCEPT ![q] = n]
    /\ moves' = IF old = NoNode \/ old \in fatal \/ ~rep[old][q].exists THEN moves ELSE moves + 1
    /\ moves' <= env.moves
    /\ UNCHANGED <<env, log, rep, data, fatal, ops>>
-----------------------------------------------------------------------------
Apply(n, q) ==
    \/ ApplyNoop(n, q) \/ ApplyWrite(n, q) \/ ApplySubsume(n, q) \/ ApplyUnfreeze(n, q)
    \/ ApplySplit(n, q) \/ ApplyMerge(n, q) \/ ApplyConf(n, q)

\* One housekeeping pass of a merge that is under way, or that was
\* interrupted: it is driven again whatever the sizes and the load.
Redrive(n, x, q) ==
    /\ rep[n][q].exists /\ rep[n][q].mergedInto = x
    /\ MergeStart(n, x, q) \/ PullLeader(n, x, q) \/ TryUnfreeze(n, x, q)
Drive == Subsume \/ Frozen \/ (\E m \in Nodes : Confirm(m)) \/ MergePropose \/ MergeEnd

Next ==
    \/ \E k \in SplitKeys : SplitStart(k) \/ SplitPropose(k) \/ SplitEnd(k)
    \/ \E n \in Nodes, x, q \in Ranges :
         MergeStart(n, x, q) \/ TryUnfreeze(n, x, q) \/ PullLeader(n, x, q)
    \/ Subsume \/ Frozen \/ GiveUp \/ MergePropose \/ MergeEnd
    \/ \E m \in Nodes : Confirm(m)
    \/ \E c \in Changes : ChangeStart(c) \/ Preseed(c) \/ ProposeConfChange(c)
    \/ \E k \in Writes : CheckKeyBounds(k) \/ WritePropose(k) \/ WriteEnd(k)
    \/ \E n \in Nodes, q \in Ranges :
         \/ ApplyNoop(n, q) \/ ApplyWrite(n, q) \/ ApplySubsume(n, q) \/ ApplyUnfreeze(n, q)
         \/ ApplySplit(n, q) \/ ApplyMerge(n, q) \/ ApplyConf(n, q)
         \/ CatchUp(n, q) \/ Elect(n, q)

Spec == Init /\ [][Next]_vars

\* Every raft group applies what is committed, and operations run on; nobody
\* promises that a call is ever made, that two ranges are small enough to be
\* merged, that leadership moves, or that a confirmation times out.
Fairness ==
    /\ \A n \in Nodes, q \in Ranges : WF_vars(Apply(n, q))
    /\ WF_vars(\E n \in Nodes, x, q \in Ranges : Redrive(n, x, q))
    /\ WF_vars(Drive)
    /\ \A k \in SplitKeys : WF_vars(SplitPropose(k)) /\ WF_vars(SplitEnd(k))
    /\ \A c \in Changes : WF_vars(Preseed(c)) /\ WF_vars(ProposeConfChange(c))
    /\ \A k \in Writes : WF_vars(WriteEnd(k))

FairSpec == Spec /\ Fairness
-----------------------------------------------------------------------------
(* Properties.                                                             *)

\* Type invariant: a replica's descriptor names its own range and its applied
\* index lies within the log.
TypeOK ==
    /\ \A n \in Nodes, q \in Ranges :
         rep[n][q].exists => /\ rep[n][q].desc \in Descriptor /\ rep[n][q].desc.id = q
                             /\ rep[n][q].mergedInto \in Ranges \cup {""}
                             /\ rep[n][q].applied \in 0 .. Len(log[q])
                             /\ rep[n][q].seeded \in BOOLEAN
    /\ data \in [Nodes -> SUBSET Keys]
    /\ lead \in [Ranges -> Nodes \cup {NoNode}]
    /\ \A h \in latch : h.node \in Nodes /\ h.range \in Ranges /\ h.whole \in BOOLEAN
    /\ timeouts \in 0..env.timeouts /\ moves \in 0..env.moves /\ fatal \subseteq Nodes

\* Evaluation at apply is a function of the log position (apply.go): replicas
\* of a range at the same applied index hold the same descriptor and agree on
\* whether the range is frozen.  And a node no replica change touches always
\* has exactly one replica for every key: no change of descriptors makes two
\* ranges of the node claim a key, nor leaves a key to no range (the outcome
\* issues #111 and #200 had).
OneOwner ==
    /\ \A m, n \in Nodes, q \in Ranges :
         LET a == rep[m][q]
             b == rep[n][q]
         IN a.exists /\ b.exists /\ ~a.seeded /\ ~b.seeded /\ a.applied = b.applied
              => a.desc = b.desc /\ a.mergedInto = b.mergedInto
    /\ \A n \in Home \ {c.node : c \in env.changes}, k \in Keys :
         Cardinality({q \in Ranges : rep[n][q].exists /\ ContainsKey(rep[n][q].desc, k)}) = 1

\* A range with no leader applies nothing: but where every range of a node has
\* applied all of its log, an acknowledged write is in the node's engine,
\* whichever range served it and whichever owns its key now.
AckedWritesKept ==
    \A k \in Writes, n \in Nodes :
        (/\ write[k].pc = "acked" /\ n \notin fatal
         /\ \E q \in Ranges : rep[n][q].exists /\ ~rep[n][q].seeded /\ ContainsKey(rep[n][q].desc, k)
         /\ \A q \in Ranges : rep[n][q].exists => rep[n][q].applied = Len(log[q]))
        => k \in data[n]

\* A merge that froze its right-hand side is finished or undone by later
\* passes: no replica stays frozen, or stuck in the merge's apply, for ever
\* (the crash recovery merge.go describes), while nothing else changes the ranges.
MergeSettles ==
    env.splits = {} /\ env.changes = {} =>
    []<>(\A n \in Nodes, q \in Ranges :
           rep[n][q].exists => rep[n][q].mergedInto = "" /\ rep[n][q].applied = Len(log[q]))
=============================================================================
