------------------------------ MODULE SplitStore ------------------------------
(***************************************************************************)
(* One replica of a split store: the raft log, HardState and truncated     *)
(* state live on the raft engine, whose synced commits are durable, and    *)
(* the state machine lives on a state engine without a write-ahead log,    *)
(* whose writes become durable when its memtable flushes.  Whatever a      *)
(* crash takes from the memtable is applied again from the log, so the     *)
(* log may only shrink behind the flush (pkg/kvserver/raftengine.go).      *)
(*                                                                         *)
(* Modelled: the Ready loop's group commit, applies and their sequence     *)
(* numbers, the sampled flush watermark, deferred truncation, a log read   *)
(* by raft, catch-up snapshots, the replica's creation by a split or a     *)
(* preseed, its removal, crashes and restarts.  etcd raft is external: it  *)
(* appends and commits, and it refuses to start on a log that does not     *)
(* fit the applied index (RaftStarts).                                     *)
(***************************************************************************)
EXTENDS Integers, Sequences, FiniteSets, FiniteSetsExt

CONSTANTS
    MaxIndex,   \* the last index of the range's log
    Target,     \* Target[i] = k > 0: entry i is a TruncateLog through index k < i
    Spacing,    \* appliedSeqSpacing
    Environments \* records with the fields of env

Index == 0..MaxIndex
Absent == -1    \* no HardState, no truncated-state key, no read in progress

VARIABLES
    env,       \* the environment of this behaviour, chosen at the start:
               \*   origin: "split" or "preseed", what creates the replica
               \*   removedAt: the entry that removes this replica, 0 for none
               \*   crashes: bound on the crashes of one behaviour
               \*   powerLoss: whether a crash takes the raft engine's unsynced writes
               \*   snapshots: whether the leader sends catch-up snapshots
               \*   crashInInstall: whether a crash may fall inside an install
               \*   logReaders: whether raft reads the log for a lagging follower
    st,        \* the state engine as written
    imm,       \* the memtable being flushed: [state, seq]
    std,       \* the state engine as flushed: [state, seq]
    seq,       \* sequence number of the state engine's last batch
    rf,        \* the raft engine as written
    rfd,       \* the raft engine as synced
    step,      \* where the replica's raft loop is
    applied, last, trunc, commit,   \* the replica's memory
    applySeqs, durable, pending,    \* its sampled watermark, pendingTrunc
    snap,      \* index of the snapshot being installed
    reading,   \* index raft is about to read from the log
    crashes

memory == <<applied, last, trunc, commit, applySeqs, durable, pending>>
engines == <<st, imm, std, seq, rf, rfd>>
vars == <<env, engines, memory, step, snap, reading, crashes>>

\* replicaState and the descriptor of the range on the state engine; desc is
\* "removed" for a descriptor that no longer names this node.
NoState == [desc |-> "none", applied |-> 0, trunc |-> 0, tomb |-> FALSE]

\* The range's keys on the raft engine.
NoRaft == [hs |-> Absent, tk |-> Absent, ents |-> {}]

-----------------------------------------------------------------------------
(* Loading a replica (newRaftStorage, newReplica).                          *)

\* loadTruncatedState: the raft engine's own key, else the applied state.
TruncatedState(r, s) == IF r.tk # Absent THEN r.tk ELSE s.trunc

\* The newest index found on disk.
LastIndex(r, s) == Max({TruncatedState(r, s)} \cup r.ents)

\* The committed index raft starts from: HardState.Commit, and without a
\* HardState the truncation point.
CommitIndex(r, s) == IF r.hs # Absent THEN r.hs ELSE TruncatedState(r, s)

\* raft.NewRawNode: a committed index outside the log, or an applied index
\* beyond the committed one or behind the log, is a panic, which raftLogger
\* turns into log.Fatalf.
RaftStarts(r, s) ==
    LET t == TruncatedState(r, s)
        c == CommitIndex(r, s)
    IN  /\ t <= c /\ c <= LastIndex(r, s)
        /\ t <= s.applied /\ s.applied <= c
        /\ (t + 1)..LastIndex(r, s) \subseteq r.ents

\* newReplica on the engines r, s.
Load(r, s) ==
    /\ applied' = s.applied
    /\ last' = LastIndex(r, s)
    /\ trunc' = TruncatedState(r, s)
    /\ commit' = CommitIndex(r, s)
    /\ applySeqs' = <<>> /\ durable' = 0 /\ pending' = 0

\* newReplica, and the fatal exit when raft does not start.
Start(r, s) ==
    /\ Load(r, s)
    /\ step' = IF RaftStarts(r, s) THEN "run" ELSE "fatal"

-----------------------------------------------------------------------------
(* The engines.                                                             *)

\* Batch.Commit on the state engine: no WAL, so nothing is synced.
WriteState(s) == st' = s /\ seq' = seq + 1 /\ UNCHANGED <<imm, std>>

\* Engine.Flush: everything written so far is durable.
FlushAll == imm' = [state |-> st, seq |-> seq] /\ std' = imm' /\ UNCHANGED <<st, seq>>

\* A commit on the raft engine, synced or not.
WriteRaft(r, sync) == rf' = r /\ rfd' = IF sync THEN r ELSE rfd

\* The memtable rotates: later writes go to a new one.
Rotate ==
    /\ step # "down" /\ imm = std /\ seq > std.seq
    /\ imm' = [state |-> st, seq |-> seq]
    /\ UNCHANGED <<env, st, std, seq, rf, rfd, memory, step, snap, reading, crashes>>

\* The rotated memtable reaches disk (FlushEnd moves flushedSeq).
FlushEnd ==
    /\ step # "down" /\ imm # std
    /\ std' = imm
    /\ UNCHANGED <<env, st, imm, seq, rf, rfd, memory, step, snap, reading, crashes>>

\* Another range's synced commit, or the operating system, writes out the
\* raft engine's log.
SyncRaft ==
    /\ step # "down" /\ rfd # rf
    /\ rfd' = rf
    /\ UNCHANGED <<env, st, imm, std, seq, rf, memory, step, snap, reading, crashes>>

-----------------------------------------------------------------------------
(* The Ready loop.                                                          *)

\* A Ready with new entries: HardState and entries in one synced batch.  An
\* uncommitted suffix may be replaced by a shorter one.
AppendReady ==
    \E l \in (commit + 1)..MaxIndex, c \in commit..MaxIndex :
        /\ step = "run" /\ c <= l /\ l <= last + 1
        /\ WriteRaft([rf EXCEPT !.hs = c,
                                !.ents = {i \in @ : i <= commit} \cup ((commit + 1)..l)],
                     TRUE)
        /\ last' = l /\ commit' = c
        /\ UNCHANGED <<env, st, imm, std, seq, applied, trunc, applySeqs, durable,
                       pending, step, snap, reading, crashes>>

\* A Ready whose HardState only moves Commit: MustSync is false and the group
\* batch is committed unsynced.
CommitReady ==
    \E c \in (commit + 1)..last :
        /\ step = "run"
        /\ WriteRaft([rf EXCEPT !.hs = c], FALSE)
        /\ commit' = c
        /\ UNCHANGED <<env, st, imm, std, seq, applied, last, trunc, applySeqs,
                       durable, pending, step, snap, reading, crashes>>

-----------------------------------------------------------------------------
(* Applying and truncating.                                                 *)

\* noteAppliedSeq: samples Spacing apart, the newest kept exact.
Noted(s, i, q) ==
    LET n == Len(s)
    IN  IF n > 1 /\ i - s[n].index < Spacing /\ i - s[n - 1].index < Spacing
        THEN [s EXCEPT ![n] = [index |-> i, seq |-> q]]
        ELSE Append(s, [index |-> i, seq |-> q])

\* durableAppliedLocked: the newest sample at or below the flushed sequence
\* number, and the samples above it.
Watermark(s, d) == Max({d} \cup {s[k].index : k \in {j \in DOMAIN s : s[j].seq <= std.seq}})
Above(s) == SelectSeq(s, LAMBDA a : a.seq > std.seq)

TruncateAtOnce(s, p) ==   \* seeded fault: the log goes as soon as the command applies
    /\ applySeqs' = s /\ durable' = durable /\ pending' = 0
    /\ IF p > trunc
       THEN /\ WriteRaft([rf EXCEPT !.ents = {i \in @ : i > p}, !.tk = p], FALSE)
            /\ trunc' = p
       ELSE UNCHANGED <<rf, rfd, trunc>>

\* maybeTruncateDeferredLocked over the samples s, the pending truncation p
\* and the raft engine: once the watermark covers p the entries go and the
\* truncated state is written with them, unsynced.
Truncates(s, p) == p # 0 /\ Watermark(s, durable) >= p
TruncateDeferred(s, p) ==
    /\ applySeqs' = IF p # 0 THEN Above(s) ELSE s
    /\ durable' = IF p # 0 THEN Watermark(s, durable) ELSE durable
    /\ pending' = IF Truncates(s, p) THEN 0 ELSE p
    /\ IF Truncates(s, p) /\ p > trunc
       THEN /\ WriteRaft([rf EXCEPT !.ents = {i \in @ : i > p}, !.tk = p], FALSE)
            /\ trunc' = p
       ELSE UNCHANGED <<rf, rfd, trunc>>

\* applyCommand: the command and the applied index in one batch, the sample,
\* notePendingTruncate, and the deferred truncation at the end.
ApplyCommand ==
    LET i == applied + 1
        p == Max({pending, Target[i]})
    IN  /\ step = "run" /\ applied < commit /\ i # env.removedAt
        /\ WriteState([st EXCEPT !.applied = i, !.trunc = trunc])
        /\ applied' = i
        /\ TruncateDeferred(Noted(applySeqs, i, seq + 1), p)
        /\ UNCHANGED <<env, last, commit, step, snap, reading, crashes>>

\* applyEntry on the conf change that removes this replica: the descriptor
\* goes with the applied index, and errReplicaRemoved stops the group.
ApplyRemoval ==
    LET i == applied + 1
    IN  /\ step = "run" /\ applied < commit /\ i = env.removedAt
        /\ WriteState([st EXCEPT !.applied = i, !.trunc = trunc, !.desc = "removed"])
        /\ applied' = i
        /\ step' = "removing"
        /\ UNCHANGED <<env, rf, rfd, last, trunc, commit, applySeqs, durable, pending,
                       snap, reading, crashes>>

\* runDeferredTruncations on the housekeeping tick.
Housekeeping ==
    /\ step = "run" /\ pending # 0
    /\ TruncateDeferred(applySeqs, pending)
    /\ UNCHANGED <<env, st, imm, std, seq, applied, last, commit, step, snap, reading, crashes>>

FlushWhenIdle ==          \* seeded fault: only a store with nothing pending is flushed
    /\ step = "run" /\ pending = 0 /\ seq > std.seq
    /\ FlushAll
    /\ UNCHANGED <<env, rf, rfd, memory, step, snap, reading, crashes>>

\* ... and the flush it forces once a truncation has waited too long.
ForcedFlush ==
    /\ step = "run" /\ Watermark(applySeqs, durable) < pending
    /\ FlushAll
    /\ UNCHANGED <<env, rf, rfd, memory, step, snap, reading, crashes>>

\* raftStorage.Entries for a lagging follower: the bounds are checked under
\* rs.mu, the entry is read after it is released.
ReadCheck ==
    \E lo \in (trunc + 1)..commit :
        /\ env.logReaders /\ step = "run" /\ reading = Absent
        /\ reading' = lo
        /\ UNCHANGED <<env, engines, memory, step, snap, crashes>>

\* A missing entry is ErrUnavailable, on which raft panics.
ReadEntries ==
    /\ step = "run" /\ reading # Absent
    /\ reading' = Absent
    /\ step' = IF reading \in rf.ents THEN "run" ELSE "fatal"
    /\ UNCHANGED <<env, engines, memory, snap, crashes>>

-----------------------------------------------------------------------------
(* Catch-up snapshots: applySnapshot inside stageReady, then the group      *)
(* commit with the HardState.                                               *)

\* The staged install's batch: the range's content, applied state and
\* descriptor at the snapshot's index.
SnapshotCommit ==
    \E i \in (commit + 1)..MaxIndex :
        /\ env.snapshots /\ step = "run" /\ reading = Absent
        /\ env.removedAt = 0 \/ i < env.removedAt
        /\ snap' = i
        /\ WriteState([st EXCEPT !.applied = i, !.trunc = i])
        /\ step' = "snapFlush"
        /\ UNCHANGED <<env, rf, rfd, memory, reading, crashes>>

SnapshotFlush ==
    /\ step = "snapFlush"
    /\ FlushAll
    /\ step' = "snapReset"
    /\ UNCHANGED <<env, rf, rfd, memory, snap, reading, crashes>>

\* The log is reset on the raft engine, synced, and the replica adopts the
\* snapshot (applyIncomingSnapshot, noteAppliedSeq, setApplied).
SnapshotReset ==
    /\ step = "snapReset"
    /\ WriteRaft([rf EXCEPT !.ents = {}, !.tk = snap], TRUE)
    /\ trunc' = snap /\ last' = snap /\ applied' = snap
    /\ applySeqs' = Noted(applySeqs, snap, seq)
    /\ step' = "snapReady"
    /\ UNCHANGED <<env, st, imm, std, seq, commit, durable, pending, snap, reading, crashes>>

\* The group batch with the snapshot's HardState; a Ready with no entries and
\* an unchanged term and vote is not synced.
SnapshotReady ==
    /\ step = "snapReady"
    /\ WriteRaft([rf EXCEPT !.hs = snap], FALSE)
    /\ commit' = snap /\ snap' = 0
    /\ step' = "run"
    /\ UNCHANGED <<env, st, imm, std, seq, applied, last, trunc, applySeqs, durable,
                   pending, reading, crashes>>

-----------------------------------------------------------------------------
(* Creation and removal.                                                    *)

\* The parent's split: stageSplit writes the right-hand side's descriptor and
\* state, finishSplit starts it.  A split the memtable lost is replayed.
SplitCreates ==
    /\ env.origin = "split" /\ step = "absent"
    /\ st.desc = "none" /\ ~st.tomb
    /\ WriteState([NoState EXCEPT !.desc = "member"])
    /\ Start(rf, st')
    /\ UNCHANGED <<env, rf, rfd, snap, reading, crashes>>

\* ApplySnapshotStream on a store without the replica.
Preseed ==
    \E i \in 1..MaxIndex :
        /\ env.origin = "preseed" /\ step = "absent" /\ i # env.removedAt
        /\ WriteState([st EXCEPT !.desc = "member", !.applied = i, !.trunc = i])
        /\ Start(rf, st')
        /\ UNCHANGED <<env, rf, rfd, snap, reading, crashes>>

\* removeReplica: the state-machine side goes and a tombstone is left ...
RemoveState ==
    /\ step = "removing"
    /\ WriteState([NoState EXCEPT !.tomb = TRUE])
    /\ step' = "removeFlush"
    /\ UNCHANGED <<env, rf, rfd, memory, snap, reading, crashes>>

\* ... and wipeRaftState flushes ...
RemoveFlush ==
    /\ step = "removeFlush"
    /\ FlushAll
    /\ step' = "removeWipe"
    /\ UNCHANGED <<env, rf, rfd, memory, snap, reading, crashes>>

\* ... before it deletes the raft state.
RemoveWipe ==
    /\ step = "removeWipe"
    /\ WriteRaft(NoRaft, TRUE)
    /\ step' = "absent"
    /\ UNCHANGED <<env, st, imm, std, seq, memory, snap, reading, crashes>>

-----------------------------------------------------------------------------
(* Crash and restart.                                                       *)

Installing == step \in {"snapFlush", "snapReset", "snapReady"}

Crash ==
    /\ step \notin {"down", "fatal"} /\ crashes < env.crashes
    /\ Installing => env.crashInInstall
    /\ st' = std.state /\ seq' = std.seq /\ imm' = std /\ std' = std
    /\ rf' = IF env.powerLoss THEN rfd ELSE rf
    /\ rfd' = rf'
    /\ step' = "down" /\ snap' = 0 /\ reading' = Absent
    /\ crashes' = crashes + 1
    /\ UNCHANGED env
    /\ applied' = 0 /\ last' = 0 /\ trunc' = 0 /\ commit' = 0
    /\ applySeqs' = <<>> /\ durable' = 0 /\ pending' = 0

\* sweepOrphanRaftState: raft state whose range has a tombstone and no
\* descriptor is wiped; without a tombstone it is kept.
Swept == IF st.desc = "none" /\ st.tomb THEN NoRaft ELSE rf

\* LoadReplicas: the sweep, then the replica if its descriptor names us.
Restart ==
    /\ step = "down"
    /\ WriteRaft(Swept, TRUE)
    /\ IF st.desc = "member"
       THEN Start(rf', st)
       ELSE step' = "absent" /\ UNCHANGED memory
    /\ UNCHANGED <<env, st, imm, std, seq, snap, reading, crashes>>

-----------------------------------------------------------------------------
Init ==
    /\ env \in Environments
    /\ st = NoState /\ imm = [state |-> NoState, seq |-> 0] /\ std = imm /\ seq = 0
    /\ rf = NoRaft /\ rfd = NoRaft
    /\ step = "absent"
    /\ applied = 0 /\ last = 0 /\ trunc = 0 /\ commit = 0
    /\ applySeqs = <<>> /\ durable = 0 /\ pending = 0
    /\ snap = 0 /\ reading = Absent /\ crashes = 0

Next ==
    \/ Rotate \/ FlushEnd \/ SyncRaft
    \/ AppendReady \/ CommitReady
    \/ ApplyCommand \/ ApplyRemoval \/ Housekeeping \/ ForcedFlush
    \/ ReadCheck \/ ReadEntries
    \/ SnapshotCommit \/ SnapshotFlush \/ SnapshotReset \/ SnapshotReady
    \/ SplitCreates \/ Preseed \/ RemoveState \/ RemoveFlush \/ RemoveWipe
    \/ Crash \/ Restart

Spec == Init /\ [][Next]_vars

\* The housekeeping loop ticks for as long as the node runs.  Nothing obliges
\* a memtable to rotate by itself.
FairSpec == Spec /\ WF_vars(Housekeeping) /\ WF_vars(ForcedFlush)

-----------------------------------------------------------------------------
StateType == [desc : {"none", "member", "removed"}, applied : Index,
              trunc : Index, tomb : BOOLEAN]
RaftType == [hs : {Absent} \cup Index, tk : {Absent} \cup Index, ents : SUBSET (1..MaxIndex)]

\* The variables have their types.
TypeOK ==
    /\ st \in StateType /\ imm.state \in StateType /\ std.state \in StateType
    /\ std.seq <= imm.seq /\ imm.seq <= seq
    /\ rf \in RaftType /\ rfd \in RaftType
    /\ step \in {"absent", "run", "fatal", "down", "snapFlush", "snapReset",
                 "snapReady", "removing", "removeFlush", "removeWipe"}
    /\ {applied, last, trunc, commit, durable, pending, snap} \subseteq Index
    /\ \A k \in DOMAIN applySeqs : applySeqs[k].index \in Index
    /\ reading \in {Absent} \cup Index

\* "Log truncation is deferred" (raftengine.go): what the log has dropped, on
\* disk or only in the raft engine's memory, the flushed state machine holds,
\* so a crash at any moment finds every entry it has to apply again.
NoReplayGap ==
    \A r \in {rf, rfd} :
        std.state.desc = "member" =>
            /\ TruncatedState(r, std.state) <= std.state.applied
            /\ \A i \in 1..CommitIndex(r, std.state) :
                    i > std.state.applied => i \in r.ents

\* The process dies between its steps and the machine keeps what it was given: a
\* crash takes neither unsynced writes nor an install halfway.
Gentle == ~env.powerLoss /\ ~env.crashInInstall /\ ~env.logReaders

\* "whatever a crash loses is replayed from the log" (raftengine.go): after
\* any crash raft starts on the engines it finds, and on those a replica's
\* creation finds, so neither ends in log.Fatalf.
RaftComesUp == step # "fatal"

\* "the two engines never disagree about which replicas exist in a way replay
\* cannot repair" (raftengine.go): a store without the replica holds raft state
\* of it only while its parent's split is about to be applied again.
EnginesAgree ==
    step = "absent" /\ st.desc = "none" /\ rf # NoRaft => env.origin = "split" /\ ~st.tomb

\* Whatever has been lost, what the log has dropped was flushed; and after a
\* gentle crash the store comes back: raft starts, and the engines agree on
\* which replicas there are (NoReplayGap, RaftComesUp, EnginesAgree).
CrashSafe == NoReplayGap /\ (Gentle => RaftComesUp /\ EnginesAgree)

\* A truncation that has been applied is performed, or forgotten with the
\* memory of a crashed or removed replica: the housekeeping tick flushes a
\* store that does not flush by itself.
TruncationHappens == (pending # 0 /\ step = "run") ~> (pending = 0 \/ step # "run")
=============================================================================
