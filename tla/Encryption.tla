----------------------------- MODULE Encryption -----------------------------
(***************************************************************************)
(* Encryption at rest (pkg/storage/enc, pkg/storage/reencrypt.go,          *)
(* pkg/server/reencrypt.go, pkg/server/engines.go).  Each engine of a      *)
(* store has a registry of data keys sealed under the store key.  Files    *)
(* are encrypted under the data key active when they are created, in the   *)
(* old format or, once the store has switched, the authenticated one; a    *)
(* store that has no old file left refuses the old format for good.  The   *)
(* store key is rotated by resealing the registries, online, engine by     *)
(* engine, while the node switches formats, sweeps old files, exports its  *)
(* metadata under the store key, and crashes.                              *)
(***************************************************************************)
EXTENDS Integers, FiniteSets

CONSTANT Environments

VARIABLES
    env,
    registry,  \* per engine: the sealed registry file as readers see it
    stable,    \* per engine: the registry a crash leaves behind
    files,     \* per engine: its files
    opened,    \* per engine: the open Engine's KeySet and FS flags, or nothing
    phase,     \* how far the node's start has come: "down", ..., "up"
    keys,      \* the node's encKey and raftEncKey
    given,     \* the key files the operator gives at a start (--enc-key)
    backup,    \* the store key sealing the metadata backup
    exporting, \* exportMetadata of the heartbeat: the key read, not yet written
    rotation,  \* serveRotateStoreKey in progress
    answered,  \* store keys replaced by a rotation that reported success
    finalized, \* the node has observed cluster version v18
    switches,  \* per goroutine: switchToAuthenticatedEncryption in progress
    creating,  \* per engine: a file Pebble is creating
    sweep,     \* reencryptWorker: the file numbers attempted, or nothing
    left       \* budgets: rotations, restarts, files

diskVars == <<registry, stable, files>>
nodeVars == <<opened, phase, keys, given, backup, exporting>>
workVars == <<rotation, answered, finalized, switches, creating, sweep>>
vars == <<env, registry, stable, files, opened, phase, keys, given, backup, exporting,
          rotation, answered, finalized, switches, creating, sweep, left>>

Goroutines == {"beat", "sweep"}
Up == phase = "up"

Idle == [at |-> "idle"]

Init ==
    /\ env \in Environments
    /\ registry = [e \in env.engines |->
                     [key |-> 1, keys |-> {1}, active |-> 1, writes |-> FALSE, only |-> FALSE]]
    /\ stable = registry
    /\ files = [e \in env.engines |-> env.files]
    /\ opened = [e \in env.engines |-> <<>>]
    /\ phase = "down"
    /\ keys = [encKey |-> 1, raftEncKey |-> <<>>]
    /\ given = env.storeKeys
    /\ backup = 1
    /\ exporting = <<>>
    /\ rotation = Idle
    /\ answered = {}
    /\ finalized = FALSE
    /\ switches = [g \in Goroutines |-> Idle]
    /\ creating = [e \in env.engines |-> <<>>]
    /\ sweep = <<>>
    /\ left = env.budget

-----------------------------------------------------------------------------
\* writeRegistry: a temporary file, a rename and a sync of the directory.

writeRegistry(e, reg) ==
    /\ registry' = [registry EXCEPT ![e] = reg]
    /\ stable' = [stable EXCEPT ![e] = reg]

-----------------------------------------------------------------------------
\* Opening (Node.Start, openEngines, storage.Open).

\* LoadOrInitRegistry mints a data key at every open.
Minted(reg) ==
    LET id == CHOOSE n \in (reg.active + 1)..(reg.active + 1 + Cardinality(reg.keys)) :
                 /\ n \notin reg.keys
                 /\ \A k \in (reg.active + 1)..(n - 1) : k \in reg.keys
    IN [reg EXCEPT !.active = id, !.keys = @ \union {id}]

keySetFrom(reg) ==
    [keys |-> reg.keys, active |-> reg.active, auth |-> reg.writes \/ reg.only,
     strict |-> reg.only]

\* FS.create: the active data key, and the format in force.
Created(e, f, auth) == [f EXCEPT !.key = opened[e][1].active, !.auth = auth]

LegacyFiles(e) == {f \in files[e] : ~f.auth}

\* ConvertLegacyFiles: what Pebble keeps across opens, before it opens.
Converted(fs, ks) ==
    {IF f.sst \/ f.auth THEN f ELSE [f EXCEPT !.key = ks.active, !.auth = TRUE] : f \in fs}

\* Pebble replays its logs and recreates some of them under the new session.
Recreated(fs, ks, some) ==
    {IF f \in some THEN [f EXCEPT !.key = ks.active, !.auth = ks.auth] ELSE f : f \in fs}

openEngine(e, key) ==
    LET reg == Minted(registry[e])
        ks == keySetFrom(reg)
        kept == IF ks.auth /\ ~ks.strict THEN Converted(files[e], ks) ELSE files[e]
    IN /\ registry[e].key = key
       /\ writeRegistry(e, reg)
       /\ \E some \in SUBSET {f \in kept : ~f.sst} :
             files' = [files EXCEPT ![e] = Recreated(kept, ks, some)]
       /\ opened' = [opened EXCEPT ![e] = <<ks>>]

raftOptions == IF keys.raftEncKey # <<>> THEN keys.raftEncKey[1] ELSE keys.encKey

\* The key files are matched against the registries (MatchStoreKey,
\* matchRaftEncKey); the state engine is opened once to see whether the store
\* is split and reopened without its WAL.
Start ==
    /\ phase = "down" /\ "state" \in env.engines
    /\ registry["state"].key \in given
    /\ keys' = [encKey |-> registry["state"].key,
                raftEncKey |-> IF Cardinality(given) > 1 /\ "raft" \in env.engines
                                  /\ registry["raft"].key \in given
                               THEN <<registry["raft"].key>> ELSE <<>>]
    /\ phase' = "probe"
    /\ UNCHANGED <<env, diskVars, opened, given, backup, exporting, workVars, left>>

OpenState ==
    /\ phase \in {"probe", "state"}
    /\ openEngine("state", keys.encKey)
    /\ phase' = IF "raft" \notin env.engines THEN "up"
                ELSE IF phase = "probe" THEN "state" ELSE "raft"
    /\ UNCHANGED <<env, keys, given, backup, exporting, workVars, left>>

OpenRaft ==
    /\ phase = "raft"
    /\ openEngine("raft", raftOptions)
    /\ phase' = "up"
    /\ UNCHANGED <<env, keys, given, backup, exporting, workVars, left>>

\* The process stops, anywhere.
Crash ==
    /\ phase # "down" /\ left.restarts > 0
    /\ left' = [left EXCEPT !.restarts = @ - 1]
    /\ phase' = "down"
    /\ registry' = stable
    /\ opened' = [e \in env.engines |-> <<>>]
    /\ exporting' = <<>>
    /\ rotation' = Idle
    /\ switches' = [g \in Goroutines |-> Idle]
    /\ creating' = [e \in env.engines |-> <<>>]
    /\ sweep' = <<>>
    /\ UNCHANGED <<env, stable, files, keys, given, backup, answered, finalized>>

-----------------------------------------------------------------------------
\* Rotating the store key online (serveRotateStoreKey under rotateMu,
\* Engine.RotateStoreKeyLive under the engine's encMu, enc.RotateStoreKey).

\* encMu of an engine is held while a registry is read and written back.
Held(e) ==
    \/ \E g \in Goroutines : switches[g].at \in {"enabling", "marking"} /\ switches[g].e = e
    \/ e = "state" /\ rotation.at \in {"raft", "reseal"}

\* The state engine's registry; a key that does not match it is refused.
RotateState(old, new) ==
    /\ Up /\ rotation = Idle /\ ~Held("state") /\ left.rotations > 0
    /\ left' = [left EXCEPT !.rotations = @ - 1]
    /\ IF registry["state"].key = old
       THEN /\ writeRegistry("state", [registry["state"] EXCEPT !.key = new])
            /\ rotation' = [at |-> IF "raft" \in env.engines THEN "raft" ELSE "swap",
                            old |-> old, new |-> new, read |-> <<>>]
            /\ answered' = answered \ {new}
       ELSE UNCHANGED <<registry, stable, rotation, answered>>
    /\ UNCHANGED <<env, files, nodeVars, finalized, switches, creating, sweep>>

\* enc.RotateStoreKey goes on to the registry under dir/raft: already under the
\* new key, read, or refused.
RotateRaftRead ==
    LET reg == registry["raft"]
    IN /\ rotation.at = "raft"
       /\ rotation' = CASE reg.key = rotation.new -> [rotation EXCEPT !.at = "live"]
                        [] reg.key = rotation.old -> [rotation EXCEPT !.at = "reseal", !.read = <<reg>>]
                        [] OTHER -> Idle
       /\ UNCHANGED <<env, diskVars, nodeVars, answered, finalized, switches, creating, sweep, left>>

RotateRaftWrite ==
    /\ rotation.at = "reseal"
    /\ writeRegistry("raft", [rotation.read[1] EXCEPT !.key = rotation.new])
    /\ rotation' = [rotation EXCEPT !.at = "live"]
    /\ UNCHANGED <<env, files, nodeVars, answered, finalized, switches, creating, sweep, left>>

\* The raft engine's own RotateStoreKeyLive; a mismatch is fine when its
\* registry is already under the new key.
RotateRaftLive ==
    LET reg == registry["raft"]
    IN /\ rotation.at = "live" /\ ~Held("raft")
       /\ IF reg.key = rotation.old
          THEN writeRegistry("raft", [reg EXCEPT !.key = rotation.new])
          ELSE UNCHANGED <<registry, stable>>
       /\ rotation' = IF reg.key \in {rotation.old, rotation.new}
                      THEN [rotation EXCEPT !.at = "swap"] ELSE Idle
       /\ UNCHANGED <<env, files, nodeVars, answered, finalized, switches, creating, sweep, left>>

\* The node seals with the new key from now on ...
SwapKey ==
    /\ rotation.at = "swap"
    /\ keys' = [keys EXCEPT !.encKey = rotation.new]
    /\ rotation' = [rotation EXCEPT !.at = "export"]
    /\ UNCHANGED <<env, diskVars, opened, phase, given, backup, exporting, answered, finalized,
                   switches, creating, sweep, left>>

\* ... and exports its metadata at once, if the scans succeed; then it answers.
RotateExport ==
    /\ rotation.at = "export"
    /\ backup' \in {backup, keys.encKey}
    /\ answered' = answered \union {rotation.old}
    /\ rotation' = Idle
    /\ UNCHANGED <<env, diskVars, opened, phase, keys, given, exporting, finalized, switches,
                   creating, sweep, left>>

\* The operator drops a key file once a rotation away from it has succeeded.
Retire(k) ==
    /\ k \in answered \cap given /\ rotation = Idle
    /\ given' = given \ {k}
    /\ UNCHANGED <<env, diskVars, opened, phase, keys, backup, exporting, workVars, left>>

-----------------------------------------------------------------------------
\* exportMetadata of the heartbeat.
ExportRead ==
    /\ Up /\ exporting = <<>>
    /\ exporting' = <<keys.encKey>>
    /\ UNCHANGED <<env, diskVars, opened, phase, keys, given, backup, workVars, left>>

ExportWrite ==
    /\ exporting # <<>>
    /\ backup' = exporting[1]
    /\ exporting' = <<>>
    /\ UNCHANGED <<env, diskVars, opened, phase, keys, given, workVars, left>>

-----------------------------------------------------------------------------
\* Switching to the authenticated format (switchToAuthenticatedEncryption).

Finalize ==
    /\ Up /\ env.upgrades /\ ~finalized
    /\ finalized' = TRUE
    /\ UNCHANGED <<env, diskVars, nodeVars, rotation, answered, switches, creating, sweep, left>>

Switching(e) == [at |-> "enable", e |-> e, keys |-> keys, read |-> <<>>]

\* ratchetStoreFormat, at every observation of the version.
SwitchBegin(g) ==
    /\ Up /\ finalized /\ switches[g] = Idle /\ g = "beat"
    /\ \E e \in env.engines : ~opened[e][1].strict
    /\ switches' = [switches EXCEPT ![g] = Switching("state")]
    /\ UNCHANGED <<env, diskVars, nodeVars, rotation, answered, finalized, creating, sweep, left>>

storeKeyForEngine(g) ==
    LET ks == switches[g].keys
    IN IF switches[g].e = "raft" /\ ks.raftEncKey # <<>> THEN ks.raftEncKey[1] ELSE ks.encKey

\* The engine is done with, or put off; the next one follows.
NextEngine(g) ==
    IF switches[g].e = "state" /\ "raft" \in env.engines
    THEN [Switching("raft") EXCEPT !.keys = switches[g].keys] ELSE Idle

\* loadRegistry for MarkAuthenticatedWrites or MarkAuthenticated.
LoadFor(g, at) ==
    LET reg == registry[switches[g].e]
    IN /\ ~Held(switches[g].e)
       /\ switches' = [switches EXCEPT ![g] =
             IF reg.key = storeKeyForEngine(g)
             THEN [@ EXCEPT !.at = at, !.read = <<reg>>] ELSE NextEngine(g)]

\* EnableAuthenticatedFiles.
Enable(g) ==
    /\ switches[g].at = "enable"
    /\ IF opened[switches[g].e][1].auth
       THEN switches' = [switches EXCEPT ![g].at = "list"]
       ELSE LoadFor(g, "enabling")
    /\ UNCHANGED <<env, diskVars, nodeVars, rotation, answered, finalized, creating, sweep, left>>

Enabled(g) ==
    LET e == switches[g].e
    IN /\ switches[g].at = "enabling"
       /\ writeRegistry(e, [switches[g].read[1] EXCEPT !.writes = TRUE])
       /\ opened' = [opened EXCEPT ![e][1].auth = TRUE]
       /\ switches' = [switches EXCEPT ![g].at = "list"]
       /\ UNCHANGED <<env, files, phase, keys, given, backup, exporting, rotation, answered,
                      finalized, creating, sweep, left>>

\* The files that must be gone before the old format can be refused.
\* A file whose creation chose the old format is written by then unless its
\* writer stalls (env.stalls).
Remaining(e) == LegacyFiles(e)

\* CompleteAuthenticatedCutover: only with no old file left.
List(g) ==
    LET e == switches[g].e
    IN /\ switches[g].at = "list"
       /\ env.stalls \/ creating[e] = <<>>
       /\ switches' = [switches EXCEPT ![g] =
             IF opened[e][1].strict \/ Remaining(e) # {} THEN NextEngine(g)
             ELSE [@ EXCEPT !.at = "mark"]]
       /\ UNCHANGED <<env, diskVars, nodeVars, rotation, answered, finalized, creating, sweep, left>>

Mark(g) ==
    /\ switches[g].at = "mark"
    /\ LoadFor(g, "marking")
    /\ UNCHANGED <<env, diskVars, nodeVars, rotation, answered, finalized, creating, sweep, left>>

Marked(g) ==
    LET e == switches[g].e
    IN /\ switches[g].at = "marking"
       /\ writeRegistry(e, [switches[g].read[1] EXCEPT !.writes = TRUE, !.only = TRUE])
       /\ opened' = [opened EXCEPT ![e][1].auth = TRUE, ![e][1].strict = TRUE]
       /\ switches' = [switches EXCEPT ![g] = NextEngine(g)]
       /\ UNCHANGED <<env, files, phase, keys, given, backup, exporting, rotation, answered,
                      finalized, creating, sweep, left>>

-----------------------------------------------------------------------------
\* Files come and go under Pebble; FS.create decides on the format first.
Fresh(e) == CHOOSE n \in 1..(Cardinality(files[e]) + 1) : \A f \in files[e] : f.id # n

CreateBegin(e, sst, replaced) ==
    /\ Up /\ creating[e] = <<>> /\ left.files > 0
    /\ left' = [left EXCEPT !.files = @ - 1]
    /\ creating' = [creating EXCEPT ![e] =
          <<[auth |-> opened[e][1].auth, sst |-> sst, replaced |-> replaced]>>]
    /\ UNCHANGED <<env, diskVars, nodeVars, rotation, answered, finalized, switches, sweep>>

\* A flush, or a new log replacing the old one.
Flush(e) == CreateBegin(e, TRUE, {})
RollLog(e) == \E f \in files[e] : ~f.sst /\ CreateBegin(e, FALSE, {f})

CreateEnd(e) ==
    LET c == creating[e][1]
        f == [id |-> Fresh(e), sst |-> c.sst, key |-> opened[e][1].active, auth |-> c.auth]
    IN /\ creating[e] # <<>>
       /\ files' = [files EXCEPT ![e] = (@ \ c.replaced) \union {f}]
       /\ creating' = [creating EXCEPT ![e] = <<>>]
       /\ UNCHANGED <<env, registry, stable, nodeVars, rotation, answered, finalized, switches,
                      sweep, left>>

-----------------------------------------------------------------------------
\* The re-encryption sweep (serveReencrypt, reencryptWorker, ReencryptPass).
staleTables(e) ==
    {f \in files[e] : f.sst /\ (f.key # opened[e][1].active \/ (opened[e][1].auth /\ ~f.auth))}

serveReencrypt ==
    /\ Up /\ sweep = <<>> /\ left.sweeps > 0
    /\ left' = [left EXCEPT !.sweeps = @ - 1]
    /\ sweep' = <<{}>>
    /\ UNCHANGED <<env, diskVars, nodeVars, rotation, answered, finalized, switches, creating>>

\* compactStale: the file is rewritten, or its compaction leaves it in place.
\* The attempted file numbers are those of both engines.
CompactStale(e) ==
    /\ sweep # <<>> /\ creating[e] = <<>>
    /\ \E f \in staleTables(e) :
          /\ f.id \notin sweep[1]
          /\ sweep' = <<sweep[1] \union {f.id}>>
          /\ \/ UNCHANGED files
             \/ files' = [files EXCEPT ![e] = (@ \ {f}) \union
                            {[Created(e, f, opened[e][1].auth) EXCEPT !.id = Fresh(e)]}]
    /\ UNCHANGED <<env, registry, stable, nodeVars, rotation, answered, finalized, switches,
                   creating, left>>

\* Nothing stale is left, and the format switch is tried again; or what is left
\* has been attempted.
SweepEnd ==
    LET stale == UNION {staleTables(e) : e \in env.engines}
    IN /\ sweep # <<>>
       /\ \A f \in stale : f.id \in sweep[1]
       /\ sweep' = <<>>
       /\ switches' = IF stale = {} /\ finalized /\ switches["sweep"] = Idle
                      THEN [switches EXCEPT !["sweep"] = Switching("state")] ELSE switches
       /\ UNCHANGED <<env, diskVars, nodeVars, rotation, answered, finalized, creating, left>>

-----------------------------------------------------------------------------
Next ==
    \/ Start \/ OpenState \/ OpenRaft \/ Crash
    \/ \E old \in env.storeKeys, new \in env.storeKeys :
          new # old /\ new \in given /\ RotateState(old, new)
    \/ RotateRaftRead \/ RotateRaftWrite \/ RotateRaftLive \/ SwapKey \/ RotateExport
    \/ \E k \in env.storeKeys : Retire(k)
    \/ ExportRead \/ ExportWrite
    \/ Finalize
    \/ \E g \in Goroutines : \/ SwitchBegin(g) \/ Enable(g) \/ Enabled(g) \/ List(g) \/ Mark(g)
                             \/ Marked(g)
    \/ \E e \in env.engines : Flush(e) \/ RollLog(e) \/ CreateEnd(e) \/ CompactStale(e)
    \/ serveReencrypt \/ SweepEnd

\* The heartbeat goes on while the node is up.
Fairness == WF_vars(ExportRead) /\ WF_vars(ExportWrite)

Spec == Init /\ [][Next]_vars /\ Fairness

-----------------------------------------------------------------------------
Readable(f, reg, strict) == f.key \in reg.keys /\ (strict => f.auth)

\* Whenever the process stops, the key files the operator still gives open
\* every engine's registry, and every file is encrypted under a data key of
\* its registry in a format the store accepts; the same holds of the running
\* engine (a restart "anywhere in that window finds a key that opens the
\* store", docs/encryption.md).
StoreOpens ==
    \A e \in env.engines :
        /\ stable[e].key \in given
        /\ \A f \in files[e] :
              /\ Readable(f, stable[e], stable[e].only)
              /\ opened[e] = <<>> \/ Readable(f, opened[e][1], opened[e][1].strict)

\* While a node stays up its metadata backup is, again and again, sealed under
\* a key the operator still has, whatever heartbeat's export a rotation raced.
BackupFollows == []<>(~Up \/ backup \in given)

-----------------------------------------------------------------------------
(* The situations in which a store's encryption is explored.               *)

Old(id, isTable) == [id |-> id, sst |-> isTable, key |-> 1, auth |-> FALSE]

Case(engines, storeKeys, fs, upgrades, rotations, restarts, writes, sweeps) ==
    [engines |-> engines, storeKeys |-> storeKeys, files |-> fs, upgrades |-> upgrades,
     stalls |-> FALSE,
     budget |-> [rotations |-> rotations, restarts |-> restarts, files |-> writes,
                 sweeps |-> sweeps]]

\* Nothing to do: the node stays down.
Plain == Case({}, {}, {}, FALSE, 0, 0, 0, 0)

\* Store keys rotated there and back, and on to a third key.
Rotating == Case({"state", "raft"}, {1, 2, 3}, {}, FALSE, 2, 1, 0, 0)

\* A single engine with old files switches formats, sweeps and restarts.
Sweeping == Case({"state"}, {1}, {Old(1, TRUE), Old(2, FALSE)}, TRUE, 0, 2, 1, 1)

\* Both engines switch while the store key is rotated.
Crossing == Case({"state", "raft"}, {1, 2}, {Old(1, FALSE)}, TRUE, 1, 1, 0, 0)

Cases == {Rotating, Sweeping, Crossing}
=============================================================================
