----------------------------- MODULE MCOperations -----------------------------
(***************************************************************************)
(* Running a cluster: where replicas live (Placement), how a store's keys  *)
(* are rotated and its files switched to the authenticated format          *)
(* (Encryption), what the bytes of an encrypted file are (SealedFile),     *)
(* when ranges split and merge (RangeSizing) and how replicas are compared *)
(* (Consistency, whose AlarmsRight is a property of the run).  A behaviour *)
(* exercises one of them; the others are in a situation in which nothing   *)
(* happens.                                                                *)
(***************************************************************************)
EXTENDS Consistency

VARIABLES cluster, nodes, ranges, lead, meta, policy, ticks, adverts, cooling, spell
VARIABLES vault, registry, stable, files, opened, phase, keys, given, backup, exporting,
          rotation, answered, finalized, switches, creating, sweep, spare
VARIABLES file, disk, handle, nonce, content, synced
VARIABLES sizing, starts, load, workload, budget

placementVars == <<cluster, nodes, ranges, lead, meta, policy, ticks, adverts, cooling, spell>>
vaultVars == <<vault, registry, stable, files, opened, phase, keys, given, backup,
               exporting, rotation, answered, finalized, switches, creating, sweep, spare>>
fileVars == <<file, disk, handle, nonce, content, synced>>
sizingVars == <<sizing, starts, load, workload, budget>>

PlacementIn == INSTANCE Placement WITH Environments <- {}, env <- cluster, left <- spell
EncryptionIn == INSTANCE Encryption WITH Environments <- {}, env <- vault, left <- spare
SealedFileIn == INSTANCE SealedFile WITH Environments <- {}, env <- file
RangeSizingIn == INSTANCE RangeSizing WITH Environments <- {}, env <- sizing, phase <- workload

P == INSTANCE Placement WITH Environments <- PlacementIn!Cases \union {PlacementIn!Absent},
    env <- cluster, left <- spell
E == INSTANCE Encryption WITH Environments <- EncryptionIn!Cases \union
    {EncryptionIn!Plain}, env <- vault, left <- spare
F == INSTANCE SealedFile WITH Environments <- SealedFileIn!Cases \union
    {SealedFileIn!Unwritten}, env <- file
R == INSTANCE RangeSizing WITH Environments <- RangeSizingIn!Cases \union
    {RangeSizingIn!Vacant}, env <- sizing, phase <- workload

MCEnvironments == Cases \union {Unwatched}

allVars == <<placementVars, vaultVars, fileVars, sizingVars, vars>>

\* The situations of each part: one of its cases when the behaviour is the
\* part's own, nothing happening otherwise.
MCInit == \E part \in {"placement", "vault", "file", "sizing", "check"} :
    /\ cluster \in IF part = "placement" THEN PlacementIn!Cases ELSE {PlacementIn!Absent}
    /\ vault \in IF part = "vault" THEN EncryptionIn!Cases ELSE {EncryptionIn!Plain}
    /\ file \in IF part = "file" THEN SealedFileIn!Cases ELSE {SealedFileIn!Unwritten}
    /\ sizing \in IF part = "sizing" THEN RangeSizingIn!Cases ELSE {RangeSizingIn!Vacant}
    /\ env \in IF part = "check" THEN Cases ELSE {Unwatched}
    /\ P!Init /\ E!Init /\ F!Init /\ R!Init /\ Init

MCNext ==
    \/ P!Next /\ UNCHANGED <<vaultVars, fileVars, sizingVars, vars>>
    \/ E!Next /\ UNCHANGED <<placementVars, fileVars, sizingVars, vars>>
    \/ F!Next /\ UNCHANGED <<placementVars, vaultVars, sizingVars, vars>>
    \/ R!Next /\ UNCHANGED <<placementVars, vaultVars, fileVars, vars>>
    \/ Next /\ UNCHANGED <<placementVars, vaultVars, fileVars, sizingVars>>

MCSpec == MCInit /\ [][MCNext]_allVars /\ P!Fairness /\ E!Fairness /\ R!Fairness


\* Background upkeep comes to rest where it should: the allocator
\* (Placement.tla), splitting and merging (RangeSizing.tla), and the metadata
\* backup after a key rotation (Encryption.tla).
UpkeepConverges == P!Converges /\ R!Settles /\ E!BackupFollows

\* An encrypted store opens with the keys it was given (Encryption.tla) and
\* its files read back what was written (SealedFile.tla).
StoreReads == E!StoreOpens /\ F!SealedReads
===============================================================================
