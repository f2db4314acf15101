------------------------------- MODULE MCQuery -------------------------------
(***************************************************************************)
(* What a reader finds: the answers of the query engine, part by part, in  *)
(* rows whose columns change (Columns), under the keys they are stored at  *)
(* (KeyCodec), after old versions were collected (GarbageCollection) and   *)
(* in a restored backup (Backup).  One environment of one part is chosen   *)
(* at the start, and that part's steps run in it.                          *)
(***************************************************************************)
EXTENDS Naturals

VARIABLES which, env, answer, table, desc, stats, cache, runs, changes
VARIABLES descs, lease, rows, retype, reshard, wiping, logical, left, pair
VARIABLES clock, versions, intents, txns, threshold, written
VARIABLES records, told, pass, inflight
VARIABLES readAt, backups, running, restore

rest == <<table, desc, stats, cache, runs, changes>>
tableVars == <<descs, lease, rows, retype, reshard, wiping, logical>>
columnVars == <<tableVars, left>>
mvcc == <<clock, versions, intents, txns, threshold, written>>
collection == <<records, told, pass, inflight>>
saved == <<readAt, backups, running, restore>>
allVars == <<which, env, answer, rest, columnVars, pair, mvcc, collection, saved>>

SelectIn == INSTANCE Select WITH Environments <- {}, CacheSize <- 1, PageSize <- 1, PageMax <- 2,
                                      MaxRuns <- 2, MaxChanges <- 2
JoinIn == INSTANCE Joins WITH Environments <- {}
GroupIn == INSTANCE Windows WITH Environments <- {}, Width <- 3
SubqueryIn == INSTANCE Subqueries WITH Environments <- {}, MaxCorrDepth <- 3, IterationCap <- 4
PredicateIn == INSTANCE Predicates WITH Environments <- {}, Width <- 3
ColumnsIn == INSTANCE Columns WITH Environments <- {}
KeyCodecIn == INSTANCE KeyCodec WITH Environments <- {}
CollectionIn == INSTANCE GarbageCollection WITH Environments <- {}
BackupIn == INSTANCE Backup WITH Environments <- {}

Sel == INSTANCE Select WITH Environments <- SelectIn!Cases, CacheSize <- 1, PageSize <- 1, PageMax <- 2,
                            MaxRuns <- 2, MaxChanges <- 2
Joi == INSTANCE Joins WITH Environments <- JoinIn!Cases
Win == INSTANCE Windows WITH Environments <- GroupIn!Cases, Width <- 3
Sub == INSTANCE Subqueries WITH Environments <- SubqueryIn!Cases, MaxCorrDepth <- 3, IterationCap <- 4
Pre == INSTANCE Predicates WITH Environments <- PredicateIn!Cases, Width <- 3

Col == INSTANCE Columns WITH Environments <- ColumnsIn!Cases \union {ColumnsIn!FillNull}
Key == INSTANCE KeyCodec WITH Environments <- KeyCodecIn!Cases
Gar == INSTANCE GarbageCollection WITH
    Environments <- CollectionIn!Cases \union {CollectionIn!Chunked}
Bac == INSTANCE Backup WITH Environments <- BackupIn!Cases

Idle == table = {} /\ desc = <<>> /\ stats = <<>> /\ cache = <<>> /\ runs = 0 /\ changes = 0
NoTable ==
  /\ descs = <<>> /\ lease = <<>> /\ rows = <<>> /\ retype = <<>>
  /\ reshard = <<>> /\ wiping = <<>> /\ logical = <<>>
NoColumns == NoTable /\ left = <<>>
Silent == answer = <<>>
NoPair == pair = <<>>
NoMvcc ==
  /\ clock = 0 /\ versions = <<>> /\ intents = <<>> /\ txns = <<>> /\ threshold = <<>>
  /\ written = <<>>
NoCollection == records = <<>> /\ told = <<>> /\ pass = <<>> /\ inflight = <<>>
NoBackup == readAt = <<>> /\ backups = <<>> /\ running = <<>> /\ restore = <<>>
NoStore == NoMvcc /\ NoCollection /\ NoBackup
NoQuery == Idle /\ Silent /\ NoPair

InColumns(cases) == which = "columns" /\ Col!Init /\ env \in cases /\ NoQuery /\ NoStore
InCollection(cases) ==
  which = "collection" /\ Gar!Init /\ env \in cases /\ NoQuery /\ NoColumns /\ NoBackup

Init ==
  \/ which = "select" /\ Sel!Init /\ NoColumns /\ NoPair /\ NoStore
  \/ which = "join" /\ Joi!Init /\ Idle /\ NoColumns /\ NoPair /\ NoStore
  \/ which = "group" /\ Win!Init /\ Idle /\ NoColumns /\ NoPair /\ NoStore
  \/ which = "subquery" /\ Sub!Init /\ Idle /\ NoColumns /\ NoPair /\ NoStore
  \/ which = "predicate" /\ Pre!Init /\ Idle /\ NoColumns /\ NoPair /\ NoStore
  \/ which = "keys" /\ Key!Init /\ Idle /\ Silent /\ NoColumns /\ NoStore
  \/ InColumns(ColumnsIn!Cases)
  \/ InCollection(CollectionIn!Cases)
  \/ which = "backup" /\ Bac!Init /\ NoQuery /\ NoTable /\ NoCollection

Next ==
  /\ \/ which = "select" /\ Sel!Next /\ UNCHANGED <<columnVars, pair, mvcc, collection, saved>>
     \/ which = "join" /\ Joi!Next /\ UNCHANGED <<rest, columnVars, pair, mvcc, collection, saved>>
     \/ which = "group" /\ Win!Next /\ UNCHANGED <<rest, columnVars, pair, mvcc, collection, saved>>
     \/ which = "subquery" /\ Sub!Next /\ UNCHANGED <<rest, columnVars, pair, mvcc, collection, saved>>
     \/ which = "predicate" /\ Pre!Next /\ UNCHANGED <<rest, columnVars, pair, mvcc, collection, saved>>
     \/ which = "keys" /\ Key!Next /\ UNCHANGED <<answer, rest, columnVars, mvcc, collection, saved>>
     \/ which = "columns" /\ Col!Next /\ UNCHANGED <<answer, rest, pair, mvcc, collection, saved>>
     \/ which = "collection" /\ Gar!Next /\ UNCHANGED <<answer, rest, columnVars, pair, saved>>
     \/ which = "backup" /\ Bac!Next /\ UNCHANGED <<answer, rest, tableVars, pair, collection>>
  /\ UNCHANGED which

Spec == Init /\ [][Next]_allVars

\* A column added with a default changes its type after a NULL was written.
FillNullSpec == InColumns({ColumnsIn!FillNull}) /\ [][Next]_allVars

\* A pass cut into commands of one deletion.
ChunkedSpec == InCollection({CollectionIn!Chunked}) /\ [][Next]_allVars

(* Select's SelectRight: a single-table SELECT returns the rows its text     *)
(* means whatever plan, cached plan or page boundary served it.              *)
SelectRight == which = "select" => Sel!SelectRight





(* Columns' ColumnsRight: every gateway reads in every row what was last     *)
(* written to its columns, whatever happened to them.                        *)
ColumnsRight == which = "columns" => Col!ColumnsRight

(* KeyCodec's KeysRight: keys order and carry the values they are made of.   *)
KeysRight == which = "keys" => Key!KeysRight

(* GarbageCollection's HistoryKept: collecting old versions changes no read. *)
HistoryKept == which = "collection" => Gar!HistoryKept

(* GarbageCollection's HistoryKept and OneOutcome: neither a read nor the    *)
(* outcome of a transaction tells whether versions and records were          *)
(* collected.                                                                *)
CollectionUnnoticed == which = "collection" => Gar!HistoryKept /\ Gar!OneOutcome

(* Backup's RestoreRight: a restored cluster holds what was committed when   *)
(* the backup ended.                                                         *)
RestoreRight == which = "backup" => Bac!RestoreRight
==============================================================================
