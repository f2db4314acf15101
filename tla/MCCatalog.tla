------------------------------ MODULE MCCatalog ------------------------------
(***************************************************************************)
(* The catalog and what hangs on it: descriptors and their names           *)
(* (Catalog), the values of sequences (SequenceValues), roles and          *)
(* privileges (Privileges), and online changes under descriptor leases     *)
(* (SchemaChange).  A behaviour exercises one of them: which says whose,   *)
(* and the others keep their initial state.                                *)
(***************************************************************************)
EXTENDS Integers, Sequences

VARIABLE which
VARIABLES catalog, store, cache, current, filling
VARIABLES sequence, desc, counter, block, calls, sessions, given, twice, outside, budget
VARIABLES access, stored, finalized, txn, meant, gone, statements
VARIABLES schema, published, lease, entry, acq, stmt, change, truth, shadow, begun

catalogVars == <<catalog, store, cache, current, filling>>
sequenceVars ==
    <<sequence, desc, counter, block, calls, sessions, given, twice, outside, budget>>
privilegeVars == <<access, stored, finalized, txn, meant, gone, statements>>
schemaVars == <<schema, published, lease, entry, acq, stmt, change, truth, shadow, begun>>

CatalogIn == INSTANCE Catalog WITH Environments <- {}, env <- catalog
SequenceIn == INSTANCE SequenceValues WITH Environments <- {}, env <- sequence
PrivilegeIn == INSTANCE Privileges WITH Environments <- {}, env <- access, budget <- statements

\* SchemaChange: statements of one gateway while the other builds an index or
\* re-shards the table; with a second acquisition in the gap of the first; with
\* an ALTER TABLE after the build; and under a lease already held and renewed.
Calm == [writers |-> {"g2"}, statements |-> 2, renewing |-> {}, reshard |-> FALSE,
         alter |-> FALSE, overlap |-> FALSE, gap |-> FALSE, slow |-> TRUE, warm |-> {}]
Few == [Calm EXCEPT !.gap = TRUE, !.statements = 1, !.renewing = {"g2"}]
SchemaCases == {Calm, [Few EXCEPT !.gap = FALSE, !.reshard = TRUE, !.slow = FALSE], Few,
                [Few EXCEPT !.gap = FALSE, !.alter = TRUE, !.renewing = {}],
                [Few EXCEPT !.gap = FALSE, !.warm = {"g2"}]}

C == INSTANCE Catalog WITH Environments <- CatalogIn!Cases \union {CatalogIn!Closed}, env <- catalog
S == INSTANCE SequenceValues WITH Environments <- SequenceIn!Cases \union {SequenceIn!Unused},
                                  env <- sequence
P == INSTANCE Privileges WITH Environments <- PrivilegeIn!Cases \union {PrivilegeIn!Locked},
                              env <- access, budget <- statements
D == INSTANCE SchemaChange WITH
    Gateways <- {"g1", "g2"}, Builder <- "g1", Alterer <- "g2", Last <- 2, Values <- {1}, TTL <- 1,
    Environments <- SchemaCases, env <- schema, desc <- published, cache <- entry

MCInit ==
    /\ which \in {"catalog", "sequence", "privileges", "schema"}
    /\ C!Init /\ S!Init /\ P!Init /\ D!Init
    /\ which = "catalog" <=> catalog # CatalogIn!Closed
    /\ which = "sequence" <=> sequence # SequenceIn!Unused
    /\ which = "privileges" <=> access # PrivilegeIn!Locked
    /\ which # "schema" => schema = Calm

MCNext ==
    /\ \/ which = "catalog" /\ C!Next /\ UNCHANGED <<sequenceVars, privilegeVars, schemaVars>>
       \/ which = "sequence" /\ S!Next /\ UNCHANGED <<catalogVars, privilegeVars, schemaVars>>
       \/ which = "privileges" /\ P!Next /\ UNCHANGED <<catalogVars, sequenceVars, schemaVars>>
       \/ which = "schema" /\ D!Next /\ UNCHANGED <<catalogVars, sequenceVars, privilegeVars>>
    /\ UNCHANGED which

MCSpec == MCInit /\ [][MCNext]_<<which, catalogVars, sequenceVars, privilegeVars, schemaVars>>


\* A sequence's values are handed out once (SequenceValues.tla).
ValuesOnce == S!ValuesOnce

\* Statements are judged by the roles held, a dropped role leaves nothing
\* behind, and a session hands out no more than it can get (Privileges.tla).
PrivilegesRight == P!PrivilegesRight

==============================================================================
