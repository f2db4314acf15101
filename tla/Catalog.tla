------------------------------- MODULE Catalog -------------------------------
(***************************************************************************)
(* The catalog: databases, tables, views, sequences and enum types         *)
(* (pkg/sql/catalog, pkg/sql/{database,view,sequence,enum,ddl,ctas}.go).   *)
(*                                                                         *)
(* A descriptor is found by its ID; its name is a separate entry, under    *)
(* its database (or in the flat namespace of a cluster older than v6).     *)
(* Every statement runs in one serializable transaction, so a statement is *)
(* one step over the stored catalog.  What is NOT transactional is the     *)
(* gateway's cache of database name -> ID (Accessor.dbs), which a          *)
(* statement fills whether or not it succeeds.                             *)
(*                                                                         *)
(* Columns are abstracted to what the statements ask of them: the enum     *)
(* type one has, the sequence one owns, the table a foreign key refers to. *)
(***************************************************************************)
EXTENDS Integers, FiniteSets, Sequences, TLC

CONSTANT Environments   \* the situations that are explored

VARIABLES
    env,      \* the situation
    store,    \* the catalog keys: descriptors by ID, names, the ID counter
    cache,    \* per gateway: Accessor.dbs
    current,  \* per gateway: the session's database
    filling   \* per gateway: the table a CREATE TABLE AS is filling

vars == <<env, store, cache, current, filling>>

DefaultDatabase == "datax"
SystemDatabase == "system"
None == -1

Without(f, S) == [x \in DOMAIN f \ S |-> f[x]]
With(f, x, y) == (x :> y) @@ f

-----------------------------------------------------------------------------
(* Descriptors and names.                                                  *)

Descriptor(kind, db, name) ==
    [kind |-> kind, db |-> db, name |-> name,
     reads |-> {},     \* ViewDepends
     refs |-> {},      \* the tables its foreign keys refer to
     inbound |-> {},   \* InboundFKs
     owner |-> 0,      \* a sequence's OwnerTable
     seq |-> 0,        \* a column's SequenceID
     type |-> 0,       \* a column's EnumType
     labels |-> 0]     \* the labels of a type, or a column's copy of them

DatabaseKey(name) == <<"database", 0, name>>
SequenceKey(db, name) == <<"sequence", db, name>>
TypeKey(db, name) == <<"type", db, name>>

\* namespaceKey
TableKey(db, name) == IF db = 0 THEN <<"flat", 0, name>> ELSE <<"table", db, name>>

NameKey(d) ==
    CASE d.kind = "database" -> DatabaseKey(d.name)
      [] d.kind = "sequence" -> SequenceKey(d.db, d.name)
      [] d.kind = "type" -> TypeKey(d.db, d.name)
      [] OTHER -> TableKey(d.db, d.name)

Named(st, key) == key \in DOMAIN st.ns

\* Accessor.Create, CreateSequence, CreateType, CreateDatabase: the next ID of
\* the counter, the descriptor and the name in one transaction.
Add(st, d) ==
    LET id == st.gen + 1
    IN [desc |-> With(st.desc, id, d), ns |-> With(st.ns, NameKey(d), id), gen |-> id]

\* Accessor.DropIn, DropSequence, DropType, DropDatabase.
Remove(st, ids) ==
    [st EXCEPT !.desc = Without(st.desc, ids),
               !.ns = Without(st.ns, {NameKey(st.desc[i]) : i \in ids})]

OfKind(st, kinds) == {i \in DOMAIN st.desc : st.desc[i].kind \in kinds}

-----------------------------------------------------------------------------
(* Resolving names.                                                        *)

LookupDatabase(st, name) ==
    IF Named(st, DatabaseKey(name)) THEN st.ns[DatabaseKey(name)]
    ELSE IF name = DefaultDatabase THEN 0 ELSE None

\* A cached ID is trusted, except a default database that had none yet.
databaseID(g, name) ==
    IF name \in DOMAIN cache[g] /\ (cache[g][name] # 0 \/ name # DefaultDatabase)
    THEN cache[g][name]
    ELSE LookupDatabase(store, name)

Remember(g, name) ==
    cache' = IF databaseID(g, name) = None THEN cache
             ELSE [cache EXCEPT ![g] = With(@, name, databaseID(g, name))]

isDefaultID(g, db) ==
    db = 0 \/ (DefaultDatabase \in DOMAIN cache[g] /\ cache[g][DefaultDatabase] = db)

\* The table called name, or None: under its database, then, for the default
\* database, in the flat layout.
namespaceLookup(st, db, name, isDefault) ==
    IF db # 0 /\ Named(st, TableKey(db, name)) THEN st.ns[TableKey(db, name)]
    ELSE IF (db = 0 \/ isDefault) /\ Named(st, TableKey(0, name))
         THEN st.ns[TableKey(0, name)]
         ELSE None

lookup(g, dbName, name) ==
    IF databaseID(g, dbName) = None THEN None
    ELSE namespaceLookup(store, databaseID(g, dbName), name, dbName = DefaultDatabase)

\* requireV6: the default database has a descriptor.  requireV7, V9 and V10 (sequences,
\* views, types) gate on later versions, which are finalized after v6.
Migrated == LookupDatabase(store, DefaultDatabase) # 0

\* checkCreateInDatabase reads the database afresh; the system database is
\* closed to tables.
MayCreateIn(dbName) ==
    LookupDatabase(store, dbName) # None /\ dbName # SystemDatabase

-----------------------------------------------------------------------------
Init ==
    /\ env \in Environments
    /\ store = env.start
    /\ cache = [g \in env.gateways |-> <<>>]
    /\ current = [g \in env.gateways |-> DefaultDatabase]
    /\ filling = [g \in env.gateways |-> <<>>]

Room(k) == store.gen + k <= env.maxID

May(statement) == statement \in env.statements

\* Any statement naming a database leaves it in the gateway's cache; USE and SET
\* database also make it the session's.
UseDatabase(g, name) ==
    /\ LookupDatabase(store, name) # None
    /\ Remember(g, name)
    /\ current' = [current EXCEPT ![g] = name]
    /\ UNCHANGED <<env, store, filling>>

CreateDatabase(g, name) ==
    /\ May("database") /\ Room(1) /\ Migrated
    /\ ~Named(store, DatabaseKey(name))
    /\ store' = Add(store, Descriptor("database", 0, name))
    /\ cache' = [cache EXCEPT ![g] = Without(@, {name})]
    /\ UNCHANGED <<env, current, filling>>

\* ListIn
TablesOf(db, name) ==
    {i \in OfKind(store, {"table", "view"}) :
       store.desc[i].db = db \/ (store.desc[i].db = 0 /\ name = DefaultDatabase)}

\* Refused for the reserved databases, the session's own, and one holding tables
\* unless CASCADE.
DropDatabase(g, name, cascade) ==
    /\ May("drop_database") /\ Migrated
    /\ name \notin {DefaultDatabase, SystemDatabase, current[g]}
    /\ Named(store, DatabaseKey(name))
    /\ LET db == LookupDatabase(store, name)
       IN /\ cascade \/ TablesOf(db, name) = {}
          /\ store' = Remove(store, TablesOf(db, name) \union {db})
    /\ cache' = [cache EXCEPT ![g] = Without(@, {name})]
    /\ UNCHANGED <<env, current, filling>>

\* The descriptor keeps its ID, so the names under it stay; every cached name of
\* this gateway is forgotten.
RenameDatabase(g, name, to) ==
    /\ May("drop_database") /\ Migrated
    /\ {name, to} \intersect {DefaultDatabase, SystemDatabase} = {}
    /\ Named(store, DatabaseKey(name)) /\ ~Named(store, DatabaseKey(to))
    /\ LET db == LookupDatabase(store, name)
       IN store' = [store EXCEPT !.desc[db].name = to,
                                 !.ns = With(Without(@, {DatabaseKey(name)}), DatabaseKey(to), db)]
    /\ cache' = [cache EXCEPT ![g] = <<>>]
    /\ current' = [current EXCEPT ![g] = IF @ = name THEN to ELSE @]
    /\ UNCHANGED <<env, filling>>

-----------------------------------------------------------------------------
(* Sequences and types.                                                    *)

SameDatabase(id, db) == id # 0 => store.desc[id].db = db \/ env.across

SequenceFree(st, db, name) ==
    ~Named(st, SequenceKey(db, name)) /\ ~Named(st, <<"table", db, name>>)

CreateSequence(g, dbName, name, ownedBy) ==
    /\ May("sequence") /\ Room(1) /\ Migrated /\ MayCreateIn(dbName)
    /\ LET db == databaseID(g, dbName)
       IN /\ SequenceFree(store, db, name)
          /\ store' = Add(store, [Descriptor("sequence", db, name) EXCEPT !.owner = ownedBy])
    /\ ownedBy \in OfKind(store, {"table"}) \union {0}
    /\ SameDatabase(ownedBy, databaseID(g, dbName))
    /\ Remember(g, dbName)
    /\ UNCHANGED <<env, current, filling>>

\* Refused while a column draws from it.
DropSequence(g, dbName, name) ==
    /\ May("sequence")
    /\ LET db == databaseID(g, dbName)
           key == SequenceKey(db, name)
       IN /\ Named(store, key)
          /\ LET id == store.ns[key]
                 owner == store.desc[id].owner
             IN /\ ~(owner \in DOMAIN store.desc /\ store.desc[owner].seq = id)
                /\ store' = Remove(store, {id})
    /\ Remember(g, dbName)
    /\ UNCHANGED <<env, current, filling>>

CreateType(g, dbName, name) ==
    /\ May("type") /\ Room(1) /\ Migrated /\ MayCreateIn(dbName)
    /\ LET db == databaseID(g, dbName)
       IN /\ ~Named(store, TypeKey(db, name))
          /\ SequenceFree(store, db, name)
          /\ store' = Add(store, [Descriptor("type", db, name) EXCEPT !.labels = 1])
    /\ Remember(g, dbName)
    /\ UNCHANGED <<env, current, filling>>

UsersOf(st, type) == {i \in OfKind(st, {"table"}) : st.desc[i].type = type}

\* ALTER TYPE ... ADD VALUE: the label is appended to the type and to the copy in
\* every column of the type.
AlterType(type) ==
    /\ May("type")
    /\ type \in OfKind(store, {"type"})
    /\ store.desc[type].labels < env.maxLabels
    /\ store' = [store EXCEPT !.desc =
                   [i \in DOMAIN @ |->
                      IF i = type \/ i \in UsersOf(store, type)
                      THEN [@[i] EXCEPT !.labels = store.desc[type].labels + 1]
                      ELSE @[i]]]
    /\ UNCHANGED <<env, cache, current, filling>>

DropType(type) ==
    /\ May("type")
    /\ type \in OfKind(store, {"type"})
    /\ UsersOf(store, type) = {}
    /\ store' = Remove(store, {type})
    /\ UNCHANGED <<env, cache, current, filling>>

-----------------------------------------------------------------------------
(* Tables.                                                                 *)

\* createTableConstraints records a foreign key on both tables.
LinkForeignKey(st, child, parent) ==
    IF parent = 0 THEN st
    ELSE [st EXCEPT !.desc[child].refs = @ \union {parent},
                    !.desc[parent].inbound = @ \union {child}]

SerialName(name) == name \o "_seq"

\* A table with an optional foreign key to ref, a column of an enum type, and a
\* SERIAL column, whose sequence is created once the table has its ID.
NewTable(db, name, ref, type, serial) ==
    LET table == [Descriptor("table", db, name) EXCEPT
                    !.type = type,
                    !.labels = IF type = 0 THEN 0 ELSE store.desc[type].labels]
        st1 == Add(store, table)
        id == st1.gen
        st2 == IF ~serial THEN st1
               ELSE LET s == Add(st1, [Descriptor("sequence", db, SerialName(name))
                                         EXCEPT !.owner = id])
                    IN [s EXCEPT !.desc[id].seq = s.gen]
    IN LinkForeignKey(st2, id, ref)

CanCreate(g, dbName, name) ==
    LET db == databaseID(g, dbName)
    IN /\ MayCreateIn(dbName)
       /\ namespaceLookup(store, db, name, isDefaultID(g, db) \/ dbName = DefaultDatabase) = None

CreateTable(g, dbName, name, ref, type, serial) ==
    /\ May("table") /\ Room(2) /\ CanCreate(g, dbName, name)
    /\ ref \in OfKind(store, {"table"}) \union {0}
    /\ type \in OfKind(store, {"type"}) \union {0}
    /\ LET db == databaseID(g, dbName)
       IN /\ serial => Migrated /\ SequenceFree(store, db, SerialName(name))
          /\ SameDatabase(ref, db) /\ SameDatabase(type, db)
          /\ store' = NewTable(db, name, ref, type, serial)
    /\ Remember(g, dbName)
    /\ UNCHANGED <<env, current, filling>>

\* viewsDependingOn
ViewsOn(st, ids) == {v \in OfKind(st, {"view"}) : st.desc[v].reads \intersect ids # {}}

\* The views dropped with ids: dropDependentViews follows the views on views.
RECURSIVE Dependents(_, _)
Dependents(st, ids) ==
    LET more == ViewsOn(st, ids) \ ids
    IN IF more = {} THEN ids ELSE Dependents(st, ids \union more)

\* dropTableConstraints: the foreign keys referring to a dropped table are removed
\* from its children, and its own from its parents.
UnlinkForeignKeys(st, id) ==
    [st EXCEPT !.desc = [i \in DOMAIN @ |->
        [@[i] EXCEPT !.refs = @ \ {id}, !.inbound = @ \ {id}]]]

OwnedSequences(st, table) ==
    {s \in OfKind(st, {"sequence"}) :
       st.desc[s].owner = table /\ (st.desc[table].db \in {0, st.desc[s].db})}


Dropped(st, id) ==
    Remove(UnlinkForeignKeys(st, id), Dependents(st, {id}) \union OwnedSequences(st, id))

\* Whether DROP TABLE goes through: without CASCADE no view reads the table and no
\* other table's foreign key refers to it.
CanDrop(st, id, cascade) ==
    /\ st.desc[id].kind = "table"
    /\ cascade \/ (ViewsOn(st, {id}) = {} /\ st.desc[id].inbound \ {id} = {})

DropTable(g, dbName, name, cascade) ==
    /\ May("table")
    /\ LET id == lookup(g, dbName, name)
       IN /\ id # None
          /\ CanDrop(store, id, cascade)
          /\ store' = Dropped(store, id)
    /\ Remember(g, dbName)
    /\ UNCHANGED <<env, current, filling>>

\* ALTER TABLE ... RENAME TO, refused while a view reads the table.
RenameTable(g, dbName, name, to) ==
    /\ May("alter")
    /\ LET id == lookup(g, dbName, name)
       IN /\ id # None
          /\ store.desc[id].kind = "table"
          /\ ViewsOn(store, {id}) = {}
          /\ LET db == store.desc[id].db
             IN /\ namespaceLookup(store, db, to, isDefaultID(g, db)) = None
                /\ store' = [store EXCEPT !.desc[id].name = to,
                               !.ns = With(Without(@, {TableKey(db, name)}), TableKey(db, to), id)]
    /\ Remember(g, dbName)
    /\ UNCHANGED <<env, current, filling>>

\* ALTER TABLE ... DROP COLUMN of the enum column or of the SERIAL one, whose
\* sequence goes with it.
DropColumn(g, dbName, name, column) ==
    /\ May("alter")
    /\ LET id == lookup(g, dbName, name)
       IN /\ id # None
          /\ store.desc[id].kind = "table"
          /\ ViewsOn(store, {id}) = {}
          /\ store.desc[id][column] # 0
          /\ store' =
               IF column = "type"
               THEN [store EXCEPT !.desc[id].type = 0, !.desc[id].labels = 0]
               ELSE LET st == [store EXCEPT !.desc[id].seq = 0]
                    IN Remove(st, {store.desc[id].seq} \intersect DOMAIN st.desc)
    /\ Remember(g, dbName)
    /\ UNCHANGED <<env, current, filling>>

-----------------------------------------------------------------------------
(* Views.                                                                  *)

CreateView(g, dbName, name, reads) ==
    /\ May("view") /\ Room(1) /\ Migrated /\ CanCreate(g, dbName, name)
    /\ reads \subseteq OfKind(store, {"table", "view"})
    /\ \A r \in reads : SameDatabase(r, databaseID(g, dbName))
    /\ store' = Add(store, [Descriptor("view", databaseID(g, dbName), name)
                              EXCEPT !.reads = reads])
    /\ Remember(g, dbName)
    /\ UNCHANGED <<env, current, filling>>

\* viewDependsOn
RECURSIVE ReadsFrom(_, _)
ReadsFrom(st, ids) ==
    LET more == UNION {st.desc[i].reads : i \in ids} \ ids
    IN IF more = {} THEN ids ELSE ReadsFrom(st, ids \union more)

viewDependsOn(st, reads, id) == id \in ReadsFrom(st, reads)

\* CREATE OR REPLACE VIEW over an existing view.
ReplaceView(g, dbName, name, reads) ==
    /\ May("view") /\ MayCreateIn(dbName)
    /\ LET id == lookup(g, dbName, name)
       IN /\ id # None
          /\ store.desc[id].kind = "view"
          /\ reads \subseteq OfKind(store, {"table", "view"})
          /\ \A r \in reads : SameDatabase(r, databaseID(g, dbName))
          /\ ~viewDependsOn(store, reads, id)
          /\ store' = [store EXCEPT !.desc[id].reads = reads]
    /\ Remember(g, dbName)
    /\ UNCHANGED <<env, current, filling>>

\* DROP VIEW of several views: refused, without CASCADE, while a view outside the
\* list reads one of them.
DropView(ids, cascade) ==
    /\ May("view")
    /\ ids # {} /\ ids \subseteq OfKind(store, {"view"})
    /\ cascade \/ ViewsOn(store, ids) \subseteq ids
    /\ store' = Remove(store, Dependents(store, ids))
    /\ UNCHANGED <<env, cache, current, filling>>

-----------------------------------------------------------------------------
(* CREATE TABLE AS: the table in one transaction, then the query and the   *)
(* rows; a failure drops the table again, by name and without CASCADE.     *)

CreateTableAs(g, dbName, name) ==
    /\ May("as") /\ filling[g] = <<>>
    /\ Room(1) /\ CanCreate(g, dbName, name)
    /\ store' = NewTable(databaseID(g, dbName), name, 0, 0, FALSE)
    /\ filling' = [filling EXCEPT ![g] = <<dbName, name>>]
    /\ Remember(g, dbName)
    /\ UNCHANGED <<env, current>>

Filled(g) ==
    /\ filling[g] # <<>>
    /\ filling' = [filling EXCEPT ![g] = <<>>]
    /\ UNCHANGED <<env, store, cache, current>>

FillFails(g) ==
    /\ filling[g] # <<>>
    /\ filling' = [filling EXCEPT ![g] = <<>>]
    /\ LET id == lookup(g, filling[g][1], filling[g][2])
       IN store' = IF id # None /\ CanDrop(store, id, FALSE) THEN Dropped(store, id) ELSE store
    /\ Remember(g, filling[g][1])
    /\ UNCHANGED <<env, current>>

-----------------------------------------------------------------------------
(* The v6 migration, run when the cluster version is finalized and again   *)
(* at every restart: one transaction.                                      *)

ensureDatabase(st, name) ==
    IF Named(st, DatabaseKey(name)) THEN st ELSE Add(st, Descriptor("database", 0, name))

Moved(st, db) ==
    LET flat == {k \in DOMAIN st.ns : k[1] = "flat"}
    IN [st EXCEPT !.ns = [k \in {<<"table", db, f[3]>> : f \in flat} |-> st.ns[TableKey(0, k[3])]]
                         @@ Without(@, flat),
                  !.desc = [i \in DOMAIN @ |->
                      IF i \in {st.ns[f] : f \in flat} /\ @[i].db = 0
                      THEN [@[i] EXCEPT !.db = db] ELSE @[i]]]

MigrateNamespace ==
    /\ May("migrate") /\ Room(2)
    /\ LET st == ensureDatabase(ensureDatabase(store, DefaultDatabase), SystemDatabase)
       IN store' = Moved(st, LookupDatabase(st, DefaultDatabase))
    /\ store' # store
    /\ UNCHANGED <<env, cache, current, filling>>

-----------------------------------------------------------------------------
Databases(g) == {current[g]} \union env.databases

Next ==
    \/ MigrateNamespace
    \/ \E id \in DOMAIN store.desc : AlterType(id) \/ DropType(id)
    \/ \E ids \in SUBSET OfKind(store, {"view"}), cascade \in BOOLEAN : DropView(ids, cascade)
    \/ \E g \in env.gateways :
         \/ Filled(g) \/ FillFails(g)
         \/ \E d \in env.databases :
              \/ UseDatabase(g, d)
              \/ CreateDatabase(g, d)
              \/ \E cascade \in BOOLEAN : DropDatabase(g, d, cascade)
              \/ \E to \in env.databases : RenameDatabase(g, d, to)
         \/ \E d \in Databases(g), n \in env.names :
              \/ \E owned \in OfKind(store, {"table"}) \union {0} : CreateSequence(g, d, n, owned)
              \/ DropSequence(g, d, n)
              \/ CreateType(g, d, n)
              \/ \E ref, type \in DOMAIN store.desc \union {0}, serial \in BOOLEAN :
                   CreateTable(g, d, n, ref, type, serial)
              \/ \E cascade \in BOOLEAN : DropTable(g, d, n, cascade)
              \/ \E to \in env.names : RenameTable(g, d, n, to)
              \/ \E column \in {"type", "seq"} : DropColumn(g, d, n, column)
              \/ \E reads \in SUBSET OfKind(store, {"table", "view"}) \ {{}} :
                   CreateView(g, d, n, reads) \/ ReplaceView(g, d, n, reads)
              \/ CreateTableAs(g, d, n)

Spec == Init /\ [][Next]_vars

-----------------------------------------------------------------------------
\* The names and the descriptors are two views of one thing: every entry leads to a
\* live descriptor that says it has that name in that database, and every
\* descriptor is found under its name.
NamesResolve ==
    /\ \A k \in DOMAIN store.ns :
         store.ns[k] \in DOMAIN store.desc /\ NameKey(store.desc[store.ns[k]]) = k
    /\ \A i \in DOMAIN store.desc :
         Named(store, NameKey(store.desc[i])) /\ store.ns[NameKey(store.desc[i])] = i

\* An object whose database was dropped: DROP DATABASE takes the tables and views,
\* and leaves sequences and types.
LeftBehind(d) == d.kind \in {"sequence", "type"} /\ d.db # 0 /\ d.db \notin DOMAIN store.desc


-----------------------------------------------------------------------------
(* The situations in which the catalog is explored.                        *)

Born ==   \* BootstrapDatabases
    [desc |-> (1 :> Descriptor("database", 0, DefaultDatabase))
              @@ (2 :> Descriptor("database", 0, SystemDatabase)),
     ns |-> (DatabaseKey(DefaultDatabase) :> 1) @@ (DatabaseKey(SystemDatabase) :> 2),
     gen |-> 2]

\* A cluster older than v6: one table in the flat namespace.
Flat ==
    [desc |-> 1 :> Descriptor("table", 0, "a"), ns |-> TableKey(0, "a") :> 1, gen |-> 1]

Case(start, gateways, databases, names, statements, maxID, across) ==
    [start |-> start, gateways |-> gateways, databases |-> databases, names |-> names,
     statements |-> statements, maxID |-> maxID, maxLabels |-> 2, across |-> across]

Closed == Case(Born, {}, {}, {}, {}, 2, FALSE)

\* One gateway, one database: everything that depends on something.
Depending == Case(Born, {1}, {}, {"a", "a_seq"},
                  {"table", "alter", "sequence", "type"}, 6, TRUE)
Viewing == Case(Born, {1}, {}, {"a", "b", "c"}, {"table", "view", "as"}, 6, TRUE)

\* Two gateways that create databases, and tables across them.
Shared == Case(Born, {1, 2}, {"app"}, {"a"}, {"database", "table", "view"}, 6, TRUE)

\* One gateway that drops and renames databases.
Renaming == Case(Born, {1}, {"app", "web"}, {"a"},
                 {"database", "drop_database", "table", "view", "sequence"}, 7, FALSE)

\* The v6 migration under two gateways with warm caches.
Migrating == Case(Flat, {1, 2}, {"app"}, {"a", "b"},
                  {"table", "view", "alter", "migrate"}, 6, TRUE)

Cases == {Depending, Viewing, Shared, Renaming, Migrating}
=============================================================================
