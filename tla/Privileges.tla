------------------------------ MODULE Privileges ------------------------------
(***************************************************************************)
(* Roles, ownership and privileges (pkg/sql/{roles,privileges}.go,         *)
(* pkg/sql/catalog/role.go).                                               *)
(*                                                                         *)
(* Transactions are serializable, so one transaction at a time runs here:  *)
(* statements of a session's user, or of a role it has SET, until COMMIT.  *)
(* A session resolves the roles its actor holds once per transaction       *)
(* (roleSet) and forgets them after role DDL (invalidateRoles).  Before v11 roles are user records and admin         *)
(* markers; MigrateRoles turns them into descriptors after the version is  *)
(* finalized.                                                              *)
(*                                                                         *)
(* `meant' is a history of what the role statements said, whatever layout  *)
(* they wrote.                                                             *)
(***************************************************************************)
EXTENDS FiniteSets, Sequences, TLC, Integers

CONSTANT Environments

VARIABLES
    env,
    stored,    \* the database: roles, the pre-v11 records, objects, the database
    finalized, \* ClusterVersion >= v11
    txn,       \* the transaction in progress: its session and roleCache
    meant,     \* history: who exists, belongs to whom, does not inherit
    gone,      \* history: names dropped since they were last used
    budget     \* statements left

vars == <<env, stored, finalized, txn, meant, gone, budget>>

RootRole == "root"
AdminRole == "admin"
PublicRole == "public"
ReadAllRole == "read_all"
WriteAllRole == "write_all"
BuiltinRoles == {AdminRole, ReadAllRole, WriteAllRole}
reservedRoleName == BuiltinRoles \union {PublicRole}

Without(f, S) == [x \in DOMAIN f \ S |-> f[x]]
With(f, x, y) == (x :> y) @@ f

-----------------------------------------------------------------------------
(* Reading roles.                                                          *)

Role(noInherit, memberOf) == [noInherit |-> noInherit, memberOf |-> memberOf]
NoMember == [x \in {} |-> FALSE]

\* A role's descriptor as an option: built in, v11, assembled from the pre-v11
\* records, or root, which always exists.
LookupRole(st, name) ==
    IF name \in BuiltinRoles THEN <<Role(FALSE, NoMember)>>
    ELSE IF name \in DOMAIN st.roles THEN <<st.roles[name]>>
    ELSE IF name \in st.users
         THEN <<Role(FALSE, IF name \in st.admins THEN AdminRole :> FALSE ELSE NoMember)>>
    ELSE IF name = RootRole THEN <<Role(FALSE, NoMember)>> ELSE <<>>

Exists(st, name) == LookupRole(st, name) # <<>>

MemberOf(st, name, followAll) ==
    LET d == LookupRole(st, name)
    IN IF d = <<>> THEN {}
       ELSE IF d[1].noInherit /\ ~followAll THEN {} ELSE DOMAIN d[1].memberOf

RECURSIVE Walk(_, _, _)
Walk(st, set, followAll) ==
    LET more == UNION {MemberOf(st, n, followAll) : n \in set} \ set
    IN IF more = {} THEN set ELSE Walk(st, set \union more, followAll)

\* The roles whose privileges name holds, following INHERIT.
Effective(st, name) ==
    Walk(st, {name}, FALSE) \union {PublicRole}
      \union (IF name = RootRole THEN {AdminRole} ELSE {})

\* The roles name may SET ROLE to.
Reachable(st, name) == Walk(st, {name}, TRUE)

IsAdmin(set) == RootRole \in set \/ AdminRole \in set

\* PutRole removes the pre-v11 records of the name.
PutRole(st, name, d) ==
    [st EXCEPT !.roles = With(@, name, d), !.users = @ \ {name}, !.admins = @ \ {name}]

DeleteRole(st, name) ==
    [st EXCEPT !.roles = Without(@, {name}), !.users = @ \ {name}, !.admins = @ \ {name}]

AddMembership(d, role, admin) ==
    [d EXCEPT !.memberOf = With(@, role, admin \/ (role \in DOMAIN @ /\ @[role]))]

RemoveMembership(d, role, adminOnly) ==
    IF role \notin DOMAIN d.memberOf THEN d
    ELSE IF adminOnly THEN [d EXCEPT !.memberOf[role] = FALSE]
    ELSE [d EXCEPT !.memberOf = Without(@, {role})]

-----------------------------------------------------------------------------
(* Deciding.  Privileges are sets of <<grantee, privilege>>.               *)

OwnedSequence(o) == o.kind = "sequence" /\ o.on # ""

HasPrivilege(m, set, priv) == \E g \in set : <<g, priv>> \in m

schemaUsageAllowed(st, set) ==
    \/ ~st.db.usageRestricted
    \/ IsAdmin(set) \/ st.db.owner \in set
    \/ HasPrivilege(st.db.schemaPrivs, set, "USAGE")

\* What a table's own grants allow, before the schema is asked.
TableAllowed(o, set, priv) ==
    \/ IsAdmin(set) \/ o.owner \in set
    \/ HasPrivilege(o.privs, set, priv)
    \/ priv = "SELECT" /\ ReadAllRole \in set
    \/ priv # "SELECT" /\ WriteAllRole \in set
    \/ priv = "TRUNCATE" /\ HasPrivilege(o.privs, set, "DELETE")

tablePrivAllowed(st, o, set, priv) == TableAllowed(o, set, priv) /\ schemaUsageAllowed(st, set)

\* A sequence a column owns follows its table.
sequencePrivAllowed(st, o, set, priv) ==
    \/ IsAdmin(set) \/ o.owner \in set
    \/ HasPrivilege(o.privs, set, priv)
    \/ priv # "UPDATE" /\ HasPrivilege(o.privs, set, "USAGE")
    \/ priv = "SELECT" /\ ReadAllRole \in set
    \/ priv # "SELECT" /\ WriteAllRole \in set
    \/ /\ o.on \in DOMAIN st.objects
       /\ tablePrivAllowed(st, st.objects[o.on], set, IF priv = "USAGE" THEN "INSERT" ELSE priv)

databasePrivAllowed(st, set, priv) ==
    \/ IsAdmin(set) \/ st.db.owner \in set
    \/ HasPrivilege(st.db.privs, set, priv)
    \/ priv = "CONNECT" /\ ~st.db.connectRestricted
    \/ priv = "CREATE" /\ HasPrivilege(st.db.schemaPrivs, set, "CREATE")

privOrderFor(kind) ==
    CASE kind = "sequence" -> {"USAGE", "SELECT", "UPDATE"}
      [] kind = "database" -> {"CREATE", "CONNECT"}
      [] kind = "schema" -> {"USAGE", "CREATE"}
      [] OTHER -> {"SELECT", "INSERT", "UPDATE", "DELETE", "TRUNCATE"}

-----------------------------------------------------------------------------
(* The session.                                                            *)

Closed == [open |-> FALSE]

Init ==
    /\ env \in Environments
    /\ stored = env.start
    /\ finalized = env.finalized
    /\ txn = Closed
    /\ meant = env.meant
    /\ gone = {}
    /\ budget = env.budget

\* A session of an existing user begins a transaction on this gateway.
Begin(user) ==
    /\ budget > 0
    /\ ~txn.open /\ user \in env.users /\ Exists(stored, user)
    /\ txn' = [open |-> TRUE, sessionUser |-> user, user |-> user, roleCache |-> <<>>,
               changed |-> FALSE]
    /\ UNCHANGED <<env, stored, finalized, meant, gone, budget>>

\* A transaction that rolls back leaves nothing, and the next one resolves its roles
\* itself (roleCacheTxn): it is as if it had not run.
Commit ==
    /\ txn.open
    /\ txn' = Closed
    /\ UNCHANGED <<env, stored, finalized, meant, gone, budget>>

\* roleSet: resolved once per transaction and actor.
roleSet(actor) ==
    IF actor \in DOMAIN txn.roleCache THEN txn.roleCache[actor] ELSE Effective(stored, actor)

MySet == roleSet(txn.user)
IsAdminNow == IsAdmin(MySet)
IsOwner(owner) == IsAdmin(MySet) \/ owner \in MySet

Resolved == [txn EXCEPT !.roleCache = With(@, txn.user, MySet)]

\* invalidateRoles
Invalidated == [txn EXCEPT !.roleCache = <<>>, !.changed = TRUE]

Statement(kind) ==
    /\ txn.open /\ budget > 0 /\ kind \in env.statements
    /\ budget' = budget - 1
    /\ UNCHANGED <<env, finalized>>

\* A statement that changes grants or objects: roles stay as they are.
OnObjects(st) ==
    /\ stored' = st
    /\ txn' = Resolved
    /\ UNCHANGED meant

Used(names) == gone' = gone \ names

\* checkSetRole runs in a transaction of its own; it would wait for the caller's
\* uncommitted role DDL.
SetRole(name) ==
    /\ Statement("set") /\ finalized /\ ~txn.changed
    /\ name # PublicRole /\ Exists(stored, name)
    /\ \/ txn.sessionUser = RootRole \/ name \in Reachable(stored, txn.sessionUser)
       \/ IsAdmin(Effective(stored, txn.sessionUser))
    /\ txn' = [txn EXCEPT !.user = name, !.roleCache = <<>>]
    /\ UNCHANGED <<stored, meant, gone>>

-----------------------------------------------------------------------------
(* Role DDL.                                                               *)

\* The history of what was said.
Said(name, noInherit, memberOf) ==
    [meant EXCEPT !.exists = @ \union {name},
                  !.noInherit = IF noInherit THEN @ \union {name} ELSE @ \ {name},
                  !.member = memberOf]

EdgesOf(name) == {e \in meant.member : e[1] = name}

\* CREATE ROLE / USER and, of an existing role, ALTER ROLE (INHERIT, IN ROLE).
CreateRole(name, noInherit, inRoles) ==
    /\ Statement("role") /\ finalized /\ IsAdminNow
    /\ name \notin reservedRoleName /\ name # RootRole
    /\ \A r \in inRoles : Exists(stored, r) /\ r # name
    /\ LET old == LookupRole(stored, name)
           before == IF old = <<>> THEN Role(FALSE, NoMember) ELSE old[1]
       IN stored' = PutRole(stored, name,
                      Role(noInherit, [r \in inRoles |-> r \in DOMAIN before.memberOf /\ before.memberOf[r]]
                                        @@ before.memberOf))
    /\ meant' = Said(name, noInherit,
                  (IF name \in meant.exists THEN meant.member ELSE meant.member \ EdgesOf(name))
                    \union {<<name, r>> : r \in inRoles})
    /\ txn' = Invalidated
    /\ Used({name})

\* The pre-v11 form: a user record.
CreateRoleLegacy(name) ==
    /\ Statement("role") /\ ~finalized /\ IsAdminNow
    /\ name \notin reservedRoleName /\ name # RootRole
    /\ name \notin stored.users
    /\ stored' = [stored EXCEPT !.users = @ \union {name}]
    /\ meant' = Said(name, FALSE, meant.member)
    /\ txn' = Resolved
    /\ Used({name})

ownedObjects(st, name) ==
    {o \in DOMAIN st.objects : st.objects[o].owner = name /\ ~OwnedSequence(st.objects[o])}
      \union {d \in {"database"} : st.db.owner = name}

\* Every grant to the role, and the default rules that name it.  A table is
\* rewritten only if the role has a privilege on it.
revokeAllFrom(st, name) ==
    LET Strip(m) == {e \in m : e[1] # name}
    IN [st EXCEPT
          !.objects = [o \in DOMAIN @ |->
              IF \E e \in @[o].privs : e[1] = name
              THEN [@[o] EXCEPT !.privs = Strip(@), !.options = Strip(@)] ELSE @[o]],
          !.db = [@ EXCEPT !.privs = Strip(@), !.options = Strip(@),
                           !.schemaPrivs = Strip(@), !.schemaOptions = Strip(@),
                           !.defaults = {r \in @ : name \notin {r.for, r.grantee}}]]

MembershipsRemoved(st, name) ==
    [st EXCEPT !.roles = [n \in DOMAIN @ |-> RemoveMembership(@[n], name, FALSE)]]

DropRole(name) ==
    /\ Statement("drop_role") /\ IsAdminNow
    /\ name \notin reservedRoleName \union {RootRole, txn.sessionUser}
    /\ Exists(stored, name)
    /\ ownedObjects(stored, name) = {}
    /\ LET st == revokeAllFrom(stored, name)
       IN stored' = DeleteRole(IF finalized THEN MembershipsRemoved(st, name) ELSE st, name)
    /\ meant' = [exists |-> meant.exists \ {name}, noInherit |-> meant.noInherit \ {name},
                 member |-> {e \in meant.member : name \notin {e[1], e[2]}}]
    /\ txn' = Invalidated
    /\ gone' = gone \union {name}

HoldsAdminOption(st, actor, r) ==
    LET d == LookupRole(st, actor)
    IN IF d = <<>> THEN FALSE
       ELSE IF r \in DOMAIN d[1].memberOf THEN d[1].memberOf[r] ELSE FALSE

\* GRANT r TO g and REVOKE r FROM g, [ADMIN OPTION].
CanGrantRole(r, g) ==
    /\ Exists(stored, r) /\ r # PublicRole
    /\ IsAdminNow \/ HoldsAdminOption(stored, txn.user, r)
    /\ g \notin reservedRoleName /\ ~(g = RootRole /\ r = AdminRole) /\ g # r
    /\ Exists(stored, g)

\* seeded fault: execGrantRole does not forget the resolved roles
Stale == Resolved

Granted == Invalidated

GrantRole(r, g, adminOption) ==
    /\ Statement("member") /\ finalized /\ CanGrantRole(r, g)
    /\ g \notin Reachable(stored, r)
    /\ stored' = PutRole(stored, g, AddMembership(LookupRole(stored, g)[1], r, adminOption))
    /\ meant' = [meant EXCEPT !.member = @ \union {<<g, r>>}]
    /\ txn' = Granted
    /\ UNCHANGED gone

RevokeRole(r, g, adminOnly) ==
    /\ Statement("member") /\ finalized /\ CanGrantRole(r, g)
    /\ LET d == LookupRole(stored, g)[1]
       IN stored' = IF RemoveMembership(d, r, adminOnly) = d /\ g \notin stored.users THEN stored
                    ELSE PutRole(stored, g, RemoveMembership(d, r, adminOnly))
    /\ meant' = IF adminOnly THEN meant ELSE [meant EXCEPT !.member = @ \ {<<g, r>>}]
    /\ txn' = Invalidated
    /\ UNCHANGED gone

\* Before v11 only GRANT ADMIN TO user, a marker that needs no user record.
GrantAdminLegacy(user, revoke) ==
    /\ Statement("member") /\ ~finalized /\ IsAdminNow /\ user # RootRole
    /\ stored' = [stored EXCEPT !.admins = IF revoke THEN @ \ {user} ELSE @ \union {user}]
    /\ meant' = [meant EXCEPT !.member = IF revoke THEN @ \ {<<user, AdminRole>>}
                                         ELSE @ \union {<<user, AdminRole>>}]
    /\ txn' = Invalidated
    /\ Used({user})

\* debug upgrade, while no transaction is open here.
Finalize ==
    /\ ~finalized /\ ~txn.open
    /\ finalized' = TRUE
    /\ UNCHANGED <<env, stored, txn, meant, gone, budget>>

\* Every user record becomes a descriptor, unless one was written since, and every
\* admin marker of a user, except root's, a membership.
Migrated(st) ==
    LET Descriptor(u) == IF u \in DOMAIN st.roles THEN st.roles[u] ELSE Role(FALSE, NoMember)
    IN [st EXCEPT !.roles = [u \in st.users |->
                                IF u \in st.admins /\ u # RootRole
                                THEN AddMembership(Descriptor(u), AdminRole, FALSE)
                                ELSE Descriptor(u)] @@ @,
                  !.users = {}, !.admins = {}]

MigrateRoles ==
    /\ finalized /\ ~txn.open
    /\ stored.users # {} \/ stored.admins # {}
    /\ stored' = Migrated(stored)
    /\ meant' = [meant EXCEPT !.member = {e \in @ : e[1] \in meant.exists}]
    /\ UNCHANGED <<env, finalized, txn, gone, budget>>

-----------------------------------------------------------------------------
(* Grants on objects.                                                      *)

CanResolve(grantee) == grantee = PublicRole \/ Exists(stored, grantee) \/ ~finalized

canGrantOn(owner, options, privs) ==
    IsOwner(owner) \/ \A p \in privs : HasPrivilege(options, MySet, p)

\* applyGrant on a pair of privilege maps; `option' is WITH GRANT OPTION of a GRANT,
\* GRANT OPTION FOR of a REVOKE.
applyGrant(o, grantee, privs, revoke, option) ==
    LET these == {grantee} \X privs
    IN IF ~revoke THEN [privs |-> o.privs \union these,
                        options |-> IF option THEN o.options \union these ELSE o.options]
       ELSE [privs |-> IF option THEN o.privs ELSE o.privs \ these,
             options |-> o.options \ these]

GrantRevoke(name, privs, grantee, revoke, option) ==
    /\ Statement("grant") /\ CanResolve(grantee)
    /\ name \in DOMAIN stored.objects
    /\ LET o == stored.objects[name]
           new == applyGrant(o, grantee, privs, revoke, option)
       IN /\ option \/ o.kind = "sequence" => finalized
          /\ privs # {} /\ privs \subseteq privOrderFor(o.kind)
          /\ canGrantOn(o.owner, o.options, privs)
          /\ OnObjects([stored EXCEPT !.objects[name].privs = new.privs,
                                      !.objects[name].options = new.options])
    /\ Used({grantee})

\* CONNECT and USAGE of PUBLIC are defaults that a REVOKE turns off.
grantOnDatabase(privs, grantee, revoke, option) ==
    /\ Statement("grant_database") /\ CanResolve(grantee)
    /\ option => finalized
    /\ privs # {} /\ privs \subseteq privOrderFor("database")
    /\ canGrantOn(stored.db.owner, stored.db.options, privs)
    /\ LET public == grantee = PublicRole /\ "CONNECT" \in privs
           new == applyGrant(stored.db, grantee, IF public THEN privs \ {"CONNECT"} ELSE privs,
                             revoke, option)
       IN OnObjects([stored EXCEPT
            !.db = [@ EXCEPT !.privs = new.privs, !.options = new.options,
                             !.connectRestricted = IF public THEN revoke ELSE @]])
    /\ Used({grantee})

grantOnSchema(privs, grantee, revoke, option) ==
    /\ Statement("grant_database") /\ finalized /\ CanResolve(grantee)
    /\ privs # {} /\ privs \subseteq privOrderFor("schema")
    /\ canGrantOn(stored.db.owner, stored.db.schemaOptions, privs)
    /\ LET public == grantee = PublicRole /\ "USAGE" \in privs
           new == applyGrant([privs |-> stored.db.schemaPrivs, options |-> stored.db.schemaOptions],
                             grantee, IF public THEN privs \ {"USAGE"} ELSE privs, revoke, option)
       IN OnObjects([stored EXCEPT
            !.db = [@ EXCEPT !.schemaPrivs = new.privs, !.schemaOptions = new.options,
                             !.usageRestricted = IF public THEN revoke ELSE @]])
    /\ Used({grantee})

\* One rule per role, kind and grantee.
AlterDefaultPrivileges(for, kind, privs, grantee, revoke, option) ==
    /\ Statement("defaults") /\ finalized /\ CanResolve(grantee)
    /\ Exists(stored, for) /\ (IsAdminNow \/ for \in MySet)
    /\ privs # {} /\ privs \subseteq privOrderFor(kind)
    /\ LET mine == {r \in stored.db.defaults :
                      r.for = for /\ r.kind = kind /\ r.grantee = grantee}
           old == UNION {r.privs : r \in mine}
           hadOption == \E r \in mine : r.option
           now == IF ~revoke THEN old \union privs ELSE IF option THEN old ELSE old \ privs
           rule == [for |-> for, kind |-> kind, grantee |-> grantee, privs |-> now,
                    option |-> IF revoke THEN hadOption /\ ~option ELSE hadOption \/ option]
       IN OnObjects([stored EXCEPT !.db.defaults =
            (@ \ mine) \union {r \in {rule} : now # {} /\ (revoke => mine # {})}])
    /\ Used({grantee})

-----------------------------------------------------------------------------
(* Objects and their owners.                                               *)

\* applyDefaultPrivileges
Stamped(o) ==
    LET rules == {r \in stored.db.defaults : r.kind = o.kind /\ r.for = o.owner}
        Pairs(rs) == UNION {{r.grantee} \X r.privs : r \in rs}
    IN [o EXCEPT !.privs = Pairs(rules), !.options = Pairs({r \in rules : r.option})]

CreateTable(name) ==
    /\ Statement("create") /\ name \notin DOMAIN stored.objects
    /\ databasePrivAllowed(stored, MySet, "CREATE")
    /\ OnObjects([stored EXCEPT !.objects = With(@, name,
         Stamped([kind |-> "table", on |-> "", owner |-> txn.user, privs |-> {}, options |-> {}]))])
    /\ UNCHANGED gone

checkNewOwner(owner) ==
    /\ owner \notin reservedRoleName /\ Exists(stored, owner)
    /\ IsAdminNow \/ owner \in MySet

AlterOwner(name, owner) ==
    /\ Statement("owner") /\ finalized /\ checkNewOwner(owner)
    /\ \/ /\ name \in DOMAIN stored.objects /\ IsOwner(stored.objects[name].owner)
          /\ OnObjects([stored EXCEPT !.objects[name].owner = owner])
       \/ /\ name = "database" /\ IsOwner(stored.db.owner)
          /\ OnObjects([stored EXCEPT !.db.owner = owner])
    /\ UNCHANGED gone

checkOwnedRoles(from) ==
    /\ from # RootRole /\ Exists(stored, from)
    /\ IsAdminNow \/ from \in MySet

ReassignOwned(from, to) ==
    /\ Statement("owned") /\ finalized /\ checkOwnedRoles(from) /\ checkNewOwner(to)
    /\ OnObjects([stored EXCEPT
         !.objects = [o \in DOMAIN @ |-> IF @[o].owner = from THEN [@[o] EXCEPT !.owner = to] ELSE @[o]],
         !.db.owner = IF @ = from THEN to ELSE @])
    /\ UNCHANGED gone

\* The objects go, with the views and the sequences that hang on them when CASCADE;
\* without it a view of someone else over a table refuses the statement.
DropOwned(from, cascade) ==
    LET mine == {o \in DOMAIN stored.objects : stored.objects[o].owner = from}
        hanging == {o \in DOMAIN stored.objects : stored.objects[o].on \in mine}
        views == {o \in hanging : stored.objects[o].kind = "view"}
    IN /\ Statement("owned") /\ finalized /\ checkOwnedRoles(from)
       /\ stored.db.owner # from
       /\ cascade \/ views \subseteq mine
       \* execDropSequence refuses a sequence that a column draws from
       /\ \A o \in mine : OwnedSequence(stored.objects[o]) => stored.objects[o].on \in mine
       /\ OnObjects(revokeAllFrom([stored EXCEPT !.objects = Without(@, mine \union hanging)], from))
       /\ UNCHANGED gone

-----------------------------------------------------------------------------
Next ==
    \/ Finalize \/ MigrateRoles \/ Commit
    \/ \E u \in env.users : Begin(u)
    \/ \E n \in env.names \union {RootRole} : SetRole(n)
    \/ \E n \in env.names :
         \/ \E noInherit \in BOOLEAN, inRoles \in SUBSET (env.grantable \ {n}) :
              CreateRole(n, noInherit, inRoles)
         \/ CreateRoleLegacy(n) \/ DropRole(n)
         \/ \E revoke \in BOOLEAN : GrantAdminLegacy(n, revoke)
         \/ \E r \in env.grantable, o \in BOOLEAN : GrantRole(r, n, o) \/ RevokeRole(r, n, o)
         \/ \E o \in DOMAIN stored.objects \union {"database"} : AlterOwner(o, n)
         \/ \E m \in env.names : ReassignOwned(n, m)
         \/ \E cascade \in BOOLEAN : DropOwned(n, cascade)
    \/ \E o \in env.created : CreateTable(o)
    \/ \E g \in env.names \union {PublicRole}, revoke, option \in BOOLEAN, privs \in env.privs :
         \/ \E o \in DOMAIN stored.objects : GrantRevoke(o, privs, g, revoke, option)
         \/ grantOnDatabase(privs, g, revoke, option)
         \/ grantOnSchema(privs, g, revoke, option)
         \/ \E f \in env.names : AlterDefaultPrivileges(f, "table", privs, g, revoke, option)

Spec == Init /\ [][Next]_vars

-----------------------------------------------------------------------------
\* What a name holds by what was said: r is held when every set that contains the
\* name and, with an inheriting role of its, the roles that role was made a member
\* of, contains r.
Held(name) ==
    LET Over(edges) ==
          LET all == {name} \union {e[2] : e \in edges}
              IsClosed(S) == name \in S /\ \A e \in edges : e[1] \in S => e[2] \in S
              InEvery(closed) == {r \in all : \A S \in closed : r \in S}
          IN InEvery({S \in SUBSET all : IsClosed(S)})
    IN Over({e \in meant.member : e[1] \in meant.exists /\ e[1] \notin meant.noInherit})
         \union {PublicRole} \union (IF name = RootRole THEN {AdminRole} ELSE {})

\* The roles a statement is judged by are the ones its role holds at that moment, by
\* every role statement so far: those of this transaction, which roleSet may have
\* resolved the roles before (invalidateRoles), and those made before v11, whatever
\* MigrateRoles did with their records.
RolesCurrent ==
    /\ txn.open => \A actor \in DOMAIN txn.roleCache \union {txn.user} : roleSet(actor) = Held(actor)
    /\ \A n \in env.names : Effective(stored, n) = Held(n)

\* A dropped role leaves nothing behind that a role of the same name, created later,
\* would inherit: no grant, grant option, default rule, membership, admin marker or
\* ownership ("Its grants and its memberships go with it", roles.go).  A sequence
\* that a column owns is not asked about: it keeps the owner it was created with.
NothingDangles ==
    \A n \in gone :
      LET Mentions(m) == \E e \in m : e[1] = n
      IN /\ \A o \in DOMAIN stored.objects :
              /\ ~Mentions(stored.objects[o].privs) /\ ~Mentions(stored.objects[o].options)
              /\ stored.objects[o].owner = n => OwnedSequence(stored.objects[o])
         /\ stored.db.owner # n
         /\ ~Mentions(stored.db.privs \union stored.db.options)
         /\ ~Mentions(stored.db.schemaPrivs \union stored.db.schemaOptions)
         /\ \A r \in stored.db.defaults : n \notin {r.for, r.grantee}
         /\ \A r \in DOMAIN stored.roles : n \notin DOMAIN stored.roles[r].memberOf
         /\ n \notin stored.admins

\* What a role may do with an object, before the schema is asked.
May(st, set, o, priv) ==
    IF st.objects[o].kind = "sequence" THEN sequencePrivAllowed(st, st.objects[o], set, priv)
    ELSE TableAllowed(st.objects[o], set, priv)

\* A session that is not an admin's cannot hand out more than it can get: whatever a
\* role may newly do with an existing object after one of its statements, or a role
\* that newly has admin authority, some role the session may SET could already.
NoMoreThan(held, mine, st, st2) ==
    \A n \in env.names :
      LET Within(now) ==
            /\ IsAdmin(now) => \E r \in mine \union {n} : IsAdmin(held[r])
            /\ \A o \in DOMAIN st.objects \intersect DOMAIN st2.objects :
                 \A p \in privOrderFor(st.objects[o].kind) :
                   May(st2, now, o, p) => \E r \in mine \union {n} : May(st, held[r], o, p)
      IN Within(Effective(st2, n))

NoEscalation ==
    [][LET Kept(held) == NoMoreThan(held, Reachable(stored, txn.sessionUser) \union {txn.user},
                                    stored, stored')
       IN txn.open /\ txn'.open /\ stored' # stored /\ ~IsAdmin(Effective(stored, txn.user)) =>
            Kept([r \in env.names \union Reachable(stored, txn.sessionUser) \union {txn.user} |->
                    Effective(stored, r)])]_vars

\* The three together.
PrivilegesRight == [](RolesCurrent /\ NothingDangles) /\ NoEscalation

--------------------------------------------------------------------------------
(* The situations in which roles and privileges are explored.  A session's *)
(* user exists when its transaction begins: a session whose role was       *)
(* dropped meanwhile keeps the name, and what it creates is owned by it.   *)

Object(kind, on, owner) == [kind |-> kind, on |-> on, owner |-> owner, privs |-> {}, options |-> {}]

Start(roles, users, admins, objects) ==
    [roles |-> roles, users |-> users, admins |-> admins, objects |-> objects,
     db |-> [owner |-> RootRole, privs |-> {}, options |-> {}, schemaPrivs |-> {},
             schemaOptions |-> {}, connectRestricted |-> FALSE, usageRestricted |-> FALSE,
             defaults |-> {}]]

Plain(names) == [n \in names |-> Role(FALSE, NoMember)]
NoObjects == [x \in {} |-> 0]
Meant(names) == [exists |-> names, noInherit |-> {}, member |-> {}]

Case(start, names, users, grantable, privs, statements, created, n) ==
    [start |-> start, finalized |-> TRUE, meant |-> Meant(names \intersect DOMAIN start.roles),
     names |-> names, users |-> users, grantable |-> grantable, privs |-> privs,
     statements |-> statements, created |-> created, budget |-> n]

Locked == Case(Start(Plain({}), {}, {}, NoObjects), {}, {}, {}, {}, {}, {}, 0)

\* Memberships: two roles and admin.
Members == Case(Start(Plain({"a", "b"}), {}, {}, "t" :> Object("table", "", "b")),
                {"a", "b", "c"}, {"root", "a"}, {"a", "b", AdminRole}, {},
                {"role", "drop_role", "member", "set"}, {}, 3)

\* Grants on a table and on the sequence of its column.
Granting == Case(Start(Plain({"a", "b"}), {}, {},
                       "t" :> Object("table", "", "a") @@ "s" :> Object("sequence", "t", "a")),
                 {"a", "b"}, {"root", "a", "b"}, {"b", ReadAllRole, WriteAllRole},
                 {{"SELECT"}, {"SELECT", "UPDATE"}, {"USAGE"}},
                 {"grant", "drop_role", "member"}, {}, 3)

\* Ownership and default privileges.
Owning == Case(Start(Plain({"a", "b"}), {}, {},
                     "t" :> Object("table", "", "a") @@ "s" :> Object("sequence", "t", "a")
                       @@ "v" :> Object("view", "t", "b")),
               {"a", "b"}, {"root", "a"}, {"b"}, {{"SELECT"}, {"CREATE"}, {"CONNECT"}, {"USAGE"}},
               {"owner", "owned", "drop_role", "create", "defaults", "grant_database"}, {"n"}, 3)

\* The v11 migration.
Migrating == [Case(Start(Plain({}), {"a"}, {}, "t" :> Object("table", "", "a")),
                   {"a", "b"}, {"root", "a"}, {"a", AdminRole}, {{"SELECT"}},
                   {"role", "drop_role", "member", "grant"}, {}, 4)
              EXCEPT !.finalized = FALSE, !.meant = Meant({"a"})]

Cases == {Members, Granting, Owning, Migrating}
================================================================================
