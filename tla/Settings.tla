---- MODULE Settings ----
(***************************************************************************)
(* routes/controller: repo-setting.go, namespace-setting.go,               *)
(* new-repository.go, new-namespace.go and repo-fork.go, with model/acl.go.*)
(* A request reads the rows its permission check needs, and writes later.  *)
(* The privileges ticked in a form are a set; titles, descriptions and     *)
(* webhook settings are left out, the row that carries them is not.        *)
(***************************************************************************)
EXTENDS Tables

CONSTANTS Backend, Procs, Users, Admins,
          Barred,       \* users with status NORMAL_USER_NO_NEW_NAMESPACE
          NoUser,       \* a name no user has
          Namespace, Names, Ticks, Statuses, Labels,
          InitAcl,      \* the members the first repository starts with
          Requests,     \* the kinds of request a run sends
          MaxSeq        \* bound: repositories created in all

VARIABLES db,       \* the database and the files below GitRoot
          rq,       \* the request each process is serving
          decided   \* <<"repo" or "ns", name, member>> -> the tuple last acknowledged

vars == <<db, rq, decided>>

DB == INSTANCE Database
Idle == [at |-> "idle"]
NilTuple == {"nil"}
First == CHOOSE u \in Users \ Admins : u \notin DOMAIN InitAcl

Init ==
    /\ db = LET users == [EmptyDb EXCEPT !.user = SetToSeq({[name |-> u] : u \in Users})]
                n == DB!RegisterNamespace(users, Namespace, First).db
            IN [DB!CreateRepository(n, Namespace, CHOOSE r \in Names : TRUE, First).db EXCEPT !.repo[1].acl = InitAcl]
    /\ rq = [p \in Procs |-> Idle]
    /\ decided = [k \in {<<"repo", CHOOSE r \in Names : TRUE, u>> : u \in DOMAIN InitAcl} |-> InitAcl[k[3]]]

Goto(p, r) == rq' = [rq EXCEPT ![p] = r]
Serve(p, r) == rq[p] = Idle /\ r.kind \in Requests /\ Goto(p, r) /\ UNCHANGED <<db, decided>>

\* --- who may do what ---

GetUserPrivilege(acl, u) == IF u \in DOMAIN acl THEN acl[u] ELSE {}

\* A fault: pushing is a privilege like the others.
AnyPrivilege(privs) == privs # {}

\* Any privilege but pushing opens the setting pages.
HasSettingPrivilege(privs) == privs \ {"pushToRepo"} # {}

ResolveRepositoryFullName(r) == DB!GetRepositoryWithNamespace(db, Namespace, r)
Owns(row, u) == u \in {row.repo.owner, row.ns.owner} \/ u \in Admins
Holds(row, u) == GetUserPrivilege(row.repo.acl, u) \cup GetUserPrivilege(row.ns.acl, u)
May(row, u, priv) == row # Null /\ (Owns(row, u) \/ priv \in Holds(row, u))
MayInNamespace(ns, u, priv) ==
    ns # Null /\ (u \in Admins \/ u = ns.owner \/ priv \in GetUserPrivilege(ns.acl, u))

\* --- repositories ---

\* A fault: the new owner is not looked at.
InfoCheckAnyOwner(row, u, owner, described) ==
    /\ row # Null
    /\ Owns(row, u) \/ HasSettingPrivilege(Holds(row, u))
    /\ (owner # row.repo.owner \/ described) => May(row, u, "editInfo")

\* Only an owner changes the owner; a change of the description needs
\* editInfo.  The status is not looked at.
InfoCheck(row, u, owner, described) ==
    /\ row # Null
    /\ Owns(row, u) \/ HasSettingPrivilege(Holds(row, u))
    /\ owner # row.repo.owner => Owns(row, u)
    /\ (owner # row.repo.owner \/ described) => May(row, u, "editInfo")

\* POST /repo/{repoName}/setting: the whole row is written.
RepoInfo(p, u, r, owner, status, described) ==
    LET row == ResolveRepositoryFullName(r)
    IN /\ InfoCheck(row, u, owner, described)
       /\ Serve(p, [at |-> "read", kind |-> "info", actor |-> u, r |-> r,
                    o |-> [owner |-> owner, status |-> status]])

\* POST .../setting/webhook: the row as it was read, then the update hook.
RepoWebhook(p, u, r) ==
    LET row == ResolveRepositoryFullName(r)
    IN /\ May(row, u, "editWebHooks")
       /\ Serve(p, [at |-> "read", kind |-> "webhook", actor |-> u, r |-> r,
                    o |-> [owner |-> row.repo.owner, status |-> row.repo.status]])

\* POST /repo/{repoName}/delete.
RepoDelete(p, u, r) ==
    /\ May(ResolveRepositoryFullName(r), u, "deleteRepo")
    /\ Serve(p, [at |-> "delete", kind |-> "delete", actor |-> u, r |-> r])

\* The form sends editWebhooks, the handler reads editWebHooks; addRepo is
\* not a privilege of a repository.
RepoAddTuple(ticked) == ticked \ {"editWebHooks", "addRepo"}

\* The form sends editWebHooks, the handler reads editHooks.
RepoEditTuple(ticked) == ticked \ {"editWebHooks", "addRepo"}

RepoMemberAdd(p, u, r, m, ticked) ==
    /\ May(ResolveRepositoryFullName(r), u, "addMember")
    /\ Serve(p, [at |-> "read", kind |-> "add", actor |-> u, r |-> r, m |-> m,
                 ticked |-> ticked, tuple |-> RepoAddTuple(ticked)])

RepoMemberEdit(p, u, r, m, ticked) ==
    /\ May(ResolveRepositoryFullName(r), u, "editMember")
    /\ Serve(p, [at |-> "read", kind |-> "edit", actor |-> u, r |-> r, m |-> m,
                 ticked |-> ticked, tuple |-> RepoEditTuple(ticked)])

RepoMemberDelete(p, u, r, m) ==
    /\ May(ResolveRepositoryFullName(r), u, "deleteMember")
    /\ Serve(p, [at |-> "read", kind |-> "remove", actor |-> u, r |-> r, m |-> m,
                 ticked |-> {}, tuple |-> NilTuple])

LabelCheck(row, u) == row # Null /\ (Owns(row, u) \/ HasSettingPrivilege(Holds(row, u)))

\* POST .../setting/label and .../setting/label/{label}/delete.
LabelAdd(p, u, r, l) ==
    /\ LabelCheck(ResolveRepositoryFullName(r), u)
    /\ Serve(p, [at |-> "read", kind |-> "label", actor |-> u, r |-> r, l |-> l])

LabelDelete(p, u, r, l) ==
    /\ LabelCheck(ResolveRepositoryFullName(r), u)
    /\ Serve(p, [at |-> "read", kind |-> "unlabel", actor |-> u, r |-> r, l |-> l])

\* --- namespaces ---

\* A fault: the owner is free text.
NsInfoCheckNoUser(ns, u, owner) ==
    /\ MayInNamespace(ns, u, "editInfo")
    /\ owner # ns.owner => u \in Admins \cup {ns.owner}

\* A new owner must be a user, and only the owner or an administrator names one.
NsInfoCheck(ns, u, owner) ==
    /\ MayInNamespace(ns, u, "editInfo")
    /\ owner # ns.owner => u \in Admins \cup {ns.owner} /\ owner \in Users

\* POST /s/{namespace}/setting.
NsInfo(p, u, owner, status) ==
    /\ NsInfoCheck(DB!GetNamespaceByName(db, Namespace), u, owner)
    /\ Serve(p, [at |-> "ns", kind |-> "nsinfo", actor |-> u,
                 o |-> [name |-> Namespace, title |-> Namespace, owner |-> owner, status |-> status]])

\* POST /s/{namespace}/delete.
NsDelete(p, u) ==
    LET ns == DB!GetNamespaceByName(db, Namespace)
    IN /\ ns # Null /\ u \in Admins \cup {ns.owner}
       /\ Serve(p, [at |-> "nsdelete", kind |-> "nsdelete", actor |-> u])

\* The add form and its handler agree on editHooks; the edit form sends
\* editHooks and its handler reads editWebHooks.
NsAddTuple(ticked) == ticked \ {"editWebHooks"}
NsEditTuple(ticked) == ticked \ {"editHooks", "editWebHooks"}

NsMemberAdd(p, u, m, ticked) ==
    /\ MayInNamespace(DB!GetNamespaceByName(db, Namespace), u, "addMember")
    /\ Serve(p, [at |-> "nsread", kind |-> "nsadd", actor |-> u, m |-> m,
                 ticked |-> ticked, tuple |-> NsAddTuple(ticked)])

NsMemberEdit(p, u, m, ticked) ==
    /\ MayInNamespace(DB!GetNamespaceByName(db, Namespace), u, "editMember")
    /\ Serve(p, [at |-> "nsread", kind |-> "nsedit", actor |-> u, m |-> m,
                 ticked |-> ticked, tuple |-> NsEditTuple(ticked)])

NsMemberDelete(p, u, m) ==
    /\ MayInNamespace(DB!GetNamespaceByName(db, Namespace), u, "deleteMember")
    /\ Serve(p, [at |-> "nsread", kind |-> "nsremove", actor |-> u, m |-> m,
                 ticked |-> {}, tuple |-> NilTuple])

\* --- creating ---

\* POST /new/namespace; the second write keeps a title that was given.
NewNamespace(p, u, titled) ==
    /\ u \notin Barred
    /\ Serve(p, [at |-> "register", kind |-> "newns", actor |-> u, titled |-> titled])

\* POST /new/repo.
NewRepository(p, u, r) ==
    /\ db.seq < MaxSeq
    /\ MayInNamespace(DB!GetNamespaceByName(db, Namespace), u, "addRepo")
    /\ Serve(p, [at |-> "create", kind |-> "new", actor |-> u, r |-> r,
                 o |-> [owner |-> u, status |-> "public"]])

\* POST /repo/{repoName}/fork: a private repository needs membership.
Fork(p, u, r, as) ==
    LET row == ResolveRepositoryFullName(r)
    IN /\ db.seq < MaxSeq /\ row # Null
       /\ row.repo.status = "private" => u \in DOMAIN row.repo.acl \cup DOMAIN row.ns.acl
       /\ Serve(p, [at |-> "fork", kind |-> "fork", actor |-> u, r |-> as, from |-> r])

\* --- the calls into the database ---

Drop(scope, name) == [k \in {j \in DOMAIN decided : j[1] # scope \/ j[2] # name} |-> decided[k]]
Decide(scope, name, q) ==
    IF q.tuple = NilTuple THEN [k \in DOMAIN decided \ {<<scope, name, q.m>>} |-> decided[k]]
    ELSE (<<scope, name, q.m>> :> q.tuple) @@ decided

\* What SQLite reads before the transaction of the write.
ReadFirst(p) ==
    LET q == rq[p]
        read == CASE q.kind \in {"info", "webhook", "new"} -> DB!RepositoryRowid(db, Namespace, q.r)
                  [] q.kind \in {"add", "edit", "remove"} -> DB!RepositoryACLRead(db, Namespace, q.r)
                  [] q.kind \in {"label", "unlabel"} -> DB!LabelsRead(db, Namespace, q.r)
                  [] OTHER -> DB!NamespaceACLRead(db, Namespace)
    IN /\ q.at \in {"read", "nsread"}
       /\ Goto(p, [q EXCEPT !.at = IF @ = "read" THEN "write" ELSE "nswrite"] @@ [read |-> read])
       /\ UNCHANGED <<db, decided>>

WriteInfo(p) ==
    LET q == rq[p]
        a == DB!UpdateRepositoryInfo(db, Namespace, q.r, q.o, q.read)
    IN /\ q.at = "write" /\ q.kind \in {"info", "webhook", "new"}
       /\ db' = a.db
       /\ Goto(p, IF q.kind = "webhook" /\ a.err = "nil" THEN [q EXCEPT !.at = "hook"] ELSE Idle)
       /\ UNCHANGED decided

\* The hook is a file of the repository.
InstallManagedHook(p) ==
    LET q == rq[p]
    IN /\ q.at = "hook"
       /\ db' = [db EXCEPT !.dirs = IF <<Namespace, q.r>> \in @ THEN @ \cup {<<Namespace, q.r, "update">>} ELSE @]
       /\ Goto(p, Idle) /\ UNCHANGED decided

\* A fault: the nil tuple is stored as a member without privileges.
StoreMemberNil(q) ==
    DB!SetRepositoryACL(db, Namespace, q.r, q.m, IF q.tuple = NilTuple THEN {} ELSE q.tuple, q.read)

StoreMember(q) == DB!SetRepositoryACL(db, Namespace, q.r, q.m, q.tuple, q.read)

WriteMember(p) ==
    LET q == rq[p]
        a == StoreMember(q)
    IN /\ q.at = "write" /\ q.kind \in {"add", "edit", "remove"}
       /\ db' = a.db
       /\ decided' = IF a.err = "nil" THEN Decide("repo", q.r, q) ELSE decided
       /\ Goto(p, Idle)

WriteLabel(p) ==
    LET q == rq[p]
        a == IF q.kind = "label" THEN DB!AddRepositoryLabel(db, Namespace, q.r, q.l, q.read)
             ELSE DB!RemoveRepositoryLabel(db, Namespace, q.r, q.l, q.read)
    IN /\ q.at = "write" /\ q.kind \in {"label", "unlabel"}
       /\ db' = a.db /\ Goto(p, Idle) /\ UNCHANGED decided

\* A fault: the same for a namespace.
StoreNsMemberNil(q) ==
    DB!SetNamespaceACL(db, Namespace, q.m, IF q.tuple = NilTuple THEN {} ELSE q.tuple, q.read)

StoreNsMember(q) == DB!SetNamespaceACL(db, Namespace, q.m, q.tuple, q.read)

WriteNsMember(p) ==
    LET q == rq[p]
        a == StoreNsMember(q)
    IN /\ q.at = "nswrite"
       /\ db' = a.db
       /\ decided' = IF a.err = "nil" THEN Decide("ns", Namespace, q) ELSE decided
       /\ Goto(p, Idle)

WriteNsInfo(p) ==
    /\ rq[p].at = "ns"
    /\ db' = DB!UpdateNamespaceInfo(db, Namespace, rq[p].o).db
    /\ Goto(p, Idle) /\ UNCHANGED decided

DeleteRepository(p) ==
    LET a == DB!HardDeleteRepository(db, Namespace, rq[p].r)
    IN /\ rq[p].at = "delete"
       /\ db' = a.db
       /\ decided' = IF a.err = "nil" THEN Drop("repo", rq[p].r) ELSE decided
       /\ Goto(p, Idle)

DeleteNamespace(p) ==
    LET a == DB!HardDeleteNamespaceByName(db, Namespace)
    IN /\ rq[p].at = "nsdelete"
       /\ db' = a.db
       /\ decided' = IF a.err = "nil" THEN Drop("ns", Namespace) ELSE decided
       /\ Goto(p, Idle)

RegisterNamespace(p) ==
    LET q == rq[p]
        a == DB!RegisterNamespace(db, Namespace, q.actor)
    IN /\ q.at = "register"
       /\ db' = a.db
       /\ Goto(p, IF a.err = "nil" /\ q.titled
                  THEN [at |-> "ns", kind |-> "newns", actor |-> q.actor,
                        o |-> [name |-> Namespace, title |-> Namespace, owner |-> q.actor, status |-> "public"]]
                  ELSE Idle)
       /\ decided' = IF a.err = "nil" THEN Drop("ns", Namespace) ELSE decided

CreateRepository(p) ==
    LET q == rq[p]
        a == DB!CreateRepository(db, Namespace, q.r, q.actor)
    IN /\ q.at = "create"
       /\ db' = a.db
       /\ decided' = IF a.err = "nil" THEN Drop("repo", q.r) ELSE decided
       /\ Goto(p, IF a.err = "nil" THEN [q EXCEPT !.at = "read"] ELSE Idle)

CreateFork(p) ==
    LET q == rq[p]
        a == DB!SetUpCloneRepository(db, Namespace, q.from, Namespace, q.r, q.actor)
    IN /\ q.at = "fork"
       /\ db' = a.db
       /\ decided' = IF a.err = "nil" THEN Drop("repo", q.r) ELSE decided
       /\ Goto(p, Idle)

Next ==
    \E p \in Procs :
        \/ \E u \in Users, r \in Names :
               \/ \E o \in Users, s \in Statuses, b \in BOOLEAN : RepoInfo(p, u, r, o, s, b)
               \/ RepoWebhook(p, u, r) \/ RepoDelete(p, u, r) \/ NewRepository(p, u, r)
               \/ \E m \in Users, t \in Ticks : RepoMemberAdd(p, u, r, m, t)
               \/ \E m \in Users, t \in Ticks : RepoMemberEdit(p, u, r, m, t)
               \/ \E m \in Users : RepoMemberDelete(p, u, r, m)
               \/ \E l \in Labels : LabelAdd(p, u, r, l) \/ LabelDelete(p, u, r, l)
               \/ \E as \in Names \ {r} : Fork(p, u, r, as)
        \/ \E u \in Users :
               \/ \E o \in Users \cup {NoUser}, s \in Statuses : NsInfo(p, u, o, s)
               \/ NsDelete(p, u) \/ \E b \in BOOLEAN : NewNamespace(p, u, b)
               \/ \E m \in Users, t \in Ticks : NsMemberAdd(p, u, m, t)
               \/ \E m \in Users, t \in Ticks : NsMemberEdit(p, u, m, t)
               \/ \E m \in Users : NsMemberDelete(p, u, m)
        \/ ReadFirst(p) \/ WriteInfo(p) \/ InstallManagedHook(p) \/ WriteMember(p) \/ WriteLabel(p)
        \/ WriteNsMember(p) \/ WriteNsInfo(p) \/ DeleteRepository(p) \/ DeleteNamespace(p)
        \/ RegisterNamespace(p) \/ CreateRepository(p) \/ CreateFork(p)

Spec == Init /\ [][Next]_vars

\* --- properties ---

Steps(p) == rq'[p] # rq[p]

\* The members of a repository and of a namespace, and what each may do, are
\* what the last acknowledged change said, whichever requests ran meanwhile
\* (SetRepositoryACL, SetNamespaceACL behind the member pages).
DecisionsStand ==
    /\ \A i \in DOMAIN db.repo : LET row == db.repo[i] IN
           /\ DOMAIN row.acl = {m \in Users : <<"repo", row.name, m>> \in DOMAIN decided}
           /\ \A m \in DOMAIN row.acl : row.acl[m] = decided[<<"repo", row.name, m>>]
    /\ \A i \in DOMAIN db.ns : LET row == db.ns[i] IN
           /\ DOMAIN row.acl = {m \in Users : <<"ns", Namespace, m>> \in DOMAIN decided}
           /\ \A m \in DOMAIN row.acl : row.acl[m] = decided[<<"ns", Namespace, m>>]

\* The owner of a namespace is a user (namespace-setting.go: "a typo here used
\* to hand the namespace to a user that does not exist").
NamespaceOwnersExist == \A i \in DOMAIN db.ns : db.ns[i].owner \in Users

OwnerChange ==
    /\ \A r \in Names :
           LET old == ResolveRepositoryFullName(r)
               new == ResolveRepositoryFullName(r)'
           IN old # Null /\ new # Null /\ new.repo.owner # old.repo.owner
                  => \E p \in Procs : Steps(p) /\ Owns(old, rq[p].actor)
    /\ LET old == DB!GetNamespaceByName(db, Namespace)
           new == DB!GetNamespaceByName(db, Namespace)'
       IN old # Null /\ new # Null /\ new.owner # old.owner
              => \E p \in Procs : Steps(p) /\ rq[p].actor \in Admins \cup {old.owner}

\* Only its owner, the owner of its namespace or an administrator hands a
\* repository, or a namespace, to somebody else (docs/acl.org, line 19).
OwnerChangesByOwner == [][OwnerChange]_vars

Administers ==
    \A p \in Procs :
        Steps(p) /\ rq[p].at = "write" /\ rq[p].kind \in {"info", "label", "unlabel"}
            => LET row == ResolveRepositoryFullName(rq[p].r)
               IN Owns(row, rq[p].actor) \/ Holds(row, rq[p].actor) \ {"pushToRepo"} # {}

\* A member who may only push changes neither the settings nor the labels of
\* a repository (acl.go, HasSettingPrivilege: "having PushToRepository
\* permission does not mean a user is allowed to go into the setting panels").
PushersDoNotAdminister == [][Administers]_vars

\* The status of a repository is changed by those with archiveRepo, and by its
\* owners (docs/acl.org, line 13).
StatusTakesArchive ==
    [][\A p \in Procs, r \in Names :
           LET old == ResolveRepositoryFullName(r)
               new == ResolveRepositoryFullName(r)'
           IN old # Null /\ new # Null /\ new.repo.status # old.repo.status /\ Steps(p)
                  => May(old, rq[p].actor, "archiveRepo")]_vars

\* A member who adds another grants no more than they hold (docs/acl.org, line 31).
GrantsWithinOwn ==
    [][\A p \in Procs :
           Steps(p) /\ rq[p].at = "write" /\ rq[p].kind = "add"
               => LET row == ResolveRepositoryFullName(rq[p].r)
                  IN Owns(row, rq[p].actor) \/ rq[p].tuple \subseteq Holds(row, rq[p].actor)]_vars

\* A member who was given a privilege on the member pages has it
\* (docs/acl.org, line 15, lists editWebHooks).
TickedIsGranted ==
    [][\A p \in Procs, r \in Names :
           Steps(p) /\ rq[p].at = "write" /\ rq[p].kind \in {"add", "edit"} /\ rq[p].r = r
               => LET row == ResolveRepositoryFullName(r)'
                  IN row # Null => rq[p].ticked \ {"addRepo"} \subseteq GetUserPrivilege(row.repo.acl, rq[p].m)]_vars
====
