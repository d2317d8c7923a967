---- MODULE ForgeAgreement ----
(***************************************************************************)
(* The three backends side by side, given the same sequence of namespace   *)
(* and repository calls; see AccountsAgreement.  Viewers are users whose   *)
(* names do not contain one another: SQLite finds a member by LIKE.        *)
(***************************************************************************)
EXTENDS Tables

CONSTANTS Users, Namespaces, Repos, Statuses, Labels,
          MaxRows   \* bound on the rows and on the identities handed out

VARIABLE db         \* the database of each backend

Backends == {"sqlite", "postgres", "mysql"}
DB(Backend) == INSTANCE Database

Viewers == Users \cup {""}
Privs == {{"push"}, {"nil"}}

Calls ==
    [f : {"RegisterNamespace", "UpdateNamespaceOwner"}, ns : Namespaces, u : Users]
    \cup [f : {"HardDeleteNamespaceByName"}, ns : Namespaces]
    \cup [f : {"UpdateNamespaceInfo"}, ns : Namespaces, u : Users, st : Statuses]
    \cup [f : {"UpdateNamespaceStatus"}, ns : Namespaces, st : Statuses]
    \cup [f : {"SetNamespaceACL"}, ns : Namespaces, u : Users, p : Privs]
    \cup [f : {"CreateRepository", "SetUpCloneRepository"}, ns : Namespaces, r : Repos, u : Users]
    \cup [f : {"UpdateRepositoryInfo"}, ns : Namespaces, r : Repos, u : Users, st : Statuses]
    \cup [f : {"UpdateRepositoryStatus"}, ns : Namespaces, r : Repos, st : Statuses]
    \cup [f : {"HardDeleteRepository"}, ns : Namespaces, r : Repos]
    \cup [f : {"SetRepositoryACL"}, ns : Namespaces, r : Repos, u : Users, p : Privs]
    \cup [f : {"AddRepositoryLabel", "RemoveRepositoryLabel"}, ns : Namespaces, r : Repos, l : Labels]

Answer(b, d, c) ==
    CASE c.f = "RegisterNamespace" -> DB(b)!RegisterNamespace(d, c.ns, c.u)
      [] c.f = "UpdateNamespaceOwner" -> DB(b)!UpdateNamespaceOwner(d, c.ns, c.u)
      [] c.f = "HardDeleteNamespaceByName" -> DB(b)!HardDeleteNamespaceByName(d, c.ns)
      [] c.f = "UpdateNamespaceInfo" ->
            DB(b)!UpdateNamespaceInfo(d, c.ns, [name |-> c.ns, title |-> "title", owner |-> c.u, status |-> c.st])
      [] c.f = "UpdateNamespaceStatus" -> DB(b)!UpdateNamespaceStatus(d, c.ns, c.st)
      [] c.f = "SetNamespaceACL" -> DB(b)!SetNamespaceACL(d, c.ns, c.u, c.p, DB(b)!NamespaceACLRead(d, c.ns))
      [] c.f = "CreateRepository" -> DB(b)!CreateRepository(d, c.ns, c.r, c.u)
      [] c.f = "SetUpCloneRepository" -> DB(b)!SetUpCloneRepository(d, c.ns, c.r, c.ns, "fork", c.u)
      [] c.f = "UpdateRepositoryInfo" ->
            DB(b)!UpdateRepositoryInfo(d, c.ns, c.r, [owner |-> c.u, status |-> c.st], DB(b)!RepositoryRowid(d, c.ns, c.r))
      [] c.f = "UpdateRepositoryStatus" ->
            DB(b)!UpdateRepositoryStatus(d, c.ns, c.r, c.st, DB(b)!RepositoryRowid(d, c.ns, c.r))
      [] c.f = "HardDeleteRepository" -> DB(b)!HardDeleteRepository(d, c.ns, c.r)
      [] c.f = "SetRepositoryACL" ->
            DB(b)!SetRepositoryACL(d, c.ns, c.r, c.u, c.p, DB(b)!RepositoryACLRead(d, c.ns, c.r))
      [] c.f = "AddRepositoryLabel" -> DB(b)!AddRepositoryLabel(d, c.ns, c.r, c.l, DB(b)!LabelsRead(d, c.ns, c.r))
      [] c.f = "RemoveRepositoryLabel" -> DB(b)!RemoveRepositoryLabel(d, c.ns, c.r, c.l, DB(b)!LabelsRead(d, c.ns, c.r))

Account(n) == [name |-> n, email |-> n, pw |-> n, status |-> "normal", tfa |-> "off", info |-> n]
Init == db = [b \in Backends |-> [EmptyDb EXCEPT !.user = SetToSeq({Account(n) : n \in Users})]]

Small(d) == Len(d.ns) + Len(d.repo) <= MaxRows /\ d.seq <= MaxRows

Next ==
    \E c \in Calls :
        LET a == [b \in Backends |-> Answer(b, db[b], c)]
        IN /\ Cardinality({a[b].err = "nil" : b \in Backends}) = 1
           /\ \A b \in Backends : Small(a[b].db)
           /\ db' = [b \in Backends |-> a[b].db]

Spec == Init /\ [][Next]_db

\* What the read functions show, without row ids and without the title, which
\* PostgreSQL and MySQL overwrite with the name.
Found(x) == IF x = Null THEN <<>> ELSE <<x>>
Ns(t) == [i \in DOMAIN t |-> [name |-> t[i].name, owner |-> t[i].owner, status |-> t[i].status, acl |-> t[i].acl]]
Repo(t) == [i \in DOMAIN t |-> [t[i] EXCEPT !.id = 0]]
View(b, d) ==
    LET N == MaxRows
    IN [all |-> <<Ns(DB(b)!GetAllNamespaces(d, 0, N)), DB(b)!CountAllNamespace(d), Repo(DB(b)!GetAllRepositories(d, 0, N)),
                  DB(b)!CountAllRepositories(d), Ns(SetToSeq(DB(b)!GetAllNamespace(d)))>>,
        forks |-> [u \in Users |-> [n \in Namespaces |-> Repo(DB(b)!GetForkRepositoryOfUser(d, u, n, "repo"))]],
        ns |-> [n \in Namespaces |-> Ns(Found(DB(b)!GetNamespaceByName(d, n)))],
        named |-> [n \in Namespaces |-> [r \in Repos |-> <<Repo(Found(DB(b)!GetRepositoryByName(d, n, r))),
                      DB(b)!GetRepositoryWithNamespace(d, n, r) = Null, DB(b)!GetRepositoryLabel(d, n, r)>>]],
        found |-> [q \in Namespaces |-> <<Ns(DB(b)!SearchForNamespace(d, q, 0, N)), Repo(DB(b)!SearchForRepository(d, q, 0, N)),
                                          DB(b)!CountAllRepositoriesSearchResult(d, q)>>],
        visible |-> [v \in Viewers |->
            <<Ns(DB(b)!GetAllVisibleNamespacePaginated(d, v, 0, N)), DB(b)!CountAllVisibleNamespace(d, v),
              Repo(DB(b)!GetAllVisibleRepositoryPaginated(d, v, 0, N)), DB(b)!CountAllVisibleRepositories(d, v),
              [q \in Namespaces |-> <<Ns(DB(b)!SearchAllVisibleNamespacePaginated(d, v, q, 0, N)),
                                      DB(b)!CountAllVisibleNamespaceSearchResult(d, v, q),
                                      Repo(DB(b)!SearchAllVisibleRepositoryPaginated(d, v, q, 0, N)),
                                      DB(b)!CountAllVisibleRepositoriesSearchResult(d, v, q)>>],
              [l \in Labels |-> <<Repo(DB(b)!GetRepositoryWithLabelPaginated(d, v, l, 0, N)), DB(b)!CountRepositoryWithLabel(d, v, l)>>],
              [u \in Users |-> <<Ns(DB(b)!GetAllBelongingNamespace(d, v, u)), Repo(DB(b)!GetAllBelongingRepository(d, v, u, "", 0, N)),
                                 DB(b)!CountAllBelongingRepository(d, v, u, ""), Ns(DB(b)!GetAllComprisingNamespace(d, u))>>]>>]]

\* Which namespaces and repositories exist, whom they belong to, and what the
\* browse, search, label and profile queries list for each viewer is the same
\* whichever backend is configured, as long as every write was answered alike.
BackendsAgree == \A b \in Backends : View(b, db[b]) = View("sqlite", db["sqlite"])

\* docs/visibility.org: the pages share one definition.  A repository shown by
\* the label page or on a profile page to a viewer is also shown by the browse
\* page to that viewer, and being logged in never hides a repository.
OneVisibility ==
    \A b \in Backends : \A v \in Viewers :
        LET d == db[b]
            browse == Rows(DB(b)!GetAllVisibleRepositoryPaginated(d, v, 0, MaxRows))
        IN /\ \A l \in Labels : Rows(DB(b)!GetRepositoryWithLabelPaginated(d, v, l, 0, MaxRows)) \subseteq browse
           /\ \A u \in Users : Rows(DB(b)!GetAllBelongingRepository(d, v, u, "", 0, MaxRows)) \subseteq browse
           /\ Rows(DB(b)!GetAllVisibleRepositoryPaginated(d, "", 0, MaxRows)) \subseteq browse
====
