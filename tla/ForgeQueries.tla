---- MODULE ForgeQueries ----
(***************************************************************************)
(* The conditions of sqlaux.go and the listings built from them, the same  *)
(* in the three backends but for one thing: how a condition finds a user   *)
(* in an ACL column.  That is the parameter AclMatch.  The empty user name *)
(* is a guest.                                                             *)
(***************************************************************************)
EXTENDS Tables

CONSTANT AclMatch(_, _)

repoCondPublic(r) == r.status \in {"public", "archived"}
repoCondInternal(r) == r.status \in {"public", "archived", "internal"}
nsCondPublic(n) == n.status = "public"
nsCondInternal(n) == n.status \in {"public", "internal"}

nsViewerCond(n, viewer) == n.owner = viewer \/ AclMatch(n.acl, viewer)

\* Owner or ACL of the repository, or of the namespace it resides in.
repoViewerCond(d, r, viewer) ==
    \/ r.owner = viewer \/ AclMatch(r.acl, viewer)
    \/ Has(d.ns, LAMBDA n : n.name = r.ns /\ nsViewerCond(n, viewer))

repoKeywordCond(r, q) == q = "" \/ Matches(q, r.ns) \/ Matches(q, r.name)
nsKeywordCond(n, q) == q = "" \/ Matches(q, n.name) \/ Matches(q, n.title)
repoLabelCond(r, label) == Contains(r.labels, label)

repoVisibilityCond(d, r, viewer) ==
    IF viewer = "" THEN repoCondPublic(r) ELSE repoCondInternal(r) \/ repoViewerCond(d, r, viewer)

nsVisibilityCond(n, viewer) ==
    IF viewer = "" THEN nsCondPublic(n) ELSE nsCondInternal(n) \/ nsViewerCond(n, viewer)

\* A fault: what the profile's user may see is shown to every viewer.
belongingRepoUnchecked(d, r, viewingUser, user) == repoViewerCond(d, r, user)

\* A profile page: what `user' has, as far as viewingUser may see it.
belongingRepoCond(d, r, viewingUser, user) ==
    /\ repoViewerCond(d, r, user)
    /\ \/ viewingUser = user
       \/ viewingUser = "" /\ repoCondPublic(r)
       \/ viewingUser # "" /\ (repoCondInternal(r) \/ repoViewerCond(d, r, viewingUser))

belongingNamespaceCond(n, viewingUser, user) ==
    /\ nsViewerCond(n, user)
    /\ \/ viewingUser = user
       \/ viewingUser = "" /\ nsCondPublic(n)
       \/ viewingUser # "" /\ (nsCondInternal(n) \/ nsViewerCond(n, viewingUser))

listVisibleNamespaces(d, viewer, q, pageNum, pageSize) ==
    Page(SelectSeq(d.ns, LAMBDA n : nsVisibilityCond(n, viewer) /\ nsKeywordCond(n, q)), pageNum, pageSize)

listRepositories(d, viewer, q, pageNum, pageSize) ==
    Page(SelectSeq(d.repo, LAMBDA r : repoVisibilityCond(d, r, viewer) /\ repoKeywordCond(r, q)),
         pageNum, pageSize)

CountAllVisibleNamespaceSearchResult(d, viewer, q) ==
    Len(SelectSeq(d.ns, LAMBDA n : nsVisibilityCond(n, viewer) /\ nsKeywordCond(n, q)))

CountAllVisibleRepositoriesSearchResult(d, viewer, q) ==
    Len(SelectSeq(d.repo, LAMBDA r : repoVisibilityCond(d, r, viewer) /\ repoKeywordCond(r, q)))

GetAllBelongingNamespace(d, viewingUser, user) ==
    SelectSeq(d.ns, LAMBDA n : belongingNamespaceCond(n, viewingUser, user))

GetAllBelongingRepository(d, viewingUser, user, q, pageNum, pageSize) ==
    Page(ByName(SelectSeq(d.repo, LAMBDA r : /\ belongingRepoCond(d, r, viewingUser, user)
                                             /\ repoKeywordCond(r, q))),
         pageNum, pageSize)

CountAllBelongingRepository(d, viewingUser, user, q) ==
    Len(SelectSeq(d.repo, LAMBDA r : belongingRepoCond(d, r, viewingUser, user) /\ repoKeywordCond(r, q)))

GetRepositoryWithLabelPaginated(d, viewer, label, pageNum, pageSize) ==
    Page(SelectSeq(d.repo, LAMBDA r : repoLabelCond(r, label) /\ repoVisibilityCond(d, r, viewer)),
         pageNum, pageSize)

CountRepositoryWithLabel(d, viewer, label) ==
    Len(SelectSeq(d.repo, LAMBDA r : repoLabelCond(r, label) /\ repoVisibilityCond(d, r, viewer)))

GetAllComprisingNamespace(d, user) == SelectSeq(d.ns, LAMBDA n : nsViewerCond(n, user))

SearchForNamespace(d, k, pageNum, pageSize) ==
    Page(SelectSeq(d.ns, LAMBDA n : nsKeywordCond(n, k)), pageNum, pageSize)

SearchForRepository(d, k, pageNum, pageSize) ==
    Page(SelectSeq(d.repo, LAMBDA r : repoKeywordCond(r, k)), pageNum, pageSize)

CountAllRepositoriesSearchResult(d, q) == Len(SelectSeq(d.repo, LAMBDA r : repoKeywordCond(r, q)))
====
