---- MODULE Postgres ----
(***************************************************************************)
(* src/pkg/gitus/db/postgres/query.go: the same functions as Sqlite.       *)
(* PostgreSQL enforces the foreign keys of install.go, numbers rows from   *)
(* identity columns, sets an ACL entry inside the JSON column by one       *)
(* statement, and leaves GitRoot alone when accounts come and go and when  *)
(* something is deleted.                                                   *)
(***************************************************************************)
EXTENDS Tables
LOCAL S == INSTANCE Sqlite

----
(* Users, keys, addresses, registration requests. *)

GetUserByName(d, n) == S!GetUserByName(d, n)
GetUserLoginInfo(d, n) == S!GetUserLoginInfo(d, n)

RegisterUser(d, n, email, pw, status) ==
    IF GetUserByName(d, n) # Null THEN Fail(d, "unique")
    ELSE Ok([d EXCEPT !.user = Append(@, [name |-> n, email |-> email, pw |-> pw,
                                          status |-> status, tfa |-> "off", info |-> n])])

\* A fault: the status column is forgotten.
UpdateUserInfoButStatus(d, n, u) ==
    LET r == GetUserByName(d, n) IN IF r = Null THEN Ok(d) ELSE S!UpdateUserInfo(d, n, [u EXCEPT !.status = r.status])

UpdateUserInfo(d, n, u) == S!UpdateUserInfo(d, n, u)
UpdateUserPassword(d, n, pw) == S!UpdateUserPassword(d, n, pw)
UpdateUserStatus(d, n, status) == S!UpdateUserStatus(d, n, status)

\* The foreign keys that reference the user table.
Referenced(d, n) ==
    \/ \E t \in {d.authkey, d.signkey, d.email, d.snippet} : Has(t, LAMBDA r : r.user = n)
    \/ Has(d.ns, LAMBDA r : r.owner = n)
    \/ \E t \in {d.issue, d.pr} : Has(t, LAMBDA r : r.author = n)

\* The row only; a row that still refers to the account makes it fail.
HardDeleteUserByName(d, n) ==
    IF Referenced(d, n) THEN Fail(d, "foreignKey")
    ELSE Ok([d EXCEPT !.user = Without(@, LAMBDA r : r.name = n)])

GetAllUsers(d, pageNum, pageSize) == S!GetAllUsers(d, pageNum, pageSize)
CountAllUser(d) == S!CountAllUser(d)
SearchForUser(d, k, pageNum, pageSize) == S!SearchForUser(d, k, pageNum, pageSize)

GetAuthKeyByName(d, n, k) == S!GetAuthKeyByName(d, n, k)
GetAllAuthKeyByUsername(d, n) == S!GetAllAuthKeyByUsername(d, n)
GetAllAuthKey(d) == S!GetAllAuthKey(d)

\* One INSERT: a second key of the same name is accepted, an unknown user is not.
RegisterAuthKey(d, n, k, text) ==
    IF GetUserByName(d, n) = Null THEN Fail(d, "foreignKey") ELSE S!RegisterAuthKeyInsert(d, n, k, text)

UpdateAuthKey(d, n, k, text) == S!UpdateAuthKey(d, n, k, text)
RemoveAuthKey(d, n, k) == S!RemoveAuthKey(d, n, k)
GetAllSignKeyByUsername(d, n) == S!GetAllSignKeyByUsername(d, n)
GetSignKeyByName(d, n, k) == S!GetSignKeyByName(d, n, k)
UpdateSignKey(d, n, k, text) == S!UpdateSignKey(d, n, k, text)

RegisterSignKey(d, n, k, text) ==
    IF GetUserByName(d, n) = Null THEN Fail(d, "foreignKey") ELSE S!RegisterSignKeyInsert(d, n, k, text)

RemoveSignKey(d, n, k) == S!RemoveSignKey(d, n, k)

GetAllRegisteredEmailOfUser(d, n) == S!GetAllRegisteredEmailOfUser(d, n)

AddEmail(d, n, e) == IF GetUserByName(d, n) = Null THEN Fail(d, "foreignKey") ELSE S!AddEmail(d, n, e)

VerifyRegisteredEmail(d, n, e) == S!VerifyRegisteredEmail(d, n, e)
DeleteRegisteredEmail(d, n, e) == S!DeleteRegisteredEmail(d, n, e)
CheckIfEmailVerified(d, n, e) == S!CheckIfEmailVerified(d, n, e)
ResolveEmailToUsername(d, e) == S!ResolveEmailToUsername(d, e)
ResolveMultipleEmailToUsername(d, emailList) == S!ResolveMultipleEmailToUsername(d, emailList)

InsertRegistrationRequest(d, n, email, pw) ==
    Ok([d EXCEPT !.seq = @ + 1,
                 !.req = Append(@, [id |-> d.seq + 1, user |-> n, email |-> email, pw |-> pw])])

GetRegistrationRequestByAbsId(d, id) == S!GetRegistrationRequestByAbsId(d, id)

ApproveRegistrationStatus(d, id, emailConfirmationRequired) ==
    S!ApproveRegistrationStatus(d, id, emailConfirmationRequired)
DeleteRequestsOf(d, n) == S!DeleteRequestsOf(d, n)
DisapproveRegistrationRequest(d, id) == S!DisapproveRegistrationRequest(d, id)

GetRegistrationRequestPaginated(d, pageNum, pageSize) == S!GetRegistrationRequestPaginated(d, pageNum, pageSize)
GetRequestOfUsernamePaginated(d, n, pageNum, pageSize) ==
    S!GetRequestOfUsernamePaginated(d, n, pageNum, pageSize)
CountRegistrationRequest(d, q) == S!CountRegistrationRequest(d, q)

\* Newest first with a keyword too.
SearchRegistrationRequestPaginated(d, q, pageNum, pageSize) ==
    Page(Reverse(IF q = "" THEN d.req ELSE S!MatchingRequests(d, q)), pageNum, pageSize)

----
(* Namespaces and repositories. *)

\* repo_acl->'acl' ? viewer: an exact key.
aclMatchCond(acl, viewer) == viewer \in DOMAIN acl

Q == INSTANCE ForgeQueries WITH AclMatch <- aclMatchCond

GetNamespaceByName(d, n) == S!GetNamespaceByName(d, n)

RegisterNamespace(d, n, owner) ==
    IF GetNamespaceByName(d, n) # Null THEN Fail(d, "unique")
    ELSE IF ~Has(d.user, LAMBDA u : u.name = owner) THEN Fail(d, "foreignKey")
    ELSE S!RegisterNamespace(d, n, owner)

\* The foreign key of ns_owner, when an UPDATE finds the row.
NoSuchOwner(d, n, owner) ==
    GetNamespaceByName(d, n) # Null /\ ~Has(d.user, LAMBDA u : u.name = owner)

\* The name of the object handed in is written to ns_title.
UpdateNamespaceInfo(d, n, o) ==
    IF NoSuchOwner(d, n, o.owner) THEN Fail(d, "foreignKey")
    ELSE S!UpdateNamespaceInfo(d, n, [o EXCEPT !.title = o.name])

UpdateNamespaceOwner(d, n, owner) ==
    IF NoSuchOwner(d, n, owner) THEN Fail(d, "foreignKey")
    ELSE S!UpdateNamespaceOwner(d, n, owner)

UpdateNamespaceStatus(d, n, status) == S!UpdateNamespaceStatus(d, n, status)

\* A namespace that still has repositories is not deleted; the files stay.
HardDeleteNamespaceByName(d, n) ==
    IF Has(d.repo, LAMBDA r : r.ns = n) THEN Fail(d, "foreignKey")
    ELSE Ok([d EXCEPT !.ns = Without(@, LAMBDA r : r.name = n)])

GetRepositoryByName(d, ns, name) == S!GetRepositoryByName(d, ns, name)
GetRepositoryWithNamespace(d, ns, name) == S!GetRepositoryWithNamespace(d, ns, name)

\* The files of a repository created over those a deleted one left.
Files(d, ns, name) == RemoveAll(d.dirs, <<ns, name>>) \cup {<<ns>>, <<ns, name>>}

CreateRepository(d, ns, name, owner) ==
    IF GetRepositoryByName(d, ns, name) # Null THEN Fail(d, "unique")
    ELSE IF GetNamespaceByName(d, ns) = Null THEN Fail(d, "foreignKey")
    ELSE Ok([d EXCEPT !.repo = Append(@, S!NewRow(d.seq + 1, ns, name, owner, <<>>)),
                      !.seq = @ + 1, !.dirs = Files(d, ns, name)])

SetUpCloneRepository(d, ons, oname, ns, name, owner) ==
    IF GetRepositoryByName(d, ns, name) # Null THEN Fail(d, "unique")
    ELSE IF GetNamespaceByName(d, ns) = Null THEN Fail(d, "foreignKey")
    ELSE IF <<ons, oname>> \notin d.dirs THEN Fail([d EXCEPT !.dirs = Files(d, ns, name)], "git")
    ELSE Ok([d EXCEPT !.repo = Append(@, S!NewRow(d.seq + 1, ns, name, owner, <<ons, oname>>)),
                      !.seq = @ + 1, !.dirs = Files(d, ns, name)])

UpdateRepositoryInfo(d, ns, name, o) ==
    IF GetRepositoryByName(d, ns, name) = Null THEN Fail(d, "notFound")
    ELSE Ok([d EXCEPT !.repo = Update(@, LAMBDA r : S!RepoIs(r, ns, name), LAMBDA r :
                 [r EXCEPT !.owner = o.owner, !.status = o.status])])

UpdateRepositoryStatus(d, ns, name, status) ==
    Ok([d EXCEPT !.repo = Update(@, LAMBDA r : S!RepoIs(r, ns, name), LAMBDA r :
            [r EXCEPT !.status = status])])

\* A repository with issues is not deleted; the files stay.
HardDeleteRepository(d, ns, name) ==
    IF Has(d.issue, LAMBDA i : i.repo = <<ns, name>>) THEN Fail(d, "foreignKey")
    ELSE Ok([d EXCEPT !.repo = Without(@, LAMBDA r : S!RepoIs(r, ns, name))])

GetForkRepositoryOfUser(d, user, ons, oname) == S!GetForkRepositoryOfUser(d, user, ons, oname)

\* A fault: the new member replaces the others.
SetOnlyMember(d, n, user, privs) ==
    Ok([d EXCEPT !.ns = Update(@, LAMBDA r : r.name = n, LAMBDA r : [r EXCEPT !.acl = [m \in {user} |-> privs]])])

\* jsonb_set and #-: one UPDATE, which nothing tells of a missing row.
SetNamespaceACL(d, n, user, privs) ==
    Ok([d EXCEPT !.ns = Update(@, LAMBDA r : r.name = n, LAMBDA r :
            [r EXCEPT !.acl = S!WithMember(@, user, privs)])])

SetRepositoryACL(d, ns, name, user, privs) ==
    Ok([d EXCEPT !.repo = Update(@, LAMBDA r : S!RepoIs(r, ns, name), LAMBDA r :
            [r EXCEPT !.acl = S!WithMember(@, user, privs)])])

LabelsRead(d, ns, name) == S!LabelsRead(d, ns, name)
AddRepositoryLabel(d, ns, name, lbl, read) == S!AddRepositoryLabel(d, ns, name, lbl, read)
RemoveRepositoryLabel(d, ns, name, lbl, read) == S!RemoveRepositoryLabel(d, ns, name, lbl, read)
GetRepositoryLabel(d, ns, name) == S!GetRepositoryLabel(d, ns, name)

GetAllNamespace(d) == S!GetAllNamespace(d)
GetAllNamespaceByOwner(d, owner) == {n \in Rows(d.ns) : n.owner = owner}
GetAllNamespaces(d, pageNum, pageSize) == S!GetAllNamespaces(d, pageNum, pageSize)
CountAllNamespace(d) == S!CountAllNamespace(d)
GetAllRepositories(d, pageNum, pageSize) == S!GetAllRepositories(d, pageNum, pageSize)
CountAllRepositories(d) == S!CountAllRepositories(d)
GetAllRepositoryFromNamespace(d, ns) == SelectSeq(d.repo, LAMBDA r : r.ns = ns)

\* Archived and internal repositories are not among the listed ones.
GetAllVisibleRepositoryFromNamespace(d, viewer, ns) ==
    SelectSeq(d.repo, LAMBDA r :
        /\ r.ns = ns
        /\ r.status = "public" \/ (viewer # "" /\ (r.owner = viewer \/ aclMatchCond(r.acl, viewer))))

GetAllComprisingNamespace(d, user) == Q!GetAllComprisingNamespace(d, user)
GetAllVisibleNamespacePaginated(d, viewer, pageNum, pageSize) ==
    Q!listVisibleNamespaces(d, viewer, "", pageNum, pageSize)
SearchAllVisibleNamespacePaginated(d, viewer, q, pageNum, pageSize) ==
    Q!listVisibleNamespaces(d, viewer, q, pageNum, pageSize)
CountAllVisibleNamespace(d, viewer) == Q!CountAllVisibleNamespaceSearchResult(d, viewer, "")
CountAllVisibleNamespaceSearchResult(d, viewer, q) == Q!CountAllVisibleNamespaceSearchResult(d, viewer, q)
GetAllVisibleRepositoryPaginated(d, viewer, pageNum, pageSize) ==
    Q!listRepositories(d, viewer, "", pageNum, pageSize)
SearchAllVisibleRepositoryPaginated(d, viewer, q, pageNum, pageSize) ==
    Q!listRepositories(d, viewer, q, pageNum, pageSize)
CountAllVisibleRepositories(d, viewer) == Q!CountAllVisibleRepositoriesSearchResult(d, viewer, "")
CountAllVisibleRepositoriesSearchResult(d, viewer, q) == Q!CountAllVisibleRepositoriesSearchResult(d, viewer, q)
GetAllBelongingNamespace(d, viewer, user) == Q!GetAllBelongingNamespace(d, viewer, user)
GetAllBelongingRepository(d, viewer, user, q, pageNum, pageSize) ==
    Q!GetAllBelongingRepository(d, viewer, user, q, pageNum, pageSize)
CountAllBelongingRepository(d, viewer, user, q) == Q!CountAllBelongingRepository(d, viewer, user, q)
GetRepositoryWithLabelPaginated(d, viewer, label, pageNum, pageSize) ==
    Q!GetRepositoryWithLabelPaginated(d, viewer, label, pageNum, pageSize)
CountRepositoryWithLabel(d, viewer, label) == Q!CountRepositoryWithLabel(d, viewer, label)
SearchForNamespace(d, k, pageNum, pageSize) == Q!SearchForNamespace(d, k, pageNum, pageSize)
SearchForRepository(d, k, pageNum, pageSize) == Q!SearchForRepository(d, k, pageNum, pageSize)
CountAllRepositoriesSearchResult(d, q) == Q!CountAllRepositoriesSearchResult(d, q)

----
(* Issues and pull requests. *)

UserExists(d, n) == Has(d.user, LAMBDA u : u.name = n)

nextSequentialId(d, repo, kind) == S!nextSequentialId(d, repo, kind)

\* IssueId is filled from a variable nothing was scanned into.
GetRepositoryIssue(d, repo, num) ==
    LET r == S!GetRepositoryIssue(d, repo, num) IN IF r = Null THEN Null ELSE [r EXCEPT !.num = 0]

NewRepositoryIssue(d, repo, author) ==
    IF ~UserExists(d, author) \/ ~Has(d.repo, LAMBDA r : S!InRepo(r, repo)) THEN Fail(d, "foreignKey")
    ELSE Ok(S!InsertIssue([d EXCEPT !.seq = @ + 1], d.seq + 1, repo, author))

\* An issue with events stays.
HardDeleteRepositoryIssue(d, repo, num) ==
    LET i == S!GetRepositoryIssue(d, repo, num)
    IN IF i # Null /\ Has(d.event, LAMBDA e : e.issue = i.id) THEN Fail(d, "foreignKey")
       ELSE S!HardDeleteRepositoryIssue(d, repo, num)

SetIssuePriority(d, repo, num, prio) == S!SetIssuePriority(d, repo, num, prio)
GetAllRepositoryIssue(d, repo) == S!GetAllRepositoryIssue(d, repo)
CountAllRepositoryIssue(d, repo) == S!CountAllRepositoryIssue(d, repo)
CountIssue(d, repo, filter) == S!CountIssue(d, repo, filter)
SearchIssuePaginated(d, repo, filter, pageNum, pageSize) == S!SearchIssuePaginated(d, repo, filter, pageNum, pageSize)

GetRepositoryIssueLabel(d, repo) == S!GetRepositoryIssueLabel(d, repo)
updateRepositoryIssueLabelList(d, repo, list) == S!updateRepositoryIssueLabelList(d, repo, list)
IssueLabelsRead(d, repo, num) == S!IssueLabelsRead(d, repo, num)
updateIssueLabelList(d, repo, num, list) == S!updateIssueLabelList(d, repo, num, list)

GetAllIssueEvent(d, repo, num) == S!GetAllIssueEvent(d, repo, num)

NewRepositoryIssueEvent(d, read, type, author) ==
    LET e == S!NewRepositoryIssueEvent(d, read, type, author)
    IN IF e.err # "nil" THEN e
       ELSE IF ~Has(d.issue, LAMBDA i : i.id = read.id) THEN Fail(d, "foreignKey")
       ELSE Ok([e.db EXCEPT !.seq = @ + 1, !.event[Len(e.db.event)].id = d.seq + 1])

HardDeleteRepositoryIssueEvent(d, id) == S!HardDeleteRepositoryIssueEvent(d, id)

GetPullRequest(d, repo, num) == S!GetPullRequest(d, repo, num)
GetPullRequestByAbsId(d, id) == Lookup(d.pr, LAMBDA x : x.id = id)

NewPullRequest(d, repo, author, provider) ==
    IF ~UserExists(d, author) THEN Fail(d, "foreignKey")
    ELSE Ok(S!InsertPullRequest([d EXCEPT !.seq = @ + 1], d.seq + 1, repo, author, provider))

\* Events and reviews refer to the pull request and block it.
DeletePullRequest(d, id) ==
    IF Has(d.prevent, LAMBDA e : e.pr = id) \/ Has(d.review, LAMBDA v : v.pr = id) THEN Fail(d, "foreignKey")
    ELSE S!DeletePullRequest(d, id)

GetAllPullRequestPaginated(d, repo, pageNum, pageSize) == S!GetAllPullRequestPaginated(d, repo, pageNum, pageSize)
CountPullRequest(d, repo, filter) == S!CountPullRequest(d, repo, filter)
SearchPullRequestPaginated(d, repo, filter, pageNum, pageSize) ==
    S!SearchPullRequestPaginated(d, repo, filter, pageNum, pageSize)
CheckPullRequestMergeConflict(d, id, found) == S!CheckPullRequestMergeConflict(d, id, found)
GetAllPullRequestEventPaginated(d, id, pageNum, pageSize) == S!GetAllPullRequestEventPaginated(d, id, pageNum, pageSize)

\* The foreign key of the event table.
OnPullRequest(d, id, then) == IF Has(d.pr, LAMBDA r : r.id = id) THEN then ELSE Fail(d, "foreignKey")

\* time.Now().Unix() is handed to a TIMESTAMP column: pgx has no encoding for it.
CommentOnPullRequest(d, id, author) == Fail(d, "encode")
CommentOnPullRequestCode(d, id, author) == Fail(d, "encode")

ClosePullRequestAsNotMerged(d, id, author) == OnPullRequest(d, id, S!ClosePullRequestAsNotMerged(d, id, author))
ReopenPullRequest(d, id, author) == OnPullRequest(d, id, S!ReopenPullRequest(d, id, author))
GetPullRequestReviews(d, id) == S!GetPullRequestReviews(d, id)
AddPullRequestReviewer(d, id, reviewer) == OnPullRequest(d, id, S!AddPullRequestReviewer(d, id, reviewer))
RemovePullRequestReviewer(d, id, reviewer) == S!RemovePullRequestReviewer(d, id, reviewer)
SubmitPullRequestReview(d, id, reviewer, status, commit) == S!SubmitPullRequestReview(d, id, reviewer, status, commit)
CheckAndMergePullRequest(d, id, user, found, tip, mergeOk) ==
    S!CheckAndMergePullRequest(d, id, user, found, tip, mergeOk)

----
(* Snippets and the webhook log. *)

\* The row only refers to an existing user; names may repeat, and a second
\* snippet of a name empties the directory of the first.
NewSnippet(d, u, n, status) ==
    IF ~Has(d.user, LAMBDA r : r.name = u) THEN Fail(d, "foreignKey") ELSE S!InsertSnippet(d, u, n, status)

GetAllSnippet(d, u) == S!GetAllSnippet(d, u)

\* A guest who does not search is shown the internal snippets as well.
VisibleSnippets(d, u, viewer, k) ==
    SelectSeq(d.snippet, LAMBDA r :
        /\ r.user = u /\ Matches(k, r.name)
        /\ S!SnippetCond(r, viewer) \/ (viewer = "" /\ k = "" /\ r.status = "internal"))

CountAllVisibleSnippet(d, u, viewer, k) == Len(VisibleSnippets(d, u, viewer, k))

\* No LIMIT.
GetAllVisibleSnippetPaginated(d, u, viewer, k, pageNum, pageSize) == VisibleSnippets(d, u, viewer, k)

DeleteSnippet(d, u, n) == S!DeleteSnippet(d, u, n)
SaveSnippetInfo(d, m) == S!SaveSnippetInfo(d, m)
GetSnippet(d, u, n) == S!GetSnippet(d, u, n)

RegisterWebhookRequest(d, uuid, reportUuid, repo, commit) == S!RegisterWebhookRequest(d, uuid, reportUuid, repo, commit)

\* A result without a time stamp gets one.
UpdateWebhookResult(d, uuid, res) ==
    S!UpdateWebhookResult([d EXCEPT !.clock = @ + 1], uuid,
                          IF res.time = 0 THEN [res EXCEPT !.time = d.clock + 1] ELSE res)

GetWebhookResultByUUID(d, uuid) == S!GetWebhookResultByUUID(d, uuid)
====
