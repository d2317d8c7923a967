---- MODULE Mysql ----
(***************************************************************************)
(* src/pkg/gitus/db/mysql/query.go: the same functions as Postgres.  MySQL *)
(* enforces the FOREIGN KEY clauses of install.go and ignores the          *)
(* REFERENCES written inside a column definition.  A deletion cleans up    *)
(* the rows below it and the files, an ACL is edited under SELECT ... FOR  *)
(* UPDATE, and RowsAffected counts changed rows only.                      *)
(***************************************************************************)
EXTENDS Tables
LOCAL P == INSTANCE Postgres
LOCAL S == INSTANCE Sqlite

----
(* Users, keys, addresses, registration requests. *)

GetUserByName(d, n) == P!GetUserByName(d, n)
GetUserLoginInfo(d, n) == P!GetUserLoginInfo(d, n)
RegisterUser(d, n, email, pw, status) == P!RegisterUser(d, n, email, pw, status)
UpdateUserInfo(d, n, u) == P!UpdateUserInfo(d, n, u)
UpdateUserPassword(d, n, pw) == P!UpdateUserPassword(d, n, pw)
UpdateUserStatus(d, n, status) == P!UpdateUserStatus(d, n, status)

\* Keys and addresses go first, in the same transaction: a namespace or a pull
\* request of the account rolls them back with the row.
HardDeleteUserByName(d, n) ==
    IF Has(d.ns, LAMBDA r : r.owner = n) \/ Has(d.pr, LAMBDA r : r.author = n) THEN Fail(d, "foreignKey")
    ELSE Ok([d EXCEPT !.user = Without(@, LAMBDA r : r.name = n),
                      !.authkey = Without(@, LAMBDA r : r.user = n),
                      !.signkey = Without(@, LAMBDA r : r.user = n),
                      !.email = Without(@, LAMBDA r : r.user = n)])

GetAllUsers(d, pageNum, pageSize) == P!GetAllUsers(d, pageNum, pageSize)
CountAllUser(d) == P!CountAllUser(d)
SearchForUser(d, k, pageNum, pageSize) == P!SearchForUser(d, k, pageNum, pageSize)
GetAuthKeyByName(d, n, k) == P!GetAuthKeyByName(d, n, k)
GetAllAuthKeyByUsername(d, n) == P!GetAllAuthKeyByUsername(d, n)
GetAllAuthKey(d) == P!GetAllAuthKey(d)
RegisterAuthKey(d, n, k, text) == P!RegisterAuthKey(d, n, k, text)
UpdateAuthKey(d, n, k, text) == P!UpdateAuthKey(d, n, k, text)
RemoveAuthKey(d, n, k) == P!RemoveAuthKey(d, n, k)
GetAllSignKeyByUsername(d, n) == P!GetAllSignKeyByUsername(d, n)
GetSignKeyByName(d, n, k) == P!GetSignKeyByName(d, n, k)
UpdateSignKey(d, n, k, text) == P!UpdateSignKey(d, n, k, text)
RegisterSignKey(d, n, k, text) == P!RegisterSignKey(d, n, k, text)
RemoveSignKey(d, n, k) == P!RemoveSignKey(d, n, k)

GetAllRegisteredEmailOfUser(d, n) == P!GetAllRegisteredEmailOfUser(d, n)

\* The reference of user_email to the user table is one of the ignored ones.
AddEmail(d, n, e) == S!AddEmail(d, n, e)

VerifyRegisteredEmail(d, n, e) == P!VerifyRegisteredEmail(d, n, e)
DeleteRegisteredEmail(d, n, e) == P!DeleteRegisteredEmail(d, n, e)
CheckIfEmailVerified(d, n, e) == P!CheckIfEmailVerified(d, n, e)
ResolveEmailToUsername(d, e) == P!ResolveEmailToUsername(d, e)
ResolveMultipleEmailToUsername(d, emailList) == P!ResolveMultipleEmailToUsername(d, emailList)
InsertRegistrationRequest(d, n, email, pw) == P!InsertRegistrationRequest(d, n, email, pw)
GetRegistrationRequestByAbsId(d, id) == P!GetRegistrationRequestByAbsId(d, id)
ApproveRegistrationStatus(d, id, emailConfirmationRequired) ==
    P!ApproveRegistrationStatus(d, id, emailConfirmationRequired)
DeleteRequestsOf(d, n) == P!DeleteRequestsOf(d, n)
DisapproveRegistrationRequest(d, id) == P!DisapproveRegistrationRequest(d, id)
GetRegistrationRequestPaginated(d, pageNum, pageSize) == P!GetRegistrationRequestPaginated(d, pageNum, pageSize)
GetRequestOfUsernamePaginated(d, n, pageNum, pageSize) ==
    P!GetRequestOfUsernamePaginated(d, n, pageNum, pageSize)
CountRegistrationRequest(d, q) == P!CountRegistrationRequest(d, q)
SearchRegistrationRequestPaginated(d, q, pageNum, pageSize) ==
    P!SearchRegistrationRequestPaginated(d, q, pageNum, pageSize)

----
(* Namespaces and repositories. *)

\* JSON_CONTAINS_PATH(column, 'one', '$.acl."viewer"').
aclMatchCond(acl, viewer) == viewer \in DOMAIN acl

Q == INSTANCE ForgeQueries WITH AclMatch <- aclMatchCond

GetNamespaceByName(d, n) == P!GetNamespaceByName(d, n)
RegisterNamespace(d, n, owner) == P!RegisterNamespace(d, n, owner)
UpdateNamespaceInfo(d, n, o) == P!UpdateNamespaceInfo(d, n, o)
UpdateNamespaceOwner(d, n, owner) == P!UpdateNamespaceOwner(d, n, owner)
UpdateNamespaceStatus(d, n, status) == P!UpdateNamespaceStatus(d, n, status)
GetRepositoryByName(d, ns, name) == P!GetRepositoryByName(d, ns, name)
GetRepositoryWithNamespace(d, ns, name) == P!GetRepositoryWithNamespace(d, ns, name)

\* repo_namespace is not among the foreign keys MySQL enforces.
CreateRepository(d, ns, name, owner) ==
    IF GetRepositoryByName(d, ns, name) # Null THEN Fail(d, "unique")
    ELSE Ok([d EXCEPT !.repo = Append(@, S!NewRow(d.seq + 1, ns, name, owner, <<>>)),
                      !.seq = @ + 1, !.dirs = P!Files(d, ns, name)])

SetUpCloneRepository(d, ons, oname, ns, name, owner) ==
    IF GetRepositoryByName(d, ns, name) # Null THEN Fail(d, "unique")
    ELSE IF <<ons, oname>> \notin d.dirs THEN Fail([d EXCEPT !.dirs = P!Files(d, ns, name)], "git")
    ELSE Ok([d EXCEPT !.repo = Append(@, S!NewRow(d.seq + 1, ns, name, owner, <<ons, oname>>)),
                      !.seq = @ + 1, !.dirs = P!Files(d, ns, name)])

\* An update that changes nothing reports the repository as missing.
UpdateRepositoryInfo(d, ns, name, o) ==
    LET u == P!UpdateRepositoryInfo(d, ns, name, o)
    IN IF u.db = d THEN Fail(d, "notFound") ELSE u

UpdateRepositoryStatus(d, ns, name, status) == P!UpdateRepositoryStatus(d, ns, name, status)

\* Issues, pull requests, their events, the webhook log and the counters go in
\* the same transaction; a review still refers to its pull request and blocks it.
HardDeleteRepository(d, ns, name) ==
    LET here == <<ns, name>>
        Of(t) == {r.id : r \in {x \in Rows(t) : x.repo = here}}
        issues == Of(d.issue)
        prs == Of(d.pr)
    IN IF Has(d.review, LAMBDA v : v.pr \in prs) THEN Fail(d, "foreignKey")
       ELSE Ok([d EXCEPT !.repo = Without(@, LAMBDA r : S!RepoIs(r, ns, name)),
                         !.event = Without(@, LAMBDA e : e.issue \in issues),
                         !.issue = Without(@, LAMBDA i : i.repo = here),
                         !.prevent = Without(@, LAMBDA e : e.pr \in prs),
                         !.pr = Without(@, LAMBDA p : p.repo = here),
                         !.hook = Without(@, LAMBDA h : h.repo = here),
                         !.counter = Without(@, LAMBDA c : c.repo = here),
                         !.dirs = RemoveAll(@, here)])

\* Its repositories first, each in a transaction of its own: the ones before
\* the first that fails stay deleted.
HardDeleteNamespaceByName(d, n) ==
    LET repos == SelectSeq(d.repo, LAMBDA r : r.ns = n)
        Step(acc, r) == IF acc.err # "nil" THEN acc ELSE HardDeleteRepository(acc.db, n, r.name)
        swept == FoldLeft(Step, Ok(d), repos)
    IN IF swept.err # "nil" THEN swept
       ELSE Ok([swept.db EXCEPT !.ns = Without(@, LAMBDA r : r.name = n), !.dirs = RemoveAll(@, <<n>>)])

GetForkRepositoryOfUser(d, user, ons, oname) == P!GetForkRepositoryOfUser(d, user, ons, oname)

\* A fault: the nil tuple leaves the member in place.
SetNamespaceACLKeeping(d, n, user, privs) ==
    IF GetNamespaceByName(d, n) = Null THEN Fail(d, "noRows")
    ELSE IF privs = S!NilTuple THEN Ok(d) ELSE P!SetNamespaceACL(d, n, user, privs)

SetNamespaceACL(d, n, user, privs) ==
    IF GetNamespaceByName(d, n) = Null THEN Fail(d, "noRows") ELSE P!SetNamespaceACL(d, n, user, privs)

SetRepositoryACL(d, ns, name, user, privs) ==
    IF GetRepositoryByName(d, ns, name) = Null THEN Fail(d, "noRows")
    ELSE P!SetRepositoryACL(d, ns, name, user, privs)

LabelsRead(d, ns, name) == P!LabelsRead(d, ns, name)
AddRepositoryLabel(d, ns, name, lbl, read) == P!AddRepositoryLabel(d, ns, name, lbl, read)
RemoveRepositoryLabel(d, ns, name, lbl, read) == P!RemoveRepositoryLabel(d, ns, name, lbl, read)
GetRepositoryLabel(d, ns, name) == P!GetRepositoryLabel(d, ns, name)
GetAllNamespace(d) == P!GetAllNamespace(d)
GetAllNamespaceByOwner(d, owner) == P!GetAllNamespaceByOwner(d, owner)
GetAllNamespaces(d, pageNum, pageSize) == P!GetAllNamespaces(d, pageNum, pageSize)
CountAllNamespace(d) == P!CountAllNamespace(d)
GetAllRepositories(d, pageNum, pageSize) == P!GetAllRepositories(d, pageNum, pageSize)
CountAllRepositories(d) == P!CountAllRepositories(d)
GetAllRepositoryFromNamespace(d, ns) == P!GetAllRepositoryFromNamespace(d, ns)
GetAllVisibleRepositoryFromNamespace(d, viewer, ns) == P!GetAllVisibleRepositoryFromNamespace(d, viewer, ns)
GetAllComprisingNamespace(d, user) == Q!GetAllComprisingNamespace(d, user)
GetAllVisibleNamespacePaginated(d, viewer, pageNum, pageSize) ==
    Q!listVisibleNamespaces(d, viewer, "", pageNum, pageSize)
SearchAllVisibleNamespacePaginated(d, viewer, q, pageNum, pageSize) ==
    Q!listVisibleNamespaces(d, viewer, q, pageNum, pageSize)
CountAllVisibleNamespace(d, viewer) == Q!CountAllVisibleNamespaceSearchResult(d, viewer, "")
CountAllVisibleNamespaceSearchResult(d, viewer, q) == Q!CountAllVisibleNamespaceSearchResult(d, viewer, q)
GetAllVisibleRepositoryPaginated(d, viewer, pageNum, pageSize) ==
    Q!listRepositories(d, viewer, "", pageNum, pageSize)
SearchAllVisibleRepositoryPaginated(d, viewer, q, pageNum, pageSize) ==
    Q!listRepositories(d, viewer, q, pageNum, pageSize)
CountAllVisibleRepositories(d, viewer) == Q!CountAllVisibleRepositoriesSearchResult(d, viewer, "")
CountAllVisibleRepositoriesSearchResult(d, viewer, q) == Q!CountAllVisibleRepositoriesSearchResult(d, viewer, q)
GetAllBelongingNamespace(d, viewer, user) == Q!GetAllBelongingNamespace(d, viewer, user)
GetAllBelongingRepository(d, viewer, user, q, pageNum, pageSize) ==
    Q!GetAllBelongingRepository(d, viewer, user, q, pageNum, pageSize)
CountAllBelongingRepository(d, viewer, user, q) == Q!CountAllBelongingRepository(d, viewer, user, q)
GetRepositoryWithLabelPaginated(d, viewer, label, pageNum, pageSize) ==
    Q!GetRepositoryWithLabelPaginated(d, viewer, label, pageNum, pageSize)
CountRepositoryWithLabel(d, viewer, label) == Q!CountRepositoryWithLabel(d, viewer, label)
SearchForNamespace(d, k, pageNum, pageSize) == Q!SearchForNamespace(d, k, pageNum, pageSize)
SearchForRepository(d, k, pageNum, pageSize) == Q!SearchForRepository(d, k, pageNum, pageSize)
CountAllRepositoriesSearchResult(d, q) == Q!CountAllRepositoriesSearchResult(d, q)

----
(* Issues and pull requests. *)

nextSequentialId(d, repo, kind) == P!nextSequentialId(d, repo, kind)
GetRepositoryIssue(d, repo, num) == P!GetRepositoryIssue(d, repo, num)

NewRepositoryIssue(d, repo, author) ==
    IF ~Has(d.repo, LAMBDA r : S!InRepo(r, repo)) THEN Fail(d, "foreignKey")
    ELSE Ok(S!InsertIssue([d EXCEPT !.seq = @ + 1], d.seq + 1, repo, author))

HardDeleteRepositoryIssue(d, repo, num) == S!HardDeleteRepositoryIssue(d, repo, num)
SetIssuePriority(d, repo, num, prio) == P!SetIssuePriority(d, repo, num, prio)
GetAllRepositoryIssue(d, repo) == P!GetAllRepositoryIssue(d, repo)
CountAllRepositoryIssue(d, repo) == P!CountAllRepositoryIssue(d, repo)
CountIssue(d, repo, filter) == P!CountIssue(d, repo, filter)
SearchIssuePaginated(d, repo, filter, pageNum, pageSize) == P!SearchIssuePaginated(d, repo, filter, pageNum, pageSize)
GetRepositoryIssueLabel(d, repo) == P!GetRepositoryIssueLabel(d, repo)
updateRepositoryIssueLabelList(d, repo, list) == P!updateRepositoryIssueLabelList(d, repo, list)
IssueLabelsRead(d, repo, num) == P!IssueLabelsRead(d, repo, num)
\* A fault: the transaction is never committed.
updateIssueLabelNone(d, repo, num, list) == IF list = S!NoRows THEN Fail(d, "noRows") ELSE Ok(d)

updateIssueLabelList(d, repo, num, list) == P!updateIssueLabelList(d, repo, num, list)
GetAllIssueEvent(d, repo, num) == P!GetAllIssueEvent(d, repo, num)

NewRepositoryIssueEvent(d, read, type, author) ==
    LET e == S!NewRepositoryIssueEvent(d, read, type, author)
    IN IF e.err # "nil" THEN e
       ELSE Ok([e.db EXCEPT !.seq = @ + 1, !.event[Len(e.db.event)].id = d.seq + 1])

HardDeleteRepositoryIssueEvent(d, id) == P!HardDeleteRepositoryIssueEvent(d, id)
GetPullRequest(d, repo, num) == P!GetPullRequest(d, repo, num)
GetPullRequestByAbsId(d, id) == P!GetPullRequestByAbsId(d, id)
NewPullRequest(d, repo, author, provider) == P!NewPullRequest(d, repo, author, provider)
DeletePullRequest(d, id) == P!DeletePullRequest(d, id)
GetAllPullRequestPaginated(d, repo, pageNum, pageSize) == P!GetAllPullRequestPaginated(d, repo, pageNum, pageSize)
CountPullRequest(d, repo, filter) == P!CountPullRequest(d, repo, filter)
SearchPullRequestPaginated(d, repo, filter, pageNum, pageSize) ==
    P!SearchPullRequestPaginated(d, repo, filter, pageNum, pageSize)
CheckPullRequestMergeConflict(d, id, found) == P!CheckPullRequestMergeConflict(d, id, found)
GetAllPullRequestEventPaginated(d, id, pageNum, pageSize) == P!GetAllPullRequestEventPaginated(d, id, pageNum, pageSize)
CommentOnPullRequest(d, id, author) == P!OnPullRequest(d, id, S!CommentOnPullRequest(d, id, author))
CommentOnPullRequestCode(d, id, author) == P!OnPullRequest(d, id, S!CommentOnPullRequestCode(d, id, author))
ClosePullRequestAsNotMerged(d, id, author) == P!ClosePullRequestAsNotMerged(d, id, author)
ReopenPullRequest(d, id, author) == P!ReopenPullRequest(d, id, author)
GetPullRequestReviews(d, id) == P!GetPullRequestReviews(d, id)

\* A fault: REPLACE where the code has INSERT IGNORE; an assigned reviewer's verdict is lost.
AddReviewerReplacing(d, id, reviewer) ==
    S!AddPullRequestReviewer([d EXCEPT !.review = Without(@, LAMBDA v : v.pr = id /\ v.reviewer = reviewer)], id, reviewer)

\* INSERT IGNORE turns the foreign key error into a warning as well.
AddPullRequestReviewer(d, id, reviewer) ==
    IF Has(d.pr, LAMBDA r : r.id = id) THEN S!AddPullRequestReviewer(d, id, reviewer) ELSE Ok(d)

RemovePullRequestReviewer(d, id, reviewer) == P!RemovePullRequestReviewer(d, id, reviewer)

\* COUNT(*), since RowsAffected would miss a review submitted unchanged; then UPDATE.
SubmitPullRequestReview(d, id, reviewer, status, commit) == P!SubmitPullRequestReview(d, id, reviewer, status, commit)
CheckAndMergePullRequest(d, id, user, found, tip, mergeOk) ==
    P!CheckAndMergePullRequest(d, id, user, found, tip, mergeOk)

----
(* Snippets and the webhook log. *)

NewSnippet(d, u, n, status) == S!InsertSnippet(d, u, n, status)

GetAllSnippet(d, u) == S!GetAllSnippet(d, u)

VisibleSnippets(d, u, viewer, k) == P!VisibleSnippets(d, u, viewer, k)

CountAllVisibleSnippet(d, u, viewer, k) == Len(VisibleSnippets(d, u, viewer, k))

\* No LIMIT.
GetAllVisibleSnippetPaginated(d, u, viewer, k, pageNum, pageSize) == VisibleSnippets(d, u, viewer, k)

DeleteSnippet(d, u, n) == S!DeleteSnippet(d, u, n)
SaveSnippetInfo(d, m) == S!SaveSnippetInfo(d, m)
GetSnippet(d, u, n) == S!GetSnippet(d, u, n)

RegisterWebhookRequest(d, uuid, reportUuid, repo, commit) == S!RegisterWebhookRequest(d, uuid, reportUuid, repo, commit)

UpdateWebhookResult(d, uuid, res) == P!UpdateWebhookResult(d, uuid, res)

GetWebhookResultByUUID(d, uuid) == S!GetWebhookResultByUUID(d, uuid)
====
