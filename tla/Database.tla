---- MODULE Database ----
(***************************************************************************)
(* GitusDatabaseInterface (src/pkg/gitus/db/dbif.go), answered by the      *)
(* configured backend.                                                     *)
(***************************************************************************)
EXTENDS Tables

CONSTANT Backend  \* "sqlite", "postgres" or "mysql"

LOCAL S == INSTANCE Sqlite
LOCAL P == INSTANCE Postgres
LOCAL M == INSTANCE Mysql
LOCAL Of(s, p, m) == CASE Backend = "sqlite" -> s [] Backend = "postgres" -> p [] Backend = "mysql" -> m

----
(* Users, keys, addresses, registration requests. *)

GetUserByName(d, n) == Of(S!GetUserByName(d, n), P!GetUserByName(d, n), M!GetUserByName(d, n))
GetUserLoginInfo(d, n) == Of(S!GetUserLoginInfo(d, n), P!GetUserLoginInfo(d, n), M!GetUserLoginInfo(d, n))
RegisterUser(d, n, email, pw, status) ==
    Of(S!RegisterUser(d, n, email, pw, status), P!RegisterUser(d, n, email, pw, status),
       M!RegisterUser(d, n, email, pw, status))
UpdateUserInfo(d, n, u) == Of(S!UpdateUserInfo(d, n, u), P!UpdateUserInfo(d, n, u), M!UpdateUserInfo(d, n, u))
UpdateUserPassword(d, n, pw) ==
    Of(S!UpdateUserPassword(d, n, pw), P!UpdateUserPassword(d, n, pw),
       M!UpdateUserPassword(d, n, pw))
UpdateUserStatus(d, n, status) ==
    Of(S!UpdateUserStatus(d, n, status), P!UpdateUserStatus(d, n, status),
       M!UpdateUserStatus(d, n, status))
HardDeleteUserByName(d, n) ==
    Of(S!HardDeleteUserByName(d, n), P!HardDeleteUserByName(d, n),
       M!HardDeleteUserByName(d, n))
GetAllUsers(d, pageNum, pageSize) ==
    Of(S!GetAllUsers(d, pageNum, pageSize), P!GetAllUsers(d, pageNum, pageSize),
       M!GetAllUsers(d, pageNum, pageSize))
CountAllUser(d) == Of(S!CountAllUser(d), P!CountAllUser(d), M!CountAllUser(d))
SearchForUser(d, k, pageNum, pageSize) ==
    Of(S!SearchForUser(d, k, pageNum, pageSize), P!SearchForUser(d, k, pageNum, pageSize),
       M!SearchForUser(d, k, pageNum, pageSize))
GetAuthKeyByName(d, n, k) == Of(S!GetAuthKeyByName(d, n, k), P!GetAuthKeyByName(d, n, k), M!GetAuthKeyByName(d, n, k))
GetAllAuthKeyByUsername(d, n) ==
    Of(S!GetAllAuthKeyByUsername(d, n), P!GetAllAuthKeyByUsername(d, n),
       M!GetAllAuthKeyByUsername(d, n))
GetAllAuthKey(d) == Of(S!GetAllAuthKey(d), P!GetAllAuthKey(d), M!GetAllAuthKey(d))
UpdateAuthKey(d, n, k, text) ==
    Of(S!UpdateAuthKey(d, n, k, text), P!UpdateAuthKey(d, n, k, text),
       M!UpdateAuthKey(d, n, k, text))
RemoveAuthKey(d, n, k) == Of(S!RemoveAuthKey(d, n, k), P!RemoveAuthKey(d, n, k), M!RemoveAuthKey(d, n, k))
GetAllSignKeyByUsername(d, n) ==
    Of(S!GetAllSignKeyByUsername(d, n), P!GetAllSignKeyByUsername(d, n),
       M!GetAllSignKeyByUsername(d, n))
GetSignKeyByName(d, n, k) == Of(S!GetSignKeyByName(d, n, k), P!GetSignKeyByName(d, n, k), M!GetSignKeyByName(d, n, k))
UpdateSignKey(d, n, k, text) ==
    Of(S!UpdateSignKey(d, n, k, text), P!UpdateSignKey(d, n, k, text),
       M!UpdateSignKey(d, n, k, text))
RemoveSignKey(d, n, k) == Of(S!RemoveSignKey(d, n, k), P!RemoveSignKey(d, n, k), M!RemoveSignKey(d, n, k))
GetAllRegisteredEmailOfUser(d, n) ==
    Of(S!GetAllRegisteredEmailOfUser(d, n), P!GetAllRegisteredEmailOfUser(d, n),
       M!GetAllRegisteredEmailOfUser(d, n))
AddEmail(d, n, e) == Of(S!AddEmail(d, n, e), P!AddEmail(d, n, e), M!AddEmail(d, n, e))
VerifyRegisteredEmail(d, n, e) ==
    Of(S!VerifyRegisteredEmail(d, n, e), P!VerifyRegisteredEmail(d, n, e),
       M!VerifyRegisteredEmail(d, n, e))
DeleteRegisteredEmail(d, n, e) ==
    Of(S!DeleteRegisteredEmail(d, n, e), P!DeleteRegisteredEmail(d, n, e),
       M!DeleteRegisteredEmail(d, n, e))
CheckIfEmailVerified(d, n, e) ==
    Of(S!CheckIfEmailVerified(d, n, e), P!CheckIfEmailVerified(d, n, e),
       M!CheckIfEmailVerified(d, n, e))
ResolveEmailToUsername(d, e) ==
    Of(S!ResolveEmailToUsername(d, e), P!ResolveEmailToUsername(d, e),
       M!ResolveEmailToUsername(d, e))
ResolveMultipleEmailToUsername(d, emailList) ==
    Of(S!ResolveMultipleEmailToUsername(d, emailList), P!ResolveMultipleEmailToUsername(d, emailList),
       M!ResolveMultipleEmailToUsername(d, emailList))
InsertRegistrationRequest(d, n, email, pw) ==
    Of(S!InsertRegistrationRequest(d, n, email, pw), P!InsertRegistrationRequest(d, n, email, pw),
       M!InsertRegistrationRequest(d, n, email, pw))
GetRegistrationRequestByAbsId(d, id) ==
    Of(S!GetRegistrationRequestByAbsId(d, id), P!GetRegistrationRequestByAbsId(d, id),
       M!GetRegistrationRequestByAbsId(d, id))
ApproveRegistrationStatus(d, id, emailConfirmationRequired) ==
    Of(S!ApproveRegistrationStatus(d, id, emailConfirmationRequired), P!ApproveRegistrationStatus(d, id, emailConfirmationRequired),
       M!ApproveRegistrationStatus(d, id, emailConfirmationRequired))
DeleteRequestsOf(d, n) == Of(S!DeleteRequestsOf(d, n), P!DeleteRequestsOf(d, n), M!DeleteRequestsOf(d, n))
DisapproveRegistrationRequest(d, id) ==
    Of(S!DisapproveRegistrationRequest(d, id), P!DisapproveRegistrationRequest(d, id),
       M!DisapproveRegistrationRequest(d, id))
GetRegistrationRequestPaginated(d, pageNum, pageSize) ==
    Of(S!GetRegistrationRequestPaginated(d, pageNum, pageSize), P!GetRegistrationRequestPaginated(d, pageNum, pageSize),
       M!GetRegistrationRequestPaginated(d, pageNum, pageSize))
GetRequestOfUsernamePaginated(d, n, pageNum, pageSize) ==
    Of(S!GetRequestOfUsernamePaginated(d, n, pageNum, pageSize), P!GetRequestOfUsernamePaginated(d, n, pageNum, pageSize),
       M!GetRequestOfUsernamePaginated(d, n, pageNum, pageSize))
CountRegistrationRequest(d, q) ==
    Of(S!CountRegistrationRequest(d, q), P!CountRegistrationRequest(d, q),
       M!CountRegistrationRequest(d, q))
SearchRegistrationRequestPaginated(d, q, pageNum, pageSize) ==
    Of(S!SearchRegistrationRequestPaginated(d, q, pageNum, pageSize), P!SearchRegistrationRequestPaginated(d, q, pageNum, pageSize),
       M!SearchRegistrationRequestPaginated(d, q, pageNum, pageSize))

\* SQLite looks for a key of that name first, outside the transaction.
RegisterAuthKeyCheck(d, n, k) == Of(S!RegisterAuthKeyCheck(d, n, k), FALSE, FALSE)
RegisterAuthKeyInsert(d, n, k, text) ==
    Of(S!RegisterAuthKeyInsert(d, n, k, text), P!RegisterAuthKey(d, n, k, text), M!RegisterAuthKey(d, n, k, text))
RegisterAuthKey(d, n, k, text) ==
    IF RegisterAuthKeyCheck(d, n, k) THEN Fail(d, "alreadyExists") ELSE RegisterAuthKeyInsert(d, n, k, text)

RegisterSignKeyCheck(d, n, k) == Of(S!RegisterSignKeyCheck(d, n, k), FALSE, FALSE)
RegisterSignKeyInsert(d, n, k, text) ==
    Of(S!RegisterSignKeyInsert(d, n, k, text), P!RegisterSignKey(d, n, k, text), M!RegisterSignKey(d, n, k, text))
RegisterSignKey(d, n, k, text) ==
    IF RegisterSignKeyCheck(d, n, k) THEN Fail(d, "alreadyExists") ELSE RegisterSignKeyInsert(d, n, k, text)

\* Both transactions of it, nothing in between.
ApproveRegistrationRequest(d, id, emailConfirmationRequired) ==
    LET a == ApproveRegistrationStatus(d, id, emailConfirmationRequired)
    IN IF a.err # "nil" THEN a ELSE DeleteRequestsOf(a.db, GetRegistrationRequestByAbsId(d, id).user)

----
(* Namespaces and repositories. *)

GetNamespaceByName(d, n) == Of(S!GetNamespaceByName(d, n), P!GetNamespaceByName(d, n), M!GetNamespaceByName(d, n))
RegisterNamespace(d, n, owner) ==
    Of(S!RegisterNamespace(d, n, owner), P!RegisterNamespace(d, n, owner), M!RegisterNamespace(d, n, owner))
UpdateNamespaceInfo(d, n, o) ==
    Of(S!UpdateNamespaceInfo(d, n, o), P!UpdateNamespaceInfo(d, n, o), M!UpdateNamespaceInfo(d, n, o))
UpdateNamespaceOwner(d, n, owner) ==
    Of(S!UpdateNamespaceOwner(d, n, owner), P!UpdateNamespaceOwner(d, n, owner), M!UpdateNamespaceOwner(d, n, owner))
UpdateNamespaceStatus(d, n, status) ==
    Of(S!UpdateNamespaceStatus(d, n, status), P!UpdateNamespaceStatus(d, n, status),
       M!UpdateNamespaceStatus(d, n, status))
HardDeleteNamespaceByName(d, n) ==
    Of(S!HardDeleteNamespaceByName(d, n), P!HardDeleteNamespaceByName(d, n), M!HardDeleteNamespaceByName(d, n))
GetRepositoryByName(d, ns, name) ==
    Of(S!GetRepositoryByName(d, ns, name), P!GetRepositoryByName(d, ns, name), M!GetRepositoryByName(d, ns, name))
GetRepositoryWithNamespace(d, ns, name) ==
    Of(S!GetRepositoryWithNamespace(d, ns, name), P!GetRepositoryWithNamespace(d, ns, name),
       M!GetRepositoryWithNamespace(d, ns, name))
CreateRepository(d, ns, name, owner) ==
    Of(S!CreateRepository(d, ns, name, owner), P!CreateRepository(d, ns, name, owner),
       M!CreateRepository(d, ns, name, owner))
SetUpCloneRepository(d, ons, oname, ns, name, owner) ==
    Of(S!SetUpCloneRepository(d, ons, oname, ns, name, owner), P!SetUpCloneRepository(d, ons, oname, ns, name, owner),
       M!SetUpCloneRepository(d, ons, oname, ns, name, owner))
HardDeleteRepository(d, ns, name) ==
    Of(S!HardDeleteRepository(d, ns, name), P!HardDeleteRepository(d, ns, name), M!HardDeleteRepository(d, ns, name))
GetForkRepositoryOfUser(d, user, ons, oname) ==
    Of(S!GetForkRepositoryOfUser(d, user, ons, oname), P!GetForkRepositoryOfUser(d, user, ons, oname),
       M!GetForkRepositoryOfUser(d, user, ons, oname))
LabelsRead(d, ns, name) == Of(S!LabelsRead(d, ns, name), P!LabelsRead(d, ns, name), M!LabelsRead(d, ns, name))
AddRepositoryLabel(d, ns, name, lbl, read) ==
    Of(S!AddRepositoryLabel(d, ns, name, lbl, read), P!AddRepositoryLabel(d, ns, name, lbl, read),
       M!AddRepositoryLabel(d, ns, name, lbl, read))
RemoveRepositoryLabel(d, ns, name, lbl, read) ==
    Of(S!RemoveRepositoryLabel(d, ns, name, lbl, read), P!RemoveRepositoryLabel(d, ns, name, lbl, read),
       M!RemoveRepositoryLabel(d, ns, name, lbl, read))
GetRepositoryLabel(d, ns, name) ==
    Of(S!GetRepositoryLabel(d, ns, name), P!GetRepositoryLabel(d, ns, name), M!GetRepositoryLabel(d, ns, name))
GetAllNamespace(d) == Of(S!GetAllNamespace(d), P!GetAllNamespace(d), M!GetAllNamespace(d))
GetAllNamespaceByOwner(d, owner) ==
    Of(S!GetAllNamespaceByOwner(d, owner), P!GetAllNamespaceByOwner(d, owner), M!GetAllNamespaceByOwner(d, owner))
GetAllNamespaces(d, pageNum, pageSize) ==
    Of(S!GetAllNamespaces(d, pageNum, pageSize), P!GetAllNamespaces(d, pageNum, pageSize),
       M!GetAllNamespaces(d, pageNum, pageSize))
CountAllNamespace(d) == Of(S!CountAllNamespace(d), P!CountAllNamespace(d), M!CountAllNamespace(d))
GetAllRepositories(d, pageNum, pageSize) ==
    Of(S!GetAllRepositories(d, pageNum, pageSize), P!GetAllRepositories(d, pageNum, pageSize),
       M!GetAllRepositories(d, pageNum, pageSize))
CountAllRepositories(d) == Of(S!CountAllRepositories(d), P!CountAllRepositories(d), M!CountAllRepositories(d))
GetAllRepositoryFromNamespace(d, ns) ==
    Of(S!GetAllRepositoryFromNamespace(d, ns), P!GetAllRepositoryFromNamespace(d, ns),
       M!GetAllRepositoryFromNamespace(d, ns))
GetAllVisibleRepositoryFromNamespace(d, viewer, ns) ==
    Of(S!GetAllVisibleRepositoryFromNamespace(d, viewer, ns), P!GetAllVisibleRepositoryFromNamespace(d, viewer, ns),
       M!GetAllVisibleRepositoryFromNamespace(d, viewer, ns))
GetAllComprisingNamespace(d, user) ==
    Of(S!GetAllComprisingNamespace(d, user), P!GetAllComprisingNamespace(d, user),
       M!GetAllComprisingNamespace(d, user))
GetAllVisibleNamespacePaginated(d, viewer, pageNum, pageSize) ==
    Of(S!GetAllVisibleNamespacePaginated(d, viewer, pageNum, pageSize), P!GetAllVisibleNamespacePaginated(d, viewer, pageNum, pageSize),
       M!GetAllVisibleNamespacePaginated(d, viewer, pageNum, pageSize))
SearchAllVisibleNamespacePaginated(d, viewer, q, pageNum, pageSize) ==
    Of(S!SearchAllVisibleNamespacePaginated(d, viewer, q, pageNum, pageSize), P!SearchAllVisibleNamespacePaginated(d, viewer, q, pageNum, pageSize),
       M!SearchAllVisibleNamespacePaginated(d, viewer, q, pageNum, pageSize))
CountAllVisibleNamespace(d, viewer) ==
    Of(S!CountAllVisibleNamespace(d, viewer), P!CountAllVisibleNamespace(d, viewer),
       M!CountAllVisibleNamespace(d, viewer))
CountAllVisibleNamespaceSearchResult(d, viewer, q) ==
    Of(S!CountAllVisibleNamespaceSearchResult(d, viewer, q), P!CountAllVisibleNamespaceSearchResult(d, viewer, q),
       M!CountAllVisibleNamespaceSearchResult(d, viewer, q))
GetAllVisibleRepositoryPaginated(d, viewer, pageNum, pageSize) ==
    Of(S!GetAllVisibleRepositoryPaginated(d, viewer, pageNum, pageSize), P!GetAllVisibleRepositoryPaginated(d, viewer, pageNum, pageSize),
       M!GetAllVisibleRepositoryPaginated(d, viewer, pageNum, pageSize))
SearchAllVisibleRepositoryPaginated(d, viewer, q, pageNum, pageSize) ==
    Of(S!SearchAllVisibleRepositoryPaginated(d, viewer, q, pageNum, pageSize), P!SearchAllVisibleRepositoryPaginated(d, viewer, q, pageNum, pageSize),
       M!SearchAllVisibleRepositoryPaginated(d, viewer, q, pageNum, pageSize))
CountAllVisibleRepositories(d, viewer) ==
    Of(S!CountAllVisibleRepositories(d, viewer), P!CountAllVisibleRepositories(d, viewer),
       M!CountAllVisibleRepositories(d, viewer))
CountAllVisibleRepositoriesSearchResult(d, viewer, q) ==
    Of(S!CountAllVisibleRepositoriesSearchResult(d, viewer, q), P!CountAllVisibleRepositoriesSearchResult(d, viewer, q),
       M!CountAllVisibleRepositoriesSearchResult(d, viewer, q))
GetAllBelongingNamespace(d, viewer, user) ==
    Of(S!GetAllBelongingNamespace(d, viewer, user), P!GetAllBelongingNamespace(d, viewer, user),
       M!GetAllBelongingNamespace(d, viewer, user))
GetAllBelongingRepository(d, viewer, user, q, pageNum, pageSize) ==
    Of(S!GetAllBelongingRepository(d, viewer, user, q, pageNum, pageSize), P!GetAllBelongingRepository(d, viewer, user, q, pageNum, pageSize),
       M!GetAllBelongingRepository(d, viewer, user, q, pageNum, pageSize))
CountAllBelongingRepository(d, viewer, user, q) ==
    Of(S!CountAllBelongingRepository(d, viewer, user, q), P!CountAllBelongingRepository(d, viewer, user, q),
       M!CountAllBelongingRepository(d, viewer, user, q))
GetRepositoryWithLabelPaginated(d, viewer, label, pageNum, pageSize) ==
    Of(S!GetRepositoryWithLabelPaginated(d, viewer, label, pageNum, pageSize), P!GetRepositoryWithLabelPaginated(d, viewer, label, pageNum, pageSize),
       M!GetRepositoryWithLabelPaginated(d, viewer, label, pageNum, pageSize))
CountRepositoryWithLabel(d, viewer, label) ==
    Of(S!CountRepositoryWithLabel(d, viewer, label), P!CountRepositoryWithLabel(d, viewer, label),
       M!CountRepositoryWithLabel(d, viewer, label))
SearchForNamespace(d, k, pageNum, pageSize) ==
    Of(S!SearchForNamespace(d, k, pageNum, pageSize), P!SearchForNamespace(d, k, pageNum, pageSize),
       M!SearchForNamespace(d, k, pageNum, pageSize))
SearchForRepository(d, k, pageNum, pageSize) ==
    Of(S!SearchForRepository(d, k, pageNum, pageSize), P!SearchForRepository(d, k, pageNum, pageSize),
       M!SearchForRepository(d, k, pageNum, pageSize))
CountAllRepositoriesSearchResult(d, q) ==
    Of(S!CountAllRepositoriesSearchResult(d, q), P!CountAllRepositoriesSearchResult(d, q),
       M!CountAllRepositoriesSearchResult(d, q))

\* SQLite reads the row id, or the ACL column, before the transaction that
\* uses it; the other backends have nothing to read.
RepositoryRowid(d, ns, name) == Of(S!RepositoryRowid(d, ns, name), 0, 0)
UpdateRepositoryInfo(d, ns, name, o, rowid) ==
    Of(S!UpdateRepositoryInfo(d, ns, name, o, rowid), P!UpdateRepositoryInfo(d, ns, name, o),
       M!UpdateRepositoryInfo(d, ns, name, o))
UpdateRepositoryStatus(d, ns, name, status, rowid) ==
    Of(S!UpdateRepositoryStatus(d, ns, name, status, rowid), P!UpdateRepositoryStatus(d, ns, name, status),
       M!UpdateRepositoryStatus(d, ns, name, status))
NamespaceACLRead(d, n) == Of(S!NamespaceACLRead(d, n), Null, Null)
SetNamespaceACL(d, n, user, privs, read) ==
    Of(S!SetNamespaceACL(d, n, user, privs, read), P!SetNamespaceACL(d, n, user, privs),
       M!SetNamespaceACL(d, n, user, privs))
RepositoryACLRead(d, ns, name) == Of(S!RepositoryACLRead(d, ns, name), Null, Null)
SetRepositoryACL(d, ns, name, user, privs, read) ==
    Of(S!SetRepositoryACL(d, ns, name, user, privs, read), P!SetRepositoryACL(d, ns, name, user, privs),
       M!SetRepositoryACL(d, ns, name, user, privs))

\* What a listing may show of a repository (sqlaux.go: repoVisibilityCond).
repoVisibilityCond(d, r, viewer) ==
    Of(S!Q!repoVisibilityCond(d, r, viewer), P!Q!repoVisibilityCond(d, r, viewer), M!Q!repoVisibilityCond(d, r, viewer))

----
(* Issues and pull requests. *)

GetRepositoryIssue(d, repo, num) ==
    Of(S!GetRepositoryIssue(d, repo, num), P!GetRepositoryIssue(d, repo, num), M!GetRepositoryIssue(d, repo, num))
NewRepositoryIssue(d, repo, author) ==
    Of(S!NewRepositoryIssue(d, repo, author), P!NewRepositoryIssue(d, repo, author),
       M!NewRepositoryIssue(d, repo, author))
HardDeleteRepositoryIssue(d, repo, num) ==
    Of(S!HardDeleteRepositoryIssue(d, repo, num), P!HardDeleteRepositoryIssue(d, repo, num),
       M!HardDeleteRepositoryIssue(d, repo, num))
SetIssuePriority(d, repo, num, prio) ==
    Of(S!SetIssuePriority(d, repo, num, prio), P!SetIssuePriority(d, repo, num, prio),
       M!SetIssuePriority(d, repo, num, prio))
GetAllRepositoryIssue(d, repo) ==
    Of(S!GetAllRepositoryIssue(d, repo), P!GetAllRepositoryIssue(d, repo), M!GetAllRepositoryIssue(d, repo))
CountAllRepositoryIssue(d, repo) ==
    Of(S!CountAllRepositoryIssue(d, repo), P!CountAllRepositoryIssue(d, repo), M!CountAllRepositoryIssue(d, repo))
CountIssue(d, repo, filter) ==
    Of(S!CountIssue(d, repo, filter), P!CountIssue(d, repo, filter), M!CountIssue(d, repo, filter))
SearchIssuePaginated(d, repo, filter, pageNum, pageSize) ==
    Of(S!SearchIssuePaginated(d, repo, filter, pageNum, pageSize), P!SearchIssuePaginated(d, repo, filter, pageNum, pageSize),
       M!SearchIssuePaginated(d, repo, filter, pageNum, pageSize))
GetRepositoryIssueLabel(d, repo) ==
    Of(S!GetRepositoryIssueLabel(d, repo), P!GetRepositoryIssueLabel(d, repo), M!GetRepositoryIssueLabel(d, repo))
updateRepositoryIssueLabelList(d, repo, list) ==
    Of(S!updateRepositoryIssueLabelList(d, repo, list), P!updateRepositoryIssueLabelList(d, repo, list),
       M!updateRepositoryIssueLabelList(d, repo, list))
IssueLabelsRead(d, repo, num) ==
    Of(S!IssueLabelsRead(d, repo, num), P!IssueLabelsRead(d, repo, num), M!IssueLabelsRead(d, repo, num))
updateIssueLabelList(d, repo, num, list) ==
    Of(S!updateIssueLabelList(d, repo, num, list), P!updateIssueLabelList(d, repo, num, list),
       M!updateIssueLabelList(d, repo, num, list))
GetAllIssueEvent(d, repo, num) ==
    Of(S!GetAllIssueEvent(d, repo, num), P!GetAllIssueEvent(d, repo, num), M!GetAllIssueEvent(d, repo, num))
NewRepositoryIssueEvent(d, read, type, author) ==
    Of(S!NewRepositoryIssueEvent(d, read, type, author), P!NewRepositoryIssueEvent(d, read, type, author),
       M!NewRepositoryIssueEvent(d, read, type, author))
HardDeleteRepositoryIssueEvent(d, id) ==
    Of(S!HardDeleteRepositoryIssueEvent(d, id), P!HardDeleteRepositoryIssueEvent(d, id),
       M!HardDeleteRepositoryIssueEvent(d, id))
GetPullRequest(d, repo, num) ==
    Of(S!GetPullRequest(d, repo, num), P!GetPullRequest(d, repo, num), M!GetPullRequest(d, repo, num))
GetPullRequestByAbsId(d, id) ==
    Of(S!GetPullRequestByAbsId(d, id), P!GetPullRequestByAbsId(d, id), M!GetPullRequestByAbsId(d, id))
NewPullRequest(d, repo, author, provider) ==
    Of(S!NewPullRequest(d, repo, author, provider), P!NewPullRequest(d, repo, author, provider),
       M!NewPullRequest(d, repo, author, provider))
DeletePullRequest(d, id) == Of(S!DeletePullRequest(d, id), P!DeletePullRequest(d, id), M!DeletePullRequest(d, id))
GetAllPullRequestPaginated(d, repo, pageNum, pageSize) ==
    Of(S!GetAllPullRequestPaginated(d, repo, pageNum, pageSize), P!GetAllPullRequestPaginated(d, repo, pageNum, pageSize),
       M!GetAllPullRequestPaginated(d, repo, pageNum, pageSize))
CountPullRequest(d, repo, filter) ==
    Of(S!CountPullRequest(d, repo, filter), P!CountPullRequest(d, repo, filter), M!CountPullRequest(d, repo, filter))
SearchPullRequestPaginated(d, repo, filter, pageNum, pageSize) ==
    Of(S!SearchPullRequestPaginated(d, repo, filter, pageNum, pageSize), P!SearchPullRequestPaginated(d, repo, filter, pageNum, pageSize),
       M!SearchPullRequestPaginated(d, repo, filter, pageNum, pageSize))
CheckPullRequestMergeConflict(d, id, found) ==
    Of(S!CheckPullRequestMergeConflict(d, id, found), P!CheckPullRequestMergeConflict(d, id, found),
       M!CheckPullRequestMergeConflict(d, id, found))
GetAllPullRequestEventPaginated(d, id, pageNum, pageSize) ==
    Of(S!GetAllPullRequestEventPaginated(d, id, pageNum, pageSize), P!GetAllPullRequestEventPaginated(d, id, pageNum, pageSize),
       M!GetAllPullRequestEventPaginated(d, id, pageNum, pageSize))
CommentOnPullRequest(d, id, author) ==
    Of(S!CommentOnPullRequest(d, id, author), P!CommentOnPullRequest(d, id, author),
       M!CommentOnPullRequest(d, id, author))
CommentOnPullRequestCode(d, id, author) ==
    Of(S!CommentOnPullRequestCode(d, id, author), P!CommentOnPullRequestCode(d, id, author),
       M!CommentOnPullRequestCode(d, id, author))
ClosePullRequestAsNotMerged(d, id, author) ==
    Of(S!ClosePullRequestAsNotMerged(d, id, author), P!ClosePullRequestAsNotMerged(d, id, author),
       M!ClosePullRequestAsNotMerged(d, id, author))
ReopenPullRequest(d, id, author) ==
    Of(S!ReopenPullRequest(d, id, author), P!ReopenPullRequest(d, id, author), M!ReopenPullRequest(d, id, author))
GetPullRequestReviews(d, id) ==
    Of(S!GetPullRequestReviews(d, id), P!GetPullRequestReviews(d, id), M!GetPullRequestReviews(d, id))
AddPullRequestReviewer(d, id, reviewer) ==
    Of(S!AddPullRequestReviewer(d, id, reviewer), P!AddPullRequestReviewer(d, id, reviewer),
       M!AddPullRequestReviewer(d, id, reviewer))
RemovePullRequestReviewer(d, id, reviewer) ==
    Of(S!RemovePullRequestReviewer(d, id, reviewer), P!RemovePullRequestReviewer(d, id, reviewer),
       M!RemovePullRequestReviewer(d, id, reviewer))
SubmitPullRequestReview(d, id, reviewer, status, commit) ==
    Of(S!SubmitPullRequestReview(d, id, reviewer, status, commit), P!SubmitPullRequestReview(d, id, reviewer, status, commit),
       M!SubmitPullRequestReview(d, id, reviewer, status, commit))
CheckAndMergePullRequest(d, id, user, found, tip, mergeOk) ==
    Of(S!CheckAndMergePullRequest(d, id, user, found, tip, mergeOk), P!CheckAndMergePullRequest(d, id, user, found, tip, mergeOk),
       M!CheckAndMergePullRequest(d, id, user, found, tip, mergeOk))

\* The label list f(list read), f one of WithIssueLabel and WithoutIssueLabel.
LOCAL Changed(list, F(_)) == IF list = S!NoRows THEN list ELSE F(list)
AddRepositoryIssueLabel(d, repo, label) ==
    updateRepositoryIssueLabelList(d, repo, Changed(GetRepositoryIssueLabel(d, repo), LAMBDA l : S!WithIssueLabel(l, label)))
RemoveRepositoryIssueLabel(d, repo, label) ==
    updateRepositoryIssueLabelList(d, repo, Changed(GetRepositoryIssueLabel(d, repo), LAMBDA l : S!WithoutIssueLabel(l, label)))
AddIssueLabel(d, repo, num, label) ==
    updateIssueLabelList(d, repo, num, Changed(IssueLabelsRead(d, repo, num), LAMBDA l : S!WithIssueLabel(l, label)))
RemoveIssueLabel(d, repo, num, label) ==
    updateIssueLabelList(d, repo, num, Changed(IssueLabelsRead(d, repo, num), LAMBDA l : S!WithoutIssueLabel(l, label)))

----
(* Snippets and the webhook log. *)

NewSnippet(d, u, n, status) ==
    Of(S!NewSnippet(d, u, n, status), P!NewSnippet(d, u, n, status), M!NewSnippet(d, u, n, status))
GetAllSnippet(d, u) == Of(S!GetAllSnippet(d, u), P!GetAllSnippet(d, u), M!GetAllSnippet(d, u))
CountAllVisibleSnippet(d, u, viewer, k) ==
    Of(S!CountAllVisibleSnippet(d, u, viewer, k), P!CountAllVisibleSnippet(d, u, viewer, k),
       M!CountAllVisibleSnippet(d, u, viewer, k))
GetAllVisibleSnippetPaginated(d, u, viewer, k, pageNum, pageSize) ==
    Of(S!GetAllVisibleSnippetPaginated(d, u, viewer, k, pageNum, pageSize), P!GetAllVisibleSnippetPaginated(d, u, viewer, k, pageNum, pageSize),
       M!GetAllVisibleSnippetPaginated(d, u, viewer, k, pageNum, pageSize))
DeleteSnippet(d, u, n) == Of(S!DeleteSnippet(d, u, n), P!DeleteSnippet(d, u, n), M!DeleteSnippet(d, u, n))
SaveSnippetInfo(d, m) == Of(S!SaveSnippetInfo(d, m), P!SaveSnippetInfo(d, m), M!SaveSnippetInfo(d, m))
GetSnippet(d, u, n) == Of(S!GetSnippet(d, u, n), P!GetSnippet(d, u, n), M!GetSnippet(d, u, n))
RegisterWebhookRequest(d, uuid, reportUuid, repo, commit) ==
    Of(S!RegisterWebhookRequest(d, uuid, reportUuid, repo, commit), P!RegisterWebhookRequest(d, uuid, reportUuid, repo, commit),
       M!RegisterWebhookRequest(d, uuid, reportUuid, repo, commit))
UpdateWebhookResult(d, uuid, res) ==
    Of(S!UpdateWebhookResult(d, uuid, res), P!UpdateWebhookResult(d, uuid, res), M!UpdateWebhookResult(d, uuid, res))
GetWebhookResultByUUID(d, uuid) ==
    Of(S!GetWebhookResultByUUID(d, uuid), P!GetWebhookResultByUUID(d, uuid), M!GetWebhookResultByUUID(d, uuid))
====
