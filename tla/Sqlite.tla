---- MODULE Sqlite ----
(***************************************************************************)
(* src/pkg/gitus/db/sqlite/query.go.  Foreign keys are not enforced        *)
(* (defs.go opens the connection without PRAGMA foreign_keys).  A function *)
(* that writes does so in one transaction, unless it is split in two steps *)
(* below.                                                                  *)
(***************************************************************************)
EXTENDS Tables

----
(* Users, their keys and addresses, and registration requests.  `info' stands for
   the title, biography, website and preference columns. *)

\* --- users ---

GetUserByName(d, n) == Lookup(d.user, LAMBDA u : u.name = n)

\* Only the columns that every authenticated request needs.
GetUserLoginInfo(d, n) ==
    LET u == GetUserByName(d, n)
    IN IF u = Null THEN Null ELSE [name |-> u.name, email |-> u.email, status |-> u.status]

\* The directory named after the account is emptied before the commit, so a
\* namespace of that name loses its repositories on disk.
RegisterUser(d, n, email, pw, status) ==
    IF GetUserByName(d, n) # Null THEN Fail(d, "unique")
    ELSE Ok([d EXCEPT !.user = Append(@, [name |-> n, email |-> email, pw |-> pw,
                                          status |-> status, tfa |-> "off", info |-> n]),
                      !.dirs = RemoveAll(@, <<n>>) \cup {<<n>>}])

\* Every column but the password hash comes from the object handed in.
UpdateUserInfo(d, n, u) ==
    Ok([d EXCEPT !.user = Update(@, LAMBDA r : r.name = n, LAMBDA r :
            [r EXCEPT !.email = u.email, !.status = u.status, !.tfa = u.tfa, !.info = u.info])])

UpdateUserPassword(d, n, pw) ==
    Ok([d EXCEPT !.user = Update(@, LAMBDA r : r.name = n, LAMBDA r : [r EXCEPT !.pw = pw])])

UpdateUserStatus(d, n, status) ==
    Ok([d EXCEPT !.user = Update(@, LAMBDA r : r.name = n, LAMBDA r : [r EXCEPT !.status = status])])

\* Keys, addresses and requests of the name stay behind.
HardDeleteUserByName(d, n) ==
    Ok([d EXCEPT !.user = Without(@, LAMBDA r : r.name = n), !.dirs = RemoveAll(@, <<n>>)])

GetAllUsers(d, pageNum, pageSize) == Page(d.user, pageNum, pageSize)

CountAllUser(d) == Len(d.user)

SearchForUser(d, k, pageNum, pageSize) ==
    Page(SelectSeq(d.user, LAMBDA u : <<k, u.name>> \in Like \/ <<k, u.info>> \in Like),
         pageNum, pageSize)

\* --- keys: t is the authkey or the signkey table ---

KeyIs(r, n, k) == r.user = n /\ r.name = k

GetAuthKeyByName(d, n, k) == Lookup(d.authkey, LAMBDA r : KeyIs(r, n, k))

GetAllAuthKeyByUsername(d, n) == SelectSeq(d.authkey, LAMBDA r : r.user = n)

GetAllAuthKey(d) == d.authkey

\* SELECT 1, outside the transaction ...
RegisterAuthKeyCheck(d, n, k) == Has(d.authkey, LAMBDA r : KeyIs(r, n, k))

\* ... then the INSERT, which no constraint stops.
RegisterAuthKeyInsert(d, n, k, text) ==
    Ok([d EXCEPT !.authkey = Append(@, [user |-> n, name |-> k, text |-> text])])

UpdateAuthKey(d, n, k, text) ==
    Ok([d EXCEPT !.authkey = Update(@, LAMBDA r : KeyIs(r, n, k), LAMBDA r : [r EXCEPT !.text = text])])

RemoveAuthKey(d, n, k) == Ok([d EXCEPT !.authkey = Without(@, LAMBDA r : KeyIs(r, n, k))])

GetAllSignKeyByUsername(d, n) == SelectSeq(d.signkey, LAMBDA r : r.user = n)

GetSignKeyByName(d, n, k) == Lookup(d.signkey, LAMBDA r : KeyIs(r, n, k))

UpdateSignKey(d, n, k, text) ==
    Ok([d EXCEPT !.signkey = Update(@, LAMBDA r : KeyIs(r, n, k), LAMBDA r : [r EXCEPT !.text = text])])

RegisterSignKeyCheck(d, n, k) == Has(d.signkey, LAMBDA r : KeyIs(r, n, k))

RegisterSignKeyInsert(d, n, k, text) ==
    Ok([d EXCEPT !.signkey = Append(@, [user |-> n, name |-> k, text |-> text])])

RemoveSignKey(d, n, k) == Ok([d EXCEPT !.signkey = Without(@, LAMBDA r : KeyIs(r, n, k))])

\* --- addresses ---

EmailIs(r, n, e) == r.user = n /\ r.email = e

GetAllRegisteredEmailOfUser(d, n) == SelectSeq(d.email, LAMBDA r : r.user = n)

AddEmail(d, n, e) == Ok([d EXCEPT !.email = Append(@, [user |-> n, email |-> e, verified |-> FALSE])])

VerifyRegisteredEmail(d, n, e) ==
    Ok([d EXCEPT !.email = Update(@, LAMBDA r : EmailIs(r, n, e), LAMBDA r : [r EXCEPT !.verified = TRUE])])

DeleteRegisteredEmail(d, n, e) == Ok([d EXCEPT !.email = Without(@, LAMBDA r : EmailIs(r, n, e))])

\* No row is an error (sql.ErrNoRows), not FALSE.
CheckIfEmailVerified(d, n, e) ==
    LET r == Lookup(d.email, LAMBDA x : EmailIs(x, n, e))
    IN IF r = Null THEN "noRows" ELSE IF r.verified THEN "yes" ELSE "no"

VerifiedRows(d, e) == SelectSeq(d.email, LAMBDA r : r.email = e /\ r.verified)

\* The first verified row names the user ...
ResolveEmailToUsername(d, e) ==
    IF VerifiedRows(d, e) = <<>> THEN Null ELSE VerifiedRows(d, e)[1].user

\* ... while here every row overwrites the map entry, so the last one does.
ResolveMultipleEmailToUsername(d, emailList) ==
    [e \in DOMAIN emailList |->
        IF VerifiedRows(d, e) = <<>> THEN emailList[e] ELSE Last(VerifiedRows(d, e)).user]

\* --- registration requests ---

InsertRegistrationRequest(d, n, email, pw) ==
    Ok([d EXCEPT !.req = Append(@, [id |-> NextRowid(@), user |-> n, email |-> email, pw |-> pw])])

GetRegistrationRequestByAbsId(d, id) == Lookup(d.req, LAMBDA r : r.id = id)

\* SELECT username, then UpdateUserStatus in a transaction of its own ...
ApproveRegistrationStatus(d, id, emailConfirmationRequired) ==
    LET r == GetRegistrationRequestByAbsId(d, id)
    IN IF r = Null THEN Fail(d, "noRows")
       ELSE UpdateUserStatus(d, r.user, IF emailConfirmationRequired THEN "confirm" ELSE "normal")

\* ... then every request of that name goes.
DeleteRequestsOf(d, n) == Ok([d EXCEPT !.req = Without(@, LAMBDA r : r.user = n)])

DisapproveRegistrationRequest(d, id) ==
    LET r == GetRegistrationRequestByAbsId(d, id)
    IN IF r = Null THEN Fail(d, "noRows") ELSE DeleteRequestsOf(d, r.user)

\* ORDER BY timestamp DESC: newest first.
GetRegistrationRequestPaginated(d, pageNum, pageSize) == Page(Reverse(d.req), pageNum, pageSize)

GetRequestOfUsernamePaginated(d, n, pageNum, pageSize) ==
    Page(Reverse(SelectSeq(d.req, LAMBDA r : r.user = n)), pageNum, pageSize)

MatchingRequests(d, q) == SelectSeq(d.req, LAMBDA r : <<q, r.user>> \in Like)

\* A fault: the keyword is left out of the count.
CountAllRequests(d, q) == Len(d.req)

CountRegistrationRequest(d, q) == IF q = "" THEN Len(d.req) ELSE Len(MatchingRequests(d, q))

\* With a keyword the order is oldest first.
SearchRegistrationRequestPaginated(d, q, pageNum, pageSize) ==
    Page(IF q = "" THEN Reverse(d.req) ELSE MatchingRequests(d, q), pageNum, pageSize)

----
(* Namespaces, repositories, their ACLs and labels.  An ACL maps members to the
   privileges of their tuple.  The label column is the list it parses to: the
   empty string is <<>>, and "{}", what is left when the last label goes, <<"">>. *)

\* repo_acl LIKE '%viewer%' over the JSON text: a member whose name contains
\* the viewer's matches as well (the JSON keys are left out).
LikeAcl(acl, viewer) == \E m \in DOMAIN acl : m = viewer \/ <<viewer, m>> \in Like

Q == INSTANCE ForgeQueries WITH AclMatch <- LikeAcl

NoMembers == [m \in {} |-> {}]

RepoIs(r, ns, name) == r.ns = ns /\ r.name = name

\* --- namespaces ---

GetNamespaceByName(d, n) == Lookup(d.ns, LAMBDA r : r.name = n)

\* Whatever the directory of that name holds is removed.
RegisterNamespace(d, n, owner) ==
    IF GetNamespaceByName(d, n) # Null THEN Fail(d, "alreadyExists")
    ELSE Ok([d EXCEPT !.ns = Append(@, [name |-> n, title |-> n, owner |-> owner,
                                        status |-> "public", acl |-> NoMembers]),
                      !.dirs = RemoveAll(@, <<n>>) \cup {<<n>>}])

UpdateNamespaceInfo(d, n, o) ==
    Ok([d EXCEPT !.ns = Update(@, LAMBDA r : r.name = n, LAMBDA r :
            [r EXCEPT !.title = o.title, !.owner = o.owner, !.status = o.status])])

UpdateNamespaceOwner(d, n, owner) ==
    Ok([d EXCEPT !.ns = Update(@, LAMBDA r : r.name = n, LAMBDA r : [r EXCEPT !.owner = owner])])

UpdateNamespaceStatus(d, n, status) ==
    Ok([d EXCEPT !.ns = Update(@, LAMBDA r : r.name = n, LAMBDA r : [r EXCEPT !.status = status])])

\* Files and row; the repository rows below it stay.
HardDeleteNamespaceByName(d, n) ==
    Ok([d EXCEPT !.ns = Without(@, LAMBDA r : r.name = n), !.dirs = RemoveAll(@, <<n>>)])

\* --- repositories ---

GetRepositoryByName(d, ns, name) == Lookup(d.repo, LAMBDA r : RepoIs(r, ns, name))

\* INNER JOIN: found only when both rows are.
GetRepositoryWithNamespace(d, ns, name) ==
    IF Null \in {GetNamespaceByName(d, ns), GetRepositoryByName(d, ns, name)} THEN Null
    ELSE [ns |-> GetNamespaceByName(d, ns), repo |-> GetRepositoryByName(d, ns, name)]

NewRow(id, ns, name, owner, origin) ==
    [id |-> id, ns |-> ns, name |-> name, owner |-> owner, status |-> "public",
     acl |-> NoMembers, labels |-> <<>>, issuelabels |-> <<>>, origin |-> origin]

\* INSERT, then the directory is emptied and initialised, then the commit.
CreateRepository(d, ns, name, owner) ==
    IF GetRepositoryByName(d, ns, name) # Null THEN Fail(d, "unique")
    ELSE Ok([d EXCEPT !.repo = Append(@, NewRow(NextRowid(@), ns, name, owner, <<>>)),
                      !.dirs = RemoveAll(@, <<ns, name>>) \cup {<<ns>>, <<ns, name>>}])

\* The fork is public whatever its origin is; without the origin's files it
\* fails after the target directory was removed.
SetUpCloneRepository(d, ons, oname, ns, name, owner) ==
    IF GetRepositoryByName(d, ns, name) # Null THEN Fail(d, "alreadyExists")
    ELSE IF <<ons, oname>> \notin d.dirs
         THEN Fail([d EXCEPT !.dirs = RemoveAll(@, <<ns, name>>)], "git")
    ELSE Ok([d EXCEPT !.repo = Append(@, NewRow(NextRowid(@), ns, name, owner, <<ons, oname>>)),
                      !.dirs = RemoveAll(@, <<ns, name>>) \cup {<<ns>>, <<ns, name>>}])

\* SELECT rowid, outside the transaction (UpdateRepositoryInfo and
\* UpdateRepositoryStatus) ...
RepositoryRowid(d, ns, name) ==
    LET r == GetRepositoryByName(d, ns, name) IN IF r = Null THEN 0 ELSE r.id

\* ... then UPDATE ... WHERE rowid.
UpdateRepositoryInfo(d, ns, name, o, rowid) ==
    IF rowid = 0 \/ ~Has(d.repo, LAMBDA r : r.id = rowid) THEN Fail(d, "notFound")
    ELSE Ok([d EXCEPT !.repo = Update(@, LAMBDA r : r.id = rowid, LAMBDA r :
                 [r EXCEPT !.owner = o.owner, !.status = o.status])])

UpdateRepositoryStatus(d, ns, name, status, rowid) ==
    IF rowid = 0 THEN Fail(d, "noRows")
    ELSE Ok([d EXCEPT !.repo = Update(@, LAMBDA r : r.id = rowid, LAMBDA r :
                 [r EXCEPT !.status = status])])

\* The row and the files; issues, pull requests and forks keep pointing at it.
HardDeleteRepository(d, ns, name) ==
    Ok([d EXCEPT !.repo = Without(@, LAMBDA r : RepoIs(r, ns, name)),
                 !.dirs = RemoveAll(@, <<ns, name>>)])

GetForkRepositoryOfUser(d, user, ons, oname) ==
    SelectSeq(d.repo, LAMBDA r : r.owner = user /\ r.origin = <<ons, oname>>)

\* --- ACLs: the column is read outside the transaction that writes it back ---

\* The nil tuple takes the member out.
NilTuple == {"nil"}

WithMember(acl, user, privs) ==
    IF privs = NilTuple THEN [m \in DOMAIN acl \ {user} |-> acl[m]]
    ELSE [m \in DOMAIN acl \cup {user} |-> IF m = user THEN privs ELSE acl[m]]

NamespaceACLRead(d, n) == GetNamespaceByName(d, n)

SetNamespaceACL(d, n, user, privs, read) ==
    IF read = Null THEN Fail(d, "noRows")
    ELSE Ok([d EXCEPT !.ns = Update(@, LAMBDA r : r.name = n, LAMBDA r :
                 [r EXCEPT !.acl = WithMember(read.acl, user, privs)])])

RepositoryACLRead(d, ns, name) == GetRepositoryByName(d, ns, name)

SetRepositoryACL(d, ns, name, user, privs, read) ==
    IF read = Null THEN Fail(d, "noRows")
    ELSE Ok([d EXCEPT !.repo = Update(@, LAMBDA r : RepoIs(r, ns, name), LAMBDA r :
                 [r EXCEPT !.acl = WithMember(read.acl, user, privs)])])

\* --- labels: read outside the transaction as well ---

LabelsRead(d, ns, name) == GetRepositoryByName(d, ns, name)

StoreLabels(d, ns, name, labels) ==
    Ok([d EXCEPT !.repo = Update(@, LAMBDA r : RepoIs(r, ns, name), LAMBDA r :
            [r EXCEPT !.labels = IF labels = <<>> THEN <<"">> ELSE labels])])

AddRepositoryLabel(d, ns, name, lbl, read) ==
    IF read = Null THEN Fail(d, "noRows")
    ELSE IF Contains(read.labels, lbl) THEN Ok(d)
    ELSE StoreLabels(d, ns, name, Append(read.labels, lbl))

\* rll[1:len(rll)-1] panics on the empty column.
RemoveRepositoryLabel(d, ns, name, lbl, read) ==
    IF read = Null THEN Fail(d, "noRows")
    ELSE IF read.labels = <<>> THEN Fail(d, "panic")
    ELSE IF ~Contains(read.labels, lbl) THEN Ok(d)
    ELSE StoreLabels(d, ns, name, RemoveFirst(read.labels, lbl))

GetRepositoryLabel(d, ns, name) ==
    LET read == LabelsRead(d, ns, name)
    IN IF read = Null THEN <<"noRows">> ELSE IF read.labels = <<>> THEN <<"panic">> ELSE read.labels

\* --- listings ---

GetAllNamespace(d) == Rows(d.ns)
GetAllNamespaceByOwner(d, owner) == {n \in Rows(d.ns) : n.owner = owner /\ n.status # "internal"}
GetAllNamespaces(d, pageNum, pageSize) == Page(d.ns, pageNum, pageSize)
CountAllNamespace(d) == Len(d.ns)
GetAllRepositories(d, pageNum, pageSize) == Page(d.repo, pageNum, pageSize)
CountAllRepositories(d) == Len(d.repo)

\* Nine scan targets for eleven columns: the first row is an error.
GetAllRepositoryFromNamespace(d, ns) ==
    IF Has(d.repo, LAMBDA r : r.ns = ns) THEN "scanError" ELSE <<>>

\* The repository's own owner, ACL and status; the namespace's ACL plays no role.
GetAllVisibleRepositoryFromNamespace(d, viewer, ns) ==
    SelectSeq(d.repo, LAMBDA r : /\ r.ns = ns
                                 /\ IF viewer = "" THEN Q!repoCondPublic(r)
                                    ELSE Q!repoCondInternal(r) \/ r.owner = viewer \/ LikeAcl(r.acl, viewer))

GetAllComprisingNamespace(d, user) == Q!GetAllComprisingNamespace(d, user)
GetAllVisibleNamespacePaginated(d, viewer, pageNum, pageSize) ==
    Q!listVisibleNamespaces(d, viewer, "", pageNum, pageSize)
SearchAllVisibleNamespacePaginated(d, viewer, q, pageNum, pageSize) ==
    Q!listVisibleNamespaces(d, viewer, q, pageNum, pageSize)
CountAllVisibleNamespace(d, viewer) == Q!CountAllVisibleNamespaceSearchResult(d, viewer, "")
CountAllVisibleNamespaceSearchResult(d, viewer, q) == Q!CountAllVisibleNamespaceSearchResult(d, viewer, q)
GetAllVisibleRepositoryPaginated(d, viewer, pageNum, pageSize) ==
    Q!listRepositories(d, viewer, "", pageNum, pageSize)
SearchAllVisibleRepositoryPaginated(d, viewer, q, pageNum, pageSize) ==
    Q!listRepositories(d, viewer, q, pageNum, pageSize)
CountAllVisibleRepositories(d, viewer) == Q!CountAllVisibleRepositoriesSearchResult(d, viewer, "")
CountAllVisibleRepositoriesSearchResult(d, viewer, q) == Q!CountAllVisibleRepositoriesSearchResult(d, viewer, q)
GetAllBelongingNamespace(d, viewer, user) == Q!GetAllBelongingNamespace(d, viewer, user)
GetAllBelongingRepository(d, viewer, user, q, pageNum, pageSize) ==
    Q!GetAllBelongingRepository(d, viewer, user, q, pageNum, pageSize)
CountAllBelongingRepository(d, viewer, user, q) == Q!CountAllBelongingRepository(d, viewer, user, q)
GetRepositoryWithLabelPaginated(d, viewer, label, pageNum, pageSize) ==
    Q!GetRepositoryWithLabelPaginated(d, viewer, label, pageNum, pageSize)
CountRepositoryWithLabel(d, viewer, label) == Q!CountRepositoryWithLabel(d, viewer, label)
SearchForNamespace(d, k, pageNum, pageSize) == Q!SearchForNamespace(d, k, pageNum, pageSize)
SearchForRepository(d, k, pageNum, pageSize) == Q!SearchForRepository(d, k, pageNum, pageSize)
CountAllRepositoriesSearchResult(d, q) == Q!CountAllRepositoriesSearchResult(d, q)

----
(* Issues, their events and labels, and pull requests, their events and reviews.
   `repo' is <<namespace, name>>, `num' the number shown to users, `id' the row id. *)

\* --- numbers per repository: one upsert of the counter row ---

CounterIs(c, repo, kind) == c.repo = repo /\ c.kind = kind

\* A fault: the number is taken from the rows alone, as if there were no counter.
SmallestAbove(d, repo, kind) ==
    LET used == {r.num : r \in {x \in Rows(IF kind = "issue" THEN d.issue ELSE d.pr) : x.repo = repo}}
    IN 1 + CHOOSE m \in used \cup {0} : \A k \in used : k <= m

\* A counter that does not exist yet starts above the largest number in use.
nextSequentialId(d, repo, kind) ==
    LET c == Lookup(d.counter, LAMBDA x : CounterIs(x, repo, kind))
        used == {r.num : r \in {x \in Rows(IF kind = "issue" THEN d.issue ELSE d.pr) : x.repo = repo}}
    IN IF c # Null THEN c.next + 1
       ELSE 1 + CHOOSE m \in used \cup {0} : \A k \in used : k <= m

BumpCounter(d, repo, kind) ==
    LET next == nextSequentialId(d, repo, kind)
    IN IF Has(d.counter, LAMBDA x : CounterIs(x, repo, kind))
       THEN Update(d.counter, LAMBDA x : CounterIs(x, repo, kind), LAMBDA x : [x EXCEPT !.next = next])
       ELSE Append(d.counter, [repo |-> repo, kind |-> kind, next |-> next])

\* --- issues ---

IssueIs(r, repo, num) == r.repo = repo /\ r.num = num

GetRepositoryIssue(d, repo, num) == Lookup(d.issue, LAMBDA r : IssueIs(r, repo, num))

InsertIssue(d, id, repo, author) ==
    [d EXCEPT !.counter = BumpCounter(d, repo, "issue"), !.clock = @ + 1,
              !.issue = Append(@, [id |-> id, repo |-> repo, num |-> nextSequentialId(d, repo, "issue"),
                                   author |-> author, status |-> "open", prio |-> 0,
                                   labels |-> <<>>, at |-> d.clock])]

NewRepositoryIssue(d, repo, author) == Ok(InsertIssue(d, NextRowid(d.issue), repo, author))

HardDeleteRepositoryIssue(d, repo, num) ==
    Ok([d EXCEPT !.issue = Without(@, LAMBDA r : IssueIs(r, repo, num))])

SetIssuePriority(d, repo, num, prio) ==
    Ok([d EXCEPT !.issue = Update(@, LAMBDA r : IssueIs(r, repo, num), LAMBDA r : [r EXCEPT !.prio = prio])])

issueStatusCond(r, filter) ==
    CASE filter = 1 -> r.status = "open"
      [] filter = 2 -> r.status # "open"
      [] filter = 3 -> r.status = "solved"
      [] filter = 4 -> r.status = "discarded"
      [] OTHER -> TRUE

IssuesOf(d, repo, filter) == SelectSeq(d.issue, LAMBDA r : r.repo = repo /\ issueStatusCond(r, filter))

GetAllRepositoryIssue(d, repo) == SortSeq(IssuesOf(d, repo, 0), LAMBDA a, b : a.num < b.num)
CountAllRepositoryIssue(d, repo) == Len(IssuesOf(d, repo, 0))
CountIssue(d, repo, filter) == Len(IssuesOf(d, repo, filter))

\* ORDER BY issue_priority DESC, issue_timestamp DESC.
SearchIssuePaginated(d, repo, filter, pageNum, pageSize) ==
    Page(SortSeq(IssuesOf(d, repo, filter),
                 LAMBDA a, b : a.prio > b.prio \/ (a.prio = b.prio /\ a.at > b.at)),
         pageNum, pageSize)

\* --- labels; the new list is computed from the list read ---

WithIssueLabel(list, label) == IF Contains(list, label) THEN list ELSE Append(list, label)
WithoutIssueLabel(list, label) == SelectSeq(list, LAMBDA l : l # label)

InRepo(r, repo) == <<r.ns, r.name>> = repo

\* No row is sql.ErrNoRows.
NoRows == <<"noRows">>

GetRepositoryIssueLabel(d, repo) ==
    LET r == Lookup(d.repo, LAMBDA x : InRepo(x, repo)) IN IF r = Null THEN NoRows ELSE r.issuelabels

updateRepositoryIssueLabelList(d, repo, list) ==
    IF list = NoRows THEN Fail(d, "noRows")
    ELSE Ok([d EXCEPT !.repo = Update(@, LAMBDA r : InRepo(r, repo), LAMBDA r : [r EXCEPT !.issuelabels = list])])

IssueLabelsRead(d, repo, num) ==
    LET r == GetRepositoryIssue(d, repo, num) IN IF r = Null THEN NoRows ELSE r.labels

updateIssueLabelList(d, repo, num, list) ==
    IF list = NoRows THEN Fail(d, "noRows")
    ELSE Ok([d EXCEPT !.issue = Update(@, LAMBDA r : IssueIs(r, repo, num), LAMBDA r : [r EXCEPT !.labels = list])])

\* --- issue events ---

GetAllIssueEvent(d, repo, num) ==
    LET i == GetRepositoryIssue(d, repo, num)
    IN IF i = Null THEN NoRows ELSE SelectSeq(d.event, LAMBDA e : e.issue = i.id)

\* A fault: whichever way an issue is closed, it counts as solved.
ClosedIsSolved(type, status) == IF type \in {"solved", "discarded"} THEN "solved" ELSE IF type = "reopened" THEN "open" ELSE status

StatusAfter(type, status) ==
    CASE type = "solved" -> "solved"
      [] type = "discarded" -> "discarded"
      [] type = "reopened" -> "open"
      [] OTHER -> status

\* The issue is read first, outside the transaction; the status is written only
\* when it differs from the one read.
NewRepositoryIssueEvent(d, read, type, author) ==
    IF read = Null THEN Fail(d, "noRows")
    ELSE Ok([d EXCEPT
        !.event = Append(@, [id |-> NextRowid(@), issue |-> read.id, type |-> type, author |-> author]),
        !.issue = IF StatusAfter(type, read.status) = read.status THEN @
                  ELSE Update(@, LAMBDA r : r.id = read.id, LAMBDA r :
                           [r EXCEPT !.status = StatusAfter(type, read.status)])])

HardDeleteRepositoryIssueEvent(d, id) == Ok([d EXCEPT !.event = Without(@, LAMBDA e : e.id = id)])

\* --- pull requests ---

PrIs(r, repo, num) == r.repo = repo /\ r.num = num

GetPullRequest(d, repo, num) == Lookup(d.pr, LAMBDA r : PrIs(r, repo, num))

\* The empty check result is not JSON: an error until the first check.  The
\* author is not among the fields that are filled in.
GetPullRequestByAbsId(d, id) ==
    LET r == Lookup(d.pr, LAMBDA x : x.id = id)
    IN IF r = Null THEN Null ELSE IF r.check = "" THEN [err |-> "json"] ELSE [r EXCEPT !.author = ""]

InsertPullRequest(d, id, repo, author, provider) ==
    [d EXCEPT !.counter = BumpCounter(d, repo, "pr"), !.clock = @ + 1,
              !.pr = Append(@, [id |-> id, repo |-> repo, num |-> nextSequentialId(d, repo, "pr"),
                                author |-> author, provider |-> provider, check |-> "",
                                status |-> "open", at |-> d.clock])]

NewPullRequest(d, repo, author, provider) ==
    Ok(InsertPullRequest(d, NextRowid(d.pr), repo, author, provider))

DeletePullRequest(d, id) == Ok([d EXCEPT !.pr = Without(@, LAMBDA r : r.id = id)])

pullRequestStatusCond(r, filter) ==
    CASE filter = 1 -> r.status = "open"
      [] filter = 2 -> r.status # "open"
      [] filter = 3 -> r.status = "merged"
      [] filter = 4 -> r.status = "notMerged"
      [] OTHER -> TRUE

PullRequestsOf(d, repo, filter) ==
    SelectSeq(d.pr, LAMBDA r : r.repo = repo /\ pullRequestStatusCond(r, filter))

GetAllPullRequestPaginated(d, repo, pageNum, pageSize) ==
    Page(SortSeq(PullRequestsOf(d, repo, 0), LAMBDA a, b : a.num < b.num), pageNum, pageSize)

CountPullRequest(d, repo, filter) == Len(PullRequestsOf(d, repo, filter))

\* ORDER BY pull_request_timestamp DESC; a merge sets the time stamp again.
SearchPullRequestPaginated(d, repo, filter, pageNum, pageSize) ==
    Page(SortSeq(PullRequestsOf(d, repo, filter), LAMBDA a, b : a.at > b.at), pageNum, pageSize)

\* What git finds (external) is stored with the pull request.
CheckPullRequestMergeConflict(d, id, found) ==
    IF ~Has(d.pr, LAMBDA r : r.id = id) THEN Fail(d, "noRows")
    ELSE IF found = "gitError" THEN Fail(d, "git")
    ELSE Ok([d EXCEPT !.pr = Update(@, LAMBDA r : r.id = id, LAMBDA r : [r EXCEPT !.check = found])])

AddEvent(d, id, type, author) == Append(d.prevent, [pr |-> id, type |-> type, author |-> author])

GetAllPullRequestEventPaginated(d, id, pageNum, pageSize) ==
    Page(SelectSeq(d.prevent, LAMBDA e : e.pr = id), pageNum, pageSize)

CommentOnPullRequest(d, id, author) == Ok([d EXCEPT !.prevent = AddEvent(d, id, "comment", author)])

CommentOnPullRequestCode(d, id, author) == Ok([d EXCEPT !.prevent = AddEvent(d, id, "code", author)])

\* Whatever the status was.
ClosePullRequestAsNotMerged(d, id, author) ==
    Ok([d EXCEPT !.prevent = AddEvent(d, id, "notMerged", author),
                 !.pr = Update(@, LAMBDA r : r.id = id, LAMBDA r : [r EXCEPT !.status = "notMerged"])])

ReopenPullRequest(d, id, author) ==
    Ok([d EXCEPT !.prevent = AddEvent(d, id, "reopen", author),
                 !.pr = Update(@, LAMBDA r : r.id = id, LAMBDA r : [r EXCEPT !.status = "open"])])

\* --- reviews ---

ReviewIs(v, id, reviewer) == v.pr = id /\ v.reviewer = reviewer

\* ORDER BY reviewer.
GetPullRequestReviews(d, id) ==
    SortSeq(SelectSeq(d.review, LAMBDA v : v.pr = id),
            LAMBDA a, b : Place(a.reviewer) < Place(b.reviewer))

AddPullRequestReviewer(d, id, reviewer) ==
    Ok(IF Has(d.review, LAMBDA v : ReviewIs(v, id, reviewer)) THEN d
       ELSE [d EXCEPT !.review = Append(@, [pr |-> id, reviewer |-> reviewer,
                                            status |-> "pending", commit |-> ""])])

RemovePullRequestReviewer(d, id, reviewer) ==
    Ok([d EXCEPT !.review = Without(@, LAMBDA v : ReviewIs(v, id, reviewer))])

SubmitPullRequestReview(d, id, reviewer, status, commit) ==
    IF ~Has(d.review, LAMBDA v : ReviewIs(v, id, reviewer)) THEN Fail(d, "notFound")
    ELSE Ok([d EXCEPT !.review = Update(@, LAMBDA v : ReviewIs(v, id, reviewer), LAMBDA v :
                 [v EXCEPT !.status = status, !.commit = commit])])

\* The steps PullRequest.tla interleaves, here as one call: the merge check,
\* the reviews against the tip, the merge itself, then status and event.
CheckAndMergePullRequest(d, id, user, found, tip, mergeOk) ==
    LET c == CheckPullRequestMergeConflict(d, id, found)
        reviews == Rows(GetPullRequestReviews(d, id))
    IN CASE c.err # "nil" -> c
         [] found = "conflict" -> Fail(c.db, "conflict")
         [] \E v \in reviews : v.status # "approved" -> Fail(c.db, "reviewRequired")
         [] \E v \in reviews : v.commit # tip -> Fail(c.db, "reviewStale")
         [] ~Has(d.user, LAMBDA u : u.name = user) -> Fail(c.db, "noRows")
         [] ~mergeOk -> Fail(c.db, "git")
         [] OTHER -> Ok([c.db EXCEPT
                !.pr = Update(@, LAMBDA r : r.id = id, LAMBDA r :
                           [r EXCEPT !.status = "merged", !.at = d.clock]),
                !.clock = @ + 1,
                !.prevent = AddEvent(d, id, "merged", user)])

----
(* Snippets and the webhook log.  Snippet directories are <<"snippet", user, name>>
   below SnippetRoot, and a file of one has its name appended. *)

SnippetIs(r, u, n) == r.user = u /\ r.name = n
Dir(u, n) == <<"snippet", u, n>>

\* The row, then an empty directory in place of whatever was there.
InsertSnippet(d, u, n, status) ==
    Ok([d EXCEPT !.snippet = Append(@, [user |-> u, name |-> n, desc |-> "",
                                        status |-> status, shared |-> {}]),
                 !.dirs = RemoveAll(@, Dir(u, n)) \cup {Dir(u, n)}])

\* snippet_full_name is UNIQUE.
NewSnippet(d, u, n, status) ==
    IF Has(d.snippet, LAMBDA r : SnippetIs(r, u, n)) THEN Fail(d, "unique")
    ELSE InsertSnippet(d, u, n, status)

GetAllSnippet(d, u) == SelectSeq(d.snippet, LAMBDA r : r.user = u)

\* shared_user LIKE '%"viewer"%': the quotes keep the match to one JSON key.
SharedWith(r, viewer) == r.status = "sharedUser" /\ viewer \in r.shared

SnippetCond(r, viewer) ==
    \/ viewer = r.user /\ viewer # ""
    \/ r.status = "public"
    \/ viewer # "" /\ (r.status = "internal" \/ SharedWith(r, viewer))

VisibleSnippets(d, u, viewer, k) ==
    SelectSeq(d.snippet, LAMBDA r : r.user = u /\ SnippetCond(r, viewer) /\ Matches(k, r.name))

CountAllVisibleSnippet(d, u, viewer, k) == Len(VisibleSnippets(d, u, viewer, k))

\* No LIMIT.  One map is unmarshalled into for every row, so that all the
\* results share one set of users, the union.
GetAllVisibleSnippetPaginated(d, u, viewer, k, pageNum, pageSize) ==
    LET rows == VisibleSnippets(d, u, viewer, k)
    IN [i \in DOMAIN rows |-> [rows[i] EXCEPT !.shared = UNION {r.shared : r \in Rows(rows)}]]

DeleteSnippet(d, u, n) ==
    Ok([d EXCEPT !.snippet = Without(@, LAMBDA r : SnippetIs(r, u, n)), !.dirs = RemoveAll(@, Dir(u, n))])

\* Every row of that name, and all three columns of it.
SaveSnippetInfo(d, m) ==
    Ok([d EXCEPT !.snippet = Update(@, LAMBDA r : SnippetIs(r, m.user, m.name), LAMBDA r :
            [r EXCEPT !.desc = m.desc, !.status = m.status, !.shared = m.shared])])

GetSnippet(d, u, n) == Lookup(d.snippet, LAMBDA r : SnippetIs(r, u, n))

\* --- webhook log ---

\* A fault: the error of the INSERT is ignored.
RegisterNothing(d, uuid, reportUuid, repo, commit) == Ok(d)

RegisterWebhookRequest(d, uuid, reportUuid, repo, commit) ==
    IF Has(d.hook, LAMBDA r : r.uuid = uuid) THEN Fail(d, "unique")
    ELSE Ok([d EXCEPT !.hook = Append(@, [uuid |-> uuid, report |-> reportUuid, repo |-> repo,
                                          commit |-> commit, status |-> "undefined", time |-> 0])])

\* The whole JSON document, whatever is stored; no row is not an error.
UpdateWebhookResult(d, uuid, res) ==
    Ok([d EXCEPT !.hook = Update(@, LAMBDA r : r.uuid = uuid, LAMBDA r :
            [r EXCEPT !.report = res.report, !.repo = res.repo, !.status = res.status, !.time = res.time])])

GetWebhookResultByUUID(d, uuid) == Lookup(d.hook, LAMBDA r : r.uuid = uuid)
====
