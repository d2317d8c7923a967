---- MODULE TicketsAgreement ----
(***************************************************************************)
(* The three backends side by side, given the same sequence of issue and   *)
(* pull request calls on one repository; see AccountsAgreement.  Time      *)
(* stamps are taken to differ, though the code's have whole seconds.       *)
(***************************************************************************)
EXTENDS Tables

CONSTANTS Users, Writes,   \* the functions called
          MaxRows          \* bound on the rows of a kind, and on time stamps and identities

VARIABLE db                \* the database of each backend

Backends == {"sqlite", "postgres", "mysql"}
DB(Backend) == INSTANCE Database

repo == <<"acme", "repo">>

\* Pull requests and events are named by their place in the table.
Nth(t, i) == IF i \in DOMAIN t THEN t[i].id ELSE 0

Calls ==
    LET Of(S) == [f : Writes \cap S, u : Users, i : 1..MaxRows]
    IN Of({"SetIssuePriority", "AddIssueLabel", "RemoveIssueLabel", "AddRepositoryIssueLabel", "RemoveRepositoryIssueLabel",
           "HardDeleteRepositoryIssue", "HardDeleteRepositoryIssueEvent", "NewRepositoryIssue", "NewPullRequest",
           "DeletePullRequest", "CommentOnPullRequest", "CommentOnPullRequestCode", "ClosePullRequestAsNotMerged",
           "ReopenPullRequest", "AddPullRequestReviewer", "RemovePullRequestReviewer"})
       \cup [f : Writes \cap {"NewRepositoryIssueEvent"}, i : 1..MaxRows, t : {"comment", "solved", "discarded", "reopened"}]
       \cup [f : Writes \cap {"CheckAndMergePullRequest", "CheckPullRequestMergeConflict"}, i : 1..MaxRows,
             c : {"clean", "conflict"}]
       \cup [f : Writes \cap {"SubmitPullRequestReview"}, u : Users, i : 1..MaxRows, st : {"approved", "changes"}]

Answer(b, d, c) ==
    LET pr == Nth(d.pr, c.i)
    IN CASE c.f = "NewRepositoryIssue" -> DB(b)!NewRepositoryIssue(d, repo, c.u)
         [] c.f = "HardDeleteRepositoryIssue" -> DB(b)!HardDeleteRepositoryIssue(d, repo, c.i)
         [] c.f = "SetIssuePriority" -> DB(b)!SetIssuePriority(d, repo, c.i, 1)
         [] c.f = "AddRepositoryIssueLabel" -> DB(b)!AddRepositoryIssueLabel(d, repo, "bug")
         [] c.f = "RemoveRepositoryIssueLabel" -> DB(b)!RemoveRepositoryIssueLabel(d, repo, "bug")
         [] c.f = "AddIssueLabel" -> DB(b)!AddIssueLabel(d, repo, c.i, "bug")
         [] c.f = "RemoveIssueLabel" -> DB(b)!RemoveIssueLabel(d, repo, c.i, "bug")
         [] c.f = "NewRepositoryIssueEvent" ->
               DB(b)!NewRepositoryIssueEvent(d, DB(b)!GetRepositoryIssue(d, repo, c.i), c.t, "ann")
         [] c.f = "HardDeleteRepositoryIssueEvent" -> DB(b)!HardDeleteRepositoryIssueEvent(d, Nth(d.event, c.i))
         [] c.f = "NewPullRequest" -> DB(b)!NewPullRequest(d, repo, c.u, repo)
         [] c.f = "DeletePullRequest" -> DB(b)!DeletePullRequest(d, pr)
         [] c.f = "CheckPullRequestMergeConflict" -> DB(b)!CheckPullRequestMergeConflict(d, pr, c.c)
         [] c.f = "CommentOnPullRequest" -> DB(b)!CommentOnPullRequest(d, pr, c.u)
         [] c.f = "CommentOnPullRequestCode" -> DB(b)!CommentOnPullRequestCode(d, pr, c.u)
         [] c.f = "ClosePullRequestAsNotMerged" -> DB(b)!ClosePullRequestAsNotMerged(d, pr, c.u)
         [] c.f = "ReopenPullRequest" -> DB(b)!ReopenPullRequest(d, pr, c.u)
         [] c.f = "AddPullRequestReviewer" -> DB(b)!AddPullRequestReviewer(d, pr, c.u)
         [] c.f = "RemovePullRequestReviewer" -> DB(b)!RemovePullRequestReviewer(d, pr, c.u)
         [] c.f = "SubmitPullRequestReview" -> DB(b)!SubmitPullRequestReview(d, pr, c.u, c.st, "tip")
         [] c.f = "CheckAndMergePullRequest" -> DB(b)!CheckAndMergePullRequest(d, pr, "ann", c.c, "tip", TRUE)

Account(n) == [name |-> n, email |-> n, pw |-> n, status |-> "normal", tfa |-> "off", info |-> n]
Init == db = [b \in Backends |->
    [EmptyDb EXCEPT !.user = SetToSeq({Account(n) : n \in Users}),
                    !.repo = <<[id |-> 1, ns |-> "acme", name |-> "repo", owner |-> "ann", status |-> "public",
                                acl |-> [m \in {} |-> {}], labels |-> <<>>, issuelabels |-> <<>>, origin |-> <<>>]>>]]

Small(d) ==
    /\ d.clock <= MaxRows /\ d.seq <= MaxRows + 1
    /\ \A t \in {d.event, d.prevent, d.review} : Len(t) <= MaxRows

Next ==
    \E c \in Calls :
        LET a == [b \in Backends |-> Answer(b, db[b], c)]
        IN /\ Cardinality({a[b].err = "nil" : b \in Backends}) = 1
           /\ \A b \in Backends : Small(a[b].db)
           /\ db' = [b \in Backends |-> a[b].db]

Spec == Init /\ [][Next]_db

\* What the read functions show, without row ids; GetRepositoryIssue leaves the
\* number out in PostgreSQL and MySQL.
NoId(t) == [i \in DOMAIN t |-> [t[i] EXCEPT !.id = 0]]
Events(t) == [i \in DOMAIN t |-> <<t[i].type, t[i].author>>]
View(b, d) ==
    [issues |-> <<NoId(DB(b)!GetAllRepositoryIssue(d, repo)), DB(b)!CountAllRepositoryIssue(d, repo),
                  DB(b)!GetRepositoryIssueLabel(d, repo)>>,
     issue |-> [i \in 1..MaxRows |-> LET r == DB(b)!GetRepositoryIssue(d, repo, i)
                                     IN IF r = Null THEN <<>> ELSE <<r.author, r.status, r.prio, r.labels,
                                                                     Events(DB(b)!GetAllIssueEvent(d, repo, i))>>],
     listed |-> [f \in 0..4 |-> <<NoId(DB(b)!SearchIssuePaginated(d, repo, f, 0, MaxRows)), DB(b)!CountIssue(d, repo, f),
                                  NoId(DB(b)!SearchPullRequestPaginated(d, repo, f, 0, MaxRows)), DB(b)!CountPullRequest(d, repo, f)>>],
     prs |-> NoId(DB(b)!GetAllPullRequestPaginated(d, repo, 0, MaxRows)),
     pr |-> [i \in 1..MaxRows |-> LET r == DB(b)!GetPullRequest(d, repo, i)
                                  IN IF r = Null THEN <<>>
                                     ELSE <<r.author, r.status, r.check, DB(b)!GetPullRequestByAbsId(d, r.id) = Null,
                                            Events(DB(b)!GetAllPullRequestEventPaginated(d, r.id, 0, MaxRows)),
                                            LET v == DB(b)!GetPullRequestReviews(d, r.id)
                                            IN [k \in DOMAIN v |-> <<v[k].reviewer, v[k].status, v[k].commit>>]>>]]

\* The issues, pull requests, events and reviews a repository shows, in the
\* order and with the counts it shows them, do not depend on the backend, as
\* long as every write so far was answered alike.
BackendsAgree == \A b \in Backends : View(b, db[b]) = View("sqlite", db["sqlite"])

\* The number of an issue or a pull request (install.go: id_counter) is never
\* handed out again, not even when the one that had it was deleted: the next
\* number is above every number ever shown.
FreshNumbers ==
    \A b \in Backends : \A t \in {"issue", "pr"} :
       \A i \in DOMAIN db'[b][t] :
          (\A j \in DOMAIN db[b][t] : db[b][t][j].id # db'[b][t][i].id)
              => \A c \in Rows(db[b].counter) : c.kind = t => db'[b][t][i].num > c.next
NumbersAreFresh == [][FreshNumbers]_db
====
