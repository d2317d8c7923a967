---- MODULE MCBackends ----
(***************************************************************************)
(* The three backends compared on each part of the database interface.     *)
(* The parts are checked side by side: the initial state chooses one, and  *)
(* the calls that follow belong to it.                                     *)
(***************************************************************************)
EXTENDS TLC

VARIABLES part, db

Names == {"ann", "bob", "acme", "repo", "fork"}
Itself == {<<n, n>> : n \in Names}   \* a search pattern finds the name it spells
Order == <<"fork", "repo", "acme">>

IssueWrites == {"NewRepositoryIssue", "HardDeleteRepositoryIssue", "SetIssuePriority", "AddRepositoryIssueLabel",
                "RemoveRepositoryIssueLabel", "AddIssueLabel", "RemoveIssueLabel", "NewRepositoryIssueEvent",
                "HardDeleteRepositoryIssueEvent"}
PullRequestWrites == {"NewPullRequest", "DeletePullRequest", "CheckPullRequestMergeConflict", "CommentOnPullRequest",
                      "CommentOnPullRequestCode", "ClosePullRequestAsNotMerged", "ReopenPullRequest",
                      "AddPullRequestReviewer", "RemovePullRequestReviewer", "SubmitPullRequestReview",
                      "CheckAndMergePullRequest"}

Accounts == INSTANCE AccountsAgreement WITH
    Users <- {"ann", "bob"}, Emails <- {"mail"}, Statuses <- {"normal", "approval"}, MaxRows <- 3,
    Like <- Itself, Collation <- Order
Forge == INSTANCE ForgeAgreement WITH
    Users <- {"ann", "bob"}, Namespaces <- {"acme"}, Repos <- {"repo"}, Statuses <- {"private"}, Labels <- {"lbl"},
    MaxRows <- 3, Like <- Itself, Collation <- Order
Issues == INSTANCE TicketsAgreement WITH
    Users <- {"ann"}, Writes <- IssueWrites, MaxRows <- 2, Like <- Itself, Collation <- Order
PullRequests == INSTANCE TicketsAgreement WITH
    Users <- {"ann"}, Writes <- PullRequestWrites, MaxRows <- 2, Like <- Itself, Collation <- Order

Init ==
    \/ part = "accounts" /\ Accounts!Init
    \/ part = "forge" /\ Forge!Init
    \/ part \in {"issues", "pull requests"} /\ Issues!Init

Next ==
    /\ \/ part = "accounts" /\ Accounts!Next
       \/ part = "forge" /\ Forge!Next
       \/ part = "issues" /\ Issues!Next
       \/ part = "pull requests" /\ PullRequests!Next
    /\ UNCHANGED part

vars == <<part, db>>
Spec == Init /\ [][Next]_vars

\* What the web front end reads through GitusDatabaseInterface does not depend
\* on the backend that is configured, as long as every write so far was
\* answered alike: accounts, keys, addresses and registration requests;
\* namespaces, repositories and what each viewer is listed; issues, pull
\* requests, their events, labels and reviews.  And in each backend the listings
\* agree with what there is: every registration request is on exactly one of the
\* pages that CountRegistrationRequest allows for, whatever was approved and
\* disapproved before; and the browse, label and profile queries have one idea of
\* what a viewer may see: what one of them shows the browse page shows, and being
\* logged in hides nothing.
BackendsAgree ==
    /\ part = "accounts" => Accounts!BackendsAgree /\ Accounts!RequestPagesComplete
    /\ part = "forge" => Forge!BackendsAgree /\ Forge!OneVisibility
    /\ part = "issues" => Issues!BackendsAgree
    /\ part = "pull requests" => PullRequests!BackendsAgree

\* nextSequentialId never hands out the number of an issue or a pull request
\* again, not even when the one that had it was deleted.
NumbersAreFresh == [][(part \in {"issues", "pull requests"} => Issues!FreshNumbers)]_vars
====
