---- MODULE PullRequest ----
(***************************************************************************)
(* Pull requests: the handlers of routes/controller/repo-pull-request.go   *)
(* over the tables of pkg/gitus/db/sqlite/query.go, and the merges they    *)
(* start (GitMerge).  A statement or transaction on the database is one    *)
(* step; what a handler read in an earlier statement it keeps in `req',    *)
(* `rev' or `pending'.                                                     *)
(*                                                                         *)
(* There is always some maintainer who may manage reviewers, so who asks   *)
(* for a reviewer to be added or removed is left out, as are the comments. *)
(***************************************************************************)
EXTENDS GitMerge

CONSTANTS Reviewers,   \* the users who may be asked for a review; not the author
          MaxPending,  \* bound: reviewer assignments being served at a time
          MaxLanded    \* bound: no further request for a pull request starts once it landed so often

VARIABLES status,   \* pull_request_status, "none" before the insertion
          check,    \* merge_conflict_check_result
          reviews,  \* the review table: reviewer -> row
          merges,   \* how many "closed as merged" events there are
          req,      \* the merge or merge-check request each worker serves
          rev,      \* the page each reviewer has open, or their review request
          pending,  \* add- and remove-reviewer requests past their checks
          landed,   \* how many times the branch was moved for each request
          touched   \* what changed under a merge request since it began

prvars == <<status, check, reviews, merges, req, rev, pending, landed, touched>>
vars == <<gitvars, prvars>>

Pending == [status |-> "pending", commit |-> None]
NoRows == [u \in {} |-> Pending]
NoRequest == [pc |-> "idle", pr |-> NoPR, method |-> "check", clean |-> FALSE, rows |-> NoRows]
NoReview == [pc |-> "idle", pr |-> NoPR, verdict |-> "pending", seen |-> None, tip |-> None]

PRInit ==
  /\ Init
  /\ status = [p \in PullRequests |-> "none"]
  /\ check = [p \in PullRequests |-> "never"]
  /\ reviews = [p \in PullRequests |-> NoRows]
  /\ merges = [p \in PullRequests |-> 0]
  /\ req = [w \in Workers |-> NoRequest]
  /\ rev = [u \in Reviewers |-> NoReview]
  /\ pending = {}
  /\ landed = [p \in PullRequests |-> 0]
  /\ touched = [w \in Workers |-> {}]

(* Bookkeeping of `touched' *)
Touch(p, what) ==
  touched' = [w \in Workers |-> IF req[w].pr = p THEN touched[w] \cup {what} ELSE touched[w]]

----
(* NewPullRequest *)
New(p) ==
  /\ status[p] = "none"
  /\ status' = [status EXCEPT ![p] = "open"]
  /\ UNCHANGED <<gitvars, check, reviews, merges, req, rev, pending, landed, touched>>

(* ClosePullRequestAsNotMerged and ReopenPullRequest look at no status. *)
SetStatus(p, s) ==
  /\ status[p] # "none"
  /\ status' = [status EXCEPT ![p] = s]
  /\ UNCHANGED <<gitvars, check, reviews, merges, req, rev, pending, landed, touched>>

CloseAsNotMerged(p) == SetStatus(p, "closed")
Reopen(p) == SetStatus(p, "open")

----
(* merge-check and close-as-merged *)

Step(w, pc) == req' = [req EXCEPT ![w].pc = pc]

End(w) == req' = [req EXCEPT ![w] = NoRequest] /\ touched' = [touched EXCEPT ![w] = {}]

StartRequest(w, p, m) ==
  /\ req[w].pc = "idle" /\ status[p] # "none"
  /\ landed[p] < MaxLanded
  /\ req' = [req EXCEPT ![w] = [NoRequest EXCEPT !.pc = "fetch", !.pr = p, !.method = m]]
  /\ UNCHANGED <<gitvars, status, check, reviews, merges, rev, pending, landed, touched>>

(* CheckBranchMergeConflict: the fetch ... *)
CheckFetch(w) ==
  /\ req[w].pc = "fetch"
  /\ FetchBranch(req[w].pr)
  /\ moved' = TrackingMoved(req[w].pr)
  /\ Step(w, "mergeTree")
  /\ UNCHANGED <<objs, head, provider, job>>
  /\ UNCHANGED <<status, check, reviews, merges, rev, pending, landed, touched>>

(* ... and the merge-tree, of which any failure is a conflict *)
CheckMergeTree(w) ==
  /\ req[w].pc = "mergeTree"
  /\ \E clean \in {~Conflict(head, tracking[req[w].pr]), FALSE} :
       req' = [req EXCEPT ![w].pc = "store", ![w].clean = clean]
  /\ UNCHANGED <<gitvars, status, check, reviews, merges, rev, pending, landed, touched>>

(* The end of CheckPullRequestMergeConflict, and what its callers do next. *)
StoreCheck(w) ==
  /\ req[w].pc = "store"
  /\ check' = [check EXCEPT ![req[w].pr] = IF req[w].clean THEN "clean" ELSE "conflict"]
  /\ \/ req[w].method = "check" /\ End(w)
     \/ /\ req[w].method # "check"
        /\ Step(w, IF req[w].clean THEN "reviews" ELSE "failed")
        /\ UNCHANGED touched
  /\ UNCHANGED <<gitvars, status, reviews, merges, rev, pending, landed>>

(* CheckAndMergePullRequest: GetPullRequestReviews.  Without reviewers there is
   no gate. *)
ReadReviews(w) ==
  /\ req[w].pc = "reviews"
  /\ \/ /\ DOMAIN reviews[req[w].pr] = {}
        /\ Call(w, req[w].pr, req[w].method)
        /\ Step(w, "merging")
     \/ /\ DOMAIN reviews[req[w].pr] # {}
        /\ req' = [req EXCEPT ![w].pc = "gate", ![w].rows = reviews[req[w].pr]]
        /\ UNCHANGED gitvars
  /\ UNCHANGED <<status, check, reviews, merges, rev, pending, landed, touched>>

(* Faulty variant: any approval counts, of whichever commit. *)
ApprovedOnce(rows, tip) == \A u \in DOMAIN rows : rows[u].status = "approved"

Approved(rows, tip) ==
  \A u \in DOMAIN rows : rows[u].status = "approved" /\ rows[u].commit = tip

(* ... ResolveRemoteBranchTip and the loop over the reviews *)
Gate(w) ==
  /\ req[w].pc = "gate"
  /\ \/ /\ Approved(req[w].rows, tracking[req[w].pr])
        /\ Call(w, req[w].pr, req[w].method)
        /\ req' = [req EXCEPT ![w].pc = "merging", ![w].rows = NoRows]
     \/ /\ ~Approved(req[w].rows, tracking[req[w].pr])
        /\ req' = [req EXCEPT ![w].pc = "failed", ![w].rows = NoRows]
        /\ UNCHANGED gitvars
  /\ UNCHANGED <<status, check, reviews, merges, rev, pending, landed, touched>>

(* The call to Merge; its error is the request's. *)
Merging(w) ==
  /\ MergeStep(w)
  /\ req' = IF job'[w].pc = "idle" THEN [req EXCEPT ![w].pc = "failed"] ELSE req
  /\ landed' = IF job'[w].pc = "merged" THEN [landed EXCEPT ![job[w].pr] = @ + 1] ELSE landed
  /\ UNCHANGED <<status, check, reviews, merges, rev, pending, touched>>

(* Faulty variant: the outcome is recorded before the branch is moved. *)
ReadyEarly(w) == job[w].pc \in {"updateRef", "merged"}

ReadyToRecord(w) == job[w].pc = "merged"

(* The last transaction of CheckAndMergePullRequest ... *)
Record(w) ==
  /\ req[w].pc = "merging" /\ ReadyToRecord(w)
  /\ status' = [status EXCEPT ![req[w].pr] = "merged"]
  /\ merges' = [merges EXCEPT ![req[w].pr] = @ + 1]
  /\ End(w) /\ Leave(w)
  /\ UNCHANGED <<objs, head, provider, tracking>>
  /\ UNCHANGED <<check, reviews, rev, pending, landed>>

(* ... which may fail like any other; the user is told that the merge did. *)
RecordFails(w) ==
  /\ req[w].pc = "merging" /\ ReadyToRecord(w)
  /\ Step(w, "failed")
  /\ UNCHANGED <<gitvars, status, check, reviews, merges, rev, pending, landed, touched>>

(* The end of a failed request, or of the server with the request half done *)
Drop(w) ==
  /\ req[w].pc # "idle"
  /\ End(w) /\ Leave(w)
  /\ UNCHANGED <<objs, head, provider, tracking>>
  /\ UNCHANGED <<status, check, reviews, merges, rev, pending, landed>>

----
(* Reviews *)

(* The page with the review form, and the tip of the provider branch on it. *)
OpenPage(u, p) ==
  /\ rev[u].pc \in {"idle", "page"}
  /\ status[p] = "open" /\ u \in DOMAIN reviews[p]
  /\ rev' = [rev EXCEPT ![u] = [NoReview EXCEPT !.pc = "page", !.pr = p, !.seen = provider[p]]]
  /\ UNCHANGED <<gitvars, status, check, reviews, merges, req, pending, landed, touched>>

(* review-approve, review-request-changes: the status is read ... *)
SendReview(u, verdict) ==
  /\ rev[u].pc = "page"
  /\ status[rev[u].pr] = "open"
  /\ rev' = [rev EXCEPT ![u].pc = "assigned", ![u].verdict = verdict]
  /\ UNCHANGED <<gitvars, status, check, reviews, merges, req, pending, landed, touched>>

(* ... then pullRequestReviewerAssigned ... *)
CheckAssigned(u) ==
  /\ rev[u].pc = "assigned"
  /\ rev' = IF u \in DOMAIN reviews[rev[u].pr] THEN [rev EXCEPT ![u].pc = "tip"]
                                              ELSE [rev EXCEPT ![u] = NoReview]
  /\ UNCHANGED <<gitvars, status, check, reviews, merges, req, pending, landed, touched>>

(* ... then pullRequestProviderTip ... *)
ReadTipForReview(u) ==
  /\ rev[u].pc = "tip"
  /\ rev' = [rev EXCEPT ![u].pc = "submit", ![u].tip = provider[rev[u].pr]]
  /\ UNCHANGED <<gitvars, status, check, reviews, merges, req, pending, landed, touched>>

(* ... and SubmitPullRequestReview updates the row, if there still is one. *)
SubmitReview(u) ==
  LET p == rev[u].pr
      row == [status |-> rev[u].verdict, commit |-> rev[u].tip]
  IN  /\ rev[u].pc = "submit"
      /\ \/ u \in DOMAIN reviews[p] /\ reviews' = [reviews EXCEPT ![p][u] = row] /\ Touch(p, "reviews")
         \/ u \notin DOMAIN reviews[p] /\ UNCHANGED <<reviews, touched>>
      /\ rev' = [rev EXCEPT ![u] = NoReview]
      /\ UNCHANGED <<gitvars, status, check, merges, req, pending, landed>>

(* add-reviewer, remove-reviewer: the checks ... *)
SendAssignment(op, u, p) ==
  /\ status[p] = "open"
  /\ Cardinality(pending) < MaxPending
  /\ pending' = pending \cup {[op |-> op, user |-> u, pr |-> p]}
  /\ UNCHANGED <<gitvars, status, check, reviews, merges, req, rev, landed, touched>>

(* Faulty variant: assigning a reviewer again resets the review. *)
InsertOrReplace(rows, u) == [x \in DOMAIN rows \cup {u} |-> IF x = u THEN Pending ELSE rows[x]]

(* INSERT OR IGNORE *)
InsertOrIgnore(rows, u) == [x \in DOMAIN rows \cup {u} |-> IF x \in DOMAIN rows THEN rows[x] ELSE Pending]

DeleteRow(rows, u) == [x \in DOMAIN rows \ {u} |-> rows[x]]

(* ... and AddPullRequestReviewer, RemovePullRequestReviewer *)
Assign(a) ==
  /\ a \in pending
  /\ pending' = pending \ {a}
  /\ reviews' = [reviews EXCEPT ![a.pr] = IF a.op = "add" THEN InsertOrIgnore(@, a.user)
                                                         ELSE DeleteRow(@, a.user)]
  /\ Touch(a.pr, "reviews")
  /\ UNCHANGED <<gitvars, status, check, merges, req, rev, landed>>

----
PushToProvider(p) ==
  /\ PushProvider(p) \/ SyncFork(p)
  /\ Touch(p, "provider")
  /\ UNCHANGED <<status, check, reviews, merges, req, rev, pending, landed>>

RequestStep(w) ==
  \/ CheckFetch(w) \/ CheckMergeTree(w) \/ StoreCheck(w) \/ ReadReviews(w) \/ Gate(w)
  \/ Merging(w) \/ Record(w)

PRNext ==
  \/ \E p \in PullRequests :
       \/ New(p) \/ CloseAsNotMerged(p) \/ Reopen(p)
       \/ \E w \in Workers, m \in MergeMethods \cup {"check"} : StartRequest(w, p, m)
       \/ \E u \in Reviewers : OpenPage(u, p)
       \/ \E u \in Reviewers, op \in {"add", "remove"} : SendAssignment(op, u, p)
       \/ PushToProvider(p)
       \/ Refresh(p) /\ UNCHANGED prvars
  \/ PushReceiver /\ UNCHANGED prvars
  \/ \E w \in Workers : RequestStep(w) \/ RecordFails(w) \/ Drop(w)
  \/ \E u \in Reviewers : \/ \E v \in {"approved", "changes"} : SendReview(u, v)
                          \/ CheckAssigned(u) \/ ReadTipForReview(u) \/ SubmitReview(u)
  \/ \E a \in pending : Assign(a)

PRSpec == PRInit /\ [][PRNext]_vars

----
(* Properties *)

Rows == {"pending", "approved", "changes"}
ReviewRow == [status : Rows, commit : DOMAIN objs \cup {None}]
ReviewTable == UNION {[S -> ReviewRow] : S \in SUBSET Reviewers}
Request == [pc : {"idle", "fetch", "mergeTree", "store", "reviews", "gate", "merging", "failed"},
            pr : PullRequests \cup {NoPR}, method : MergeMethods \cup {"check"},
            clean : BOOLEAN, rows : ReviewTable]
Review == [pc : {"idle", "page", "assigned", "tip", "submit"}, pr : PullRequests \cup {NoPR},
           verdict : Rows, seen : DOMAIN objs \cup {None}, tip : DOMAIN objs \cup {None}]

(* The tables and the requests in progress have their types, and a worker is
   inside Merge exactly while its request is. *)
PRTypeOK ==
  /\ TypeOK
  /\ status \in [PullRequests -> {"none", "open", "closed", "merged"}]
  /\ check \in [PullRequests -> {"never", "clean", "conflict"}]
  /\ reviews \in [PullRequests -> ReviewTable]
  /\ merges \in [PullRequests -> Nat]
  /\ landed \in [PullRequests -> Nat]
  /\ req \in [Workers -> Request]
  /\ rev \in [Reviewers -> Review]
  /\ pending \subseteq [op : {"add", "remove"}, user : Reviewers, pr : PullRequests]
  /\ touched \in [Workers -> SUBSET {"provider", "reviews"}]
  /\ \A w \in Workers :
       /\ req[w].pc # "idle" => req[w].pr \in PullRequests
       /\ job[w].pc # "idle" => req[w].pc \in {"merging", "failed"} /\ job[w].pr = req[w].pr
       /\ req[w].pc = "merging" => job[w].pc # "idle"
  /\ \A u \in Reviewers : rev[u].pc # "idle" => rev[u].pr \in PullRequests

(* A pull request says it was merged only if it was: a "merged" status goes
   back to an event, and every such event to a move of the receiver branch of
   its own, whatever crashes, concurrent merges, closes and reopens happen
   between the update-ref and the last transaction. *)
MergedWasDelivered ==
  \A p \in PullRequests : /\ merges[p] <= landed[p]
                          /\ status[p] = "merged" => merges[p] > 0

AllApprove(rows, c) == \A u \in DOMAIN rows : rows[u] = [status |-> "approved", commit |-> c]

(* The gate holds until the branch is moved.  Reviews nobody touched since the
   merge was requested approve one commit, all of them: an objection, a
   pending reviewer or a reviewer assigned before the request cannot be
   passed over.  If the provider branch was not pushed to either, that commit
   is the one being merged. *)
GateHolds ==
  \A w \in Workers :
    job[w].pc = "updateRef" =>
      LET p == job[w].pr
      IN  /\ "reviews" \notin touched[w] => \E c \in DOMAIN objs : AllApprove(reviews[p], c)
          /\ touched[w] = {} => AllApprove(reviews[p], tracking[p]) /\ tracking[p] = provider[p]

(* Nobody but the reviewer changes a review: assigning a reviewer who already
   is one, at whatever moment, leaves the verdict alone. *)
ReviewsAreTheirs ==
  [][\A p \in PullRequests : \A u \in DOMAIN reviews[p] \cap DOMAIN reviews'[p] :
       reviews'[p][u] # reviews[p][u] => rev[u].pc = "submit" /\ rev'[u].pc = "idle"]_vars

(* docs/pull-request.org: "every reviewer must have approved the exact provider
   commit that is about to be merged". *)
ApprovedExactCommit ==
  \A w \in Workers :
    job[w].pc = "updateRef" /\ "reviews" \notin touched[w] =>
      AllApprove(reviews[job[w].pr], tracking[job[w].pr])

(* pkg/gitus/db/dbif.go, of SubmitPullRequestReview: "reviewedCommit is the
   provider branch tip the reviewer looked at".  What the handler is about to
   store is the tip at the time of the request. *)
ReviewedWhatWasSeen == \A u \in Reviewers : rev[u].pc = "submit" => rev[u].tip = rev[u].seen

(* pkg/gitus/db/dbif.go, of CheckAndMergePullRequest: "the branch is left
   untouched if the merge cannot be performed". *)
UntouchedWhenFailed == \A w \in Workers : req[w].pc = "failed" => job[w].pc # "merged"
====
