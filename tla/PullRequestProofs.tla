---- MODULE PullRequestProofs ----
(***************************************************************************)
(* What PullRequest.tla checks on a small instance, for any number of pull *)
(* requests, workers, reviewers and commits: what a step of a handler does *)
(* to the repositories, that the tables and the requests in progress keep  *)
(* their types, and what the requests rely on (PRInv).                     *)
(***************************************************************************)
EXTENDS PullRequest, GitMergeProofs, FiniteSetTheorems

(* The refs a step of git may change, and how. *)
Refs == /\ DOMAIN objs \subseteq DOMAIN objs'
        /\ \A p \in PullRequests : tracking'[p] \in {tracking[p], provider[p]}

(* A command of Merge concerns its own worker, keeps the pull request it is for,
   and changes no provider branch. *)
LEMMA StepShape ==
  ASSUME TypeOK, NEW w \in Workers, MergeStep(w)
  PROVE  /\ job[w].pc \notin {"idle", "merged"}
         /\ \A v \in Workers \ {w} : job'[v] = job[v]
         /\ job'[w].pc = "idle" => job'[w] = Idle /\ moved'[w] = {}
         /\ job'[w].pc # "idle" => job'[w].pr = job[w].pr
         /\ \A v \in Workers : job[v].pc = "idle" => moved'[v] = moved[v]
         /\ UNCHANGED provider
         /\ Refs
<1> DEFINE Others == \A v \in Workers \ {w} : job'[v] = job[v]
           Still == \A v \in Workers : job[v].pc = "idle" => moved'[v] = moved[v]
           Own == /\ job'[w].pc = "idle" => job'[w] = Idle /\ moved'[w] = {}
                  /\ job'[w].pc # "idle" => job'[w].pr = job[w].pr
<1>1. job \in [Workers -> JobOver(DOMAIN objs)] /\ moved \in [Workers -> SUBSET {"head", "tracking"}]
  BY DEF TypeOK
<1>2. job[w].pr \in PullRequests /\ job[w].pc \notin {"idle", "merged"} /\ UNCHANGED provider
  BY Zenon DEF TypeOK, MergeStep, Fetch, WriteTree, CommitTree, IsAncestor, RevParse, RevList, ReadTip, Pick, Replay, UpdateRef
<1>3. ASSUME Leave(w) PROVE Others /\ Still /\ Own
  BY <1>1, <1>2, <1>3 DEF Leave, Idle
<1>4. ASSUME NEW j, job' = [job EXCEPT ![w] = j], j.pc # "idle", j.pr = job[w].pr PROVE Others /\ Own
  BY <1>1, <1>4
<1>5. ASSUME UNCHANGED objs PROVE DOMAIN objs \subseteq DOMAIN objs'
  BY <1>5
<1>6. ASSUME UNCHANGED tracking PROVE \A p \in PullRequests : tracking'[p] \in {tracking[p], provider[p]}
  BY <1>6
<1>7. CASE Fetch(w)
  <2>1. job' = [job EXCEPT ![w] = [job[w] EXCEPT !.pc = IF job[w].method = "rebase" THEN "isAncestor" ELSE "writeTree"]]
    BY <1>1, <1>7 DEF Fetch, Goto
  <2>2. Others /\ Own
    BY <1>1, <2>1, <1>4 DEF JobOver
  <2>3. Still
    BY <1>1, <1>7 DEF Fetch, TrackingMoved, Reading
  <2>4. \A p \in PullRequests : tracking'[p] \in {tracking[p], provider[p]}
    BY <1>7 DEF Fetch, FetchBranch, TypeOK
  <2> QED
    BY <1>2, <1>5, <1>7, <2>2, <2>3, <2>4 DEF Fetch, Refs
<1>8. CASE WriteTree(w)
  <2>1. CASE Leave(w)
    BY <1>2, <1>3, <1>5, <1>6, <1>8, <2>1 DEF WriteTree, Refs
  <2>2. CASE job' = [job EXCEPT ![w].pc = "commitTree", ![w].tree = MergeTree(head, tracking[job[w].pr])] /\ UNCHANGED moved
    <3>1. Others /\ Own
      BY <1>1, <2>2 DEF JobOver
    <3> QED
      BY <1>2, <1>5, <1>6, <1>8, <2>2, <3>1, Zenon DEF WriteTree, Refs
  <2> QED
    BY <1>8, <2>1, <2>2 DEF WriteTree
<1>9. CASE CommitTree(w)
  <2>1. CASE Leave(w) /\ UNCHANGED objs
    BY <1>2, <1>3, <1>5, <1>6, <1>9, <2>1, Zenon DEF CommitTree, Refs
  <2>2. ASSUME NEW c \in 1..MaxCommits, Fresh(c), Write(c, job[w].tree, Parents(w)[1], Parents(w)[2]), UNCHANGED moved,
               job' = [job EXCEPT ![w].pc = "updateRef", ![w].tip = c, ![w].tree = {}]
        PROVE  Others /\ Own /\ Still /\ Refs
    <3>1. Others /\ Own
      BY <1>1, <2>2 DEF JobOver
    <3>2. DOMAIN objs \subseteq DOMAIN objs'
      BY <2>2 DEF Write
    <3> QED
      BY <1>6, <1>9, <2>2, <3>1, <3>2, Zenon DEF CommitTree, Refs
  <2> QED
    BY <1>2, <1>9, <2>1, <2>2, Zenon DEF CommitTree
<1>10. CASE IsAncestor(w)
  <2>1. Others /\ Own
    BY <1>1, <1>10 DEF JobOver, IsAncestor, Goto
  <2> QED
    BY <1>2, <1>5, <1>6, <1>10, <2>1 DEF IsAncestor, Refs
<1>11. CASE RevParse(w)
  <2>1. Others /\ Own
    BY <1>1, <1>11 DEF JobOver, RevParse
  <2> QED
    BY <1>2, <1>5, <1>6, <1>11, <2>1, Zenon DEF RevParse, Refs
<1>12. CASE RevList(w)
  <2>1. Others /\ Own
    BY <1>1, <1>12 DEF JobOver, RevList, Continue
  <2> QED
    BY <1>2, <1>5, <1>6, <1>12, <2>1, Zenon DEF RevList, Refs
<1>13. CASE ReadTip(w)
  <2>1. Others /\ Own
    BY <1>1, <1>13 DEF JobOver, ReadTip
  <2> QED
    BY <1>2, <1>5, <1>6, <1>13, <2>1, Zenon DEF ReadTip, Refs
<1>14. CASE Pick(w)
  <2>1. CASE Leave(w)
    BY <1>2, <1>3, <1>5, <1>6, <1>14, <2>1 DEF Pick, Refs
  <2>2. ASSUME NEW c \in job[w].todo, UNCHANGED moved,
               job' = [job EXCEPT ![w].pc = Continue(TodoAfter(w, c)), ![w].todo = TodoAfter(w, c), ![w].tipTree = {}]
        PROVE  Others /\ Own /\ Still
    BY <1>1, <2>2, Zenon DEF JobOver, Continue
  <2>3. ASSUME NEW t, UNCHANGED moved,
               job' = [job EXCEPT ![w].pc = "replay", ![w].tree = t, ![w].tipTree = {}]
        PROVE  Others /\ Own /\ Still
    BY <1>1, <2>3 DEF JobOver
  <2>4. Others /\ Own /\ Still
    BY <1>3, <1>14, <2>2, <2>3, Zenon DEF Pick
  <2> QED
    BY <1>2, <1>5, <1>6, <1>14, <2>4 DEF Pick, Refs
<1>15. CASE Replay(w)
  <2>1. CASE Leave(w) /\ UNCHANGED objs
    BY <1>2, <1>3, <1>5, <1>6, <1>15, <2>1, Zenon DEF Replay, Refs
  <2>2. ASSUME NEW c \in 1..MaxCommits, NEW d, Write(c, job[w].tree, Tip(w), None), UNCHANGED moved,
               job' = [job EXCEPT ![w].pc = Continue(job[w].todo \ {d}), ![w].tip = c,
                                  ![w].todo = @ \ {d}, ![w].tree = {}]
        PROVE  Others /\ Own /\ Still /\ DOMAIN objs \subseteq DOMAIN objs'
    BY <1>1, <2>2, Zenon DEF JobOver, Continue, Write
  <2>3. CASE ~(Leave(w) /\ UNCHANGED objs)
    BY <1>2, <1>6, <1>15, <2>2, <2>3, Zenon DEF Replay, Refs
  <2> QED
    BY <2>1, <2>3
<1>16. CASE UpdateRef(w)
  <2>1. Others /\ Own
    BY <1>1, <1>16 DEF JobOver, UpdateRef, Goto
  <2>2. Still
    BY <1>1, <1>2, <1>16 DEF UpdateRef, HeadMoved, Reading
  <2> QED
    BY <1>2, <1>5, <1>6, <1>16, <2>1, <2>2 DEF UpdateRef, Refs
<1> QED
  BY <1>7, <1>8, <1>9, <1>10, <1>11, <1>12, <1>13, <1>14, <1>15, <1>16 DEF MergeStep

----
(* The inductive invariant *)

(* What a request for worker w relies on while it is served: the provider branch
   has been fetched and, unless it was pushed to since, what was fetched is what
   it is; the rows the gate will judge, or has let pass, are still those of the
   table unless a review changed since. *)
Kept(w) ==
  LET p == req[w].pr
  IN  /\ req[w].pc \in {"mergeTree", "store", "reviews", "gate", "merging"} =>
           /\ tracking[p] # None
           /\ "provider" \notin touched[w] => tracking[p] = provider[p]
      /\ req[w].pc = "gate" /\ "reviews" \notin touched[w] => req[w].rows = reviews[p]
      /\ req[w].pc = "merging" /\ "reviews" \notin touched[w] =>
           /\ \E c \in DOMAIN objs : AllApprove(reviews[p], c)
           /\ "provider" \notin touched[w] => AllApprove(reviews[p], tracking[p])

(* The request and the call to Merge of a worker fit each other. *)
Fits(w) ==
  /\ req[w].pc # "idle" => req[w].pr \in PullRequests
  /\ job[w].pc # "idle" => req[w].pc \in {"merging", "failed"} /\ job[w].pr = req[w].pr
  /\ req[w].pc = "merging" => job[w].pc # "idle"
  /\ job[w].pc = "idle" => job[w] = Idle /\ moved[w] = {}
  /\ req[w].pc = "failed" => job[w].pc \in {"idle", "merged"}

Served == \A w \in Workers : Fits(w) /\ Kept(w)

PRInv == PRTypeOK /\ Served

(* As the store grows, rows, requests and reviews keep their types. *)
LEMMA WiderRows ==
  ASSUME DOMAIN objs \subseteq DOMAIN objs', NEW f \in ReviewTable
  PROVE  f \in ReviewTable'
<1>1. PICK S \in SUBSET Reviewers : f \in [S -> ReviewRow]
  BY DEF ReviewTable
<1>2. ReviewRow \subseteq ReviewRow'
  BY DEF ReviewRow, Rows
<1>3. f \in [S -> ReviewRow']
  BY <1>1, <1>2
<1> QED
  BY <1>3 DEF ReviewTable

(* ... and so do the variables that hold them. *)
LEMMA Wider ==
  ASSUME DOMAIN objs \subseteq DOMAIN objs'
  PROVE  /\ [PullRequests -> ReviewTable] \subseteq [PullRequests -> ReviewTable']
         /\ [Workers -> Request] \subseteq [Workers -> Request']
         /\ [Reviewers -> Review] \subseteq [Reviewers -> Review']
<1>1. ReviewTable \subseteq ReviewTable'
  BY WiderRows
<1>2. Request \subseteq Request'
  BY <1>1 DEF Request
<1>3. Review \subseteq Review'
  BY DEF Review
<1> QED
  BY <1>1, <1>2, <1>3

(* A table of reviews is a function from some of the reviewers to rows. *)
LEMMA TableIs ==
  ASSUME NEW f
  PROVE  f \in ReviewTable <=> DOMAIN f \subseteq Reviewers /\ f \in [DOMAIN f -> ReviewRow]
BY DEF ReviewTable

(* A pull request starts without reviewers. *)
LEMMA EmptyTable == NoRows \in ReviewTable /\ DOMAIN NoRows = {}
<1>1. NoRows \in [{} -> ReviewRow] /\ DOMAIN NoRows = {}
  BY DEF NoRows
<1> QED
  BY <1>1 DEF ReviewTable

(* Whatever a handler does to the repositories is a step of git as GitMerge.tla
   has it. *)
LEMMA GitStep ==
  ASSUME PRInv, [PRNext]_vars
  PROVE  [Next]_gitvars
<1>1. ASSUME NEW w \in Workers, CheckFetch(w) PROVE Next
  <2>1. req[w].pr \in PullRequests /\ Refresh(req[w].pr)
    BY <1>1 DEF CheckFetch, Refresh, PRInv, Served, Fits
  <2> QED
    BY <2>1 DEF Next, Environment
<1>2. ASSUME NEW w \in Workers, ReadReviews(w) \/ Gate(w) PROVE [Next]_gitvars
  <2>1. CASE UNCHANGED gitvars
    BY <2>1
  <2>2. CASE Call(w, req[w].pr, req[w].method)
    <3>1. req[w].pr \in PullRequests
      BY <1>2 DEF ReadReviews, Gate, PRInv, Served, Fits
    <3>2. req[w].method \in MergeMethods
      BY <2>2 DEF Call
    <3> QED
      BY <2>2, <3>1, <3>2 DEF Next
  <2> QED
    BY <1>2, <2>1, <2>2 DEF ReadReviews, Gate
<1>3. ASSUME NEW w \in Workers, Record(w) PROVE Next
  <2>1. Return(w)
    BY <1>3 DEF Record, ReadyToRecord, Return
  <2> QED
    BY <2>1 DEF Next
<1>4. ASSUME NEW w \in Workers, Drop(w) PROVE [Next]_gitvars
  <2>1. CASE job[w].pc = "idle"
    <3>1. job[w] = Idle /\ moved[w] = {}
      BY <2>1 DEF PRInv, Served, Fits
    <3>2. job' = job /\ moved' = moved
      BY <1>4, <3>1 DEF Drop, Leave, PRInv, PRTypeOK, TypeOK
    <3> QED
      BY <1>4, <3>2 DEF Drop, gitvars
  <2>2. CASE job[w].pc # "idle"
    <3>1. Crash(w)
      BY <1>4, <2>2 DEF Drop, Crash
    <3> QED
      BY <3>1 DEF Next
  <2> QED
    BY <2>1, <2>2
<1>5. ASSUME NEW w \in Workers, RequestStep(w) \/ RecordFails(w) PROVE [Next]_gitvars
  <2>1. ASSUME Merging(w) PROVE Next
    BY <2>1 DEF Merging, Next
  <2>2. ASSUME CheckMergeTree(w) \/ StoreCheck(w) \/ RecordFails(w) PROVE UNCHANGED gitvars
    BY <2>2 DEF CheckMergeTree, StoreCheck, RecordFails
  <2> QED
    BY <1>1, <1>2, <1>3, <1>5, <2>1, <2>2 DEF RequestStep
<1>6. ASSUME NEW p \in PullRequests, PushToProvider(p) \/ Refresh(p) PROVE Next
  BY <1>6 DEF PushToProvider, Next, Environment
<1>7. ASSUME NEW p \in PullRequests,
             \/ New(p) \/ CloseAsNotMerged(p) \/ Reopen(p)
             \/ \E w \in Workers, m \in MergeMethods \cup {"check"} : StartRequest(w, p, m)
             \/ \E u \in Reviewers : OpenPage(u, p)
             \/ \E u \in Reviewers, op \in {"add", "remove"} : SendAssignment(op, u, p)
      PROVE  UNCHANGED gitvars
  BY <1>7, Zenon DEF New, CloseAsNotMerged, Reopen, SetStatus, StartRequest, OpenPage, SendAssignment
<1>8. ASSUME NEW u \in Reviewers,
             \/ \E v \in {"approved", "changes"} : SendReview(u, v)
             \/ CheckAssigned(u) \/ ReadTipForReview(u) \/ SubmitReview(u)
      PROVE  UNCHANGED gitvars
  BY <1>8 DEF SendReview, CheckAssigned, ReadTipForReview, SubmitReview
<1>9. ASSUME NEW a \in pending, Assign(a) PROVE UNCHANGED gitvars
  BY <1>9 DEF Assign
<1>10. ASSUME UNCHANGED vars PROVE UNCHANGED gitvars
  BY <1>10 DEF vars
<1>11. ASSUME PushReceiver PROVE Next
  BY <1>11 DEF Next, Environment
<1> QED
  BY <1>4, <1>5, <1>6, <1>7, <1>8, <1>9, <1>10, <1>11 DEF PRNext

(* No step of git takes a commit out of the store. *)
LEMMA StoreGrows ==
  ASSUME TypeOK, [Next]_gitvars
  PROVE  DOMAIN objs \subseteq DOMAIN objs'
<1>1. ASSUME NEW w \in Workers, MergeStep(w) PROVE DOMAIN objs \subseteq DOMAIN objs'
  BY <1>1, StepShape DEF Refs
<1>2. ASSUME NEW p \in PullRequests, PushProvider(p) \/ SyncFork(p) PROVE DOMAIN objs \subseteq DOMAIN objs'
  BY <1>2, Zenon DEF PushProvider, SyncFork, Write
<1>3. ASSUME PushReceiver PROVE DOMAIN objs \subseteq DOMAIN objs'
  BY <1>3 DEF PushReceiver, Write
<1>4. ASSUME UNCHANGED objs PROVE DOMAIN objs \subseteq DOMAIN objs'
  BY <1>4
<1> QED
  BY <1>1, <1>2, <1>3, <1>4, Zenon DEF Next, Environment, Call, Return, Crash, Refresh, gitvars

(* The part of the type invariant that concerns the tables and requests. *)
TablesOK ==
  /\ status \in [PullRequests -> {"none", "open", "closed", "merged"}]
  /\ check \in [PullRequests -> {"never", "clean", "conflict"}]
  /\ reviews \in [PullRequests -> ReviewTable]
  /\ merges \in [PullRequests -> Nat]
  /\ landed \in [PullRequests -> Nat]
  /\ req \in [Workers -> Request]
  /\ rev \in [Reviewers -> Review]
  /\ pending \subseteq [op : {"add", "remove"}, user : Reviewers, pr : PullRequests]
  /\ touched \in [Workers -> SUBSET {"provider", "reviews"}]
  /\ \A u \in Reviewers : rev[u].pc # "idle" => rev[u].pr \in PullRequests

(* The invariant in the three parts its proof takes in turn. *)
LEMMA TypeParts == PRInv <=> TypeOK /\ TablesOK /\ Served
BY DEF PRInv, PRTypeOK, TablesOK, Served, Fits

(* The tables keep their types, action by action. *)
LEMMA TablesTyped ==
  ASSUME PRInv, [PRNext]_vars
  PROVE  TablesOK'
<1>1. /\ [PullRequests -> ReviewTable] \subseteq [PullRequests -> ReviewTable']
      /\ [Workers -> Request] \subseteq [Workers -> Request']
      /\ [Reviewers -> Review] \subseteq [Reviewers -> Review']
  BY GitStep, StoreGrows, Wider, TypeParts
<1>2. TypeOK /\ TablesOK /\ Served
  BY TypeParts
<1>3. DOMAIN objs \subseteq DOMAIN objs'
  BY <1>2, GitStep, StoreGrows
<1>4. ASSUME NEW p, Touch(p, "provider") \/ Touch(p, "reviews")
      PROVE  touched' \in [Workers -> SUBSET {"provider", "reviews"}]
  BY <1>2, <1>4 DEF Touch, TablesOK
<1>5. ASSUME NEW w \in Workers, End(w)
      PROVE  req' \in [Workers -> Request] /\ touched' \in [Workers -> SUBSET {"provider", "reviews"}]
  <2>1. NoRequest \in Request
    BY EmptyTable DEF NoRequest, Request, NoPR
  <2> QED
    BY <1>2, <1>5, <2>1 DEF End, TablesOK
<1>6. ASSUME NEW w \in Workers, NEW pc \in {"mergeTree", "reviews", "failed", "merging"}, Step(w, pc)
      PROVE  req' \in [Workers -> Request]
  BY <1>2, <1>6 DEF Step, TablesOK, Request
<1>7. NoReview \in Review /\ NoReview.pc = "idle"
  BY DEF NoReview, Review, Rows, NoPR
<1>8. ASSUME NEW p \in PullRequests, New(p) \/ CloseAsNotMerged(p) \/ Reopen(p) PROVE TablesOK'
  BY <1>1, <1>2, <1>8 DEF New, CloseAsNotMerged, Reopen, SetStatus, TablesOK, gitvars
<1>9. ASSUME NEW p \in PullRequests, NEW w \in Workers, NEW m \in MergeMethods \cup {"check"}, StartRequest(w, p, m)
      PROVE  TablesOK'
  <2>1. [NoRequest EXCEPT !.pc = "fetch", !.pr = p, !.method = m] \in Request
    BY EmptyTable, Zenon DEF NoRequest, Request
  <2>2. req' \in [Workers -> Request]
    BY <1>2, <1>9, <2>1 DEF StartRequest, TablesOK
  <2> QED
    BY <1>1, <1>2, <1>9, <2>2, Zenon DEF StartRequest, TablesOK
<1>10. ASSUME NEW p \in PullRequests, NEW u \in Reviewers, OpenPage(u, p) PROVE TablesOK'
  <2> DEFINE page == [NoReview EXCEPT !.pc = "page", !.pr = p, !.seen = provider[p]]
  <2>1. page \in Review /\ page.pr = p
    BY <1>2, Zenon DEF NoReview, Review, Rows, NoPR, TypeOK
  <2>2. rev' = [rev EXCEPT ![u] = page]
    BY <1>10 DEF OpenPage
  <2> HIDE DEF page
  <2>3. rev' \in [Reviewers -> Review] /\ \A v \in Reviewers : rev'[v].pc # "idle" => rev'[v].pr \in PullRequests
    BY <1>2, <2>1, <2>2 DEF TablesOK
  <2> QED
    BY <1>1, <1>2, <1>10, <2>3, Zenon DEF OpenPage, TablesOK
<1>11. ASSUME NEW p \in PullRequests, NEW u \in Reviewers, NEW op \in {"add", "remove"}, SendAssignment(op, u, p)
       PROVE  TablesOK'
  BY <1>1, <1>2, <1>11 DEF SendAssignment, TablesOK
<1>12. ASSUME NEW p \in PullRequests, PushToProvider(p) PROVE TablesOK'
  BY <1>1, <1>2, <1>4, <1>12 DEF PushToProvider, TablesOK
<1>13. ASSUME UNCHANGED prvars PROVE TablesOK'
  BY <1>1, <1>2, <1>13 DEF prvars, TablesOK
<1>14. ASSUME NEW w \in Workers, CheckFetch(w) PROVE TablesOK'
  BY <1>1, <1>2, <1>6, <1>14 DEF CheckFetch, TablesOK
<1>15. ASSUME NEW w \in Workers, CheckMergeTree(w) PROVE TablesOK'
  <2>1. PICK clean \in BOOLEAN : req' = [req EXCEPT ![w].pc = "store", ![w].clean = clean]
    BY <1>15, Zenon DEF CheckMergeTree
  <2>2. [req[w] EXCEPT !.pc = "store", !.clean = clean] \in Request
    BY <1>2, ZenonT(40) DEF TablesOK, Request
  <2>3. req' = [req EXCEPT ![w] = [req[w] EXCEPT !.pc = "store", !.clean = clean]]
    BY <1>2, <2>1, Zenon DEF TablesOK
  <2>4. req' \in [Workers -> Request]
    BY <1>2, <2>2, <2>3 DEF TablesOK
  <2> QED
    BY <1>1, <1>2, <1>15, <2>4, Zenon DEF CheckMergeTree, TablesOK
<1>16. ASSUME NEW w \in Workers, StoreCheck(w) PROVE TablesOK'
  <2>1. req' \in [Workers -> Request] /\ touched' \in [Workers -> SUBSET {"provider", "reviews"}]
    BY <1>2, <1>5, <1>6, <1>16 DEF StoreCheck, TablesOK
  <2> QED
    BY <1>1, <1>2, <1>16, <2>1, Zenon DEF StoreCheck, TablesOK
<1>17. ASSUME NEW w \in Workers, ReadReviews(w) PROVE TablesOK'
  <2>1. req[w].pr \in PullRequests
    BY <1>2, <1>17 DEF ReadReviews, Served, Fits
  <2>2. reviews[req[w].pr] \in ReviewTable
    BY <1>2, <2>1 DEF TablesOK
  <2>3. ASSUME NEW f \in ReviewTable, req' = [req EXCEPT ![w].pc = "gate", ![w].rows = f]
        PROVE  req' \in [Workers -> Request]
    <3>1. [req[w] EXCEPT !.pc = "gate", !.rows = f] \in Request
      BY <1>2, <2>3, ZenonT(40) DEF TablesOK, Request
    <3>2. req' = [req EXCEPT ![w] = [req[w] EXCEPT !.pc = "gate", !.rows = f]]
      BY <1>2, <2>3, Zenon DEF TablesOK
    <3> QED
      BY <1>2, <3>1, <3>2 DEF TablesOK
  <2>4. req' \in [Workers -> Request]
    BY <1>6, <1>17, <2>2, <2>3 DEF ReadReviews
  <2> QED
    BY <1>1, <1>2, <1>17, <2>4 DEF ReadReviews, TablesOK
<1>18. ASSUME NEW w \in Workers, Gate(w) PROVE TablesOK'
  <2>1. ASSUME NEW pc \in {"merging", "failed"}, req' = [req EXCEPT ![w].pc = pc, ![w].rows = NoRows]
        PROVE  req' \in [Workers -> Request]
    <3>1. [req[w] EXCEPT !.pc = pc, !.rows = NoRows] \in Request
      BY <1>2, <2>1, EmptyTable, ZenonT(40) DEF TablesOK, Request
    <3>2. req' = [req EXCEPT ![w] = [req[w] EXCEPT !.pc = pc, !.rows = NoRows]]
      BY <1>2, <2>1, Zenon DEF TablesOK
    <3> QED
      BY <1>2, <3>1, <3>2 DEF TablesOK
  <2>2. req' \in [Workers -> Request]
    BY <1>18, <2>1 DEF Gate
  <2> QED
    BY <1>1, <1>2, <1>18, <2>2 DEF Gate, TablesOK
<1>19. ASSUME NEW w \in Workers, Merging(w) PROVE TablesOK'
  <2>1. job[w].pr \in PullRequests
    BY <1>2, <1>19, StepShape DEF Merging, TypeOK
  <2>2. req' \in [Workers -> Request]
    BY <1>2, <1>6, <1>19, Zenon DEF Merging, TablesOK, Step
  <2>3. landed' \in [PullRequests -> Nat]
    BY <1>2, <1>19, <2>1 DEF Merging, TablesOK
  <2> QED
    BY <1>1, <1>2, <1>19, <2>2, <2>3 DEF Merging, TablesOK
<1>20. ASSUME NEW w \in Workers, Record(w) PROVE TablesOK'
  <2>1. req[w].pr \in PullRequests
    BY <1>2, <1>20 DEF Record, Served, Fits
  <2>2. status' \in [PullRequests -> {"none", "open", "closed", "merged"}] /\ merges' \in [PullRequests -> Nat]
    BY <1>2, <1>20, <2>1 DEF Record, TablesOK
  <2> QED
    BY <1>1, <1>2, <1>5, <1>20, <2>2 DEF Record, TablesOK
<1>21. ASSUME NEW w \in Workers, RecordFails(w) PROVE TablesOK'
  BY <1>1, <1>2, <1>6, <1>21 DEF RecordFails, TablesOK
<1>22. ASSUME NEW w \in Workers, Drop(w) PROVE TablesOK'
  BY <1>1, <1>2, <1>5, <1>22 DEF Drop, TablesOK
<1>23. ASSUME NEW u \in Reviewers, NEW v \in {"approved", "changes"}, SendReview(u, v) PROVE TablesOK'
  <2>1. [rev[u] EXCEPT !.pc = "assigned", !.verdict = v] \in Review
    <3>1. rev[u] \in Review
      BY <1>2 DEF TablesOK
    <3> QED
      BY <3>1, Zenon DEF Review, Rows
  <2>2. rev' = [rev EXCEPT ![u] = [rev[u] EXCEPT !.pc = "assigned", !.verdict = v]]
    BY <1>2, <1>23, Zenon DEF SendReview, TablesOK
  <2>3. rev' \in [Reviewers -> Review]
    BY <1>2, <2>1, <2>2 DEF TablesOK
  <2>4. \A x \in Reviewers : rev'[x].pc # "idle" => rev'[x].pr \in PullRequests
    BY <1>2, <1>23 DEF SendReview, TablesOK, Review
  <2> QED
    BY <1>1, <1>2, <1>23, <2>3, <2>4, Zenon DEF SendReview, TablesOK
<1>24. ASSUME NEW u \in Reviewers, rev' = [rev EXCEPT ![u] = NoReview]
       PROVE  rev' \in [Reviewers -> Review] /\ \A x \in Reviewers : rev'[x].pc # "idle" => rev'[x].pr \in PullRequests
  BY <1>2, <1>7, <1>24 DEF TablesOK
<1>25. ASSUME NEW u \in Reviewers, CheckAssigned(u) PROVE TablesOK'
  <2>1. CASE rev' = [rev EXCEPT ![u].pc = "tip"]
    <3>1. rev' \in [Reviewers -> Review] /\ \A x \in Reviewers : rev'[x].pc # "idle" => rev'[x].pr \in PullRequests
      BY <1>2, <1>25, <2>1 DEF CheckAssigned, TablesOK, Review
    <3> QED
      BY <1>1, <1>2, <1>25, <3>1 DEF CheckAssigned, TablesOK
  <2>2. CASE rev' = [rev EXCEPT ![u] = NoReview]
    BY <1>1, <1>2, <1>24, <1>25, <2>2, Zenon DEF CheckAssigned, TablesOK
  <2> QED
    BY <1>25, <2>1, <2>2 DEF CheckAssigned
<1>26. ASSUME NEW u \in Reviewers, ReadTipForReview(u) PROVE TablesOK'
  <2>1. rev[u].pr \in PullRequests
    BY <1>2, <1>26 DEF ReadTipForReview, TablesOK
  <2>2. provider[rev[u].pr] \in DOMAIN objs
    BY <1>2, <2>1 DEF TypeOK
  <2> DEFINE r == [rev[u] EXCEPT !.pc = "submit", !.tip = provider[rev[u].pr]]
  <2>3. rev[u] \in Review
    BY <1>2 DEF TablesOK
  <2>4. r \in Review /\ r.pr = rev[u].pr
    BY <2>2, <2>3, Zenon DEF Review
  <2>5. rev' = [rev EXCEPT ![u] = r]
    BY <1>2, <1>26, Zenon DEF ReadTipForReview, TablesOK
  <2> HIDE DEF r
  <2>6. rev' \in [Reviewers -> Review] /\ \A x \in Reviewers : rev'[x].pc # "idle" => rev'[x].pr \in PullRequests
    BY <1>2, <2>1, <2>4, <2>5 DEF TablesOK
  <2> QED
    BY <1>1, <1>2, <1>26, <2>6, Zenon DEF ReadTipForReview, TablesOK
<1>27. ASSUME NEW u \in Reviewers, SubmitReview(u) PROVE TablesOK'
  <2> DEFINE p == rev[u].pr
             row == [status |-> rev[u].verdict, commit |-> rev[u].tip]
  <2>1. p \in PullRequests /\ row \in ReviewRow
    BY <1>2, <1>27 DEF SubmitReview, TablesOK, Review, ReviewRow
  <2>2. reviews[p] \in ReviewTable
    BY <1>2, <2>1 DEF TablesOK
  <2>3. ASSUME u \in DOMAIN reviews[p] PROVE [reviews[p] EXCEPT ![u] = row] \in ReviewTable
    BY <2>1, <2>2, <2>3, TableIs
  <2>4. ASSUME reviews' = [reviews EXCEPT ![p][u] = row], u \in DOMAIN reviews[p]
        PROVE  reviews' \in [PullRequests -> ReviewTable]
    BY <1>2, <2>1, <2>3, <2>4 DEF TablesOK
  <2>5. reviews' \in [PullRequests -> ReviewTable] /\ touched' \in [Workers -> SUBSET {"provider", "reviews"}]
    BY <1>2, <1>4, <1>27, <2>4 DEF SubmitReview, TablesOK
  <2>6. rev' = [rev EXCEPT ![u] = NoReview]
    BY <1>27 DEF SubmitReview
  <2> QED
    BY <1>1, <1>2, <1>24, <1>27, <2>5, <2>6, Zenon DEF SubmitReview, TablesOK
<1>28. ASSUME NEW a \in pending, Assign(a) PROVE TablesOK'
  <2>1. a.pr \in PullRequests /\ a.user \in Reviewers
    BY <1>2 DEF TablesOK
  <2>2. reviews[a.pr] \in ReviewTable
    BY <1>2, <2>1 DEF TablesOK
  <2>3. InsertOrIgnore(reviews[a.pr], a.user) \in ReviewTable
    BY <2>1, <2>2, TableIs DEF InsertOrIgnore, Pending, ReviewRow, Rows
  <2>4. DeleteRow(reviews[a.pr], a.user) \in ReviewTable
    BY <2>1, <2>2, TableIs DEF DeleteRow
  <2>5. reviews' \in [PullRequests -> ReviewTable]
    BY <1>2, <1>28, <2>1, <2>3, <2>4 DEF Assign, TablesOK
  <2> QED
    BY <1>1, <1>2, <1>4, <1>28, <2>5, Zenon DEF Assign, TablesOK
<1>29. ASSUME UNCHANGED vars PROVE TablesOK'
  BY <1>13, <1>29 DEF vars
<1>30. ASSUME NEW w \in Workers, RequestStep(w) PROVE TablesOK'
  BY <1>14, <1>15, <1>16, <1>17, <1>18, <1>19, <1>20, <1>30 DEF RequestStep
<1> QED
  BY <1>8, <1>9, <1>10, <1>11, <1>12, <1>13, <1>21, <1>22, <1>23, <1>25, <1>26, <1>27, <1>28, <1>29, <1>30 DEF PRNext

-----------------------------------------------------------------------------
\* Requests

(* A worker that does nothing itself finds what its request relies on still
   true; where the provider branch or a review changed, `touched' says so. *)
LEMMA Bystander ==
  ASSUME PRInv, DOMAIN objs \subseteq DOMAIN objs',
         NEW v \in Workers, req'[v] = req[v], touched[v] \subseteq touched'[v],
         \A p \in PullRequests : tracking'[p] \in {tracking[p], provider[p]},
         req[v].pr \in PullRequests => \/ provider'[req[v].pr] = provider[req[v].pr]
                                       \/ "provider" \in touched'[v],
         req[v].pr \in PullRequests => \/ reviews'[req[v].pr] = reviews[req[v].pr]
                                       \/ "reviews" \in touched'[v]
  PROVE  Kept(v)'
<1> DEFINE p == req[v].pr
           busy == req[v].pc \in {"mergeTree", "store", "reviews", "gate", "merging"}
<1>1. Fits(v) /\ Kept(v) /\ TypeOK
  BY TypeParts DEF Served
<1>2. SUFFICES ASSUME busy PROVE Kept(v)'
  BY <1>2 DEF Kept
<1>3. p \in PullRequests /\ provider[p] \in DOMAIN objs /\ provider[p] # None
  BY <1>1, <1>2 DEF Fits, TypeOK, None
<1>4. tracking'[p] # None
  BY <1>1, <1>2, <1>3 DEF Kept
<1>5. "provider" \notin touched'[v] => tracking'[p] = tracking[p] /\ tracking'[p] = provider'[p]
  BY <1>1, <1>2, <1>3 DEF Kept
<1>6. "reviews" \notin touched'[v] => reviews'[p] = reviews[p] /\ "reviews" \notin touched[v]
  BY <1>3
<1>7. req[v].pc = "gate" /\ "reviews" \notin touched'[v] => req'[v].rows = reviews'[p]
  BY <1>1, <1>6 DEF Kept
<1>8. ASSUME req[v].pc = "merging", "reviews" \notin touched'[v]
      PROVE  /\ \E c \in DOMAIN objs' : AllApprove(reviews[p], c)
             /\ "provider" \notin touched'[v] => AllApprove(reviews[p], tracking[p])
  BY <1>1, <1>6, <1>8 DEF Kept
<1>10. req'[v].pc = req[v].pc /\ req'[v].pr = p /\ req'[v].rows = req[v].rows
  OBVIOUS
<1> HIDE DEF p
<1>11. ASSUME req'[v].pc = "merging", "reviews" \notin touched'[v]
       PROVE  /\ \E c \in DOMAIN objs' : AllApprove(reviews'[p], c)
              /\ "provider" \notin touched'[v] => AllApprove(reviews'[p], tracking'[p])
  BY <1>5, <1>6, <1>8, <1>10, <1>11
<1> QED
  BY <1>4, <1>5, <1>7, <1>10, <1>11 DEF Kept

(* Its request and its call to Merge still fit. *)
LEMMA StillFits ==
  ASSUME NEW v \in Workers, Fits(v), req'[v] = req[v], job'[v] = job[v],
         job[v].pc = "idle" => moved'[v] = moved[v]
  PROVE  Fits(v)'
BY DEF Fits, Idle, NoPR

(* Bookkeeping forgets nothing, and records what happens to the pull request. *)
LEMMA TouchRecords ==
  ASSUME PRInv, NEW p, NEW what \in {"provider", "reviews"}, Touch(p, what), NEW v \in Workers
  PROVE  touched[v] \subseteq touched'[v] /\ (req[v].pr = p => what \in touched'[v])
BY TypeParts DEF TablesOK, Touch

(* The steps in which no request is served: only the tables, the repositories
   and the reviews change. *)
LEMMA OutsideKeeps ==
  ASSUME PRInv, [PRNext]_vars, UNCHANGED <<req, job>>,
         \A v \in Workers : job[v].pc = "idle" => moved'[v] = moved[v],
         \/ UNCHANGED <<provider, reviews, touched>> /\ Refs
         \/ \E p \in PullRequests : /\ Touch(p, "provider") /\ UNCHANGED <<tracking, reviews>>
                                    /\ \A q \in PullRequests \ {p} : provider'[q] = provider[q]
         \/ \E p \in PullRequests : /\ Touch(p, "reviews") /\ UNCHANGED <<provider, tracking>>
                                    /\ \A q \in PullRequests \ {p} : reviews'[q] = reviews[q]
  PROVE  Served'
<1>1. SUFFICES ASSUME NEW v \in Workers PROVE Fits(v)' /\ Kept(v)'
  BY DEF Served
<1>2. TypeOK /\ TablesOK /\ Fits(v)
  BY TypeParts DEF Served
<1>3. Fits(v)'
  BY <1>2, StillFits
<1>4. DOMAIN objs \subseteq DOMAIN objs'
  BY <1>2, GitStep, StoreGrows
<1>5. CASE UNCHANGED <<provider, reviews, touched>> /\ Refs
  BY <1>3, <1>4, <1>5, Bystander DEF Refs
<1>6. ASSUME NEW p \in PullRequests, Touch(p, "provider"), UNCHANGED <<tracking, reviews>>,
             \A q \in PullRequests \ {p} : provider'[q] = provider[q]
      PROVE  Kept(v)'
  BY <1>4, <1>6, Bystander, TouchRecords
<1>7. ASSUME NEW p \in PullRequests, Touch(p, "reviews"), UNCHANGED <<provider, tracking>>,
             \A q \in PullRequests \ {p} : reviews'[q] = reviews[q]
      PROVE  Kept(v)'
  BY <1>4, <1>7, Bystander, TouchRecords
<1> QED
  BY <1>3, <1>5, <1>6, <1>7

(* A step of the request of worker w leaves every other worker's alone. *)
LEMMA OthersServed ==
  ASSUME PRInv, [PRNext]_vars, NEW w \in Workers, Refs, UNCHANGED <<provider, reviews>>,
         \A v \in Workers \ {w} : /\ req'[v] = req[v] /\ job'[v] = job[v] /\ touched'[v] = touched[v]
                                  /\ job[v].pc = "idle" => moved'[v] = moved[v],
         Fits(w)', Kept(w)'
  PROVE  Served'
<1>1. SUFFICES ASSUME NEW v \in Workers \ {w} PROVE Fits(v)' /\ Kept(v)'
  BY DEF Served
<1>2. Fits(v)
  BY DEF PRInv, Served
<1>3. Fits(v)'
  BY <1>2, StillFits
<1>4. Kept(v)'
  BY Bystander DEF Refs
<1> QED
  BY <1>3, <1>4

(* The end of a request, with or without a call to Merge. *)
LEMMA EndServed ==
  ASSUME PRInv, [PRNext]_vars, NEW w \in Workers, End(w),
         Leave(w) \/ (UNCHANGED <<job, moved>> /\ job[w].pc = "idle"),
         UNCHANGED <<objs, provider, tracking, reviews>>
  PROVE  Served'
<1>1. TypeOK /\ TablesOK /\ Fits(w)
  BY TypeParts DEF Served
<1>2. req'[w] = NoRequest /\ job'[w] = Idle /\ moved'[w] = {}
  BY <1>1 DEF End, Leave, TypeOK, TablesOK, Fits
<1>3. Fits(w)' /\ Kept(w)'
  BY <1>2, SMTT(30) DEF Fits, Kept, NoRequest, Idle
<1>4. \A v \in Workers \ {w} : /\ req'[v] = req[v] /\ job'[v] = job[v] /\ touched'[v] = touched[v]
                               /\ moved'[v] = moved[v]
  BY <1>1 DEF End, Leave, TypeOK, TablesOK
<1> QED
  BY <1>3, <1>4, OthersServed DEF Refs

(* merge-check, and what a merge does before it calls Merge *)
LEMMA CheckServed ==
  ASSUME PRInv, [PRNext]_vars, NEW w \in Workers,
         CheckFetch(w) \/ CheckMergeTree(w) \/ StoreCheck(w)
  PROVE  Served'
<1> DEFINE p == req[w].pr
<1>1. TypeOK /\ TablesOK /\ Fits(w) /\ Kept(w)
  BY TypeParts DEF Served
<1>2. p \in PullRequests /\ job[w].pc = "idle" /\ provider[p] # None
  BY <1>1 DEF Fits, CheckFetch, CheckMergeTree, StoreCheck, TypeOK, None
<1>3. CASE CheckFetch(w)
  <2>1. tracking'[p] = provider[p] /\ UNCHANGED <<provider, touched, reviews, job, objs>>
    BY <1>1, <1>2, <1>3 DEF CheckFetch, FetchBranch, TypeOK
  <2>2. req'[w].pc = "mergeTree" /\ req'[w].pr = p /\ \A v \in Workers \ {w} : req'[v] = req[v]
    BY <1>1, <1>3 DEF CheckFetch, Step, TablesOK, Request
  <2>3. \A v \in Workers : job[v].pc = "idle" => moved'[v] = moved[v]
    BY <1>1, <1>3 DEF CheckFetch, TrackingMoved, Reading, TypeOK
  <2>4. Kept(w)'
    BY <1>2, <2>1, <2>2 DEF Kept
  <2>5. Fits(w)'
    BY <1>1, <1>2, <2>1, <2>2, <2>3, Zenon DEF Fits
  <2>6. Refs
    BY <1>1, <1>3, <2>1 DEF CheckFetch, FetchBranch, TypeOK, Refs
  <2> QED
    BY <2>1, <2>2, <2>3, <2>4, <2>5, <2>6, OthersServed
<1>4. CASE CheckMergeTree(w)
  <2>1. UNCHANGED <<gitvars, touched, reviews>>
    BY <1>4 DEF CheckMergeTree
  <2>2. req'[w].pc = "store" /\ req'[w].pr = p /\ \A v \in Workers \ {w} : req'[v] = req[v]
    BY <1>1, <1>4 DEF CheckMergeTree, TablesOK, Request
  <2>3. Kept(w)'
    BY <1>1, <1>4, <2>1, <2>2 DEF Kept, CheckMergeTree, gitvars
  <2>4. Fits(w)'
    BY <1>1, <1>2, <2>1, <2>2, Zenon DEF Fits, gitvars
  <2> QED
    BY <2>1, <2>2, <2>3, <2>4, OthersServed, Zenon DEF gitvars, Refs
<1>5. CASE StoreCheck(w)
  <2>1. UNCHANGED <<gitvars, reviews>>
    BY <1>5, Zenon DEF StoreCheck
  <2>2. CASE End(w)
    BY <1>2, <2>1, <2>2, EndServed, Zenon DEF gitvars
  <2>3. ASSUME NEW pc \in {"reviews", "failed"}, Step(w, pc), UNCHANGED touched PROVE Served'
    <3>1. req'[w].pc = pc /\ req'[w].pr = p /\ \A v \in Workers \ {w} : req'[v] = req[v]
      BY <1>1, <2>3 DEF Step, TablesOK, Request
    <3>2. Kept(w)'
      BY <1>1, <1>5, <2>1, <2>3, <3>1, Zenon DEF Kept, StoreCheck, gitvars
    <3>3. Fits(w)'
      BY <1>1, <1>2, <2>1, <3>1, Zenon DEF Fits, gitvars
    <3> QED
      BY <2>1, <2>3, <3>1, <3>2, <3>3, OthersServed DEF gitvars, Refs
  <2> QED
    BY <1>5, <2>2, <2>3, Zenon DEF StoreCheck
<1> QED
  BY <1>3, <1>4, <1>5

(* A call to Merge begins with a request that passed the gate. *)
LEMMA CallServed ==
  ASSUME PRInv, [PRNext]_vars, NEW w \in Workers, req[w].pc \in {"reviews", "gate"},
         Call(w, req[w].pr, req[w].method), UNCHANGED <<reviews, touched>>,
         req'[w].pc = "merging", req'[w].pr = req[w].pr, \A v \in Workers \ {w} : req'[v] = req[v],
         "reviews" \notin touched[w] => AllApprove(reviews[req[w].pr], tracking[req[w].pr])
  PROVE  Served'
<1> DEFINE p == req[w].pr
<1>1. TypeOK /\ TablesOK /\ Fits(w) /\ Kept(w)
  BY TypeParts DEF Served
<1>2. p \in PullRequests /\ tracking[p] # None /\ ("provider" \notin touched[w] => tracking[p] = provider[p])
  BY <1>1, Zenon DEF Fits, Kept
<1>3. tracking[p] \in DOMAIN objs
  BY <1>1, <1>2 DEF TypeOK
<1>4. UNCHANGED <<objs, head, provider, tracking, moved>>
  BY DEF Call
<1>5. job'[w].pc = "fetch" /\ job'[w].pr = p /\ \A v \in Workers \ {w} : job'[v] = job[v]
  BY <1>1 DEF Call, TypeOK, Idle
<1>6. Kept(w)'
  BY <1>2, <1>3, <1>4, Zenon DEF Kept
<1>7. Fits(w)'
  BY <1>2, <1>5, Zenon DEF Fits
<1> QED
  BY <1>4, <1>5, <1>6, <1>7, OthersServed, Zenon DEF Refs

(* GetPullRequestReviews and the loop over the reviews let pass only what the
   table approves. *)
LEMMA GateServed ==
  ASSUME PRInv, [PRNext]_vars, NEW w \in Workers, ReadReviews(w) \/ Gate(w)
  PROVE  Served'
<1> DEFINE p == req[w].pr
<1>1. TypeOK /\ TablesOK /\ Fits(w) /\ Kept(w)
  BY TypeParts DEF Served
<1>2. /\ p \in PullRequests /\ job[w].pc = "idle" /\ req[w].pc \in {"reviews", "gate"}
      /\ UNCHANGED <<reviews, touched>>
  BY <1>1 DEF Fits, ReadReviews, Gate
<1>3. CASE ReadReviews(w) /\ Call(w, p, req[w].method)
  <2>1. job'[w].pc # job[w].pc
    BY <1>1, <1>2, <1>3 DEF Call, TypeOK, Idle
  <2>2. DOMAIN reviews[p] = {} /\ Step(w, "merging")
    BY <1>3, <2>1 DEF ReadReviews, gitvars
  <2>3. AllApprove(reviews[p], tracking[p])
    BY <2>2 DEF AllApprove
  <2>4. req'[w].pc = "merging" /\ req'[w].pr = p /\ \A v \in Workers \ {w} : req'[v] = req[v]
    BY <1>1, <2>2 DEF Step, TablesOK, Request
  <2> QED
    BY <1>2, <1>3, <2>3, <2>4, CallServed
<1>4. ASSUME UNCHANGED <<gitvars, reviews, touched>>, req'[w].pr = p, \A v \in Workers \ {w} : req'[v] = req[v],
             \/ req'[w].pc = "gate" /\ req'[w].rows = reviews[p]
             \/ req'[w].pc = "failed"
      PROVE  Served'
  <2>1. Kept(w)'
    BY <1>1, <1>2, <1>4 DEF Kept, gitvars
  <2>2. Fits(w)'
    BY <1>1, <1>2, <1>4, Zenon DEF Fits, gitvars
  <2> QED
    BY <1>4, <2>1, <2>2, OthersServed DEF gitvars, Refs
<1>5. CASE ReadReviews(w) /\ req' = [req EXCEPT ![w].pc = "gate", ![w].rows = reviews[p]] /\ UNCHANGED gitvars
  <2>1. /\ req'[w].pc = "gate" /\ req'[w].pr = p /\ req'[w].rows = reviews[p]
        /\ \A v \in Workers \ {w} : req'[v] = req[v]
    BY <1>1, <1>5 DEF TablesOK, Request
  <2> QED
    BY <1>2, <1>4, <1>5, <2>1, Zenon
<1>6. CASE /\ Gate(w) /\ Approved(req[w].rows, tracking[p]) /\ Call(w, p, req[w].method)
           /\ req' = [req EXCEPT ![w].pc = "merging", ![w].rows = NoRows]
  <2>1. req'[w].pc = "merging" /\ req'[w].pr = p /\ \A v \in Workers \ {w} : req'[v] = req[v]
    BY <1>1, <1>6 DEF TablesOK, Request
  <2>2. ASSUME "reviews" \notin touched[w] PROVE AllApprove(reviews[p], tracking[p])
    <3>1. req[w].rows = reviews[p] /\ reviews[p] \in ReviewTable
      BY <1>1, <1>2, <1>6, <2>2 DEF Kept, Gate, TablesOK
    <3>2. \A u \in DOMAIN reviews[p] : reviews[p][u] \in ReviewRow
      BY <3>1, TableIs
    <3>3. \A u \in DOMAIN reviews[p] : reviews[p][u].status = "approved" /\ reviews[p][u].commit = tracking[p]
      BY <1>6, <3>1 DEF Approved
    <3> QED
      BY <3>2, <3>3 DEF AllApprove, ReviewRow
  <2> QED
    BY <1>2, <1>6, <2>1, <2>2, CallServed, Zenon
<1>7. CASE Gate(w) /\ req' = [req EXCEPT ![w].pc = "failed", ![w].rows = NoRows] /\ UNCHANGED gitvars
  <2>1. req'[w].pc = "failed" /\ req'[w].pr = p /\ \A v \in Workers \ {w} : req'[v] = req[v]
    BY <1>1, <1>7 DEF TablesOK, Request
  <2> QED
    BY <1>2, <1>4, <1>7, <2>1, Zenon
<1> QED
  BY <1>3, <1>5, <1>6, <1>7 DEF ReadReviews, Gate

(* A command of Merge is run for a request that is "merging". *)
LEMMA MergingOnly ==
  ASSUME PRInv, NEW w \in Workers, MergeStep(w)
  PROVE  req[w].pc = "merging" /\ job[w].pr = req[w].pr /\ req[w].pr \in PullRequests
<1>1. TypeOK /\ Fits(w)
  BY TypeParts DEF Served
<1> QED
  BY <1>1, StepShape DEF Fits

(* While Merge runs, what its request relies on stands; when it fails, the request
   fails. *)
LEMMA MergingServed ==
  ASSUME PRInv, [PRNext]_vars, NEW w \in Workers, Merging(w)
  PROVE  Served'
<1>1. TypeOK /\ TablesOK /\ Fits(w) /\ MergeStep(w)
  BY TypeParts DEF Served, Merging
<1>2. /\ \A v \in Workers \ {w} : job'[v] = job[v]
      /\ job'[w].pc = "idle" => job'[w] = Idle /\ moved'[w] = {}
      /\ job'[w].pc # "idle" => job'[w].pr = job[w].pr
      /\ \A v \in Workers : job[v].pc = "idle" => moved'[v] = moved[v]
      /\ UNCHANGED provider
      /\ Refs
  BY <1>1, StepShape
<1>3. req[w].pc = "merging" /\ job[w].pr = req[w].pr /\ req[w].pr \in PullRequests
  BY <1>1, MergingOnly
<1>4. UNCHANGED <<reviews, touched>>
  BY DEF Merging
<1>5. CASE job'[w].pc = "idle"
  <2>1. req'[w].pc = "failed" /\ req'[w].pr = req[w].pr /\ \A v \in Workers \ {w} : req'[v] = req[v]
    BY <1>1, <1>5 DEF Merging, TablesOK, Request
  <2>2. Kept(w)'
    BY <2>1 DEF Kept
  <2>3. Fits(w)'
    BY <1>2, <1>3, <1>5, <2>1 DEF Fits
  <2> QED
    BY <1>2, <1>4, <2>1, <2>2, <2>3, OthersServed
<1>6. CASE job'[w].pc # "idle"
  <2>1. UNCHANGED req
    BY <1>6 DEF Merging
  <2>2. Kept(w)'
    BY <1>2, <1>4, <2>1, Bystander DEF Refs
  <2>3. Fits(w)'
    BY <1>2, <1>3, <1>6, <2>1 DEF Fits
  <2> QED
    BY <1>2, <1>4, <2>1, <2>2, <2>3, OthersServed
<1> QED
  BY <1>5, <1>6

(* Every action keeps what the requests in progress rely on. *)
LEMMA ServedHolds ==
  ASSUME PRInv, [PRNext]_vars
  PROVE  Served'
<1>1. TypeOK /\ TablesOK /\ Served
  BY TypeParts
<1>2. ASSUME UNCHANGED <<gitvars, reviews, req, touched>> PROVE Served'
  BY <1>2, OutsideKeeps DEF gitvars, Refs
<1>3. ASSUME NEW p \in PullRequests, NEW w \in Workers, NEW m \in MergeMethods \cup {"check"}, StartRequest(w, p, m)
      PROVE  Served'
  <2>1. req'[w].pc = "fetch" /\ req'[w].pr = p /\ \A v \in Workers \ {w} : req'[v] = req[v]
    BY <1>1, <1>3 DEF StartRequest, TablesOK, NoRequest
  <2>2. UNCHANGED <<gitvars, reviews, touched>> /\ req[w].pc = "idle"
    BY <1>3 DEF StartRequest
  <2>3. Fits(w)' /\ Kept(w)'
    BY <1>1, <2>1, <2>2 DEF Served, Fits, Kept, gitvars
  <2> QED
    BY <2>1, <2>2, <2>3, OthersServed, Zenon DEF gitvars, Refs
<1>4. ASSUME NEW w \in Workers, Record(w) \/ Drop(w) PROVE Served'
  BY <1>4, EndServed, Zenon DEF Record, Drop
<1>5. ASSUME NEW w \in Workers, RecordFails(w) PROVE Served'
  <2>1. req'[w].pc = "failed" /\ req'[w].pr = req[w].pr /\ \A v \in Workers \ {w} : req'[v] = req[v]
    BY <1>1, <1>5 DEF RecordFails, Step, TablesOK, Request
  <2>2. UNCHANGED <<gitvars, reviews, touched>> /\ req[w].pc = "merging" /\ job[w].pc = "merged"
    BY <1>5 DEF RecordFails, ReadyToRecord
  <2>3. Fits(w)' /\ Kept(w)'
    BY <1>1, <2>1, <2>2 DEF Served, Fits, Kept, gitvars
  <2> QED
    BY <2>1, <2>2, <2>3, OthersServed, Zenon DEF gitvars, Refs
<1>6. ASSUME NEW p \in PullRequests, PushToProvider(p) PROVE Served'
  <2>1. Touch(p, "provider") /\ UNCHANGED <<tracking, reviews, req, job, moved>>
    BY <1>6 DEF PushToProvider, PushProvider, SyncFork
  <2>2. \A q \in PullRequests \ {p} : provider'[q] = provider[q]
    BY <1>1, <1>6, Zenon DEF PushToProvider, PushProvider, SyncFork, TypeOK
  <2> QED
    BY <2>1, <2>2, OutsideKeeps
<1>7. ASSUME NEW p \in PullRequests, Refresh(p), UNCHANGED prvars PROVE Served'
  <2>1. UNCHANGED <<provider, reviews, touched, req, job, objs>>
    BY <1>7 DEF Refresh, prvars
  <2>2. Refs
    BY <1>1, <1>7 DEF Refresh, FetchBranch, Refs, TypeOK
  <2>3. \A v \in Workers : job[v].pc = "idle" => moved'[v] = moved[v]
    BY <1>1, <1>7 DEF Refresh, TrackingMoved, Reading, TypeOK
  <2> QED
    BY <2>1, <2>2, <2>3, OutsideKeeps
<1>8. ASSUME PushReceiver, UNCHANGED prvars PROVE Served'
  <2>1. UNCHANGED <<provider, tracking, reviews, touched, req, job>>
    BY <1>8 DEF PushReceiver, prvars
  <2>2. Refs
    BY <1>8, <2>1 DEF PushReceiver, Write, Refs
  <2>3. \A v \in Workers : job[v].pc = "idle" => moved'[v] = moved[v]
    BY <1>1, <1>8 DEF PushReceiver, HeadMoved, Reading, TypeOK
  <2> QED
    BY <2>1, <2>2, <2>3, OutsideKeeps
<1>9. ASSUME NEW u \in Reviewers, SubmitReview(u) PROVE Served'
  <2>1. CASE UNCHANGED <<reviews, touched>>
    BY <1>2, <1>9, <2>1 DEF SubmitReview
  <2>2. CASE /\ reviews' = [reviews EXCEPT ![rev[u].pr][u] = [status |-> rev[u].verdict, commit |-> rev[u].tip]]
             /\ Touch(rev[u].pr, "reviews")
    <3>1. rev[u].pr \in PullRequests
      BY <1>1, <1>9 DEF SubmitReview, TablesOK
    <3>2. \A q \in PullRequests \ {rev[u].pr} : reviews'[q] = reviews[q]
      BY <1>1, <2>2 DEF TablesOK
    <3> QED
      BY <1>9, <2>2, <3>1, <3>2, OutsideKeeps DEF SubmitReview, gitvars
  <2> QED
    BY <1>9, <2>1, <2>2 DEF SubmitReview
<1>10. ASSUME NEW a \in pending, Assign(a) PROVE Served'
  <2>1. a.pr \in PullRequests
    BY <1>1 DEF TablesOK
  <2>2. \A q \in PullRequests \ {a.pr} : reviews'[q] = reviews[q]
    BY <1>1, <1>10 DEF Assign, TablesOK
  <2> QED
    BY <1>10, <2>1, <2>2, OutsideKeeps, Zenon DEF Assign, gitvars
<1>11. ASSUME NEW p \in PullRequests,
              \/ New(p) \/ CloseAsNotMerged(p) \/ Reopen(p)
              \/ \E u \in Reviewers : OpenPage(u, p)
              \/ \E u \in Reviewers, op \in {"add", "remove"} : SendAssignment(op, u, p)
       PROVE  Served'
  BY <1>2, <1>11 DEF New, CloseAsNotMerged, Reopen, SetStatus, OpenPage, SendAssignment
<1>12. ASSUME NEW u \in Reviewers,
              \/ \E v \in {"approved", "changes"} : SendReview(u, v)
              \/ CheckAssigned(u) \/ ReadTipForReview(u)
       PROVE  Served'
  BY <1>2, <1>12 DEF SendReview, CheckAssigned, ReadTipForReview
<1>13. ASSUME UNCHANGED vars PROVE Served'
  BY <1>2, <1>13 DEF vars, prvars
<1>14. ASSUME NEW w \in Workers, RequestStep(w) PROVE Served'
  BY <1>4, <1>14, CheckServed, GateServed, MergingServed DEF RequestStep
<1> QED
  BY <1>3, <1>4, <1>5, <1>6, <1>7, <1>8, <1>9, <1>10, <1>11, <1>12, <1>13, <1>14 DEF PRNext

----
(* Pull requests in general *)

(* The tables and the requests in progress of repo-pull-request.go always have
   their types, a worker is inside Merge exactly while its request is, and every
   request relies on what is still so. *)
THEOREM PRCorrect == PRSpec => []PRInv
<1>1. PRInit => PRInv
  <2> SUFFICES ASSUME PRInit PROVE TypeOK /\ TablesOK /\ Served
    BY TypeParts
  <2>1. TypeOK
    BY InitTyped DEF PRInit
  <2>2. NoRequest \in Request /\ NoReview \in Review /\ NoReview.pc = "idle"
    BY EmptyTable DEF NoRequest, NoReview, Request, Review, Rows, NoPR
  <2>3. TablesOK
    BY <2>2, EmptyTable DEF PRInit, TablesOK
  <2>4. Served
    BY Zenon DEF PRInit, Init, Served, Fits, Kept, NoRequest, Idle
  <2> QED
    BY <2>1, <2>3, <2>4
<1>2. PRInv /\ [PRNext]_vars => PRInv'
  <2> SUFFICES ASSUME PRInv, [PRNext]_vars PROVE PRInv'
    OBVIOUS
  <2>1. TypeOK'
    BY GitStep, NextTyped, TypeParts
  <2>2. TablesOK' /\ Served'
    BY TablesTyped, ServedHolds
  <2> QED
    BY <2>1, <2>2, Zenon DEF PRInv, PRTypeOK, TablesOK, Served, Fits
<1> QED
  BY <1>1, <1>2, PTL DEF PRSpec

(* The type invariant of the pull request handlers, for any number of pull
   requests, workers, reviewers and commits. *)
THEOREM PRTypeCorrect == PRSpec => []PRTypeOK
<1>1. PRInv => PRTypeOK
  BY DEF PRInv
<1> QED
  BY <1>1, PRCorrect, PTL

(* The handlers drive git the way GitMerge.tla has it, so everything proved there
   about Merge holds of merges of pull requests. *)
THEOREM DrivesMerge == PRSpec => Spec
<1>1. PRInit => Init
  BY DEF PRInit
<1>2. PRInv /\ [PRNext]_vars => [Next]_gitvars
  BY GitStep
<1> QED
  BY <1>1, <1>2, PRCorrect, PTL DEF PRSpec, Spec

(* The gate of CheckAndMergePullRequest holds until update-ref: reviews nobody
   touched since the merge was requested all approve one commit, and if the
   provider branch was not pushed to either, that commit is the one merged. *)
THEOREM GateCorrect == PRSpec => []GateHolds
<1>1. PRInv => GateHolds
  <2> SUFFICES ASSUME PRInv, NEW w \in Workers, job[w].pc = "updateRef"
               PROVE  /\ "reviews" \notin touched[w] => \E c \in DOMAIN objs : AllApprove(reviews[job[w].pr], c)
                      /\ touched[w] = {} => /\ AllApprove(reviews[job[w].pr], tracking[job[w].pr])
                                            /\ tracking[job[w].pr] = provider[job[w].pr]
    BY Zenon DEF GateHolds
  <2>1. Fits(w) /\ Kept(w)
    BY DEF PRInv, Served
  <2>2. req[w].pc = "merging" /\ job[w].pr = req[w].pr
    BY <2>1 DEF Fits
  <2> QED
    BY <2>1, <2>2, Zenon DEF Kept
<1> QED
  BY <1>1, PRCorrect, PTL

(* Nobody but the reviewer changes a review, whoever assigns whom meanwhile: rows
   are updated by SubmitPullRequestReview alone, and INSERT OR IGNORE leaves the
   row of a reviewer who has one. *)
THEOREM ReviewsStand == PRSpec => ReviewsAreTheirs
<1> DEFINE Own == \A p \in PullRequests : \A u \in DOMAIN reviews[p] \cap DOMAIN reviews'[p] :
                    reviews'[p][u] # reviews[p][u] => rev[u].pc = "submit" /\ rev'[u].pc = "idle"
<1>1. PRInv /\ [PRNext]_vars => [Own]_vars
  <2> SUFFICES ASSUME PRInv, [PRNext]_vars PROVE Own
    OBVIOUS
  <2>1. TablesOK
    BY TypeParts
  <2>2. CASE UNCHANGED reviews
    BY <2>2
  <2>3. ASSUME NEW u \in Reviewers, SubmitReview(u) PROVE Own
    <3>1. rev[u].pc = "submit" /\ rev'[u].pc = "idle"
      BY <2>1, <2>3, Zenon DEF SubmitReview, TablesOK, NoReview
    <3>2. \A p \in PullRequests : \A x \in DOMAIN reviews[p] \ {u} : reviews'[p][x] = reviews[p][x]
      BY <2>1, <2>3, TableIs DEF SubmitReview, TablesOK
    <3> QED
      BY <3>1, <3>2
  <2>4. ASSUME NEW a \in pending, Assign(a) PROVE Own
    <3>1. a.pr \in PullRequests
      BY <2>1 DEF TablesOK
    <3>2. \A u \in DOMAIN reviews[a.pr] \cap DOMAIN reviews'[a.pr] : reviews'[a.pr][u] = reviews[a.pr][u]
      BY <2>1, <2>4, <3>1 DEF Assign, TablesOK, InsertOrIgnore, DeleteRow
    <3>3. \A p \in PullRequests \ {a.pr} : reviews'[p] = reviews[p]
      BY <2>1, <2>4 DEF Assign, TablesOK
    <3> QED
      BY <3>2, <3>3
  <2>5. ASSUME NEW w \in Workers, RequestStep(w) \/ RecordFails(w) \/ Drop(w) PROVE UNCHANGED reviews
    BY <2>5 DEF RequestStep, RecordFails, Drop, CheckFetch, CheckMergeTree, StoreCheck, ReadReviews, Gate, Merging, Record
  <2>6. ASSUME NEW p \in PullRequests,
               \/ New(p) \/ CloseAsNotMerged(p) \/ Reopen(p)
               \/ \E w \in Workers, m \in MergeMethods \cup {"check"} : StartRequest(w, p, m)
               \/ \E u \in Reviewers : OpenPage(u, p)
               \/ \E u \in Reviewers, op \in {"add", "remove"} : SendAssignment(op, u, p)
               \/ PushToProvider(p)
        PROVE  UNCHANGED reviews
    BY <2>6, Zenon DEF New, CloseAsNotMerged, Reopen, SetStatus, StartRequest, OpenPage, SendAssignment, PushToProvider
  <2>7. ASSUME NEW u \in Reviewers,
               \/ \E v \in {"approved", "changes"} : SendReview(u, v)
               \/ CheckAssigned(u) \/ ReadTipForReview(u)
        PROVE  UNCHANGED reviews
    BY <2>7 DEF SendReview, CheckAssigned, ReadTipForReview
  <2>8. ASSUME UNCHANGED prvars \/ UNCHANGED vars PROVE UNCHANGED reviews
    BY <2>8 DEF prvars, vars
  <2> QED
    BY <2>2, <2>3, <2>4, <2>5, <2>6, <2>7, <2>8, Zenon DEF PRNext
<1> QED
  BY <1>1, PRCorrect, PTL DEF PRSpec, ReviewsAreTheirs

----
(* Merges that are recorded *)

(* The workers that have moved the branch for p and not yet said so. *)
Waiting(p) == {w \in Workers : job[w].pc = "merged" /\ req[w].pc = "merging" /\ req[w].pr = p}

(* Every event, and every worker about to write one, has a move of the branch. *)
CountInv ==
  \A p \in PullRequests :
    /\ IsFiniteSet(Waiting(p))
    /\ merges[p] + Cardinality(Waiting(p)) <= landed[p]
    /\ status[p] = "merged" => merges[p] > 0

(* A step that records nothing and lands nothing, after which no further worker
   waits, keeps the count. *)
LEMMA CountKept ==
  ASSUME PRInv, CountInv, UNCHANGED <<merges, landed>>,
         \A p \in PullRequests : Waiting(p)' \subseteq Waiting(p),
         \A p \in PullRequests : status'[p] = "merged" => status[p] = "merged"
  PROVE  CountInv'
<1> SUFFICES ASSUME NEW p \in PullRequests
             PROVE  /\ IsFiniteSet(Waiting(p)')
                    /\ merges[p] + Cardinality(Waiting(p)') <= landed[p]
                    /\ status'[p] = "merged" => merges[p] > 0
  BY DEF CountInv
<1>1. merges[p] \in Nat /\ landed[p] \in Nat
  BY TypeParts DEF TablesOK
<1>2. IsFiniteSet(Waiting(p)) /\ merges[p] + Cardinality(Waiting(p)) <= landed[p]
  BY DEF CountInv
<1>3. IsFiniteSet(Waiting(p)') /\ Cardinality(Waiting(p)') <= Cardinality(Waiting(p))
  BY <1>2, FS_Subset
<1>4. Cardinality(Waiting(p)) \in Nat /\ Cardinality(Waiting(p)') \in Nat
  BY <1>2, <1>3, FS_CardinalityType
<1>5. status'[p] = "merged" => merges[p] > 0
  BY DEF CountInv
<1> QED
  BY <1>1, <1>2, <1>3, <1>4, <1>5

LEMMA OneJoins ==
  ASSUME NEW S, IsFiniteSet(S), NEW x, x \notin S, NEW T, T = S \cup {x}
  PROVE  IsFiniteSet(T) /\ Cardinality(T) = Cardinality(S) + 1
BY FS_AddElement

LEMMA OneLeaves ==
  ASSUME NEW S, IsFiniteSet(S), NEW x \in S, NEW T, T = S \ {x}
  PROVE  IsFiniteSet(T) /\ Cardinality(T) = Cardinality(S) - 1
BY FS_RemoveElement

LEMMA BothOneMore ==
  ASSUME NEW m \in Nat, NEW c \in Nat, NEW l \in Nat, m + c <= l, NEW d, d = c + 1, NEW k, k = l + 1
  PROVE  m + d <= k
OBVIOUS

LEMMA OneRecorded ==
  ASSUME NEW m \in Nat, NEW c \in Nat, NEW l \in Nat, m + c <= l, NEW k, k = m + 1, NEW d, d = c - 1
  PROVE  k + d <= l /\ k > 0
OBVIOUS

(* update-ref: one more move, one more worker that waits. *)
LEMMA LandingCounts ==
  ASSUME PRInv, CountInv, NEW w \in Workers, Merging(w)
  PROVE  CountInv'
<1>1. TypeOK /\ TablesOK /\ MergeStep(w)
  BY TypeParts DEF Merging
<1>2. job[w].pc # "merged" /\ \A v \in Workers \ {w} : job'[v] = job[v]
  BY <1>1, StepShape
<1>3. PICK q \in PullRequests : req[w].pc = "merging" /\ job[w].pr = q /\ req[w].pr = q
  BY <1>1, MergingOnly
<1>4. UNCHANGED <<merges, status>>
  BY DEF Merging
<1>5. \A v \in Workers \ {w} : req'[v] = req[v]
  BY <1>1 DEF Merging, TablesOK
<1>6. CASE job'[w].pc # "merged"
  <2>1. \A p \in PullRequests : Waiting(p)' \subseteq Waiting(p)
    BY <1>2, <1>5, <1>6 DEF Waiting
  <2>2. UNCHANGED landed
    BY <1>6 DEF Merging
  <2> QED
    BY <1>4, <2>1, <2>2, CountKept
<1>7. CASE job'[w].pc = "merged"
  <2>1. UNCHANGED req /\ landed' = [landed EXCEPT ![q] = @ + 1]
    BY <1>3, <1>7 DEF Merging
  <2>2. Waiting(q)' = Waiting(q) \cup {w} /\ w \notin Waiting(q)
    BY <1>2, <1>3, <1>7, <2>1 DEF Waiting
  <2>3. \A p \in PullRequests \ {q} : Waiting(p)' = Waiting(p) /\ landed'[p] = landed[p]
    BY <1>1, <1>2, <1>3, <1>7, <2>1 DEF Waiting, TablesOK
  <2>4. /\ IsFiniteSet(Waiting(q)) /\ merges[q] + Cardinality(Waiting(q)) <= landed[q]
        /\ merges[q] \in Nat /\ landed[q] \in Nat /\ Cardinality(Waiting(q)) \in Nat
    BY <1>1, <1>3, FS_CardinalityType, Zenon DEF CountInv, TablesOK
  <2>5. IsFiniteSet(Waiting(q)') /\ Cardinality(Waiting(q)') = Cardinality(Waiting(q)) + 1
    BY <2>2, <2>4, OneJoins, Zenon
  <2>6. landed'[q] = landed[q] + 1
    BY <1>1, <1>3, <2>1 DEF TablesOK
  <2>7. IsFiniteSet(Waiting(q)') /\ merges[q] + Cardinality(Waiting(q)') <= landed'[q]
    BY <2>4, <2>5, <2>6, BothOneMore, Zenon
  <2>8. \A p \in PullRequests \ {q} : IsFiniteSet(Waiting(p)') /\ merges[p] + Cardinality(Waiting(p)') <= landed'[p]
    BY <2>3, Zenon DEF CountInv
  <2>9. \A p \in PullRequests : status[p] = "merged" => merges[p] > 0
    BY DEF CountInv
  <2> QED
    BY <1>4, <2>7, <2>8, <2>9 DEF CountInv
<1> QED
  BY <1>6, <1>7

(* The last transaction: one worker fewer waits, one more event. *)
LEMMA RecordingCounts ==
  ASSUME PRInv, CountInv, NEW w \in Workers, Record(w)
  PROVE  CountInv'
<1>1. TypeOK /\ TablesOK /\ Fits(w)
  BY TypeParts DEF Served
<1>2. PICK q \in PullRequests : req[w].pr = q /\ w \in Waiting(q)
  BY <1>1 DEF Record, ReadyToRecord, Fits, Waiting
<1>3. /\ \A v \in Workers \ {w} : req'[v] = req[v] /\ job'[v] = job[v]
      /\ req'[w].pc = "idle" /\ UNCHANGED landed
  BY <1>1 DEF Record, End, Leave, TablesOK, TypeOK, NoRequest
<1>4. Waiting(q)' = Waiting(q) \ {w} /\ \A p \in PullRequests \ {q} : Waiting(p)' = Waiting(p)
  BY <1>2, <1>3 DEF Waiting
<1>5. /\ merges'[q] = merges[q] + 1
      /\ \A p \in PullRequests \ {q} : merges'[p] = merges[p] /\ status'[p] = status[p]
  BY <1>1, <1>2 DEF Record, TablesOK
<1>6. /\ IsFiniteSet(Waiting(q)) /\ merges[q] + Cardinality(Waiting(q)) <= landed[q]
      /\ merges[q] \in Nat /\ landed[q] \in Nat /\ Cardinality(Waiting(q)) \in Nat
  BY <1>1, <1>2, FS_CardinalityType, Zenon DEF CountInv, TablesOK
<1>7. IsFiniteSet(Waiting(q)') /\ Cardinality(Waiting(q)') = Cardinality(Waiting(q)) - 1
  BY <1>2, <1>4, <1>6, OneLeaves, Zenon
<1>8. IsFiniteSet(Waiting(q)') /\ merges'[q] + Cardinality(Waiting(q)') <= landed'[q] /\ merges'[q] > 0
  <2>1. landed'[q] = landed[q]
    BY <1>3
  <2>2. merges'[q] + Cardinality(Waiting(q)') <= landed[q] /\ merges'[q] > 0
    BY <1>5, <1>6, <1>7, OneRecorded, Zenon
  <2> QED
    BY <1>7, <2>1, <2>2, Zenon
<1>9. \A p \in PullRequests \ {q} : /\ IsFiniteSet(Waiting(p)') /\ merges'[p] + Cardinality(Waiting(p)') <= landed'[p]
                                    /\ status'[p] = "merged" => merges'[p] > 0
  BY <1>3, <1>4, <1>5 DEF CountInv
<1> QED
  BY <1>8, <1>9 DEF CountInv

(* A pull request says it was merged only if the receiver branch was moved for
   it: every event of CheckAndMergePullRequest has an update-ref of its own,
   whatever crashes, concurrent merges, closes and reopens come between. *)
THEOREM DeliveryCorrect == PRSpec => []MergedWasDelivered
<1>1. PRInit => CountInv
  <2> SUFFICES ASSUME PRInit, NEW p \in PullRequests
               PROVE  /\ IsFiniteSet(Waiting(p))
                      /\ merges[p] + Cardinality(Waiting(p)) <= landed[p]
                      /\ status[p] = "merged" => merges[p] > 0
    BY DEF CountInv
  <2>1. Waiting(p) = {}
    BY DEF PRInit, Init, Waiting, Idle
  <2>2. merges[p] = 0 /\ landed[p] = 0 /\ status[p] = "none"
    BY DEF PRInit
  <2> QED
    BY <2>1, <2>2, FS_EmptySet
<1>2. PRInv /\ CountInv /\ [PRNext]_vars => CountInv'
  <2> SUFFICES ASSUME PRInv, CountInv, [PRNext]_vars PROVE CountInv'
    OBVIOUS
  <2>1. TypeOK /\ TablesOK /\ Served
    BY TypeParts
  <2>2. ASSUME UNCHANGED <<merges, landed, status>>,
               \A v \in Workers : \/ job'[v] = job[v] /\ req'[v] = req[v]
                                  \/ req'[v].pc # "merging"
                                  \/ job'[v].pc # "merged"
        PROVE  CountInv'
    <3>1. \A p \in PullRequests : Waiting(p)' \subseteq Waiting(p)
      BY <2>2 DEF Waiting
    <3> QED
      BY <2>2, <3>1, CountKept
  <2>3. ASSUME UNCHANGED <<job, req, merges, landed, status>> PROVE CountInv'
    BY <2>2, <2>3
  <2>4. ASSUME NEW p \in PullRequests, New(p) \/ CloseAsNotMerged(p) \/ Reopen(p) PROVE CountInv'
    <3>1. \A x \in PullRequests : status'[x] = "merged" => status[x] = "merged"
      BY <2>1, <2>4 DEF New, CloseAsNotMerged, Reopen, SetStatus, TablesOK
    <3>2. UNCHANGED <<job, req, merges, landed>>
      BY <2>4 DEF New, CloseAsNotMerged, Reopen, SetStatus, gitvars
    <3>3. \A x \in PullRequests : Waiting(x)' \subseteq Waiting(x)
      BY <3>2 DEF Waiting
    <3> QED
      BY <3>1, <3>2, <3>3, CountKept
  <2>5. ASSUME NEW p \in PullRequests, NEW w \in Workers, NEW m \in MergeMethods \cup {"check"}, StartRequest(w, p, m)
        PROVE  CountInv'
    BY <2>1, <2>2, <2>5 DEF StartRequest, gitvars, TablesOK, NoRequest
  <2>6. ASSUME NEW w \in Workers, CheckFetch(w) \/ CheckMergeTree(w) PROVE CountInv'
    BY <2>1, <2>2, <2>6 DEF CheckFetch, CheckMergeTree, Step, gitvars, TablesOK, Request
  <2>7. ASSUME NEW w \in Workers, StoreCheck(w) PROVE CountInv'
    BY <2>1, <2>2, <2>7 DEF StoreCheck, Step, End, gitvars, TablesOK, Request, NoRequest
  <2>8. ASSUME NEW w \in Workers, ReadReviews(w) \/ Gate(w) PROVE CountInv'
    <3>1. job[w].pc = "idle"
      BY <2>1, <2>8 DEF Served, Fits, ReadReviews, Gate
    <3>2. job'[w].pc # "merged" /\ \A v \in Workers \ {w} : job'[v] = job[v]
      BY <2>1, <2>8, <3>1, Zenon DEF ReadReviews, Gate, Call, gitvars, TypeOK, Idle
    <3>3. \A v \in Workers \ {w} : req'[v] = req[v]
      BY <2>1, <2>8 DEF ReadReviews, Gate, Step, TablesOK
    <3>4. UNCHANGED <<merges, landed, status>>
      BY <2>8 DEF ReadReviews, Gate
    <3> QED
      BY <2>2, <3>2, <3>3, <3>4
  <2>9. ASSUME NEW w \in Workers, RecordFails(w) PROVE CountInv'
    BY <2>1, <2>2, <2>9 DEF RecordFails, Step, gitvars, TablesOK, Request
  <2>10. ASSUME NEW w \in Workers, Drop(w) PROVE CountInv'
    BY <2>1, <2>2, <2>10 DEF Drop, End, Leave, TablesOK, TypeOK, NoRequest
  <2>11. ASSUME NEW w \in Workers, RequestStep(w) PROVE CountInv'
    BY <2>6, <2>7, <2>8, <2>11, LandingCounts, RecordingCounts DEF RequestStep
  <2>12. ASSUME NEW p \in PullRequests,
                \/ \E u \in Reviewers : OpenPage(u, p)
                \/ \E u \in Reviewers, op \in {"add", "remove"} : SendAssignment(op, u, p)
                \/ PushToProvider(p)
                \/ Refresh(p) /\ UNCHANGED prvars
         PROVE  CountInv'
    BY <2>3, <2>12 DEF OpenPage, SendAssignment, PushToProvider, PushProvider, SyncFork, Refresh, gitvars, prvars
  <2>13. ASSUME NEW u \in Reviewers,
                \/ \E v \in {"approved", "changes"} : SendReview(u, v)
                \/ CheckAssigned(u) \/ ReadTipForReview(u) \/ SubmitReview(u)
         PROVE  CountInv'
    BY <2>3, <2>13 DEF SendReview, CheckAssigned, ReadTipForReview, SubmitReview, gitvars
  <2>14. ASSUME NEW a \in pending, Assign(a) PROVE CountInv'
    BY <2>3, <2>14 DEF Assign, gitvars
  <2>15. ASSUME PushReceiver, UNCHANGED prvars PROVE CountInv'
    BY <2>3, <2>15 DEF PushReceiver, prvars
  <2>16. ASSUME UNCHANGED vars PROVE CountInv'
    BY <2>3, <2>16 DEF vars, gitvars, prvars
  <2> QED
    BY <2>4, <2>5, <2>9, <2>10, <2>11, <2>12, <2>13, <2>14, <2>15, <2>16 DEF PRNext
<1>3. PRInv /\ CountInv => MergedWasDelivered
  <2> SUFFICES ASSUME PRInv, CountInv, NEW p \in PullRequests
               PROVE  merges[p] <= landed[p] /\ (status[p] = "merged" => merges[p] > 0)
    BY DEF MergedWasDelivered
  <2>1. Cardinality(Waiting(p)) \in Nat /\ merges[p] \in Nat /\ landed[p] \in Nat
    BY FS_CardinalityType, TypeParts DEF CountInv, TablesOK
  <2> QED
    BY <2>1 DEF CountInv
<1> QED
  BY <1>1, <1>2, <1>3, PRCorrect, PTL DEF PRSpec
====
