---- MODULE GitMerge ----
(***************************************************************************)
(* pkg/gitlib/merge.go: how a pull request's provider branch gets into the *)
(* receiver branch of a bare repository, and what else moves those refs    *)
(* meanwhile.  Every git command the code runs is one step, because each   *)
(* is a process that resolves the refs it is given anew; nothing locks the *)
(* repository between two of them.                                         *)
(*                                                                         *)
(* git itself is external.  A tree is the set of changes in it, a change   *)
(* being the number of the commit that introduced it; a commit is          *)
(* immutable, and `anc' is the set of commits reachable from it, itself    *)
(* included.  Commits are numbered in the order they are made, which is    *)
(* the order rev-list --reverse lists them in.                             *)
(***************************************************************************)
EXTENDS Integers, FiniteSets

CONSTANTS PullRequests,  \* each with a provider branch, all into one receiver branch
          Workers,       \* requests being served at the same time
          Conflicting,   \* pairs of changes that do not merge
          MaxCommits     \* bound: objects the store has room for

ASSUME BoundAssumption == MaxCommits \in Nat \ {0}

VARIABLES objs,      \* the commits, in whichever repository they are
          head,      \* refs/heads/<receiver branch>
          provider,  \* refs/heads/<provider branch> of each fork
          tracking,  \* refs/remotes/<remote>/<provider branch> in the receiver
          job,       \* the call to Merge each worker is in
          moved      \* the refs somebody else moved since the worker's fetch

gitvars == <<objs, head, provider, tracking, job, moved>>

None == 0       \* no commit; as a job's tip, the branch by its name
NoPR == "none"
MergeMethods == {"merge", "squash", "rebase"}

Anc(c) == IF c = None THEN {} ELSE objs[c].anc
Tree(c) == IF c = None THEN {} ELSE objs[c].tree

Fresh(c) == c \in 1..MaxCommits /\ c \notin DOMAIN objs /\ c - 1 \in DOMAIN objs
Full == MaxCommits \in DOMAIN objs

(* commit-tree <tree> -p a -p b; git ignores a parent given twice. *)
Write(c, tree, a, b) ==
  objs' = [x \in DOMAIN objs \cup {c} |->
             IF x = c THEN [tree |-> tree, anc |-> {c} \cup Anc(a) \cup Anc(b),
                            first |-> a, second |-> IF a = b THEN None ELSE b]
                      ELSE objs[x]]

(* A three-way merge: what both sides have, and what either added. *)
Merged(base, ours, theirs) == (ours \cap theirs) \cup ((ours \cup theirs) \ base)
Clash(base, ours, theirs) ==
  \E x \in ours \ base, y \in theirs \ base : {x, y} \in Conflicting

(* merge-base: the trees of the best common ancestors. *)
BaseTree(a, b) ==
  LET common == Anc(a) \cap Anc(b)
  IN  UNION {Tree(c) : c \in {x \in common : \A y \in common \ {x} : x \notin Anc(y)}}
MergeTree(a, b) == Merged(BaseTree(a, b), Tree(a), Tree(b))
Conflict(a, b) == Clash(BaseTree(a, b), Tree(a), Tree(b))

Idle == [pc |-> "idle", pr |-> NoPR, method |-> "merge",
         tree |-> {}, tipTree |-> {}, tip |-> None, todo |-> {}]

Init ==
  /\ objs = [c \in {1} |-> [tree |-> {1}, anc |-> {1}, first |-> None, second |-> None]]
  /\ head = 1
  /\ provider = [p \in PullRequests |-> 1]
  /\ tracking = [p \in PullRequests |-> None]
  /\ job = [w \in Workers |-> Idle]
  /\ moved = [w \in Workers |-> {}]

----
(* Bookkeeping of `moved' *)
Reading(w) == job[w].pc \notin {"idle", "fetch", "merged"}
HeadMoved ==
  [w \in Workers |-> IF Reading(w) /\ head' # head THEN moved[w] \cup {"head"} ELSE moved[w]]
TrackingMoved(p) ==
  [w \in Workers |-> IF Reading(w) /\ job[w].pr = p /\ tracking[p] # provider[p]
                     THEN moved[w] \cup {"tracking"} ELSE moved[w]]

(* git fetch <remote> <branch> *)
FetchBranch(p) == tracking' = [tracking EXCEPT ![p] = provider[p]]

Goto(w, pc) == job' = [job EXCEPT ![w].pc = pc]

(* Faulty variant: an error of a git command is lost, and the call goes on. *)
KeepJob(w) == UNCHANGED <<job, moved>>

(* A return from Merge *)
Leave(w) == job' = [job EXCEPT ![w] = Idle] /\ moved' = [moved EXCEPT ![w] = {}]

Call(w, p, m) ==
  /\ job[w].pc = "idle"
  /\ m \in MergeMethods
  /\ job' = [job EXCEPT ![w] = [Idle EXCEPT !.pc = "fetch", !.pr = p, !.method = m]]
  /\ UNCHANGED <<objs, head, provider, tracking, moved>>

Fetch(w) ==
  LET p == job[w].pr
  IN  /\ job[w].pc = "fetch"
      /\ FetchBranch(p)
      /\ moved' = [TrackingMoved(p) EXCEPT ![w] = {}]
      /\ Goto(w, IF job[w].method = "rebase" THEN "isAncestor" ELSE "writeTree")
      /\ UNCHANGED <<objs, head, provider>>

(* mergeCommit and squashCommit: writeMergeTree ... *)
WriteTree(w) ==
  LET theirs == tracking[job[w].pr]
  IN  /\ job[w].pc = "writeTree"
      /\ \/ Conflict(head, theirs) /\ Leave(w)
         \/ /\ ~Conflict(head, theirs)
            /\ job' = [job EXCEPT ![w].pc = "commitTree", ![w].tree = MergeTree(head, theirs)]
            /\ UNCHANGED moved
      /\ UNCHANGED <<objs, head, provider, tracking>>

(* Faulty variant: the commit is made on top of the provider branch. *)
ParentsSwapped(w) == <<tracking[job[w].pr], None>>

(* The parents the commit-tree of the method names. *)
Parents(w) == <<head, IF job[w].method = "merge" THEN tracking[job[w].pr] ELSE None>>

(* ... and commit-tree. *)
CommitTree(w) ==
  /\ job[w].pc = "commitTree"
  /\ \/ \E c \in 1..MaxCommits :
          /\ Fresh(c)
          /\ Write(c, job[w].tree, Parents(w)[1], Parents(w)[2])
          /\ job' = [job EXCEPT ![w].pc = "updateRef", ![w].tip = c, ![w].tree = {}]
          /\ UNCHANGED moved
     \/ Full /\ Leave(w) /\ UNCHANGED objs
  /\ UNCHANGED <<head, provider, tracking>>

(* isAncestor: an exit status other than zero, for whatever reason, is a no. *)
IsAncestor(w) ==
  /\ job[w].pc = "isAncestor"
  /\ \/ head \in Anc(tracking[job[w].pr]) /\ Goto(w, "revParse")
     \/ Goto(w, "revList")
  /\ UNCHANGED <<objs, head, provider, tracking, moved>>

RevParse(w) ==
  /\ job[w].pc = "revParse"
  /\ job' = [job EXCEPT ![w].pc = "updateRef", ![w].tip = tracking[job[w].pr]]
  /\ UNCHANGED <<objs, head, provider, tracking, moved>>

----
(* rebaseCommits *)

Continue(todo) == IF todo = {} THEN "updateRef" ELSE "readTip"

(* rev-list --no-merges <receiver>..<provider> *)
RevListOf(w) == {c \in Anc(tracking[job[w].pr]) \ Anc(head) : objs[c].second = None}

RevList(w) ==
  /\ job[w].pc = "revList"
  /\ job' = [job EXCEPT ![w].pc = Continue(RevListOf(w)), ![w].todo = RevListOf(w)]
  /\ UNCHANGED <<objs, head, provider, tracking, moved>>

(* Faulty variant: the branch is not looked up when nothing was replayed. *)
TipUnresolved(w) == job[w].tip

(* Until the first commit is replayed the tip is the branch, by name. *)
Tip(w) == IF job[w].tip = None THEN head ELSE job[w].tip

(* rev-parse <tip>^{tree} *)
ReadTip(w) ==
  /\ job[w].pc = "readTip"
  /\ job' = [job EXCEPT ![w].pc = "pick", ![w].tipTree = Tree(Tip(w))]
  /\ UNCHANGED <<objs, head, provider, tracking, moved>>

(* Faulty variant: the merge base is the replayed commit itself. *)
OwnTree(c) == Tree(c)

(* rev-parse <commit>^, the empty tree for a root commit *)
PickBase(c) == Tree(objs[c].first)

IsFirst(c, todo) == c \in todo /\ \A d \in todo : c <= d

(* Faulty variant: a commit that changes nothing is looked at again. *)
SameTodo(w, c) == job[w].todo

TodoAfter(w, c) == job[w].todo \ {c}

(* merge-tree --merge-base=<commit>^ <tip> <commit>, and the decision to drop
   a commit that changes nothing *)
Pick(w) ==
  /\ job[w].pc = "pick"
  /\ \E c \in job[w].todo :
       LET result == Merged(PickBase(c), Tree(Tip(w)), Tree(c))
       IN  /\ IsFirst(c, job[w].todo)
           /\ \/ Clash(PickBase(c), Tree(Tip(w)), Tree(c)) /\ Leave(w)
              \/ /\ ~Clash(PickBase(c), Tree(Tip(w)), Tree(c))
                 /\ result = job[w].tipTree
                 /\ job' = [job EXCEPT ![w].pc = Continue(TodoAfter(w, c)),
                                       ![w].todo = TodoAfter(w, c), ![w].tipTree = {}]
                 /\ UNCHANGED moved
              \/ /\ ~Clash(PickBase(c), Tree(Tip(w)), Tree(c))
                 /\ result # job[w].tipTree
                 /\ job' = [job EXCEPT ![w].pc = "replay", ![w].tree = result, ![w].tipTree = {}]
                 /\ UNCHANGED moved
  /\ UNCHANGED <<objs, head, provider, tracking>>

(* commit-tree of the replayed commit *)
Replay(w) ==
  /\ job[w].pc = "replay"
  /\ \E d \in job[w].todo :
       /\ IsFirst(d, job[w].todo)
       /\ \/ \E c \in 1..MaxCommits :
               /\ Fresh(c)
               /\ Write(c, job[w].tree, Tip(w), None)
               /\ job' = [job EXCEPT ![w].pc = Continue(job[w].todo \ {d}), ![w].tip = c,
                                     ![w].todo = @ \ {d}, ![w].tree = {}]
               /\ UNCHANGED moved
          \/ Full /\ Leave(w) /\ UNCHANGED objs
  /\ UNCHANGED <<head, provider, tracking>>

----
(* update-ref without an old value: whatever the branch is now, it becomes the
   commit.  A rebase that replayed nothing sets the branch to itself. *)
UpdateRef(w) ==
  /\ job[w].pc = "updateRef"
  /\ head' = Tip(w)
  /\ moved' = [HeadMoved EXCEPT ![w] = {}]
  /\ Goto(w, "merged")
  /\ UNCHANGED <<objs, provider, tracking>>

(* Merge has returned without an error. *)
Return(w) ==
  /\ job[w].pc = "merged"
  /\ Leave(w)
  /\ UNCHANGED <<objs, head, provider, tracking>>

(* A git command that fails for another reason, or the server going down. *)
Crash(w) ==
  /\ job[w].pc # "idle"
  /\ Leave(w)
  /\ UNCHANGED <<objs, head, provider, tracking>>

MergeStep(w) ==
  \/ Fetch(w) \/ WriteTree(w) \/ CommitTree(w)
  \/ IsAncestor(w) \/ RevParse(w)
  \/ RevList(w) \/ ReadTip(w) \/ Pick(w) \/ Replay(w)
  \/ UpdateRef(w)

----
(* The other users of the repositories *)

(* A push to the fork: a commit on top of the branch or, forced, of an older
   commit of it. *)
PushProvider(p) ==
  /\ \E c \in 1..MaxCommits, b \in Anc(provider[p]) :
       /\ Fresh(c)
       /\ Write(c, Tree(b) \cup {c}, b, None)
       /\ provider' = [provider EXCEPT ![p] = c]
  /\ UNCHANGED <<head, tracking, job, moved>>

(* The owner of the fork merges the receiver branch into it. *)
SyncFork(p) ==
  /\ \E c \in 1..MaxCommits :
       /\ Fresh(c) /\ head \notin Anc(provider[p]) /\ ~Conflict(provider[p], head)
       /\ Write(c, MergeTree(provider[p], head), provider[p], head)
       /\ provider' = [provider EXCEPT ![p] = c]
  /\ UNCHANGED <<head, tracking, job, moved>>

(* A push to the receiver branch. *)
PushReceiver ==
  /\ \E c \in 1..MaxCommits :
       /\ Fresh(c)
       /\ Write(c, Tree(head) \cup {c}, head, None)
       /\ head' = c
  /\ moved' = HeadMoved
  /\ UNCHANGED <<provider, tracking, job>>

(* The update hook of the fork (refreshForkComparison, FetchRemoteBranch), or
   anybody's merge check, fetches the provider branch. *)
Refresh(p) ==
  /\ FetchBranch(p)
  /\ moved' = TrackingMoved(p)
  /\ UNCHANGED <<objs, head, provider, job>>

Environment ==
  \/ \E p \in PullRequests : PushProvider(p) \/ SyncFork(p) \/ Refresh(p)
  \/ PushReceiver

Next ==
  \/ \E w \in Workers, p \in PullRequests, m \in MergeMethods : Call(w, p, m)
  \/ \E w \in Workers : MergeStep(w) \/ Return(w) \/ Crash(w)
  \/ Environment

Spec == Init /\ [][Next]_gitvars

(* The goroutine serving a request keeps running. *)
FairSpec == Spec /\ \A w \in Workers : WF_gitvars(MergeStep(w)) /\ WF_gitvars(Return(w))

----
(* Properties *)

CommitOver(S) == [tree : SUBSET S, anc : SUBSET S, first : S \cup {None}, second : S \cup {None}]
PCs == {"idle", "fetch", "writeTree", "commitTree", "isAncestor", "revParse", "revList",
        "readTip", "pick", "replay", "updateRef", "merged"}
JobOver(S) == [pc : PCs, pr : PullRequests \cup {NoPR}, method : MergeMethods,
               tree : SUBSET S, tipTree : SUBSET S, tip : S \cup {None}, todo : SUBSET S]

(* No ref, no commit and no call in progress names an object that is not in
   the store. *)
TypeOK ==
  /\ DOMAIN objs \subseteq 1..MaxCommits
  /\ objs \in [DOMAIN objs -> CommitOver(DOMAIN objs)]
  /\ head \in DOMAIN objs
  /\ provider \in [PullRequests -> DOMAIN objs]
  /\ tracking \in [PullRequests -> DOMAIN objs \cup {None}]
  /\ job \in [Workers -> JobOver(DOMAIN objs)]
  /\ \A w \in Workers : job[w].pc # "idle" => job[w].pr \in PullRequests
  /\ moved \in [Workers -> SUBSET {"head", "tracking"}]

KeepsReceiverIn(w) ==
  /\ job[w].pc = "updateRef"
  /\ "head" \notin moved[w]
  /\ job[w].method = "rebase" => "tracking" \notin moved[w]
  => Anc(head) \subseteq Anc(Tip(w))

(* A merge loses nothing that was on the receiver branch: the commit that
   Merge is about to move the branch to descends from the branch, unless
   somebody else moved the branch since the fetch, or, for the fast-forward
   of a rebase, the provider branch was fetched again between isAncestor and
   rev-parse. *)
KeepsReceiver == \A w \in Workers : KeepsReceiverIn(w)

LossOnlyInRace ==
  \/ Anc(head) \subseteq Anc(head)'
  \/ \E w \in Workers : job[w].pc = "updateRef" /\ job'[w].pc = "merged" /\ moved[w] # {}

(* Commits leave the receiver branch in one way only: through the update-ref of
   a merge one of whose refs somebody else had moved.  No crash, error return
   or other step of two merges going on at once takes anything from it. *)
LosesOnlyInRace == [][LossOnlyInRace]_gitvars

Added(c) == Tree(c) \ Tree(objs[c].first)
Removed(c) == Tree(objs[c].first) \ Tree(c)

(* What a rebase of these commits owes: whatever the receiver branch has or one
   of them adds, unless one of them removes it. *)
Replayed(w, commits) ==
  \A x \in DOMAIN objs :
    /\ x \in Tree(head) \/ \E c \in commits : x \in Added(c)
    /\ \A c \in commits : x \notin Removed(c)
    => x \in Tree(Tip(w))

DeliversProviderIn(w) ==
  job[w].pc = "updateRef" /\ moved[w] = {} =>
    LET theirs == tracking[job[w].pr]
    IN  \/ /\ job[w].method # "rebase"
           /\ Tree(Tip(w)) = MergeTree(head, theirs)
           /\ job[w].method = "merge" => theirs \in Anc(Tip(w))
        \/ job[w].method = "rebase" /\ (Tip(w) = theirs \/ Replayed(w, RevListOf(w)))

(* A merge delivers the pull request whole: if neither ref moved since the
   fetch, the branch becomes the merge of the two (for a merge commit with
   the provider branch in its history), the provider branch itself, or a
   commit that has everything the replayed commits and the receiver branch
   have, the commits that rebaseCommits dropped included.  No half-rebased
   branch is left behind. *)
DeliversProvider == \A w \in Workers : DeliversProviderIn(w)

(* Every call to Merge returns: the loop of rebaseCommits makes progress on
   every commit, the dropped ones included. *)
Finishes == \A w \in Workers : job[w].pc # "idle" ~> job[w].pc = "idle"

(* docs/pull-request.org says of a squash: "a single commit whose tree is the
   merge result; its only parent is the receiver branch".  merge-tree and
   commit-tree resolve the receiver branch one after the other. *)
SquashIsMergeResult ==
  \A w \in Workers :
    job[w].pc = "updateRef" /\ job[w].method = "squash" /\ "tracking" \notin moved[w] =>
      Tree(Tip(w)) = MergeTree(objs[Tip(w)].first, tracking[job[w].pr])
====
