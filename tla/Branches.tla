---- MODULE Branches ----
(***************************************************************************)
(* What the pages of a forked repository do to its branches and tags: the  *)
(* edit of a file (routes/controller/branch.go, fast-import.go), the       *)
(* creation and deletion of refs (repo-refs.go, pkg/gitlib/refs.go), and   *)
(* the sync with the repository it was forked from (branch.go,             *)
(* repository.go).  A git command is one step; fast-import, which reads    *)
(* the branch when it starts and moves it when it ends, is two.            *)
(*                                                                         *)
(* Commits are numbered; of a commit only what it reaches is kept.  A      *)
(* request without the right to do what it asks for, or with a name git    *)
(* does not accept, is refused before it reads a ref and is left out; but  *)
(* for a sync, which is refused after the first fetch.                     *)
(* HEAD never changes: nothing in the program sets it.                     *)
(***************************************************************************)
EXTENDS Naturals

CONSTANTS Procs,       \* requests being served at the same time
          Names,       \* names of branches
          TagNames,    \* those that tags have too
          Default,     \* the branch HEAD points at, in both repositories
          Requests,    \* the requests made: "edit", "create", "delete", "sync"
          MaxCommits   \* bound: commits ever made

ASSUME NamesAssumption == Default \in Names /\ TagNames \subseteq Names
ASSUME ProcsAssumption == "git" \notin Procs
ASSUME CommitsAssumption == MaxCommits \in Nat

VARIABLES anc,       \* commit -> the commits it reaches, itself included
          heads,     \* refs/heads of the fork
          tags,      \* refs/tags of the fork
          upstream,  \* refs/heads of the repository it was forked from
          upTags,    \* there: refs/tags
          tracking,  \* there: refs/remotes/<the fork>
          stored,    \* the commits the fork has
          rq,        \* the request each process serves
          moved      \* whether a ref it relies on was moved by somebody else

vars == <<anc, heads, tags, upstream, upTags, tracking, stored, rq, moved>>
above == <<upstream, upTags, tracking>>
refs == <<heads, tags, above>>

None == 0
Anc(c) == IF c = None THEN {} ELSE anc[c]
Idle == [at |-> "idle", op |-> "none", name |-> Default, target |-> Default,
         commit |-> None, base |-> None, found |-> FALSE, todo |-> {}]

\* LocalForkTo has cloned the repository, which may have been empty.
Init ==
    \E c \in {None, 1} :
        /\ anc = [x \in {c} \ {None} |-> {x}]
        /\ heads = [n \in Names |-> c]
        /\ upstream = heads /\ tracking = heads
        /\ tags = [n \in TagNames |-> None]
        /\ upTags = tags
        /\ stored = {c} \ {None}
        /\ rq = [p \in Procs |-> Idle]
        /\ moved = [p \in Procs |-> FALSE]

Fresh(c) == c \in 1..MaxCommits /\ DOMAIN anc = 1..(c - 1)
Write(c, reached) == anc' = [x \in DOMAIN anc \cup {c} |-> IF x = c THEN {c} \cup reached ELSE anc[x]]

Goto(p, r) == rq' = [rq EXCEPT ![p] = r]
Go(p, at) == Goto(p, [rq[p] EXCEPT !.at = at])
Ends(p) == Goto(p, Idle)
Settles(p) == moved' = [moved EXCEPT ![p] = FALSE]
Fails(p) == Ends(p) /\ Settles(p) /\ UNCHANGED <<anc, refs, stored>>

\* Bookkeeping: what becomes of branch n matters to the request of q, and n is
\* moved by p, a process or "git".
Watches(q, n) == rq[q].name = n /\ rq[q].at \in {"base", "listA", "listB", "fetchOrigin", "put"}
Disturbs(n, p) ==
    moved' = [q \in Procs |-> q # p /\ (moved[q] \/ (Watches(q, n) /\ heads'[n] # heads[n]))]
SetBranch(n, c, p) == heads' = [heads EXCEPT ![n] = c] /\ Disturbs(n, p)

-----------------------------------------------------------------------------
\* The edit of a file: AddFileToRepoString and AddFileToRepoReader, and the
\* update-ref after them.

\* SyncBranch: without the branch the commit gets no parent.
StartEdit(p, n) ==
    /\ rq[p].at = "idle" /\ "edit" \in Requests
    /\ Goto(p, [Idle EXCEPT !.at = "import", !.op = "edit", !.name = n, !.found = heads[n] # None])
    /\ UNCHANGED <<anc, refs, stored, moved>>

\* fast-import, the commit: "from refs/heads/<branch>^0" is looked up now.  It
\* fails if the branch is gone, and may fail over anything else.
Import(p) ==
    LET n == rq[p].name IN
    /\ rq[p].at = "import"
    /\ \/ Fails(p)
       \/ /\ rq[p].found => heads[n] # None
          /\ \E c \in 1..MaxCommits :
                /\ Fresh(c) /\ Write(c, IF rq[p].found THEN Anc(heads[n]) ELSE {})
                /\ stored' = stored \cup {c}
                /\ Goto(p, [rq[p] EXCEPT !.at = "dump", !.commit = c])
          /\ UNCHANGED <<refs, moved>>

\* A fault: fast-import --force.
AnyTip(c, old) == TRUE
\* Its end: a branch is not moved to a commit that does not contain it.
Contains(c, old) == old = None \/ old \in anc[c]

Dump(p) ==
    LET n == rq[p].name  c == rq[p].commit IN
    /\ rq[p].at = "dump"
    /\ \/ ~Contains(c, heads[n]) /\ Fails(p)
       \/ /\ Contains(c, heads[n])
          /\ SetBranch(n, c, p) /\ Go(p, "put")
          /\ UNCHANGED <<anc, tags, above, stored>>

\* update-ref refs/heads/<branch> <commit>, whatever the branch is by now; also
\* UpdateRef, at the end of a sync.
Put(p) ==
    LET n == rq[p].name  c == rq[p].commit IN
    /\ rq[p].at = "put"
    /\ \/ c \notin stored /\ Fails(p)
       \/ /\ c \in stored
          /\ SetBranch(n, c, p) /\ Ends(p)
          /\ UNCHANGED <<anc, tags, above, stored>>

-----------------------------------------------------------------------------
\* createRef and deleteRef

RefOf(op, n) == IF op = "branch" THEN heads[n] ELSE tags[n]
SetRef(op, n, c, p) ==
    \/ op = "branch" /\ SetBranch(n, c, p) /\ UNCHANGED tags
    \/ op = "tag" /\ tags' = [tags EXCEPT ![n] = c] /\ UNCHANGED <<heads, moved>>

StartCreate(p, op, n, target) ==
    /\ rq[p].at = "idle" /\ "create" \in Requests
    /\ RefOf(op, n) = None
    /\ Goto(p, [Idle EXCEPT !.at = "resolve", !.op = op, !.name = n, !.target = target])
    /\ UNCHANGED <<anc, refs, stored, moved>>

\* rev-parse <target>^{commit}: a tag goes before a branch of the same name.
Resolve(p) ==
    LET t == rq[p].target
        c == IF t \in TagNames /\ tags[t] # None THEN tags[t] ELSE heads[t] IN
    /\ rq[p].at = "resolve"
    /\ \/ c = None /\ Fails(p)
       \/ /\ c # None
          /\ Goto(p, [rq[p] EXCEPT !.at = "create", !.commit = c])
          /\ UNCHANGED <<anc, refs, stored, moved>>

\* A fault: update-ref without the empty old value.
Overwrites(op, n) == TRUE
\* update-ref <ref> <commit> "": git refuses if the ref has appeared.
Vacant(op, n) == RefOf(op, n) = None

Create(p) ==
    LET r == rq[p] IN
    /\ r.at = "create"
    /\ \/ ~Vacant(r.op, r.name) /\ Fails(p)
       \/ /\ Vacant(r.op, r.name)
          /\ SetRef(r.op, r.name, r.commit, p) /\ Ends(p)
          /\ UNCHANGED <<anc, above, stored>>

\* A fault: the branch HEAD points at may be deleted.
AnyName(op, n) == TRUE
\* DeleteBranch, DeleteTag: the checks ...
MayGo(op, n) == op = "branch" => n # Default

StartDelete(p, op, n) ==
    /\ rq[p].at = "idle" /\ "delete" \in Requests
    /\ MayGo(op, n) /\ RefOf(op, n) # None
    /\ Goto(p, [Idle EXCEPT !.at = "delete", !.op = op, !.name = n])
    /\ UNCHANGED <<anc, refs, stored, moved>>

\* ... and update-ref -d, whatever the ref is by now.
Delete(p) ==
    /\ rq[p].at = "delete"
    /\ SetRef(rq[p].op, rq[p].name, None, p) /\ Ends(p)
    /\ UNCHANGED <<anc, above, stored>>

-----------------------------------------------------------------------------
\* The sync with the upstream repository: ?ff on the page of a branch or of the
\* repository, which takes "main" or else the first branch.

Existing == {n \in Names : heads[n] # None}
Major == IF Default \in Existing THEN Default ELSE CHOOSE n \in Existing : TRUE

StartSync(p, page, n) ==
    /\ rq[p].at = "idle" /\ "sync" \in Requests
    /\ \/ page = "branch" /\ n \in Existing
       \/ page = "repository" /\ n = IF Existing = {} THEN Default ELSE Major
    /\ Goto(p, [Idle EXCEPT !.at = IF n \in Existing THEN "fetchFork" ELSE "fetchAll", !.op = page, !.name = n])
    /\ UNCHANGED <<anc, refs, stored, moved>>

\* git fetch --tags takes the tags that are missing and fails over those that
\* differ.
WithTags(own, others) == [n \in TagNames |-> IF own[n] # None THEN own[n] ELSE others[n]]
Clash == \E n \in TagNames : tags[n] # None /\ upTags[n] \notin {None, tags[n]}

\* FetchRemote of the upstream repository, from the fork.  Only then is the user
\* asked to be the owner of the fork.
FetchFork(p) ==
    /\ rq[p].at = "fetchFork"
    /\ tracking' = [n \in Names |-> IF heads[n] # None THEN heads[n] ELSE tracking[n]]
    /\ upTags' = WithTags(upTags, tags)
    /\ Settles(p)
    /\ \/ ~Clash /\ Go(p, "base")
       \/ Ends(p)
    /\ UNCHANGED <<anc, heads, tags, upstream, stored>>

\* CompareBranchWithRemote returns nothing: the page of the branch is shown as
\* it is, that of the repository syncs every branch.
NoComparison(p) ==
    \/ rq[p].op = "branch" /\ Fails(p)
    \/ rq[p].op = "repository" /\ Go(p, "fetchAll") /\ Settles(p) /\ UNCHANGED <<anc, refs, stored>>

\* CompareBranchWithRemote: merge-base ...
MergeBase(p) ==
    LET n == rq[p].name
        common == Anc(upstream[n]) \cap Anc(tracking[n]) IN
    /\ rq[p].at = "base"
    /\ \/ common = {} /\ NoComparison(p)
       \/ \E b \in common :
             /\ \A c \in common \ {b} : b \notin anc[c]
             /\ Goto(p, [rq[p] EXCEPT !.at = "listA", !.base = b])
             /\ UNCHANGED <<anc, refs, stored, moved>>

\* ... the commits only upstream has, of which the first is its branch ...
ListA(p) ==
    LET n == rq[p].name IN
    /\ rq[p].at = "listA"
    /\ \/ upstream[n] = None /\ NoComparison(p)
       \/ /\ upstream[n] # None
          /\ Goto(p, [rq[p] EXCEPT !.at = "listB",
                        !.commit = IF upstream[n] \in anc[rq[p].base] THEN None ELSE upstream[n]])
          /\ UNCHANGED <<anc, refs, stored, moved>>

\* A fault: the commits of the fork are not looked at.
OwnIgnored(p) == FALSE
\* ... and the commits only the fork has.
HasOwn(p) == tracking[rq[p].name] \notin anc[rq[p].base]

\* With commits of its own, or nothing new upstream, there is nothing to do; the
\* page of the repository fetches all the same.
ListB(p) ==
    LET behind == rq[p].commit # None /\ ~HasOwn(p) IN
    /\ rq[p].at = "listB"
    /\ \/ rq[p].op = "branch" /\ ~behind /\ Fails(p)
       \/ /\ rq[p].op = "repository" \/ behind
          /\ Goto(p, [rq[p] EXCEPT !.at = "fetchOrigin", !.commit = IF behind THEN @ ELSE None])
          /\ UNCHANGED <<anc, refs, stored, moved>>

\* FetchRemote of the fork, from "origin".  A bare clone has no refspec for it, so
\* that git fetches the branch HEAD points at, and the tags.
FetchStores ==
    /\ stored' = stored \cup Anc(upstream[Default]) \cup UNION {Anc(upTags[n]) : n \in TagNames}
    /\ tags' = WithTags(tags, upTags)

FetchOrigin(p) ==
    /\ rq[p].at = "fetchOrigin"
    /\ FetchStores
    /\ IF Clash \/ rq[p].commit = None THEN Ends(p) /\ Settles(p) ELSE Go(p, "put") /\ UNCHANGED moved
    /\ UNCHANGED <<anc, heads, above>>

\* SyncEmptyRepositoryFromRemote: fetch, ls-remote ...
FetchAll(p) ==
    /\ rq[p].at = "fetchAll"
    /\ FetchStores
    /\ IF Clash THEN Ends(p) ELSE Go(p, "lsRemote")
    /\ UNCHANGED <<anc, heads, above, moved>>

Lines == {[kind |-> "branch", name |-> n, commit |-> upstream[n]] : n \in {x \in Names : upstream[x] # None}}
         \cup {[kind |-> "tag", name |-> n, commit |-> upTags[n]] : n \in {x \in TagNames : upTags[x] # None}}

LsRemote(p) ==
    /\ rq[p].at = "lsRemote"
    /\ IF Lines = {} THEN Ends(p) ELSE Goto(p, [rq[p] EXCEPT !.at = "putAll", !.todo = Lines])
    /\ UNCHANGED <<anc, refs, stored, moved>>

\* ... and an update-ref for every line of it, until one fails.
PutAll(p) ==
    /\ rq[p].at = "putAll"
    /\ \E line \in rq[p].todo :
          /\ line.kind = "tag" => \A other \in rq[p].todo : other.kind = "tag"
          /\ \/ line.commit \notin stored /\ Fails(p)
             \/ /\ line.commit \in stored
                /\ SetRef(line.kind, line.name, line.commit, p)
                /\ LET left == rq[p].todo \ {line} IN
                   IF left = {} THEN Ends(p) ELSE Goto(p, [rq[p] EXCEPT !.todo = left])
                /\ UNCHANGED <<anc, above, stored>>

-----------------------------------------------------------------------------
\* Pushes, to the fork and to upstream: on top of a branch, forced to an older
\* commit of it, to a new branch, or the deletion of a branch, which git refuses
\* for the one HEAD points at; and a new tag upstream.  What happens upstream
\* matters to syncs only.

Commits(h, n, c, b) == Fresh(c) /\ b \in (IF h[n] = None THEN {None} ELSE Anc(h[n])) /\ Write(c, Anc(b))

Push(n) ==
    /\ \/ \E c \in 1..MaxCommits, b \in 0..MaxCommits :
             Commits(heads, n, c, b) /\ stored' = stored \cup {c} /\ SetBranch(n, c, "git")
       \/ heads[n] # None /\ n # Default /\ SetBranch(n, None, "git") /\ UNCHANGED <<anc, stored>>
    /\ UNCHANGED <<tags, above, rq>>

PushUpstream(n) ==
    /\ "sync" \in Requests
    /\ \/ \E c \in 1..MaxCommits, b \in 0..MaxCommits :
             /\ Commits(upstream, n, c, b)
             /\ upstream' = [upstream EXCEPT ![n] = c]
             /\ moved' = [q \in Procs |-> moved[q] \/ (Watches(q, n) /\ b # upstream[n])]
       \/ /\ upstream[n] # None /\ n # Default
          /\ upstream' = [upstream EXCEPT ![n] = None]
          /\ moved' = [q \in Procs |-> moved[q] \/ Watches(q, n)]
          /\ UNCHANGED anc
    /\ UNCHANGED <<heads, tags, upTags, tracking, stored, rq>>

TagUpstream(n) ==
    /\ "sync" \in Requests
    /\ upTags[n] = None /\ upstream[Default] # None
    /\ upTags' = [upTags EXCEPT ![n] = upstream[Default]]
    /\ UNCHANGED <<anc, heads, tags, upstream, tracking, stored, rq, moved>>

Next ==
    \/ \E p \in Procs :
          \/ Import(p) \/ Dump(p) \/ Put(p) \/ Resolve(p) \/ Create(p) \/ Delete(p)
          \/ FetchFork(p) \/ MergeBase(p) \/ ListA(p) \/ ListB(p) \/ FetchOrigin(p)
          \/ FetchAll(p) \/ LsRemote(p) \/ PutAll(p)
          \/ \E n \in Names :
                \/ StartEdit(p, n)
                \/ \E op \in {"branch", "tag"} :
                      /\ op = "tag" => n \in TagNames
                      /\ StartDelete(p, op, n) \/ \E t \in Names : StartCreate(p, op, n, t)
                \/ \E page \in {"branch", "repository"} : StartSync(p, page, n)
    \/ \E n \in Names : Push(n) \/ PushUpstream(n)
    \/ \E n \in TagNames : TagUpstream(n)

Spec == Init /\ [][Next]_vars

-----------------------------------------------------------------------------
\* Properties

\* A commit leaves a branch in four ways only: a push, whose business it is, the
\* deletion of a branch HEAD does not point at, the update-ref after an edit or
\* a sync whose branch somebody else has moved meanwhile (it names no old
\* value), and the sync of every branch, made when no comparison was possible.
\* That sync is also the only thing that moves a tag.  A ref that appears while
\* another request is creating it stays as it is.
LossOnlyInRace ==
    /\ \A n \in Names :
          \/ Anc(heads[n]) \subseteq Anc(heads[n])'
          \/ rq' = rq
          \/ \E p \in Procs :
                /\ rq'[p] # rq[p]
                /\ \/ rq[p].at = "put" /\ rq[p].name = n /\ moved[p]
                   \/ rq[p].at = "delete" /\ rq[p].name = n /\ n # Default
                   \/ rq[p].at = "putAll"
    /\ \A n \in TagNames : tags[n] # None /\ tags'[n] \notin {None, tags[n]} =>
          \E p \in Procs : rq'[p] # rq[p] /\ rq[p].at = "putAll"
    /\ \A p \in Procs : rq'[p] # rq[p] /\ rq[p].at = "create" =>
          \A n \in Names : heads[n] # None => heads'[n] = heads[n]

\* Every step of a request, and every push, keeps to LossOnlyInRace: what the
\* update-ref calls without an old value may take from a branch, and no more.
BranchesKeep == [][LossOnlyInRace]_vars
====
