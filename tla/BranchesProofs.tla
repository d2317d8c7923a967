---- MODULE BranchesProofs ----
(***************************************************************************)
(* How commits leave the branches of a fork (Branches.tla), for any number *)
(* of requests, names and commits.  The update-ref at the end of an edit   *)
(* or a sync names no old value; what makes it harmless while nobody else  *)
(* moves the branch is that the commit it sets contains the branch, which  *)
(* Unmoved carries through the comparison, the fetch and the import.       *)
(***************************************************************************)
EXTENDS Branches, Sequences, FiniteSetTheorems, TLAPS

Stages == {"idle", "import", "dump", "put", "resolve", "create", "delete", "fetchFork", "base", "listA", "listB",
           "fetchOrigin", "fetchAll", "lsRemote", "putAll"}
Request ==
    [at : Stages, op : {"none", "edit", "branch", "tag", "repository"}, name : Names, target : Names,
     commit : Nat, base : Nat, found : BOOLEAN,
     todo : SUBSET [kind : {"branch", "tag"}, name : Names, commit : Nat]]

Tips == {None} \cup DOMAIN anc

\* Commits are numbered from one, and reach themselves and what those they
\* reach do.
Reaches ==
    /\ DOMAIN anc \subseteq Nat \ {None}
    /\ anc \in [DOMAIN anc -> SUBSET DOMAIN anc]
    /\ \A c \in DOMAIN anc : c \in anc[c] /\ \A x \in anc[c] : anc[x] \subseteq anc[c]

RefsOK ==
    /\ heads \in [Names -> Tips] /\ upstream \in [Names -> Tips] /\ tracking \in [Names -> Tips]
    /\ tags \in [TagNames -> Tips] /\ upTags \in [TagNames -> Tips]

Known(r) == r.commit \in Tips /\ r.base \in Tips /\ \A line \in r.todo : line.commit \in Tips

\* What a request may count on while nobody else moves its branch.
Unmoved(r) ==
    /\ r.at \in {"base", "listA", "listB"} => heads[r.name] = None \/ tracking[r.name] = heads[r.name]
    /\ r.at = "listA" => r.base \in Anc(upstream[r.name])
    /\ r.at = "listB" /\ r.commit # None => r.base \in Anc(r.commit)
    /\ r.at \in {"fetchOrigin", "put"} /\ r.commit # None => Anc(heads[r.name]) \subseteq Anc(r.commit)

Stage(r, m) ==
    /\ r.at \in {"listA", "listB"} => r.base # None
    /\ r.at \in {"dump", "put", "create"} => r.commit # None
    /\ r.at = "delete" /\ r.op = "branch" => r.name # Default
    /\ ~m => Unmoved(r)

BranchInv ==
    /\ Reaches /\ RefsOK
    /\ rq \in [Procs -> Request] /\ moved \in [Procs -> BOOLEAN]
    /\ \A p \in Procs : Known(rq[p]) /\ Stage(rq[p], moved[p])

\* Commits are never taken back.
Grows == DOMAIN anc \subseteq DOMAIN anc' /\ \A c \in DOMAIN anc : anc'[c] = anc[c]

\* A step of somebody else that q has to notice has marked it; any other leaves
\* its branch alone, at most fetches it, and at most adds to the one upstream.
Undisturbed(q) ==
    LET n == rq[q].name IN
    rq[q].at \in {"base", "listA", "listB", "fetchOrigin", "put"} =>
        \/ moved'[q]
        \/ /\ ~moved[q] /\ heads'[n] = heads[n]
           /\ heads[n] = None \/ tracking'[n] \in {tracking[n], heads[n]}
           /\ Anc(upstream[n]) \subseteq Anc(upstream[n])'

-----------------------------------------------------------------------------
\* Commits

(* A commit reaches what a commit it reaches reaches. *)
LEMMA Transitive ==
  ASSUME Reaches, NEW c \in Tips, NEW d \in Tips, c \in Anc(d)
  PROVE  Anc(c) \subseteq Anc(d)
BY DEF Reaches, Tips, Anc, None

(* New commits change nothing about old ones. *)
LEMMA OldCommits ==
  ASSUME Reaches, Grows, NEW c \in Tips
  PROVE  Anc(c)' = Anc(c) /\ c \in Tips' /\ Anc(c) \subseteq DOMAIN anc
BY DEF Reaches, Grows, Tips, Anc, None

(* A new commit on top of a branch, or of nothing. *)
LEMMA NewCommit ==
  ASSUME Reaches, NEW c \in 1..MaxCommits, Fresh(c), NEW d \in Tips, Write(c, Anc(d))
  PROVE  /\ Grows /\ Reaches'
         /\ c \in Tips' /\ c # None
         /\ Anc(c)' = {c} \cup Anc(d)
<1>1. c \in Nat \ {None} /\ c \notin DOMAIN anc
  BY CommitsAssumption DEF Fresh, None
<1>2. /\ DOMAIN anc' = DOMAIN anc \cup {c} /\ anc'[c] = {c} \cup Anc(d)
      /\ \A x \in DOMAIN anc : anc'[x] = anc[x]
  BY <1>1 DEF Write
<1>3. Anc(d) \subseteq DOMAIN anc /\ \A x \in Anc(d) : anc[x] \subseteq Anc(d)
  BY DEF Reaches, Anc, Tips
<1>4. anc' \in [DOMAIN anc' -> SUBSET DOMAIN anc']
  BY <1>1, <1>2, <1>3 DEF Write, Reaches
<1>5. \A x \in DOMAIN anc' : x \in anc'[x] /\ \A y \in anc'[x] : anc'[y] \subseteq anc'[x]
  BY <1>1, <1>2, <1>3 DEF Reaches
<1> QED
  BY <1>1, <1>2, <1>4, <1>5 DEF Grows, Reaches, Tips, Anc

LEMMA SameCommits ==
  ASSUME Reaches, UNCHANGED anc
  PROVE  Grows /\ Reaches' /\ Tips' = Tips
BY DEF Grows, Reaches, Tips

-----------------------------------------------------------------------------
\* Requests

LEMMA IdleFacts ==
  Idle \in Request /\ Idle.at = "idle" /\ Idle.commit = None /\ Idle.base = None /\ Idle.todo = {}
BY NamesAssumption DEF Idle, Request, Stages, None

(* What a request that goes on keeps. *)
LEMMA GoesOn ==
  ASSUME NEW r \in Request, NEW at \in Stages, NEW c \in Nat
  PROVE  /\ [r EXCEPT !.at = at] \in Request
         /\ [r EXCEPT !.at = at, !.commit = c] \in Request
         /\ [r EXCEPT !.at = at, !.base = c] \in Request
BY Zenon DEF Request

(* A request that a step of somebody else leaves alone or has marked can count
   on the same as before. *)
LEMMA OthersKeep ==
  ASSUME BranchInv, Grows, NEW q \in Procs, rq'[q] = rq[q], Undisturbed(q)
  PROVE  Known(rq[q])' /\ Stage(rq[q], moved[q])'
<1> PICK s \in Request : s = rq[q] /\ s = rq'[q]
  BY DEF BranchInv
<1>1. Known(s) /\ Stage(s, moved[q])
  BY DEF BranchInv
<1>2. Reaches /\ s.name \in Names /\ s.commit \in Tips /\ s.base \in Tips
  BY <1>1 DEF BranchInv, Request, Known
<1>3. Known(s)'
  BY <1>1, <1>2, OldCommits DEF Known
<1>4. ASSUME ~moved'[q] PROVE Unmoved(s)'
  <2>1. CASE s.at \in {"base", "listA", "listB", "fetchOrigin", "put"}
    <3>1. /\ ~moved[q] /\ heads'[s.name] = heads[s.name]
          /\ heads[s.name] = None \/ tracking'[s.name] \in {tracking[s.name], heads[s.name]}
          /\ Anc(upstream[s.name]) \subseteq Anc(upstream[s.name])'
      BY <1>4, <2>1 DEF Undisturbed
    <3>2. Unmoved(s)
      BY <1>1, <3>1 DEF Stage
    <3>3. Anc(s.commit)' = Anc(s.commit)
      BY <1>2, OldCommits
    <3>4. Anc(heads[s.name])' = Anc(heads[s.name])
      <4> PICK h \in Tips : h = heads[s.name] /\ h = heads'[s.name]
        BY <1>2, <3>1 DEF BranchInv, RefsOK
      <4>1. Anc(h)' = Anc(h)
        BY <1>2, OldCommits
      <4> QED
        BY <4>1
    <3> QED
      BY <3>1, <3>2, <3>3, <3>4 DEF Unmoved
  <2>2. CASE s.at \notin {"base", "listA", "listB", "fetchOrigin", "put"}
    BY <2>2 DEF Unmoved
  <2> QED
    BY <2>1, <2>2
<1>5. Stage(s, moved[q])'
  BY <1>1, <1>4 DEF Stage
<1> QED
  BY <1>3, <1>5

(* The invariant is kept when the request of p is in order after the step and
   nobody else was disturbed unawares. *)
LEMMA StepKeeps ==
  ASSUME BranchInv, Grows, Reaches', RefsOK', moved' \in [Procs -> BOOLEAN],
         NEW p \in Procs, NEW r \in Request, rq' = [rq EXCEPT ![p] = r],
         Known(r)', Stage(r, moved[p])',
         \A q \in Procs : q # p => Undisturbed(q)
  PROVE  BranchInv'
<1>1. rq' \in [Procs -> Request] /\ rq'[p] = r /\ \A q \in Procs : q # p => rq'[q] = rq[q]
  BY DEF BranchInv
<1>2. Known(rq[p])' /\ Stage(rq[p], moved[p])'
  BY <1>1
<1>3. \A q \in Procs : q # p => Known(rq[q])' /\ Stage(rq[q], moved[q])'
  BY <1>1, OthersKeep
<1> QED
  BY <1>1, <1>2, <1>3 DEF BranchInv

(* The same for a step that is no request's: a push, say. *)
LEMMA PushKeeps ==
  ASSUME BranchInv, Grows, Reaches', RefsOK', moved' \in [Procs -> BOOLEAN], rq' = rq, tags' = tags,
         \A q \in Procs : Undisturbed(q)
  PROVE  BranchInv' /\ LossOnlyInRace
<1>1. \A q \in Procs : Known(rq[q])' /\ Stage(rq[q], moved[q])'
  BY OthersKeep
<1> QED
  BY <1>1 DEF BranchInv, LossOnlyInRace

(* While the branches stay as they are and tags only appear, nothing is lost. *)
LEMMA NothingLost ==
  ASSUME BranchInv, Grows, heads' = heads, \A n \in TagNames : tags[n] # None => tags'[n] = tags[n]
  PROVE  LossOnlyInRace
<1>1. \A n \in Names : Anc(heads[n]) \subseteq Anc(heads[n])'
  <2> SUFFICES ASSUME NEW n \in Names PROVE Anc(heads[n]) \subseteq Anc(heads[n])'
    OBVIOUS
  <2> PICK h \in Tips : h = heads[n] /\ h = heads'[n]
    BY DEF BranchInv, RefsOK
  <2> QED
    BY OldCommits DEF BranchInv
<1> QED
  BY <1>1 DEF LossOnlyInRace

(* A step that moves no branch: the request goes on, or ends. *)
LEMMA FetchStep ==
  ASSUME BranchInv, UNCHANGED <<anc, heads, above>>,
         tags' \in [TagNames -> Tips], \A n \in TagNames : tags[n] # None => tags'[n] = tags[n],
         NEW p \in Procs, NEW r \in Request, rq' = [rq EXCEPT ![p] = r], Known(r),
         \/ UNCHANGED moved /\ Stage(r, moved[p])
         \/ Settles(p) /\ Stage(r, FALSE)
  PROVE  BranchInv' /\ LossOnlyInRace
<1>1. Reaches /\ Grows /\ Reaches' /\ Tips' = Tips
  BY SameCommits DEF BranchInv
<1>2. RefsOK'
  BY <1>1 DEF BranchInv, RefsOK, above
<1>3. moved' \in [Procs -> BOOLEAN] /\ \A q \in Procs : q # p => moved'[q] = moved[q]
  BY Zenon DEF BranchInv, Settles
<1>4. \A n : Anc(n)' = Anc(n) /\ Anc(upstream[n])' = Anc(upstream[n])
  BY DEF Anc, above
<1>5. \A q \in Procs : q # p => Undisturbed(q)
  BY <1>3, <1>4 DEF Undisturbed, above, BranchInv
<1>6. Known(r)' /\ Stage(r, moved[p])'
  <2>1. Known(r)'
    BY <1>1 DEF Known
  <2>2. Unmoved(r)' <=> Unmoved(r)
    BY DEF Unmoved, Anc, above
  <2>3. CASE UNCHANGED moved /\ Stage(r, moved[p])
    <3>1. moved'[p] = moved[p]
      BY <2>3
    <3> QED
      BY <2>1, <2>2, <2>3, <3>1 DEF Stage
  <2>4. CASE Settles(p) /\ Stage(r, FALSE)
    <3>1. ~moved'[p] /\ Unmoved(r)
      BY <2>4 DEF Settles, BranchInv, Stage
    <3> QED
      BY <2>1, <2>2, <2>4, <3>1 DEF Stage
  <2> QED
    BY <2>3, <2>4, Zenon
<1>7. BranchInv'
  BY <1>1, <1>2, <1>3, <1>5, <1>6, StepKeeps, Zenon
<1> QED
  BY <1>1, <1>7, NothingLost

(* A step that moves no ref at all. *)
LEMMA QuietStep ==
  ASSUME BranchInv, UNCHANGED <<anc, refs>>,
         NEW p \in Procs, NEW r \in Request, rq' = [rq EXCEPT ![p] = r], Known(r),
         \/ UNCHANGED moved /\ Stage(r, moved[p])
         \/ Settles(p) /\ Stage(r, FALSE)
  PROVE  BranchInv' /\ LossOnlyInRace
<1>1. UNCHANGED <<anc, heads, above>> /\ tags' = tags /\ tags' \in [TagNames -> Tips]
  BY DEF refs, BranchInv, RefsOK
<1> QED
  BY <1>1, FetchStep, Zenon

LEMMA FailsStep ==
  ASSUME BranchInv, NEW p \in Procs, Fails(p)
  PROVE  BranchInv' /\ LossOnlyInRace
<1>1. /\ Idle \in Request /\ rq' = [rq EXCEPT ![p] = Idle] /\ Settles(p) /\ UNCHANGED <<anc, refs>>
  BY IdleFacts DEF Fails, Ends, Goto
<1>2. Known(Idle) /\ Stage(Idle, FALSE)
  BY IdleFacts DEF Known, Stage, Unmoved, Tips
<1> QED
  BY <1>1, <1>2, QuietStep, Zenon

(* A request begins with nothing but names. *)
LEMMA StartStep ==
  ASSUME BranchInv, NEW p \in Procs, NEW r \in Request, rq' = [rq EXCEPT ![p] = r],
         r.commit = None, r.base = None, r.todo = {}, r.at \in {"import", "resolve", "delete", "fetchFork", "fetchAll"},
         r.at = "delete" /\ r.op = "branch" => r.name # Default,
         UNCHANGED <<anc, refs, stored, moved>>
  PROVE  BranchInv' /\ LossOnlyInRace
<1>1. Known(r) /\ Stage(r, moved[p])
  BY DEF Known, Stage, Unmoved, Tips
<1> QED
  BY <1>1, QuietStep, Zenon

LEMMA StartsStep ==
  ASSUME BranchInv, NEW p \in Procs, NEW n \in Names,
         \/ StartEdit(p, n)
         \/ \E op \in {"branch", "tag"}, m \in Names : StartDelete(p, op, n) \/ StartCreate(p, op, n, m)
         \/ \E page \in {"branch", "repository"} : StartSync(p, page, n)
  PROVE  BranchInv' /\ LossOnlyInRace
<1>1. CASE StartEdit(p, n)
  <2> PICK r : r = [Idle EXCEPT !.at = "import", !.op = "edit", !.name = n, !.found = heads[n] # None]
    OBVIOUS
  <2>1. /\ r \in Request /\ r.at = "import"
        /\ r.commit = None /\ r.base = None /\ r.todo = {}
    BY NamesAssumption, Zenon DEF Idle, Request, Stages, None
  <2>2. rq' = [rq EXCEPT ![p] = r]
    BY <1>1 DEF StartEdit, Goto
  <2> QED
    BY <1>1, <2>1, <2>2, StartStep, Zenon DEF StartEdit
<1>2. ASSUME NEW op \in {"branch", "tag"}, StartDelete(p, op, n) PROVE BranchInv' /\ LossOnlyInRace
  <2> PICK r : r = [Idle EXCEPT !.at = "delete", !.op = op, !.name = n]
    OBVIOUS
  <2>1. /\ r \in Request /\ r.at = "delete" /\ r.op = op /\ r.name = n
        /\ r.commit = None /\ r.base = None /\ r.todo = {}
    BY NamesAssumption, Zenon DEF Idle, Request, Stages, None
  <2>2. rq' = [rq EXCEPT ![p] = r]
    BY <1>2 DEF StartDelete, Goto
  <2> QED
    BY <1>2, <2>1, <2>2, StartStep, Zenon DEF StartDelete, MayGo
<1>3. ASSUME NEW op \in {"branch", "tag"}, NEW m \in Names, StartCreate(p, op, n, m)
      PROVE  BranchInv' /\ LossOnlyInRace
  <2> PICK r : r = [Idle EXCEPT !.at = "resolve", !.op = op, !.name = n, !.target = m]
    OBVIOUS
  <2>1. /\ r \in Request /\ r.at = "resolve"
        /\ r.commit = None /\ r.base = None /\ r.todo = {}
    BY NamesAssumption, Zenon DEF Idle, Request, Stages, None
  <2>2. rq' = [rq EXCEPT ![p] = r]
    BY <1>3, Zenon DEF StartCreate, Goto
  <2> QED
    BY <1>3, <2>1, <2>2, StartStep, Zenon DEF StartCreate
<1>4. ASSUME NEW page \in {"branch", "repository"}, StartSync(p, page, n) PROVE BranchInv' /\ LossOnlyInRace
  <2> PICK r : r = [Idle EXCEPT !.at = IF n \in Existing THEN "fetchFork" ELSE "fetchAll", !.op = page, !.name = n]
    OBVIOUS
  <2>1. /\ r \in Request /\ r.at \in {"fetchFork", "fetchAll"}
        /\ r.commit = None /\ r.base = None /\ r.todo = {}
    BY NamesAssumption, Zenon DEF Idle, Request, Stages, None
  <2>2. rq' = [rq EXCEPT ![p] = r]
    BY <1>4 DEF StartSync, Goto
  <2> QED
    BY <1>4, <2>1, <2>2, StartStep, Zenon DEF StartSync
<1> QED
  BY <1>1, <1>2, <1>3, <1>4

-----------------------------------------------------------------------------
\* The steps of requests that read refs

LEMMA ResolveStep ==
  ASSUME BranchInv, NEW p \in Procs, Resolve(p)
  PROVE  BranchInv' /\ LossOnlyInRace
<1>1. CASE Fails(p)
  BY <1>1, FailsStep
<1>2. CASE ~Fails(p)
  <2> PICK c \in Tips \ {None} :
         /\ rq' = [rq EXCEPT ![p] = [rq[p] EXCEPT !.at = "create", !.commit = c]]
         /\ UNCHANGED <<anc, refs, stored, moved>>
    BY <1>2, Zenon DEF Resolve, Goto, BranchInv, RefsOK, Request
  <2> PICK r : r = [rq[p] EXCEPT !.at = "create", !.commit = c]
    OBVIOUS
  <2>1. rq[p] \in Request /\ Known(rq[p]) /\ c \in Nat
    BY DEF BranchInv, Reaches, Tips
  <2>2. r \in Request
    BY <2>1, GoesOn, Zenon DEF Stages
  <2>3. r.at = "create" /\ r.commit = c /\ r.base = rq[p].base /\ r.todo = rq[p].todo
    BY <2>1 DEF Request
  <2>4. Known(r) /\ Stage(r, moved[p])
    BY <2>1, <2>3 DEF Known, Stage, Unmoved
  <2> QED
    BY <2>2, <2>4, QuietStep, Zenon
<1> QED
  BY <1>1, <1>2

(* NoComparison ends the request, or turns it into the sync of every branch. *)
LEMMA NoComparisonStep ==
  ASSUME BranchInv, NEW p \in Procs, NoComparison(p)
  PROVE  BranchInv' /\ LossOnlyInRace
<1>1. CASE Fails(p)
  BY <1>1, FailsStep
<1>2. CASE Go(p, "fetchAll") /\ Settles(p) /\ UNCHANGED <<anc, refs, stored>>
  <2> PICK r : r = [rq[p] EXCEPT !.at = "fetchAll"]
    BY Zenon
  <2>1. rq[p] \in Request /\ Known(rq[p])
    BY DEF BranchInv
  <2>2. r \in Request
    BY <2>1, GoesOn, Zenon DEF Stages
  <2>3. r.at = "fetchAll" /\ r.commit = rq[p].commit /\ r.base = rq[p].base /\ r.todo = rq[p].todo
    BY <2>1 DEF Request
  <2>4. Known(r) /\ Stage(r, FALSE)
    BY <2>1, <2>3 DEF Known, Stage, Unmoved
  <2> QED
    BY <1>2, <2>2, <2>4, QuietStep, Zenon DEF Go, Goto
<1> QED
  BY <1>1, <1>2 DEF NoComparison

LEMMA MergeBaseStep ==
  ASSUME BranchInv, NEW p \in Procs, MergeBase(p)
  PROVE  BranchInv' /\ LossOnlyInRace
<1>1. CASE NoComparison(p)
  BY <1>1, NoComparisonStep
<1>2. CASE ~NoComparison(p)
  <2> PICK b \in Anc(upstream[rq[p].name]) :
         /\ rq' = [rq EXCEPT ![p] = [rq[p] EXCEPT !.at = "listA", !.base = b]]
         /\ UNCHANGED <<anc, refs, stored, moved>>
    BY <1>2, Zenon DEF MergeBase, Goto
  <2> PICK r : r = [rq[p] EXCEPT !.at = "listA", !.base = b]
    OBVIOUS
  <2>1. rq[p] \in Request /\ Known(rq[p]) /\ Stage(rq[p], moved[p]) /\ rq[p].at = "base" /\ rq[p].name \in Names
    BY Zenon DEF BranchInv, MergeBase, Request
  <2>2. b \in DOMAIN anc /\ b \in Nat \ {None}
    <3>1. upstream[rq[p].name] \in Tips /\ Reaches
      BY <2>1 DEF BranchInv, RefsOK
    <3> QED
      BY <3>1 DEF Anc, Tips, Reaches
  <2>3. r \in Request
    BY <2>1, <2>2, GoesOn, Zenon DEF Stages
  <2>4. /\ r.at = "listA" /\ r.commit = rq[p].commit /\ r.base = b /\ r.todo = rq[p].todo
        /\ r.name = rq[p].name
    BY <2>1 DEF Request
  <2>5. Known(r) /\ Stage(r, moved[p])
    BY <2>1, <2>2, <2>4 DEF Known, Stage, Unmoved, Tips
  <2> QED
    BY <2>3, <2>5, QuietStep, Zenon
<1> QED
  BY <1>1, <1>2

LEMMA ListAStep ==
  ASSUME BranchInv, NEW p \in Procs, ListA(p)
  PROVE  BranchInv' /\ LossOnlyInRace
<1>1. CASE NoComparison(p)
  BY <1>1, NoComparisonStep
<1>2. CASE ~NoComparison(p)
  <2> PICK c \in {None, upstream[rq[p].name]} :
         /\ rq' = [rq EXCEPT ![p] = [rq[p] EXCEPT !.at = "listB", !.commit = c]]
         /\ UNCHANGED <<anc, refs, stored, moved>>
    BY <1>2, Zenon DEF ListA, Goto
  <2> PICK r : r = [rq[p] EXCEPT !.at = "listB", !.commit = c]
    OBVIOUS
  <2>1. rq[p] \in Request /\ Known(rq[p]) /\ Stage(rq[p], moved[p]) /\ rq[p].at = "listA" /\ rq[p].name \in Names
    BY DEF BranchInv, ListA, Request
  <2>2. c \in Tips /\ c \in Nat
    BY <2>1 DEF BranchInv, RefsOK, Reaches, Tips, None
  <2>3. r \in Request
    BY <2>1, <2>2, GoesOn, Zenon DEF Stages
  <2>4. /\ r.at = "listB" /\ r.commit = c /\ r.base = rq[p].base /\ r.todo = rq[p].todo
        /\ r.name = rq[p].name
    BY <2>1 DEF Request
  <2>5. Known(r) /\ Stage(r, moved[p])
    BY <2>1, <2>2, <2>4 DEF Known, Stage, Unmoved
  <2> QED
    BY <2>3, <2>5, QuietStep, Zenon
<1> QED
  BY <1>1, <1>2

(* The comparison says that the commit of upstream contains the branch. *)
LEMMA ListBStep ==
  ASSUME BranchInv, NEW p \in Procs, ListB(p)
  PROVE  BranchInv' /\ LossOnlyInRace
<1>1. CASE Fails(p)
  BY <1>1, FailsStep
<1>2. CASE ~Fails(p)
  <2> PICK c \in {None, rq[p].commit} :
         /\ c # None => tracking[rq[p].name] \in anc[rq[p].base]
         /\ rq' = [rq EXCEPT ![p] = [rq[p] EXCEPT !.at = "fetchOrigin", !.commit = c]]
         /\ UNCHANGED <<anc, refs, stored, moved>>
    BY <1>2, Zenon DEF ListB, Goto, HasOwn
  <2> PICK r : r = [rq[p] EXCEPT !.at = "fetchOrigin", !.commit = c]
    OBVIOUS
  <2>1. rq[p] \in Request /\ Known(rq[p]) /\ Stage(rq[p], moved[p]) /\ rq[p].at = "listB" /\ rq[p].name \in Names
    BY DEF BranchInv, ListB, Request
  <2>2. c \in Tips /\ c \in Nat
    BY <2>1 DEF BranchInv, Known, Reaches, Tips, None
  <2>3. r \in Request
    BY <2>1, <2>2, GoesOn, Zenon DEF Stages
  <2>4. /\ r.at = "fetchOrigin" /\ r.commit = c /\ r.base = rq[p].base /\ r.todo = rq[p].todo
        /\ r.name = rq[p].name
    BY <2>1 DEF Request
  <2>5. ASSUME ~moved[p], c # None PROVE Anc(heads[r.name]) \subseteq Anc(c)
    <3>1. c = rq[p].commit /\ r.base \in Tips \ {None} /\ r.base \in Anc(c) /\ Reaches
      BY <2>1, <2>4, <2>5 DEF Stage, Unmoved, Known, BranchInv
    <3>2. Anc(r.base) \subseteq Anc(c)
      BY <2>2, <3>1, Transitive
    <3>3. tracking[r.name] \in Tips /\ tracking[r.name] \in Anc(r.base)
      BY <2>1, <2>4, <2>5, <3>1 DEF BranchInv, RefsOK, Anc
    <3>4. Anc(tracking[r.name]) \subseteq Anc(r.base)
      BY <3>1, <3>3, Transitive
    <3>5. heads[r.name] = None \/ tracking[r.name] = heads[r.name]
      BY <2>1, <2>4, <2>5 DEF Stage, Unmoved
    <3>6. Anc(None) = {}
      BY DEF Anc
    <3> QED
      BY <3>2, <3>4, <3>5, <3>6
  <2>6. Known(r) /\ Stage(r, moved[p])
    BY <2>1, <2>2, <2>4, <2>5 DEF Known, Stage, Unmoved
  <2> QED
    BY <2>3, <2>6, QuietStep, Zenon
<1> QED
  BY <1>1, <1>2

LEMMA LsRemoteStep ==
  ASSUME BranchInv, NEW p \in Procs, LsRemote(p)
  PROVE  BranchInv' /\ LossOnlyInRace
<1>1. rq[p] \in Request /\ Known(rq[p]) /\ UNCHANGED <<anc, refs, stored, moved>>
  BY DEF BranchInv, LsRemote
<1>2. CASE Ends(p)
  <2>1. Known(Idle) /\ Stage(Idle, moved[p]) /\ Idle \in Request
    BY IdleFacts DEF Known, Stage, Unmoved, Tips
  <2> QED
    BY <1>1, <1>2, <2>1, QuietStep, Zenon DEF Ends, Goto
<1>3. CASE ~Ends(p)
  <2> PICK lines : lines = Lines
    OBVIOUS
  <2> PICK r : r = [rq[p] EXCEPT !.at = "putAll", !.todo = lines]
    OBVIOUS
  <2>1. /\ \A line \in lines : line.commit \in Tips
        /\ lines \subseteq [kind : {"branch", "tag"}, name : Names, commit : Nat]
    BY NamesAssumption DEF Lines, BranchInv, RefsOK, Reaches, Tips, None
  <2>2. r \in Request /\ r.at = "putAll" /\ r.todo = lines /\ r.commit = rq[p].commit /\ r.base = rq[p].base
    BY <1>1, <2>1, Zenon DEF Request, Stages
  <2>3. Known(r) /\ Stage(r, moved[p])
    BY <1>1, <2>1, <2>2 DEF Known, Stage, Unmoved
  <2>4. rq' = [rq EXCEPT ![p] = r]
    BY <1>3 DEF LsRemote, Goto
  <2> QED
    BY <1>1, <2>2, <2>3, <2>4, QuietStep, Zenon
<1> QED
  BY <1>2, <1>3

(* Fetches: FetchRemote takes tags that are missing and moves none. *)
LEMMA TagsAppear ==
  ASSUME BranchInv, tags' = WithTags(tags, upTags)
  PROVE  tags' \in [TagNames -> Tips] /\ \A n \in TagNames : tags[n] # None => tags'[n] = tags[n]
BY DEF BranchInv, RefsOK, WithTags

LEMMA EndsAny ==
  Known(Idle) /\ \A m \in BOOLEAN : Stage(Idle, m)
BY IdleFacts DEF Known, Stage, Unmoved, Tips

LEMMA FetchOriginStep ==
  ASSUME BranchInv, NEW p \in Procs, FetchOrigin(p)
  PROVE  BranchInv' /\ LossOnlyInRace
<1>1. /\ rq[p] \in Request /\ Known(rq[p]) /\ Stage(rq[p], moved[p]) /\ rq[p].at = "fetchOrigin"
      /\ UNCHANGED <<anc, heads, above>>
      /\ tags' \in [TagNames -> Tips] /\ \A n \in TagNames : tags[n] # None => tags'[n] = tags[n]
  BY TagsAppear DEF FetchOrigin, FetchStores, BranchInv
<1>2. CASE Clash \/ rq[p].commit = None
  BY <1>1, <1>2, IdleFacts, EndsAny, FetchStep, Zenon DEF FetchOrigin, Ends, Goto
<1>3. CASE ~(Clash \/ rq[p].commit = None)
  <2> PICK r : r = [rq[p] EXCEPT !.at = "put"]
    BY Zenon
  <2>1. r \in Request /\ rq' = [rq EXCEPT ![p] = r] /\ UNCHANGED moved
    BY <1>1, <1>3, GoesOn, None \in Nat, Zenon DEF FetchOrigin, Go, Goto, Stages, None
  <2>2. /\ r.at = "put" /\ r.commit = rq[p].commit /\ r.base = rq[p].base /\ r.todo = rq[p].todo
        /\ r.name = rq[p].name
    BY <1>1 DEF Request
  <2>3. Known(r) /\ Stage(r, moved[p])
    BY <1>1, <1>3, <2>2 DEF Known, Stage, Unmoved
  <2> QED
    BY <1>1, <2>1, <2>3, FetchStep, Zenon
<1> QED
  BY <1>2, <1>3

LEMMA FetchAllStep ==
  ASSUME BranchInv, NEW p \in Procs, FetchAll(p)
  PROVE  BranchInv' /\ LossOnlyInRace
<1>1. /\ rq[p] \in Request /\ Known(rq[p]) /\ UNCHANGED <<anc, heads, above>> /\ UNCHANGED moved
      /\ moved[p] \in BOOLEAN
      /\ tags' \in [TagNames -> Tips] /\ \A n \in TagNames : tags[n] # None => tags'[n] = tags[n]
  BY TagsAppear DEF FetchAll, FetchStores, BranchInv
<1>2. CASE Clash
  BY <1>1, <1>2, IdleFacts, EndsAny, FetchStep, Zenon DEF FetchAll, Ends, Goto
<1>3. CASE ~Clash
  <2> PICK r : r = [rq[p] EXCEPT !.at = "lsRemote"]
    BY Zenon
  <2>1. r \in Request /\ rq' = [rq EXCEPT ![p] = r]
    BY <1>1, <1>3, GoesOn, Zenon DEF FetchAll, Go, Goto, Stages, None
  <2>2. r.at = "lsRemote" /\ r.commit = rq[p].commit /\ r.base = rq[p].base /\ r.todo = rq[p].todo
    BY <1>1 DEF Request
  <2>3. Known(r) /\ Stage(r, moved[p])
    BY <1>1, <2>2 DEF Known, Stage, Unmoved
  <2> QED
    BY <1>1, <2>1, <2>3, FetchStep, Zenon
<1> QED
  BY <1>2, <1>3

(* FetchFork leaves the fork as it is, and upstream knows all its branches. *)
LEMMA FetchForkStep ==
  ASSUME BranchInv, NEW p \in Procs, FetchFork(p)
  PROVE  BranchInv' /\ LossOnlyInRace
<1>1. Reaches /\ Grows /\ Reaches' /\ Tips' = Tips
  BY SameCommits DEF BranchInv, FetchFork
<1>2. RefsOK'
  BY <1>1 DEF BranchInv, RefsOK, FetchFork, WithTags
<1>3. moved' \in [Procs -> BOOLEAN] /\ ~moved'[p] /\ \A q \in Procs : q # p => moved'[q] = moved[q]
  BY DEF BranchInv, FetchFork, Settles
<1>4. \A n : Anc(upstream[n])' = Anc(upstream[n])
  BY DEF Anc, FetchFork
<1>5. \A q \in Procs : q # p => Undisturbed(q)
  <2> SUFFICES ASSUME NEW q \in Procs, q # p PROVE Undisturbed(q)
    OBVIOUS
  <2>1. rq[q].name \in Names
    BY DEF BranchInv, Request
  <2>2. tracking'[rq[q].name] \in {tracking[rq[q].name], heads[rq[q].name]} /\ heads' = heads
    BY <2>1 DEF FetchFork
  <2>3. moved'[q] = moved[q] /\ moved[q] \in BOOLEAN /\ rq'[q] = rq[q]
    BY <1>3 DEF BranchInv, FetchFork, Ends, Go, Goto
  <2> QED
    BY <1>4, <2>2, <2>3 DEF Undisturbed
<1>6. rq[p] \in Request /\ Known(rq[p])
  BY DEF BranchInv
<1>7. PICK r \in Request : rq' = [rq EXCEPT ![p] = r] /\ Known(r) /\ r.at \in {"idle", "base"}
  <2>1. CASE Ends(p)
    BY <2>1, IdleFacts, EndsAny, Zenon DEF Ends, Goto
  <2>2. CASE Go(p, "base")
    <3> PICK r : r = [rq[p] EXCEPT !.at = "base"]
      BY Zenon
    <3>1. r \in Request /\ r.at = "base" /\ r.commit = rq[p].commit /\ r.base = rq[p].base /\ r.todo = rq[p].todo
      BY <1>6 DEF Request, Stages
    <3> QED
      BY <1>6, <2>2, <3>1, Zenon DEF Go, Goto, Known
  <2> QED
    BY <2>1, <2>2 DEF FetchFork
<1>8. Known(r)' /\ Stage(r, moved[p])'
  <2>1. r.name \in Names
    BY DEF Request
  <2>2. heads'[r.name] = None \/ tracking'[r.name] = heads'[r.name]
    BY <2>1 DEF FetchFork
  <2> QED
    BY <1>1, <1>3, <1>7, <2>2 DEF Known, Stage, Unmoved
<1>9. BranchInv'
  BY <1>1, <1>2, <1>3, <1>5, <1>7, <1>8, StepKeeps, Zenon
<1> QED
  BY <1>1, <1>9, NothingLost DEF FetchFork

-----------------------------------------------------------------------------
\* The steps of requests that move a ref

(* A request notices that somebody else, a process or git, has moved its
   branch. *)
LEMMA OthersNotice ==
  ASSUME BranchInv, Grows, NEW n \in Names, NEW c, NEW p, SetBranch(n, c, p), UNCHANGED above,
         \A q \in Procs : q # p => rq'[q] = rq[q]
  PROVE  moved' \in [Procs -> BOOLEAN] /\ \A q \in Procs : q # p => Undisturbed(q)
<1>1. moved' \in [Procs -> BOOLEAN]
  BY DEF SetBranch, Disturbs, BranchInv
<1> SUFFICES ASSUME NEW q \in Procs, q # p PROVE Undisturbed(q)
  BY <1>1
<1>2. rq[q].name \in Names /\ moved[q] \in BOOLEAN
  BY DEF BranchInv, Request
<1>3. moved'[q] <=> moved[q] \/ (Watches(q, n) /\ heads'[n] # heads[n])
  BY Zenon DEF SetBranch, Disturbs
<1>4. rq[q].name # n => heads'[rq[q].name] = heads[rq[q].name]
  BY <1>2 DEF SetBranch, BranchInv, RefsOK
<1>5. Anc(upstream[rq[q].name])' = Anc(upstream[rq[q].name])
  <2> PICK u \in Tips : u = upstream[rq[q].name] /\ u = upstream'[rq[q].name] /\ Reaches
    BY <1>2 DEF BranchInv, RefsOK, above
  <2>1. Anc(u)' = Anc(u)
    BY OldCommits
  <2>2. rq'[q].name = rq[q].name
    OBVIOUS
  <2> QED
    BY <2>1, <2>2 DEF above
<1> QED
  BY <1>3, <1>4, <1>5 DEF Undisturbed, Watches, above

(* The heads and tags of a fork are commits after a ref was set to one. *)
LEMMA RefsStay ==
  ASSUME RefsOK, Grows, UNCHANGED above, NEW n, NEW c \in Tips',
         \/ heads' = [heads EXCEPT ![n] = c] /\ UNCHANGED tags
         \/ tags' = [tags EXCEPT ![n] = c] /\ UNCHANGED heads
  PROVE  RefsOK'
<1>1. Tips \subseteq Tips'
  BY DEF Grows, Tips
<1> QED
  BY <1>1 DEF RefsOK, above

(* What the step of a request may do to refs without losing more than it may. *)
LEMMA LossOf ==
  ASSUME BranchInv, UNCHANGED anc,
         NEW p \in Procs, NEW r \in Request, r # rq[p], rq' = [rq EXCEPT ![p] = r],
         \A n \in Names : heads'[n] # heads[n] =>
            /\ \/ Anc(heads[n]) \subseteq Anc(heads'[n])
               \/ rq[p].at = "put" /\ rq[p].name = n /\ moved[p]
               \/ rq[p].at = "delete" /\ rq[p].name = n /\ n # Default
               \/ rq[p].at = "putAll"
            /\ rq[p].at = "create" => heads[n] = None,
         \A n \in TagNames : tags'[n] # tags[n] => tags'[n] = None \/ tags[n] = None \/ rq[p].at = "putAll"
  PROVE  LossOnlyInRace
<1>1. rq'[p] # rq[p] /\ \A q \in Procs : rq'[q] # rq[q] => q = p
  BY DEF BranchInv
<1>2. \A n \in Names : Anc(heads[n])' = Anc(heads'[n])
  BY DEF Anc
<1> QED
  BY <1>1, <1>2 DEF LossOnlyInRace

\* The request of p may set a ref to c without losing more than that.
MaySet(p, op, n, c) ==
    \/ rq[p].at = "putAll"
    \/ /\ op = "branch" =>
             \/ Anc(heads[n]) \subseteq Anc(c)
             \/ rq[p].at = "put" /\ rq[p].name = n /\ moved[p]
             \/ rq[p].at = "delete" /\ rq[p].name = n /\ n # Default
       /\ op = "branch" /\ rq[p].at = "create" => heads[n] = None
       /\ op = "tag" => c = None \/ tags[n] = None

(* A request sets a branch or a tag, and goes on or ends. *)
LEMMA SetRefStep ==
  ASSUME BranchInv, UNCHANGED <<anc, above>>,
         NEW p \in Procs, NEW op, NEW n \in Names, NEW c \in Tips, SetRef(op, n, c, p),
         NEW r \in Request, r # rq[p], rq' = [rq EXCEPT ![p] = r], Known(r),
         \/ r.at \in {"idle", "putAll"}
         \/ r.at = "put" /\ r.name = n /\ r.commit = c /\ c # None /\ op = "branch",
         MaySet(p, op, n, c)
  PROVE  BranchInv' /\ LossOnlyInRace
<1>1. Reaches /\ Grows /\ Reaches' /\ Tips' = Tips
  BY SameCommits DEF BranchInv
<1>2. \A q \in Procs : q # p => rq'[q] = rq[q]
  BY DEF BranchInv
<1>3. CASE op = "branch"
  <2>1. SetBranch(n, c, p) /\ tags' = tags /\ heads' = [heads EXCEPT ![n] = c]
    BY <1>3 DEF SetRef, SetBranch
  <2>2. RefsOK'
    BY <1>1, <2>1, RefsStay, Zenon DEF BranchInv
  <2>3. moved' \in [Procs -> BOOLEAN] /\ \A q \in Procs : q # p => Undisturbed(q)
    BY <1>1, <1>2, <2>1, OthersNotice
  <2>4. heads'[n] = c /\ \A m \in Names : m # n => heads'[m] = heads[m]
    BY <2>1 DEF BranchInv, RefsOK
  <2>5. Known(r)' /\ Stage(r, moved[p])'
    BY <1>1, <2>4 DEF Known, Stage, Unmoved
  <2>6. BranchInv'
    BY <1>1, <2>2, <2>3, <2>5, StepKeeps, Zenon
  <2>7. LossOnlyInRace
    BY <1>3, <2>1, <2>4, LossOf, Zenon DEF MaySet
  <2> QED
    BY <2>6, <2>7
<1>4. CASE op = "tag"
  <2>1. tags' = [tags EXCEPT ![n] = c] /\ UNCHANGED <<heads, moved>>
    BY <1>4 DEF SetRef
  <2>2. RefsOK'
    BY <1>1, <2>1, RefsStay, Zenon DEF BranchInv
  <2>3. \A q \in Procs : q # p => Undisturbed(q)
    <3>1. \A m : Anc(upstream[m])' = Anc(upstream[m])
      BY DEF Anc, above
    <3> QED
      BY <1>2, <2>1, <3>1 DEF Undisturbed, above, BranchInv
  <2>4. Known(r)' /\ Stage(r, moved[p])'
    BY <1>1, <1>4 DEF Known, Stage, Unmoved
  <2>5. moved' \in [Procs -> BOOLEAN]
    BY <2>1 DEF BranchInv
  <2>6. BranchInv'
    BY <1>1, <2>2, <2>3, <2>4, <2>5, StepKeeps, Zenon
  <2>7. \A m \in TagNames : tags'[m] # tags[m] => m = n /\ tags'[m] = c
    BY <2>1 DEF BranchInv, RefsOK
  <2>8. LossOnlyInRace
    BY <1>4, <2>1, <2>7, LossOf, Zenon DEF MaySet
  <2> QED
    BY <2>6, <2>8
<1> QED
  BY <1>3, <1>4 DEF SetRef

(* The same for a request that ends. *)
LEMMA LastRefStep ==
  ASSUME BranchInv, UNCHANGED <<anc, above>>,
         NEW p \in Procs, NEW op, NEW n \in Names, NEW c \in Tips, SetRef(op, n, c, p),
         rq[p].at # "idle", Ends(p), MaySet(p, op, n, c)
  PROVE  BranchInv' /\ LossOnlyInRace
<1> PICK r : r = Idle
  OBVIOUS
<1>1. r \in Request /\ r # rq[p] /\ rq' = [rq EXCEPT ![p] = r] /\ Known(r) /\ r.at \in {"idle", "putAll"}
  BY IdleFacts, EndsAny DEF Ends, Goto
<1> QED
  BY <1>1, SetRefStep, Zenon

LEMMA DumpStep ==
  ASSUME BranchInv, NEW p \in Procs, Dump(p)
  PROVE  BranchInv' /\ LossOnlyInRace
<1>1. CASE Fails(p)
  BY <1>1, FailsStep
<1>2. CASE ~Fails(p)
  <2> PICK r : r = [rq[p] EXCEPT !.at = "put"]
    BY Zenon
  <2>1. /\ rq[p] \in Request /\ Known(rq[p]) /\ Stage(rq[p], moved[p]) /\ rq[p].at = "dump"
        /\ rq[p].name \in Names /\ rq[p].commit \in Tips /\ rq[p].commit # None
    BY DEF BranchInv, Dump, Request, Known, Stage
  <2>2. /\ r \in Request /\ r.at = "put" /\ r.commit = rq[p].commit /\ r.base = rq[p].base
        /\ r.todo = rq[p].todo /\ r.name = rq[p].name
    BY <2>1 DEF Request, Stages
  <2>3. /\ rq' = [rq EXCEPT ![p] = r] /\ UNCHANGED <<anc, above>>
        /\ SetRef("branch", rq[p].name, rq[p].commit, p)
        /\ Contains(rq[p].commit, heads[rq[p].name])
    BY <1>2 DEF Dump, Go, Goto, SetRef
  <2>4. Anc(heads[rq[p].name]) \subseteq Anc(rq[p].commit)
    <3>1. heads[rq[p].name] \in Tips /\ Reaches
      BY <2>1 DEF BranchInv, RefsOK
    <3>2. heads[rq[p].name] = None \/ heads[rq[p].name] \in Anc(rq[p].commit)
      BY <2>1, <2>3 DEF Contains, Anc
    <3> QED
      BY <2>1, <3>1, <3>2, Transitive DEF Anc
  <2>5. r # rq[p] /\ Known(r)
    BY <2>1, <2>2, Zenon DEF Known
  <2> QED
    BY <2>1, <2>2, <2>3, <2>4, <2>5, SetRefStep, ZenonT(40) DEF MaySet
<1> QED
  BY <1>1, <1>2

LEMMA PutStep ==
  ASSUME BranchInv, NEW p \in Procs, Put(p)
  PROVE  BranchInv' /\ LossOnlyInRace
<1>1. CASE Fails(p)
  BY <1>1, FailsStep
<1>2. CASE ~Fails(p)
  <2>1. /\ rq[p] \in Request /\ Known(rq[p]) /\ Stage(rq[p], moved[p]) /\ rq[p].at = "put"
        /\ rq[p].name \in Names /\ rq[p].commit \in Tips /\ moved[p] \in BOOLEAN
    BY DEF BranchInv, Put, Request, Known
  <2>2. Ends(p) /\ UNCHANGED <<anc, above>> /\ SetRef("branch", rq[p].name, rq[p].commit, p)
    BY <1>2 DEF Put, SetRef
  <2>3. moved[p] \/ Anc(heads[rq[p].name]) \subseteq Anc(rq[p].commit)
    BY <2>1 DEF Stage, Unmoved
  <2> QED
    BY <2>1, <2>2, <2>3, LastRefStep DEF MaySet
<1> QED
  BY <1>1, <1>2

LEMMA CreateStep ==
  ASSUME BranchInv, NEW p \in Procs, Create(p)
  PROVE  BranchInv' /\ LossOnlyInRace
<1>1. CASE Fails(p)
  BY <1>1, FailsStep
<1>2. CASE ~Fails(p)
  <2>1. /\ rq[p] \in Request /\ rq[p].at = "create" /\ rq[p].name \in Names /\ rq[p].commit \in Tips
    BY DEF BranchInv, Create, Request, Known
  <2>2. /\ Ends(p) /\ UNCHANGED <<anc, above>> /\ SetRef(rq[p].op, rq[p].name, rq[p].commit, p)
        /\ RefOf(rq[p].op, rq[p].name) = None
    BY <1>2 DEF Create, Vacant
  <2>3. /\ rq[p].op = "branch" => heads[rq[p].name] = None /\ Anc(heads[rq[p].name]) = {}
        /\ rq[p].op = "tag" => tags[rq[p].name] = None
    BY <2>2 DEF RefOf, Anc
  <2> QED
    BY <2>1, <2>2, <2>3, LastRefStep DEF MaySet
<1> QED
  BY <1>1, <1>2

LEMMA DeleteStep ==
  ASSUME BranchInv, NEW p \in Procs, Delete(p)
  PROVE  BranchInv' /\ LossOnlyInRace
<1>1. /\ rq[p] \in Request /\ rq[p].at = "delete" /\ rq[p].name \in Names /\ None \in Tips
      /\ rq[p].op = "branch" => rq[p].name # Default
  BY DEF BranchInv, Delete, Request, Stage, Tips
<1>2. Ends(p) /\ UNCHANGED <<anc, above>> /\ SetRef(rq[p].op, rq[p].name, None, p)
  BY DEF Delete
<1> QED
  BY <1>1, <1>2, LastRefStep DEF MaySet

LEMMA PutAllStep ==
  ASSUME BranchInv, NEW p \in Procs, PutAll(p)
  PROVE  BranchInv' /\ LossOnlyInRace
<1>1. CASE Fails(p)
  BY <1>1, FailsStep
<1>2. CASE ~Fails(p)
  <2>1. rq[p] \in Request /\ rq[p].at = "putAll" /\ Known(rq[p])
    BY DEF BranchInv, PutAll
  <2> PICK line \in rq[p].todo :
         /\ SetRef(line.kind, line.name, line.commit, p)
         /\ LET left == rq[p].todo \ {line} IN
            IF left = {} THEN Ends(p) ELSE Goto(p, [rq[p] EXCEPT !.todo = left])
         /\ UNCHANGED <<anc, above>>
    BY <1>2, Zenon DEF PutAll
  <2>2. line.name \in Names /\ line.commit \in Tips
    BY <2>1 DEF Request, Known
  <2>3. CASE rq[p].todo \ {line} = {}
    <3>1. Idle # rq[p] /\ rq' = [rq EXCEPT ![p] = Idle]
      BY <2>1, <2>3, IdleFacts DEF Ends, Goto
    <3> QED
      BY <2>1, <2>2, <3>1, IdleFacts, EndsAny, SetRefStep, Zenon DEF MaySet
  <2>4. CASE rq[p].todo \ {line} # {}
    <3> PICK left : left = rq[p].todo \ {line}
      BY Zenon
    <3> PICK r : r = [rq[p] EXCEPT !.todo = left]
      OBVIOUS
    <3>1. /\ r \in Request /\ r.at = "putAll" /\ r.commit = rq[p].commit /\ r.base = rq[p].base
          /\ r.todo = left
      BY <2>1 DEF Request
    <3>2. r # rq[p] /\ Known(r)
      BY <2>1, <3>1, Zenon DEF Known
    <3>3. rq' = [rq EXCEPT ![p] = r]
      BY <2>4 DEF Goto
    <3> QED
      BY <2>1, <2>2, <3>1, <3>2, <3>3, SetRefStep, Zenon DEF MaySet
  <2> QED
    BY <2>3, <2>4
<1> QED
  BY <1>1, <1>2

-----------------------------------------------------------------------------
\* The steps that make commits

(* Everybody else's branches are what they were while commits are added. *)
LEMMA ImportStep ==
  ASSUME BranchInv, NEW p \in Procs, Import(p)
  PROVE  BranchInv' /\ LossOnlyInRace
<1>1. CASE Fails(p)
  BY <1>1, FailsStep
<1>2. CASE ~Fails(p)
  <2>1. rq[p] \in Request /\ Known(rq[p]) /\ rq[p].name \in Names /\ Reaches /\ RefsOK
    BY DEF BranchInv, Request
  <2>2. PICK c \in 1..MaxCommits :
         /\ Fresh(c) /\ Write(c, IF rq[p].found THEN Anc(heads[rq[p].name]) ELSE {})
         /\ Goto(p, [rq[p] EXCEPT !.at = "dump", !.commit = c])
         /\ UNCHANGED <<refs, moved>>
    BY <1>2, Zenon DEF Import
  <2>3. PICK d \in Tips : Write(c, Anc(d))
    <3>1. CASE rq[p].found
      BY <2>1, <2>2, <3>1 DEF RefsOK
    <3>2. CASE ~rq[p].found
      BY <2>2, <3>2 DEF Tips, Anc
    <3> QED
      BY <3>1, <3>2
  <2>4. Grows /\ Reaches' /\ c \in Tips' /\ c # None /\ c \in Nat
    BY <2>1, <2>2, <2>3, NewCommit
  <2> PICK r : r = [rq[p] EXCEPT !.at = "dump", !.commit = c]
    OBVIOUS
  <2>5. /\ r \in Request /\ r.at = "dump" /\ r.commit = c /\ r.base = rq[p].base /\ r.todo = rq[p].todo
        /\ rq' = [rq EXCEPT ![p] = r]
    BY <2>1, <2>2, <2>4, Zenon DEF Request, Stages, Goto
  <2>6. Tips \subseteq Tips'
    BY <2>4 DEF Grows, Tips
  <2>7. RefsOK' /\ moved' \in [Procs -> BOOLEAN]
    BY <2>1, <2>2, <2>6 DEF RefsOK, refs, above, BranchInv
  <2>8. Known(r)' /\ Stage(r, moved[p])'
    BY <2>1, <2>4, <2>5, <2>6 DEF Known, Stage, Unmoved
  <2>9. ASSUME NEW q \in Procs, q # p PROVE Undisturbed(q)
    <3>1. rq'[q] = rq[q] /\ rq[q].name \in Names /\ moved'[q] = moved[q] /\ moved[q] \in BOOLEAN
      BY <2>2, <2>5, <2>9 DEF BranchInv, Request
    <3>2. PICK u \in Tips : u = upstream[rq[q].name] /\ u = upstream'[rq'[q].name]
      BY <2>1, <2>2, <3>1 DEF RefsOK, refs, above
    <3>3. Anc(u)' = Anc(u)
      BY <2>1, <2>4, OldCommits
    <3>4. Anc(upstream[rq[q].name]) = Anc(upstream[rq[q].name])'
      BY <3>2, <3>3
    <3> QED
      BY <2>2, <3>1, <3>4 DEF Undisturbed, refs, above
  <2>10. BranchInv'
    BY <2>4, <2>5, <2>7, <2>8, <2>9, StepKeeps, Zenon
  <2> QED
    BY <2>2, <2>4, <2>10, NothingLost DEF refs
<1> QED
  BY <1>1, <1>2

(* A commit pushed on top of one of a branch, or the first of a new branch. *)
LEMMA PushedCommit ==
  ASSUME Reaches, NEW h \in [Names -> Tips], NEW n \in Names, NEW c \in 1..MaxCommits, NEW b, Commits(h, n, c, b)
  PROVE  /\ Grows /\ Reaches' /\ c \in Tips'
         /\ Anc(b) \subseteq Anc(c)' /\ b \in Tips
<1>1. b \in Tips
  <2>1. CASE h[n] = None
    BY <2>1 DEF Commits, Tips
  <2>2. CASE h[n] # None
    <3>1. b \in Anc(h[n]) /\ h[n] \in DOMAIN anc
      BY <2>2 DEF Commits, Tips
    <3> QED
      BY <3>1 DEF Reaches, Anc, Tips
  <2> QED
    BY <2>1, <2>2
<1>2. Fresh(c) /\ Write(c, Anc(b))
  BY DEF Commits
<1> QED
  BY <1>1, <1>2, NewCommit

LEMMA PushStep ==
  ASSUME BranchInv, NEW n \in Names, Push(n)
  PROVE  BranchInv' /\ LossOnlyInRace
<1>1. PICK c : /\ SetBranch(n, c, "git") /\ UNCHANGED <<tags, above, rq>>
               /\ Grows /\ Reaches' /\ c \in Tips'
  <2>1. ASSUME NEW c \in 1..MaxCommits, NEW b \in 0..MaxCommits, Commits(heads, n, c, b)
        PROVE  Grows /\ Reaches' /\ c \in Tips'
    BY <2>1, PushedCommit DEF BranchInv, RefsOK
  <2>2. ASSUME UNCHANGED anc PROVE Grows /\ Reaches' /\ None \in Tips'
    BY <2>2, SameCommits DEF BranchInv, Tips
  <2> QED
    BY <2>1, <2>2 DEF Push
<1>2. heads' = [heads EXCEPT ![n] = c] /\ UNCHANGED tags /\ RefsOK
  BY <1>1 DEF SetBranch, BranchInv
<1>3. RefsOK'
  BY <1>1, <1>2, RefsStay, Zenon
<1>4. moved' \in [Procs -> BOOLEAN] /\ \A q \in Procs : q # "git" => Undisturbed(q)
  BY <1>1, OthersNotice
<1> QED
  BY <1>1, <1>3, <1>4, PushKeeps, ProcsAssumption

LEMMA PushUpstreamStep ==
  ASSUME BranchInv, NEW n \in Names, PushUpstream(n)
  PROVE  BranchInv' /\ LossOnlyInRace
<1>1. PICK c : /\ upstream' = [upstream EXCEPT ![n] = c]
               /\ Grows /\ Reaches' /\ c \in Tips'
               /\ moved' \in [Procs -> BOOLEAN]
               /\ \A q \in Procs : (moved[q] => moved'[q]) /\ (Watches(q, n) => moved'[q] \/ Anc(upstream[n]) \subseteq Anc(c)')
  <2>1. ASSUME NEW c \in 1..MaxCommits, NEW b \in 0..MaxCommits, Commits(upstream, n, c, b),
               moved' = [q \in Procs |-> moved[q] \/ (Watches(q, n) /\ b # upstream[n])]
        PROVE  /\ Grows /\ Reaches' /\ c \in Tips' /\ moved' \in [Procs -> BOOLEAN]
               /\ \A q \in Procs : (moved[q] => moved'[q]) /\ (Watches(q, n) => moved'[q] \/ Anc(upstream[n]) \subseteq Anc(c)')
    <3>1. Grows /\ Reaches' /\ c \in Tips' /\ Anc(b) \subseteq Anc(c)'
      BY <2>1, PushedCommit DEF BranchInv, RefsOK
    <3> QED
      BY <2>1, <3>1, Zenon DEF BranchInv
  <2>2. ASSUME UNCHANGED anc, moved' = [q \in Procs |-> moved[q] \/ Watches(q, n)]
        PROVE  /\ Grows /\ Reaches' /\ None \in Tips' /\ moved' \in [Procs -> BOOLEAN]
               /\ \A q \in Procs : (moved[q] => moved'[q]) /\ (Watches(q, n) => moved'[q])
    BY <2>2, SameCommits, Zenon DEF BranchInv, Tips
  <2> QED
    BY <2>1, <2>2 DEF PushUpstream
<1>2. UNCHANGED <<heads, tags, upTags, tracking, rq>>
  BY DEF PushUpstream
<1>3. Tips \subseteq Tips' /\ Reaches /\ RefsOK
  BY <1>1 DEF Grows, Tips, BranchInv
<1>4. RefsOK'
  BY <1>1, <1>2, <1>3 DEF RefsOK
<1>5. ASSUME NEW q \in Procs PROVE Undisturbed(q)
  <2>1. PICK m \in Names : m = rq[q].name /\ m = rq'[q].name /\ moved[q] \in BOOLEAN /\ moved'[q] \in BOOLEAN
    BY <1>1, <1>2 DEF BranchInv, Request
  <2>2. CASE m = n
    <3>1. upstream'[m] = c
      BY <1>1, <1>3, <2>2 DEF RefsOK
    <3> QED
      BY <1>1, <1>2, <2>1, <2>2, <3>1, Zenon DEF Undisturbed, Watches
  <2>3. CASE m # n
    <3>1. PICK u \in Tips : u = upstream[m] /\ u = upstream'[m]
      BY <1>1, <1>3, <2>3 DEF RefsOK
    <3>2. Anc(u)' = Anc(u)
      BY <1>1, <1>3, OldCommits
    <3>3. Anc(upstream[rq[q].name])' = Anc(upstream[rq[q].name])
      BY <2>1, <3>1, <3>2
    <3> QED
      BY <1>1, <1>2, <2>1, <3>3 DEF Undisturbed
  <2> QED
    BY <2>2, <2>3
<1> QED
  BY <1>1, <1>2, <1>4, <1>5, PushKeeps

LEMMA TagUpstreamStep ==
  ASSUME BranchInv, NEW n \in TagNames, TagUpstream(n)
  PROVE  BranchInv' /\ LossOnlyInRace
<1>1. Reaches /\ Grows /\ Reaches' /\ Tips' = Tips
  BY SameCommits DEF BranchInv, TagUpstream
<1>2. RefsOK' /\ moved' \in [Procs -> BOOLEAN]
  BY <1>1, NamesAssumption DEF BranchInv, RefsOK, TagUpstream
<1>3. \A m : Anc(upstream[m])' = Anc(upstream[m])
  BY DEF Anc, TagUpstream
<1>4. \A q \in Procs : Undisturbed(q)
  BY <1>3 DEF Undisturbed, TagUpstream, BranchInv
<1> QED
  BY <1>1, <1>2, <1>4, PushKeeps DEF TagUpstream

-----------------------------------------------------------------------------
\* The theorem

LEMMA BranchInvInit ==
  Init => BranchInv
<1> SUFFICES ASSUME Init PROVE BranchInv
  OBVIOUS
<1> PICK c \in {None, 1} :
       /\ anc = [x \in {c} \ {None} |-> {x}]
       /\ heads = [n \in Names |-> c] /\ upstream = heads /\ tracking = heads
       /\ tags = [n \in TagNames |-> None] /\ upTags = tags
       /\ rq = [p \in Procs |-> Idle] /\ moved = [p \in Procs |-> FALSE]
  BY DEF Init
<1>1. Reaches
  BY DEF Reaches, None
<1>2. c \in Tips /\ None \in Tips
  BY DEF Tips
<1>3. RefsOK
  BY <1>2 DEF RefsOK
<1> QED
  BY <1>1, <1>3, IdleFacts, EndsAny, Zenon DEF BranchInv

LEMMA BranchInvStep ==
  BranchInv /\ [Next]_vars => BranchInv' /\ [LossOnlyInRace]_vars
<1> SUFFICES ASSUME BranchInv, [Next]_vars PROVE BranchInv' /\ [LossOnlyInRace]_vars
  OBVIOUS
<1>1. ASSUME NEW p \in Procs,
             \/ Import(p) \/ Dump(p) \/ Put(p) \/ Resolve(p) \/ Create(p) \/ Delete(p)
             \/ FetchFork(p) \/ MergeBase(p) \/ ListA(p) \/ ListB(p) \/ FetchOrigin(p)
             \/ FetchAll(p) \/ LsRemote(p) \/ PutAll(p)
      PROVE  BranchInv' /\ LossOnlyInRace
  BY <1>1, ImportStep, DumpStep, PutStep, ResolveStep, CreateStep, DeleteStep, FetchForkStep, MergeBaseStep,
     ListAStep, ListBStep, FetchOriginStep, FetchAllStep, LsRemoteStep, PutAllStep
<1>2. ASSUME NEW p \in Procs, NEW n \in Names,
             \/ StartEdit(p, n)
             \/ \E op \in {"branch", "tag"} :
                   StartDelete(p, op, n) \/ \E t \in Names : StartCreate(p, op, n, t)
             \/ \E page \in {"branch", "repository"} : StartSync(p, page, n)
      PROVE  BranchInv' /\ LossOnlyInRace
  BY <1>2, StartsStep
<1>3. ASSUME NEW n \in Names, Push(n) \/ PushUpstream(n)
      PROVE  BranchInv' /\ LossOnlyInRace
  BY <1>3, PushStep, PushUpstreamStep
<1>4. ASSUME NEW n \in TagNames, TagUpstream(n)
      PROVE  BranchInv' /\ LossOnlyInRace
  BY <1>4, TagUpstreamStep
<1>5. CASE UNCHANGED vars
  BY <1>5 DEF BranchInv, vars, Reaches, RefsOK, Tips, Known, Stage, Unmoved, Anc
<1> QED
  BY <1>1, <1>2, <1>3, <1>4, <1>5 DEF Next

(* An edit, the creation of a ref or the sync of a branch takes no commit from
   a branch that nobody else has moved meanwhile, whatever the interleaving of
   requests and pushes: commits leave branches only in the ways that
   LossOnlyInRace lists. *)
THEOREM CommitsLeaveInRacesOnly == Spec => BranchesKeep
<1> QED
  BY BranchInvInit, BranchInvStep, PTL DEF Spec, BranchesKeep

-----------------------------------------------------------------------------
\* A push and its hooks (Push.tla), for any backend that registers a webhook request
\* by adding its row.

CONSTANTS Pushers, Sizes, Limit, Tip, Confs, MaxPushes,
          EmptyDb, Null, RegisterWebhookRequest(_, _, _, _, _), GetWebhookResultByUUID(_, _)
VARIABLES conf, ref, fetched, base, quar, db, pc, job, made, sent, answer

Receiving == INSTANCE Push WITH tracking <- fetched

PushAssumption ==
    IsFiniteSet(Pushers) /\ Sizes \subseteq Nat /\ Limit \in Nat /\ Tip \in Nat /\ EmptyDb.hook = <<>>

HookStages == {"idle", "check", "quarantine", "migrate", "update", "refresh", "webhook", "send", "ref"}
Job == [old : Nat, new : Nat, bytes : Nat, tag : BOOLEAN, seen : Nat, began : Nat, fits : BOOLEAN, refreshed : BOOLEAN]
PushTypeOK ==
    /\ made \in Nat /\ base \in Nat /\ ref \in Nat /\ quar \in [Pushers -> Nat]
    /\ pc \in [Pushers -> HookStages] /\ job \in [Pushers -> Job]

\* The walk of the storage check has met at least what was there when the push
\* began, and its own pack stays in quarantine until it is over.
Weighed(p) ==
    /\ job[p].began <= base
    /\ pc[p] = "quarantine" => job[p].began <= job[p].seen
    /\ pc[p] \in {"check", "quarantine"} => quar[p] = job[p].bytes
    /\ job[p].fits => job[p].began + job[p].bytes <= Limit
StorageInv == PushTypeOK /\ \A p \in Pushers : Weighed(p)

\* The row a webhook request is registered with, not answered.
Row(u) == [uuid |-> u, report |-> <<"report", u>>, repo |-> <<"acme", "repo">>, commit |-> u,
           status |-> "undefined", time |-> 0]
Registered(u) == \E i \in DOMAIN db.hook : db.hook[i] = Row(u)

\* Requests carry the number of their push, and numbers are not handed out twice.
Named(p) ==
    /\ job[p].new <= made
    /\ \A q \in Pushers : job[p].new = job[q].new => p = q \/ job[p].new = 0
    /\ pc[p] = "send" => Registered(job[p].new)
    /\ job[p].tag /\ job[p].new # 0 => ~Registered(job[p].new)
NamedInv ==
    /\ db.hook \in Seq({Row(u) : u \in 1..made})
    /\ \A p \in Pushers : Named(p)
    /\ \A u \in sent : Registered(u)

LEMMA BytesCount ==
    ASSUME PushAssumption, PushTypeOK, NEW p \in Pushers
    PROVE  Cardinality(Receiving!Bytes(quar)) \in Nat /\ quar[p] <= Cardinality(Receiving!Bytes(quar))
<1> DEFINE of == [q \in Pushers |-> {q} \X (1..quar[q])]
           dirs == {{q} \X (1..quar[q]) : q \in Pushers}
<1>1. IsFiniteSet(dirs)
  <2>1. of \in Surjection(Pushers, dirs)
    BY Zenon DEF Surjection
  <2> QED
    BY <2>1, FS_Surjection DEF PushAssumption
<1>2. ASSUME NEW q \in Pushers
      PROVE  IsFiniteSet({q} \X (1..quar[q])) /\ Cardinality({q} \X (1..quar[q])) = quar[q]
  <2>1. quar[q] \in Nat
    BY DEF PushTypeOK
  <2>2. IsFiniteSet(1..quar[q]) /\ Cardinality(1..quar[q]) = quar[q]
    BY <2>1, FS_Interval
  <2>3. IsFiniteSet({q}) /\ Cardinality({q}) = 1
    BY FS_Singleton
  <2>4. IsFiniteSet({q} \X (1..quar[q])) /\ Cardinality({q} \X (1..quar[q])) = Cardinality({q}) * Cardinality(1..quar[q])
    BY <2>2, <2>3, FS_Product, Zenon
  <2> QED
    BY <2>1, <2>2, <2>3, <2>4
<1>3. Receiving!Bytes(quar) = UNION dirs
  BY DEF Receiving!Bytes, PushTypeOK
<1>4. IsFiniteSet(UNION dirs)
  BY <1>1, <1>2, FS_UNION, Zenon
<1>5. {p} \X (1..quar[p]) \subseteq UNION dirs
  OBVIOUS
<1>6. Cardinality(UNION dirs) \in Nat /\ Cardinality({p} \X (1..quar[p])) <= Cardinality(UNION dirs)
  BY <1>4, <1>5, FS_Subset, FS_CardinalityType
<1> QED
  BY <1>2, <1>3, <1>6

LEMMA StorageInvInit == ASSUME PushAssumption, Receiving!Init PROVE StorageInv
<1>1. Receiving!NoJob \in Job /\ Receiving!NoJob.began = 0 /\ ~Receiving!NoJob.fits
  BY DEF Receiving!NoJob, Job
<1>2. PushTypeOK
  BY <1>1 DEF Receiving!Init, PushTypeOK, PushAssumption, HookStages
<1>3. ASSUME NEW p \in Pushers PROVE Weighed(p)
  BY <1>1 DEF Receiving!Init, Weighed
<1> QED
  BY <1>2, <1>3 DEF StorageInv

\* A step of one push leaves the others alone, and the store only grows.
LEMMA OnlyOnePushes ==
    ASSUME StorageInv, NEW p \in Pushers, base' \in Nat, base <= base', ref' \in Nat, made' \in Nat,
           pc' = [pc EXCEPT ![p] = pc'[p]], pc'[p] \in HookStages,
           quar' = [quar EXCEPT ![p] = quar'[p]], quar'[p] \in Nat,
           job' = [job EXCEPT ![p] = job'[p]], job'[p] \in Job, Weighed(p)'
    PROVE  StorageInv'
<1>1. PushTypeOK'
  BY DEF StorageInv, PushTypeOK
<1>2. ASSUME NEW q \in Pushers, q # p PROVE Weighed(q)'
  <2>1. pc'[q] = pc[q] /\ job'[q] = job[q] /\ quar'[q] = quar[q]
    BY <1>2 DEF StorageInv, PushTypeOK
  <2>2. job[q].began \in Nat /\ base \in Nat /\ Weighed(q)
    BY DEF StorageInv, PushTypeOK, Job
  <2> QED
    BY <2>1, <2>2 DEF Weighed
<1> QED
  BY <1>1, <1>2 DEF StorageInv

\* A stage it goes to, a job or a size it gets.
LEMMA Gets ==
    ASSUME StorageInv, NEW p \in Pushers
    PROVE  /\ \A l \in HookStages : Receiving!Goto(p, l) => pc' = [pc EXCEPT ![p] = pc'[p]] /\ pc'[p] = l /\ pc'[p] \in HookStages
           /\ \A j \in Job : job' = [job EXCEPT ![p] = j] => job' = [job EXCEPT ![p] = job'[p]] /\ job'[p] = j
           /\ \A b \in Nat : quar' = [quar EXCEPT ![p] = b] => quar' = [quar EXCEPT ![p] = quar'[p]] /\ quar'[p] = b
BY DEF StorageInv, PushTypeOK, Receiving!Goto

LEMMA JobFields ==
    ASSUME NEW j \in Job
    PROVE  /\ \A n \in Nat : /\ [j EXCEPT !.seen = n] \in Job /\ [j EXCEPT !.seen = n].seen = n
                             /\ [j EXCEPT !.seen = n].began = j.began /\ [j EXCEPT !.seen = n].bytes = j.bytes
                             /\ [j EXCEPT !.seen = n].fits = j.fits /\ [j EXCEPT !.seen = n].new = j.new
                             /\ [j EXCEPT !.seen = n].tag = j.tag
           /\ [j EXCEPT !.fits = TRUE] \in Job /\ [j EXCEPT !.fits = TRUE].began = j.began
           /\ [j EXCEPT !.fits = TRUE].bytes = j.bytes /\ [j EXCEPT !.fits = TRUE].new = j.new
           /\ [j EXCEPT !.fits = TRUE].tag = j.tag
           /\ [j EXCEPT !.refreshed = TRUE] \in Job /\ [j EXCEPT !.refreshed = TRUE].began = j.began
           /\ [j EXCEPT !.refreshed = TRUE].bytes = j.bytes /\ [j EXCEPT !.refreshed = TRUE].new = j.new
           /\ [j EXCEPT !.refreshed = TRUE].tag = j.tag /\ [j EXCEPT !.refreshed = TRUE].fits = j.fits
BY Zenon DEF Job

\* A step that changes neither the sizes nor what the push was told.
LEMMA QuietPush ==
    ASSUME StorageInv, NEW p \in Pushers, NEW l \in HookStages \ {"check", "quarantine"}, Receiving!Goto(p, l),
           UNCHANGED <<base, quar, made>>, ref' \in Nat,
           NEW j \in Job, job' = [job EXCEPT ![p] = j],
           j.began = job[p].began, j.bytes = job[p].bytes,
           j.fits => job[p].fits \/ j.began + j.bytes <= Limit
    PROVE  StorageInv'
<1>1. /\ quar'[p] \in Nat /\ quar' = [quar EXCEPT ![p] = quar'[p]]
      /\ base' \in Nat /\ base <= base' /\ made' \in Nat
  BY DEF StorageInv, PushTypeOK
<1>2. /\ pc' = [pc EXCEPT ![p] = pc'[p]] /\ pc'[p] = l /\ pc'[p] \in HookStages
      /\ job' = [job EXCEPT ![p] = job'[p]] /\ job'[p] = j /\ job'[p] \in Job
  BY Gets, Zenon
<1>3. Weighed(p)'
  BY <1>2 DEF StorageInv, Weighed
<1> QED
  BY <1>1, <1>2, <1>3, OnlyOnePushes, Zenon

LEMMA StorageReceive ==
    ASSUME PushAssumption, StorageInv, NEW p \in Pushers, NEW bytes \in Sizes, NEW tag \in BOOLEAN,
           Receiving!Receive(p, bytes, tag)
    PROVE  StorageInv'
<1>1. PICK j : j = [Receiving!NoJob EXCEPT !.old = ref, !.new = IF bytes = 0 THEN 0 ELSE made + 1,
                                           !.bytes = bytes, !.tag = tag, !.began = base]
  BY Zenon
<1>2. PICK n : n = IF bytes = 0 THEN 0 ELSE made + 1
  OBVIOUS
<1>3. made \in Nat /\ base \in Nat /\ ref \in Nat /\ bytes \in Nat /\ n \in Nat
  <2>1. bytes \in Nat
    BY Zenon DEF PushAssumption
  <2> QED
    BY <1>2, <2>1 DEF StorageInv, PushTypeOK
<1>4. j = [old |-> ref, new |-> n, bytes |-> bytes, tag |-> tag, seen |-> 0, began |-> base, fits |-> FALSE, refreshed |-> FALSE]
  BY <1>1, <1>2, Zenon DEF Receiving!NoJob
<1>5. j \in Job /\ j.began = base /\ j.bytes = bytes /\ ~j.fits
  BY <1>3, <1>4 DEF Job
<1>6. PICK l : l = IF bytes = 0 THEN "update" ELSE "check"
  OBVIOUS
<1>7. Receiving!Goto(p, l) /\ l \in HookStages
  BY <1>6 DEF Receiving!Receive, HookStages
<1>8. job' = [job EXCEPT ![p] = j] /\ quar' = [quar EXCEPT ![p] = bytes] /\ UNCHANGED <<base, ref>> /\ made' = made + 1
  BY <1>1 DEF Receiving!Receive
<1>9. /\ pc' = [pc EXCEPT ![p] = pc'[p]] /\ pc'[p] = l /\ pc'[p] \in HookStages
      /\ job' = [job EXCEPT ![p] = job'[p]] /\ job'[p] = j /\ job'[p] \in Job
      /\ quar' = [quar EXCEPT ![p] = quar'[p]] /\ quar'[p] = bytes
  BY <1>3, <1>5, <1>7, <1>8, Gets, Zenon
<1>10. Weighed(p)'
  BY <1>3, <1>5, <1>6, <1>8, <1>9 DEF Weighed
<1>11. base' \in Nat /\ base <= base' /\ ref' \in Nat /\ made' \in Nat /\ quar'[p] \in Nat
  BY <1>3, <1>8, <1>9
<1> QED
  BY <1>9, <1>10, <1>11, OnlyOnePushes

LEMMA StorageStorageCheck ==
    ASSUME StorageInv, NEW p \in Pushers, Receiving!StorageCheck(p)
    PROVE  StorageInv'
<1>1. UNCHANGED <<base, quar, made, ref>> /\ pc[p] = "check"
  BY DEF Receiving!StorageCheck
<1>2. /\ job[p] \in Job /\ base \in Nat /\ base' \in Nat /\ base <= base' /\ ref' \in Nat /\ made' \in Nat
      /\ quar'[p] \in Nat /\ quar' = [quar EXCEPT ![p] = quar'[p]] /\ quar'[p] = quar[p]
  BY <1>1 DEF StorageInv, PushTypeOK
<1>3. CASE job' = [job EXCEPT ![p].seen = base] /\ Receiving!Goto(p, "quarantine")
  <2>1. PICK j : j = [job[p] EXCEPT !.seen = base]
    BY Zenon
  <2>2. j \in Job /\ j.seen = base /\ j.began = job[p].began /\ j.bytes = job[p].bytes /\ j.fits = job[p].fits
    BY <1>2, <2>1, JobFields, Zenon
  <2>3. job' = [job EXCEPT ![p] = j]
    BY <1>3, <2>1
  <2>4. /\ pc' = [pc EXCEPT ![p] = pc'[p]] /\ pc'[p] = "quarantine" /\ pc'[p] \in HookStages
        /\ job' = [job EXCEPT ![p] = job'[p]] /\ job'[p] = j /\ job'[p] \in Job
    BY <1>3, <2>2, <2>3, Gets, Zenon DEF HookStages
  <2>5. Weighed(p)'
    BY <1>1, <1>2, <2>2, <2>4 DEF StorageInv, Weighed
  <2> QED
    BY <1>2, <2>4, <2>5, OnlyOnePushes
<1>4. CASE UNCHANGED job /\ Receiving!Goto(p, "migrate")
  <2>1. job' = [job EXCEPT ![p] = job[p]]
    BY <1>4 DEF StorageInv, PushTypeOK
  <2> QED
    BY <1>1, <1>2, <1>4, <2>1, QuietPush, Zenon DEF HookStages
<1> QED
  BY <1>3, <1>4 DEF Receiving!StorageCheck

LEMMA StorageCheckSize ==
    ASSUME PushAssumption, StorageInv, NEW p \in Pushers, Receiving!CheckSizeLimit(p)
    PROVE  StorageInv'
<1>1. UNCHANGED <<base, made, ref>> /\ pc[p] = "quarantine"
  BY DEF Receiving!CheckSizeLimit
<1>2. job[p] \in Job /\ base \in Nat /\ base' \in Nat /\ base <= base' /\ ref' \in Nat /\ made' \in Nat
  BY <1>1 DEF StorageInv, PushTypeOK
<1>3. CASE quar' = [quar EXCEPT ![p] = 0] /\ Receiving!Goto(p, "idle") /\ UNCHANGED job
  <2>1. /\ pc' = [pc EXCEPT ![p] = pc'[p]] /\ pc'[p] = "idle" /\ pc'[p] \in HookStages
        /\ job' = [job EXCEPT ![p] = job'[p]] /\ job'[p] = job[p] /\ job'[p] \in Job
        /\ quar' = [quar EXCEPT ![p] = quar'[p]] /\ quar'[p] = 0 /\ quar'[p] \in Nat
    <3>1. job' = [job EXCEPT ![p] = job[p]]
      BY <1>3 DEF StorageInv, PushTypeOK
    <3>2. 0 \in Nat /\ "idle" \in HookStages
      BY DEF HookStages
    <3>3. quar' = [quar EXCEPT ![p] = quar'[p]] /\ quar'[p] = 0
      BY <1>3, <3>2, Gets, Zenon
    <3>4. pc' = [pc EXCEPT ![p] = pc'[p]] /\ pc'[p] = "idle"
      BY <1>3, <3>2, Gets, Zenon
    <3>5. job' = [job EXCEPT ![p] = job'[p]] /\ job'[p] = job[p]
      BY <1>2, <3>1, Gets, Zenon
    <3> QED
      BY <1>2, <3>2, <3>3, <3>4, <3>5, Zenon
  <2>2. Weighed(p)'
    BY <1>1, <2>1 DEF StorageInv, Weighed
  <2> QED
    BY <1>2, <2>1, <2>2, OnlyOnePushes
<1>4. CASE /\ Receiving!CountedSize(p) <= Limit
           /\ job' = [job EXCEPT ![p].fits = TRUE] /\ Receiving!Goto(p, "migrate") /\ UNCHANGED quar
  <2>1. PICK j : j = [job[p] EXCEPT !.fits = TRUE]
    BY Zenon
  <2>2. j \in Job /\ j.began = job[p].began /\ j.bytes = job[p].bytes
    BY <1>2, <2>1, JobFields, Zenon
  <2>3. job' = [job EXCEPT ![p] = j]
    BY <1>4, <2>1
  <2>4. PICK n : n = Cardinality(Receiving!Bytes(quar))
    OBVIOUS
  <2>5. n \in Nat /\ quar[p] <= n /\ job[p].seen + n <= Limit
    <3>1. PushTypeOK
      BY DEF StorageInv
    <3>2. n \in Nat /\ quar[p] <= n
      BY <2>4, <3>1, BytesCount
    <3>3. Receiving!CountedSize(p) = job[p].seen + n
      BY <2>4, Zenon DEF Receiving!CountedSize, Receiving!Cardinality, Cardinality
    <3> QED
      BY <1>4, <3>2, <3>3
  <2>6. quar[p] = job[p].bytes /\ job[p].began <= job[p].seen
    BY <1>1 DEF StorageInv, Weighed
  <2>7. job[p].bytes \in Nat /\ job[p].began \in Nat /\ job[p].seen \in Nat /\ Limit \in Nat
    BY <1>2 DEF Job, PushAssumption
  <2>8. j.began + j.bytes <= Limit
    BY <2>2, <2>5, <2>6, <2>7
  <2> QED
    BY <1>1, <1>2, <1>4, <2>2, <2>3, <2>8, QuietPush, Zenon DEF HookStages
<1>5. CASE UNCHANGED <<quar, job>> /\ Receiving!Goto(p, "migrate")
  <2>1. job' = [job EXCEPT ![p] = job[p]]
    BY <1>5 DEF StorageInv, PushTypeOK
  <2> QED
    BY <1>1, <1>2, <1>5, <2>1, QuietPush, Zenon DEF HookStages
<1> QED
  BY <1>3, <1>4, <1>5 DEF Receiving!CheckSizeLimit

LEMMA StorageMigrate == ASSUME StorageInv, NEW p \in Pushers, Receiving!Migrate(p) PROVE StorageInv'
<1>1. base' = base + quar[p] /\ quar' = [quar EXCEPT ![p] = 0] /\ Receiving!Goto(p, "update") /\ UNCHANGED <<ref, job, made>>
  BY DEF Receiving!Migrate
<1>2. base \in Nat /\ quar[p] \in Nat /\ ref' \in Nat /\ made' \in Nat /\ job[p] \in Job /\ job' = [job EXCEPT ![p] = job[p]]
  BY <1>1 DEF StorageInv, PushTypeOK
<1>3. /\ pc' = [pc EXCEPT ![p] = pc'[p]] /\ pc'[p] = "update" /\ pc'[p] \in HookStages
      /\ job' = [job EXCEPT ![p] = job'[p]] /\ job'[p] = job[p] /\ job'[p] \in Job
      /\ quar' = [quar EXCEPT ![p] = quar'[p]] /\ quar'[p] = 0 /\ quar'[p] \in Nat
  <2>1. 0 \in Nat /\ "update" \in HookStages
    BY DEF HookStages
  <2>2. quar' = [quar EXCEPT ![p] = quar'[p]] /\ quar'[p] = 0
    BY <1>1, <2>1, Gets, Zenon
  <2>3. pc' = [pc EXCEPT ![p] = pc'[p]] /\ pc'[p] = "update"
    BY <1>1, <2>1, Gets, Zenon
  <2>4. job' = [job EXCEPT ![p] = job'[p]] /\ job'[p] = job[p]
    BY <1>2, Gets, Zenon
  <2> QED
    BY <1>2, <2>1, <2>2, <2>3, <2>4, Zenon
<1>4. job[p].began \in Nat /\ base' \in Nat /\ base <= base'
  BY <1>1, <1>2 DEF Job
<1>5. Weighed(p)'
  BY <1>2, <1>3, <1>4 DEF StorageInv, Weighed
<1> QED
  BY <1>2, <1>3, <1>4, <1>5, OnlyOnePushes, Zenon

LEMMA StorageInvStep == ASSUME PushAssumption, StorageInv, [Receiving!Next]_(Receiving!vars) PROVE StorageInv'
<1>1. ASSUME NEW p \in Pushers, Receiving!Step(p) PROVE StorageInv'
  <2>1. job[p] \in Job /\ ref \in Nat /\ job = [job EXCEPT ![p] = job[p]]
    BY DEF StorageInv, PushTypeOK
  <2>2. CASE Receiving!HandleUpdateTrigger(p)
    BY <2>1, <2>2, QuietPush DEF Receiving!HandleUpdateTrigger, HookStages
  <2>3. CASE Receiving!refreshForkComparison(p)
    <3>1. PICK j \in {job[p], [job[p] EXCEPT !.refreshed = TRUE]} : job' = [job EXCEPT ![p] = j]
      BY <2>1, <2>3 DEF Receiving!refreshForkComparison
    <3>2. j \in Job /\ j.began = job[p].began /\ j.bytes = job[p].bytes /\ j.fits = job[p].fits
      BY <2>1, <3>1, JobFields, ZenonT(40)
    <3> QED
      BY <2>1, <2>3, <3>1, <3>2, QuietPush, Zenon DEF Receiving!refreshForkComparison, HookStages
  <2>4. CASE Receiving!HandleWebHook(p)
    <3>1. PICK l \in {"send", "ref"} : Receiving!Goto(p, l)
      BY <2>4 DEF Receiving!HandleWebHook
    <3> QED
      BY <2>1, <2>4, <3>1, QuietPush DEF Receiving!HandleWebHook, HookStages
  <2>5. CASE Receiving!Send(p)
    BY <2>1, <2>5, QuietPush DEF Receiving!Send, HookStages
  <2>6. CASE Receiving!UpdateRef(p)
    <3>1. job[p].new \in Nat
      BY <2>1 DEF Job
    <3> QED
      BY <2>1, <2>6, <3>1, QuietPush DEF Receiving!UpdateRef, HookStages
  <2> QED
    BY <1>1, <2>2, <2>3, <2>4, <2>5, <2>6, StorageStorageCheck, StorageCheckSize, StorageMigrate DEF Receiving!Step
<1>2. ASSUME NEW p \in Pushers, NEW bytes \in Sizes, NEW tag \in BOOLEAN, Receiving!Receive(p, bytes, tag) PROVE StorageInv'
  BY <1>2, StorageReceive
<1>3. ASSUME UNCHANGED <<base, ref, quar, pc, job, made>> PROVE StorageInv'
  BY <1>3 DEF StorageInv, PushTypeOK, Weighed
<1>4. ASSUME NEW u \in sent, NEW h, Receiving!Report(u, h) PROVE StorageInv'
  BY <1>3, <1>4 DEF Receiving!Report
<1> QED
  BY <1>1, <1>2, <1>3, <1>4, Zenon DEF Receiving!Next, Receiving!vars

LEMMA NamedInvInit == ASSUME PushAssumption, Receiving!Init PROVE NamedInv
<1>1. db.hook = <<>> /\ sent = {} /\ made = 0
  BY DEF Receiving!Init, PushAssumption
<1>2. db.hook \in Seq({Row(u) : u \in 1..made})
  BY <1>1
<1>3. ASSUME NEW p \in Pushers PROVE job[p].new = 0 /\ pc[p] = "idle"
  BY DEF Receiving!Init, Receiving!NoJob
<1>4. ASSUME NEW p \in Pushers PROVE Named(p)
  BY <1>1, <1>3 DEF Named
<1> QED
  BY <1>1, <1>2, <1>4 DEF NamedInv

\* A step of one push that registers nothing and keeps its number and its option.
LEMMA QuietNames ==
    ASSUME PushTypeOK, NamedInv, NEW p \in Pushers, UNCHANGED <<db, made>>,
           pc' = [pc EXCEPT ![p] = pc'[p]], pc'[p] # "send",
           job' = [job EXCEPT ![p] = job'[p]], job'[p].new = job[p].new, job'[p].tag = job[p].tag,
           \A u \in sent' : u \in sent \/ (u = job[p].new /\ pc[p] = "send")
    PROVE  NamedInv'
<1>1. ASSUME NEW u PROVE Registered(u)' = Registered(u)
  BY DEF Registered
<1>2. ASSUME NEW q \in Pushers
      PROVE  job'[q].new = job[q].new /\ job'[q].tag = job[q].tag /\ (pc'[q] = "send" => pc[q] = "send")
  BY DEF PushTypeOK
<1>3. ASSUME NEW q \in Pushers PROVE Named(q)'
  BY <1>1, <1>2, SMTT(30) DEF NamedInv, Named
<1>4. ASSUME NEW u \in sent' PROVE Registered(u)'
  BY <1>1 DEF NamedInv, Named
<1> QED
  BY <1>3, <1>4 DEF NamedInv

LEMMA JobNames ==
    ASSUME NEW j \in Job, NEW n \in Nat,
           NEW k \in {j, [j EXCEPT !.seen = n], [j EXCEPT !.fits = TRUE], [j EXCEPT !.refreshed = TRUE]}
    PROVE  k.new = j.new /\ k.tag = j.tag
<1>1. CASE k = j
  BY <1>1
<1>2. CASE k = [j EXCEPT !.seen = n]
  BY <1>2 DEF Job
<1>3. CASE k = [j EXCEPT !.fits = TRUE]
  BY <1>3 DEF Job
<1>4. CASE k = [j EXCEPT !.refreshed = TRUE]
  BY <1>4 DEF Job
<1> QED
  BY <1>1, <1>2, <1>3, <1>4, Zenon

LEMMA LargerSeq == ASSUME NEW S, NEW T, S \subseteq T, NEW s \in Seq(S) PROVE s \in Seq(T)
OBVIOUS

LEMMA NamesReceive ==
    ASSUME PushTypeOK, NamedInv, NEW p \in Pushers, NEW bytes \in Sizes, NEW tag \in BOOLEAN,
           Receiving!Receive(p, bytes, tag)
    PROVE  NamedInv'
<1>1. PICK n : n = IF bytes = 0 THEN 0 ELSE made + 1
  OBVIOUS
<1>2. PICK j : j = [Receiving!NoJob EXCEPT !.old = ref, !.new = n, !.bytes = bytes, !.tag = tag, !.began = base]
  OBVIOUS
<1>3. j.new = n
  BY <1>2 DEF Receiving!NoJob
<1>4. PICK l \in {"update", "check"} : pc' = [pc EXCEPT ![p] = l]
  BY Zenon DEF Receiving!Receive, Receiving!Goto
<1>5. job' = [job EXCEPT ![p] = j] /\ made' = made + 1 /\ UNCHANGED <<db, sent>>
  BY <1>1, <1>2 DEF Receiving!Receive
<1>6. made \in Nat /\ n \in {0, made + 1}
  BY <1>1 DEF PushTypeOK
<1>7. ASSUME NEW u PROVE Registered(u)' = Registered(u)
  BY <1>5 DEF Registered
<1>8. \A i \in DOMAIN db.hook : \E u \in 1..made : db.hook[i] = Row(u)
  BY DEF NamedInv
<1>9. ~Registered(made + 1)
  <2>1. ASSUME NEW u, NEW v, Row(u) = Row(v) PROVE u = v
    BY <2>1 DEF Row
  <2> QED
    BY <1>6, <1>8, <2>1 DEF Registered
<1>10. db'.hook \in Seq({Row(u) : u \in 1..made'})
  <2>1. {Row(u) : u \in 1..made} \subseteq {Row(u) : u \in 1..made'}
    BY <1>5, <1>6
  <2>2. db.hook \in Seq({Row(u) : u \in 1..made}) /\ db'.hook = db.hook
    BY <1>5 DEF NamedInv
  <2> QED
    BY <2>1, <2>2, LargerSeq, Zenon
<1>11. ASSUME NEW q \in Pushers PROVE Named(q)'
  <2>1. ASSUME NEW r \in Pushers, r # p PROVE job'[r] = job[r] /\ pc'[r] = pc[r] /\ job[r].new \in Nat /\ job[r].new <= made
    BY <1>4, <1>5, <2>1 DEF PushTypeOK, Job, NamedInv, Named
  <2>2. job'[p].new = n /\ pc'[p] # "send"
    BY <1>3, <1>4, <1>5 DEF PushTypeOK
  <2>3. CASE q = p
    BY <1>5, <1>6, <1>7, <1>9, <2>1, <2>2, <2>3, SMTT(30) DEF Named
  <2>4. CASE q # p
    <3>1. Named(q)
      BY DEF NamedInv
    <3> QED
      BY <1>5, <1>6, <1>7, <2>1, <2>2, <2>4, <3>1, SMTT(30) DEF Named
  <2> QED
    BY <2>3, <2>4
<1> QED
  BY <1>5, <1>7, <1>10, <1>11 DEF NamedInv

LEMMA AppendHas ==
    ASSUME NEW S, NEW s \in Seq(S), NEW x \in S, NEW y
    PROVE  (\E i \in DOMAIN Append(s, x) : Append(s, x)[i] = y) <=> (\E i \in DOMAIN s : s[i] = y) \/ y = x
<1>1. /\ Len(s) \in Nat /\ DOMAIN s = 1..Len(s) /\ DOMAIN Append(s, x) = 1..(Len(s) + 1)
      /\ Append(s, x)[Len(s) + 1] = x /\ \A i \in 1..Len(s) : Append(s, x)[i] = s[i]
  OBVIOUS
<1>2. 1..(Len(s) + 1) = 1..Len(s) \cup {Len(s) + 1}
  BY <1>1
<1> QED
  BY <1>1, <1>2, Zenon

\* The only step that adds a row: its push has a number of its own and wants no silence.
LEMMA NamesRegister ==
    ASSUME Receiving!RegisteringAdds, PushTypeOK, NamedInv, NEW p \in Pushers, NEW l,
           Receiving!Wanted(p), Receiving!Registering(db, job[p].new).err = "nil",
           db' = Receiving!Registering(db, job[p].new).db, Receiving!Goto(p, l), UNCHANGED <<job, made, sent>>
    PROVE  NamedInv'
<1> DEFINE n == job[p].new
<1>1. n # 0 /\ n \in 1..made /\ job[p].tag = FALSE
  BY DEF Receiving!Wanted, Receiving!RevList, PushTypeOK, Job, NamedInv, Named
<1>2. Receiving!AddsRow(db, n)
  BY <1>1, Zenon DEF Receiving!RegisteringAdds
<1>3. db'.hook = Append(db.hook, Row(n))
  BY <1>2 DEF Receiving!AddsRow, Row
<1>4. db.hook \in Seq({Row(u) : u \in 1..made})
  BY DEF NamedInv
<1>5. Row(n) \in {Row(u) : u \in 1..made}
  BY <1>1
<1>6. db'.hook \in Seq({Row(u) : u \in 1..made'})
  BY <1>3, <1>4, <1>5
<1>7. ASSUME NEW u PROVE Registered(u)' <=> Registered(u) \/ Row(u) = Row(n)
  <2>1. (\E i \in DOMAIN Append(db.hook, Row(n)) : Append(db.hook, Row(n))[i] = Row(u)) <=> Registered(u) \/ Row(u) = Row(n)
    <3>1. PICK rows, h, x, y : rows = {Row(w) : w \in 1..made} /\ h = db.hook /\ x = Row(n) /\ y = Row(u)
      BY Zenon
    <3>2. h \in Seq(rows) /\ x \in rows
      BY <1>4, <1>5, <3>1, Zenon
    <3>3. (\E i \in DOMAIN Append(h, x) : Append(h, x)[i] = y) <=> (\E i \in DOMAIN h : h[i] = y) \/ y = x
      BY <3>2, AppendHas
    <3> QED
      BY <3>1, <3>3, Zenon DEF Registered
  <2> QED
    BY <1>3, <2>1 DEF Registered
<1>8. ASSUME NEW u, NEW v, Row(u) = Row(v) PROVE u = v
  BY <1>8 DEF Row
<1>9. ASSUME NEW q \in Pushers PROVE Named(q)'
  <2>1. pc'[q] = "send" => pc[q] = "send" \/ q = p
    BY DEF Receiving!Goto, PushTypeOK
  <2>2. Named(q) /\ Named(p)
    BY DEF NamedInv
  <2>3. ASSUME job[q].tag, job[q].new # 0 PROVE ~Registered(job[q].new)'
    <3>1. q # p /\ job[q].new # n
      BY <1>1, <2>2, <2>3 DEF Named
    <3>2. ~Registered(job[q].new)
      BY <2>2, <2>3 DEF Named
    <3> QED
      BY <1>7, <1>8, <3>1, <3>2
  <2>4. ASSUME pc'[q] = "send" PROVE Registered(job[q].new)'
    BY <1>7, <2>1, <2>2, <2>4 DEF Named
  <2>5. \A r \in Pushers : job'[q].new = job'[r].new => q = r \/ job'[q].new = 0
    BY <2>2 DEF Named
  <2> QED
    BY <2>2, <2>3, <2>4, <2>5, Zenon DEF Named
<1> QED
  BY <1>6, <1>7, <1>9 DEF NamedInv

LEMMA NamedInvStep ==
    ASSUME Receiving!RegisteringAdds, StorageInv, NamedInv, [Receiving!Next]_(Receiving!vars)
    PROVE  NamedInv'
<1>1. PushTypeOK
  BY DEF StorageInv
<1>2. ASSUME NEW p \in Pushers, Receiving!Step(p) PROVE NamedInv'
  <2>1. job[p] \in Job /\ base \in Nat /\ job = [job EXCEPT ![p] = job[p]]
    BY <1>1 DEF PushTypeOK
  <2>2. CASE Receiving!HandleWebHook(p)
    <3>1. CASE Receiving!Goto(p, "ref") /\ UNCHANGED <<db, job, made, sent>>
      <4>1. pc' = [pc EXCEPT ![p] = pc'[p]] /\ pc'[p] = "ref"
        BY <1>1, <3>1 DEF PushTypeOK, Receiving!Goto
      <4>2. job' = [job EXCEPT ![p] = job'[p]] /\ job'[p] = job[p]
        BY <2>1, <3>1
      <4> QED
        BY <1>1, <3>1, <4>1, <4>2, QuietNames
    <3>2. CASE /\ Receiving!Wanted(p) /\ Receiving!Registering(db, job[p].new).err = "nil"
               /\ db' = Receiving!Registering(db, job[p].new).db
               /\ Receiving!Goto(p, IF conf.json THEN "send" ELSE "ref") /\ UNCHANGED <<job, made, sent>>
      <4>1. PICK l : l = IF conf.json THEN "send" ELSE "ref"
        OBVIOUS
      <4> QED
        BY <1>1, <3>2, <4>1, NamesRegister
    <3> QED
      BY <2>2, <3>1, <3>2 DEF Receiving!HandleWebHook
  <2>3. CASE ~Receiving!HandleWebHook(p)
    <3>1. PICK l \in HookStages \ {"send"} : Receiving!Goto(p, l)
      BY <1>2, <2>3 DEF Receiving!Step, Receiving!StorageCheck, Receiving!CheckSizeLimit, Receiving!Migrate,
         Receiving!HandleUpdateTrigger, Receiving!refreshForkComparison, Receiving!Send, Receiving!UpdateRef, HookStages
    <3>2. /\ UNCHANGED <<db, made>>
          /\ sent' = sent \/ (sent' = sent \cup {job[p].new} /\ pc[p] = "send")
      BY <1>2, <2>3 DEF Receiving!Step, Receiving!StorageCheck, Receiving!CheckSizeLimit, Receiving!Migrate,
         Receiving!HandleUpdateTrigger, Receiving!refreshForkComparison, Receiving!Send, Receiving!UpdateRef
    <3>3. PICK j \in {job[p], [job[p] EXCEPT !.seen = base], [job[p] EXCEPT !.fits = TRUE], [job[p] EXCEPT !.refreshed = TRUE]} :
             job' = [job EXCEPT ![p] = j]
      <4>1. CASE Receiving!StorageCheck(p)
        BY <2>1, <4>1 DEF Receiving!StorageCheck
      <4>2. CASE Receiving!CheckSizeLimit(p)
        BY <2>1, <4>2 DEF Receiving!CheckSizeLimit
      <4>3. CASE Receiving!refreshForkComparison(p)
        BY <2>1, <4>3 DEF Receiving!refreshForkComparison
      <4>4. CASE UNCHANGED job
        BY <2>1, <4>4
      <4> QED
        BY <1>2, <2>3, <4>1, <4>2, <4>3, <4>4 DEF Receiving!Step, Receiving!Migrate,
           Receiving!HandleUpdateTrigger, Receiving!Send, Receiving!UpdateRef
    <3>4. j.new = job[p].new /\ j.tag = job[p].tag
      BY <2>1, <3>3, JobNames, Zenon
    <3>5. pc' = [pc EXCEPT ![p] = pc'[p]] /\ pc'[p] # "send"
      BY <1>1, <3>1 DEF PushTypeOK, Receiving!Goto
    <3>6. job' = [job EXCEPT ![p] = job'[p]] /\ job'[p] = j
      BY <1>1, <3>3 DEF PushTypeOK
    <3>7. \A u \in sent' : u \in sent \/ (u = job[p].new /\ pc[p] = "send")
      BY <3>2
    <3> QED
      BY <1>1, <3>2, <3>4, <3>5, <3>6, <3>7, QuietNames
  <2> QED
    BY <2>2, <2>3
<1>3. ASSUME UNCHANGED <<db, pc, job, made, sent>> PROVE NamedInv'
  BY <1>3 DEF NamedInv, Named, Registered
<1>4. ASSUME NEW u \in sent, NEW h, Receiving!Report(u, h) PROVE UNCHANGED <<db, pc, job, made, sent>>
  BY <1>4 DEF Receiving!Report
<1>5. ASSUME UNCHANGED Receiving!vars PROVE UNCHANGED <<db, pc, job, made, sent>>
  BY <1>5 DEF Receiving!vars
<1> QED
  BY <1>1, <1>2, <1>3, <1>4, <1>5, NamesReceive, Zenon DEF Receiving!Next

\* A webhook leaves only after its request was registered and of a push that did
\* not ask for silence (webhooks.go), and a push the storage check let through on
\* a size it could determine fits with what was there when it began
\* (storage-check.go, size.go): for any pushes at the same time, sizes and
\* limit, and any backend that registers a request by adding its row, as the
\* run on SQLite's schema finds it does (RegisteringAdds).
THEOREM PushesAreKept ==
    ASSUME PushAssumption
    PROVE  Receiving!Spec /\ []Receiving!RegisteringAdds =>
           [](Receiving!SentIsRegistered /\ Receiving!SilenceIsKept /\ Receiving!AcceptedPushesFit)
<1> DEFINE Kept == Receiving!SentIsRegistered /\ Receiving!SilenceIsKept /\ Receiving!AcceptedPushesFit
<1>1. Receiving!Init => StorageInv /\ NamedInv
  BY StorageInvInit, NamedInvInit
<1>2. StorageInv /\ NamedInv /\ Receiving!RegisteringAdds /\ [Receiving!Next]_(Receiving!vars) => StorageInv' /\ NamedInv'
  BY StorageInvStep, NamedInvStep
<1>3. StorageInv /\ NamedInv => Kept
  <2>1. ASSUME NEW u PROVE Row(u).uuid = u /\ Row(u).status = "undefined"
    BY DEF Row
  <2>2. ASSUME NamedInv PROVE Receiving!SentIsRegistered
    BY <2>1, <2>2 DEF NamedInv, Registered, Receiving!SentIsRegistered
  <2>3. ASSUME NamedInv, NEW p \in Pushers, job[p].tag, job[p].new # 0, NEW i \in DOMAIN db.hook
        PROVE  db.hook[i].uuid # job[p].new
    <3>1. PICK u \in 1..made : db.hook[i] = Row(u)
      BY <2>3 DEF NamedInv
    <3>2. ~Registered(job[p].new)
      BY <2>3 DEF NamedInv, Named
    <3> QED
      BY <2>1, <3>1, <3>2 DEF Registered
  <2>4. StorageInv => Receiving!AcceptedPushesFit
    BY DEF StorageInv, Weighed, Receiving!AcceptedPushesFit
  <2> QED
    BY <2>2, <2>3, <2>4 DEF Receiving!SilenceIsKept
<1>4. Receiving!Spec /\ []Receiving!RegisteringAdds => []Kept
  <2> HIDE DEF Kept
  <2> QED
    BY <1>1, <1>2, <1>3, PTL DEF Receiving!Spec
<1> QED
  BY <1>4
====
