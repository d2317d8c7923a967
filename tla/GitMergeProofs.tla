---- MODULE GitMergeProofs ----
(***************************************************************************)
(* What GitMerge.tla checks on a small instance, for any number of pull    *)
(* requests, concurrent merges and commits.                                *)
(***************************************************************************)
EXTENDS GitMerge, TLAPS

(* The trees and ancestors that the git commands compute are in the store. *)
LEMMA Stored ==
  ASSUME TypeOK, NEW a \in DOMAIN objs \cup {None}, NEW b \in DOMAIN objs \cup {None}
  PROVE  /\ Tree(a) \subseteq DOMAIN objs
         /\ Anc(a) \subseteq DOMAIN objs
         /\ MergeTree(a, b) \subseteq DOMAIN objs
<1> USE DEF TypeOK, CommitOver, None
<1>1. \A x \in DOMAIN objs \cup {None} : Tree(x) \subseteq DOMAIN objs /\ Anc(x) \subseteq DOMAIN objs
  BY DEF Tree, Anc
<1>2. MergeTree(a, b) \subseteq Tree(a) \cup Tree(b)
  BY DEF MergeTree, Merged
<1> QED
  BY <1>1, <1>2

(* commit-tree adds one object, of the right type, and changes no other. *)
LEMMA Written ==
  ASSUME TypeOK, NEW c, Fresh(c), NEW t \in SUBSET (DOMAIN objs \cup {c}),
         NEW a \in DOMAIN objs \cup {None}, NEW b \in DOMAIN objs \cup {None},
         Write(c, t, a, b)
  PROVE  /\ DOMAIN objs' = DOMAIN objs \cup {c}
         /\ DOMAIN objs' \subseteq 1..MaxCommits
         /\ objs' \in [DOMAIN objs' -> CommitOver(DOMAIN objs')]
         /\ \A x \in DOMAIN objs : objs'[x] = objs[x]
         /\ objs'[c].tree = t /\ objs'[c].anc = {c} \cup Anc(a) \cup Anc(b) /\ objs'[c].first = a
<1> USE DEF TypeOK, CommitOver, None, Fresh, Write
<1> DEFINE new == [tree |-> t, anc |-> {c} \cup Anc(a) \cup Anc(b),
                   first |-> a, second |-> IF a = b THEN None ELSE b]
<1>1. objs' = [x \in DOMAIN objs \cup {c} |-> IF x = c THEN new ELSE objs[x]]
  OBVIOUS
<1>2. Anc(a) \subseteq DOMAIN objs /\ Anc(b) \subseteq DOMAIN objs
  BY Stored
<1>3. DOMAIN objs' = DOMAIN objs \cup {c}
  BY <1>1
<1>4. new \in CommitOver(DOMAIN objs')
  BY <1>2, <1>3
<1>5. \A x \in DOMAIN objs : objs[x] \in CommitOver(DOMAIN objs')
  <2> SUFFICES ASSUME NEW x \in DOMAIN objs PROVE objs[x] \in CommitOver(DOMAIN objs')
    OBVIOUS
  <2>1. objs[x] \in CommitOver(DOMAIN objs)
    OBVIOUS
  <2> QED
    BY <2>1, <1>3
<1>6. objs' \in [DOMAIN objs' -> CommitOver(DOMAIN objs')]
  <2> HIDE DEF new, CommitOver
  <2> QED
    BY <1>1, <1>3, <1>4, <1>5, Zenon
<1>7. \A x \in DOMAIN objs : objs'[x] = objs[x]
  BY <1>1
<1>8. objs'[c] = new
  BY <1>1
<1>9. new.tree = t /\ new.anc = {c} \cup Anc(a) \cup Anc(b) /\ new.first = a
  OBVIOUS
<1>10. DOMAIN objs' \subseteq 1..MaxCommits
  BY <1>3
<1> HIDE DEF new
<1> QED
  BY <1>3, <1>6, <1>7, <1>8, <1>9, <1>10

(* A call in progress keeps its type while the store grows. *)
LEMMA JobsWiden ==
  ASSUME NEW S, NEW T, S \subseteq T
  PROVE  JobOver(S) \subseteq JobOver(T)
BY DEF JobOver

(* What the types say, once the new store and the new calls are known. *)
LEMMA TypesHold ==
  ASSUME TypeOK,
         DOMAIN objs \subseteq DOMAIN objs', DOMAIN objs' \subseteq 1..MaxCommits,
         objs' \in [DOMAIN objs' -> CommitOver(DOMAIN objs')],
         head' \in DOMAIN objs',
         provider' \in [PullRequests -> DOMAIN objs'],
         tracking' \in [PullRequests -> DOMAIN objs' \cup {None}],
         NEW w \in Workers, NEW j \in JobOver(DOMAIN objs'),
         j.pc # "idle" => j.pr \in PullRequests,
         job' = [job EXCEPT ![w] = j],
         moved' \in [Workers -> SUBSET {"head", "tracking"}]
  PROVE  TypeOK'
<1>1. \A v \in Workers : job'[v] = IF v = w THEN j ELSE job[v]
  BY DEF TypeOK
<1>2. \A v \in Workers : job[v] \in JobOver(DOMAIN objs')
  BY JobsWiden DEF TypeOK
<1>3. job' \in [Workers -> JobOver(DOMAIN objs')]
  BY <1>2 DEF TypeOK
<1> QED
  BY <1>1, <1>3 DEF TypeOK

(* A return from Merge keeps the types. *)
LEMMA LeaveTyped ==
  ASSUME TypeOK, NEW w \in Workers, Leave(w), UNCHANGED <<objs, head, provider, tracking>>
  PROVE  TypeOK'
<1>1. Idle \in JobOver(DOMAIN objs') /\ Idle.pc = "idle"
  BY DEF JobOver, Idle, None, NoPR, MergeMethods, PCs
<1>2. moved' \in [Workers -> SUBSET {"head", "tracking"}]
  BY DEF Leave, TypeOK
<1> QED
  BY <1>1, <1>2, TypesHold DEF Leave, TypeOK

(* The commands of a merge, one after the other. *)
LEMMA StepTyped ==
  ASSUME TypeOK, NEW w \in Workers, MergeStep(w)
  PROVE  TypeOK'
<1> DEFINE p == job[w].pr
<1> USE DEF None
<1>1. job[w] \in JobOver(DOMAIN objs) /\ (job[w].pc # "idle" => p \in PullRequests)
  BY DEF TypeOK
<1>2. p \in PullRequests /\ head \in DOMAIN objs /\ tracking[p] \in DOMAIN objs \cup {None}
  BY <1>1, Zenon DEF MergeStep, Fetch, WriteTree, CommitTree, IsAncestor, RevParse, RevList, ReadTip, Pick,
              Replay, UpdateRef, TypeOK
<1>3. Tip(w) \in DOMAIN objs
  BY <1>1, <1>2 DEF Tip, JobOver
<1>4. CASE Fetch(w)
  <2>1. p \in PullRequests
    BY <1>1, <1>4 DEF Fetch
  <2>2. tracking' \in [PullRequests -> DOMAIN objs \cup {None}]
    BY <1>4, <2>1 DEF Fetch, FetchBranch, TypeOK
  <2>3. moved' \in [Workers -> SUBSET {"head", "tracking"}]
    BY <1>4 DEF Fetch, TrackingMoved, TypeOK
  <2>4. PICK j \in JobOver(DOMAIN objs) : job' = [job EXCEPT ![w] = j] /\ j.pr = p
    <3> DEFINE j == [job[w] EXCEPT !.pc = IF job[w].method = "rebase" THEN "isAncestor" ELSE "writeTree"]
    <3>1. j \in JobOver(DOMAIN objs) /\ j.pr = p
      BY <1>1 DEF JobOver, PCs
    <3>2. job' = [job EXCEPT ![w] = j]
      BY <1>4 DEF Fetch, Goto
    <3> QED
      BY <3>1, <3>2, Zenon
  <2>5. UNCHANGED <<objs, head, provider>>
    BY <1>4 DEF Fetch
  <2> QED
    BY <2>1, <2>2, <2>3, <2>4, <2>5, TypesHold DEF TypeOK
<1>5. CASE WriteTree(w)
  <2>1. CASE Leave(w)
    BY <1>5, <2>1, LeaveTyped DEF WriteTree
  <2>2. CASE ~Leave(w)
    <3> DEFINE j == [job[w] EXCEPT !.pc = "commitTree", !.tree = MergeTree(head, tracking[p])]
    <3>1. j \in JobOver(DOMAIN objs) /\ j.pr = p
      BY <1>1, <1>2, Stored, Zenon DEF JobOver, PCs
    <3>2. job' = [job EXCEPT ![w] = j] /\ UNCHANGED <<objs, head, provider, tracking, moved>>
      BY <1>5, <2>2, Zenon DEF WriteTree
    <3> HIDE DEF j
    <3> QED
      BY <1>2, <3>1, <3>2, TypesHold DEF TypeOK
  <2> QED
    BY <2>1, <2>2
<1>6. CASE CommitTree(w)
  <2>1. CASE Leave(w) /\ UNCHANGED objs
    BY <1>6, <2>1, LeaveTyped, Zenon DEF CommitTree
  <2>2. CASE ~(Leave(w) /\ UNCHANGED objs)
    <3>1. PICK c \in 1..MaxCommits :
            /\ Fresh(c) /\ Write(c, job[w].tree, Parents(w)[1], Parents(w)[2])
            /\ job' = [job EXCEPT ![w].pc = "updateRef", ![w].tip = c, ![w].tree = {}]
      BY <1>6, <2>2, Zenon DEF CommitTree
    <3>2. Parents(w)[1] \in DOMAIN objs \cup {None} /\ Parents(w)[2] \in DOMAIN objs \cup {None}
      BY <1>2 DEF Parents
    <3>3. job[w].tree \in SUBSET (DOMAIN objs \cup {c})
      BY <1>1 DEF JobOver
    <3>4. /\ DOMAIN objs' = DOMAIN objs \cup {c} /\ DOMAIN objs' \subseteq 1..MaxCommits
          /\ objs' \in [DOMAIN objs' -> CommitOver(DOMAIN objs')]
      BY <3>1, <3>2, <3>3, Written, Zenon
    <3> DEFINE j == [job[w] EXCEPT !.pc = "updateRef", !.tip = c, !.tree = {}]
    <3>5. j \in JobOver(DOMAIN objs') /\ j.pr = p
      BY <1>1, <3>4, Zenon DEF JobOver, PCs
    <3>6. job' = [job EXCEPT ![w] = j] /\ UNCHANGED <<head, provider, tracking, moved>>
      BY <1>6, <2>2, <3>1, Zenon DEF CommitTree
    <3> HIDE DEF j
    <3> QED
      BY <1>2, <3>4, <3>5, <3>6, TypesHold, Zenon DEF TypeOK
  <2> QED
    BY <2>1, <2>2
<1>7. CASE IsAncestor(w) \/ RevParse(w) \/ RevList(w) \/ ReadTip(w)
  <2>1. PICK j \in JobOver(DOMAIN objs) : job' = [job EXCEPT ![w] = j] /\ j.pr = p
    <3>1. CASE IsAncestor(w)
      <4>1. PICK pc \in PCs : job' = [job EXCEPT ![w] = [job[w] EXCEPT !.pc = pc]]
        BY <3>1 DEF IsAncestor, Goto, PCs
      <4> DEFINE j == [job[w] EXCEPT !.pc = pc]
      <4>2. j \in JobOver(DOMAIN objs) /\ j.pr = p
        BY <1>1 DEF JobOver
      <4> QED
        BY <4>1, <4>2, Zenon
    <3>2. CASE RevParse(w)
      <4> DEFINE j == [job[w] EXCEPT !.pc = "updateRef", !.tip = tracking[p]]
      <4>1. j \in JobOver(DOMAIN objs) /\ j.pr = p
        BY <1>1, <1>2, Zenon DEF JobOver, PCs
      <4>2. job' = [job EXCEPT ![w] = j]
        BY <3>2, Zenon DEF RevParse
      <4> QED
        BY <4>1, <4>2, Zenon
    <3>3. CASE RevList(w)
      <4> DEFINE j == [job[w] EXCEPT !.pc = Continue(RevListOf(w)), !.todo = RevListOf(w)]
      <4>1. RevListOf(w) \subseteq DOMAIN objs
        BY <1>2, Stored DEF RevListOf
      <4>2. j \in JobOver(DOMAIN objs) /\ j.pr = p
        BY <1>1, <4>1, Zenon DEF JobOver, PCs, Continue
      <4>3. job' = [job EXCEPT ![w] = j]
        BY <3>3, Zenon DEF RevList
      <4> QED
        BY <4>2, <4>3, Zenon
    <3>4. CASE ReadTip(w)
      <4> DEFINE j == [job[w] EXCEPT !.pc = "pick", !.tipTree = Tree(Tip(w))]
      <4>1. j \in JobOver(DOMAIN objs) /\ j.pr = p
        BY <1>1, <1>3, Stored, Zenon DEF JobOver, PCs
      <4>2. job' = [job EXCEPT ![w] = j]
        BY <3>4, Zenon DEF ReadTip
      <4> QED
        BY <4>1, <4>2, Zenon
    <3> QED
      BY <1>7, <3>1, <3>2, <3>3, <3>4
  <2>2. UNCHANGED <<objs, head, provider, tracking, moved>>
    BY <1>7 DEF IsAncestor, RevParse, RevList, ReadTip
  <2> QED
    BY <1>2, <2>1, <2>2, TypesHold DEF TypeOK
<1>8. CASE Pick(w)
  <2>1. CASE Leave(w)
    BY <1>8, <2>1, LeaveTyped DEF Pick
  <2>2. CASE ~Leave(w)
    <3>1. PICK c \in job[w].todo :
            \/ job' = [job EXCEPT ![w].pc = Continue(TodoAfter(w, c)),
                                  ![w].todo = TodoAfter(w, c), ![w].tipTree = {}]
            \/ job' = [job EXCEPT ![w].pc = "replay",
                          ![w].tree = Merged(PickBase(c), Tree(Tip(w)), Tree(c)), ![w].tipTree = {}]
      BY <1>8, <2>2, Zenon DEF Pick
    <3>2. PICK j \in JobOver(DOMAIN objs) : job' = [job EXCEPT ![w] = j] /\ j.pr = p
      <4> DEFINE j1 == [job[w] EXCEPT !.pc = Continue(TodoAfter(w, c)),
                                      !.todo = TodoAfter(w, c), !.tipTree = {}]
                 j2 == [job[w] EXCEPT !.pc = "replay",
                          !.tree = Merged(PickBase(c), Tree(Tip(w)), Tree(c)), !.tipTree = {}]
      <4>1. TodoAfter(w, c) \subseteq DOMAIN objs /\ c \in DOMAIN objs
        BY <1>1 DEF TodoAfter, JobOver
      <4>2. Merged(PickBase(c), Tree(Tip(w)), Tree(c)) \subseteq DOMAIN objs
        <5>1. Tree(Tip(w)) \subseteq DOMAIN objs /\ Tree(c) \subseteq DOMAIN objs
          BY <1>3, <4>1, Stored
        <5> QED
          BY <5>1 DEF Merged
      <4>3. j1 \in JobOver(DOMAIN objs) /\ j1.pr = p
        BY <1>1, <4>1, Zenon DEF JobOver, PCs, Continue
      <4>4. j2 \in JobOver(DOMAIN objs) /\ j2.pr = p
        BY <1>1, <4>2, Zenon DEF JobOver, PCs
      <4>5. job' = [job EXCEPT ![w] = j1] \/ job' = [job EXCEPT ![w] = j2]
        BY <3>1, Zenon
      <4> HIDE DEF j1, j2
      <4> QED
        BY <4>3, <4>4, <4>5
    <3>3. UNCHANGED <<objs, head, provider, tracking, moved>>
      BY <1>8, <2>2 DEF Pick
    <3> QED
      BY <1>2, <3>2, <3>3, TypesHold DEF TypeOK
  <2> QED
    BY <2>1, <2>2
<1>9. CASE Replay(w)
  <2>1. CASE Leave(w) /\ UNCHANGED objs
    BY <1>9, <2>1, LeaveTyped, Zenon DEF Replay
  <2>2. CASE ~(Leave(w) /\ UNCHANGED objs)
    <3>1. PICK d \in job[w].todo, c \in 1..MaxCommits :
            /\ Fresh(c) /\ Write(c, job[w].tree, Tip(w), None)
            /\ job' = [job EXCEPT ![w].pc = Continue(job[w].todo \ {d}), ![w].tip = c,
                                  ![w].todo = @ \ {d}, ![w].tree = {}]
      BY <1>9, <2>2, Zenon DEF Replay
    <3>2. job[w].tree \in SUBSET (DOMAIN objs \cup {c})
      BY <1>1 DEF JobOver
    <3>3. /\ DOMAIN objs' = DOMAIN objs \cup {c} /\ DOMAIN objs' \subseteq 1..MaxCommits
          /\ objs' \in [DOMAIN objs' -> CommitOver(DOMAIN objs')]
      BY <1>3, <3>1, <3>2, Written, Zenon
    <3> DEFINE j == [job[w] EXCEPT !.pc = Continue(job[w].todo \ {d}), !.tip = c,
                                   !.todo = @ \ {d}, !.tree = {}]
    <3>4. j \in JobOver(DOMAIN objs') /\ j.pr = p
      BY <1>1, <3>3, Zenon DEF JobOver, PCs, Continue
    <3>5. job' = [job EXCEPT ![w] = j] /\ UNCHANGED <<head, provider, tracking, moved>>
      BY <1>9, <2>2, <3>1, ZenonT(40) DEF Replay
    <3> HIDE DEF j
    <3> QED
      BY <1>2, <3>3, <3>4, <3>5, TypesHold, Zenon DEF TypeOK
  <2> QED
    BY <2>1, <2>2
<1>10. CASE UpdateRef(w)
  <2> DEFINE j == [job[w] EXCEPT !.pc = "merged"]
  <2>1. j \in JobOver(DOMAIN objs) /\ j.pr = p
    BY <1>1 DEF JobOver, PCs
  <2>2. job' = [job EXCEPT ![w] = j] /\ UNCHANGED <<objs, provider, tracking>> /\ head' = Tip(w)
    BY <1>10 DEF UpdateRef, Goto
  <2>3. moved' \in [Workers -> SUBSET {"head", "tracking"}]
    BY <1>10 DEF UpdateRef, HeadMoved, TypeOK
  <2> HIDE DEF j
  <2> QED
    BY <1>2, <1>3, <2>1, <2>2, <2>3, TypesHold, Zenon DEF TypeOK
<1> QED
  BY <1>4, <1>5, <1>6, <1>7, <1>8, <1>9, <1>10 DEF MergeStep

(* Every step of the repository keeps the types. *)
LEMMA NextTyped ==
  ASSUME TypeOK, [Next]_gitvars
  PROVE  TypeOK'
<1>1. ASSUME NEW w \in Workers, NEW p \in PullRequests, NEW m \in MergeMethods, Call(w, p, m)
      PROVE  TypeOK'
  <2> DEFINE j == [Idle EXCEPT !.pc = "fetch", !.pr = p, !.method = m]
  <2>1. j \in JobOver(DOMAIN objs) /\ j.pr = p
    BY Zenon DEF JobOver, Idle, None, NoPR, MergeMethods, PCs
  <2>2. job' = [job EXCEPT ![w] = j]
    BY <1>1 DEF Call
  <2>3. UNCHANGED <<objs, head, provider, tracking, moved>>
    BY <1>1 DEF Call
  <2> HIDE DEF j
  <2> QED
    BY <2>1, <2>2, <2>3, TypesHold DEF TypeOK
<1>2. ASSUME NEW w \in Workers, MergeStep(w) PROVE TypeOK'
  BY <1>2, StepTyped
<1>3. ASSUME NEW w \in Workers, Return(w) \/ Crash(w) PROVE TypeOK'
  BY <1>3, LeaveTyped DEF Return, Crash
<1>4. ASSUME NEW p \in PullRequests, PushProvider(p) \/ SyncFork(p) PROVE TypeOK'
  <2>1. PICK c, t, a, b :
          /\ t \in SUBSET (DOMAIN objs \cup {c})
          /\ a \in DOMAIN objs \cup {None} /\ b \in DOMAIN objs \cup {None}
          /\ Fresh(c) /\ Write(c, t, a, b)
          /\ provider' = [provider EXCEPT ![p] = c]
    <3>1. CASE PushProvider(p)
      <4>1. PICK c \in 1..MaxCommits, b \in Anc(provider[p]) :
              /\ Fresh(c) /\ Write(c, Tree(b) \cup {c}, b, None)
              /\ provider' = [provider EXCEPT ![p] = c]
        BY <3>1, Zenon DEF PushProvider
      <4>2. provider[p] \in DOMAIN objs
        BY DEF TypeOK
      <4>3. b \in DOMAIN objs
        BY <4>2, Stored
      <4>4. Tree(b) \cup {c} \in SUBSET (DOMAIN objs \cup {c})
        BY <4>3, Stored
      <4> QED
        BY <4>1, <4>3, <4>4, Zenon
    <3>2. CASE SyncFork(p)
      <4>1. PICK c \in 1..MaxCommits :
              /\ Fresh(c) /\ Write(c, MergeTree(provider[p], head), provider[p], head)
              /\ provider' = [provider EXCEPT ![p] = c]
        BY <3>2, Zenon DEF SyncFork
      <4>2. provider[p] \in DOMAIN objs /\ head \in DOMAIN objs
        BY DEF TypeOK
      <4>3. MergeTree(provider[p], head) \in SUBSET (DOMAIN objs \cup {c})
        BY <4>2, Stored
      <4> QED
        BY <4>1, <4>2, <4>3, Zenon
    <3> QED
      BY <1>4, <3>1, <3>2
  <2>2. /\ DOMAIN objs' = DOMAIN objs \cup {c} /\ DOMAIN objs' \subseteq 1..MaxCommits
        /\ objs' \in [DOMAIN objs' -> CommitOver(DOMAIN objs')]
    BY <2>1, Written, Zenon
  <2>3. UNCHANGED <<head, tracking, job, moved>>
    BY <1>4 DEF PushProvider, SyncFork
  <2> QED
    BY <2>1, <2>2, <2>3, JobsWiden, Zenon DEF TypeOK
<1>5. CASE PushReceiver
  <2>1. PICK c \in 1..MaxCommits : Fresh(c) /\ Write(c, Tree(head) \cup {c}, head, None) /\ head' = c
    BY <1>5 DEF PushReceiver
  <2>2. head \in DOMAIN objs /\ Tree(head) \cup {c} \in SUBSET (DOMAIN objs \cup {c})
    BY Stored DEF TypeOK
  <2>3. /\ DOMAIN objs' = DOMAIN objs \cup {c} /\ DOMAIN objs' \subseteq 1..MaxCommits
        /\ objs' \in [DOMAIN objs' -> CommitOver(DOMAIN objs')]
    BY <2>1, <2>2, Written, Zenon
  <2>4. moved' \in [Workers -> SUBSET {"head", "tracking"}]
    BY <1>5 DEF PushReceiver, HeadMoved, TypeOK
  <2>5. UNCHANGED <<provider, tracking, job>>
    BY <1>5 DEF PushReceiver
  <2> QED
    BY <2>1, <2>3, <2>4, <2>5, JobsWiden, Zenon DEF TypeOK
<1>6. ASSUME NEW p \in PullRequests, Refresh(p) PROVE TypeOK'
  <2>1. moved' \in [Workers -> SUBSET {"head", "tracking"}]
    BY <1>6 DEF Refresh, TrackingMoved, TypeOK
  <2>2. tracking' \in [PullRequests -> DOMAIN objs \cup {None}]
    BY <1>6 DEF Refresh, FetchBranch, TypeOK
  <2> QED
    BY <1>6, <2>1, <2>2 DEF Refresh, TypeOK
<1>7. CASE UNCHANGED gitvars
  BY <1>7 DEF gitvars, TypeOK
<1> QED
  BY <1>1, <1>2, <1>3, <1>4, <1>5, <1>6, <1>7 DEF Next, Environment

(* A repository with one commit, and nobody merging. *)
LEMMA InitTyped == Init => TypeOK
<1> SUFFICES ASSUME Init PROVE TypeOK
  OBVIOUS
<1>1. DOMAIN objs = {1} /\ objs \in [DOMAIN objs -> CommitOver(DOMAIN objs)]
  BY DEF Init, CommitOver
<1>2. Idle \in JobOver(DOMAIN objs) /\ Idle.pc = "idle"
  BY DEF JobOver, Idle, None, NoPR, MergeMethods, PCs
<1>3. job \in [Workers -> JobOver(DOMAIN objs)]
  BY <1>2 DEF Init
<1> QED
  BY <1>1, <1>2, <1>3, BoundAssumption DEF Init, TypeOK

(* No ref, commit or call in progress ever names an object that is not in the
   store, whatever commands of different merges come between each other. *)
THEOREM TypeCorrect == Spec => []TypeOK
<1>1. Init => TypeOK
  BY InitTyped
<1>2. TypeOK /\ [Next]_gitvars => TypeOK'
  BY NextTyped
<1> QED
  BY <1>1, <1>2, PTL DEF Spec

----
(* The inductive invariant *)

(* Histories are closed: a commit reaches itself and whatever the commits it
   reaches do. *)
StoreInv ==
  \A c \in DOMAIN objs : /\ c \in objs[c].anc
                         /\ \A d \in objs[c].anc : objs[d].anc \subseteq objs[c].anc

Theirs(w) == tracking[job[w].pr]
Rebasing(w) == job[w].pc \in {"readTip", "pick", "replay"}

(* What each command of a merge may rely on. *)
JobInv(w) ==
  /\ Reading(w) => Theirs(w) # None
  /\ job[w].pc \in {"writeTree", "commitTree"} => job[w].method # "rebase"
  /\ job[w].pc \in {"isAncestor", "revParse", "revList"} => job[w].method = "rebase"
  /\ job[w].pc \in {"fetch", "isAncestor", "revParse", "revList"} => job[w].tip = None
  /\ job[w].pc = "commitTree" /\ moved[w] = {} => job[w].tree = MergeTree(head, Theirs(w))
  /\ job[w].pc = "revParse" /\ moved[w] = {} => head \in Anc(Theirs(w))
  /\ Rebasing(w) => job[w].method = "rebase"
  /\ Rebasing(w) /\ moved[w] = {} =>
       /\ Anc(head) \subseteq Anc(Tip(w))
       /\ job[w].todo \subseteq RevListOf(w)
       /\ Replayed(w, RevListOf(w) \ job[w].todo)
  /\ job[w].pc = "pick" /\ moved[w] = {} => job[w].tipTree = Tree(Tip(w))
  /\ job[w].pc = "replay" /\ moved[w] = {} =>
       \A c \in job[w].todo :
         IsFirst(c, job[w].todo) => job[w].tree = Merged(PickBase(c), Tree(Tip(w)), Tree(c))

WorkerInv(w) == JobInv(w) /\ KeepsReceiverIn(w) /\ DeliversProviderIn(w)

MergeInv == StoreInv /\ \A w \in Workers : WorkerInv(w)

----
Grows == /\ DOMAIN objs \subseteq DOMAIN objs'
         /\ \A x \in DOMAIN objs : objs'[x] = objs[x]

(* What a git command computes from commits it can see does not depend on the
   objects that are added later. *)
LEMMA Immutable ==
  ASSUME TypeOK, Grows
  PROVE  /\ \A a \in DOMAIN objs \cup {None} : Tree(a)' = Tree(a) /\ Anc(a)' = Anc(a)
         /\ \A a, b \in DOMAIN objs \cup {None} : MergeTree(a, b)' = MergeTree(a, b)
         /\ \A c \in DOMAIN objs : PickBase(c)' = PickBase(c)
<1>1. \A a \in DOMAIN objs \cup {None} : Tree(a)' = Tree(a) /\ Anc(a)' = Anc(a)
  BY DEF TypeOK, Tree, Anc, Grows, None
<1>2. \A c \in DOMAIN objs : objs[c].first \in DOMAIN objs \cup {None}
  BY DEF TypeOK, CommitOver
<1>3. \A c \in DOMAIN objs : PickBase(c)' = PickBase(c)
  BY <1>1, <1>2 DEF PickBase, Grows
<1>4. ASSUME NEW a \in DOMAIN objs \cup {None}, NEW b \in DOMAIN objs \cup {None}
      PROVE  MergeTree(a, b)' = MergeTree(a, b)
  <2> DEFINE common == Anc(a) \cap Anc(b)
             best == {x \in common : \A y \in common \ {x} : x \notin Anc(y)}
             best2 == {x \in common : \A y \in common \ {x} : x \notin Anc(y)'}
  <2>1. common \subseteq DOMAIN objs
    BY Stored
  <2>2. best = best2
    BY <1>1, <2>1
  <2>3. BaseTree(a, b) = UNION {Tree(c) : c \in best}
    BY DEF BaseTree
  <2>4. BaseTree(a, b)' = UNION {Tree(c)' : c \in best2}
    BY <1>1 DEF BaseTree
  <2>5. {Tree(c)' : c \in best2} = {Tree(c) : c \in best}
    BY <1>1, <2>1, <2>2
  <2>6. BaseTree(a, b)' = BaseTree(a, b)
    BY <2>3, <2>4, <2>5, Zenon
  <2> QED
    BY <1>1, <2>6 DEF MergeTree
<1> QED
  BY <1>1, <1>3, <1>4

(* commit-tree keeps histories closed. *)
LEMMA Closed ==
  ASSUME TypeOK, StoreInv, NEW c, Fresh(c), NEW t \in SUBSET (DOMAIN objs \cup {c}),
         NEW a \in DOMAIN objs \cup {None}, NEW b \in DOMAIN objs \cup {None},
         Write(c, t, a, b)
  PROVE  Grows /\ StoreInv'
<1>1. DOMAIN objs' = DOMAIN objs \cup {c}
  BY Written, Zenon
<1>6. \A x \in DOMAIN objs : objs'[x] = objs[x]
  BY Written, Zenon
<1>7. objs'[c].anc = {c} \cup Anc(a) \cup Anc(b)
  BY DEF Write
<1>2. \A x \in DOMAIN objs : objs[x].anc \subseteq DOMAIN objs
  BY DEF TypeOK, CommitOver
<1>3. \A x \in Anc(a) \cup Anc(b) : x \in DOMAIN objs /\ objs[x].anc \subseteq Anc(a) \cup Anc(b)
  BY <1>2 DEF Anc, StoreInv
<1>4. \A d \in objs'[c].anc : objs'[d].anc \subseteq objs'[c].anc
  BY <1>1, <1>3, <1>6, <1>7
<1>5. \A x \in DOMAIN objs : \A d \in objs'[x].anc : objs'[d].anc \subseteq objs'[x].anc
  BY <1>1, <1>2, <1>6 DEF StoreInv
<1> QED
  BY <1>1, <1>4, <1>5, <1>6, <1>7 DEF StoreInv, Grows

(* New objects do not change what a rebase has replayed. *)
LEMMA ReplayedHolds ==
  ASSUME TypeOK, Grows, NEW w \in Workers, NEW S \in SUBSET DOMAIN objs,
         Tree(head)' = Tree(head), Tree(Tip(w)) \subseteq Tree(Tip(w))',
         Replayed(w, S)
  PROVE  Replayed(w, S)'
<1>1. Tree(head) \subseteq DOMAIN objs /\ \A c \in S : Tree(c) \subseteq DOMAIN objs
  BY Stored DEF TypeOK
<1>2. \A c \in S : Added(c)' = Added(c) /\ Removed(c)' = Removed(c) /\ Added(c) \subseteq DOMAIN objs
  BY <1>1, Immutable DEF Added, Removed, PickBase
<1> QED
  BY <1>1, <1>2 DEF Replayed

(* A merge that does nothing itself, and whose refs did not move, finds what it
   computed so far still true; where a ref moved, `moved' says so. *)
LEMMA Frame ==
  ASSUME TypeOK, Grows, NEW w \in Workers, WorkerInv(w),
         job'[w] = job[w], moved[w] \subseteq moved'[w],
         head' \in DOMAIN objs',
         Reading(w) => \/ head' = head
                       \/ "head" \in moved'[w],
         Reading(w) => \/ Theirs(w)' = Theirs(w)
                       \/ "tracking" \in moved'[w] /\ Theirs(w)' # None
  PROVE  WorkerInv(w)'
<1>1. CASE ~Reading(w)
  BY <1>1 DEF WorkerInv, JobInv, KeepsReceiverIn, DeliversProviderIn, Reading, Rebasing
<1>2. ASSUME Reading(w)
      PROVE  /\ job[w] \in JobOver(DOMAIN objs)
             /\ Theirs(w) \in DOMAIN objs /\ head \in DOMAIN objs /\ Tip(w) \in DOMAIN objs
             /\ head' = head => Tip(w)' = Tip(w)
  <2>1. job[w] \in JobOver(DOMAIN objs) /\ job[w].pr \in PullRequests
    BY <1>2 DEF TypeOK, Reading
  <2>2. Theirs(w) \in DOMAIN objs
    BY <1>2, <2>1 DEF TypeOK, Theirs, WorkerInv, JobInv
  <2>3. head \in DOMAIN objs /\ Tip(w) \in DOMAIN objs
    BY <2>1 DEF TypeOK, Tip, JobOver
  <2>4. head' = head => Tip(w)' = Tip(w)
    BY DEF Tip
  <2> QED
    BY <2>1, <2>2, <2>3, <2>4
<1>3. ASSUME Reading(w), moved'[w] # {}
      PROVE  WorkerInv(w)'
  <2>1. JobInv(w)'
    BY <1>3 DEF WorkerInv, JobInv, Reading, Rebasing
  <2>2. DeliversProviderIn(w)'
    BY <1>3 DEF DeliversProviderIn
  <2>3. KeepsReceiverIn(w)'
    <3> SUFFICES ASSUME job[w].pc = "updateRef", "head" \notin moved'[w],
                        job[w].method = "rebase" => "tracking" \notin moved'[w]
                 PROVE  Anc(head)' \subseteq Anc(Tip(w))'
      BY DEF KeepsReceiverIn
    <3>1. head' = head /\ Tip(w)' = Tip(w)
      BY <1>2, <1>3
    <3>2. Anc(head) \subseteq Anc(Tip(w))
      BY DEF WorkerInv, KeepsReceiverIn
    <3> QED
      BY <1>2, <1>3, <3>1, <3>2, Immutable
  <2> QED
    BY <2>1, <2>2, <2>3 DEF WorkerInv
<1>4. ASSUME Reading(w), moved'[w] = {}
      PROVE  WorkerInv(w)'
  <2>1. moved[w] = {} /\ head' = head /\ Theirs(w)' = Theirs(w) /\ Tip(w)' = Tip(w)
    BY <1>2, <1>4
  <2>2. /\ Tree(head)' = Tree(head) /\ Anc(head)' = Anc(head)
        /\ Tree(Tip(w))' = Tree(Tip(w)) /\ Anc(Tip(w))' = Anc(Tip(w))
        /\ Anc(Theirs(w))' = Anc(Theirs(w))
        /\ MergeTree(head, Theirs(w))' = MergeTree(head, Theirs(w))
    BY <1>2, <1>4, <2>1, Immutable
  <2>3. RevListOf(w)' = RevListOf(w) /\ RevListOf(w) \subseteq DOMAIN objs
    <3>1. Anc(Theirs(w)) \subseteq DOMAIN objs
      BY <1>2, <1>4, Stored
    <3> QED
      BY <2>1, <2>2, <3>1 DEF RevListOf, Theirs, Grows
  <2>4. ASSUME NEW S \in SUBSET DOMAIN objs, Replayed(w, S)
        PROVE  Replayed(w, S)'
    BY <1>4, <2>1, <2>2, <2>4, ReplayedHolds
  <2>5. ASSUME NEW c \in job[w].todo
        PROVE  Merged(PickBase(c), Tree(Tip(w)), Tree(c))' = Merged(PickBase(c), Tree(Tip(w)), Tree(c))
    <3>1. c \in DOMAIN objs
      BY <1>2, <1>4 DEF JobOver
    <3> QED
      BY <2>2, <3>1, Immutable DEF Merged
  <2>6. JobInv(w)'
    <3>1. job[w].pc = "commitTree" => job[w].tree = MergeTree(head, Theirs(w))'
      BY <2>1, <2>2 DEF WorkerInv, JobInv
    <3>2. Rebasing(w) => /\ (Anc(head) \subseteq Anc(Tip(w)))'
                         /\ job[w].todo \subseteq RevListOf(w)'
                         /\ Replayed(w, RevListOf(w) \ job[w].todo)'
      BY <2>1, <2>2, <2>3, <2>4 DEF WorkerInv, JobInv
    <3> QED
      BY <1>4, <2>1, <2>2, <2>5, <3>1, <3>2 DEF WorkerInv, JobInv, Reading, Rebasing, IsFirst
  <2>7. KeepsReceiverIn(w)'
    BY <1>4, <2>1, <2>2 DEF KeepsReceiverIn, WorkerInv
  <2>8. DeliversProviderIn(w)'
    <3> SUFFICES ASSUME job[w].pc = "updateRef" PROVE DeliversProviderIn(w)'
      BY DEF DeliversProviderIn
    <3>1. \/ /\ job[w].method # "rebase"
             /\ Tree(Tip(w)) = MergeTree(head, Theirs(w))
             /\ job[w].method = "merge" => Theirs(w) \in Anc(Tip(w))
          \/ job[w].method = "rebase" /\ (Tip(w) = Theirs(w) \/ Replayed(w, RevListOf(w)))
      BY <2>1 DEF WorkerInv, DeliversProviderIn, Theirs
    <3>2. Replayed(w, RevListOf(w)) => Replayed(w, RevListOf(w))'
      BY <2>3, <2>4
    <3>3. \/ /\ job'[w].method # "rebase"
             /\ Tree(Tip(w))' = MergeTree(head, Theirs(w))'
             /\ job'[w].method = "merge" => Theirs(w)' \in Anc(Tip(w))'
          \/ job'[w].method = "rebase" /\ (Tip(w)' = Theirs(w)' \/ Replayed(w, RevListOf(w))')
      BY <2>1, <2>2, <3>1, <3>2
    <3> QED
      BY <3>3 DEF DeliversProviderIn, Theirs
  <2> QED
    BY <2>6, <2>7, <2>8 DEF WorkerInv
<1> QED
  BY <1>1, <1>3, <1>4

(* A command of one merge that moves no ref disturbs no other merge. *)
LEMMA OneWorker ==
  ASSUME TypeOK, TypeOK', MergeInv, Grows, StoreInv', UNCHANGED <<head, tracking>>,
         NEW w \in Workers, WorkerInv(w)',
         \A v \in Workers \ {w} : job'[v] = job[v] /\ moved'[v] = moved[v]
  PROVE  MergeInv'
<1> SUFFICES ASSUME NEW v \in Workers \ {w} PROVE WorkerInv(v)'
  BY DEF MergeInv
<1>1. WorkerInv(v) /\ head' \in DOMAIN objs'
  BY DEF MergeInv, TypeOK
<1>2. Theirs(v)' = Theirs(v)
  BY DEF Theirs
<1> QED
  BY <1>1, <1>2, Frame

(* A worker outside the commands that read the refs owes nothing. *)
LEMMA Outside ==
  ASSUME NEW w \in Workers, job'[w].pc \in {"idle", "fetch", "merged"},
         job'[w].pc = "fetch" => job'[w].tip = None
  PROVE  WorkerInv(w)'
BY DEF WorkerInv, JobInv, KeepsReceiverIn, DeliversProviderIn, Reading, Rebasing

(* The step of a worker that writes no object and moves no ref. *)
LEMMA QuietStep ==
  ASSUME TypeOK, TypeOK', MergeInv, UNCHANGED <<objs, head, tracking>>,
         NEW w \in Workers, NEW j, job' = [job EXCEPT ![w] = j], UNCHANGED moved,
         WorkerInv(w)'
  PROVE  MergeInv'
<1>1. Grows
  BY DEF Grows
<1>2. StoreInv'
  BY DEF StoreInv, MergeInv
<1>3. \A v \in Workers \ {w} : job'[v] = job[v] /\ moved'[v] = moved[v]
  BY DEF TypeOK
<1> QED
  BY <1>1, <1>2, <1>3, OneWorker

LEMMA LeaveKeeps ==
  ASSUME TypeOK, TypeOK', MergeInv, UNCHANGED <<objs, head, tracking>>,
         NEW w \in Workers, Leave(w)
  PROVE  MergeInv'
<1>1. Grows
  BY DEF Grows
<1>2. StoreInv'
  BY DEF StoreInv, MergeInv
<1>3. \A v \in Workers \ {w} : job'[v] = job[v] /\ moved'[v] = moved[v]
  BY DEF TypeOK, Leave
<1>4. WorkerInv(w)'
  <2>1. job'[w].pc = "idle"
    BY DEF Leave, TypeOK, Idle
  <2> QED
    BY <2>1, Outside
<1> QED
  BY <1>1, <1>2, <1>3, <1>4, OneWorker

(* A fetch of a provider branch, and a move of the receiver branch, are noted
   in every merge they may disturb. *)
LEMMA FetchOthers ==
  ASSUME TypeOK, MergeInv, UNCHANGED <<objs, head>>,
         NEW p \in PullRequests, FetchBranch(p),
         NEW v \in Workers, job'[v] = job[v], moved'[v] = TrackingMoved(p)[v]
  PROVE  WorkerInv(v)'
<1>1. Grows /\ head' \in DOMAIN objs' /\ WorkerInv(v)
  BY DEF Grows, TypeOK, MergeInv
<1>2. moved[v] \subseteq moved'[v]
  BY DEF TrackingMoved
<1>3. ASSUME Reading(v)
      PROVE  Theirs(v)' = Theirs(v) \/ ("tracking" \in moved'[v] /\ Theirs(v)' # None)
  <2>1. tracking' = [tracking EXCEPT ![p] = provider[p]] /\ tracking \in [PullRequests -> DOMAIN objs \cup {None}]
    BY DEF FetchBranch, TypeOK
  <2>2. provider[p] # None
    BY DEF TypeOK, None
  <2>3. CASE job[v].pr = p /\ tracking[p] # provider[p]
    BY <1>3, <2>1, <2>2, <2>3 DEF Theirs, TrackingMoved
  <2>4. CASE job[v].pr = p /\ tracking[p] = provider[p]
    BY <2>1, <2>4 DEF Theirs
  <2>5. CASE job[v].pr # p
    BY <2>1, <2>5 DEF Theirs
  <2> QED
    BY <2>3, <2>4, <2>5
<1> QED
  BY <1>1, <1>2, <1>3, Frame

LEMMA HeadOthers ==
  ASSUME TypeOK, TypeOK', MergeInv, Grows, UNCHANGED tracking,
         NEW v \in Workers, job'[v] = job[v], moved'[v] = HeadMoved[v]
  PROVE  WorkerInv(v)'
<1>1. WorkerInv(v) /\ head' \in DOMAIN objs'
  BY DEF MergeInv, TypeOK
<1>2. moved[v] \subseteq moved'[v] /\ (Reading(v) => head' = head \/ "head" \in moved'[v])
  BY DEF HeadMoved
<1>3. Theirs(v)' = Theirs(v)
  BY DEF Theirs
<1> QED
  BY <1>1, <1>2, <1>3, Frame

LEMMA FetchKeeps ==
  ASSUME TypeOK, TypeOK', MergeInv, NEW w \in Workers, Fetch(w)
  PROVE  MergeInv'
<1> DEFINE p == job[w].pr
<1>1. p \in PullRequests /\ FetchBranch(p) /\ UNCHANGED <<objs, head>>
  BY DEF Fetch, TypeOK
<1>2. StoreInv'
  BY <1>1 DEF MergeInv, StoreInv
<1>3. ASSUME NEW v \in Workers \ {w} PROVE WorkerInv(v)'
  <2>1. job'[v] = job[v] /\ moved'[v] = TrackingMoved(p)[v]
    BY Zenon DEF Fetch, Goto, TypeOK, TrackingMoved
  <2> QED
    BY <1>1, <2>1, FetchOthers
<1>4. WorkerInv(w)'
  <2>1. /\ job'[w].pc = IF job[w].method = "rebase" THEN "isAncestor" ELSE "writeTree"
        /\ job'[w].pr = p /\ job'[w].method = job[w].method /\ job'[w].tip = job[w].tip
    BY DEF Fetch, Goto, TypeOK, JobOver
  <2>2. job[w].tip = None
    BY Zenon DEF Fetch, MergeInv, WorkerInv, JobInv
  <2>3. Theirs(w)' # None
    BY <1>1, <2>1 DEF Theirs, FetchBranch, TypeOK, None
  <2> QED
    BY <2>1, <2>2, <2>3 DEF WorkerInv, JobInv, KeepsReceiverIn, DeliversProviderIn, Rebasing
<1> QED
  BY <1>2, <1>3, <1>4 DEF MergeInv

LEMMA UpdateRefKeeps ==
  ASSUME TypeOK, TypeOK', MergeInv, NEW w \in Workers, UpdateRef(w)
  PROVE  MergeInv'
<1>1. Grows /\ StoreInv' /\ UNCHANGED tracking
  BY DEF UpdateRef, Grows, MergeInv, StoreInv
<1>2. ASSUME NEW v \in Workers \ {w} PROVE WorkerInv(v)'
  <2>1. job'[v] = job[v] /\ moved'[v] = HeadMoved[v]
    BY Zenon DEF UpdateRef, Goto, TypeOK, HeadMoved
  <2> QED
    BY <1>1, <2>1, HeadOthers
<1>3. WorkerInv(w)'
  <2>1. job'[w].pc = "merged"
    BY DEF UpdateRef, Goto, TypeOK, JobOver
  <2> QED
    BY <2>1, Outside
<1> QED
  BY <1>1, <1>2, <1>3 DEF MergeInv

LEMMA WriteTreeKeeps ==
  ASSUME TypeOK, TypeOK', MergeInv, NEW w \in Workers, WriteTree(w)
  PROVE  MergeInv'
<1>1. UNCHANGED <<objs, head, tracking>> /\ job[w].pc = "writeTree" /\ job[w] \in JobOver(DOMAIN objs)
  BY DEF WriteTree, TypeOK
<1>2. CASE Leave(w)
  BY <1>1, <1>2, LeaveKeeps
<1>3. CASE /\ job' = [job EXCEPT ![w].pc = "commitTree", ![w].tree = MergeTree(head, Theirs(w))]
           /\ UNCHANGED moved
  <2> DEFINE j == [job[w] EXCEPT !.pc = "commitTree", !.tree = MergeTree(head, Theirs(w))]
  <2>1. job' = [job EXCEPT ![w] = j] /\ job'[w] = j
    BY <1>3, Zenon DEF TypeOK
  <2>2. /\ j.pc = "commitTree" /\ j.tree = MergeTree(head, Theirs(w))
        /\ j.pr = job[w].pr /\ j.method = job[w].method
    BY <1>1 DEF JobOver
  <2> HIDE DEF j
  <2>3. Theirs(w)' = Theirs(w) /\ MergeTree(head, Theirs(w))' = MergeTree(head, Theirs(w))
    BY <1>1, <2>1, <2>2, ZenonT(40) DEF Theirs, MergeTree, BaseTree, Tree, Anc
  <2>4. Theirs(w) # None /\ job[w].method # "rebase"
    BY <1>1, Zenon DEF MergeInv, WorkerInv, JobInv, Reading
  <2>5. WorkerInv(w)'
    BY <2>1, <2>2, <2>3, <2>4 DEF WorkerInv, JobInv, KeepsReceiverIn, DeliversProviderIn, Rebasing
  <2> QED
    BY <1>1, <1>3, <2>1, <2>5, QuietStep, Zenon
<1> QED
  BY <1>2, <1>3 DEF WriteTree, Theirs

LEMMA IsAncestorKeeps ==
  ASSUME TypeOK, TypeOK', MergeInv, NEW w \in Workers, IsAncestor(w)
  PROVE  MergeInv'
<1>1. /\ UNCHANGED <<objs, head, tracking, moved>>
      /\ job[w].pc = "isAncestor" /\ job[w] \in JobOver(DOMAIN objs)
  BY DEF IsAncestor, TypeOK
<1>2. PICK k \in {"revParse", "revList"} :
        /\ job' = [job EXCEPT ![w].pc = k]
        /\ k = "revParse" => head \in Anc(Theirs(w))
  BY DEF IsAncestor, Goto, Theirs
<1> DEFINE j == [job[w] EXCEPT !.pc = k]
<1>3. job' = [job EXCEPT ![w] = j] /\ job'[w] = j
  BY <1>2 DEF TypeOK
<1>4. j.pc = k /\ j.pr = job[w].pr /\ j.method = job[w].method /\ j.tip = job[w].tip
  BY <1>1 DEF JobOver
<1> HIDE DEF j
<1>5. Theirs(w)' = Theirs(w) /\ Anc(Theirs(w))' = Anc(Theirs(w))
  BY <1>1, <1>3, <1>4 DEF Theirs, Anc
<1>6. Theirs(w) # None /\ job[w].method = "rebase" /\ job[w].tip = None
  BY <1>1, Zenon DEF MergeInv, WorkerInv, JobInv, Reading
<1>7. k = "revParse" => (head \in Anc(Theirs(w)))'
  BY <1>1, <1>2, <1>5
<1>8. WorkerInv(w)'
  BY <1>2, <1>3, <1>4, <1>5, <1>6, <1>7 DEF WorkerInv, JobInv, KeepsReceiverIn, DeliversProviderIn, Rebasing
<1> QED
  BY <1>1, <1>3, <1>8, QuietStep, Zenon

LEMMA RevParseKeeps ==
  ASSUME TypeOK, TypeOK', MergeInv, NEW w \in Workers, RevParse(w)
  PROVE  MergeInv'
<1>1. /\ UNCHANGED <<objs, head, tracking, moved>>
      /\ job[w].pc = "revParse" /\ job[w] \in JobOver(DOMAIN objs)
  BY DEF RevParse, TypeOK
<1> DEFINE j == [job[w] EXCEPT !.pc = "updateRef", !.tip = Theirs(w)]
<1>3. job' = [job EXCEPT ![w] = j] /\ job'[w] = j
  BY Zenon DEF TypeOK, RevParse, Theirs
<1>4. j.pc = "updateRef" /\ j.pr = job[w].pr /\ j.method = job[w].method /\ j.tip = Theirs(w)
  BY <1>1 DEF JobOver
<1> HIDE DEF j
<1>5. Theirs(w) # None /\ job[w].method = "rebase" /\ (moved[w] = {} => head \in Anc(Theirs(w)))
  BY <1>1, Zenon DEF MergeInv, WorkerInv, JobInv, Reading
<1>6. Theirs(w)' = Theirs(w) /\ Tip(w)' = Theirs(w)
  BY <1>1, <1>3, <1>4, <1>5 DEF Theirs, Tip
<1>7. Theirs(w) \in DOMAIN objs
  BY <1>1, <1>5 DEF TypeOK, Theirs
<1>8. moved[w] = {} => Anc(head) \subseteq Anc(Theirs(w))
  BY <1>5, <1>7 DEF MergeInv, StoreInv, Anc, TypeOK, None
<1>9. moved[w] = {} => (Anc(head) \subseteq Anc(Tip(w)))'
  BY <1>1, <1>6, <1>8 DEF Anc
<1>10. KeepsReceiverIn(w)'
  BY <1>1, <1>3, <1>4, <1>5, <1>9 DEF KeepsReceiverIn, TypeOK
<1>11. DeliversProviderIn(w)'
  BY <1>3, <1>4, <1>5, <1>6 DEF DeliversProviderIn, Theirs
<1>12. JobInv(w)'
  BY <1>3, <1>4, <1>5, <1>6 DEF JobInv, Rebasing
<1> QED
  BY <1>1, <1>3, <1>10, <1>11, <1>12, QuietStep, Zenon DEF WorkerInv

----
(* The loop of rebaseCommits: before and after every round the tip has what the
   commits that are done owe, so that when none is left it has all of it. *)
LEMMA Round ==
  ASSUME TypeOK', NEW w \in Workers, job'[w].method = "rebase", Theirs(w)' # None,
         job'[w].pc = Continue(job'[w].todo),
         moved'[w] = {} => /\ (Anc(head) \subseteq Anc(Tip(w)))'
                           /\ (job[w].todo \subseteq RevListOf(w))'
                           /\ Replayed(w, RevListOf(w) \ job[w].todo)'
  PROVE  WorkerInv(w)'
<1>1. moved'[w] \subseteq {"head", "tracking"}
  BY DEF TypeOK
<1>2. CASE job'[w].todo = {}
  <2>1. job'[w].pc = "updateRef"
    BY <1>2 DEF Continue
  <2>2. moved'[w] = {} => Replayed(w, RevListOf(w))'
    <3>1. (RevListOf(w) \ job[w].todo)' = RevListOf(w)'
      BY <1>2
    <3> QED
      BY <3>1
  <2>3. KeepsReceiverIn(w)'
    BY <1>1, <2>1 DEF KeepsReceiverIn
  <2>4. DeliversProviderIn(w)'
    BY <2>2 DEF DeliversProviderIn
  <2>5. JobInv(w)'
    BY <2>1 DEF JobInv, Rebasing
  <2> QED
    BY <2>3, <2>4, <2>5 DEF WorkerInv
<1>3. CASE job'[w].todo # {}
  <2>1. job'[w].pc = "readTip"
    BY <1>3 DEF Continue
  <2> QED
    BY <2>1 DEF WorkerInv, JobInv, Rebasing, KeepsReceiverIn, DeliversProviderIn
<1> QED
  BY <1>2, <1>3

(* Cherry-picking a commit onto a tip that has what S owes gives a tree that
   has what S and the commit owe. *)
LEMMA PickOne ==
  ASSUME NEW w \in Workers, NEW S, Replayed(w, S), NEW c
  PROVE  \A x \in DOMAIN objs :
           /\ x \in Tree(head) \/ \E d \in S \cup {c} : x \in Added(d)
           /\ \A d \in S \cup {c} : x \notin Removed(d)
           => x \in Merged(PickBase(c), Tree(Tip(w)), Tree(c))
BY DEF Replayed, Added, Removed, PickBase, Merged

(* What a merge looks at does not change in a step that writes nothing. *)
LEMMA SameView ==
  ASSUME UNCHANGED <<objs, head, tracking>>, NEW w \in Workers,
         job'[w].pr = job[w].pr, job'[w].tip = job[w].tip
  PROVE  /\ Theirs(w)' = Theirs(w) /\ Tip(w)' = Tip(w) /\ RevListOf(w)' = RevListOf(w)
         /\ \A x : Tree(x)' = Tree(x) /\ Anc(x)' = Anc(x)
         /\ \A x : PickBase(x)' = PickBase(x)
         /\ \A S : Replayed(w, S) => Replayed(w, S)'
<1>1. \A x : Tree(x)' = Tree(x) /\ Anc(x)' = Anc(x)
  BY DEF Tree, Anc
<1>2. Theirs(w)' = Theirs(w) /\ Tip(w)' = Tip(w)
  BY DEF Theirs, Tip
<1>3. RevListOf(w)' = RevListOf(w)
  BY <1>1 DEF RevListOf
<1>4. \A x : PickBase(x)' = PickBase(x)
  BY <1>1 DEF PickBase
<1>5. \A S : Replayed(w, S) => Replayed(w, S)'
  BY <1>1, <1>2, <1>4 DEF Replayed, Added, Removed, PickBase
<1> QED
  BY <1>1, <1>2, <1>3, <1>4, <1>5

LEMMA RevListKeeps ==
  ASSUME TypeOK, TypeOK', MergeInv, NEW w \in Workers, RevList(w)
  PROVE  MergeInv'
<1>1. /\ UNCHANGED <<objs, head, tracking, moved>>
      /\ job[w].pc = "revList" /\ job[w] \in JobOver(DOMAIN objs)
  BY DEF RevList, TypeOK
<1> DEFINE j == [job[w] EXCEPT !.pc = Continue(RevListOf(w)), !.todo = RevListOf(w)]
<1>2. job' = [job EXCEPT ![w] = j] /\ job'[w] = j
  BY Zenon DEF TypeOK, RevList
<1>3. /\ j.pc = Continue(RevListOf(w)) /\ j.todo = RevListOf(w)
      /\ j.pr = job[w].pr /\ j.method = job[w].method /\ j.tip = job[w].tip
  BY <1>1 DEF JobOver
<1> HIDE DEF j
<1>4. Theirs(w) # None /\ job[w].method = "rebase" /\ job[w].tip = None
  BY <1>1, Zenon DEF MergeInv, WorkerInv, JobInv, Reading
<1>5. Theirs(w)' = Theirs(w) /\ RevListOf(w)' = RevListOf(w) /\ Tip(w)' = head'
  BY <1>1, <1>2, <1>3, <1>4, SameView DEF Tip
<1>6. Replayed(w, RevListOf(w) \ job[w].todo)'
  BY <1>2, <1>3, <1>5 DEF Replayed
<1>7. WorkerInv(w)'
  BY <1>2, <1>3, <1>4, <1>5, <1>6, Round
<1> QED
  BY <1>1, <1>2, <1>7, QuietStep, Zenon

LEMMA ReadTipKeeps ==
  ASSUME TypeOK, TypeOK', MergeInv, NEW w \in Workers, ReadTip(w)
  PROVE  MergeInv'
<1>1. /\ UNCHANGED <<objs, head, tracking, moved>>
      /\ job[w].pc = "readTip" /\ job[w] \in JobOver(DOMAIN objs)
  BY DEF ReadTip, TypeOK
<1> DEFINE j == [job[w] EXCEPT !.pc = "pick", !.tipTree = Tree(Tip(w))]
<1>2. job' = [job EXCEPT ![w] = j] /\ job'[w] = j
  BY Zenon DEF TypeOK, ReadTip
<1>3. /\ j.pc = "pick" /\ j.tipTree = Tree(Tip(w)) /\ j.todo = job[w].todo
      /\ j.pr = job[w].pr /\ j.method = job[w].method /\ j.tip = job[w].tip
  BY <1>1 DEF JobOver
<1> HIDE DEF j
<1>4. /\ Theirs(w) # None /\ job[w].method = "rebase"
      /\ moved[w] = {} => /\ Anc(head) \subseteq Anc(Tip(w))
                          /\ job[w].todo \subseteq RevListOf(w)
                          /\ Replayed(w, RevListOf(w) \ job[w].todo)
  BY <1>1 DEF MergeInv, WorkerInv, JobInv, Reading, Rebasing
<1>5. /\ Theirs(w)' = Theirs(w) /\ Tip(w)' = Tip(w) /\ RevListOf(w)' = RevListOf(w)
      /\ \A x : Tree(x)' = Tree(x) /\ Anc(x)' = Anc(x)
      /\ \A S : Replayed(w, S) => Replayed(w, S)'
  BY <1>1, <1>2, <1>3, SameView
<1>6. moved'[w] = {} => /\ (Anc(head) \subseteq Anc(Tip(w)))'
                        /\ (job[w].todo \subseteq RevListOf(w))'
                        /\ Replayed(w, RevListOf(w) \ job[w].todo)'
  BY <1>1, <1>2, <1>3, <1>4, <1>5
<1>7. job'[w].tipTree = Tree(Tip(w))'
  BY <1>2, <1>3, <1>5
<1>8. WorkerInv(w)'
  BY <1>2, <1>3, <1>4, <1>5, <1>6, <1>7 DEF WorkerInv, JobInv, Rebasing, KeepsReceiverIn, DeliversProviderIn
<1> QED
  BY <1>1, <1>2, <1>8, QuietStep, Zenon

LEMMA PickKeeps ==
  ASSUME TypeOK, TypeOK', MergeInv, NEW w \in Workers, Pick(w)
  PROVE  MergeInv'
<1>1. /\ UNCHANGED <<objs, head, tracking>>
      /\ job[w].pc = "pick" /\ job[w] \in JobOver(DOMAIN objs)
  BY DEF Pick, TypeOK
<1>2. /\ Theirs(w) # None /\ job[w].method = "rebase"
      /\ moved[w] = {} => /\ Anc(head) \subseteq Anc(Tip(w))
                          /\ job[w].todo \subseteq RevListOf(w)
                          /\ Replayed(w, RevListOf(w) \ job[w].todo)
                          /\ job[w].tipTree = Tree(Tip(w))
  BY <1>1, Zenon DEF MergeInv, WorkerInv, JobInv, Reading, Rebasing
<1>3. PICK c \in job[w].todo :
        LET result == Merged(PickBase(c), Tree(Tip(w)), Tree(c))
        IN  /\ IsFirst(c, job[w].todo)
            /\ \/ Leave(w)
               \/ /\ result = job[w].tipTree
                  /\ job' = [job EXCEPT ![w].pc = Continue(TodoAfter(w, c)),
                                        ![w].todo = TodoAfter(w, c), ![w].tipTree = {}]
                  /\ UNCHANGED moved
               \/ /\ job' = [job EXCEPT ![w].pc = "replay", ![w].tree = result, ![w].tipTree = {}]
                  /\ UNCHANGED moved
  BY Zenon DEF Pick
<1> DEFINE result == Merged(PickBase(c), Tree(Tip(w)), Tree(c))
<1>4. CASE Leave(w)
  BY <1>1, <1>4, LeaveKeeps
<1>5. CASE /\ result = job[w].tipTree
           /\ job' = [job EXCEPT ![w].pc = Continue(TodoAfter(w, c)),
                                 ![w].todo = TodoAfter(w, c), ![w].tipTree = {}]
           /\ UNCHANGED moved
  <2> DEFINE j == [job[w] EXCEPT !.pc = Continue(TodoAfter(w, c)), !.todo = TodoAfter(w, c), !.tipTree = {}]
  <2>1. job' = [job EXCEPT ![w] = j] /\ job'[w] = j
    BY <1>5, Zenon DEF TypeOK
  <2>2. /\ j.pc = Continue(TodoAfter(w, c)) /\ j.todo = job[w].todo \ {c}
        /\ j.pr = job[w].pr /\ j.method = job[w].method /\ j.tip = job[w].tip
    BY <1>1 DEF JobOver, TodoAfter
  <2> HIDE DEF j
  <2>3. /\ Theirs(w)' = Theirs(w) /\ Tip(w)' = Tip(w) /\ RevListOf(w)' = RevListOf(w)
        /\ \A x : Tree(x)' = Tree(x) /\ Anc(x)' = Anc(x)
        /\ \A S : Replayed(w, S) => Replayed(w, S)'
    BY <1>1, <2>1, <2>2, SameView
  <2>4. ASSUME moved[w] = {}
        PROVE  Replayed(w, RevListOf(w) \ j.todo)
    <3> DEFINE S == RevListOf(w) \ job[w].todo
    <3>1. Replayed(w, S) /\ RevListOf(w) \ j.todo = S \cup {c}
      BY <1>2, <1>3, <2>2, <2>4
    <3>2. result = Tree(Tip(w))
      BY <1>2, <1>5, <2>4
    <3> HIDE DEF S
    <3>3. Replayed(w, S \cup {c})
      BY <3>1, <3>2, PickOne DEF Replayed
    <3> QED
      BY <3>1, <3>3
  <2>5. moved'[w] = {} => /\ (Anc(head) \subseteq Anc(Tip(w)))'
                          /\ (job[w].todo \subseteq RevListOf(w))'
                          /\ Replayed(w, RevListOf(w) \ job[w].todo)'
    BY <1>1, <1>2, <1>5, <2>1, <2>2, <2>3, <2>4, Zenon
  <2>6. WorkerInv(w)'
    BY <1>2, <2>1, <2>2, <2>3, <2>5, Round, Zenon DEF TodoAfter
  <2> QED
    BY <1>1, <1>5, <2>1, <2>6, QuietStep, Zenon
<1>6. CASE /\ job' = [job EXCEPT ![w].pc = "replay", ![w].tree = result, ![w].tipTree = {}]
           /\ UNCHANGED moved
  <2> DEFINE j == [job[w] EXCEPT !.pc = "replay", !.tree = result, !.tipTree = {}]
  <2>1. job' = [job EXCEPT ![w] = j] /\ job'[w] = j
    BY <1>6, Zenon DEF TypeOK
  <2>2. /\ j.pc = "replay" /\ j.tree = result /\ j.todo = job[w].todo
        /\ j.pr = job[w].pr /\ j.method = job[w].method /\ j.tip = job[w].tip
    BY <1>1 DEF JobOver
  <2> HIDE DEF j
  <2>3. /\ Theirs(w)' = Theirs(w) /\ Tip(w)' = Tip(w) /\ RevListOf(w)' = RevListOf(w)
        /\ \A x : Tree(x)' = Tree(x) /\ Anc(x)' = Anc(x)
        /\ \A x : PickBase(x)' = PickBase(x)
        /\ \A S : Replayed(w, S) => Replayed(w, S)'
    BY <1>1, <2>1, <2>2, SameView
  <2>4. \A d \in job[w].todo : IsFirst(d, job[w].todo) => d = c
    <3>1. job[w].todo \subseteq Int
      BY <1>1 DEF TypeOK, JobOver
    <3> QED
      BY <1>3, <3>1 DEF IsFirst
  <2>5. \A d \in job'[w].todo :
          IsFirst(d, job'[w].todo) => job'[w].tree = Merged(PickBase(d), Tree(Tip(w)), Tree(d))'
    BY <2>1, <2>2, <2>3, <2>4 DEF Merged
  <2>6. moved'[w] = {} => /\ (Anc(head) \subseteq Anc(Tip(w)))'
                          /\ (job[w].todo \subseteq RevListOf(w))'
                          /\ Replayed(w, RevListOf(w) \ job[w].todo)'
    BY <1>1, <1>2, <1>6, <2>1, <2>2, <2>3, Zenon
  <2>7. WorkerInv(w)'
    BY <1>2, <2>1, <2>2, <2>3, <2>5, <2>6, Zenon DEF WorkerInv, JobInv, Rebasing, KeepsReceiverIn, DeliversProviderIn
  <2> QED
    BY <1>1, <1>6, <2>1, <2>7, QuietStep, Zenon
<1> QED
  BY <1>3, <1>4, <1>5, <1>6

LEMMA ReplayKeeps ==
  ASSUME TypeOK, TypeOK', MergeInv, NEW w \in Workers, Replay(w)
  PROVE  MergeInv'
<1>1. /\ UNCHANGED <<head, tracking>>
      /\ job[w].pc = "replay" /\ job[w] \in JobOver(DOMAIN objs)
  BY Zenon DEF Replay, TypeOK
<1>2. /\ Theirs(w) # None /\ job[w].method = "rebase"
      /\ moved[w] = {} =>
           /\ Anc(head) \subseteq Anc(Tip(w))
           /\ job[w].todo \subseteq RevListOf(w)
           /\ Replayed(w, RevListOf(w) \ job[w].todo)
           /\ \A d \in job[w].todo :
                IsFirst(d, job[w].todo) => job[w].tree = Merged(PickBase(d), Tree(Tip(w)), Tree(d))
  BY <1>1, Zenon DEF MergeInv, WorkerInv, JobInv, Reading, Rebasing
<1>3. CASE Leave(w) /\ UNCHANGED objs
  BY <1>1, <1>3, LeaveKeeps
<1>4. ASSUME NEW d \in job[w].todo, IsFirst(d, job[w].todo), NEW c, Fresh(c),
             Write(c, job[w].tree, Tip(w), None), UNCHANGED moved,
             job' = [job EXCEPT ![w].pc = Continue(job[w].todo \ {d}), ![w].tip = c,
                                ![w].todo = @ \ {d}, ![w].tree = {}]
      PROVE  MergeInv'
  <2>1. /\ Tip(w) \in DOMAIN objs /\ Theirs(w) \in DOMAIN objs /\ head \in DOMAIN objs
        /\ d \in DOMAIN objs /\ job[w].tree \in SUBSET (DOMAIN objs \cup {c})
    BY <1>1, <1>2 DEF TypeOK, JobOver, Tip, Theirs
  <2>2. Grows /\ StoreInv'
    BY <1>4, <2>1, Closed DEF MergeInv
  <2>3. Tree(c)' = job[w].tree /\ Anc(c)' = {c} \cup Anc(Tip(w)) /\ c # None
    BY <1>4 DEF Write, Fresh, None, Tree, Anc
  <2> DEFINE j == [job[w] EXCEPT !.pc = Continue(job[w].todo \ {d}), !.tip = c,
                                 !.todo = @ \ {d}, !.tree = {}]
  <2>4. job' = [job EXCEPT ![w] = j] /\ job'[w] = j
    BY <1>4, Zenon DEF TypeOK
  <2>5. /\ j.pc = Continue(job[w].todo \ {d}) /\ j.todo = job[w].todo \ {d} /\ j.tip = c
        /\ j.pr = job[w].pr /\ j.method = job[w].method
    BY <1>1 DEF JobOver
  <2> HIDE DEF j
  <2>6. Tip(w)' = c /\ Theirs(w)' = Theirs(w)
    BY <1>1, <2>3, <2>4, <2>5 DEF Tip, Theirs
  <2>7. /\ Tree(head)' = Tree(head) /\ Anc(head)' = Anc(head)
        /\ Anc(Theirs(w))' = Anc(Theirs(w))
    BY <1>1, <2>1, <2>2, <2>6, Immutable
  <2>8. RevListOf(w)' = RevListOf(w) /\ RevListOf(w) \subseteq DOMAIN objs
    <3>1. Anc(Theirs(w)) \subseteq DOMAIN objs
      BY <2>1, Stored
    <3> QED
      BY <2>2, <2>6, <2>7, <3>1 DEF RevListOf, Theirs, Grows
  <2>9. ASSUME moved[w] = {}
        PROVE  Replayed(w, RevListOf(w) \ job[w].todo)'
    <3>7. PICK S : S = RevListOf(w) \ job[w].todo
      BY Zenon
    <3>1. /\ Replayed(w, S) /\ S \subseteq DOMAIN objs
          /\ (RevListOf(w) \ job[w].todo)' = S \cup {d}
      BY <1>2, <1>4, <2>4, <2>5, <2>8, <2>9, <3>7
    <3>2. Tree(Tip(w))' = Merged(PickBase(d), Tree(Tip(w)), Tree(d))
      BY <1>2, <1>4, <2>3, <2>6, <2>9
    <3>3. \A e \in S \cup {d} : /\ Added(e)' = Added(e) /\ Removed(e)' = Removed(e)
                                /\ Added(e) \subseteq DOMAIN objs
      <4>1. \A e \in S \cup {d} : e \in DOMAIN objs
        BY <2>1, <3>1
      <4>2. \A e \in S \cup {d} : Tree(e) \subseteq DOMAIN objs
        BY <4>1, Stored
      <4> QED
        BY <2>2, <4>1, <4>2, Immutable DEF Added, Removed, PickBase
    <3>4. Tree(head) \subseteq DOMAIN objs
      BY <2>1, Stored
    <3>5. \A x \in DOMAIN objs :
            /\ x \in Tree(head) \/ \E e \in S \cup {d} : x \in Added(e)
            /\ \A e \in S \cup {d} : x \notin Removed(e)
            => x \in Tree(Tip(w))'
      BY <3>1, <3>2, PickOne
    <3>6. Replayed(w, S \cup {d})'
      BY <2>7, <3>3, <3>4, <3>5 DEF Replayed
    <3> QED
      BY <3>1, <3>6
  <2>10. moved'[w] = {} => /\ (Anc(head) \subseteq Anc(Tip(w)))'
                           /\ (job[w].todo \subseteq RevListOf(w))'
                           /\ Replayed(w, RevListOf(w) \ job[w].todo)'
    BY <1>2, <1>4, <2>3, <2>4, <2>5, <2>6, <2>7, <2>8, <2>9
  <2>11. WorkerInv(w)'
    BY <1>2, <2>4, <2>5, <2>6, <2>10, Round, Zenon
  <2>12. \A v \in Workers \ {w} : job'[v] = job[v] /\ moved'[v] = moved[v]
    BY <1>4, <2>4 DEF TypeOK
  <2> QED
    BY <1>1, <2>2, <2>11, <2>12, OneWorker, Zenon
<1> QED
  BY <1>3, <1>4, Zenon DEF Replay

LEMMA CommitTreeKeeps ==
  ASSUME TypeOK, TypeOK', MergeInv, NEW w \in Workers, CommitTree(w)
  PROVE  MergeInv'
<1>1. /\ UNCHANGED <<head, tracking>>
      /\ job[w].pc = "commitTree" /\ job[w] \in JobOver(DOMAIN objs)
  BY Zenon DEF CommitTree, TypeOK
<1>2. /\ Theirs(w) # None /\ job[w].method # "rebase"
      /\ moved[w] = {} => job[w].tree = MergeTree(head, Theirs(w))
  BY <1>1, Zenon DEF MergeInv, WorkerInv, JobInv, Reading
<1>3. CASE Leave(w) /\ UNCHANGED objs
  BY <1>1, <1>3, LeaveKeeps
<1>4. ASSUME NEW c, Fresh(c), Write(c, job[w].tree, Parents(w)[1], Parents(w)[2]), UNCHANGED moved,
             job' = [job EXCEPT ![w].pc = "updateRef", ![w].tip = c, ![w].tree = {}]
      PROVE  MergeInv'
  <2> DEFINE b == Parents(w)[2]
  <2>1. /\ Parents(w)[1] = head /\ b \in DOMAIN objs \cup {None}
        /\ job[w].method = "merge" => b = Theirs(w)
        /\ Theirs(w) \in DOMAIN objs /\ head \in DOMAIN objs
        /\ job[w].tree \in SUBSET (DOMAIN objs \cup {c})
    BY <1>1, <1>2, Zenon DEF TypeOK, JobOver, Parents, Theirs
  <2> HIDE DEF b
  <2>2. Write(c, job[w].tree, head, b)
    BY <1>4, <2>1 DEF b
  <2>3. Grows /\ StoreInv'
    BY <1>4, <2>1, <2>2, Closed DEF MergeInv
  <2>4. Tree(c)' = job[w].tree /\ Anc(c)' = {c} \cup Anc(head) \cup Anc(b) /\ c # None
    BY <1>4, <2>2 DEF Write, Fresh, None, Tree, Anc
  <2> DEFINE j == [job[w] EXCEPT !.pc = "updateRef", !.tip = c, !.tree = {}]
  <2>5. job' = [job EXCEPT ![w] = j] /\ job'[w] = j
    BY <1>4, Zenon DEF TypeOK
  <2>6. j.pc = "updateRef" /\ j.tip = c /\ j.pr = job[w].pr /\ j.method = job[w].method
    BY <1>1 DEF JobOver
  <2> HIDE DEF j
  <2>7. Tip(w)' = c /\ Theirs(w)' = Theirs(w)
    BY <1>1, <2>4, <2>5, <2>6 DEF Tip, Theirs
  <2>8. Anc(head)' = Anc(head) /\ MergeTree(head, Theirs(w))' = MergeTree(head, Theirs(w))
    BY <1>1, <2>1, <2>3, <2>7, Immutable
  <2>9. KeepsReceiverIn(w)'
    BY <2>4, <2>7, <2>8 DEF KeepsReceiverIn
  <2>10. DeliversProviderIn(w)'
    <3>1. job[w].method = "merge" => Theirs(w) \in Anc(c)'
      BY <1>2, <2>1, <2>4 DEF MergeInv, StoreInv, Anc
    <3>2. moved[w] = {} => Tree(Tip(w))' = MergeTree(head, Theirs(w))'
      BY <1>2, <2>4, <2>7, <2>8
    <3>3. moved'[w] = {} => /\ Tree(Tip(w))' = MergeTree(head, Theirs(w))'
                            /\ job'[w].method # "rebase"
                            /\ job'[w].method = "merge" => Theirs(w)' \in Anc(Tip(w))'
      BY <1>2, <1>4, <2>5, <2>6, <2>7, <3>1, <3>2
    <3> QED
      BY <3>3 DEF DeliversProviderIn, Theirs
  <2>11. JobInv(w)'
    BY <1>2, <2>5, <2>6, <2>7, Zenon DEF JobInv, Rebasing
  <2>12. \A v \in Workers \ {w} : job'[v] = job[v] /\ moved'[v] = moved[v]
    BY <1>4, <2>5 DEF TypeOK
  <2> QED
    BY <1>1, <2>3, <2>9, <2>10, <2>11, <2>12, OneWorker DEF WorkerInv
<1> QED
  BY <1>3, <1>4, Zenon DEF CommitTree

----
(* The others *)

LEMMA EnvironmentKeeps ==
  ASSUME TypeOK, TypeOK', MergeInv, Environment
  PROVE  MergeInv'
<1>1. ASSUME NEW p \in PullRequests, Refresh(p) PROVE MergeInv'
  <2>1. UNCHANGED <<objs, head, job>> /\ FetchBranch(p) /\ moved' = TrackingMoved(p)
    BY <1>1 DEF Refresh
  <2>2. StoreInv'
    BY <2>1 DEF MergeInv, StoreInv
  <2> QED
    BY <2>1, <2>2, FetchOthers DEF MergeInv
<1>2. ASSUME UNCHANGED tracking, UNCHANGED job, moved' = HeadMoved, Grows, StoreInv' PROVE MergeInv'
  BY <1>2, HeadOthers DEF MergeInv
<1>3. ASSUME UNCHANGED head, UNCHANGED moved PROVE moved' = HeadMoved
  BY <1>3 DEF HeadMoved, TypeOK
<1>4. ASSUME NEW p \in PullRequests, PushProvider(p) PROVE MergeInv'
  <2>1. PICK c, b : /\ b \in Anc(provider[p]) /\ Fresh(c)
                    /\ Write(c, Tree(b) \cup {c}, b, None)
    BY <1>4, Zenon DEF PushProvider
  <2>2. b \in DOMAIN objs
    BY <2>1, Stored DEF TypeOK
  <2>3. Tree(b) \subseteq DOMAIN objs
    BY <2>2, Stored
  <2>4. Grows /\ StoreInv'
    BY <2>1, <2>2, <2>3, Closed DEF MergeInv
  <2> QED
    BY <1>2, <1>3, <1>4, <2>4 DEF PushProvider
<1>5. ASSUME NEW p \in PullRequests, SyncFork(p) PROVE MergeInv'
  <2>1. PICK c : Fresh(c) /\ Write(c, MergeTree(provider[p], head), provider[p], head)
    BY <1>5 DEF SyncFork
  <2>2. provider[p] \in DOMAIN objs /\ head \in DOMAIN objs
    BY DEF TypeOK
  <2>3. MergeTree(provider[p], head) \subseteq DOMAIN objs
    BY <2>2, Stored
  <2>4. Grows /\ StoreInv'
    BY <2>1, <2>2, <2>3, Closed DEF MergeInv
  <2> QED
    BY <1>2, <1>3, <1>5, <2>4 DEF SyncFork
<1>6. ASSUME PushReceiver PROVE MergeInv'
  <2>1. PICK c : Fresh(c) /\ Write(c, Tree(head) \cup {c}, head, None)
    BY <1>6 DEF PushReceiver
  <2>2. head \in DOMAIN objs
    BY DEF TypeOK
  <2>3. Tree(head) \subseteq DOMAIN objs
    BY <2>2, Stored
  <2>4. Grows /\ StoreInv'
    BY <2>1, <2>2, <2>3, Closed DEF MergeInv
  <2> QED
    BY <1>2, <1>6, <2>4 DEF PushReceiver
<1> QED
  BY <1>1, <1>4, <1>5, <1>6 DEF Environment

(* The strengthened invariant of Merge: in every state of the repository,
   whoever pushes, fetches, merges or crashes meanwhile, each call in progress
   knows what its finished commands established, or that a ref was moved. *)
THEOREM MergeCorrect == Spec => []MergeInv
<1>1. Init => MergeInv
  <2> SUFFICES ASSUME Init PROVE MergeInv
    OBVIOUS
  <2>1. StoreInv
    BY DEF Init, StoreInv
  <2>2. \A w \in Workers : job[w].pc = "idle"
    BY DEF Init, Idle
  <2>3. \A w \in Workers : WorkerInv(w)
    BY <2>2 DEF WorkerInv, JobInv, KeepsReceiverIn, DeliversProviderIn, Reading, Rebasing
  <2> QED
    BY <2>1, <2>3 DEF MergeInv
<1>2. ASSUME TypeOK, TypeOK', MergeInv, [Next]_gitvars PROVE MergeInv'
  <2>1. ASSUME NEW w \in Workers, NEW p \in PullRequests, NEW m \in MergeMethods, Call(w, p, m)
        PROVE  MergeInv'
    <3> DEFINE j == [Idle EXCEPT !.pc = "fetch", !.pr = p, !.method = m]
    <3>1. job' = [job EXCEPT ![w] = j] /\ UNCHANGED <<objs, head, tracking, moved>>
      BY <2>1 DEF Call
    <3>2. job'[w].pc = "fetch" /\ job'[w].tip = None
      BY <1>2, <3>1 DEF TypeOK, Idle
    <3>3. WorkerInv(w)'
      BY <3>2, Outside
    <3> QED
      BY <1>2, <3>1, <3>3, QuietStep, Zenon
  <2>2. ASSUME NEW w \in Workers, MergeStep(w)
        PROVE  MergeInv'
    BY <1>2, <2>2, FetchKeeps, WriteTreeKeeps, CommitTreeKeeps, IsAncestorKeeps, RevParseKeeps,
       RevListKeeps, ReadTipKeeps, PickKeeps, ReplayKeeps, UpdateRefKeeps DEF MergeStep
  <2>3. ASSUME NEW w \in Workers, Return(w) \/ Crash(w)
        PROVE  MergeInv'
    BY <1>2, <2>3, LeaveKeeps DEF Return, Crash
  <2>4. CASE Environment
    BY <1>2, <2>4, EnvironmentKeeps
  <2>5. CASE UNCHANGED gitvars
    <3>1. Grows /\ StoreInv' /\ UNCHANGED <<head, tracking, job, moved>>
      BY <1>2, <2>5 DEF gitvars, Grows, MergeInv, StoreInv
    <3>2. moved' = HeadMoved
      BY <1>2, <3>1 DEF HeadMoved, TypeOK
    <3> QED
      BY <1>2, <3>1, <3>2, HeadOthers DEF MergeInv
  <2> QED
    BY <1>2, <2>1, <2>2, <2>3, <2>4, <2>5 DEF Next
<1>3. Spec => []TypeOK
  BY TypeCorrect
<1> QED
  BY <1>1, <1>2, <1>3, PTL DEF Spec

(* For any number of pull requests, requests served at once and commits: Merge
   moves the receiver branch to a commit that descends from it, unless one of
   its refs was moved by somebody else after the fetch. *)
THEOREM ReceiverKept == Spec => []KeepsReceiver
<1>1. MergeInv => KeepsReceiver
  BY DEF MergeInv, WorkerInv, KeepsReceiver
<1> QED
  BY <1>1, MergeCorrect, PTL

(* ... and what it moves the branch to has all that the pull request brings. *)
THEOREM ProviderDelivered == Spec => []DeliversProvider
<1>1. MergeInv => DeliversProvider
  BY DEF MergeInv, WorkerInv, DeliversProvider
<1> QED
  BY <1>1, MergeCorrect, PTL

(* No step but the update-ref of a merge that was overtaken takes a commit off
   the receiver branch. *)
THEOREM LossNeedsRace == Spec => LosesOnlyInRace
<1>1. ASSUME TypeOK, MergeInv, [Next]_gitvars PROVE LossOnlyInRace
  <2>1. ASSUME UNCHANGED <<objs, head>> PROVE LossOnlyInRace
    BY <2>1 DEF Anc, LossOnlyInRace
  <2>2. ASSUME UNCHANGED head, NEW c, NEW t, NEW a, NEW b, Fresh(c), Write(c, t, a, b)
        PROVE  LossOnlyInRace
    BY <1>1, <2>2 DEF Anc, LossOnlyInRace, Write, Fresh, TypeOK
  <2>3. CASE PushReceiver
    <3>1. PICK c : Fresh(c) /\ Write(c, Tree(head) \cup {c}, head, None) /\ head' = c
      BY <2>3 DEF PushReceiver
    <3> QED
      BY <1>1, <3>1 DEF Anc, LossOnlyInRace, Write, Fresh, None
  <2>4. ASSUME NEW w \in Workers, UpdateRef(w) PROVE LossOnlyInRace
    <3>1. job[w].pc = "updateRef" /\ job'[w].pc = "merged" /\ head' = Tip(w) /\ UNCHANGED objs
      BY <1>1, <2>4 DEF UpdateRef, Goto, TypeOK, JobOver
    <3>2. CASE moved[w] # {}
      BY <3>1, <3>2 DEF LossOnlyInRace
    <3>3. CASE moved[w] = {}
      <4>1. Anc(head) \subseteq Anc(Tip(w))
        BY <1>1, <3>1, <3>3 DEF MergeInv, WorkerInv, KeepsReceiverIn
      <4> QED
        BY <3>1, <4>1 DEF LossOnlyInRace, Anc
    <3> QED
      BY <3>2, <3>3
  <2>5. ASSUME NEW w \in Workers, CommitTree(w) \/ Replay(w) PROVE LossOnlyInRace
    BY <2>1, <2>2, <2>5, Zenon DEF CommitTree, Replay
  <2>6. ASSUME NEW w \in Workers, MergeStep(w) \/ Return(w) \/ Crash(w) PROVE LossOnlyInRace
    <3>1. ASSUME Fetch(w) \/ WriteTree(w) \/ IsAncestor(w) \/ RevParse(w) \/ RevList(w)
                 \/ ReadTip(w) \/ Pick(w) \/ Return(w) \/ Crash(w)
          PROVE  UNCHANGED <<objs, head>>
      BY <3>1, Zenon DEF Fetch, WriteTree, IsAncestor, RevParse, RevList, ReadTip, Pick, Return, Crash
    <3> QED
      BY <2>1, <2>4, <2>5, <2>6, <3>1 DEF MergeStep
  <2>7. ASSUME NEW p \in PullRequests, PushProvider(p) \/ SyncFork(p) \/ Refresh(p)
        PROVE  LossOnlyInRace
    BY <2>1, <2>2, <2>7, Zenon DEF PushProvider, SyncFork, Refresh
  <2>8. ASSUME NEW w \in Workers, NEW p \in PullRequests, NEW m \in MergeMethods, Call(w, p, m)
        PROVE  LossOnlyInRace
    BY <2>1, <2>8 DEF Call
  <2>9. CASE UNCHANGED gitvars
    BY <2>1, <2>9 DEF gitvars
  <2> QED
    BY <1>1, <2>3, <2>6, <2>7, <2>8, <2>9 DEF Next, Environment
<1> QED
  BY <1>1, TypeCorrect, MergeCorrect, PTL DEF Spec, LosesOnlyInRace
====
