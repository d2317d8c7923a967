---- MODULE LastCommitProofs ----
(***************************************************************************)
(* Proofs about two things that are written aside and renamed into place.  *)
(* The last-commit listings are right, shared and never half written, for  *)
(* any goroutines, keys, file names and capacities.  The managed hooks are *)
(* never half written either, and installed everywhere, for any processes, *)
(* repositories and page sizes.                                            *)
(***************************************************************************)
EXTENDS LastCommit, Integers, FiniteSetTheorems, FunctionTheorems, TLAPS

Labels == {"idle", "wait", "load", "walk", "save", "rename", "prune", "finish"}

\* The calls in flight and the goroutines that compute are one to one, and
\* whoever waits does so for a call in flight.
FlightInv ==
    /\ pc \in [Procs -> Labels] /\ key \in [Procs -> Keys]
    /\ \A k \in DOMAIN inflight : inflight[k] \in Procs /\ Computing(inflight[k]) /\ key[inflight[k]] = k
    /\ \A p \in Procs : Computing(p) => key[p] \in DOMAIN inflight /\ inflight[key[p]] = p
    /\ \A p \in Procs : pc[p] = "wait" => key[p] \in DOMAIN inflight

\* A file holds the listing of the key it names, and only temporary ones are
\* not whole.
DiskInv ==
    \A n \in DOMAIN disk :
        /\ disk[n].v = Listing(disk[n].key)
        /\ n \in Temps \/ disk[n].whole

\* Every listing in memory, in a goroutine's hands or on disk is that of its key.
ValueInv ==
    /\ hist = 0
    /\ DOMAIN res = Procs /\ DOMAIN ans = Procs
    /\ \A k \in DOMAIN entries : entries[k] = Listing(k)
    /\ \A p \in Procs : pc[p] \in {"save", "rename", "prune"} => res[p] = Listing(key[p])
    /\ \A p \in Procs : pc[p] = "finish" => res[p] \in {Failed, Listing(key[p])}
    /\ DiskInv

IInv == FlightInv /\ ValueInv

LEMMA InitIInv == Init => IInv
<1> SUFFICES ASSUME Init PROVE IInv
  OBVIOUS
<1>1. ASSUME NEW k \in Keys PROVE (CHOOSE x \in Keys : TRUE) \in Keys
  OBVIOUS
<1>2. ASSUME NEW p \in Procs PROVE key[p] \in Keys
  BY <1>1, KeysAssumption DEF Init
<1>3. FlightInv
  BY <1>1, KeysAssumption DEF Init, FlightInv, Labels, Computing
<1>4. ValueInv
  BY DEF Init, ValueInv, DiskInv
<1> QED
  BY <1>3, <1>4 DEF IInv

LEMMA CallFlight == ASSUME IInv, NEW p \in Procs, NEW k \in Keys, Call(p, k) PROVE FlightInv'
<1> USE DEF IInv, FlightInv, Computing, Labels
<1>1. CASE k \in DOMAIN entries /\ UNCHANGED <<inflight, pc>>
  BY <1>1 DEF Call
<1>2. CASE k \notin DOMAIN entries /\ k \in DOMAIN inflight /\ Goto(p, "wait") /\ UNCHANGED <<lru, inflight>>
  BY <1>2 DEF Call, Goto
<1>3. CASE /\ Cold(k) /\ Goto(p, "load")
           /\ inflight' = [x \in DOMAIN inflight \cup {k} |-> IF x = k THEN p ELSE inflight[x]]
  <2>1. pc' = [pc EXCEPT ![p] = "load"] /\ key' = [key EXCEPT ![p] = k] /\ pc[p] = "idle"
    BY <1>3 DEF Call, Goto
  <2>2. \A x \in DOMAIN inflight : inflight[x] # p
    BY <2>1
  <2> QED
    BY <1>3, <2>1, <2>2 DEF Cold
<1> QED
  BY <1>1, <1>2, <1>3 DEF Call

LEMMA CallValue == ASSUME IInv, NEW p \in Procs, NEW k \in Keys, Call(p, k) PROVE ValueInv'
BY DEF IInv, FlightInv, ValueInv, DiskInv, Call, Goto, Listing, Labels, store

\* The goroutine moves on but keeps computing: nobody else is affected.
LEMMA KeepsComputing ==
    ASSUME IInv, NEW p \in Procs, Computing(p), NEW l \in Labels \ {"idle", "wait"},
           Goto(p, l), UNCHANGED <<inflight, key>>
    PROVE  FlightInv'
BY DEF IInv, FlightInv, Computing, Goto, Labels

LEMMA LoadInv == ASSUME IInv, NEW p \in Procs, Load(p) PROVE IInv'
<1>1. FlightInv'
  <2>1. Computing(p) /\ UNCHANGED <<inflight, key>>
    BY DEF Load, Computing, mem
  <2>2. PICK l \in {"finish", "walk"} : Goto(p, l)
    BY DEF Load
  <2> QED
    BY <2>1, <2>2, KeepsComputing DEF Labels
<1>2. CASE Usable(FileOf[key[p]], key[p]) /\ Goto(p, "finish")
           /\ res' = [res EXCEPT ![p] = disk[FileOf[key[p]]].v]
  <2>1. disk[FileOf[key[p]]].v = Listing(key[p])
    BY <1>2 DEF IInv, ValueInv, DiskInv, Usable
  <2> QED
    BY <1>1, <1>2, <2>1 DEF IInv, ValueInv, DiskInv, FlightInv, Load, Goto, Listing, mem, store
<1>3. CASE ~Usable(FileOf[key[p]], key[p]) /\ Goto(p, "walk") /\ UNCHANGED res
  BY <1>1, <1>3 DEF IInv, ValueInv, DiskInv, FlightInv, Load, Goto, Listing, mem, store
<1> QED
  BY <1>2, <1>3 DEF Load

LEMMA WalkInv == ASSUME IInv, NEW p \in Procs, Walk(p) PROVE IInv'
<1>1. FlightInv'
  <2>1. Computing(p) /\ UNCHANGED <<inflight, key>>
    BY DEF Walk, Computing, mem
  <2>2. PICK l \in {"finish", "save"} : Goto(p, l)
    BY DEF Walk
  <2> QED
    BY <2>1, <2>2, KeepsComputing DEF Labels
<1> QED
  BY <1>1 DEF IInv, ValueInv, DiskInv, FlightInv, Walk, Goto, Listing, mem, store

LEMMA CreateTempInv == ASSUME IInv, NEW p \in Procs, CreateTemp(p) PROVE IInv'
<1>1. FlightInv'
  <2>1. Computing(p) /\ UNCHANGED <<inflight, key>>
    BY DEF CreateTemp, Computing, mem
  <2>2. PICK l \in {"finish", "rename"} : Goto(p, l)
    BY Zenon DEF CreateTemp
  <2> QED
    BY <2>1, <2>2, KeepsComputing DEF Labels
<1>2. res[p] = Listing(key[p]) /\ pc[p] = "save"
  BY DEF CreateTemp, IInv, ValueInv, DiskInv
<1>3. DiskInv'
  <2>1. CASE \E t \in TempName(p) : disk' = [n \in DOMAIN disk \cup {t} |->
            IF n = t THEN [key |-> key[p], v |-> res[p], whole |-> FALSE, by |-> p] ELSE disk[n]]
    BY <1>2, <2>1 DEF IInv, ValueInv, DiskInv, TempName, CreateTemp, Listing
  <2>2. CASE UNCHANGED disk
    BY <2>2 DEF IInv, ValueInv, DiskInv, CreateTemp, Listing
  <2> QED
    BY <2>1, <2>2, Zenon DEF CreateTemp
<1>4. UNCHANGED <<entries, key, res, ans, hist>>
  BY DEF CreateTemp, mem
<1>5. PICK l \in {"finish", "rename"} : pc' = [pc EXCEPT ![p] = l]
  BY Zenon DEF CreateTemp, Goto
<1> QED
  BY <1>1, <1>2, <1>3, <1>4, <1>5 DEF IInv, ValueInv, FlightInv, Listing

LEMMA RenameInv == ASSUME IInv, NEW p \in Procs, Rename(p) PROVE IInv'
<1>1. FlightInv'
  <2>1. Computing(p) /\ UNCHANGED <<inflight, key>>
    BY DEF Rename, Computing, mem
  <2>2. PICK l \in {"finish", "prune"} : Goto(p, l)
    BY Zenon DEF Rename
  <2> QED
    BY <2>1, <2>2, KeepsComputing DEF Labels
<1>2. pc[p] = "rename" /\ res[p] = Listing(key[p])
  BY DEF Rename, IInv, ValueInv, DiskInv
<1>3. DiskInv'
  <2> DEFINE n == FileOf[key[p]]
             mine == {t \in Temps \cap DOMAIN disk : disk[t].by = p}
  <2>1. ASSUME NEW t \in mine,
               disk' = [m \in (DOMAIN disk \ {t}) \cup {n} |->
                           IF m = n THEN [key |-> disk[t].key, v |-> disk[t].v, whole |-> TRUE, by |-> "none"] ELSE disk[m]]
        PROVE  DiskInv'
    <3>1. disk[t].v = Listing(disk[t].key)
      BY DEF IInv, ValueInv, DiskInv
    <3>2. disk'[n] = [key |-> disk[t].key, v |-> Listing(disk[t].key), whole |-> TRUE, by |-> "none"]
      BY <2>1, <3>1
    <3>3. \A m \in DOMAIN disk' : m # n => m \in DOMAIN disk /\ disk'[m] = disk[m]
      BY <2>1
    <3>4. UNCHANGED hist
      BY DEF Rename
    <3> QED
      BY <3>2, <3>3, <3>4 DEF IInv, ValueInv, DiskInv, Listing
  <2>2. CASE disk' = [m \in DOMAIN disk \ mine |-> disk[m]]
    BY <2>2 DEF IInv, ValueInv, DiskInv, Rename, Listing
  <2> QED
    BY <2>1, <2>2, Zenon DEF Rename
<1>4. UNCHANGED <<entries, key, res, ans, hist>>
  BY DEF Rename, mem
<1>5. PICK l \in {"finish", "prune"} : pc' = [pc EXCEPT ![p] = l]
  BY Zenon DEF Rename, Goto
<1> QED
  BY <1>1, <1>2, <1>3, <1>4, <1>5 DEF IInv, ValueInv, FlightInv, Listing

LEMMA PruneInv == ASSUME IInv, NEW p \in Procs, Prune(p) PROVE IInv'
<1>1. FlightInv'
  <2>1. Computing(p) /\ UNCHANGED <<inflight, key>> /\ Goto(p, "finish")
    BY DEF Prune, Computing, mem
  <2> QED
    BY <2>1, KeepsComputing DEF Labels
<1> QED
  BY <1>1 DEF IInv, ValueInv, DiskInv, FlightInv, Prune, Goto, Listing, mem

LEMMA FinishInv == ASSUME IInv, NEW p \in Procs, Finish(p) PROVE IInv'
<1>1. Computing(p) /\ pc[p] = "finish"
  BY DEF Finish, Computing
<1>2. FlightInv'
  <2>1. \A q \in Procs : Computing(q) /\ q # p => key[q] # key[p]
    BY <1>1 DEF IInv, FlightInv
  <2> QED
    BY <1>1, <2>1 DEF IInv, FlightInv, Finish, Landed, Waiters, Computing, Labels
<1>3. \A k \in DOMAIN entries' : entries'[k] = Listing(k)
  BY <1>1 DEF IInv, ValueInv, DiskInv, Finish, lastCommitCachePutLocked
<1> QED
  BY <1>2, <1>3 DEF IInv, ValueInv, DiskInv, FlightInv, Finish, Listing, store

LEMMA OthersInv == ASSUME IInv, ClearLastCommitCache \/ RemoveStore \/ Restart PROVE IInv'
<1>1. CASE ClearLastCommitCache
  BY <1>1 DEF IInv, ValueInv, DiskInv, FlightInv, ClearLastCommitCache, Computing, Listing, store
<1>2. CASE RemoveStore
  BY <1>2 DEF IInv, ValueInv, DiskInv, FlightInv, RemoveStore, Computing, Listing, mem
<1>3. CASE Restart
  BY <1>3 DEF IInv, ValueInv, DiskInv, FlightInv, Restart, Computing, Listing, Labels
<1> QED
  BY <1>1, <1>2, <1>3

LEMMA NextIInv == IInv /\ [Next]_vars => IInv'
<1> SUFFICES ASSUME IInv, [Next]_vars PROVE IInv'
  OBVIOUS
<1>1. CASE UNCHANGED vars
  BY <1>1 DEF IInv, ValueInv, DiskInv, FlightInv, Computing, Listing, vars
<1>2. ASSUME NEW p \in Procs, NEW k \in Keys, Call(p, k) PROVE IInv'
  BY <1>2, CallFlight, CallValue DEF IInv
<1>3. ASSUME NEW p \in Procs, Step(p) PROVE IInv'
  BY <1>3, LoadInv, WalkInv, CreateTempInv, RenameInv, PruneInv, FinishInv DEF Step
<1> QED
  BY <1>1, <1>2, <1>3, OthersInv DEF Next

\* IInv holds in every reachable state of the cache and its store
\* (ResolveLastCommitAtDir, saveLastCommitToDisk).
THEOREM Inductive == Spec => []IInv
BY InitIInv, NextIInv, PTL DEF Spec

\* No two goroutines of ResolveLastCommitAtDir compute one listing.
THEOREM SharedComputation == Spec => []OneComputation
<1>1. IInv => OneComputation
  BY DEF IInv, FlightInv, OneComputation
<1> QED
  BY <1>1, Inductive, PTL

\* A goroutine waits on call.done only while the call is being computed.
THEOREM NobodyWaitsInVain == Spec => []WaitersAreServed
<1>1. IInv => WaitersAreServed
  BY DEF IInv, FlightInv, WaitersAreServed
<1> QED
  BY <1>1, Inductive, PTL

\* Only whole files have a name loadLastCommitFromDisk opens.
THEOREM FilesAreWhole == Spec => []NoHalfFile
<1>1. IInv => NoHalfFile
  BY DEF IInv, ValueInv, DiskInv, NoHalfFile
<1> QED
  BY <1>1, Inductive, PTL

AnswerStep == \A p \in Procs : ans'[p] # ans[p] => ans'[p] \in {Failed, Listing(key'[p])}

\* ResolveLastCommitAtDir returns the listing of the commit and the directory
\* it was asked for, or an error.
THEOREM AnswersAreRight == Spec => AnswerIsForCall
<1>1. IInv /\ [Next]_vars => [AnswerStep]_vars
  <2> SUFFICES ASSUME IInv, Next PROVE AnswerStep
    OBVIOUS
  <2>1. ASSUME NEW p \in Procs, NEW k \in Keys, Call(p, k) PROVE AnswerStep
    <3>1. key' = [key EXCEPT ![p] = k]
      BY <2>1 DEF Call
    <3>2. \E v \in {Failed, Listing(k)} : ans' = [ans EXCEPT ![p] = v]
      BY <2>1 DEF Call, IInv, ValueInv, DiskInv
    <3> QED
      BY <3>1, <3>2 DEF AnswerStep, IInv, FlightInv, ValueInv, DiskInv
  <2>2. ASSUME NEW p \in Procs, Finish(p) PROVE AnswerStep
    BY <2>2 DEF AnswerStep, Finish, Waiters, IInv, ValueInv, DiskInv
  <2>3. CASE UNCHANGED ans
    BY <2>3 DEF AnswerStep
  <2> QED
    BY <2>1, <2>2, <2>3, Zenon DEF Next, Step, Load, Walk, CreateTemp, Rename, Prune, ClearLastCommitCache, RemoveStore, Restart
<1> QED
  BY <1>1, Inductive, PTL DEF Spec, AnswerIsForCall, AnswerStep

-----------------------------------------------------------------------------

Injective(l) == \A i, j \in DOMAIN l : l[i] = l[j] => i = j

\* The list holds the keys of the map, each once, and no more than the capacity.
LruInv ==
    /\ lru \in Seq(Keys) /\ Injective(lru)
    /\ DOMAIN entries = Elems(lru) /\ Len(lru) <= Capacity

\* list.MoveToFront permutes the list.
LEMMA MovesToFront ==
    ASSUME NEW l \in Seq(Keys), Injective(l), NEW k \in Elems(l)
    PROVE  /\ MoveToFront(l, k) \in Seq(Keys) /\ Injective(MoveToFront(l, k))
           /\ Elems(MoveToFront(l, k)) = Elems(l) /\ Len(MoveToFront(l, k)) = Len(l)
<1> DEFINE i == CHOOSE i \in DOMAIN l : l[i] = k
           m == MoveToFront(l, k)
<1>1. i \in DOMAIN l /\ l[i] = k
  BY DEF Elems
<1> HIDE DEF i
<1>2. m = [j \in DOMAIN l |-> IF j = 1 THEN k ELSE IF j <= i THEN l[j - 1] ELSE l[j]]
  BY DEF MoveToFront, i
<1>3. DOMAIN l = 1..Len(l) /\ Len(l) \in Nat /\ \A j \in DOMAIN l : l[j] \in Keys
  OBVIOUS
<1> HIDE DEF m
<1>4. \A j \in DOMAIN l : m[j] \in Keys
  BY <1>1, <1>2, <1>3
<1>5. m \in Seq(Keys) /\ Len(m) = Len(l) /\ DOMAIN m = DOMAIN l
  BY <1>2, <1>3, <1>4
<1>6. Injective(m)
  BY <1>1, <1>2, <1>3 DEF Injective
<1>7. Elems(m) = Elems(l)
  <2>1. \A j \in DOMAIN m : m[j] \in Elems(l)
    BY <1>1, <1>2, <1>3 DEF Elems
  <2>2. ASSUME NEW j \in DOMAIN l PROVE l[j] \in Elems(m)
    <3>1. CASE j = i
      BY <1>1, <1>2, <1>3, <3>1 DEF Elems
    <3>2. CASE j < i
      <4>1. j + 1 \in DOMAIN m /\ m[j + 1] = l[j]
        BY <1>1, <1>2, <1>3, <3>2
      <4> QED
        BY <4>1 DEF Elems
    <3>3. CASE j > i
      <4>1. j \in DOMAIN m /\ m[j] = l[j]
        BY <1>1, <1>2, <1>3, <3>3
      <4> QED
        BY <4>1 DEF Elems
    <3> QED
      BY <1>1, <1>3, <3>1, <3>2, <3>3
  <2> QED
    BY <2>1, <2>2 DEF Elems
<1> QED
  BY <1>5, <1>6, <1>7 DEF m

\* PushFront of a new key, and the loop that evicts from the back.
LEMMA PushesAndEvicts ==
    ASSUME NEW l \in Seq(Keys), Injective(l), NEW k \in Keys \ Elems(l)
    PROVE  LET e == Evict(<<k>> \o l)
           IN /\ e \in Seq(Keys) /\ Injective(e) /\ Len(e) <= Capacity
              /\ Elems(e) \subseteq Elems(l) \cup {k}
<1> DEFINE f == <<k>> \o l
           n == IF Len(f) > Capacity THEN Capacity ELSE Len(f)
           e == Evict(f)
<1>1. f \in Seq(Keys) /\ Len(f) = Len(l) + 1 /\ Len(l) \in Nat
  OBVIOUS
<1>2. f[1] = k /\ \A j \in 2..Len(f) : f[j] = l[j - 1] /\ j - 1 \in DOMAIN l
  BY <1>1
<1> HIDE DEF f
<1>3. n \in Nat /\ n <= Len(f) /\ n <= Capacity
  BY <1>1, CapacityAssumption
<1>4. e = SubSeq(f, 1, n)
  BY DEF Evict
<1> HIDE DEF n, e
<1>5. e \in Seq(Keys) /\ Len(e) = n /\ DOMAIN e = 1..n /\ \A j \in 1..n : e[j] = f[j]
  BY <1>1, <1>3, <1>4
<1>6. \A j \in 1..n : IF j = 1 THEN e[j] = k ELSE j - 1 \in DOMAIN l /\ e[j] = l[j - 1]
  BY <1>1, <1>2, <1>3, <1>5
<1>7. \A j \in DOMAIN l : l[j] # k
  BY DEF Elems
<1>8. Injective(e)
  BY <1>1, <1>3, <1>5, <1>6, <1>7 DEF Injective
<1>9. Elems(e) \subseteq Elems(l) \cup {k}
  BY <1>5, <1>6 DEF Elems
<1> QED
  BY <1>3, <1>5, <1>8, <1>9 DEF e, f

LEMMA LruFinish == ASSUME IInv, LruInv, NEW p \in Procs, Finish(p) PROVE LruInv'
<1> DEFINE k == key[p]
<1>1. k \in Keys
  BY DEF IInv, FlightInv
<1> HIDE DEF k
<1>2. CASE UNCHANGED <<entries, lru>>
  BY <1>2 DEF LruInv, Elems
<1>3. CASE lastCommitCachePutLocked(k, res[p])
  <2>1. DOMAIN entries' = (DOMAIN entries \cup {k}) \cap Elems(lru')
    BY <1>3 DEF lastCommitCachePutLocked
  <2>2. CASE k \in DOMAIN entries
    <3>1. lru' = MoveToFront(lru, k) /\ k \in Elems(lru)
      BY <1>3, <2>2 DEF lastCommitCachePutLocked, LruInv
    <3> QED
      BY <1>1, <2>1, <2>2, <3>1, MovesToFront DEF LruInv
  <2>3. CASE k \notin DOMAIN entries
    <3>1. lru' = Evict(<<k>> \o lru) /\ k \in Keys \ Elems(lru)
      BY <1>1, <1>3, <2>3 DEF lastCommitCachePutLocked, LruInv
    <3> QED
      BY <1>1, <2>1, <3>1, PushesAndEvicts DEF LruInv
  <2> QED
    BY <2>2, <2>3
<1> QED
  BY <1>2, <1>3 DEF Finish, k

LEMMA LruNext == ASSUME IInv, LruInv, [Next]_vars PROVE LruInv'
<1>1. CASE UNCHANGED <<entries, lru>>
  BY <1>1 DEF LruInv, Elems
<1>2. ASSUME NEW p \in Procs, NEW k \in Keys, Call(p, k) PROVE LruInv'
  <2>1. CASE k \in DOMAIN entries /\ lru' = MoveToFront(lru, k) /\ UNCHANGED entries
    BY <2>1, MovesToFront DEF LruInv
  <2> QED
    BY <1>1, <1>2, <2>1 DEF Call
<1>3. CASE ClearLastCommitCache \/ Restart
  <2>1. lru' = <<>> /\ DOMAIN entries' = {}
    BY <1>3 DEF ClearLastCommitCache, Restart
  <2> QED
    BY <2>1, CapacityAssumption DEF LruInv, Injective, Elems
<1>4. ASSUME NEW p \in Procs, Step(p) PROVE LruInv'
  BY <1>1, <1>4, LruFinish DEF Step, Load, Walk, CreateTemp, Rename, Prune, mem
<1>5. RemoveStore \/ UNCHANGED vars => UNCHANGED <<entries, lru>>
  BY DEF RemoveStore, vars, mem
<1> QED
  BY <1>1, <1>2, <1>3, <1>4, <1>5 DEF Next

\* The list and the map of lastCommitCache hold the same keys, each once, and no
\* more than lastCommitCacheCapacity, whatever calls, clearings and restarts meet.
THEOREM LruHolds == Spec => []LruMatches
<1>1. Init => LruInv
  BY CapacityAssumption DEF Init, LruInv, Injective, Elems
<1>2. LruInv => LruMatches
  <2> SUFFICES ASSUME LruInv PROVE Len(lru) = Cardinality(Elems(lru))
    BY DEF LruInv, LruMatches
  <2>1. lru \in [1..Len(lru) -> Elems(lru)] /\ Len(lru) \in Nat
    BY DEF LruInv, Elems
  <2>2. lru \in Bijection(1..Len(lru), Elems(lru))
    <3>1. \A a, b \in 1..Len(lru) : lru[a] = lru[b] => a = b
      BY <2>1 DEF LruInv, Injective
    <3>2. \A e \in Elems(lru) : \E i \in 1..Len(lru) : lru[i] = e
      BY <2>1 DEF Elems
    <3> QED
      BY <2>1, <3>1, <3>2, Fun_IsBij
  <2>3. IsFiniteSet(1..Len(lru)) /\ Cardinality(1..Len(lru)) = Len(lru)
    <3>1. \A n \in Nat : n \in Int /\ 1 \in Int /\ (IF 1 > n THEN 0 ELSE n - 1 + 1) = n
      OBVIOUS
    <3>2. \A n \in Nat : IsFiniteSet(1..n) /\ Cardinality(1..n) = n
      BY <3>1, FS_Interval, Zenon
    <3> QED
      BY <2>1, <3>2, Zenon
  <2> QED
    BY <2>2, <2>3, FS_Bijection DEF ExistsBijection
<1>3. IInv /\ LruInv /\ [Next]_vars => LruInv'
  BY LruNext
<1> QED
  BY <1>1, <1>2, <1>3, Inductive, PTL DEF Spec

-----------------------------------------------------------------------------
(* The managed hooks. *)

CONSTANTS Start, New, pageSize, Deletions

VARIABLES list, hooks, pr

Manage == INSTANCE Hooks

HookNames == {"pre-receive", "update"}
Whole == {"none", "old", "current", "foreign"}

\* What was there at the beginning is whole.
HooksAssumption ==
    /\ Len(Start) \in Nat /\ DOMAIN Start = 1..Len(Start) /\ pageSize \in Nat
    /\ \A i \in DOMAIN Start : Start[i].hooks \in [HookNames -> Whole]

Walker == [at : {"next", "check", "install", "aside", "done"}, todo : Seq(Manage!Repos), i : {1, 2}, page : Nat, count : Nat,
           seen : SUBSET Manage!Repos, failures : BOOLEAN]
HookSpace == [Manage!Repos -> [HookNames -> Whole]]

\* Whoever is about to write a hook has found no foreign one, and nobody puts one
\* there.
Looked(q) ==
    q.at \in {"check", "install", "aside"} =>
        /\ q.todo # <<>>
        /\ q.at = "check" /\ q.i = 2 => hooks[Head(q.todo)]["pre-receive"] # "foreign"
        /\ q.at # "check" => \A h \in HookNames : hooks[Head(q.todo)][h] # "foreign"

Untouched == \A r \in Manage!Repos : (\E h \in HookNames : hooks[r][h] = "foreign") => hooks[r] = Manage!StartHooks(r)

HookInv ==
    /\ list \in Seq(Manage!Repos) /\ hooks \in HookSpace /\ Untouched
    /\ DOMAIN pr = Procs /\ \A p \in Procs : pr[p] = Manage!Idle \/ pr[p] \in Walker
    /\ \A p \in Procs : Looked(pr[p])

LEMMA NamesAre ==
    /\ Manage!Names[1] = "pre-receive" /\ Manage!Names[2] = "update" /\ Len(Manage!Names) = 2
    /\ Manage!Range(Manage!Names) = HookNames
BY DEF Manage!Names, Manage!Range, HookNames

LEMMA IdleLooks == Manage!Idle.at = "idle" /\ Looked(Manage!Idle) /\ Looked(Manage!Idle)'
BY DEF Manage!Idle, Looked

LEMMA HookInvInit == ASSUME HooksAssumption, Manage!Init PROVE HookInv
<1>1. \A r \in Manage!Repos : Manage!StartHooks(r) \in [HookNames -> Whole]
  <2> SUFFICES ASSUME NEW r \in Manage!Repos PROVE Manage!StartHooks(r) \in [HookNames -> Whole]
    OBVIOUS
  <2>1. Manage!NoHooks \in [HookNames -> Whole]
    BY NamesAre DEF Manage!NoHooks, Whole
  <2> QED
    BY <2>1, Zenon DEF Manage!StartHooks, HooksAssumption
<1>2. list \in Seq(Manage!Repos)
  BY DEF Manage!Init, Manage!Repos, HooksAssumption
<1> QED
  BY <1>1, <1>2, IdleLooks DEF Manage!Init, HookInv, HookSpace, Untouched

\* What a step may do to the hooks: one that was there is replaced by one of this
\* build, or goes with its repository; never in a repository with a foreign one
\* that keeps it.
Improves ==
    /\ hooks' \in HookSpace
    /\ \A r \in Manage!Repos : \A h \in HookNames : hooks'[r][h] \in {hooks[r][h], "current", "none"}
    /\ \A r \in Manage!Repos : hooks'[r] = hooks[r] \/ \A h \in HookNames : hooks'[r][h] # "foreign"

LEMMA LookedStays == ASSUME HookInv, Improves, NEW x \in Walker, Looked(x) PROVE Looked(x)'
<1> SUFFICES ASSUME x.at \in {"check", "install", "aside"}
             PROVE  /\ x.todo # <<>>
                    /\ x.at = "check" /\ x.i = 2 => hooks'[Head(x.todo)]["pre-receive"] # "foreign"
                    /\ x.at # "check" => \A h \in HookNames : hooks'[Head(x.todo)][h] # "foreign"
  BY DEF Looked
<1>1. x.todo # <<>> /\ x.todo \in Seq(Manage!Repos)
  BY DEF Looked, Walker
<1>2. Head(x.todo) \in Manage!Repos
  BY <1>1
<1> QED
  BY <1>1, <1>2 DEF Looked, Improves, HookNames

LEMMA UntouchedStays == ASSUME HookInv, Improves PROVE Untouched'
BY DEF HookInv, Improves, Untouched, Manage!StartHooks, Manage!NoHooks

\* A process goes on to q.
LEMMA HookStep ==
    ASSUME HookInv, NEW p \in Procs, NEW q, Manage!Goto(p, q), q = Manage!Idle \/ q \in Walker, Looked(q)',
           UNCHANGED list, Improves
    PROVE  HookInv'
<1>1. DOMAIN pr' = Procs /\ \A x \in Procs : pr'[x] = IF x = p THEN q ELSE pr[x]
  BY DEF HookInv, Manage!Goto
<1>2. \A x \in Procs : (pr'[x] = Manage!Idle \/ pr'[x] \in Walker)
  BY <1>1 DEF HookInv
<1>3. \A x \in Procs : Looked(pr[x])'
  <2> SUFFICES ASSUME NEW x \in Procs PROVE Looked(pr[x])'
    OBVIOUS
  <2>1. CASE x = p
    BY <1>1, <2>1 DEF Looked
  <2>2. CASE x # p
    <3>1. PICK y : y = pr[x]
      OBVIOUS
    <3>2. Looked(y)'
      BY <3>1, LookedStays, IdleLooks DEF HookInv
    <3> QED
      BY <1>1, <2>2, <3>1, <3>2 DEF Looked
  <2> QED
    BY <2>1, <2>2
<1>4. Untouched'
  BY UntouchedStays
<1> QED
  BY <1>1, <1>2, <1>3, <1>4 DEF HookInv, Improves, Walker, Manage!Idle

LEMMA NothingImproves == ASSUME HookInv, UNCHANGED hooks PROVE Improves
BY DEF HookInv, Improves, HookSpace

LEMMA SeqFacts ==
    ASSUME NEW s \in Seq(Manage!Repos)
    PROVE  /\ s # <<>> => Head(s) \in Manage!Repos /\ Tail(s) \in Seq(Manage!Repos)
           /\ Manage!Range(s) \subseteq Manage!Repos /\ \A r : r \in Manage!Range(s) <=> \E j \in 1..Len(s) : s[j] = r
BY DEF Manage!Range

\* A page of the list: whatever of it there still is.
LEMMA PageOf ==
    ASSUME NEW s \in Seq(Manage!Repos), NEW a \in Nat, NEW b \in Nat, b <= Len(s)
    PROVE  /\ SubSeq(s, a + 1, b) \in Seq(Manage!Repos)
           /\ \A k \in (a + 1)..b : \E j \in 1..Len(SubSeq(s, a + 1, b)) : SubSeq(s, a + 1, b)[j] = s[k]
<1>1. CASE a <= b
  <2>1. a + 1 \in 1..(Len(s) + 1) /\ b \in ((a + 1) - 1)..Len(s)
    BY <1>1
  <2>2. /\ SubSeq(s, a + 1, b) \in Seq(Manage!Repos) /\ Len(SubSeq(s, a + 1, b)) = b - a
        /\ \A i \in 1..(b - a) : SubSeq(s, a + 1, b)[i] = s[a + i]
    BY <1>1, <2>1
  <2>3. ASSUME NEW k \in (a + 1)..b PROVE \E j \in 1..(b - a) : SubSeq(s, a + 1, b)[j] = s[k]
    <3>1. k - a \in 1..(b - a) /\ a + (k - a) = k
      OBVIOUS
    <3> QED
      BY <2>2, <3>1
  <2> QED
    BY <2>2, <2>3, Zenon
<1>2. CASE b < a
  <2>1. SubSeq(s, a + 1, b) = <<>>
    BY <1>2
  <2>2. (a + 1)..b = {}
    BY <1>2
  <2> QED
    BY <2>1, <2>2
<1>3. a <= b \/ b < a
  OBVIOUS
<1> QED
  BY <1>1, <1>2, <1>3, Zenon

\* The process leaves a repository for the next one.
LEMMA LeaveStep ==
    ASSUME HookInv, NEW p \in Procs, pr[p].at \in {"check", "install", "aside"}, NEW f \in BOOLEAN, Manage!Leave(p, f),
           UNCHANGED list, Improves
    PROVE  HookInv'
<1>1. pr[p] \in Walker /\ pr[p].todo # <<>>
  BY IdleLooks DEF HookInv, Looked
<1>2. PICK q : q = [pr[p] EXCEPT !.at = "next", !.todo = Tail(@), !.failures = @ \/ f]
  OBVIOUS
<1>3. q \in Walker /\ q.at = "next"
  BY <1>1, <1>2, SeqFacts, Zenon DEF Walker
<1> QED
  BY <1>2, <1>3, HookStep, Zenon DEF Manage!Leave, Looked

LEMMA NextHookStep ==
    ASSUME HookInv, NEW p \in Procs, pr[p].at \in {"install", "aside"}, Manage!NextHook(p), UNCHANGED list, Improves
    PROVE  HookInv'
<1>1. pr[p] \in Walker /\ Looked(pr[p])
  BY IdleLooks DEF HookInv
<1>2. CASE pr[p].i < Len(Manage!Names)
  <2>0. pr[p].i = 1
    BY <1>1, <1>2, NamesAre DEF Walker
  <2>1. PICK q : q = [pr[p] EXCEPT !.at = "install", !.i = @ + 1] /\ q = [pr[p] EXCEPT !.at = "install", !.i = 2]
    BY <2>0
  <2>2. q \in Walker /\ q.at = "install" /\ q.todo = pr[p].todo
    BY <1>1, <2>1, Zenon DEF Walker
  <2>3. Looked(q)
    BY <1>1, <2>2 DEF Looked
  <2> QED
    BY <1>2, <2>1, <2>2, <2>3, HookStep, LookedStays DEF Manage!NextHook
<1> QED
  BY <1>2, LeaveStep, Zenon DEF Manage!NextHook

LEMMA BeginSteps ==
    ASSUME HookInv, NEW p \in Procs, Manage!One(p) \/ Manage!Walk(p) \/ Manage!Crash(p) \/ Manage!Finish(p)
    PROVE  HookInv'
<1>0. Improves
  BY NothingImproves DEF Manage!One, Manage!Walk, Manage!Crash, Manage!Finish
<1>1. CASE Manage!One(p)
  <2>1. PICK r \in Manage!Range(list) : Manage!Goto(p, [at |-> "check", todo |-> <<r>>, i |-> 1, page |-> 0, count |-> 0,
                                                         seen |-> {}, failures |-> FALSE])
    BY <1>1, Zenon DEF Manage!One
  <2>2. r \in Manage!Repos
    BY SeqFacts DEF HookInv
  <2>3. PICK q : q = [at |-> "check", todo |-> <<r>>, i |-> 1, page |-> 0, count |-> 0, seen |-> {}, failures |-> FALSE]
    BY Zenon
  <2>4. q \in Walker /\ q.at = "check" /\ q.i = 1 /\ q.todo = <<r>> /\ q.todo # <<>>
    <3>1. <<r>> \in Seq(Manage!Repos) /\ <<r>> # <<>> /\ 0 \in Nat
      BY <2>2
    <3>2. /\ q.at = "check" /\ q.todo = <<r>> /\ q.i = 1 /\ q.page = 0 /\ q.count = 0 /\ q.seen = {} /\ q.failures = FALSE
      BY <2>3, Zenon
    <3>3. q \in Walker
      BY <2>3, <3>1, Zenon DEF Walker
    <3> QED
      BY <3>1, <3>2, <3>3, Zenon
  <2>5. Looked(q)'
    BY <2>4 DEF Looked
  <2> QED
    BY <1>0, <1>1, <2>1, <2>3, <2>4, <2>5, HookStep DEF Manage!One
<1>2. CASE Manage!Walk(p)
  <2>1. PICK q : q = [at |-> "next", todo |-> <<>>, i |-> 1, page |-> 0, count |-> Len(list), seen |-> Manage!Range(list),
                      failures |-> FALSE]
    BY Zenon
  <2>2. Len(list) \in Nat /\ Manage!Range(list) \subseteq Manage!Repos /\ <<>> \in Seq(Manage!Repos)
    BY SeqFacts DEF HookInv
  <2>3. q \in Walker /\ q.at = "next"
    BY <2>1, <2>2 DEF Walker
  <2> QED
    BY <1>0, <1>2, <2>1, <2>3, HookStep DEF Looked, Manage!Walk
<1>3. CASE Manage!Crash(p) \/ Manage!Finish(p)
  BY <1>0, <1>3, HookStep, IdleLooks DEF Manage!Crash, Manage!Finish
<1> QED
  BY <1>1, <1>2, <1>3

LEMMA ListingSteps ==
    ASSUME HooksAssumption, HookInv, NEW p \in Procs, Manage!NextPage(p) \/ Manage!NextRepository(p)
    PROVE  HookInv'
<1>0. Improves
  BY NothingImproves DEF Manage!NextPage, Manage!NextRepository
<1>1. pr[p] \in Walker /\ pr[p].at = "next"
  BY IdleLooks DEF HookInv, Manage!NextPage, Manage!NextRepository
<1>2. CASE Manage!NextPage(p) /\ Manage!PageLeft(pr[p].page, pr[p].count)
  <2>1. pr[p].page * pageSize \in Nat /\ (pr[p].page + 1) * pageSize \in Nat
    BY <1>1 DEF Walker, HooksAssumption
  <2>2. PICK s : s = SubSeq(list, pr[p].page * pageSize + 1,
                            IF Len(list) < (pr[p].page + 1) * pageSize THEN Len(list) ELSE (pr[p].page + 1) * pageSize)
    BY Zenon
  <2>3. PICK b \in Nat : b <= Len(list) /\ s = SubSeq(list, pr[p].page * pageSize + 1, b)
    <3>1. Len(list) \in Nat /\ Len(list) <= Len(list)
      BY DEF HookInv
    <3>2. CASE Len(list) < (pr[p].page + 1) * pageSize
      BY <2>2, <3>1, <3>2, Zenon
    <3>3. CASE ~(Len(list) < (pr[p].page + 1) * pageSize)
      <4>1. (pr[p].page + 1) * pageSize <= Len(list)
        BY <2>1, <3>1, <3>3
      <4> QED
        BY <2>1, <2>2, <3>3, <4>1, Zenon
    <3> QED
      BY <3>2, <3>3
  <2>4. s \in Seq(Manage!Repos)
    BY <2>1, <2>3, PageOf DEF HookInv
  <2>5. PICK q : q = [pr[p] EXCEPT !.page = @ + 1, !.todo = s]
    OBVIOUS
  <2>6. q \in Walker /\ q.at = "next"
    <3>1. pr[p].page + 1 \in Nat
      BY <1>1 DEF Walker
    <3> QED
      BY <1>1, <2>4, <2>5, <3>1, Zenon DEF Walker
  <2>7. Manage!Goto(p, q)
    BY <1>2, <2>2, <2>5 DEF Manage!NextPage
  <2> QED
    BY <1>0, <1>2, <2>6, <2>7, HookStep DEF Looked, Manage!NextPage
<1>3. CASE Manage!NextPage(p) /\ ~Manage!PageLeft(pr[p].page, pr[p].count)
  <2>1. PICK q : q = [pr[p] EXCEPT !.at = "done"]
    BY Zenon
  <2>2. q \in Walker /\ q.at = "done"
    BY <1>1, <2>1 DEF Walker
  <2> QED
    BY <1>0, <1>3, <2>1, <2>2, HookStep, Zenon DEF Looked, Manage!NextPage
<1>4. CASE Manage!NextRepository(p)
  <2>1. PICK q : q = [pr[p] EXCEPT !.at = "check", !.i = 1]
    OBVIOUS
  <2>2. q \in Walker /\ q.at = "check" /\ q.i = 1 /\ q.todo = pr[p].todo
    BY <1>1, <2>1, Zenon DEF Walker
  <2>3. Looked(q)'
    BY <1>4, <2>2 DEF Looked, Manage!NextRepository
  <2> QED
    BY <1>0, <1>4, <2>1, <2>2, <2>3, HookStep DEF Manage!NextRepository
<1> QED
  BY <1>2, <1>3, <1>4

LEMMA CheckStep == ASSUME HookInv, NEW p \in Procs, Manage!Check(p) PROVE HookInv'
<1>0. Improves
  BY NothingImproves DEF Manage!Check
<1>1. pr[p] \in Walker /\ Looked(pr[p]) /\ pr[p].at = "check" /\ pr[p].todo # <<>>
  BY IdleLooks DEF HookInv, Manage!Check, Looked
<1>2. CASE Manage!Leave(p, TRUE)
  BY <1>0, <1>1, <1>2, LeaveStep, Zenon DEF Manage!Check
<1>3. CASE ~(Manage!Content(p) # "none" /\ ~Manage!isGitusHook(Manage!Content(p))) /\ pr[p].i = 2
  <2>1. PICK q : q = [pr[p] EXCEPT !.at = "install", !.i = 1]
    OBVIOUS
  <2>2. q \in Walker /\ q.at = "install" /\ q.i = 1 /\ q.todo = pr[p].todo
    BY <1>1, <2>1, Zenon DEF Walker
  <2>3. hooks[Head(q.todo)]["update"] # "foreign" /\ hooks[Head(q.todo)]["pre-receive"] # "foreign"
    BY <1>1, <1>3, <2>2, NamesAre DEF Looked, Manage!Content, Manage!Repo, Manage!Hook, Manage!isGitusHook
  <2>4. Looked(q)'
    BY <1>1, <2>2, <2>3 DEF Looked, Manage!Check, HookNames
  <2>5. Manage!Goto(p, q)
    BY <1>3, <2>1, NamesAre, Zenon DEF Manage!Check, Manage!BothChecked
  <2> QED
    BY <1>0, <2>2, <2>4, <2>5, HookStep DEF Manage!Check
<1>4. CASE ~(Manage!Content(p) # "none" /\ ~Manage!isGitusHook(Manage!Content(p))) /\ pr[p].i # 2
  <2>1. PICK q : q = [pr[p] EXCEPT !.i = @ + 1]
    BY Zenon
  <2>2. q \in Walker /\ q.at = "check" /\ q.i = 2 /\ q.todo = pr[p].todo /\ pr[p].i = 1
    BY <1>1, <1>4, <2>1 DEF Walker
  <2>3. hooks[Head(q.todo)]["pre-receive"] # "foreign"
    BY <1>4, <2>2, NamesAre DEF Manage!Content, Manage!Repo, Manage!Hook, Manage!isGitusHook
  <2>4. Looked(q)'
    BY <1>1, <2>2, <2>3 DEF Looked, Manage!Check
  <2>5. Manage!Goto(p, q)
    BY <1>4, <2>1, NamesAre, Zenon DEF Manage!Check, Manage!BothChecked
  <2> QED
    BY <1>0, <2>2, <2>4, <2>5, HookStep DEF Manage!Check
<1> QED
  BY <1>2, <1>3, <1>4, Zenon DEF Manage!Check

LEMMA InstallStep == ASSUME HookInv, NEW p \in Procs, Manage!Install(p) PROVE HookInv'
<1>0. Improves /\ UNCHANGED hooks
  BY NothingImproves, Zenon DEF Manage!Install, Manage!WriteAside
<1>1. pr[p] \in Walker /\ Looked(pr[p]) /\ pr[p].at = "install"
  BY IdleLooks DEF HookInv, Manage!Install
<1>2. CASE Manage!NextHook(p)
  BY <1>0, <1>1, <1>2, NextHookStep DEF Manage!Install
<1>3. CASE Manage!Leave(p, TRUE)
  BY <1>0, <1>1, <1>3, LeaveStep, Zenon DEF Manage!Install
<1>4. CASE Manage!Goto(p, [pr[p] EXCEPT !.at = "aside"])
  <2>1. PICK q : q = [pr[p] EXCEPT !.at = "aside"]
    BY Zenon
  <2>2. q \in Walker /\ q.at = "aside" /\ q.todo = pr[p].todo
    BY <1>1, <2>1 DEF Walker
  <2>3. Looked(q)
    BY <1>1, <2>2 DEF Looked
  <2> QED
    BY <1>0, <1>4, <2>1, <2>2, <2>3, HookStep, LookedStays DEF Manage!Install
<1> QED
  BY <1>2, <1>3, <1>4, Zenon DEF Manage!Install

LEMMA RenameImproves ==
    ASSUME HookInv, NEW p \in Procs, Manage!Rename(p)
    PROVE  /\ Improves /\ pr[p] \in Walker /\ pr[p].todo # <<>> /\ Head(pr[p].todo) \in Manage!Repos
           /\ hooks' = [hooks EXCEPT ![Head(pr[p].todo)][Manage!Names[pr[p].i]] = "current"]
<1>1. pr[p] \in Walker /\ Looked(pr[p]) /\ pr[p].at = "aside"
  BY IdleLooks DEF HookInv, Manage!Rename
<1>2. pr[p].todo # <<>> /\ pr[p].todo \in Seq(Manage!Repos) /\ \A h \in HookNames : hooks[Head(pr[p].todo)][h] # "foreign"
  BY <1>1 DEF Looked, Walker
<1>3. PICK r \in Manage!Repos : r = Head(pr[p].todo)
  BY <1>2, SeqFacts
<1>4. PICK h \in HookNames : h = Manage!Names[pr[p].i]
  BY <1>1, NamesAre DEF Walker, HookNames
<1>5. hooks' = [hooks EXCEPT ![r][h] = "current"]
  BY <1>3, <1>4 DEF Manage!Rename, Manage!Put, Manage!Repo, Manage!Hook
<1>6. Improves
  BY <1>2, <1>3, <1>5 DEF Improves, HookInv, HookSpace, Whole
<1> QED
  BY <1>1, <1>2, <1>3, <1>4, <1>5, <1>6

LEMMA RenameStep == ASSUME HookInv, NEW p \in Procs, Manage!Rename(p) PROVE HookInv'
BY RenameImproves, NextHookStep, Zenon DEF Manage!Rename

\* Repositories that come and go.
LEMMA MeanwhileSteps ==
    ASSUME HookInv, Manage!CreateRepository \/ Manage!HardDeleteRepository
    PROVE  HookInv' /\ Improves
<1>1. Improves /\ list' \in Seq(Manage!Repos) /\ UNCHANGED pr
  <2>1. CASE Manage!CreateRepository
    <3>1. PICK r \in New \ Manage!Range(list) : /\ list' = Append(list, r)
                                                /\ hooks' = [hooks EXCEPT ![r] = [h \in Manage!Range(Manage!Names) |-> "current"]]
      BY <2>1, Zenon DEF Manage!CreateRepository
    <3>2. r \in Manage!Repos
      BY DEF Manage!Repos
    <3>3. list' \in Seq(Manage!Repos)
      BY <3>1, <3>2 DEF HookInv
    <3>4. Improves
      BY <3>1, <3>2, NamesAre DEF Improves, HookInv, HookSpace, Whole
    <3> QED
      BY <2>1, <3>3, <3>4 DEF Manage!CreateRepository
  <2>2. CASE Manage!HardDeleteRepository
    <3>1. PICK i \in DOMAIN list : list' = SubSeq(list, 1, i - 1) \o SubSeq(list, i + 1, Len(list)) /\ hooks' = [hooks EXCEPT ![list[i]] = Manage!NoHooks]
      BY <2>2, Zenon DEF Manage!HardDeleteRepository
    <3>2. list[i] \in Manage!Repos /\ i \in 1..Len(list)
      BY DEF HookInv
    <3>3. list' \in Seq(Manage!Repos)
      <4>1. SubSeq(list, 1, i - 1) \in Seq(Manage!Repos) /\ SubSeq(list, i + 1, Len(list)) \in Seq(Manage!Repos)
        BY <3>2, PageOf DEF HookInv
      <4> QED
        BY <3>1, <4>1
    <3>4. Improves
      BY <3>1, <3>2, NamesAre DEF Improves, HookInv, HookSpace, Whole, Manage!NoHooks
    <3> QED
      BY <2>2, <3>3, <3>4 DEF Manage!HardDeleteRepository
  <2> QED
    BY <2>1, <2>2
<1>2. \A x \in Procs : Looked(pr[x])'
  <2> SUFFICES ASSUME NEW x \in Procs PROVE Looked(pr[x])'
    OBVIOUS
  <2>1. PICK y : y = pr[x]
    OBVIOUS
  <2>2. Looked(y)'
    BY <1>1, <2>1, LookedStays, IdleLooks DEF HookInv
  <2> QED
    BY <1>1, <2>1, <2>2 DEF Looked
<1>3. Untouched'
  BY <1>1, UntouchedStays
<1> QED
  BY <1>1, <1>2, <1>3 DEF HookInv, Improves, Walker, Manage!Idle

LEMMA HookInvStep == ASSUME HooksAssumption, HookInv, [Manage!Next]_(Manage!vars) PROVE HookInv'
<1>1. CASE UNCHANGED Manage!vars
  BY <1>1 DEF HookInv, Manage!vars, Looked, Untouched
<1>2. ASSUME NEW p \in Procs, Manage!Step(p) PROVE HookInv'
  BY <1>2, BeginSteps, ListingSteps, CheckStep, InstallStep, RenameStep DEF Manage!Step
<1> QED
  BY <1>1, <1>2, MeanwhileSteps DEF Manage!Next

\* However many processes install hooks, die half way, or create and delete
\* repositories meanwhile: a push never meets a hook cut short, and a repository
\* with a hook of somebody else's keeps both as they were (InstallManagedHook looks
\* at both before installHookFile writes aside and renames).
THEOREM HooksAreKept ==
    ASSUME HooksAssumption
    PROVE  Manage!Spec => [](Manage!NoHalfHook /\ Manage!ForeignLeftAlone)
<1>1. HookInv => Manage!NoHalfHook
  BY NamesAre DEF HookInv, HookSpace, Whole, Manage!NoHalfHook
<1>2. HookInv => Manage!ForeignLeftAlone
  BY NamesAre, SeqFacts DEF HookInv, Untouched, Manage!ForeignLeftAlone
<1> QED
  BY <1>1, <1>2, HookInvInit, HookInvStep, PTL DEF Manage!Spec

\* The walk. What a process that has met no failure has got to: of the repositories
\* it counted, by row id, those of the pages it has listed are still to do or have
\* the hooks of this build.
Current(r) == \A h \in HookNames : hooks[r][h] = "current"
Visited(q) ==
    q \in Walker /\ ~q.failures =>
        /\ q.count <= Len(list)
        /\ \A r \in q.seen : \E k \in 1..q.count : list[k] = r
        /\ \A k \in 1..q.count : k <= q.page * pageSize => (\E j \in 1..Len(q.todo) : q.todo[j] = list[k]) \/ Current(list[k])
        /\ q.at \in {"install", "aside"} /\ q.i = 2 => hooks[Head(q.todo)]["pre-receive"] = "current"
        /\ q.at = "done" => q.todo = <<>> /\ q.count <= q.page * pageSize

VisitInv == \A p \in Procs : Visited(pr[p])

\* Without deletions rows are only added, and a hook of this build stays one.
Better ==
    /\ Len(list') \in Nat /\ Len(list) <= Len(list') /\ \A k \in 1..Len(list) : list'[k] = list[k]
    /\ \A r \in Manage!Repos : \A h \in HookNames : hooks[r][h] = "current" => hooks'[r][h] = "current"

LEMMA SameIsBetter == ASSUME HookInv, UNCHANGED <<list, hooks>> PROVE Better
BY DEF HookInv, Better

LEMMA VisitedStays == ASSUME HookInv, Better, NEW x, Looked(x), Visited(x) PROVE Visited(x)'
<1> SUFFICES ASSUME x \in Walker, ~x.failures PROVE Visited(x)'
  BY DEF Visited
<1>1. Len(list) \in Nat /\ x.count \in Nat /\ x.count <= Len(list) /\ \A k \in 1..Len(list) : list[k] \in Manage!Repos
  BY DEF HookInv, Visited, Walker
<1>2. \A k \in 1..x.count : k \in 1..Len(list) /\ list'[k] = list[k]
  BY <1>1 DEF Better
<1>3. x.count <= Len(list')
  BY <1>1 DEF Better
<1>4. \A r \in x.seen : \E k \in 1..x.count : list'[k] = r
  BY <1>2 DEF Visited
<1>5. ASSUME NEW k \in 1..x.count, k <= x.page * pageSize
      PROVE  (\E j \in 1..Len(x.todo) : x.todo[j] = list'[k]) \/ \A h \in HookNames : hooks'[list'[k]][h] = "current"
  <2>1. (\E j \in 1..Len(x.todo) : x.todo[j] = list[k]) \/ Current(list[k])
    BY <1>5 DEF Visited
  <2>2. list'[k] = list[k] /\ list[k] \in Manage!Repos
    BY <1>1, <1>2
  <2> QED
    BY <2>1, <2>2 DEF Better, Current
<1>6. ASSUME x.at \in {"install", "aside"}, x.i = 2 PROVE hooks'[Head(x.todo)]["pre-receive"] = "current"
  <2>1. Head(x.todo) \in Manage!Repos
    BY <1>6, SeqFacts DEF Looked, Walker
  <2> QED
    BY <1>6, <2>1 DEF Visited, Better, HookNames
<1> QED
  BY <1>3, <1>4, <1>5, <1>6 DEF Visited, Current

LEMMA VisitStep ==
    ASSUME HookInv, VisitInv, NEW p \in Procs, NEW q, Manage!Goto(p, q), Visited(q)', Better
    PROVE  VisitInv'
<1>1. \A x \in Procs : pr'[x] = IF x = p THEN q ELSE pr[x]
  BY DEF HookInv, Manage!Goto
<1> SUFFICES ASSUME NEW x \in Procs PROVE Visited(pr[x])'
  BY DEF VisitInv
<1>2. CASE x = p
  BY <1>1, <1>2 DEF Visited, Current
<1>3. CASE x # p
  <2>1. PICK y : y = pr[x]
    OBVIOUS
  <2>2. Visited(y)'
    BY <2>1, VisitedStays DEF VisitInv, HookInv
  <2> QED
    BY <1>1, <1>3, <2>1, <2>2, SMTT(30) DEF Visited, Current
<1> QED
  BY <1>2, <1>3

\* The same, for a step that only moves the process.
LEMMA MoveStep ==
    ASSUME HookInv, VisitInv, NEW p \in Procs, NEW q, Manage!Goto(p, q), Visited(q), UNCHANGED <<list, hooks>>
    PROVE  VisitInv'
<1>1. Visited(q)'
  BY DEF Visited, Current
<1> QED
  BY <1>1, VisitStep, SameIsBetter

LEMMA BeginVisits ==
    ASSUME HooksAssumption, HookInv, VisitInv, NEW p \in Procs,
           Manage!One(p) \/ Manage!Walk(p) \/ Manage!Crash(p) \/ Manage!Finish(p)
    PROVE  VisitInv'
<1>0. UNCHANGED <<list, hooks>> /\ Len(list) \in Nat
  BY DEF HookInv, Manage!One, Manage!Walk, Manage!Crash, Manage!Finish
<1>1. CASE Manage!One(p)
  <2>1. PICK r : Manage!Goto(p, [at |-> "check", todo |-> <<r>>, i |-> 1, page |-> 0, count |-> 0, seen |-> {}, failures |-> FALSE])
    BY <1>1, Zenon DEF Manage!One
  <2>2. PICK q : q = [at |-> "check", todo |-> <<r>>, i |-> 1, page |-> 0, count |-> 0, seen |-> {}, failures |-> FALSE]
    BY Zenon
  <2>3. q.at = "check" /\ q.count = 0 /\ q.seen = {}
    BY <2>2
  <2>4. Visited(q)
    BY <1>0, <2>3 DEF Visited
  <2> QED
    BY <1>0, <2>1, <2>2, <2>4, MoveStep, Zenon
<1>2. CASE Manage!Walk(p)
  <2>1. PICK q : q = [at |-> "next", todo |-> <<>>, i |-> 1, page |-> 0, count |-> Len(list), seen |-> Manage!Range(list),
                      failures |-> FALSE]
    BY Zenon
  <2>2. q.at = "next" /\ q.count = Len(list) /\ q.seen = Manage!Range(list) /\ q.page = 0
    BY <2>1
  <2>3. \A r \in q.seen : \E k \in 1..q.count : list[k] = r
    BY <2>2, SeqFacts DEF HookInv
  <2>4. 0 * pageSize = 0
    BY DEF HooksAssumption
  <2>5. \A k \in 1..q.count : ~(k <= q.page * pageSize)
    BY <1>0, <2>2, <2>4
  <2>6. Visited(q)
    BY <1>0, <2>2, <2>3, <2>5 DEF Visited
  <2> QED
    BY <1>0, <1>2, <2>1, <2>6, MoveStep DEF Manage!Walk
<1>3. CASE Manage!Crash(p) \/ Manage!Finish(p)
  <2>1. Manage!Idle \notin Walker
    BY IdleLooks DEF Walker
  <2>2. Visited(Manage!Idle)
    BY <2>1 DEF Visited
  <2> QED
    BY <1>0, <1>3, <2>2, MoveStep DEF Manage!Crash, Manage!Finish
<1> QED
  BY <1>1, <1>2, <1>3

LEMMA PageVisits ==
    ASSUME HooksAssumption, HookInv, VisitInv, NEW p \in Procs, Manage!NextPage(p)
    PROVE  VisitInv'
<1>0. UNCHANGED <<list, hooks>> /\ Len(list) \in Nat /\ list \in Seq(Manage!Repos)
  BY DEF HookInv, Manage!NextPage
<1>1. /\ pr[p] \in Walker /\ pr[p].at = "next" /\ pr[p].todo = <<>> /\ Visited(pr[p])
      /\ pr[p].count \in Nat /\ pr[p].page \in Nat /\ pageSize \in Nat
  BY IdleLooks DEF HookInv, VisitInv, Walker, HooksAssumption, Manage!NextPage
<1>2. CASE Manage!PageLeft(pr[p].page, pr[p].count)
  <2>1. PICK a \in Nat, c \in Nat : a = pr[p].page * pageSize /\ c = (pr[p].page + 1) * pageSize
    BY <1>1
  <2>2. PICK b \in Nat : b = IF Len(list) < c THEN Len(list) ELSE c
    BY <1>0
  <2>3. b <= Len(list) /\ \A k \in 1..Len(list) : k <= c => k <= b
    BY <1>0, <2>2
  <2>4. PICK q : q = [pr[p] EXCEPT !.page = @ + 1, !.todo = SubSeq(list, a + 1, b)]
    OBVIOUS
  <2>5. Manage!Goto(p, q)
    BY <1>2, <2>1, <2>2, <2>4 DEF Manage!NextPage
  <2>6. /\ q.page = pr[p].page + 1 /\ q.todo = SubSeq(list, a + 1, b) /\ q.at = "next" /\ q.count = pr[p].count
        /\ q.seen = pr[p].seen /\ q.failures = pr[p].failures
    BY <1>1, <2>4, Zenon DEF Walker
  <2>7. ASSUME ~q.failures PROVE Visited(q)
    <3>1. /\ q.count \in Nat /\ q.count <= Len(list) /\ \A r \in q.seen : \E k \in 1..q.count : list[k] = r
          /\ \A k \in 1..q.count : k <= a => Current(list[k])
      <4>1. /\ pr[p].count <= Len(list) /\ \A r \in pr[p].seen : \E k \in 1..pr[p].count : list[k] = r
            /\ \A k \in 1..pr[p].count : k <= pr[p].page * pageSize =>
                  (\E j \in 1..Len(<<>>) : <<>>[j] = list[k]) \/ Current(list[k])
        BY <1>1, <2>6, <2>7 DEF Visited
      <4>2. 1..Len(<<>>) = {}
        OBVIOUS
      <4>3. \A k \in 1..pr[p].count : k <= a => Current(list[k])
        BY <2>1, <4>1, <4>2, Zenon
      <4> QED
        BY <1>1, <2>6, <4>1, <4>3
    <3>2. ASSUME NEW k \in 1..q.count, k <= q.page * pageSize
          PROVE  (\E j \in 1..Len(q.todo) : q.todo[j] = list[k]) \/ Current(list[k])
      <4>1. k <= b
        BY <1>0, <2>1, <2>3, <2>6, <3>1, <3>2
      <4>2. CASE k <= a
        BY <3>1, <4>2
      <4>3. CASE k > a
        <5>1. k \in (a + 1)..b
          BY <4>1, <4>3
        <5>2. \A i \in (a + 1)..b : \E j \in 1..Len(SubSeq(list, a + 1, b)) : SubSeq(list, a + 1, b)[j] = list[i]
          BY <1>0, <2>3, PageOf, Zenon
        <5> QED
          BY <2>6, <5>1, <5>2, Zenon
      <4> QED
        BY <4>2, <4>3
    <3> QED
      BY <2>6, <3>1, <3>2, Zenon DEF Visited
  <2>8. Visited(q)
    BY <2>7 DEF Visited
  <2> QED
    BY <1>0, <2>5, <2>8, MoveStep
<1>3. CASE ~Manage!PageLeft(pr[p].page, pr[p].count)
  <2>1. PICK q : q = [pr[p] EXCEPT !.at = "done"]
    BY Zenon
  <2>2. /\ q.page = pr[p].page /\ q.todo = <<>> /\ q.at = "done" /\ q.count = pr[p].count
        /\ q.seen = pr[p].seen /\ q.failures = pr[p].failures
    BY <1>1, <2>1 DEF Walker
  <2>3. pr[p].page * pageSize \in Nat
    BY <1>1
  <2>4. q.count <= q.page * pageSize
    BY <1>1, <1>3, <2>2, <2>3 DEF Manage!PageLeft
  <2>5. Visited(q)
    BY <1>1, <2>2, <2>4 DEF Visited
  <2> QED
    BY <1>0, <1>3, <2>1, <2>5, MoveStep DEF Manage!NextPage
<1> QED
  BY <1>2, <1>3

\* A process that has failed has nothing to keep.
LEMMA FailedVisits ==
    ASSUME HookInv, VisitInv, NEW p \in Procs, pr[p] \in Walker, Manage!Leave(p, TRUE), UNCHANGED <<list, hooks>>
    PROVE  VisitInv'
<1>1. PICK q : q = [pr[p] EXCEPT !.at = "next", !.todo = Tail(@), !.failures = @ \/ TRUE]
  OBVIOUS
<1>2. q.failures
  BY <1>1, Zenon DEF Walker
<1>3. Visited(q)
  BY <1>2 DEF Visited
<1> QED
  BY <1>1, <1>3, MoveStep DEF Manage!Leave

\* Neither does one that goes on to look at, or to install, a hook of the
\* repository it is at.
LEMMA SameVisits ==
    ASSUME NEW x, NEW q, x \in Walker, Visited(x), q.page = x.page, q.todo = x.todo, q.count = x.count, q.seen = x.seen,
           q.failures = x.failures, q.at # "done",
           q.at \in {"install", "aside"} /\ q.i = 2 => x.at \in {"install", "aside"} /\ x.i = 2
    PROVE  Visited(q)
<1> SUFFICES ASSUME ~x.failures PROVE Visited(q)
  BY Zenon DEF Visited
<1>1. /\ x.count <= Len(list)
      /\ \A r \in x.seen : \E k \in 1..x.count : list[k] = r
      /\ \A k \in 1..x.count : k <= x.page * pageSize => (\E j \in 1..Len(x.todo) : x.todo[j] = list[k]) \/ Current(list[k])
      /\ x.at \in {"install", "aside"} /\ x.i = 2 => hooks[Head(x.todo)]["pre-receive"] = "current"
  BY Zenon DEF Visited
<1> QED
  BY <1>1, ZenonT(40) DEF Visited

LEMMA CheckVisits ==
    ASSUME HookInv, VisitInv, NEW p \in Procs, Manage!NextRepository(p) \/ Manage!Check(p)
    PROVE  VisitInv'
<1>0. UNCHANGED <<list, hooks>>
  BY Zenon DEF Manage!NextRepository, Manage!Check
<1>1. pr[p] \in Walker /\ pr[p].at \in {"next", "check"} /\ Visited(pr[p])
  BY IdleLooks, Zenon DEF HookInv, VisitInv, Manage!NextRepository, Manage!Check
<1>2. CASE Manage!Leave(p, TRUE)
  BY <1>0, <1>1, <1>2, FailedVisits, Zenon
<1>3. CASE Manage!Goto(p, [pr[p] EXCEPT !.at = "check", !.i = 1]) \/ Manage!Goto(p, [pr[p] EXCEPT !.at = "install", !.i = 1])
  <2>1. PICK q : /\ q = [pr[p] EXCEPT !.at = "check", !.i = 1] \/ q = [pr[p] EXCEPT !.at = "install", !.i = 1]
                 /\ Manage!Goto(p, q)
    BY <1>3
  <2>2. /\ q.page = pr[p].page /\ q.todo = pr[p].todo /\ q.count = pr[p].count /\ q.seen = pr[p].seen
        /\ q.failures = pr[p].failures /\ q.at \in {"check", "install"} /\ q.i = 1
    BY <1>1, <2>1, Zenon DEF Walker
  <2> QED
    BY <1>0, <1>1, <2>1, <2>2, SameVisits, MoveStep
<1>4. CASE Manage!Check(p) /\ Manage!Goto(p, [pr[p] EXCEPT !.i = @ + 1])
  <2>1. PICK q : q = [pr[p] EXCEPT !.i = @ + 1]
    BY Zenon
  <2>2. /\ q.page = pr[p].page /\ q.todo = pr[p].todo /\ q.count = pr[p].count /\ q.seen = pr[p].seen
        /\ q.failures = pr[p].failures /\ q.at = "check"
    BY <1>1, <1>4, <2>1 DEF Walker, Manage!Check
  <2>3. Visited(q)
    BY <1>1, <2>2, SameVisits
  <2> QED
    BY <1>0, <1>4, <2>1, <2>3, MoveStep
<1> QED
  BY <1>2, <1>3, <1>4, Zenon DEF Manage!NextRepository, Manage!Check

\* The hook the process was at is one of this build now.
LEMMA NextHookVisits ==
    ASSUME HookInv, VisitInv, NEW p \in Procs, pr[p].at \in {"install", "aside"}, Manage!NextHook(p), Better, UNCHANGED list,
           hooks'[Head(pr[p].todo)][Manage!Names[pr[p].i]] = "current"
    PROVE  VisitInv'
<1>1. /\ pr[p] \in Walker /\ Visited(pr[p]) /\ pr[p].todo # <<>> /\ pr[p].todo \in Seq(Manage!Repos)
      /\ Head(pr[p].todo) \in Manage!Repos /\ pr[p].i \in {1, 2} /\ Len(list) \in Nat /\ pr[p].count \in Nat
  BY IdleLooks, SeqFacts, SMTT(30) DEF HookInv, VisitInv, Looked, Walker
<1>2. PICK x : x = pr[p]
  OBVIOUS
<1>3. Visited(x)' /\ x \in Walker
  BY <1>1, <1>2, VisitedStays DEF HookInv
<1>4. CASE x.i = 1
  <2>1. PICK q : q = [x EXCEPT !.at = "install", !.i = @ + 1]
    OBVIOUS
  <2>2. /\ q.page = x.page /\ q.todo = x.todo /\ q.count = x.count /\ q.seen = x.seen
        /\ q.failures = x.failures /\ q.at = "install"
    BY <1>3, <2>1 DEF Walker
  <2>3. hooks'[Head(q.todo)]["pre-receive"] = "current"
    BY <1>2, <1>4, <2>2, NamesAre
  <2>4. Visited(q)'
    BY <1>3, <2>2, <2>3, SMTT(30) DEF Visited
  <2>5. Manage!Goto(p, q)
    BY <1>2, <1>4, <2>1, NamesAre DEF Manage!NextHook
  <2> QED
    BY <2>4, <2>5, VisitStep
<1>5. CASE x.i = 2
  <2>1. PICK q : q = [x EXCEPT !.at = "next", !.todo = Tail(@), !.failures = @ \/ FALSE]
    OBVIOUS
  <2>2. /\ q.page = x.page /\ q.todo = Tail(x.todo) /\ q.count = x.count /\ q.seen = x.seen
        /\ q.failures = x.failures /\ q.at = "next"
    BY <1>3, <2>1 DEF Walker
  <2>3. ASSUME ~x.failures PROVE \A h \in HookNames : hooks'[Head(x.todo)][h] = "current"
    <3>1. hooks[Head(x.todo)]["pre-receive"] = "current"
      BY <1>1, <1>2, <1>5, <2>3 DEF Visited
    <3>2. hooks'[Head(x.todo)]["pre-receive"] = "current"
      BY <1>1, <1>2, <3>1 DEF Better, HookNames
    <3> QED
      BY <1>2, <1>5, <3>2, NamesAre DEF HookNames
  <2>4. \A j \in 1..Len(x.todo) : x.todo[j] = Head(x.todo) \/ \E i \in 1..Len(Tail(x.todo)) : Tail(x.todo)[i] = x.todo[j]
    <3> SUFFICES ASSUME NEW j \in 1..Len(x.todo), j # 1 PROVE \E i \in 1..Len(Tail(x.todo)) : Tail(x.todo)[i] = x.todo[j]
      BY <1>1, <1>2
    <3>1. j - 1 \in 1..Len(Tail(x.todo)) /\ Tail(x.todo)[j - 1] = x.todo[j]
      BY <1>1, <1>2
    <3> QED
      BY <3>1
  <2>5. ASSUME ~q.failures, NEW k \in 1..q.count, k <= q.page * pageSize
        PROVE  (\E j \in 1..Len(q.todo) : q.todo[j] = list'[k]) \/ \A h \in HookNames : hooks'[list'[k]][h] = "current"
    <3>1. (\E j \in 1..Len(x.todo) : x.todo[j] = list'[k]) \/ \A h \in HookNames : hooks'[list'[k]][h] = "current"
      BY <1>3, <2>2, <2>5 DEF Visited, Current
    <3> QED
      <4>1. ~x.failures /\ q.todo = Tail(x.todo)
        BY <2>2, <2>5, Zenon
      <4>2. CASE \E j \in 1..Len(x.todo) : x.todo[j] = list'[k]
        BY <2>3, <2>4, <4>1, <4>2, Zenon
      <4> QED
        BY <3>1, <4>2, Zenon
  <2>6. Visited(q)'
    <3> SUFFICES ASSUME ~q.failures PROVE Visited(q)'
      BY Zenon DEF Visited
    <3>1. ~x.failures
      BY <2>2, Zenon
    <3>2. x.count <= Len(list') /\ \A r \in x.seen : \E k \in 1..x.count : list'[k] = r
      BY <1>3, <3>1, Zenon DEF Visited
    <3>3. q.count <= Len(list') /\ \A r \in q.seen : \E k \in 1..q.count : list'[k] = r
      <4>1. q.count = x.count /\ q.seen = x.seen
        BY <2>2, Zenon
      <4> QED
        BY <3>2, <4>1
    <3>4. ASSUME NEW k \in 1..q.count, k <= q.page * pageSize
          PROVE  (\E j \in 1..Len(q.todo) : q.todo[j] = list'[k]) \/ Current(list[k])'
      BY <2>5, <3>4, Zenon DEF Current
    <3>5. q.at # "install" /\ q.at # "aside" /\ q.at # "done"
      BY <2>2
    <3> QED
      BY <3>3, <3>4, <3>5, ZenonT(40) DEF Visited
  <2>7. Manage!Goto(p, q)
    BY <1>2, <1>5, <2>1, NamesAre DEF Manage!NextHook, Manage!Leave
  <2> QED
    BY <2>6, <2>7, VisitStep
<1> QED
  BY <1>1, <1>2, <1>4, <1>5

LEMMA InstallVisits == ASSUME HookInv, VisitInv, NEW p \in Procs, Manage!Install(p) PROVE VisitInv'
<1>0. UNCHANGED <<list, hooks>> /\ Better
  BY SameIsBetter, Zenon DEF Manage!Install, Manage!WriteAside
<1>1. pr[p] \in Walker /\ pr[p].at = "install" /\ Visited(pr[p])
  BY IdleLooks DEF HookInv, VisitInv, Manage!Install
<1>2. CASE Manage!Content(p) = "current" /\ Manage!NextHook(p)
  BY <1>0, <1>1, <1>2, NextHookVisits DEF Manage!Content, Manage!Repo, Manage!Hook
<1>3. CASE Manage!Leave(p, TRUE)
  BY <1>0, <1>1, <1>3, FailedVisits, Zenon
<1>4. CASE Manage!Goto(p, [pr[p] EXCEPT !.at = "aside"])
  <2>1. PICK q : q = [pr[p] EXCEPT !.at = "aside"]
    BY Zenon
  <2>2. /\ q.page = pr[p].page /\ q.todo = pr[p].todo /\ q.count = pr[p].count /\ q.seen = pr[p].seen
        /\ q.failures = pr[p].failures /\ q.at = "aside" /\ q.i = pr[p].i
    BY <1>1, <2>1 DEF Walker
  <2>3. Visited(q)
    BY <1>1, <2>2, SameVisits
  <2> QED
    BY <1>0, <1>4, <2>1, <2>3, MoveStep
<1> QED
  BY <1>2, <1>3, <1>4, Zenon DEF Manage!Install

LEMMA RenameVisits == ASSUME HookInv, VisitInv, NEW p \in Procs, Manage!Rename(p) PROVE VisitInv'
<1>1. /\ pr[p] \in Walker /\ Head(pr[p].todo) \in Manage!Repos
      /\ hooks' = [hooks EXCEPT ![Head(pr[p].todo)][Manage!Names[pr[p].i]] = "current"]
  BY RenameImproves
<1>2. PICK r \in Manage!Repos : r = Head(pr[p].todo)
  BY <1>1
<1>3. PICK n \in HookNames : n = Manage!Names[pr[p].i]
  BY <1>1, NamesAre DEF Walker, HookNames
<1>4. hooks' = [hooks EXCEPT ![r][n] = "current"]
  BY <1>1, <1>2, <1>3
<1>5. Better /\ hooks'[r][n] = "current"
  <2>1. hooks \in HookSpace /\ UNCHANGED list
    BY DEF HookInv, Manage!Rename
  <2> QED
    BY <1>4, <2>1 DEF Better, HookSpace
<1> QED
  BY <1>2, <1>3, <1>5, NextHookVisits, Zenon DEF Manage!Rename

LEMMA CreateVisits == ASSUME HookInv, VisitInv, Manage!CreateRepository PROVE VisitInv'
<1>1. PICK r \in New : list' = Append(list, r) /\ hooks' = [hooks EXCEPT ![r] = [h \in Manage!Range(Manage!Names) |-> "current"]]
  BY Zenon DEF Manage!CreateRepository
<1>2. r \in Manage!Repos
  BY DEF Manage!Repos
<1>3. Better
  BY <1>1, <1>2, NamesAre DEF Better, HookInv, HookSpace
<1> SUFFICES ASSUME NEW x \in Procs PROVE Visited(pr[x])'
  BY DEF VisitInv
<1>4. PICK y : y = pr[x]
  OBVIOUS
<1>5. Visited(y)'
  BY <1>3, <1>4, VisitedStays DEF VisitInv, HookInv
<1>6. pr'[x] = y
  BY <1>4 DEF Manage!CreateRepository
<1> QED
  BY <1>5, <1>6, ZenonT(40) DEF Visited, Current

LEMMA VisitInvStep ==
    ASSUME HooksAssumption, ~Deletions, HookInv, VisitInv, [Manage!Next]_(Manage!vars)
    PROVE  VisitInv'
<1>1. CASE UNCHANGED Manage!vars
  <2>1. list' = list /\ hooks' = hooks /\ pr' = pr
    BY <1>1, Zenon DEF Manage!vars
  <2> QED
    BY <2>1, ZenonT(40) DEF VisitInv, Visited, Current
<1>2. ASSUME NEW p \in Procs, Manage!Step(p) PROVE VisitInv'
  BY <1>2, BeginVisits, PageVisits, CheckVisits, InstallVisits, RenameVisits DEF Manage!Step
<1> QED
  BY <1>1, <1>2, CreateVisits DEF Manage!Next, Manage!HardDeleteRepository

\* HandleInstallHooks of all, for any page size and any number of repositories, when
\* none is deleted meanwhile: a walk without a failure has left the hooks of this
\* build in every repository it counted (with deletions it skips rows).
THEOREM WalkIsComplete ==
    ASSUME HooksAssumption, ~Deletions
    PROVE  Manage!Spec => []Manage!WalkVisitsAll
<1>1. Manage!Init => VisitInv
  BY IdleLooks DEF Manage!Init, VisitInv, Visited, Walker
<1>2. ASSUME HookInv, VisitInv PROVE Manage!WalkVisitsAll
  <2> SUFFICES ASSUME NEW p \in Procs, pr[p].at = "done", ~pr[p].failures, NEW r \in pr[p].seen
               PROVE  hooks[r] = [h \in Manage!Range(Manage!Names) |-> "current"]
    BY DEF Manage!WalkVisitsAll
  <2>1. pr[p] \in Walker /\ Visited(pr[p])
    BY <1>2, IdleLooks DEF HookInv, VisitInv
  <2>2. PICK k \in 1..pr[p].count : list[k] = r
    BY <2>1 DEF Visited
  <2>3. pr[p].todo = <<>> /\ k <= pr[p].page * pageSize
    <3>1. pr[p].page * pageSize \in Nat /\ pr[p].count \in Nat
      BY <2>1 DEF Walker, HooksAssumption
    <3> QED
      BY <2>1, <3>1 DEF Visited
  <2>4. Current(r)
    BY <2>1, <2>2, <2>3 DEF Visited
  <2>5. r \in Manage!Repos
    BY <2>1 DEF Walker
  <2> QED
    BY <1>2, <2>4, <2>5, NamesAre DEF Current, HookInv, HookSpace
<1> QED
  BY <1>1, <1>2, HookInvInit, HookInvStep, VisitInvStep, PTL DEF Manage!Spec
====
