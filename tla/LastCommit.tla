---- MODULE LastCommit ----
(***************************************************************************)
(* The "last commit" listings of the web server: the in-memory LRU with    *)
(* its shared computations (src/pkg/gitlib/lastcommit.go) and the store on *)
(* disk below the repository (src/pkg/gitlib/lastcommit_store.go).  A key  *)
(* is a commit and a directory of one repository.  hist stands for the     *)
(* history behind the commits of the repository; a push does not change    *)
(* the history of a commit that exists.                                    *)
(***************************************************************************)
EXTENDS Naturals, Sequences, FiniteSets

CONSTANTS Procs,         \* goroutines of the server that want a listing
          Keys,
          FileOf,        \* lastCommitStorePath: two directories may hash alike
          Temps,         \* names os.CreateTemp hands out (bound on files left behind)
          Capacity,      \* lastCommitCacheCapacity
          StoreCapacity, \* lastCommitStoreCapacity
          PruneInterval  \* lastCommitStorePruneInterval

ASSUME FileAssumption == FileOf \in [Keys -> {FileOf[k] : k \in Keys}] /\ {FileOf[k] : k \in Keys} \cap Temps = {}
ASSUME KeysAssumption == Keys # {}
ASSUME CapacityAssumption == Capacity \in Nat

VARIABLES entries,   \* lastCommitCache.entries: key -> listing
          lru,       \* lastCommitCache.lru, most recent first
          inflight,  \* lastCommitCache.inflight: key -> the goroutine computing it
          disk,      \* file name -> contents
          age,       \* the file names in the order of their modification times
          writes,    \* lastCommitStoreWrites
          pc, key, res,
          ans,       \* what the last call of a goroutine returned, Failed until it does
          hist

vars == <<entries, lru, inflight, disk, age, writes, pc, key, res, ans, hist>>
mem == <<entries, lru, inflight>>
store == <<disk, age, writes>>

Elems(s) == {s[i] : i \in DOMAIN s}
Drop(s, x) == SelectSeq(s, LAMBDA y : y # x)

\* list.MoveToFront of the element of k.
MoveToFront(l, k) ==
    LET i == CHOOSE i \in DOMAIN l : l[i] = k
    IN [j \in DOMAIN l |-> IF j = 1 THEN k ELSE IF j <= i THEN l[j - 1] ELSE l[j]]

Listing(k) == [of |-> k, at |-> hist]
Failed == [of |-> "error", at |-> 0]

Init ==
    /\ entries = [k \in {} |-> Failed] /\ lru = <<>> /\ inflight = [k \in {} |-> Failed]
    /\ disk = [n \in {} |-> Failed] /\ age = <<>> /\ writes = 0
    /\ pc = [p \in Procs |-> "idle"] /\ key = [p \in Procs |-> CHOOSE k \in Keys : TRUE]
    /\ res = [p \in Procs |-> Failed] /\ ans = [p \in Procs |-> Failed] /\ hist = 0

Goto(p, l) == pc' = [pc EXCEPT ![p] = l]

\* Nobody has the listing or is computing it.
ColdUnshared(k) == k \notin DOMAIN entries
Cold(k) == k \notin DOMAIN entries /\ k \notin DOMAIN inflight

\* ResolveLastCommitAtDir up to the first Unlock, in one critical section.
Call(p, k) ==
    /\ pc[p] = "idle"
    /\ key' = [key EXCEPT ![p] = k]
    /\ \/ /\ k \in DOMAIN entries
          /\ lru' = MoveToFront(lru, k)
          /\ ans' = [ans EXCEPT ![p] = entries[k]]
          /\ UNCHANGED <<inflight, pc>>
       \/ /\ k \notin DOMAIN entries /\ k \in DOMAIN inflight
          /\ Goto(p, "wait") /\ ans' = [ans EXCEPT ![p] = Failed]
          /\ UNCHANGED <<lru, inflight>>
       \/ /\ Cold(k)
          /\ inflight' = [x \in DOMAIN inflight \cup {k} |-> IF x = k THEN p ELSE inflight[x]]
          /\ Goto(p, "load") /\ ans' = [ans EXCEPT ![p] = Failed]
          /\ UNCHANGED lru
    /\ UNCHANGED <<entries, store, res, hist>>

\* loadLastCommitFromDisk: a file that is missing, does not parse, or is of
\* another commit or directory is no hit.
UsableUnchecked(n, k) == n \in DOMAIN disk /\ disk[n].whole
Usable(n, k) == n \in DOMAIN disk /\ disk[n].whole /\ disk[n].key = k
Load(p) ==
    LET n == FileOf[key[p]]
    IN /\ pc[p] = "load"
       /\ \/ Usable(n, key[p]) /\ res' = [res EXCEPT ![p] = disk[n].v] /\ Goto(p, "finish")
          \/ ~Usable(n, key[p]) /\ Goto(p, "walk") /\ UNCHANGED res
       /\ UNCHANGED <<mem, store, key, ans, hist>>

WalkAgain(p) ==
    /\ pc[p] = "walk"
    /\ \/ res' = [res EXCEPT ![p] = Listing(key[p])] /\ Goto(p, "save")
       \/ UNCHANGED res /\ Goto(p, "load")
    /\ UNCHANGED <<mem, store, key, ans, hist>>

\* resolveLastCommitAtDir: git log may fail.
Walk(p) ==
    /\ pc[p] = "walk"
    /\ \/ res' = [res EXCEPT ![p] = Listing(key[p])] /\ Goto(p, "save")
       \/ res' = [res EXCEPT ![p] = Failed] /\ Goto(p, "finish")
    /\ UNCHANGED <<mem, store, key, ans, hist>>

\* os.CreateTemp: a name nobody has.
InPlaceName(p) == {FileOf[key[p]]}
TempName(p) == Temps \ DOMAIN disk

\* saveLastCommitToDisk: the directory or the file may not be writable.
CreateTemp(p) ==
    /\ pc[p] = "save"
    /\ \/ \E t \in TempName(p) :
             /\ disk' = [n \in DOMAIN disk \cup {t} |->
                            IF n = t THEN [key |-> key[p], v |-> res[p], whole |-> FALSE, by |-> p] ELSE disk[n]]
             /\ age' = Append(age, t)
             /\ Goto(p, "rename")
       \/ UNCHANGED <<disk, age>> /\ Goto(p, "finish")
    /\ UNCHANGED <<mem, writes, key, res, ans, hist>>

\* The write may still fail, and a pruning may have removed the file; either
\* way the temporary file is gone afterwards.
Rename(p) ==
    LET mine == {t \in Temps \cap DOMAIN disk : disk[t].by = p}
        n == FileOf[key[p]]
    IN /\ pc[p] = "rename"
       /\ \/ \E t \in mine :
                /\ disk' = [m \in (DOMAIN disk \ {t}) \cup {n} |->
                               IF m = n THEN [key |-> disk[t].key, v |-> disk[t].v, whole |-> TRUE, by |-> "none"] ELSE disk[m]]
                /\ age' = LET rest == Drop(age, n) IN [i \in DOMAIN rest |-> IF rest[i] = t THEN n ELSE rest[i]]
                /\ writes' = (writes + 1) % PruneInterval
                /\ Goto(p, IF (writes + 1) % PruneInterval = 0 THEN "prune" ELSE "finish")
          \/ /\ disk' = [m \in DOMAIN disk \ mine |-> disk[m]]
             /\ age' = SelectSeq(age, LAMBDA m : m \notin mine)
             /\ Goto(p, "finish")
             /\ UNCHANGED writes
       /\ UNCHANGED <<mem, key, res, ans, hist>>

\* pruneLastCommitStore: temporary files count, and go, like any other.
Prune(p) ==
    LET gone == IF Len(age) > StoreCapacity THEN Len(age) - StoreCapacity ELSE 0
    IN /\ pc[p] = "prune"
       /\ age' = SubSeq(age, gone + 1, Len(age))
       /\ disk' = [n \in DOMAIN disk \cap Elems(age') |-> disk[n]]
       /\ Goto(p, "finish")
       /\ UNCHANGED <<mem, writes, key, res, ans, hist>>

\* The loop that evicts from the back.
EvictLate(l) == SubSeq(l, 1, IF Len(l) > Capacity + 1 THEN Capacity + 1 ELSE Len(l))
Evict(l) == SubSeq(l, 1, IF Len(l) > Capacity THEN Capacity ELSE Len(l))

lastCommitCachePutLocked(k, v) ==
    /\ lru' = IF k \in DOMAIN entries THEN MoveToFront(lru, k) ELSE Evict(<<k>> \o lru)
    /\ entries' = [x \in (DOMAIN entries \cup {k}) \cap Elems(lru') |-> IF x = k THEN v ELSE entries[x]]

\* The second critical section, and close(call.done): everybody who waits for
\* this call gets its result.
Waiters(p) == {w \in Procs : pc[w] = "wait" /\ key[w] = key[p]}
LandedNever(p) == DOMAIN inflight
Landed(p) == DOMAIN inflight \ {key[p]}
Finish(p) ==
    /\ pc[p] = "finish"
    /\ inflight' = [k \in Landed(p) |-> inflight[k]]
    /\ IF res[p] = Failed THEN UNCHANGED <<entries, lru>> ELSE lastCommitCachePutLocked(key[p], res[p])
    /\ pc' = [q \in Procs |-> IF q = p \/ q \in Waiters(p) THEN "idle" ELSE pc[q]]
    /\ ans' = [q \in Procs |-> IF q = p \/ q \in Waiters(p) THEN res[p] ELSE ans[q]]
    /\ res' = [res EXCEPT ![p] = Failed]
    /\ UNCHANGED <<store, key, hist>>

\* ClearLastCommitCache; the calls in flight are left alone.
ClearLastCommitCache ==
    /\ entries # [k \in {} |-> Failed]
    /\ entries' = [k \in {} |-> Failed] /\ lru' = <<>>
    /\ UNCHANGED <<inflight, store, pc, key, res, ans, hist>>

\* The second half of ClearLastCommitStore.
RemoveStore ==
    /\ disk # [n \in {} |-> Failed]
    /\ disk' = [n \in {} |-> Failed] /\ age' = <<>>
    /\ UNCHANGED <<mem, writes, pc, key, res, ans, hist>>

\* The server is killed and started again: only the disk is left, with
\* temporary files nobody owns any more.
Restart ==
    /\ \E p \in Procs : pc[p] # "idle"
    /\ entries' = [k \in {} |-> Failed] /\ lru' = <<>> /\ inflight' = [k \in {} |-> Failed] /\ writes' = 0
    /\ disk' = [n \in DOMAIN disk |-> [key |-> disk[n].key, v |-> disk[n].v, whole |-> disk[n].whole, by |-> "none"]]
    /\ pc' = [p \in Procs |-> "idle"] /\ res' = [p \in Procs |-> Failed]
    /\ UNCHANGED <<age, key, ans, hist>>

Step(p) == Load(p) \/ Walk(p) \/ CreateTemp(p) \/ Rename(p) \/ Prune(p) \/ Finish(p)
Next ==
    \/ \E p \in Procs : Step(p) \/ \E k \in Keys : Call(p, k)
    \/ ClearLastCommitCache \/ RemoveStore \/ Restart

\* A goroutine that holds no lock keeps running.
Spec == Init /\ [][Next]_vars /\ \A p \in Procs : WF_vars(Step(p))

-----------------------------------------------------------------------------

\* The goroutines that are past the first critical section as the one that
\* computes.
Computing(p) == pc[p] \notin {"idle", "wait"}

\* A listing is what the history says of that commit and that directory, or
\* an error, whether it comes from memory, from a shared call or from disk,
\* across evictions, crashes and directories whose hashes collide ("a cached
\* entry can never go stale", lastcommit.go).
AnswerIsForCall == [][\A p \in Procs : ans'[p] # ans[p] => ans'[p] \in {Failed, Listing(key'[p])}]_vars

\* "concurrent callers of a cold entry share one computation"
\* (docs/last-commit-cache.org): no two goroutines compute one listing.
OneComputation == \A p, q \in Procs : Computing(p) /\ Computing(q) /\ key[p] = key[q] => p = q

\* "a reader never sees a half written one" (docs/last-commit-cache.org), not
\* even after a crash in the middle of a write.
NoHalfFile == \A n \in DOMAIN disk : n \notin Temps => disk[n].whole

\* The LRU list and the map hold the same keys, each once, and no more than
\* the capacity.
LruMatches ==
    /\ DOMAIN entries = Elems(lru) /\ Len(lru) = Cardinality(Elems(lru))
    /\ Len(lru) <= Capacity

\* Nobody waits for a call nobody is computing.
WaitersAreServed ==
    \A p \in Procs : pc[p] = "wait" => \E q \in Procs : Computing(q) /\ key[q] = key[p]

\* Every call returns, those that wait for another's included.
CallsReturn == \A p \in Procs : (pc[p] # "idle") ~> (pc[p] = "idle")
====
