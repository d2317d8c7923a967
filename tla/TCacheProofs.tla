---- MODULE TCacheProofs ----
(***************************************************************************)
(* What TCache.tla checks on a small instance, for any set of keys and     *)
(* values, any TTLs and any number of registrations.                       *)
(***************************************************************************)
EXTENDS TCache, FiniteSetTheorems, TLAPS

(* The variables always have their types: in particular no heap item ever
   carries the "no expiry" sentinel. *)
THEOREM TypeCorrect == Spec => []TypeOK
<1>1. Init => TypeOK
  <2> SUFFICES ASSUME Init PROVE TypeOK
    OBVIOUS
  <2>1. DOMAIN val = {} /\ val \in [DOMAIN val -> Entry]
    BY DEF Init
  <2> QED
    BY <2>1, Zenon DEF Init, TypeOK
<1>2. TypeOK /\ [Next]_vars => TypeOK'
  <2> SUFFICES ASSUME TypeOK, [Next]_vars PROVE TypeOK'
    OBVIOUS
  <2> USE DEF TypeOK, Entry, NoExpiry
  <2>1. ASSUME NEW k \in Keys, NEW v \in Values, NEW ttl \in TTLs, Register(k, v, ttl)
        PROVE TypeOK'
    <3> DEFINE e == [value |-> v, expiresAt |-> Deadline(ttl), seq |-> seq + 1]
    <3>1. e \in Entry
      BY TTLAssumption DEF Deadline
    <3>2. DOMAIN val' \subseteq Keys /\ val' \in [DOMAIN val' -> Entry]
      BY <2>1, <3>1 DEF Register
    <3>3. expiries' \subseteq [key : Keys, at : Nat, seq : Nat]
      BY <2>1, <3>1, TTLAssumption DEF Register, Push, Item, Deadline
    <3> QED
      BY <2>1, <3>2, <3>3 DEF Register, WakeLocked
  <2>2. ASSUME NEW k \in Keys, Delete(k) PROVE TypeOK'
    BY <2>2 DEF Delete, WakeLocked
  <2>3. CASE Sweep
    <3> PICK kept \in SUBSET expiries :
               /\ val' = [x \in DOMAIN val \ Dropped(kept) |-> val[x]]
               /\ expiries' = Compacted(kept, val')
      BY <2>3 DEF Sweep
    <3>1. DOMAIN val' \subseteq Keys /\ val' \in [DOMAIN val' -> Entry]
      OBVIOUS
    <3>2. expiries' \subseteq [key : Keys, at : Nat, seq : Nat]
      <4>1. Rebuilt(val') \subseteq [key : Keys, at : Nat, seq : Nat]
        BY <3>1 DEF Rebuilt, Item
      <4> QED
        BY <4>1, Zenon DEF Compacted
    <3>3. timerAt' \in Nat
      <4>1. CASE timerAt' = now + Hour
        BY <4>1, HourAssumption
      <4>2. CASE \E i \in expiries' : timerAt' = i.at
        BY <4>2, <3>2, Zenon
      <4> QED
        BY <2>3, <4>1, <4>2, Zenon DEF Sweep
    <3> QED
      BY <2>3, <3>1, <3>2, <3>3, Zenon DEF Sweep
  <2>4. CASE TimerFires
    BY <2>4 DEF TimerFires
  <2>5. CASE Woken
    BY <2>5, Zenon DEF Woken
  <2>6. CASE Tick
    BY <2>6 DEF Tick
  <2>7. CASE UNCHANGED vars
    BY <2>7 DEF vars
  <2> QED
    BY <2>1, <2>2, <2>3, <2>4, <2>5, <2>6, <2>7 DEF Next
<1> QED
  BY <1>1, <1>2, PTL DEF Spec

(* The heap keeps describing the map (HeapInv), whatever the callers do. *)
THEOREM HeapCorrect == Spec => []HeapInv
<1>1. Init => HeapInv
  BY DEF Init, HeapInv
<1>2. TypeOK /\ HeapInv /\ [Next]_vars => HeapInv'
  <2> SUFFICES ASSUME TypeOK, HeapInv, [Next]_vars PROVE HeapInv'
    OBVIOUS
  <2> USE DEF HeapInv, HasTTL, Item, Current, NoExpiry
  <2>1. ASSUME NEW k \in Keys, NEW v \in Values, NEW ttl \in TTLs, Register(k, v, ttl)
        PROVE HeapInv'
    <3> DEFINE e == [value |-> v, expiresAt |-> Deadline(ttl), seq |-> seq + 1]
    <3>1. /\ seq' = seq + 1 /\ seq \in Nat
          /\ val' = [x \in DOMAIN val \cup {k} |-> IF x = k THEN e ELSE val[x]]
          /\ expiries' = IF ttl = -1 THEN expiries ELSE expiries \cup {Item(k, e)}
          /\ e.expiresAt = NoExpiry <=> ttl = -1
      BY <2>1, TTLAssumption DEF Register, Push, TypeOK, Deadline
    <3>2. \A x \in DOMAIN val : val[x].seq \in Nat
      BY DEF TypeOK, Entry
    <3>3. \A i \in expiries : i.seq \in Nat
      BY DEF TypeOK
    <3>4. \A x \in DOMAIN val' : HasTTL(x)' => Item(x, val'[x]) \in expiries'
      BY <3>1
    <3>5. \A i \in expiries' : Current(i)' => val'[i.key].expiresAt = i.at
      BY <3>1, <3>2, <3>3
    <3>6. \A i \in expiries' : i.seq <= seq'
      BY <3>1, <3>3
    <3>7. \A x \in DOMAIN val' : val'[x].seq <= seq'
      BY <3>1, <3>2
    <3> HIDE DEF e
    <3> QED
      BY <3>4, <3>5, <3>6, <3>7
  <2>2. ASSUME NEW k \in Keys, Delete(k) PROVE HeapInv'
    BY <2>2 DEF Delete
  <2>3. CASE Sweep
    <3> PICK kept \in SUBSET expiries :
               /\ val' = [x \in DOMAIN val \ Dropped(kept) |-> val[x]]
               /\ expiries' = Compacted(kept, val')
      BY <2>3 DEF Sweep
    <3>1. expiries' = Rebuilt(val') \/ expiries' = kept
      BY DEF Compacted
    <3>2. \A x \in DOMAIN val' : HasTTL(x)' => Item(x, val'[x]) \in expiries'
      <4>1. CASE expiries' = Rebuilt(val')
        BY <4>1, Zenon DEF Rebuilt
      <4>2. CASE expiries' = kept
        BY <4>2 DEF Dropped
      <4> QED
        BY <3>1, <4>1, <4>2, Zenon
    <3>3. \A i \in Rebuilt(val') : Current(i)' => val'[i.key].expiresAt = i.at
      BY Zenon DEF Rebuilt
    <3>4. \A i \in Rebuilt(val') : i.seq <= seq
      BY Zenon DEF Rebuilt
    <3>5. seq' = seq
      BY <2>3 DEF Sweep
    <3> QED
      BY <3>1, <3>2, <3>3, <3>4, <3>5, Zenon
  <2>4. CASE TimerFires
    BY <2>4 DEF TimerFires
  <2>5. CASE Woken
    BY <2>5 DEF Woken
  <2>6. CASE Tick
    BY <2>6 DEF Tick
  <2>7. CASE UNCHANGED vars
    BY <2>7 DEF vars
  <2> QED
    BY <2>1, <2>2, <2>3, <2>4, <2>5, <2>6, <2>7 DEF Next
<1> QED
  BY <1>1, <1>2, TypeCorrect, PTL DEF Spec

(* The sweeper never sleeps past an expiry it was not told about. *)
THEOREM NeverOversleeps == Spec => []NoOversleep
<1>1. Init => NoOversleep
  BY DEF Init, NoOversleep
<1>2. TypeOK /\ HeapInv' /\ NoOversleep /\ [Next]_vars => NoOversleep'
  <2> SUFFICES ASSUME TypeOK, HeapInv', NoOversleep, [Next]_vars PROVE NoOversleep'
    OBVIOUS
  <2> USE DEF NoOversleep, HasTTL
  <2>1. ASSUME NEW k \in Keys, NEW v \in Values, NEW ttl \in TTLs, Register(k, v, ttl)
        PROVE NoOversleep'
    BY <2>1 DEF Register, WakeLocked
  <2>2. ASSUME NEW k \in Keys, Delete(k) PROVE NoOversleep'
    BY <2>2 DEF Delete, WakeLocked
  <2>3. CASE Sweep
    <3> SUFFICES ASSUME NEW k \in DOMAIN val', HasTTL(k)' PROVE timerAt' <= val'[k].expiresAt
      OBVIOUS
    <3>1. Item(k, val'[k]) \in expiries'
      BY DEF HeapInv
    <3> QED
      BY <2>3, <3>1 DEF Sweep, Item
  <2>4. CASE TimerFires
    BY <2>4 DEF TimerFires
  <2>5. CASE Woken
    BY <2>5 DEF Woken
  <2>6. CASE Tick
    BY <2>6 DEF Tick
  <2>7. CASE UNCHANGED vars
    BY <2>7 DEF vars
  <2> QED
    BY <2>1, <2>2, <2>3, <2>4, <2>5, <2>6, <2>7 DEF Next
<1> QED
  BY <1>1, <1>2, TypeCorrect, HeapCorrect, PTL DEF Spec

(* The map and the heap are finite: cardinalities mean something. *)
Finite == IsFiniteSet(DOMAIN val) /\ IsFiniteSet(expiries)

(* A heap that compactLocked has built has an item per entry at most. *)
LEMMA RebuiltIsSmall ==
  ASSUME NEW m, IsFiniteSet(DOMAIN m)
  PROVE  IsFiniteSet(Rebuilt(m)) /\ Cardinality(Rebuilt(m)) <= Cardinality(DOMAIN m)
<1> DEFINE S == {x \in DOMAIN m : m[x].expiresAt # NoExpiry}
           f == [k \in S |-> Item(k, m[k])]
<1>1. IsFiniteSet(S) /\ Cardinality(S) <= Cardinality(DOMAIN m)
  BY FS_Subset
<1>2. f \in Surjection(S, Rebuilt(m))
  BY DEF Surjection, Rebuilt
<1>3. IsFiniteSet(Rebuilt(m)) /\ Cardinality(Rebuilt(m)) <= Cardinality(S)
  <2> HIDE DEF S, f
  <2> QED
    BY <1>1, <1>2, FS_Surjection
<1>4. Cardinality(Rebuilt(m)) \in Nat /\ Cardinality(S) \in Nat /\ Cardinality(DOMAIN m) \in Nat
  BY <1>1, <1>3, FS_CardinalityType
<1> HIDE DEF S
<1> QED
  BY <1>1, <1>3, <1>4

(* What compactLocked leaves is finite and within the bound, whatever it
   found. *)
LEMMA CompactedIsBounded ==
  ASSUME NEW h, NEW m, IsFiniteSet(h), IsFiniteSet(DOMAIN m)
  PROVE  /\ IsFiniteSet(Compacted(h, m))
         /\ Cardinality(Compacted(h, m)) <= 2 * Cardinality(DOMAIN m) + CompactSlack
<1>1. /\ Cardinality(h) \in Nat /\ Cardinality(DOMAIN m) \in Nat
      /\ IsFiniteSet(Rebuilt(m)) /\ Cardinality(Rebuilt(m)) \in Nat
      /\ Cardinality(Rebuilt(m)) <= Cardinality(DOMAIN m)
  BY RebuiltIsSmall, FS_CardinalityType
<1> QED
  BY <1>1, SlackAssumption DEF Compacted

(* The heap stays bounded however often keys are registered anew: a change
   leaves a notification behind, and a pass of the sweeper compacts. *)
THEOREM HeapStaysBounded == Spec => []HeapBounded
<1> DEFINE Inv == Finite /\ HeapBounded
<1>1. Init => Inv
  BY FS_EmptySet DEF Init, Finite, HeapBounded
<1>2. Inv /\ [Next]_vars => Inv'
  <2> SUFFICES ASSUME Inv, [Next]_vars PROVE Inv'
    OBVIOUS
  <2> USE DEF Finite, HeapBounded
  <2>1. ASSUME NEW k \in Keys, NEW v \in Values, NEW ttl \in TTLs, Register(k, v, ttl)
        PROVE Inv'
    <3> PICK e : /\ DOMAIN val' = DOMAIN val \cup {k}
                 /\ expiries' = expiries \/ expiries' = expiries \cup {Item(k, e)}
      BY <2>1 DEF Register, Push
    <3>1. IsFiniteSet(DOMAIN val') /\ IsFiniteSet(expiries')
      BY FS_AddElement
    <3> QED
      BY <2>1, <3>1 DEF Register, WakeLocked
  <2>2. ASSUME NEW k \in Keys, Delete(k) PROVE Inv'
    <3>1. DOMAIN val' = DOMAIN val \ {k} /\ expiries' = expiries
      BY <2>2 DEF Delete
    <3> QED
      BY <2>2, <3>1, FS_RemoveElement DEF Delete, WakeLocked
  <2>3. CASE Sweep
    <3> PICK kept \in SUBSET expiries :
               /\ val' = [x \in DOMAIN val \ Dropped(kept) |-> val[x]]
               /\ expiries' = Compacted(kept, val')
      BY <2>3 DEF Sweep
    <3>1. DOMAIN val' = DOMAIN val \ Dropped(kept)
      OBVIOUS
    <3>2. IsFiniteSet(kept) /\ IsFiniteSet(DOMAIN val')
      BY <3>1, FS_Subset, FS_Difference
    <3> QED
      BY <3>2, CompactedIsBounded
  <2>4. CASE TimerFires
    BY <2>4 DEF TimerFires
  <2>5. CASE Woken
    BY <2>5 DEF Woken
  <2>6. CASE Tick
    BY <2>6 DEF Tick
  <2>7. CASE UNCHANGED vars
    BY <2>7 DEF vars
  <2> QED
    BY <2>1, <2>2, <2>3, <2>4, <2>5, <2>6, <2>7 DEF Next
<1> QED
  BY <1>1, <1>2, PTL DEF Spec

(* What Get answers, as the state of ExpiringMap. *)
Answers == [k \in Visible |-> [value |-> val[k].value, expiresAt |-> val[k].expiresAt]]

(* A step that leaves every visible entry as it was, makes none visible and
   takes no time is a stutter for a user of the cache. *)
LEMMA Invisible ==
  ASSUME Visible' = Visible, \A k \in Visible : val'[k] = val[k], now' = now,
         calls' = calls
  PROVE  <<Answers, now, calls>>' = <<Answers, now, calls>>
BY DEF Answers

(* The sweeper is invisible: it drops entries only once Get no longer answers
   for them. *)
LEMMA SweepInvisible ==
  ASSUME TypeOK, HeapInv, Sweep
  PROVE  Visible' = Visible /\ \A k \in Visible : val'[k] = val[k]
<1> PICK kept \in SUBSET expiries :
           /\ DropExpired(kept)
           /\ val' = [x \in DOMAIN val \ Dropped(kept) |-> val[x]]
  BY DEF Sweep
<1>1. now' = now
  BY DEF Sweep
<1>2. ASSUME NEW k \in Dropped(kept) PROVE k \notin Visible
  <2> PICK i \in expiries \ kept : Current(i) /\ k = i.key
    BY <1>2 DEF Dropped
  <2>1. i.at <= now /\ val[k].expiresAt = i.at
    BY DEF DropExpired, HeapInv
  <2> QED
    BY <2>1 DEF Visible, TypeOK, NoExpiry
<1> QED
  BY <1>1, <1>2 DEF Visible

(* The cache implements ExpiringMap: no interleaving of callers, sweeper and
   clock is visible through Get. *)
THEOREM Refinement == Spec => ImplementsMap
<1> USE DEF Map!NoExpiry, NoExpiry
<1>1. Init => Map!MapInit
  BY DEF Init, Map!MapInit, Visible
<1>2. TypeOK /\ HeapInv /\ [Next]_vars => [Map!MapNext]_<<Answers, now, calls>>
  <2> SUFFICES ASSUME TypeOK, HeapInv, [Next]_vars
               PROVE  Map!MapNext \/ UNCHANGED <<Answers, now, calls>>
    OBVIOUS
  <2>1. ASSUME NEW k \in Keys, NEW v \in Values, NEW ttl \in TTLs, Register(k, v, ttl)
        PROVE Map!MapRegister(k, v, ttl)
    <3> DEFINE e == [value |-> v, expiresAt |-> Deadline(ttl)]
               m == Map!With(Answers, k, e)
    <3>1. /\ now' = now /\ calls' = 1 - calls
          /\ DOMAIN val' = DOMAIN val \cup {k}
          /\ \A x \in DOMAIN val' : x # k => val'[x] = val[x]
          /\ val'[k].value = v /\ val'[k].expiresAt = Deadline(ttl)
      BY <2>1 DEF Register
    <3>2. /\ DOMAIN m = Visible \cup {k}
          /\ m[k] = e
          /\ \A x \in Visible : x # k => m[x] = Answers[x]
      BY DEF Map!With, Answers
    <3>3. Visible' = {x \in DOMAIN m : Map!Fresh(m[x], now)}
      BY <3>1, <3>2 DEF Visible, Map!Fresh, Answers
    <3>4. \A x \in Visible' : Answers'[x] = m[x]
      BY <3>1, <3>2, <3>3 DEF Answers, Visible
    <3>5. Answers' = Map!Unexpired(m, now)
      BY <3>3, <3>4 DEF Map!Unexpired, Answers
    <3>6. Map!ExpiresAt(ttl) = Deadline(ttl)
      BY DEF Map!ExpiresAt, Deadline
    <3> QED
      BY <3>1, <3>5, <3>6 DEF Map!MapRegister, Map!Called, Answers
  <2>2. ASSUME NEW k \in Keys, Delete(k) PROVE Map!MapDelete(k)
    BY <2>2 DEF Delete, Map!MapDelete, Map!Called, Map!Without, Visible
  <2>3. CASE Sweep
    BY <2>3, SweepInvisible, Invisible DEF Sweep
  <2>4. CASE TimerFires
    BY <2>4 DEF TimerFires, Answers, Visible
  <2>5. CASE Woken
    BY <2>5 DEF Woken, Answers, Visible
  <2>6. CASE Tick
    <3>1. now' = now + 1 /\ val' = val /\ calls' = calls /\ now \in Nat
      BY <2>6 DEF Tick, TypeOK
    <3>2. \A x \in DOMAIN val : val[x].expiresAt \in Nat \cup {-1}
      BY DEF TypeOK, Entry
    <3>3. Visible' = {x \in DOMAIN Answers : Map!Fresh(Answers[x], now + 1)}
      BY <3>1, <3>2 DEF Visible, Answers, Map!Fresh
    <3>4. Answers' = Map!Unexpired(Answers, now + 1)
      BY <3>1, <3>3 DEF Answers, Map!Unexpired
    <3> QED
      BY <3>1, <3>4 DEF Map!MapTick, Map!MapNext, Answers
  <2>7. CASE UNCHANGED vars
    BY <2>7 DEF vars, Answers, Visible
  <2> QED
    BY <2>1, <2>2, <2>3, <2>4, <2>5, <2>6, <2>7 DEF Next, Map!MapNext
<1> QED
  BY <1>1, <1>2, TypeCorrect, HeapCorrect, PTL DEF Spec, ImplementsMap, Map!MapSpec, Answers
====
