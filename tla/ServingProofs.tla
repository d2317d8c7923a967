---- MODULE ServingProofs ----
(***************************************************************************)
(* Proofs about what stands around the pages, for any number of processes, *)
(* addresses, users, repositories and clones: the rate limiter, and the    *)
(* visibility of the site with clones over HTTP and logins over SSH.       *)
(***************************************************************************)
EXTENDS RateLimit, Sequences, FiniteSetTheorems, TLAPS

-----------------------------------------------------------------------------
(* The rate limiter.  The entry a request has looked up is not dropped      *)
(* before the request has asked its bucket, because the request noted the  *)
(* time at most MaxHold late and stays for MaxHold at most.                *)

Callers ==
    {Idle} \cup [at : {"read", "insert"}, a : Addresses, now : Nat]
           \cup [at : {"take"}, a : Addresses, now : Nat, bucket : 1..MaxBuckets]

LimiterTypeOK ==
    /\ now \in Nat
    /\ DOMAIN limiter \subseteq Addresses /\ limiter \in [DOMAIN limiter -> 1..MaxBuckets]
    /\ lastSeen \in [DOMAIN limiter -> Nat]
    /\ buckets \in [1..MaxBuckets -> Int]
    /\ rq \in [Procs -> Callers]
    /\ allowed \in [Addresses -> Nat]

\* No request is held up for longer than MaxHold.
Prompt == \A p \in Procs : rq[p] # Idle => rq[p].now <= now /\ now <= rq[p].now + MaxHold

\* A request that is about to ask a bucket asks the one in the entry of its
\* address, which was heard of lately.
EntryStays ==
    \A p \in Procs : rq[p].at = "take" =>
        /\ rq[p].a \in DOMAIN limiter /\ limiter[rq[p].a] = rq[p].bucket
        /\ rq[p].now <= lastSeen[rq[p].a] + MaxHold

\* The entry of an address that got a request through at this time is the one
\* whose token was taken.
TokenIsGone ==
    \A a \in Addresses : allowed[a] > 0 =>
        /\ allowed[a] = 1 /\ a \in DOMAIN limiter
        /\ buckets[limiter[a]] = now /\ now <= lastSeen[a] + 2 * MaxHold

LimiterInv == LimiterTypeOK /\ Prompt /\ EntryStays /\ TokenIsGone

(* The values of a function on a finite set are finitely many, and no more
   than its arguments. *)
LEMMA FewValues ==
  ASSUME NEW S, IsFiniteSet(S), NEW f \in [S -> Nat]
  PROVE  IsFiniteSet({f[x] : x \in S}) /\ Cardinality({f[x] : x \in S}) <= Cardinality(S)
<1> DEFINE T == {f[x] : x \in S}
<1>1. f \in Surjection(S, T)
  BY DEF Surjection
<1> HIDE DEF T
<1>2. IsFiniteSet(T) /\ Cardinality(T) <= Cardinality(S)
  BY <1>1, FS_Surjection
<1> QED
  BY <1>2 DEF T

(* There are enough buckets: one for every entry and every request that holds
   one, and a request that needs a new one is neither. *)
LEMMA SomeFree ==
  ASSUME LimiterTypeOK, NEW p \in Procs, rq[p].at = "insert"
  PROVE  Free # {}
<1> DEFINE takers == {q \in Procs : rq[q].at = "take"}
           inEntries == {limiter[a] : a \in DOMAIN limiter}
           held == [q \in takers |-> rq[q].bucket]
           inHands == {held[q] : q \in takers}
<1>1. MaxBuckets = Cardinality(Procs) + Cardinality(Addresses) /\ MaxBuckets \in Nat
  BY FinitenessAssumption, FS_CardinalityType DEF MaxBuckets
<1>2. IsFiniteSet(DOMAIN limiter) /\ Cardinality(DOMAIN limiter) <= Cardinality(Addresses)
  BY FinitenessAssumption, FS_Subset DEF LimiterTypeOK
<1>3. IsFiniteSet(inEntries) /\ Cardinality(inEntries) <= Cardinality(DOMAIN limiter)
  <2>1. limiter \in [DOMAIN limiter -> Nat]
    BY <1>1 DEF LimiterTypeOK
  <2> QED
    BY <1>2, <2>1, FewValues
<1>4. IsFiniteSet(takers) /\ Cardinality(takers) < Cardinality(Procs)
  <2>1. takers \in SUBSET (Procs \ {p})
    OBVIOUS
  <2>2. IsFiniteSet(Procs \ {p}) /\ Cardinality(Procs \ {p}) = Cardinality(Procs) - 1
    BY FinitenessAssumption, FS_RemoveElement
  <2>3. IsFiniteSet(takers) /\ Cardinality(takers) <= Cardinality(Procs \ {p})
    BY <2>1, <2>2, FS_Subset
  <2>4. Cardinality(Procs) \in Nat /\ Cardinality(takers) \in Nat
    BY <2>3, FinitenessAssumption, FS_CardinalityType
  <2> QED
    BY <2>2, <2>3, <2>4
<1>5. IsFiniteSet(inHands) /\ Cardinality(inHands) <= Cardinality(takers)
  <2>1. \A q \in takers : rq[q] \in Callers /\ rq[q].at = "take"
    BY DEF LimiterTypeOK
  <2>2. \A q \in takers : rq[q].bucket \in 1..MaxBuckets
    BY <2>1 DEF Callers, Idle
  <2>3. held \in [takers -> Nat]
    BY <1>1, <2>2
  <2> HIDE DEF held, takers
  <2> QED
    BY <1>4, <2>3, FewValues
<1>6. Cardinality(inEntries \cup inHands) < MaxBuckets
  <2>1. /\ Cardinality(inEntries) \in Nat /\ Cardinality(inHands) \in Nat /\ Cardinality(takers) \in Nat
        /\ Cardinality(Procs) \in Nat /\ Cardinality(Addresses) \in Nat /\ Cardinality(DOMAIN limiter) \in Nat
    BY <1>2, <1>3, <1>4, <1>5, FinitenessAssumption, FS_CardinalityType
  <2>2. /\ Cardinality(inEntries \cup inHands) =
              Cardinality(inEntries) + Cardinality(inHands) - Cardinality(inEntries \cap inHands)
        /\ Cardinality(inEntries \cap inHands) \in Nat
    BY <1>3, <1>5, FS_Union, FS_Intersection, FS_CardinalityType, Zenon
  <2> HIDE DEF inEntries, inHands, takers
  <2> QED
    BY <1>1, <1>2, <1>3, <1>4, <1>5, <2>1, <2>2
<1>7. SUFFICES ASSUME Free = {} PROVE FALSE
  OBVIOUS
<1>8. 1..MaxBuckets \in SUBSET (inEntries \cup inHands)
  BY <1>7 DEF Free
<1>9. IsFiniteSet(inEntries \cup inHands)
  BY <1>3, <1>5, FS_Union, Zenon
<1>10. Cardinality(1..MaxBuckets) <= Cardinality(inEntries \cup inHands)
  BY <1>8, <1>9, FS_Subset, Zenon
<1>11. Cardinality(1..MaxBuckets) = MaxBuckets
  BY <1>1, FS_Interval
<1>12. Cardinality(inEntries \cup inHands) \in Nat
  BY <1>9, FS_CardinalityType
<1> HIDE DEF inEntries, inHands
<1> QED
  BY <1>1, <1>6, <1>10, <1>11, <1>12

(* The invariant holds at the start and is kept by every step. *)
LEMMA LimiterInvInit == Init => LimiterInv
<1> SUFFICES ASSUME Init PROVE LimiterInv
  OBVIOUS
<1>1. LimiterTypeOK
  BY DEF Init, LimiterTypeOK, Callers, Never
<1> QED
  BY <1>1 DEF Init, LimiterInv, Prompt, EntryStays, TokenIsGone, Idle

LEMMA AskStep ==
  ASSUME LimiterInv, NEW p \in Procs, Ask(p) PROVE LimiterInv'
<1> USE DEF LimiterInv
<1> PICK a \in Addresses : rq' = [rq EXCEPT ![p] = [at |-> "read", a |-> a, now |-> now]]
  BY Zenon DEF Ask
<1>1. UNCHANGED <<now, limiter, lastSeen, inserts, buckets, allowed>>
  BY DEF Ask
<1>2. LimiterTypeOK'
  BY <1>1 DEF LimiterTypeOK, Callers
<1>3. Prompt'
  BY <1>1, HoldAssumption DEF LimiterTypeOK, Prompt
<1>4. EntryStays'
  BY <1>1 DEF LimiterTypeOK, EntryStays
<1>5. TokenIsGone'
  BY <1>1 DEF TokenIsGone
<1> QED
  BY <1>2, <1>3, <1>4, <1>5

(* What a request is that looks for its entry, and one that has it. *)
LEMMA CallerFields ==
  ASSUME NEW r \in Callers
  PROVE  /\ r # Idle <=> r.at \in {"read", "insert", "take"}
         /\ r # Idle => r.a \in Addresses /\ r.now \in Nat
         /\ r.at = "take" => r.bucket \in 1..MaxBuckets
BY DEF Callers, Idle

(* A request that finds the entry of its address notes the time there and goes
   on with its bucket, on either path. *)
LEMMA EntryFound ==
  ASSUME LimiterInv, NEW p \in Procs, NEW a \in Addresses, a \in DOMAIN limiter, rq[p] # Idle,
         a = rq[p].a, UNCHANGED <<now, limiter, buckets, allowed>>,
         lastSeen' = [lastSeen EXCEPT ![a] = rq[p].now],
         rq' = [rq EXCEPT ![p] = [at |-> "take", a |-> a, now |-> rq[p].now, bucket |-> limiter[a]]]
  PROVE  LimiterInv'
<1> USE DEF LimiterInv
<1> DEFINE r == rq[p]
<1>1. r \in Callers /\ r.now \in Nat /\ r.now <= now /\ now <= r.now + MaxHold /\ now \in Nat
  BY CallerFields DEF LimiterTypeOK, Prompt
<1>2. LimiterTypeOK'
  BY <1>1 DEF LimiterTypeOK, Callers
<1>3. Prompt'
  BY <1>1 DEF LimiterTypeOK, Prompt
<1>4. EntryStays'
  <2> SUFFICES ASSUME NEW q \in Procs, rq'[q].at = "take"
               PROVE  /\ rq'[q].a \in DOMAIN limiter' /\ limiter'[rq'[q].a] = rq'[q].bucket
                      /\ rq'[q].now <= lastSeen'[rq'[q].a] + MaxHold
    BY DEF EntryStays
  <2>1. CASE q = p
    BY <1>1, <2>1, HoldAssumption DEF LimiterTypeOK
  <2>2. CASE q # p
    <3>1. rq'[q] = rq[q] /\ rq[q] \in Callers
      BY <2>2 DEF LimiterTypeOK
    <3>2. rq[q].now \in Nat /\ rq[q].now <= now
      BY <3>1, CallerFields DEF Prompt
    <3>3. /\ rq[q].a \in DOMAIN limiter /\ limiter[rq[q].a] = rq[q].bucket /\ rq[q].now <= lastSeen[rq[q].a] + MaxHold
          /\ UNCHANGED limiter
      BY <3>1 DEF EntryStays
    <3>4. rq[q].now <= lastSeen'[rq[q].a] + MaxHold
      <4>1. CASE rq[q].a = a
        BY <1>1, <3>2, <4>1, HoldAssumption DEF LimiterTypeOK
      <4>2. CASE rq[q].a # a
        BY <3>3, <4>2 DEF LimiterTypeOK
      <4> QED
        BY <4>1, <4>2
    <3> QED
      BY <3>1, <3>3, <3>4
  <2> QED
    BY <2>1, <2>2
<1>5. TokenIsGone'
  BY <1>1, HoldAssumption DEF LimiterTypeOK, TokenIsGone
<1> QED
  BY <1>2, <1>3, <1>4, <1>5

LEMMA FastPathStep ==
  ASSUME LimiterInv, NEW p \in Procs, FastPath(p) PROVE LimiterInv'
<1> USE DEF LimiterInv
<1> DEFINE r == rq[p]  a == r.a
<1>1. r.at = "read" /\ r \in Callers /\ r # Idle /\ a \in Addresses /\ r.now \in Nat
  BY CallerFields DEF FastPath, LimiterTypeOK, Idle
<1>2. UNCHANGED <<now, limiter, inserts, buckets, allowed>>
  BY DEF FastPath
<1>3. r.now <= now /\ now <= r.now + MaxHold
  BY <1>1 DEF Prompt
<1>4. CASE a \in DOMAIN limiter
  <2>1. /\ lastSeen' = [lastSeen EXCEPT ![a] = r.now]
        /\ rq' = [rq EXCEPT ![p] = [at |-> "take", a |-> a, now |-> r.now, bucket |-> limiter[a]]]
    BY <1>4 DEF FastPath, Seen
  <2> QED
    BY <1>1, <1>2, <1>4, <2>1, EntryFound, Zenon
<1>5. CASE a \notin DOMAIN limiter
  <2>1. rq' = [rq EXCEPT ![p] = [r EXCEPT !.at = "insert"]] /\ lastSeen' = lastSeen
    BY <1>5 DEF FastPath
  <2>2. [r EXCEPT !.at = "insert"] = [at |-> "insert", a |-> a, now |-> r.now]
    BY <1>1 DEF Callers, Idle
  <2>3. rq' = [rq EXCEPT ![p] = [at |-> "insert", a |-> a, now |-> r.now]]
    BY <2>1, <2>2, Zenon
  <2>4. LimiterTypeOK'
    <3>1. [at |-> "insert", a |-> a, now |-> r.now] \in Callers
      BY <1>1 DEF Callers
    <3> QED
      BY <1>2, <2>1, <2>3, <3>1, Zenon DEF LimiterTypeOK
  <2>5. Prompt'
    BY <1>2, <1>3, <2>3 DEF LimiterTypeOK, Prompt
  <2>6. EntryStays'
    BY <1>2, <2>1, <2>3 DEF LimiterTypeOK, EntryStays
  <2>7. TokenIsGone'
    BY <1>2, <2>1 DEF TokenIsGone
  <2> QED
    BY <2>4, <2>5, <2>6, <2>7
<1> QED
  BY <1>4, <1>5

(* The second look under the lock finds an entry, or makes one with a bucket
   nobody has; the sweep that may follow drops no entry in use. *)
LEMMA SlowPathStep ==
  ASSUME LimiterInv, NEW p \in Procs, SlowPath(p) PROVE LimiterInv'
<1> USE DEF LimiterInv
<1> DEFINE r == rq[p]  a == r.a
           seen == [x \in DOMAIN lastSeen \cup {a} |-> IF x = a THEN r.now ELSE lastSeen[x]]
<1>1. r.at = "insert" /\ r \in Callers /\ r # Idle /\ a \in Addresses /\ r.now \in Nat
  BY CallerFields DEF SlowPath, LimiterTypeOK, Idle
<1>2. now' = now /\ allowed' = allowed /\ now \in Nat
  BY DEF SlowPath, LimiterTypeOK
<1>3. r.now <= now /\ now <= r.now + MaxHold
  BY <1>1 DEF Prompt
<1>4. CASE a \in DOMAIN limiter
  <2>1. /\ lastSeen' = [lastSeen EXCEPT ![a] = r.now] /\ limiter' = limiter /\ buckets' = buckets
        /\ rq' = [rq EXCEPT ![p] = [at |-> "take", a |-> a, now |-> r.now, bucket |-> limiter[a]]]
    <3>1. /\ lastSeen' = seen /\ limiter' = limiter /\ buckets' = buckets
          /\ rq' = [rq EXCEPT ![p] = [at |-> "take", a |-> a, now |-> r.now, bucket |-> limiter[a]]]
      BY <1>4 DEF SlowPath, MadeMeanwhile
    <3>2. seen = [lastSeen EXCEPT ![a] = r.now]
      BY <1>4, Zenon DEF LimiterTypeOK
    <3> QED
      BY <3>1, <3>2
  <2> QED
    BY <1>1, <1>2, <1>4, <2>1, EntryFound, Zenon
<1>5. CASE a \notin DOMAIN limiter
  <2> DEFINE b == CHOOSE x \in Free : TRUE
  <2>1. b \in Free
    BY <1>1, SomeFree
  <2>2. b \in 1..MaxBuckets /\ \A x \in DOMAIN limiter : limiter[x] # b
    BY <2>1 DEF Free
  <2> HIDE DEF b
  <2>3. PICK kept \in {DOMAIN seen, Kept(seen, r.now)} :
          /\ lastSeen' = [x \in kept |-> seen[x]]
          /\ limiter' = [x \in kept |-> IF x = a THEN b ELSE limiter[x]]
          /\ buckets' = [buckets EXCEPT ![b] = Never]
          /\ rq' = [rq EXCEPT ![p] = [at |-> "take", a |-> a, now |-> r.now, bucket |-> b]]
    BY <1>5, Zenon DEF SlowPath, MadeMeanwhile, b
  <2>4. /\ DOMAIN seen = DOMAIN limiter \cup {a} /\ seen[a] = r.now
        /\ \A x \in DOMAIN limiter : seen[x] = lastSeen[x] /\ lastSeen[x] \in Nat /\ x # a
    BY <1>5 DEF LimiterTypeOK
  <2> HIDE DEF seen
  <2>5. a \in kept /\ kept \subseteq DOMAIN limiter \cup {a}
    BY <1>1, <2>4, HoldAssumption DEF Kept
  <2>6. ASSUME NEW x \in DOMAIN limiter, now <= lastSeen[x] + 2 * MaxHold PROVE x \in kept
    BY <1>1, <1>2, <1>3, <2>4, <2>6, HoldAssumption DEF Kept
  <2>7. LimiterTypeOK'
    BY <1>1, <1>2, <2>2, <2>3, <2>4, <2>5 DEF LimiterTypeOK, Callers, Never
  <2>8. Prompt'
    BY <1>2, <1>3, <2>3 DEF LimiterTypeOK, Prompt
  <2>9. EntryStays'
    <3> SUFFICES ASSUME NEW q \in Procs, rq'[q].at = "take"
                 PROVE  /\ rq'[q].a \in DOMAIN limiter' /\ limiter'[rq'[q].a] = rq'[q].bucket
                        /\ rq'[q].now <= lastSeen'[rq'[q].a] + MaxHold
      BY DEF EntryStays
    <3>1. CASE q = p
      BY <1>1, <2>3, <2>4, <2>5, <3>1, HoldAssumption DEF LimiterTypeOK
    <3>2. CASE q # p
      <4>1. rq'[q] = rq[q] /\ rq[q] \in Callers
        BY <2>3, <3>2 DEF LimiterTypeOK
      <4>2. rq[q].now \in Nat /\ now <= rq[q].now + MaxHold /\ rq[q].a \in DOMAIN limiter
        BY <4>1, CallerFields DEF Prompt, EntryStays
      <4>3. rq[q].a \in kept
        BY <1>2, <2>4, <2>6, <4>1, <4>2, HoldAssumption DEF EntryStays
      <4> QED
        BY <2>3, <2>4, <4>1, <4>2, <4>3 DEF EntryStays
    <3> QED
      BY <3>1, <3>2
  <2>10. TokenIsGone'
    <3> SUFFICES ASSUME NEW x \in Addresses, allowed[x] > 0
                 PROVE  /\ allowed[x] = 1 /\ x \in DOMAIN limiter'
                        /\ buckets'[limiter'[x]] = now /\ now <= lastSeen'[x] + 2 * MaxHold
      BY <1>2 DEF TokenIsGone
    <3>1. /\ allowed[x] = 1 /\ x \in DOMAIN limiter
          /\ buckets[limiter[x]] = now /\ now <= lastSeen[x] + 2 * MaxHold
      BY DEF TokenIsGone
    <3>2. x \in kept /\ x # a
      BY <2>4, <2>6, <3>1
    <3> QED
      BY <2>2, <2>3, <2>4, <3>1, <3>2 DEF LimiterTypeOK
  <2> QED
    BY <2>7, <2>8, <2>9, <2>10
<1> QED
  BY <1>4, <1>5

LEMMA AllowStep ==
  ASSUME LimiterInv, NEW p \in Procs, Allow(p) PROVE LimiterInv'
<1> USE DEF LimiterInv
<1> DEFINE r == rq[p]  a == r.a
<1>1. /\ r.at = "take" /\ r \in Callers /\ r # Idle /\ a \in Addresses
      /\ r.now \in Nat /\ r.bucket \in 1..MaxBuckets
  BY CallerFields DEF Allow, LimiterTypeOK, Idle
<1>2. UNCHANGED <<now, limiter, lastSeen, inserts>> /\ rq' = [rq EXCEPT ![p] = Idle] /\ now \in Nat
  BY DEF Allow, LimiterTypeOK
<1>3. \/ buckets' = buckets /\ allowed' = allowed
      \/ /\ buckets[r.bucket] < now
         /\ buckets' = [buckets EXCEPT ![r.bucket] = now]
         /\ allowed' = [allowed EXCEPT ![a] = @ + 1]
  BY DEF Allow
<1>4. LimiterTypeOK'
  <2>1. rq' \in [Procs -> Callers]
    BY <1>2 DEF LimiterTypeOK, Callers
  <2>2. buckets' \in [1..MaxBuckets -> Int] /\ allowed' \in [Addresses -> Nat]
    BY <1>1, <1>2, <1>3 DEF LimiterTypeOK
  <2> QED
    BY <1>2, <2>1, <2>2 DEF LimiterTypeOK
<1>5. Prompt'
  BY <1>2 DEF LimiterTypeOK, Prompt
<1>6. EntryStays'
  BY <1>2 DEF LimiterTypeOK, EntryStays, Idle
<1>7. TokenIsGone'
  <2>1. /\ a \in DOMAIN limiter /\ limiter[a] = r.bucket /\ r.now <= lastSeen[a] + MaxHold
        /\ now <= r.now + MaxHold
    BY <1>1 DEF EntryStays, Prompt
  <2>2. now <= lastSeen[a] + 2 * MaxHold
    BY <1>1, <1>2, <2>1, HoldAssumption DEF LimiterTypeOK
  <2>3. buckets[r.bucket] < now => allowed[a] = 0
    BY <1>1, <1>2, <2>1 DEF LimiterTypeOK, TokenIsGone
  <2> SUFFICES ASSUME NEW x \in Addresses, allowed'[x] > 0
               PROVE  /\ allowed'[x] = 1 /\ x \in DOMAIN limiter
                      /\ buckets'[limiter[x]] = now /\ now <= lastSeen[x] + 2 * MaxHold
    BY <1>2 DEF TokenIsGone
  <2>4. CASE buckets' = buckets /\ allowed' = allowed
    BY <2>4 DEF TokenIsGone
  <2>5. CASE /\ buckets[r.bucket] < now
             /\ buckets' = [buckets EXCEPT ![r.bucket] = now]
             /\ allowed' = [allowed EXCEPT ![a] = @ + 1]
    <3>1. CASE x = a
      BY <1>1, <2>1, <2>2, <2>3, <2>5, <3>1 DEF LimiterTypeOK
    <3>2. CASE x # a
      BY <1>1, <2>5, <3>2 DEF LimiterTypeOK, TokenIsGone
    <3> QED
      BY <3>1, <3>2
  <2> QED
    BY <1>3, <2>4, <2>5
<1> QED
  BY <1>4, <1>5, <1>6, <1>7

LEMMA TickStep ==
  ASSUME LimiterInv, Tick PROVE LimiterInv'
<1> USE DEF LimiterInv
<1>1. /\ now' = now + 1 /\ now \in Nat /\ UNCHANGED <<limiter, lastSeen, inserts, buckets, rq>>
      /\ allowed' = [a \in Addresses |-> 0]
  BY DEF Tick, LimiterTypeOK
<1>2. LimiterTypeOK'
  BY <1>1 DEF LimiterTypeOK
<1>3. Prompt'
  <2> SUFFICES ASSUME NEW p \in Procs, rq[p] # Idle
               PROVE  rq[p].now <= now + 1 /\ now + 1 <= rq[p].now + MaxHold
    BY <1>1 DEF Prompt
  <2>1. rq[p].now \in Nat /\ rq[p].now <= now /\ now - rq[p].now < MaxHold
    BY CallerFields DEF LimiterTypeOK, Prompt, Tick
  <2> QED
    BY <1>1, <2>1, HoldAssumption
<1>4. EntryStays'
  BY <1>1 DEF EntryStays
<1>5. TokenIsGone'
  BY <1>1 DEF TokenIsGone
<1> QED
  BY <1>2, <1>3, <1>4, <1>5

(* An address gets one request through per interval: the invariant says that
   whoever comes second meets the bucket whose token is gone. *)
THEOREM TokensAreExact == Spec => []OneTokenPerInterval
<1>1. LimiterInv /\ [Next]_vars => LimiterInv'
  <2> SUFFICES ASSUME LimiterInv, [Next]_vars PROVE LimiterInv'
    OBVIOUS
  <2>1. CASE UNCHANGED vars
    BY <2>1 DEF vars, LimiterInv, LimiterTypeOK, Prompt, EntryStays, TokenIsGone
  <2> QED
    BY <2>1, AskStep, FastPathStep, SlowPathStep, AllowStep, TickStep DEF Next
<1>2. LimiterInv => OneTokenPerInterval
  <2> SUFFICES ASSUME LimiterInv, NEW a \in Addresses PROVE allowed[a] <= 1
    BY DEF OneTokenPerInterval
  <2> QED
    BY DEF LimiterInv, LimiterTypeOK, TokenIsGone
<1> QED
  BY <1>1, <1>2, LimiterInvInit, PTL DEF Spec

-----------------------------------------------------------------------------
(* The site. *)

CONSTANTS Mode, Users, Admins, Guest, StartConfigs, Protocols, FullLists, Repos, Kinds, MaxConcurrentClone

VARIABLES cfg, file, slots

Site == INSTANCE Visibility

Modes == {"public", "private", "shutdown", "maintenance"}
AnnouncementSpace == [on : BOOLEAN, msg : BOOLEAN, start : Nat, end : Nat, mode : {"shutdown", "maintenance"}, restore : BOOLEAN]
ConfigSpace == [vis : Modes, full : SUBSET Users, ann : AnnouncementSpace]

\* A site with a user system, or a host: everybody who has full access is
\* somebody, and every list a form carries names somebody.
SiteAssumption ==
    /\ Mode \in {"forge", "host"} /\ IsFiniteSet(Procs)
    /\ Guest \notin Users /\ Admins \subseteq Users
    /\ FullLists \subseteq SUBSET Users /\ {} \notin FullLists
    /\ StartConfigs \subseteq ConfigSpace
    /\ MaxConcurrentClone \in Nat /\ MaxTime \in Nat \ {0}

Labels == {"idle", "gate", "denied", "serve", "sync", "head", "objects", "slot", "git", "ssh"}
PageSpace == [at : {"gate", "denied", "serve"}, kind : {"page", "lockdown"}, u : Users \cup {Guest}]
DumbSpace == [at : {"head", "objects"}, r : {r \in DOMAIN Repos : Site!PublicStatus(r)}]
SmartSpace == [at : {"slot", "git"}, body : BOOLEAN]

RequestTyped(r) ==
    /\ r.at \in Labels
    /\ r.at \in {"gate", "denied", "serve"} => r \in PageSpace
    /\ r.at \in {"head", "objects"} => r \in DumbSpace
    /\ r.at \in {"slot", "git"} => r \in SmartSpace

Running == {p \in Procs : rq[p].at = "git"}

SiteInv ==
    /\ now \in 1..MaxTime
    /\ cfg \in ConfigSpace
    /\ file # cfg => file = Site!Torn /\ \E p \in Procs : rq[p].at = "sync"
    /\ DOMAIN rq = Procs /\ \A p \in Procs : RequestTyped(rq[p])
    /\ slots = Cardinality(Running) /\ slots <= MaxConcurrentClone

LEMMA SiteInvInit == ASSUME SiteAssumption, Site!Init PROVE SiteInv
<1>1. Running = {}
  BY DEF Site!Init, Site!Idle, Running
<1>2. slots = Cardinality(Running)
  BY <1>1, FS_EmptySet DEF Site!Init
<1> QED
  BY <1>2 DEF SiteAssumption, Site!Init, Site!Idle, SiteInv, RequestTyped, Labels

\* The mode in effect is one of the four.
LEMMA EffectiveIsMode == ASSUME SiteInv PROVE Site!Effective \in Modes
BY DEF SiteInv, ConfigSpace, AnnouncementSpace, Modes, Site!Effective, Site!EffectiveGlobalVisibilityAt

\* A request goes on to r, and no slot changes hands.
LEMMA SiteStep ==
    ASSUME SiteInv, NEW p \in Procs, NEW r, Site!Goto(p, r), RequestTyped(r),
           rq[p].at \notin {"git", "sync"}, r.at # "git", UNCHANGED <<now, cfg, file, slots>>
    PROVE  SiteInv'
<1>1. DOMAIN rq' = Procs /\ \A q \in Procs : rq'[q] = IF q = p THEN r ELSE rq[q]
  BY DEF SiteInv, Site!Goto
<1>2. Running' = Running
  BY <1>1 DEF Running
<1>3. \A q \in Procs : RequestTyped(rq[q])'
  BY <1>1 DEF SiteInv, RequestTyped, PageSpace, DumbSpace, SmartSpace, Site!PublicStatus
<1>4. (file # cfg => file = Site!Torn /\ \E q \in Procs : rq[q].at = "sync")'
  BY <1>1 DEF SiteInv, Site!Torn
<1> QED
  BY <1>1, <1>2, <1>3, <1>4 DEF SiteInv

LEMMA IdleIsTyped == RequestTyped(Site!Idle) /\ Site!Idle.at = "idle"
BY DEF RequestTyped, Site!Idle, Labels

LEMMA PageSteps ==
    ASSUME SiteAssumption, SiteInv, NEW p \in Procs,
           Site!Arrive(p) \/ Site!ArriveAdmin(p) \/ Site!Gate(p) \/ Site!Denied(p) \/ Site!Serve(p)
    PROVE  SiteInv'
<1>1. ASSUME NEW r \in PageSpace, Site!Goto(p, r), rq[p].at \notin {"git", "sync"}, UNCHANGED <<now, cfg, file, slots>>
      PROVE  SiteInv'
  <2>1. RequestTyped(r) /\ r.at # "git"
    BY DEF RequestTyped, PageSpace, Labels
  <2> QED
    BY <1>1, <2>1, SiteStep
<1>2. CASE Site!Arrive(p) \/ Site!ArriveAdmin(p)
  <2>1. PICK r \in PageSpace : Site!Goto(p, r)
    BY <1>2, Zenon DEF Site!Arrive, Site!ArriveAdmin, PageSpace, SiteAssumption
  <2>2. rq[p].at \notin {"git", "sync"} /\ UNCHANGED <<now, cfg, file, slots>>
    BY <1>2 DEF Site!Arrive, Site!ArriveAdmin, Site!Ready
  <2> QED
    BY <1>1, <2>1, <2>2
<1>3. CASE Site!Gate(p)
  <2>1. PICK at \in {"serve", "denied"} : Site!Goto(p, [rq[p] EXCEPT !.at = at])
    BY <1>3 DEF Site!Gate
  <2>2. rq[p] \in PageSpace /\ UNCHANGED <<now, cfg, file, slots>>
    BY <1>3 DEF Site!Gate, SiteInv, RequestTyped
  <2>3. PICK r : r = [rq[p] EXCEPT !.at = at]
    BY Zenon
  <2>4. r \in PageSpace /\ rq[p].at \notin {"git", "sync"}
    BY <2>2, <2>3 DEF PageSpace
  <2> QED
    BY <1>1, <2>1, <2>2, <2>3, <2>4
<1>4. CASE Site!Denied(p)
  <2>1. rq[p] \in PageSpace /\ UNCHANGED <<now, cfg, file, slots>>
    BY <1>4 DEF Site!Denied, SiteInv, RequestTyped
  <2>2. PICK r : r = [rq[p] EXCEPT !.at = "serve"]
    BY Zenon
  <2>3. r \in PageSpace /\ rq[p].at \notin {"git", "sync"}
    BY <2>1, <2>2 DEF PageSpace
  <2>4. Site!Goto(p, Site!Idle) \/ Site!Goto(p, r)
    BY <1>4, <2>2 DEF Site!Denied
  <2> QED
    BY <1>1, <2>1, <2>3, <2>4, IdleIsTyped, SiteStep
<1>5. CASE Site!Serve(p)
  BY <1>5, IdleIsTyped, SiteStep DEF Site!Serve
<1> QED
  BY <1>2, <1>3, <1>4, <1>5

\* The form changes the configuration and opens the file; nobody else is in between.
LEMMA LockdownStep == ASSUME SiteAssumption, SiteInv, NEW p \in Procs, Site!Lockdown(p) PROVE SiteInv'
<1>1. cfg' \in ConfigSpace
  <2>1. \A f \in FullLists : Site!SplitNames(f) \in SUBSET Users
    BY DEF SiteAssumption, Site!SplitNames
  <2>2. \A a \in Site!Announcements : a \in AnnouncementSpace
    BY DEF Site!Announcements, AnnouncementSpace, SiteAssumption
  <2> QED
    BY <2>1, <2>2, Zenon DEF Site!Lockdown, SiteInv, ConfigSpace, Modes
<1>2. Site!Goto(p, [at |-> "sync"]) /\ file' = Site!Torn /\ UNCHANGED <<now, slots>> /\ rq[p].at = "serve"
  BY Zenon DEF Site!Lockdown
<1>3. DOMAIN rq' = Procs /\ \A q \in Procs : rq'[q] = IF q = p THEN [at |-> "sync"] ELSE rq[q]
  BY <1>2 DEF SiteInv, Site!Goto
<1>4. Running' = Running
  BY <1>2, <1>3 DEF Running
<1>5. \A q \in Procs : RequestTyped(rq[q])'
  BY <1>3 DEF SiteInv, RequestTyped, PageSpace, DumbSpace, SmartSpace, Site!PublicStatus, Labels
<1>6. (file # cfg => file = Site!Torn /\ \E q \in Procs : rq[q].at = "sync")'
  BY <1>2, <1>3 DEF Site!Torn
<1> QED
  BY <1>1, <1>2, <1>3, <1>4, <1>5, <1>6 DEF SiteInv

LEMMA SyncStep == ASSUME SiteInv, NEW p \in Procs, Site!Sync(p) PROVE SiteInv'
<1>1. Site!Goto(p, Site!Idle) /\ file' = cfg /\ UNCHANGED <<now, cfg, slots>> /\ rq[p].at = "sync"
  BY DEF Site!Sync, Site!Write
<1>2. DOMAIN rq' = Procs /\ \A q \in Procs : rq'[q] = IF q = p THEN Site!Idle ELSE rq[q]
  BY <1>1 DEF SiteInv, Site!Goto
<1>3. Running' = Running
  BY <1>1, <1>2, IdleIsTyped DEF Running
<1>4. \A q \in Procs : RequestTyped(rq[q])'
  BY <1>2, IdleIsTyped DEF SiteInv, RequestTyped, PageSpace, DumbSpace, SmartSpace, Site!PublicStatus
<1> QED
  BY <1>1, <1>2, <1>3, <1>4 DEF SiteInv

LEMMA DumbSteps ==
    ASSUME SiteAssumption, SiteInv, NEW p \in Procs, Site!InfoRefs(p) \/ Site!HeadFile(p) \/ Site!Objects(p)
    PROVE  SiteInv'
<1>1. UNCHANGED <<now, cfg, file, slots>>
  BY DEF Site!InfoRefs, Site!HeadFile, Site!Objects
<1>2. rq[p].at \notin {"git", "sync"}
  BY DEF Site!InfoRefs, Site!HeadFile, Site!Objects, Site!Ready
<1>3. ASSUME NEW r \in DumbSpace, Site!Goto(p, r) PROVE SiteInv'
  <2>1. RequestTyped(r) /\ r.at # "git"
    BY DEF RequestTyped, DumbSpace, Labels
  <2> QED
    BY <1>1, <1>2, <1>3, <2>1, SiteStep
<1>4. CASE Site!InfoRefs(p)
  <2>1. PICK r \in DOMAIN Repos : Site!InfoServed(r) /\ Site!Goto(p, [at |-> "head", r |-> r])
    BY <1>4 DEF Site!InfoRefs
  <2>2. [at |-> "head", r |-> r] \in DumbSpace
    BY <2>1 DEF DumbSpace, Site!InfoServed, SiteAssumption
  <2> QED
    BY <1>3, <2>1, <2>2
<1>5. CASE Site!HeadFile(p)
  <2>1. rq[p] \in DumbSpace
    BY <1>5 DEF Site!HeadFile, SiteInv, RequestTyped
  <2>2. PICK r : r = [rq[p] EXCEPT !.at = "objects"]
    BY Zenon
  <2>3. r \in DumbSpace /\ Site!HeadServed(rq[p].r)
    BY <2>1, <2>2 DEF DumbSpace, Site!HeadServed
  <2>4. Site!Goto(p, Site!Idle) \/ Site!Goto(p, r)
    BY <1>5, <2>2, <2>3 DEF Site!HeadFile
  <2> QED
    BY <1>1, <1>2, <1>3, <2>3, <2>4, IdleIsTyped, SiteStep
<1>6. CASE Site!Objects(p)
  <2>1. rq[p] \in DumbSpace
    BY <1>6 DEF Site!Objects, SiteInv, RequestTyped
  <2>2. Site!ObjectServed(rq[p].r)
    BY <2>1 DEF DumbSpace, Site!ObjectServed
  <2> QED
    BY <1>1, <1>2, <1>6, <2>2, IdleIsTyped, SiteStep DEF Site!Objects
<1> QED
  BY <1>4, <1>5, <1>6

\* A request gets a slot, gives one back, or keeps what it has.
LEMMA SlotStep ==
    ASSUME SiteAssumption, SiteInv, NEW p \in Procs, NEW r, Site!Goto(p, r), RequestTyped(r), rq[p].at \in {"slot", "git"},
           UNCHANGED <<now, cfg, file>>, slots' <= MaxConcurrentClone,
           slots' = slots + (IF r.at = "git" THEN 1 ELSE 0) - (IF rq[p].at = "git" THEN 1 ELSE 0)
    PROVE  SiteInv'
<1>1. DOMAIN rq' = Procs /\ \A q \in Procs : rq'[q] = IF q = p THEN r ELSE rq[q]
  BY DEF SiteInv, Site!Goto
<1>2. \A q \in Procs : RequestTyped(rq[q])'
  BY <1>1 DEF SiteInv, RequestTyped, PageSpace, DumbSpace, SmartSpace, Site!PublicStatus
<1>3. (file # cfg => file = Site!Torn /\ \E q \in Procs : rq[q].at = "sync")'
  BY <1>1 DEF SiteInv, Site!Torn
<1>4. IsFiniteSet(Running)
  BY FS_Subset DEF Running, SiteAssumption
<1>5. slots = Cardinality(Running) /\ slots \in Nat
  BY <1>4, FS_CardinalityType DEF SiteInv
<1>6. slots' = Cardinality(Running)'
  <2>1. CASE r.at = "git" /\ rq[p].at = "git"
    <3>1. Running' = Running
      BY <1>1, <2>1 DEF Running
    <3> QED
      BY <1>5, <2>1, <3>1
  <2>2. CASE r.at = "git" /\ rq[p].at # "git"
    <3>1. Running' = Running \cup {p} /\ p \notin Running
      BY <1>1, <2>2 DEF Running
    <3>2. Cardinality(Running \cup {p}) = Cardinality(Running) + 1
      BY <1>4, <3>1, FS_AddElement, Zenon
    <3> QED
      BY <1>5, <2>2, <3>1, <3>2
  <2>3. CASE r.at # "git" /\ rq[p].at = "git"
    <3>1. Running' = Running \ {p} /\ p \in Running
      BY <1>1, <2>3 DEF Running
    <3>2. Cardinality(Running \ {p}) = Cardinality(Running) - 1
      BY <1>4, <3>1, FS_RemoveElement, Zenon
    <3> QED
      BY <1>5, <2>3, <3>1, <3>2
  <2>4. CASE r.at # "git" /\ rq[p].at # "git"
    <3>1. Running' = Running
      BY <1>1, <2>4 DEF Running
    <3> QED
      BY <1>5, <2>4, <3>1
  <2> QED
    BY <2>1, <2>2, <2>3, <2>4
<1> QED
  BY <1>1, <1>2, <1>3, <1>6 DEF SiteInv

LEMMA SmartSteps ==
    ASSUME SiteAssumption, SiteInv, NEW p \in Procs,
           Site!SmartClone(p) \/ Site!TryAcquire(p) \/ Site!ReadBody(p) \/ Site!UploadPack(p)
    PROVE  SiteInv'
<1>1. slots \in Int /\ MaxConcurrentClone \in Nat /\ slots <= MaxConcurrentClone
  BY FS_Subset, FS_CardinalityType DEF SiteInv, SiteAssumption, Running
<1>2. \A r \in SmartSpace : RequestTyped(r)
  BY DEF SmartSpace, RequestTyped, Labels
<1>3. CASE Site!SmartClone(p)
  <2>1. PICK body \in BOOLEAN : Site!Goto(p, [at |-> "slot", body |-> body])
    BY <1>3, Zenon DEF Site!SmartClone
  <2>2. PICK r : r = [at |-> "slot", body |-> body]
    BY Zenon
  <2>3. r \in SmartSpace /\ r.at = "slot"
    BY <2>2 DEF SmartSpace
  <2>4. rq[p].at \notin {"git", "sync"} /\ UNCHANGED <<now, cfg, file, slots>>
    BY <1>3 DEF Site!SmartClone, Site!Ready
  <2> QED
    BY <1>2, <2>1, <2>2, <2>3, <2>4, SiteStep
<1>4. CASE Site!TryAcquire(p)
  <2>1. rq[p] \in SmartSpace /\ rq[p].at = "slot" /\ UNCHANGED <<now, cfg, file>>
    BY <1>4 DEF Site!TryAcquire, SiteInv, RequestTyped
  <2>2. PICK r : r = [rq[p] EXCEPT !.at = "git"]
    BY Zenon
  <2>3. r \in SmartSpace /\ r.at = "git"
    BY <2>1, <2>2 DEF SmartSpace
  <2>4. CASE slots < MaxConcurrentClone /\ slots' = slots + 1 /\ Site!Goto(p, r)
    BY <1>1, <1>2, <2>1, <2>3, <2>4, SlotStep
  <2>5. CASE Site!Goto(p, Site!Idle) /\ UNCHANGED slots
    BY <1>1, <2>1, <2>5, IdleIsTyped, SlotStep
  <2> QED
    BY <1>4, <2>2, <2>4, <2>5 DEF Site!TryAcquire
<1>5. CASE Site!ReadBody(p) \/ Site!UploadPack(p)
  <2>1. rq[p] \in SmartSpace /\ rq[p].at = "git" /\ UNCHANGED <<now, cfg, file>>
    BY <1>5 DEF Site!ReadBody, Site!UploadPack, SiteInv, RequestTyped
  <2>2. PICK r : r = [rq[p] EXCEPT !.body = TRUE]
    BY Zenon
  <2>3. r \in SmartSpace /\ r.at = "git"
    BY <2>1, <2>2, Zenon DEF SmartSpace
  <2>4. CASE Site!Goto(p, r) /\ UNCHANGED slots
    BY <1>1, <1>2, <2>1, <2>3, <2>4, SlotStep
  <2>5. CASE Site!Goto(p, Site!Idle) /\ slots' = slots - 1
    BY <1>1, <2>1, <2>5, IdleIsTyped, SlotStep
  <2> QED
    BY <1>5, <2>2, <2>4, <2>5 DEF Site!ReadBody, Site!UploadPack, Site!ReleaseEarly, Site!Release
<1> QED
  BY <1>3, <1>4, <1>5

LEMMA LoginSteps == ASSUME SiteInv, NEW p \in Procs, Site!SSHHost(p) \/ Site!SSHForge(p) PROVE SiteInv'
<1>1. PICK vis, outcome, due : Site!Goto(p, [at |-> "ssh", vis |-> vis, outcome |-> outcome, due |-> due])
  BY Zenon DEF Site!SSHHost, Site!SSHForge, Site!Answered
<1>2. PICK r : r = [at |-> "ssh", vis |-> vis, outcome |-> outcome, due |-> due]
  BY Zenon
<1>3. RequestTyped(r) /\ r.at = "ssh"
  BY <1>2 DEF RequestTyped, Labels
<1>4. rq[p].at \notin {"git", "sync"} /\ UNCHANGED <<now, cfg, file, slots>>
  BY DEF Site!SSHHost, Site!SSHForge, Site!Ready
<1> QED
  BY <1>1, <1>2, <1>3, <1>4, SiteStep

LEMMA SiteInvStep == ASSUME SiteAssumption, SiteInv, [Site!NextWithSSH]_(Site!vars) PROVE SiteInv'
<1>1. CASE UNCHANGED <<cfg, file, slots, rq>> /\ now' \in 1..MaxTime
  BY <1>1 DEF SiteInv, Running, RequestTyped, PageSpace, DumbSpace, SmartSpace, Site!Torn, Site!PublicStatus
<1>2. CASE Site!Tick \/ UNCHANGED Site!vars
  BY <1>1, <1>2 DEF Site!Tick, Site!vars, SiteInv, SiteAssumption
<1>3. ASSUME NEW p \in Procs, Site!Step(p) PROVE SiteInv'
  BY <1>3, PageSteps, LockdownStep, SyncStep, DumbSteps, SmartSteps DEF Site!Step
<1> QED
  BY <1>2, <1>3, LoginSteps DEF Site!NextWithSSH, Site!Next

\* The instance counts as this module does.
LEMMA SameCardinality == ASSUME NEW S PROVE Site!Cardinality(S) = Cardinality(S)
BY Zenon DEF Site!Cardinality, Cardinality

\* Slots of clone_limiter.go are never lost nor exceeded; a repository whose info/refs
\* http-clone.go serves has its HEAD and its objects served; the banner of
\* ShouldShowMaintenanceAnnouncementAt is up only before the change; and but for the
\* moment a form is being written, the configuration file is the configuration.
THEOREM SiteIsKept ==
    ASSUME SiteAssumption
    PROVE  Site!SpecWithSSH =>
             [](Site!TypeOK /\ Site!SlotsAreReturned /\ Site!DumbCloneComplete /\ Site!BannerComesBefore)
<1>1. Site!Init => SiteInv
  BY SiteInvInit
<1>2. SiteInv /\ [Site!NextWithSSH]_(Site!vars) => SiteInv'
  BY SiteInvStep
<1>3. SiteInv => Site!TypeOK /\ Site!SlotsAreReturned /\ Site!DumbCloneComplete /\ Site!BannerComesBefore
  <2> SUFFICES ASSUME SiteInv
               PROVE  Site!TypeOK /\ Site!SlotsAreReturned /\ Site!DumbCloneComplete /\ Site!BannerComesBefore
    OBVIOUS
  <2>1. Site!SlotsAreReturned
    BY SameCardinality DEF SiteInv, Site!SlotsAreReturned, Running
  <2>2. slots \in Nat
    BY FS_Subset, FS_CardinalityType DEF SiteInv, SiteAssumption, Running
  <2>3. Site!TypeOK
    BY <2>2 DEF SiteInv, SiteAssumption, Site!TypeOK, ConfigSpace, Modes
  <2>4. Site!DumbCloneComplete
    BY DEF SiteInv, RequestTyped, Labels, Site!DumbCloneComplete
  <2>5. Site!BannerComesBefore
    BY DEF Site!BannerComesBefore, Site!ShouldShowMaintenanceAnnouncementAt, Site!Effective, Site!EffectiveGlobalVisibilityAt
  <2> QED
    BY <2>1, <2>3, <2>4, <2>5
<1> QED
  BY <1>1, <1>2, <1>3, PTL DEF Site!SpecWithSSH

\* CheckGlobalVisibleToUser and the switch of the GlobalVisibility middleware let
\* nobody through whom the mode in effect at that step keeps out.
LEMMA ServedStep == ASSUME SiteAssumption, SiteInv, [Site!NextWithSSH]_(Site!vars) PROVE Site!Served
<1> SUFFICES ASSUME NEW p \in Procs, rq[p].at # "serve", rq'[p].at = "serve" PROVE Site!MayPass(rq[p].u)
  BY DEF Site!Served
<1>1. ASSUME NEW q \in Procs, NEW r, Site!Goto(q, r) PROVE p = q /\ r.at = "serve"
  BY <1>1 DEF SiteInv, Site!Goto
<1>2. CASE Site!Gate(p)
  <2>1. PICK x : x = [rq[p] EXCEPT !.at = IF Site!CheckGlobalVisibleToUser(rq[p].u) THEN "serve" ELSE "denied"]
    BY Zenon
  <2>2. rq[p] \in PageSpace /\ Site!Goto(p, x)
    BY <1>2, <2>1 DEF Site!Gate, SiteInv, RequestTyped
  <2>3. x.at = "serve" /\ x.at = IF Site!CheckGlobalVisibleToUser(rq[p].u) THEN "serve" ELSE "denied"
    BY <1>1, <2>1, <2>2 DEF PageSpace
  <2>4. Site!CheckGlobalVisibleToUser(rq[p].u)
    BY <2>3
  <2>5. Guest \notin cfg.full
    BY DEF SiteInv, ConfigSpace, SiteAssumption
  <2> QED
    BY <2>4, <2>5 DEF Site!CheckGlobalVisibleToUser, Site!MayPass, Site!FullAccess, SiteAssumption
<1>3. CASE Site!Denied(p)
  <2>1. Site!Effective \in Modes
    BY EffectiveIsMode
  <2>2. Site!Effective \notin {"maintenance", "shutdown", "private"}
    BY <1>1, <1>3, IdleIsTyped DEF Site!Denied
  <2> QED
    BY <2>1, <2>2 DEF Modes, Site!MayPass
<1>4. ~UNCHANGED rq
  OBVIOUS
<1>5. ~(Site!Tick \/ UNCHANGED Site!vars)
  BY <1>4 DEF Site!Tick, Site!vars
<1>6. ASSUME NEW q \in Procs, Site!Arrive(q) \/ Site!ArriveAdmin(q) \/ Site!Serve(q) \/ Site!Lockdown(q) \/ Site!Sync(q)
      PROVE  FALSE
  <2>1. CASE Site!Arrive(q)
    BY <1>1, <2>1 DEF Site!Arrive
  <2>2. CASE Site!ArriveAdmin(q)
    BY <1>1, <2>2 DEF Site!ArriveAdmin
  <2>3. CASE Site!Lockdown(q)
    BY <1>1, <2>3, Zenon DEF Site!Lockdown
  <2>4. CASE Site!Serve(q) \/ Site!Sync(q)
    BY <1>1, <2>4, IdleIsTyped DEF Site!Serve, Site!Sync
  <2> QED
    BY <1>6, <2>1, <2>2, <2>3, <2>4
<1>7. ASSUME NEW q \in Procs, Site!InfoRefs(q) \/ Site!HeadFile(q) \/ Site!Objects(q) PROVE FALSE
  <2>1. CASE Site!InfoRefs(q)
    BY <1>1, <2>1 DEF Site!InfoRefs
  <2>2. CASE Site!HeadFile(q) \/ Site!Objects(q)
    <3>1. rq[q] \in DumbSpace
      BY <2>2 DEF Site!HeadFile, Site!Objects, SiteInv, RequestTyped
    <3>2. PICK at \in {"objects", "broken"} : Site!Goto(q, Site!Idle) \/ Site!Goto(q, [rq[q] EXCEPT !.at = at])
      BY <2>2 DEF Site!HeadFile, Site!Objects
    <3>3. PICK r : r = [rq[q] EXCEPT !.at = at]
      BY Zenon
    <3>4. r.at = at
      BY <3>1, <3>3 DEF DumbSpace
    <3> QED
      BY <1>1, <3>2, <3>3, <3>4, IdleIsTyped, Zenon
  <2> QED
    BY <1>7, <2>1, <2>2
<1>8. ASSUME NEW q \in Procs, Site!SmartClone(q) \/ Site!TryAcquire(q) \/ Site!ReadBody(q) \/ Site!UploadPack(q) PROVE FALSE
  <2>1. CASE Site!SmartClone(q)
    BY <1>1, <2>1 DEF Site!SmartClone
  <2>2. CASE Site!TryAcquire(q) \/ Site!ReadBody(q) \/ Site!UploadPack(q)
    <3>1. rq[q] \in SmartSpace
      BY <2>2 DEF Site!TryAcquire, Site!ReadBody, Site!UploadPack, SiteInv, RequestTyped
    <3>2. PICK a, b : a = [rq[q] EXCEPT !.at = "git"] /\ b = [rq[q] EXCEPT !.body = TRUE]
      BY Zenon
    <3>3. a.at = "git" /\ b.at \in {"slot", "git"}
      BY <3>1, <3>2 DEF SmartSpace
    <3>4. Site!Goto(q, Site!Idle) \/ Site!Goto(q, a) \/ Site!Goto(q, b)
      BY <2>2, <3>2 DEF Site!TryAcquire, Site!ReadBody, Site!UploadPack
    <3> QED
      BY <1>1, <3>3, <3>4, IdleIsTyped
  <2> QED
    BY <1>8, <2>1, <2>2
<1>9. ASSUME NEW q \in Procs, Site!SSHHost(q) \/ Site!SSHForge(q) PROVE FALSE
  <2>1. PICK vis, outcome, due : Site!Goto(q, [at |-> "ssh", vis |-> vis, outcome |-> outcome, due |-> due])
    BY <1>9, Zenon DEF Site!SSHHost, Site!SSHForge, Site!Answered
  <2> QED
    BY <1>1, <2>1
<1>10. ASSUME NEW q \in Procs, Site!Gate(q) \/ Site!Denied(q) PROVE q = p
  <2>1. PICK r : Site!Goto(q, r)
    BY <1>10 DEF Site!Gate, Site!Denied
  <2> QED
    BY <1>1, <2>1
<1> QED
  BY <1>2, <1>3, <1>5, <1>6, <1>7, <1>8, <1>9, <1>10 DEF Site!NextWithSSH, Site!Next, Site!Step

\* `gitus ssh` finds the mode the server is in, whenever it finds a file.
LEMMA LoginSees == ASSUME SiteAssumption, SiteInv, [Site!NextWithSSH]_(Site!vars) PROVE Site!SeesMode
<1> SUFFICES ASSUME NEW p \in Procs, rq'[p] # rq[p], rq'[p].at = "ssh" PROVE rq'[p].vis = Site!Effective
  BY DEF Site!SeesMode
<1>1. CASE Site!SSHHost(p) \/ Site!SSHForge(p)
  <2>1. file = cfg
    BY <1>1 DEF Site!SSHHost, Site!SSHForge, SiteInv
  <2>2. PICK outcome, due : Site!Goto(p, [at |-> "ssh", vis |-> Site!LoadedMode, outcome |-> outcome, due |-> due])
    BY <1>1, Zenon DEF Site!SSHHost, Site!SSHForge, Site!Answered
  <2>3. rq'[p].vis = Site!LoadedMode
    BY <2>2 DEF Site!Goto, SiteInv
  <2> QED
    BY <2>1, <2>3 DEF Site!LoadedMode, Site!Effective
<1>2. ASSUME NEW q \in Procs, NEW r, Site!Goto(q, r) PROVE p = q /\ r.at = "ssh"
  BY <1>2 DEF SiteInv, Site!Goto
<1>3. ~(Site!Tick \/ UNCHANGED Site!vars)
  BY DEF Site!Tick, Site!vars
<1>4. ASSUME NEW q \in Procs, Site!SSHHost(q) \/ Site!SSHForge(q) PROVE q = p
  <2>1. PICK r : Site!Goto(q, r)
    BY <1>4, Zenon DEF Site!SSHHost, Site!SSHForge, Site!Answered
  <2> QED
    BY <1>2, <2>1
<1>5. ASSUME NEW q \in Procs, Site!Step(q) PROVE FALSE
  <2>1. ASSUME NEW r, Site!Goto(q, r), r.at # "ssh" PROVE FALSE
    BY <1>2, <2>1
  <2>2. RequestTyped(rq[q])
    BY DEF SiteInv
  <2>3. CASE rq[q].at \in {"gate", "denied"} /\ (Site!Gate(q) \/ Site!Denied(q))
    <3>1. PICK a, b : a = [rq[q] EXCEPT !.at = "serve"] /\ b = [rq[q] EXCEPT !.at = "denied"]
      BY Zenon
    <3>2. a.at = "serve" /\ b.at = "denied"
      BY <2>2, <2>3, <3>1 DEF RequestTyped, PageSpace
    <3>3. Site!Goto(q, Site!Idle) \/ Site!Goto(q, a) \/ Site!Goto(q, b)
      BY <2>3, <3>1 DEF Site!Gate, Site!Denied
    <3> QED
      BY <2>1, <3>2, <3>3, IdleIsTyped
  <2>4. CASE rq[q].at \in {"head", "objects"} /\ (Site!HeadFile(q) \/ Site!Objects(q))
    <3>1. PICK a, b : a = [rq[q] EXCEPT !.at = "objects"] /\ b = [rq[q] EXCEPT !.at = "broken"]
      BY Zenon
    <3>2. a.at = "objects" /\ b.at = "broken"
      BY <2>2, <2>4, <3>1 DEF RequestTyped, DumbSpace
    <3>3. Site!Goto(q, Site!Idle) \/ Site!Goto(q, a) \/ Site!Goto(q, b)
      BY <2>4, <3>1 DEF Site!HeadFile, Site!Objects
    <3> QED
      BY <2>1, <3>2, <3>3, IdleIsTyped
  <2>5. CASE rq[q].at \in {"slot", "git"} /\ (Site!TryAcquire(q) \/ Site!ReadBody(q) \/ Site!UploadPack(q))
    <3>1. PICK a, b : a = [rq[q] EXCEPT !.at = "git"] /\ b = [rq[q] EXCEPT !.body = TRUE]
      BY Zenon
    <3>2. a.at = "git" /\ b.at \in {"slot", "git"}
      BY <2>2, <2>5, <3>1 DEF RequestTyped, SmartSpace
    <3>3. Site!Goto(q, Site!Idle) \/ Site!Goto(q, a) \/ Site!Goto(q, b)
      BY <2>5, <3>1 DEF Site!TryAcquire, Site!ReadBody, Site!UploadPack
    <3> QED
      BY <2>1, <3>2, <3>3, IdleIsTyped
  <2>6. CASE Site!Arrive(q) \/ Site!ArriveAdmin(q)
    BY <2>1, <2>6, Zenon DEF Site!Arrive, Site!ArriveAdmin
  <2>7. CASE Site!InfoRefs(q) \/ Site!SmartClone(q)
    BY <2>1, <2>7, Zenon DEF Site!InfoRefs, Site!SmartClone
  <2>8. CASE Site!Lockdown(q)
    BY <2>1, <2>8, Zenon DEF Site!Lockdown
  <2>9. CASE Site!Serve(q) \/ Site!Sync(q)
    BY <2>1, <2>9, IdleIsTyped DEF Site!Serve, Site!Sync
  <2> QED
    BY <1>5, <2>3, <2>4, <2>5, <2>6, <2>7, <2>8, <2>9
    DEF Site!Step, Site!Gate, Site!Denied, Site!HeadFile, Site!Objects, Site!TryAcquire, Site!ReadBody, Site!UploadPack
<1> QED
  BY <1>1, <1>3, <1>4, <1>5 DEF Site!NextWithSSH, Site!Next

\* A page is served only to somebody the mode in effect at that step lets pass, and
\* `gitus ssh`, which has the mode from the file, goes by the mode the server is in.
THEOREM JudgedByTheMode ==
    ASSUME SiteAssumption
    PROVE  Site!SpecWithSSH => Site!ServedIsVisible /\ Site!SSHSeesMode
<1>1. Site!Init => SiteInv
  BY SiteInvInit
<1>2. SiteInv /\ [Site!NextWithSSH]_(Site!vars) => SiteInv'
  BY SiteInvStep
<1>3. SiteInv /\ [Site!NextWithSSH]_(Site!vars) => [Site!Served]_(Site!vars)
  BY ServedStep
<1>4. SiteInv /\ [Site!NextWithSSH]_(Site!vars) => [Site!SeesMode]_(Site!vars)
  BY LoginSees
<1> QED
  BY <1>1, <1>2, <1>3, <1>4, PTL DEF Site!SpecWithSSH, Site!ServedIsVisible, Site!SSHSeesMode
====
