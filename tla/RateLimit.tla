---- MODULE RateLimit ----
(***************************************************************************)
(* routes/ratelimiter.go: one token bucket per address, and the sweep that *)
(* drops the buckets of addresses not heard of for a while.  Time is       *)
(* counted in the interval after which a bucket gets a new token; a bucket *)
(* holds cap = 1 token (golang.org/x/time/rate).  The read lock and the    *)
(* lock each cover one step; a request may be held up between its steps,   *)
(* but for much less than idleTTL (10 minutes): MaxHold at most.           *)
(***************************************************************************)
EXTENDS Integers, FiniteSets

CONSTANTS Procs, Addresses, idleTTL, sweepEvery, MaxHold, MaxTime

ASSUME FinitenessAssumption == IsFiniteSet(Procs) /\ IsFiniteSet(Addresses)
ASSUME HoldAssumption == idleTTL \in Nat /\ MaxHold \in Nat /\ 2 * MaxHold <= idleTTL

VARIABLES now,
          limiter,   \* address -> the bucket of its entry
          lastSeen,  \* address -> when its entry was last asked for
          inserts,   \* modulo sweepEvery
          buckets,   \* bucket -> when its token was last taken
          rq,        \* what each request has got to
          allowed    \* address -> requests of it let through at this time

vars == <<now, limiter, lastSeen, inserts, buckets, rq, allowed>>

Idle == [at |-> "idle"]
Never == -1
MaxBuckets == Cardinality(Procs) + Cardinality(Addresses)
Free == {b \in 1..MaxBuckets : /\ \A a \in DOMAIN limiter : limiter[a] # b
                               /\ \A p \in Procs : rq[p].at = "take" => rq[p].bucket # b}

Init ==
    /\ now = 0 /\ inserts = 0
    /\ limiter = [a \in {} |-> 0] /\ lastSeen = [a \in {} |-> 0]
    /\ buckets = [b \in 1..MaxBuckets |-> Never]
    /\ rq = [p \in Procs |-> Idle]
    /\ allowed = [a \in Addresses |-> 0]

\* IsIPAllowed: the time is taken ...
Ask(p) ==
    /\ rq[p] = Idle
    /\ \E a \in Addresses : rq' = [rq EXCEPT ![p] = [at |-> "read", a |-> a, now |-> now]]
    /\ UNCHANGED <<now, limiter, lastSeen, inserts, buckets, allowed>>

\* A fault: only a new entry notes the time.
Unseen(a, t) == UNCHANGED lastSeen
\* The store of lastSeen on the read path.
Seen(a, t) == lastSeen' = [lastSeen EXCEPT ![a] = t]

\* ... the entry looked up under the read lock ...
FastPath(p) ==
    /\ rq[p].at = "read"
    /\ LET a == rq[p].a
       IN IF a \in DOMAIN limiter
          THEN /\ Seen(a, rq[p].now)
               /\ rq' = [rq EXCEPT ![p] = [at |-> "take", a |-> a, now |-> @.now, bucket |-> limiter[a]]]
          ELSE /\ rq' = [rq EXCEPT ![p].at = "insert"] /\ UNCHANGED lastSeen
    /\ UNCHANGED <<now, limiter, inserts, buckets, allowed>>

\* A fault: an entry goes before it is idle for idleTTL.
SweptTooEarly(seen, t) == {a \in DOMAIN seen : seen[a] >= t}
\* sweepLocked: what it leaves
Kept(seen, t) == {a \in DOMAIN seen : seen[a] >= t - idleTTL}

\* A fault: the entry somebody else made meanwhile is replaced.
Overwritten(a) == FALSE
\* The second look, under the lock.
MadeMeanwhile(a) == a \in DOMAIN limiter

\* ... or made under the lock, with a full bucket ...
SlowPath(p) ==
    /\ rq[p].at = "insert"
    /\ LET a == rq[p].a
           b == CHOOSE x \in Free : TRUE
           seen == [x \in DOMAIN lastSeen \cup {a} |-> IF x = a THEN rq[p].now ELSE lastSeen[x]]
           n == (inserts + 1) % sweepEvery
           kept == IF n = 0 THEN Kept(seen, rq[p].now) ELSE DOMAIN seen
       IN IF MadeMeanwhile(a)
          THEN /\ lastSeen' = seen
               /\ rq' = [rq EXCEPT ![p] = [at |-> "take", a |-> a, now |-> @.now, bucket |-> limiter[a]]]
               /\ UNCHANGED <<limiter, inserts, buckets>>
          ELSE /\ inserts' = n
               /\ lastSeen' = [x \in kept |-> seen[x]]
               /\ limiter' = [x \in kept |-> IF x = a THEN b ELSE limiter[x]]
               /\ buckets' = [buckets EXCEPT ![b] = Never]
               /\ rq' = [rq EXCEPT ![p] = [at |-> "take", a |-> a, now |-> @.now, bucket |-> b]]
    /\ UNCHANGED <<now, allowed>>

\* ... and its bucket asked for a token: limiter.Allow().
Allow(p) ==
    /\ rq[p].at = "take"
    /\ LET r == rq[p]
       IN IF buckets[r.bucket] < now
          THEN /\ buckets' = [buckets EXCEPT ![r.bucket] = now]
               /\ allowed' = [allowed EXCEPT ![r.a] = @ + 1]
          ELSE UNCHANGED <<buckets, allowed>>
    /\ rq' = [rq EXCEPT ![p] = Idle]
    /\ UNCHANGED <<now, limiter, lastSeen, inserts>>

\* Time passes, but no request is held up for longer than MaxHold.
Tick ==
    /\ now < MaxTime
    /\ \A p \in Procs : rq[p] # Idle => now - rq[p].now < MaxHold
    /\ now' = now + 1
    /\ allowed' = [a \in Addresses |-> 0]
    /\ UNCHANGED <<limiter, lastSeen, inserts, buckets, rq>>

Next == (\E p \in Procs : Ask(p) \/ FastPath(p) \/ SlowPath(p) \/ Allow(p)) \/ Tick

Spec == Init /\ [][Next]_vars

\* An address gets one request through per interval, as it would with one
\* bucket for good: whatever entries the sweep drops, and though requests take
\* the entry and its token under no common lock.
OneTokenPerInterval == \A a \in Addresses : allowed[a] <= 1
====
