---- MODULE TCache ----
(***************************************************************************)
(* pkg/tcache/main.go: the temporary cache behind sessions, receipts,      *)
(* login challenges and confirmation codes.  Callers hold tc.lock for the  *)
(* whole of Register, Get and Delete, so each is one action; the sweeper   *)
(* goroutine holds it for one pass and then sleeps on a timer and on the   *)
(* wake channel.                                                           *)
(*                                                                         *)
(* The heap is the set of its items: seq makes every item distinct, and    *)
(* container/heap orders nothing but `at', so items with the same `at' come*)
(* out in either order.  The sweeper's timer is kept as the instant it is  *)
(* due.  A timer armed late only fires later, which is what TimerFires'    *)
(* being merely enabled from timerAt on already allows.                    *)
(***************************************************************************)
EXTENDS Integers, FiniteSets

CONSTANTS Keys, Values,
          TTLs,          \* the TTLs callers pass; -1 registers without one
          CompactSlack,  \* 16 in the code
          Hour,          \* how long the sweeper sleeps with an empty heap
          MaxSeq,        \* bound: number of registrations
          MaxTime        \* bound: last instant of the clock

ASSUME TTLAssumption == TTLs \subseteq Nat \cup {-1}
ASSUME SlackAssumption == CompactSlack \in Nat
ASSUME HourAssumption == Hour \in Nat \ {0}

VARIABLES val,       \* tc.val: the keys present, each with value, expiresAt, seq
          expiries,  \* tc.expiries
          seq,       \* tc.seq
          wake,      \* a notification is pending in tc.wake (capacity 1)
          now,       \* the wall clock
          pc,        \* the sweeper: about to take the lock, or asleep
          timerAt,   \* when the sweeper's timer is due
          calls      \* history: parity of the number of calls to Register and Delete

vars == <<val, expiries, seq, wake, now, pc, timerAt, calls>>

NoExpiry == -1

Item(k, e) == [key |-> k, at |-> e.expiresAt, seq |-> e.seq]

(* Faulty variant: the items of replaced versions count as well. *)
CurrentByKey(i) == i.key \in DOMAIN val

(* The heap item of an entry that has not been replaced or deleted since. *)
Current(i) == i.key \in DOMAIN val /\ val[i.key].seq = i.seq

Init == /\ val = [k \in {} |-> 0]
        /\ expiries = {}
        /\ seq = 0
        /\ wake = FALSE
        /\ now = 0
        /\ pc = "sweep"
        /\ timerAt = 0
        /\ calls = 0

----
(* The callers *)

(* Faulty variant: off by one. *)
DeadlineEarly(ttl) == IF ttl = -1 THEN NoExpiry ELSE now + ttl - 1

Deadline(ttl) == IF ttl = -1 THEN NoExpiry ELSE now + ttl

(* Faulty variant: the notification is lost. *)
SkipWake == UNCHANGED wake

(* wakeLocked: a non-blocking send on a channel with room for one, so a
   notification is pending afterwards in either case. *)
WakeLocked == wake' = TRUE

(* Faulty variant: the heap item of the previous version is not replaced. *)
PushOnce(k, e) == IF \E i \in expiries : i.key = k THEN expiries
                                                   ELSE expiries \cup {Item(k, e)}

Push(k, e) == expiries \cup {Item(k, e)}

(* Register(key, value, d) *)
Register(k, v, ttl) ==
  /\ seq < MaxSeq /\ now + ttl <= MaxTime
  /\ LET e == [value |-> v, expiresAt |-> Deadline(ttl), seq |-> seq + 1]
     IN /\ seq' = seq + 1
        /\ val' = [x \in DOMAIN val \cup {k} |-> IF x = k THEN e ELSE val[x]]
        /\ expiries' = IF ttl = -1 THEN expiries ELSE Push(k, e)
  /\ WakeLocked
  /\ calls' = 1 - calls
  /\ UNCHANGED <<now, pc, timerAt>>

(* Delete(key): the heap item of a deleted entry stays behind. *)
Delete(k) ==
  /\ val' = [x \in DOMAIN val \ {k} |-> val[x]]
  /\ WakeLocked
  /\ calls' = 1 - calls
  /\ UNCHANGED <<expiries, seq, now, pc, timerAt>>

(* Get(key) changes nothing; these are the keys it answers for. *)
Visible == {k \in DOMAIN val : val[k].expiresAt = NoExpiry \/ now < val[k].expiresAt}

----
(* The sweeper *)

(* dropExpiredLocked leaves `kept' in the heap: every item it popped was at
   the front when popped and stale or due, and it stopped at the first item
   that is neither. *)
DropExpired(kept) ==
  /\ \A i \in expiries \ kept : /\ Current(i) => i.at <= now
                                /\ \A j \in kept : i.at <= j.at
  /\ kept # {} => \E i \in kept : /\ Current(i) /\ i.at > now
                                  /\ \A j \in kept : i.at <= j.at

(* The keys whose entry goes with a popped item. *)
Dropped(kept) == {i.key : i \in {j \in expiries \ kept : Current(j)}}

(* compactLocked *)
Rebuilt(m) == {Item(k, m[k]) : k \in {x \in DOMAIN m : m[x].expiresAt # NoExpiry}}

(* Faulty variant: the heap is never rebuilt. *)
NeverCompact(h, m) == h

Compacted(h, m) ==
  IF Cardinality(h) > 2 * Cardinality(DOMAIN m) + CompactSlack THEN Rebuilt(m) ELSE h

(* One pass of sweepLoop under the lock. *)
Sweep ==
  /\ pc = "sweep"
  /\ \E kept \in SUBSET expiries :
       /\ DropExpired(kept)
       /\ val' = [x \in DOMAIN val \ Dropped(kept) |-> val[x]]
       /\ expiries' = Compacted(kept, val')
  /\ \/ expiries' = {} /\ timerAt' = now + Hour
     \/ \E i \in expiries' : timerAt' = i.at /\ \A j \in expiries' : i.at <= j.at
  /\ pc' = "sleep"
  /\ UNCHANGED <<seq, wake, now, calls>>

(* The select at the end of sweepLoop; a wait of zero or less does not sleep,
   which is a timer that is already due. *)
TimerFires == /\ pc = "sleep" /\ timerAt <= now
              /\ pc' = "sweep"
              /\ UNCHANGED <<val, expiries, seq, wake, now, timerAt, calls>>

Woken == /\ pc = "sleep" /\ wake
         /\ wake' = FALSE
         /\ pc' = "sweep"
         /\ UNCHANGED <<val, expiries, seq, now, timerAt, calls>>

Tick == /\ now < MaxTime
        /\ now' = now + 1
        /\ UNCHANGED <<val, expiries, seq, wake, pc, timerAt, calls>>

Next == \/ \E k \in Keys, v \in Values, ttl \in TTLs : Register(k, v, ttl)
        \/ \E k \in Keys : Delete(k)
        \/ Sweep \/ TimerFires \/ Woken \/ Tick

Spec == Init /\ [][Next]_vars

(* The sweeper goroutine keeps being scheduled and the clock keeps running. *)
FairSpec == Spec /\ WF_vars(Sweep) /\ WF_vars(TimerFires) /\ WF_vars(Woken) /\ WF_vars(Tick)

----
(* Properties *)

Entry == [value : Values, expiresAt : Nat \cup {NoExpiry}, seq : Nat]

(* The map, the heap and the sweeper's clock have their types; in particular
   the heap never holds an item for an entry registered without a TTL. *)
TypeOK ==
  /\ DOMAIN val \subseteq Keys
  /\ val \in [DOMAIN val -> Entry]
  /\ expiries \subseteq [key : Keys, at : Nat, seq : Nat]
  /\ seq \in Nat
  /\ wake \in BOOLEAN
  /\ now \in Nat
  /\ pc \in {"sweep", "sleep"}
  /\ timerAt \in Nat
  /\ calls \in {0, 1}

HasTTL(k) == val[k].expiresAt # NoExpiry

(* The heap describes the map: every entry with a TTL has its own item, an
   item that is not stale carries the entry's expiry, and no item or entry is
   from the future, so the next seq is fresh.  This is what lets
   dropExpiredLocked trust the front of the heap after any sequence of
   Register and Delete. *)
HeapInv ==
  /\ \A k \in DOMAIN val : HasTTL(k) => Item(k, val[k]) \in expiries
  /\ \A i \in expiries : Current(i) => val[i.key].expiresAt = i.at
  /\ \A i \in expiries : i.seq <= seq
  /\ \A k \in DOMAIN val : val[k].seq <= seq

(* No lost wakeup: while the sweeper sleeps with no notification pending, its
   timer is due no later than any entry's expiry (wakeLocked and the select
   in sweepLoop). *)
NoOversleep ==
  pc = "sleep" /\ ~wake => \A k \in DOMAIN val : HasTTL(k) => timerAt <= val[k].expiresAt

(* Re-registering a key cannot grow the heap for a whole TTL: once the sweeper
   has seen every change, stale items are at most the live ones plus the
   slack (compactLocked). *)
HeapBounded ==
  pc = "sleep" /\ ~wake => Cardinality(expiries) <= 2 * Cardinality(DOMAIN val) + CompactSlack

(* Through Get, the cache is the map of ExpiringMap: the sweeper, its late
   wakeups, stale heap items and compaction never remove an entry early, and
   an expired entry is never answered although it may still be stored.  Only a
   call to Delete makes an entry disappear before its time. *)
Map == INSTANCE ExpiringMap WITH
         entries <- [k \in Visible |-> [value |-> val[k].value, expiresAt |-> val[k].expiresAt]]

ImplementsMap == Map!MapSpec

(* An entry past its expiry does not stay in memory: it is eventually removed
   or replaced by a newer one (sweepLoop). *)
Reclaimed == \A k \in Keys : (k \in DOMAIN val \ Visible) ~> (k \notin DOMAIN val \ Visible)

(* Every heap item is eventually discarded, also that of an entry which was
   deleted or replaced before it expired. *)
HeapDrains == \A s \in 1..MaxSeq : []<>(\A i \in expiries : i.seq # s)
====
