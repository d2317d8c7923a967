---- MODULE ExpiringMap ----
(***************************************************************************)
(* What a user of tcache.TCache is promised: a map from keys to values     *)
(* whose entries vanish at the very instant their time to live runs out.   *)
(* There is no sweeper, no heap and no lock here; TCache.tla shows that    *)
(* the real cache is indistinguishable from this map through Get.          *)
(***************************************************************************)
EXTENDS Integers

CONSTANTS Keys, Values, TTLs

VARIABLES entries,   \* the keys Get answers, with their value and expiry
          now,
          calls      \* parity of the number of calls made, to tell them from other steps

(* An entry registered without a TTL carries the expiry NoExpiry. *)
NoExpiry == -1

ExpiresAt(ttl) == IF ttl = -1 THEN NoExpiry ELSE now + ttl

Fresh(e, t) == e.expiresAt = NoExpiry \/ t < e.expiresAt

(* The entries of m that are still there at time t. *)
Unexpired(m, t) == [k \in {x \in DOMAIN m : Fresh(m[x], t)} |-> m[k]]

With(m, k, e) == [x \in DOMAIN m \cup {k} |-> IF x = k THEN e ELSE m[x]]

Without(m, k) == [x \in DOMAIN m \ {k} |-> m[x]]

MapInit == /\ entries = [k \in {} |-> 0]
           /\ now = 0
           /\ calls = 0

Called == calls' = 1 - calls

(* Register replaces whatever the key held; an entry with a TTL of zero is
   never visible. *)
MapRegister(k, v, ttl) ==
  /\ entries' = Unexpired(With(entries, k, [value |-> v, expiresAt |-> ExpiresAt(ttl)]), now)
  /\ Called
  /\ UNCHANGED now

MapDelete(k) == /\ entries' = Without(entries, k)
                /\ Called
                /\ UNCHANGED now

(* Time passes; entries disappear at their expiry and never otherwise. *)
MapTick == /\ now' = now + 1
           /\ entries' = Unexpired(entries, now + 1)
           /\ UNCHANGED calls

MapNext == \/ \E k \in Keys, v \in Values, ttl \in TTLs : MapRegister(k, v, ttl)
           \/ \E k \in Keys : MapDelete(k)
           \/ MapTick

MapSpec == MapInit /\ [][MapNext]_<<entries, now, calls>>
====
