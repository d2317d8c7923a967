---- MODULE SessionStore ----
(***************************************************************************)
(* What the four session stores have in common.  A store, st, holds the    *)
(* keys of one user (every key carries the user's name): the list of       *)
(* session ids and one record per session, each with the instant its       *)
(* session expires.  An operation is a step machine: r is the request that *)
(* runs it, r.at the command it is about to send, and every command of the *)
(* store's server is one step.  A step answers the store and the request   *)
(* after it.                                                               *)
(***************************************************************************)
EXTENDS Naturals, Sequences

CONSTANTS Lifetime,   \* Config.MaxSessionLifetime
          CacheTTL    \* the 24 hours of the in-memory cache

NoList == <<"noList">>
NoKeys == [x \in {} |-> 0]
EmptyStore == [list |-> NoList, listTill |-> 0, rec |-> NoKeys]

Put(f, k, v) == [x \in DOMAIN f \cup {k} |-> IF x = k THEN v ELSE f[x]]
Drop(f, k) == [x \in DOMAIN f \ {k} |-> f[x]]

inSet(l, id) == \E i \in DOMAIN l : l[i] = id

To(st, r, at) == [st |-> st, r |-> [r EXCEPT !.at = at]]
Answer(st, r, a) == [st |-> st, r |-> [r EXCEPT !.at = "done", !.ans = a]]

Expired(st, id, now) == now >= st.rec[id].expire
Insert(st, id, rec) == [st EXCEPT !.rec = Put(@, id, rec)]
WithoutRec(st, id) == [st EXCEPT !.rec = Drop(@, id)]
====
