---- MODULE MemcachedSessions ----
(***************************************************************************)
(* pkg/gitus/session/memcached/main.go.  Items are stored without an       *)
(* expiration; eviction by the server is left out.                         *)
(***************************************************************************)
EXTENDS SessionStore

insertSet(l, id) == IF inSet(l, id) THEN l ELSE Append(l, id)
removeFromSet(l, id) == SelectSeq(l, LAMBDA x : x # id)

RegisterSession(st, r, now) ==
    CASE r.at = "start" -> To(st, [r EXCEPT !.left = st.list], "list")
      [] r.at = "list" ->
           To([st EXCEPT !.list = IF r.left = NoList THEN <<r.own>> ELSE insertSet(r.left, r.own)], r, "record")
      [] r.at = "record" -> Answer(Insert(st, r.own, [expire |-> now + Lifetime]), [r EXCEPT !.t = now + Lifetime], "session")

\* The item of a missing list is dereferenced: a panic.  The keys of the records
\* are built on the list's key, so that none is found: every id is taken for
\* expired and removed from the list.
RetrieveSession(st, r, now) ==
    CASE r.at = "start" -> IF st.list = NoList THEN Answer(st, r, "err") ELSE To(st, r, "set")
      [] r.at = "set" -> Answer([st EXCEPT !.list = <<>>], [r EXCEPT !.res = {}], "list")

RetrieveSessionByKey(st, r, now) ==
    CASE r.at = "start" -> IF r.own \notin DOMAIN st.rec THEN Answer(st, r, "nil")
                           ELSE IF Expired(st, r.own, now) THEN To(st, r, "delete") ELSE Answer(st, r, "session")
      [] r.at = "delete" -> Answer(WithoutRec(st, r.own), r, "nil")

RevokeSession(st, r, now) ==
    CASE r.at = "start" -> IF st.list = NoList THEN Answer(st, r, "nil") ELSE To(st, [r EXCEPT !.left = st.list], "list")
      [] r.at = "list" -> To([st EXCEPT !.list = removeFromSet(r.left, r.target)], r, "record")
      [] r.at = "record" -> Answer(WithoutRec(st, r.target), r, "nil")

\* The deletes name keys no record has.
RevokeAllSession(st, r, now) ==
    CASE r.at = "start" -> IF st.list = NoList THEN Answer(st, r, "nil") ELSE To(st, r, "list")
      [] r.at = "list" -> Answer([st EXCEPT !.list = NoList], r, "nil")

\* A record is unmarshalled into a nil pointer, which is an error.
VerifySessionExist(st, r, now) == Answer(st, r, IF r.own \in DOMAIN st.rec THEN "err" ELSE "false")

VerifySessionFull(st, r, now) == Answer(st, r, IF r.own \in DOMAIN st.rec THEN "err" ELSE "false")
====
