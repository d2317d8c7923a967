---- MODULE InMemorySessions ----
(***************************************************************************)
(* pkg/gitus/session/in_memory/main.go: a list and records as strings in   *)
(* the expiring map, which is locked per Get, Register and Delete only.  A *)
(* list is written "{a}{b}"; a missing list reads as "".  Finding a record *)
(* expired and deleting it are one step, as no id is registered twice.     *)
(***************************************************************************)
EXTENDS SessionStore

GetList(st, now) == IF st.list = NoList \/ now >= st.listTill THEN <<>> ELSE st.list
RegisterList(st, now, l) == [st EXCEPT !.list = l, !.listTill = now + CacheTTL]
InList(st, now, id) == inSet(GetList(st, now), id)
Found(st, now, id) == id \in DOMAIN st.rec /\ now < st.rec[id].till

insertSet(l, id) == IF inSet(l, id) THEN l ELSE Append(l, id)
removeFromSet(l, id) == SelectSeq(l, LAMBDA x : x # id)

\* The list is read, and written with the id added; then the record.
RegisterSession(st, r, now) ==
    CASE r.at = "start" -> To(st, [r EXCEPT !.left = GetList(st, now)], "list")
      [] r.at = "list" -> To(RegisterList(st, now, insertSet(r.left, r.own)), r, "record")
      [] r.at = "record" ->
           Answer(Insert(st, r.own, [expire |-> now + Lifetime, till |-> now + CacheTTL]),
                  [r EXCEPT !.t = now + Lifetime], "session")

\* i[1:] of a missing list panics.  Split at "}{", the last id keeps its "}": no
\* record has that key, and parsing the empty string is an error.
RetrieveSession(st, r, now) ==
    IF r.at = "start" /\ GetList(st, now) # <<>> THEN To(st, [r EXCEPT !.left = GetList(st, now)], "walk")
    ELSE IF Len(r.left) < 2 THEN Answer(st, r, "err")
    ELSE LET id == Head(r.left)
         IN IF ~Found(st, now, id) THEN Answer(st, r, "err")
            ELSE To(IF Expired(st, id, now) THEN WithoutRec(st, id) ELSE st, [r EXCEPT !.left = Tail(@)], "walk")

RetrieveSessionByKey(st, r, now) ==
    IF ~Found(st, now, r.own) THEN Answer(st, r, "nil")
    ELSE IF Expired(st, r.own, now) THEN Answer(WithoutRec(st, r.own), r, "nil")
    ELSE Answer(st, r, "session")

\* A fault: the record is left to its time to live.
RevokeFromList(st, r, now) ==
    CASE r.at = "start" -> To(st, r, "get")
      [] r.at = "get" -> To(st, [r EXCEPT !.left = GetList(st, now)], "list")
      [] r.at = "list" -> Answer(RegisterList(st, now, removeFromSet(r.left, r.target)), r, "nil")

RevokeSession(st, r, now) ==
    CASE r.at = "start" -> To(WithoutRec(st, r.target), r, "get")
      [] r.at = "get" -> IF GetList(st, now) = <<>> THEN Answer(st, r, "nil")
                         ELSE To(st, [r EXCEPT !.left = GetList(st, now)], "list")
      [] r.at = "list" -> Answer(RegisterList(st, now, removeFromSet(r.left, r.target)), r, "nil")

\* As for RetrieveSession, the key of the last id is not the record's.
RevokeAllSession(st, r, now) ==
    CASE r.at = "start" -> IF GetList(st, now) = <<>> THEN Answer(st, r, "err")
                           ELSE To(st, [r EXCEPT !.left = GetList(st, now)], "walk")
      [] r.at = "walk" -> IF Len(r.left) > 1 THEN To(WithoutRec(st, Head(r.left)), [r EXCEPT !.left = Tail(@)], "walk")
                          ELSE Answer([st EXCEPT !.list = NoList], r, "nil")

\* Expiry is compared with > here, and the record is not reread.
Verify(st, r, now, yes) ==
    CASE r.at = "start" -> IF InList(st, now, r.own) THEN To(st, r, "record") ELSE Answer(st, r, "false")
      [] r.at = "record" ->
           IF ~Found(st, now, r.own) THEN Answer(st, r, "false")
           ELSE IF now > st.rec[r.own].expire THEN Answer(WithoutRec(st, r.own), r, "false")
           ELSE Answer(st, r, yes)

VerifySessionExist(st, r, now) == Verify(st, r, now, "true")

VerifySessionFull(st, r, now) == Verify(st, r, now, IF r.token THEN "true" ELSE "false")
====
