---- MODULE RedisSessions ----
(***************************************************************************)
(* pkg/gitus/session/redis_like/main.go.  The list is a hash; a record is  *)
(* a hash of which one command sets or reads one field.  A small hash is   *)
(* returned by one HSCAN.                                                  *)
(***************************************************************************)
EXTENDS SessionStore

Fields == <<"csrf", "timestamp", "expire_timestamp", "ip", "user_agent">>
Ids(st) == IF st.list = NoList THEN <<>> ELSE st.list
Field(st, id, f) == id \in DOMAIN st.rec /\ f \in st.rec[id].fields
HSetField(st, id, f, t) ==
    Insert(st, id, [expire |-> t, fields |-> {f} \cup (IF id \in DOMAIN st.rec THEN st.rec[id].fields ELSE {})])
HDel(st, id) == [st EXCEPT !.list = SelectSeq(Ids(st), LAMBDA x : x # id)]

\* A fault: the time of the login is stored as the expiry.
RegisterExpired(st, r, now) ==
    IF r.at = "start"
    THEN To([st EXCEPT !.list = Append(Ids(st), r.own)], [r EXCEPT !.n = 1, !.t = now + Lifetime], "fields")
    ELSE LET s2 == HSetField(st, r.own, Fields[r.n], r.t - Lifetime)
         IN IF r.n = Len(Fields) THEN Answer(s2, r, "session") ELSE To(s2, [r EXCEPT !.n = @ + 1], "fields")

\* The clock is read once, before the first command; r.n counts the fields set.
RegisterSession(st, r, now) ==
    IF r.at = "start"
    THEN To([st EXCEPT !.list = Append(Ids(st), r.own)], [r EXCEPT !.n = 1, !.t = now + Lifetime], "fields")
    ELSE LET s2 == HSetField(st, r.own, Fields[r.n], r.t)
         IN IF r.n = Len(Fields) THEN Answer(s2, r, "session") ELSE To(s2, [r EXCEPT !.n = @ + 1], "fields")

\* The fields are read one by one.  An expired record is deleted and the loop
\* continues at the same id, whose record is then missing: an error.
RetrieveSession(st, r, now) ==
    IF r.at = "start" THEN To(st, [r EXCEPT !.left = Ids(st), !.n = 1], "walk")
    ELSE IF r.at = "delete" THEN To(WithoutRec(st, Head(r.left)), [r EXCEPT !.n = 1], "walk")
    ELSE IF r.left = <<>> THEN Answer(st, r, "list")
    ELSE IF ~Field(st, Head(r.left), Fields[r.n]) THEN Answer(st, r, "err")
    ELSE IF r.n < 3 THEN To(st, [r EXCEPT !.n = @ + 1], "walk")
    ELSE IF Expired(st, Head(r.left), now) THEN To(st, r, "delete")
    ELSE To(st, [r EXCEPT !.res = @ \cup {Head(r.left)}, !.left = Tail(@), !.n = 1], "walk")

Revoke(st, r, id, ans) == IF r.at = "record" THEN Answer(WithoutRec(st, id), r, ans) ELSE To(HDel(st, id), r, "record")

\* A fault: the keys are built on one that already carries the prefix.
RevokeWrongKeys(st, r, now) == IF r.at = "record" THEN Answer(st, r, "nil") ELSE To(st, r, "record")

RevokeSession(st, r, now) == Revoke(st, r, r.target, "nil")

\* The inner loop never advances.
RevokeAllSession(st, r, now) ==
    IF r.at = "start" THEN To(st, [r EXCEPT !.left = Ids(st)], "walk")
    ELSE IF r.at = "list" THEN Answer([st EXCEPT !.list = NoList], r, "nil")
    ELSE IF r.left = <<>> THEN To(st, r, "list")
    ELSE To(WithoutRec(st, Head(r.left)), r, "walk")

\* HGETs in the order of r.n: 0 the list, then the fields fs; an expired session is revoked.
Check(st, r, now, fs, missing, no, yes) ==
    IF r.at \in {"revoke", "record"} THEN Revoke(st, r, r.own, no)
    ELSE IF r.at = "start"
    THEN IF inSet(Ids(st), r.own) THEN To(st, [r EXCEPT !.n = 1], "fields") ELSE Answer(st, r, no)
    ELSE IF ~Field(st, r.own, fs[r.n]) THEN Answer(st, r, missing)
    ELSE IF fs[r.n] = "expire_timestamp" /\ Expired(st, r.own, now) THEN To(st, r, "revoke")
    ELSE IF r.n = Len(fs) THEN Answer(st, r, yes)
    ELSE To(st, [r EXCEPT !.n = @ + 1], "fields")

RetrieveSessionByKey(st, r, now) == Check(st, r, now, SubSeq(Fields, 1, 3), "err", "nil", "session")

VerifySessionExist(st, r, now) == Check(st, r, now, <<"expire_timestamp">>, "false", "false", "true")

VerifySessionFull(st, r, now) ==
    Check(st, r, now, <<"expire_timestamp", "csrf">>, "false", "false", IF r.token THEN "true" ELSE "false")
====
