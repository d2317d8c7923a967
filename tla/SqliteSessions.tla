---- MODULE SqliteSessions ----
(* pkg/gitus/session/sqlite/main.go: one table, every command a statement. *)
EXTENDS SessionStore

\* A fault: the two timestamps are bound in the wrong order.
RegisterSwapped(st, r, now) == Answer(Insert(st, r.own, [expire |-> now]), [r EXCEPT !.t = now + Lifetime], "session")

RegisterSession(st, r, now) ==
    Answer(Insert(st, r.own, [expire |-> now + Lifetime]), [r EXCEPT !.t = now + Lifetime], "session")

\* A fault: the row of the request's own session only.
RetrieveOwn(st, r, now) ==
    Answer(st, [r EXCEPT !.res = {i \in DOMAIN st.rec : i = r.own /\ st.rec[i].expire > now}], "list")

RetrieveSession(st, r, now) ==
    Answer(st, [r EXCEPT !.res = {i \in DOMAIN st.rec : st.rec[i].expire > now}], "list")

RevokeSession(st, r, now) == Answer(WithoutRec(st, r.target), r, "nil")

\* A fault: the WHERE clause keeps the session of the request.
RevokeOthers(st, r, now) == Answer([st EXCEPT !.rec = [i \in DOMAIN @ \cap {r.own} |-> @[i]]], r, "nil")

RevokeAllSession(st, r, now) == Answer([st EXCEPT !.rec = NoKeys], r, "nil")

\* An expired row is deleted by a transaction of its own.
Check(st, r, now, no, yes) ==
    IF r.at = "revoke" THEN Answer(WithoutRec(st, r.own), r, no)
    ELSE IF r.own \notin DOMAIN st.rec THEN Answer(st, r, no)
    ELSE IF Expired(st, r.own, now) THEN To(st, r, "revoke")
    ELSE Answer(st, r, yes)

RetrieveSessionByKey(st, r, now) == Check(st, r, now, "nil", "session")

VerifySessionExist(st, r, now) == Check(st, r, now, "false", "true")

VerifySessionFull(st, r, now) == Check(st, r, now, "false", IF r.token THEN "true" ELSE "false")
====
