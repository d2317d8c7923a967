---- MODULE Sessions ----
(***************************************************************************)
(* The sessions of one user: the requests that create, check, list and     *)
(* revoke them (login.go, logout.go, setting-session.go,                   *)
(* setting-user-info.go, routes/aux.go and routes/middleware.go) on top of *)
(* one of the four stores.  A request is a sequence of store operations,   *)
(* each of which may end it; the commands of concurrent requests           *)
(* interleave.                                                             *)
(***************************************************************************)
EXTENDS SessionStore

CONSTANTS Store,      \* "sqlite", "redis", "memcached" or "in-memory"
          Procs, SessionIds,
          Requests,   \* the kinds of requests that are made
          MaxTime     \* bound: the last instant of the clock

VARIABLES st,      \* the store
          now,     \* the clock
          rq,      \* the request each process is serving
          issued,  \* session id -> expiry, of the cookies that were handed out
          ended,   \* sessions whose revocation was answered
          doubt    \* sessions that a revocation met, one being created included

vars == <<st, now, rq, issued, ended, doubt>>

S == INSTANCE SqliteSessions
I == INSTANCE InMemorySessions
M == INSTANCE MemcachedSessions
R == INSTANCE RedisSessions

\* The store operations that each request makes, in order.
Login == <<"RegisterSession">>
CheckUserSession == <<"VerifySessionExist">>
LoginRequired == <<"RetrieveSessionByKey">>
CSRFCheck == <<"VerifySessionFull">>
ListSessions == LoginRequired \o <<"RetrieveSession">>
RevokeOther == <<"RetrieveSessionByKey">> \o LoginRequired \o CSRFCheck \o <<"RevokeSession">>
Logout == <<"RetrieveSessionByKey">> \o CSRFCheck \o <<"RevokeSession">>
ChangePassword == <<"RetrieveSessionByKey">> \o LoginRequired \o CSRFCheck \o <<"RevokeAllSession">>

Script(kind) ==
    CASE kind = "login" -> Login
      [] kind = "check" -> CheckUserSession
      [] kind = "page" -> LoginRequired
      [] kind = "sessions" -> ListSessions
      [] kind = "revoke" -> RevokeOther
      [] kind = "logout" -> Logout
      [] kind = "password" -> ChangePassword

\* The answers after which a request goes on.
GoesOn(ans) == ans \in {"session", "true"}

InitializeDatabase(r) ==
    LET op == Head(r.ops)
    IN CASE Store = "sqlite" ->
              (CASE op = "RegisterSession" -> S!RegisterSession(st, r, now)
                 [] op = "RetrieveSession" -> S!RetrieveSession(st, r, now)
                 [] op = "RetrieveSessionByKey" -> S!RetrieveSessionByKey(st, r, now)
                 [] op = "RevokeSession" -> S!RevokeSession(st, r, now)
                 [] op = "RevokeAllSession" -> S!RevokeAllSession(st, r, now)
                 [] op = "VerifySessionExist" -> S!VerifySessionExist(st, r, now)
                 [] op = "VerifySessionFull" -> S!VerifySessionFull(st, r, now))
         [] Store = "redis" ->
              (CASE op = "RegisterSession" -> R!RegisterSession(st, r, now)
                 [] op = "RetrieveSession" -> R!RetrieveSession(st, r, now)
                 [] op = "RetrieveSessionByKey" -> R!RetrieveSessionByKey(st, r, now)
                 [] op = "RevokeSession" -> R!RevokeSession(st, r, now)
                 [] op = "RevokeAllSession" -> R!RevokeAllSession(st, r, now)
                 [] op = "VerifySessionExist" -> R!VerifySessionExist(st, r, now)
                 [] op = "VerifySessionFull" -> R!VerifySessionFull(st, r, now))
         [] Store = "memcached" ->
              (CASE op = "RegisterSession" -> M!RegisterSession(st, r, now)
                 [] op = "RetrieveSession" -> M!RetrieveSession(st, r, now)
                 [] op = "RetrieveSessionByKey" -> M!RetrieveSessionByKey(st, r, now)
                 [] op = "RevokeSession" -> M!RevokeSession(st, r, now)
                 [] op = "RevokeAllSession" -> M!RevokeAllSession(st, r, now)
                 [] op = "VerifySessionExist" -> M!VerifySessionExist(st, r, now)
                 [] op = "VerifySessionFull" -> M!VerifySessionFull(st, r, now))
         [] Store = "in-memory" ->
              (CASE op = "RegisterSession" -> I!RegisterSession(st, r, now)
                 [] op = "RetrieveSession" -> I!RetrieveSession(st, r, now)
                 [] op = "RetrieveSessionByKey" -> I!RetrieveSessionByKey(st, r, now)
                 [] op = "RevokeSession" -> I!RevokeSession(st, r, now)
                 [] op = "RevokeAllSession" -> I!RevokeAllSession(st, r, now)
                 [] op = "VerifySessionExist" -> I!VerifySessionExist(st, r, now)
                 [] op = "VerifySessionFull" -> I!VerifySessionFull(st, r, now))

Idle == [at |-> "idle"]
Busy(p) == rq[p].at # "idle"

Init ==
    /\ st = EmptyStore
    /\ now = 0
    /\ rq = [p \in Procs |-> Idle]
    /\ issued = NoKeys
    /\ ended = {}
    /\ doubt = {}

\* The working variables of a store operation, as it starts.
Fresh(r) == [r EXCEPT !.at = "start", !.ans = "none", !.left = <<>>, !.res = {}, !.n = 0, !.t = 0]

\* A request arrives with a cookie: a login takes a new session id, any other
\* one that was handed out; revoking another session names that one.  was is
\* what the user knew when it was sent.
Arrive(p, kind, own, target, token) ==
    /\ ~Busy(p)
    /\ CASE kind = "login" -> own \notin DOMAIN issued /\ \A q \in Procs : Busy(q) => rq[q].own # own
         [] OTHER -> own \in DOMAIN issued
    /\ CASE kind = "revoke" -> target \in DOMAIN issued \ {own}
         [] OTHER -> target = own
    /\ kind \in {"revoke", "logout", "password"} \/ token
    /\ rq' = [rq EXCEPT ![p] = [ops |-> Script(kind), own |-> own, target |-> target, token |-> token,
                                at |-> "start", ans |-> "none", left |-> <<>>, res |-> {}, n |-> 0, t |-> 0,
                                issued |-> DOMAIN issued, ended |-> ended]]
    /\ UNCHANGED <<st, now, issued, ended, doubt>>

\* The next command of the current store operation.
Command(p) ==
    /\ Busy(p) /\ rq[p].at # "done"
    /\ LET x == InitializeDatabase(rq[p])
       IN st' = x.st /\ rq' = [rq EXCEPT ![p] = x.r]
    /\ UNCHANGED <<now, issued, ended, doubt>>

\* What the answer of the operation leads to: the next one, or the response.
Respond(p) ==
    /\ Busy(p) /\ rq[p].at = "done"
    /\ LET r == rq[p]
           op == Head(r.ops)
       IN /\ rq' = [rq EXCEPT ![p] = IF GoesOn(r.ans) /\ Len(r.ops) > 1
                                     THEN Fresh([r EXCEPT !.ops = Tail(@)]) ELSE Idle]
          /\ issued' = IF op = "RegisterSession" THEN Put(issued, r.own, r.t) ELSE issued
          /\ ended' = ended \cup (IF r.ans # "nil" THEN {}
                                  ELSE IF op = "RevokeSession" THEN {r.target}
                                  ELSE IF op = "RevokeAllSession" THEN r.issued ELSE {})
          /\ doubt' = doubt \cup (IF op = "RevokeSession" THEN {r.target}
                                  ELSE IF op = "RevokeAllSession"
                                  THEN DOMAIN issued \cup {rq[q].own : q \in {q \in Procs : Busy(q)}} ELSE {})
    /\ UNCHANGED <<st, now>>

Tick == now < MaxTime /\ now' = now + 1 /\ UNCHANGED <<st, rq, issued, ended, doubt>>

Next ==
    \/ \E p \in Procs :
          \/ \E kind \in Requests, own, target \in SessionIds, token \in BOOLEAN : Arrive(p, kind, own, target, token)
          \/ Command(p)
          \/ Respond(p)
    \/ Tick

Spec == Init /\ [][Next]_vars

\* The operation p is answering.
Answering(p, op) == Busy(p) /\ rq[p].at = "done" /\ Head(rq[p].ops) = op

Revoking(id) ==
    \E p \in Procs : Busy(p) /\ LET last == rq[p].ops[Len(rq[p].ops)]
                                IN last = "RevokeAllSession" \/ (last = "RevokeSession" /\ rq[p].target = id)

\* The user may count on this session.
Active(id) == id \in DOMAIN issued \ doubt /\ now < issued[id] /\ ~Revoking(id)

\* A session whose end was answered (log out, the revoke button, a change of the
\* password) is never again taken for a login by a request sent after it.
EndedStaysEnded ==
    \A p \in Procs : Answering(p, "RetrieveSessionByKey") /\ rq[p].own \in rq[p].ended => rq[p].ans # "session"

\* docs/session.org: "Sessions aren't the kind of things that can be seemingly
\* exist to you *some* of the times." An active session passes every check.
ActiveIsAccepted ==
    \A p \in Procs : Busy(p) /\ rq[p].at = "done" /\ rq[p].own \in rq[p].issued /\ Active(rq[p].own) =>
        CASE Head(rq[p].ops) = "RetrieveSessionByKey" -> rq[p].ans = "session"
          [] Head(rq[p].ops) = "VerifySessionExist" -> rq[p].ans = "true"
          [] Head(rq[p].ops) = "VerifySessionFull" /\ rq[p].token -> rq[p].ans = "true"
          [] OTHER -> TRUE

\* docs/session.org: "=/setting/session= lists the active sessions of the
\* logged-in user": every one that is active, and none that had ended.
SessionsAreListed ==
    \A p \in Procs : Answering(p, "RetrieveSession") =>
        /\ rq[p].ans = "list"
        /\ \A id \in rq[p].issued : Active(id) => id \in rq[p].res
        /\ rq[p].res \cap rq[p].ended = {}
====
