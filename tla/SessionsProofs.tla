---- MODULE SessionsProofs ----
(***************************************************************************)
(* Proofs about the sessions, for any number of requests and sessions: in  *)
(* the table of the SQLite store, and in the in-memory one.                *)
(***************************************************************************)
EXTENDS Sessions, Integers, TLAPS

Kinds == {"login", "check", "page", "sessions", "revoke", "logout", "password"}
SessionsAssumption == Requests \subseteq Kinds /\ Lifetime \in Nat /\ MaxTime \in Nat

Operations == {"RegisterSession", "RetrieveSession", "RetrieveSessionByKey", "RevokeSession", "RevokeAllSession",
               "VerifySessionExist", "VerifySessionFull"}

\* What is left of a request: only a login registers, by its one operation, and
\* what revokes comes last.
Rest(ops) ==
    /\ ops \in Seq(Operations) /\ ops # <<>>
    /\ ops[1] = "RegisterSession" => Len(ops) = 1
    /\ \A i \in 2..Len(ops) : ops[i] # "RegisterSession"
    /\ \A i \in 1..Len(ops) : ops[i] \in {"RevokeSession", "RevokeAllSession"} => i = Len(ops)
    /\ "password" \in Requests \/ \A i \in 1..Len(ops) : ops[i] # "RevokeAllSession"

\* Before that a request only looks.
Looks(s) ==
    s \in Seq(Operations) /\ s # <<>> /\ \A i \in 1..Len(s) : s[i] \notin {"RegisterSession", "RevokeSession", "RevokeAllSession"}

LEMMA Longer ==
    ASSUME NEW s \in Seq(Operations), s # <<>>, NEW x \in Operations
    PROVE  /\ s \o <<x>> \in Seq(Operations) /\ s \o <<x>> # <<>> /\ Len(s \o <<x>>) = Len(s) + 1 /\ Len(s) \in Nat \ {0}
           /\ \A i \in 1..Len(s) : (s \o <<x>>)[i] = s[i]
           /\ (s \o <<x>>)[Len(s) + 1] = x
OBVIOUS

LEMMA LooksOn ==
    ASSUME NEW s, Looks(s), NEW x \in {"RetrieveSession", "RetrieveSessionByKey", "VerifySessionFull"}
    PROVE  Looks(s \o <<x>>)
<1>1. x \in Operations
  BY DEF Operations
<1>2. s \in Seq(Operations) /\ s # <<>>
  BY DEF Looks
<1>3. PICK t : t = s \o <<x>>
  BY Zenon
<1>4. /\ t \in Seq(Operations) /\ t # <<>> /\ Len(t) = Len(s) + 1 /\ Len(s) \in Nat
      /\ \A i \in 1..Len(s) : t[i] = s[i]
      /\ t[Len(s) + 1] = x
  BY <1>1, <1>2, <1>3, Longer
<1>5. \A i \in 1..Len(t) : i \in 1..Len(s) \/ i = Len(s) + 1
  BY <1>4
<1>6. Looks(t)
  BY <1>4, <1>5 DEF Looks
<1> QED
  BY <1>3, <1>6

LEMMA EndsSo ==
    ASSUME NEW s, Looks(s), NEW x \in Operations \ {"RegisterSession"}, x = "RevokeAllSession" => "password" \in Requests
    PROVE  Rest(s \o <<x>>) /\ Head(s \o <<x>>) # "RegisterSession"
<1>2. s \in Seq(Operations) /\ s # <<>>
  BY DEF Looks
<1>3. PICK t : t = s \o <<x>>
  BY Zenon
<1>4. /\ t \in Seq(Operations) /\ t # <<>> /\ Len(t) = Len(s) + 1 /\ Len(s) \in Nat \ {0}
      /\ \A i \in 1..Len(s) : t[i] = s[i]
      /\ t[Len(s) + 1] = x
  BY <1>2, <1>3, Longer
<1>5. \A i \in 1..Len(t) : i \in 1..Len(s) \/ i = Len(t)
  BY <1>4
<1>6. \A i \in 1..Len(t) : t[i] # "RegisterSession"
  BY <1>4, <1>5 DEF Looks
<1>7. Head(t) = t[1] /\ 1 \in 1..Len(t)
  BY <1>4
<1>8. Rest(t)
  BY <1>4, <1>5, <1>6, <1>7 DEF Looks, Rest
<1> QED
  BY <1>3, <1>6, <1>7, <1>8

LEMMA Scripts ==
    ASSUME SessionsAssumption, NEW kind \in Requests
    PROVE  Rest(Script(kind)) /\ (Head(Script(kind)) = "RegisterSession" <=> kind = "login")
<1>0. Looks(<<"RetrieveSessionByKey">>)
  BY DEF Looks, Operations
<1>1. CASE kind = "login"
  BY <1>1 DEF Script, Login, Rest, Operations
<1>2. CASE kind = "check"
  BY <1>2 DEF Script, CheckUserSession, Rest, Operations
<1>3. CASE kind = "page"
  BY <1>3 DEF Script, LoginRequired, Rest, Operations
<1>4. CASE kind = "sessions"
  BY <1>0, <1>4, EndsSo DEF Script, ListSessions, LoginRequired, Operations
<1>5. Looks(<<"RetrieveSessionByKey">> \o <<"RetrieveSessionByKey">>)
  BY <1>0, LooksOn
<1>6. Looks(<<"RetrieveSessionByKey">> \o <<"RetrieveSessionByKey">> \o <<"VerifySessionFull">>)
  BY <1>5, LooksOn
<1>7. CASE kind = "revoke"
  BY <1>6, <1>7, EndsSo DEF Script, RevokeOther, LoginRequired, CSRFCheck, Operations
<1>8. CASE kind = "logout"
  <2>1. Looks(<<"RetrieveSessionByKey">> \o <<"VerifySessionFull">>)
    BY <1>0, LooksOn
  <2> QED
    BY <1>8, <2>1, EndsSo DEF Script, Logout, CSRFCheck, Operations
<1>9. CASE kind = "password"
  BY <1>6, <1>9, EndsSo DEF Script, ChangePassword, LoginRequired, CSRFCheck, Operations
<1> QED
  BY <1>1, <1>2, <1>3, <1>4, <1>7, <1>8, <1>9 DEF SessionsAssumption, Kinds

LEMMA RestOfRest ==
    ASSUME NEW ops, Rest(ops), Len(ops) > 1
    PROVE  Rest(Tail(ops)) /\ Head(Tail(ops)) # "RegisterSession" /\ Head(ops) # "RegisterSession"
<1>0. ops \in Seq(Operations) /\ ops # <<>>
  BY DEF Rest
<1>1. PICK t : t = Tail(ops)
  BY Zenon
<1>2. t \in Seq(Operations) /\ Len(t) = Len(ops) - 1 /\ Len(ops) \in Nat /\ \A i \in 1..Len(t) : t[i] = ops[i + 1]
  BY <1>0, <1>1
<1>3. \A i \in 1..Len(t) : i + 1 \in 2..Len(ops) /\ i + 1 \in 1..Len(ops)
  BY <1>2
<1>4. t # <<>> /\ Head(t) = t[1] /\ Head(ops) = ops[1] /\ 1 \in 1..Len(t)
  BY <1>0, <1>2
<1>5. ASSUME NEW i \in 1..Len(t), t[i] \in {"RevokeSession", "RevokeAllSession"} PROVE i = Len(t)
  <2>1. i + 1 = Len(ops)
    BY <1>2, <1>3, <1>5 DEF Rest
  <2> QED
    BY <1>2, <2>1
<1>6. \A i \in 1..Len(t) : t[i] # "RegisterSession"
  BY <1>2, <1>3 DEF Rest
<1>7. "password" \in Requests \/ \A i \in 1..Len(t) : t[i] # "RevokeAllSession"
  BY <1>2, <1>3 DEF Rest
<1>8. Rest(t) /\ Head(t) # "RegisterSession"
  BY <1>2, <1>4, <1>5, <1>6, <1>7 DEF Rest
<1> QED
  BY <1>1, <1>4, <1>8 DEF Rest

\* A request under way.  A session id that is being registered is nobody's yet, all
\* others were handed out; whoever revokes has taken the record away; and what was
\* told about the past stays true.
RequestFields == {"ops", "own", "target", "token", "at", "ans", "left", "res", "n", "t", "issued", "ended"}
StoreFields == {"list", "listTill", "rec"}
First(r) == Head(r.ops)

\* The commands of the in-memory store.
Stages(r) ==
    /\ First(r) = "RegisterSession" => r.at \in {"start", "list", "record", "done"}
    /\ First(r) = "RevokeSession" => r.at \in {"start", "get", "list", "done"}
    /\ First(r) \in {"VerifySessionExist", "VerifySessionFull"} => r.at \in {"start", "record", "done"}

Asked(r) ==
    /\ DOMAIN r = RequestFields /\ Rest(r.ops) /\ r.at # "idle"
    /\ r.issued \subseteq DOMAIN issued /\ r.ended \subseteq ended
    /\ First(r) = "RegisterSession" => r.own \notin DOMAIN issued
    /\ First(r) # "RegisterSession" => r.own \in DOMAIN issued /\ r.target \in DOMAIN issued
    /\ First(r) = "RevokeSession" /\ r.at # "start" => r.target \notin DOMAIN st.rec
    /\ First(r) = "RevokeAllSession" /\ r.at = "done" => r.issued \cap DOMAIN st.rec = {}
    /\ First(r) = "RetrieveSessionByKey" /\ r.at = "done" /\ r.ans = "session" => r.own \notin r.ended
    /\ Store = "in-memory" => Stages(r)

Registers(r) == r # Idle /\ First(r) = "RegisterSession"

EndInv ==
    /\ DOMAIN st = StoreFields /\ DOMAIN rq = Procs
    /\ \A p \in Procs : rq[p] = Idle \/ Asked(rq[p])
    /\ \A p, q \in Procs : p # q /\ Registers(rq[p]) /\ Registers(rq[q]) => rq[p].own # rq[q].own
    /\ ended \subseteq DOMAIN issued /\ ended \cap DOMAIN st.rec = {}

\* What the next command of a request does to the store and to the request.
Does(r, x) ==
    /\ DOMAIN x.st = StoreFields
    /\ DOMAIN x.r = RequestFields /\ x.r.at # "idle" /\ x.r.ops = r.ops /\ x.r.own = r.own /\ x.r.target = r.target
    /\ x.r.token = r.token /\ x.r.issued = r.issued /\ x.r.ended = r.ended
    /\ \A id \in DOMAIN x.st.rec : id \in DOMAIN st.rec \/ (First(r) = "RegisterSession" /\ id = r.own)
    /\ First(r) = "RevokeSession" => r.target \notin DOMAIN x.st.rec /\ x.r.at # "start"
    /\ First(r) = "RevokeAllSession" /\ x.r.at = "done" => r.issued \cap DOMAIN x.st.rec = {}
    /\ First(r) = "RetrieveSessionByKey" /\ x.r.at = "done" /\ x.r.ans = "session" => r.own \in DOMAIN st.rec
    /\ Store = "in-memory" => Stages(x.r)

LEMMA HeadIsOperation == ASSUME NEW r, Rest(r.ops) PROVE First(r) \in Operations
BY DEF Rest, First


\* What stays of a request when a command is over.
Same(r, y) ==
    /\ DOMAIN y = RequestFields /\ y.ops = r.ops /\ y.own = r.own /\ y.target = r.target /\ y.token = r.token
    /\ y.issued = r.issued /\ y.ended = r.ended

LEMMA Answers ==
    ASSUME NEW s, NEW r, DOMAIN r = RequestFields, NEW a
    PROVE  /\ S!Answer(s, r, a).st = s /\ Same(r, S!Answer(s, r, a).r)
           /\ S!Answer(s, r, a).r.at = "done" /\ S!Answer(s, r, a).r.ans = a
           /\ S!Answer(s, r, a).r.t = r.t /\ S!Answer(s, r, a).r.res = r.res
           /\ S!To(s, r, a).st = s /\ Same(r, S!To(s, r, a).r) /\ S!To(s, r, a).r.at = a
<1>1. PICK y : y = [r EXCEPT !.at = "done", !.ans = a]
  OBVIOUS
<1>2. Same(r, y) /\ y.at = "done" /\ y.ans = a /\ y.t = r.t /\ y.res = r.res
  BY <1>1 DEF Same, RequestFields
<1>3. PICK z : z = [r EXCEPT !.at = a]
  BY Zenon
<1>4. Same(r, z) /\ z.at = a
  BY <1>3 DEF Same, RequestFields
<1> QED
  BY <1>1, <1>2, <1>3, <1>4, Zenon DEF S!Answer, S!To

LEMMA RowAdded ==
    ASSUME NEW s, DOMAIN s = StoreFields, NEW id, NEW row
    PROVE  /\ DOMAIN S!Insert(s, id, row) = StoreFields /\ DOMAIN S!Insert(s, id, row).rec = DOMAIN s.rec \cup {id}
           /\ \A i \in DOMAIN s.rec \cup {id} : S!Insert(s, id, row).rec[i] = IF i = id THEN row ELSE s.rec[i]
BY DEF StoreFields, S!Insert, S!Put

LEMMA RowDropped ==
    ASSUME NEW s, DOMAIN s = StoreFields, NEW id
    PROVE  /\ DOMAIN S!WithoutRec(s, id) = StoreFields /\ DOMAIN S!WithoutRec(s, id).rec = DOMAIN s.rec \ {id}
           /\ \A i \in DOMAIN s.rec \ {id} : S!WithoutRec(s, id).rec[i] = s.rec[i]
BY DEF StoreFields, S!WithoutRec, S!Drop

\* The next command of a request, for the SQLite store: what it leaves of the table,
\* and what it answers.
SqliteRow(r, x) ==
    /\ DOMAIN x.st = StoreFields /\ Same(r, x.r) /\ x.r.at \in {"done", "revoke"}
    /\ First(r) = "RegisterSession" =>
          /\ x.r.at = "done" /\ x.r.t = now + Lifetime /\ DOMAIN x.st.rec = DOMAIN st.rec \cup {r.own}
          /\ \A i \in DOMAIN x.st.rec : x.st.rec[i] = IF i = r.own THEN [expire |-> now + Lifetime] ELSE st.rec[i]
    /\ First(r) # "RegisterSession" =>
          DOMAIN x.st.rec \subseteq DOMAIN st.rec /\ \A i \in DOMAIN x.st.rec : x.st.rec[i] = st.rec[i]
    /\ First(r) = "RetrieveSession" =>
          x.r.at = "done" /\ x.st = st /\ x.r.ans = "list" /\ x.r.res = {i \in DOMAIN st.rec : st.rec[i].expire > now}
    /\ First(r) = "RevokeSession" => x.r.at = "done" /\ DOMAIN x.st.rec = DOMAIN st.rec \ {r.target}
    /\ First(r) = "RevokeAllSession" => x.r.at = "done" /\ DOMAIN x.st.rec = {}
    /\ First(r) \in {"RetrieveSessionByKey", "VerifySessionExist", "VerifySessionFull"} =>
          /\ x.r.at = "revoke" => x.st = st /\ r.own \in DOMAIN st.rec /\ now >= st.rec[r.own].expire
          /\ x.r.at = "done" =>
                \/ r.at = "revoke" /\ DOMAIN x.st.rec = DOMAIN st.rec \ {r.own} /\ x.r.ans \in {"nil", "false"}
                \/ r.own \notin DOMAIN st.rec /\ x.st = st /\ x.r.ans \in {"nil", "false"}
                \/ /\ r.own \in DOMAIN st.rec /\ x.st = st
                   /\ First(r) = "RetrieveSessionByKey" => x.r.ans = "session"
                   /\ First(r) = "VerifySessionExist" => x.r.ans = "true"
                   /\ First(r) = "VerifySessionFull" /\ r.token => x.r.ans = "true"

LEMMA SqliteCommand ==
    ASSUME Store = "sqlite", DOMAIN st = StoreFields, NEW r, DOMAIN r = RequestFields, First(r) \in Operations
    PROVE  SqliteRow(r, InitializeDatabase(r))
<1> SUFFICES ASSUME NEW x, x = InitializeDatabase(r) PROVE SqliteRow(r, x)
  OBVIOUS
<1>1. CASE First(r) = "RegisterSession"
  <2>1. PICK y : y = [r EXCEPT !.t = now + Lifetime]
    BY Zenon
  <2>2. DOMAIN y = RequestFields /\ Same(r, y) /\ y.t = now + Lifetime
    BY <2>1 DEF RequestFields, Same
  <2>3. x = S!Answer(S!Insert(st, r.own, [expire |-> now + Lifetime]), y, "session")
    BY <1>1, <2>1 DEF InitializeDatabase, First, S!RegisterSession
  <2>4. x.st = S!Insert(st, r.own, [expire |-> now + Lifetime]) /\ Same(y, x.r) /\ x.r.at = "done"
    BY <2>2, <2>3, Answers
  <2>5. x.r.t = now + Lifetime
    BY <2>2, <2>3, Answers
  <2>6. Same(r, x.r)
    BY <2>2, <2>4 DEF Same
  <2>7. /\ DOMAIN x.st = StoreFields /\ DOMAIN x.st.rec = DOMAIN st.rec \cup {r.own}
        /\ \A i \in DOMAIN x.st.rec : x.st.rec[i] = IF i = r.own THEN [expire |-> now + Lifetime] ELSE st.rec[i]
    BY <2>4, RowAdded
  <2> QED
    BY <1>1, <2>4, <2>5, <2>6, <2>7 DEF SqliteRow
<1>2. CASE First(r) = "RetrieveSession"
  <2>1. PICK y : y = [r EXCEPT !.res = {i \in DOMAIN st.rec : st.rec[i].expire > now}]
    BY Zenon
  <2>2. DOMAIN y = RequestFields /\ Same(r, y) /\ y.res = {i \in DOMAIN st.rec : st.rec[i].expire > now}
    BY <2>1 DEF RequestFields, Same
  <2>3. x = S!Answer(st, y, "list")
    BY <1>2, <2>1 DEF InitializeDatabase, First, S!RetrieveSession
  <2>4. x.st = st /\ Same(y, x.r) /\ x.r.at = "done" /\ x.r.ans = "list"
    BY <2>2, <2>3, Answers
  <2>5. x.r.res = y.res
    BY <2>2, <2>3, Answers
  <2>6. Same(r, x.r)
    BY <2>2, <2>4 DEF Same
  <2> QED
    BY <1>2, <2>2, <2>4, <2>5, <2>6 DEF SqliteRow
<1>3. CASE First(r) = "RevokeSession"
  <2>1. x = S!Answer(S!WithoutRec(st, r.target), r, "nil")
    BY <1>3 DEF InitializeDatabase, First, S!RevokeSession
  <2>2. x.st = S!WithoutRec(st, r.target) /\ Same(r, x.r) /\ x.r.at = "done"
    BY <2>1, Answers
  <2>3. /\ DOMAIN x.st = StoreFields /\ DOMAIN x.st.rec = DOMAIN st.rec \ {r.target}
        /\ \A i \in DOMAIN x.st.rec : x.st.rec[i] = st.rec[i]
    BY <2>2, RowDropped
  <2> QED
    BY <1>3, <2>2, <2>3 DEF SqliteRow
<1>4. CASE First(r) = "RevokeAllSession"
  <2>1. x = S!Answer([st EXCEPT !.rec = S!NoKeys], r, "nil")
    BY <1>4 DEF InitializeDatabase, First, S!RevokeAllSession
  <2>2. x.st = [st EXCEPT !.rec = S!NoKeys] /\ Same(r, x.r) /\ x.r.at = "done"
    BY <2>1, Answers
  <2>3. DOMAIN x.st = StoreFields /\ DOMAIN x.st.rec = {}
    BY <2>2 DEF StoreFields, S!NoKeys
  <2> QED
    BY <1>4, <2>2, <2>3 DEF SqliteRow
<1>5. CASE First(r) \in {"RetrieveSessionByKey", "VerifySessionExist", "VerifySessionFull"}
  <2>1. PICK no, yes : /\ x = S!Check(st, r, now, no, yes) /\ no \in {"nil", "false"}
                       /\ First(r) = "RetrieveSessionByKey" => yes = "session"
                       /\ First(r) = "VerifySessionExist" => yes = "true"
                       /\ First(r) = "VerifySessionFull" /\ r.token => yes = "true"
    BY <1>5 DEF InitializeDatabase, First, S!RetrieveSessionByKey, S!VerifySessionExist, S!VerifySessionFull
  <2>2. CASE r.at = "revoke"
    <3>1. x = S!Answer(S!WithoutRec(st, r.own), r, no)
      BY <2>1, <2>2 DEF S!Check
    <3>2. x.st = S!WithoutRec(st, r.own) /\ Same(r, x.r) /\ x.r.at = "done" /\ x.r.ans = no
      BY <3>1, Answers
    <3>3. /\ DOMAIN x.st = StoreFields /\ DOMAIN x.st.rec = DOMAIN st.rec \ {r.own}
          /\ \A i \in DOMAIN x.st.rec : x.st.rec[i] = st.rec[i]
      BY <3>2, RowDropped
    <3> QED
      BY <1>5, <2>1, <2>2, <3>2, <3>3 DEF SqliteRow
  <2>3. CASE r.at # "revoke" /\ r.own \notin DOMAIN st.rec
    <3>1. x = S!Answer(st, r, no)
      BY <2>1, <2>3 DEF S!Check
    <3>2. x.st = st /\ Same(r, x.r) /\ x.r.at = "done" /\ x.r.ans = no
      BY <3>1, Answers
    <3> QED
      BY <1>5, <2>1, <2>3, <3>2 DEF SqliteRow
  <2>4. CASE r.at # "revoke" /\ r.own \in DOMAIN st.rec /\ S!Expired(st, r.own, now)
    <3>1. x = S!To(st, r, "revoke")
      BY <2>1, <2>4 DEF S!Check
    <3>2. x.st = st /\ Same(r, x.r) /\ x.r.at = "revoke"
      BY <3>1, Answers
    <3> QED
      BY <1>5, <2>4, <3>2 DEF SqliteRow, S!Expired
  <2>5. CASE r.at # "revoke" /\ r.own \in DOMAIN st.rec /\ ~S!Expired(st, r.own, now)
    <3>1. x = S!Answer(st, r, yes)
      BY <2>1, <2>5 DEF S!Check
    <3>2. x.st = st /\ Same(r, x.r) /\ x.r.at = "done" /\ x.r.ans = yes
      BY <3>1, Answers
    <3> QED
      BY <1>5, <2>1, <2>5, <3>2 DEF SqliteRow
  <2> QED
    BY <2>2, <2>3, <2>4, <2>5
<1> QED
  BY <1>1, <1>2, <1>3, <1>4, <1>5 DEF Operations

LEMMA SqliteDoes ==
    ASSUME Store = "sqlite", DOMAIN st = StoreFields, NEW r, Asked(r)
    PROVE  Does(r, InitializeDatabase(r))
<1>1. First(r) \in Operations /\ DOMAIN r = RequestFields
  BY HeadIsOperation DEF Asked
<1>2. PICK x : x = InitializeDatabase(r) /\ SqliteRow(r, x)
  BY <1>1, SqliteCommand
<1>3. DOMAIN x.st = StoreFields /\ Same(r, x.r) /\ x.r.at \in {"done", "revoke"}
  BY <1>2 DEF SqliteRow
<1>4. \A id \in DOMAIN x.st.rec : id \in DOMAIN st.rec \/ (First(r) = "RegisterSession" /\ id = r.own)
  <2>1. First(r) = "RegisterSession" => DOMAIN x.st.rec = DOMAIN st.rec \cup {r.own}
    BY <1>2 DEF SqliteRow
  <2>2. First(r) # "RegisterSession" => DOMAIN x.st.rec \subseteq DOMAIN st.rec
    BY <1>2 DEF SqliteRow
  <2> QED
    BY <2>1, <2>2
<1>5. /\ First(r) = "RevokeSession" => r.target \notin DOMAIN x.st.rec
      /\ First(r) = "RevokeAllSession" => DOMAIN x.st.rec = {}
      /\ First(r) = "RetrieveSessionByKey" /\ x.r.at = "done" /\ x.r.ans = "session" => r.own \in DOMAIN st.rec
  BY <1>2 DEF SqliteRow
<1>6. Does(r, x)
  BY <1>3, <1>4, <1>5 DEF Does, Same
<1> QED
  BY <1>2, <1>6

LEMMA IdleAsks == Idle.at = "idle" /\ \A r : Asked(r) => r # Idle /\ r.at # "idle"
BY DEF Idle, Asked

LEMMA EndInvInit == ASSUME SessionsAssumption, Init PROVE EndInv
BY DEF Init, EndInv, EmptyStore, NoKeys, StoreFields, Registers

\* How the other requests see a step: sessions are handed out, ended, and taken from
\* the store; only one of theirs that is being registered comes into it.
LEMMA AskedStays ==
    ASSUME NEW x, Asked(x), DOMAIN issued \subseteq DOMAIN issued', ended \subseteq ended',
           First(x) = "RegisterSession" => x.own \notin DOMAIN issued',
           \A id \in DOMAIN issued : id \in DOMAIN st'.rec => id \in DOMAIN st.rec
    PROVE  Asked(x)'
BY DEF Asked, Stages, First

LEMMA ArriveEnds ==
    ASSUME SessionsAssumption, EndInv, NEW p \in Procs, NEW kind \in Requests, NEW own, NEW target, NEW token,
           Arrive(p, kind, own, target, token)
    PROVE  EndInv'
<1>1. PICK r : r = [ops |-> Script(kind), own |-> own, target |-> target, token |-> token,
                    at |-> "start", ans |-> "none", left |-> <<>>, res |-> {}, n |-> 0, t |-> 0,
                    issued |-> DOMAIN issued, ended |-> ended]
  BY Zenon
<1>2. /\ DOMAIN r = RequestFields /\ r.ops = Script(kind) /\ r.own = own /\ r.target = target /\ r.at = "start"
      /\ r.issued = DOMAIN issued /\ r.ended = ended
  BY <1>1 DEF RequestFields
<1>3. Rest(r.ops) /\ (First(r) = "RegisterSession" <=> kind = "login")
  BY <1>2, Scripts DEF First
<1>4. kind = "login" => own \notin DOMAIN issued /\ \A q \in Procs : rq[q].at # "idle" => rq[q].own # own
  BY DEF Arrive, Busy
<1>5. kind # "login" => own \in DOMAIN issued /\ target \in DOMAIN issued
  BY DEF Arrive
<1>6. Asked(r)
  BY <1>2, <1>3, <1>4, <1>5 DEF Asked, Stages
<1>7. DOMAIN rq' = Procs /\ \A q \in Procs : rq'[q] = IF q = p THEN r ELSE rq[q]
  BY <1>1 DEF Arrive, EndInv
<1>8. UNCHANGED <<st, issued, ended>>
  BY DEF Arrive
<1>9. \A q \in Procs : rq'[q] = Idle \/ Asked(rq'[q])
  BY <1>6, <1>7 DEF EndInv
<1>10. \A q \in Procs : rq'[q] = Idle \/ Asked(rq[q])'
  <2> SUFFICES ASSUME NEW q \in Procs, rq'[q] # Idle PROVE Asked(rq[q])'
    OBVIOUS
  <2>1. PICK y : y = rq'[q] /\ Asked(y)
    BY <1>9
  <2> QED
    BY <1>8, <2>1 DEF Asked
<1>11. \A q, w \in Procs : q # w /\ Registers(rq'[q]) /\ Registers(rq'[w]) => rq'[q].own # rq'[w].own
  <2>1. \A q \in Procs : Registers(rq[q]) => rq[q].at # "idle"
    BY IdleAsks DEF Registers, EndInv
  <2> QED
    BY <1>2, <1>3, <1>4, <1>7, <2>1 DEF EndInv, Registers
<1> QED
  BY <1>7, <1>8, <1>10, <1>11 DEF EndInv, Registers, First

LEMMA CommandEnds ==
    ASSUME EndInv, NEW p \in Procs, Command(p), Does(rq[p], InitializeDatabase(rq[p]))
    PROVE  EndInv'
<1>1. PICK r : r = rq[p]
  OBVIOUS
<1>2. PICK x : x = InitializeDatabase(r) /\ Does(r, x)
  BY <1>1
<1>3. Asked(r) /\ r.at # "done" /\ r # Idle
  BY <1>1, IdleAsks DEF EndInv, Command, Busy
<1>4. st' = x.st /\ rq' = [rq EXCEPT ![p] = x.r] /\ UNCHANGED <<issued, ended>>
  BY <1>1, <1>2 DEF Command
<1>5. DOMAIN rq' = Procs /\ \A q \in Procs : rq'[q] = IF q = p THEN x.r ELSE rq[q]
  BY <1>4 DEF EndInv
<1>6. \A id \in DOMAIN issued : id \in DOMAIN st'.rec => id \in DOMAIN st.rec
  BY <1>2, <1>3, <1>4 DEF Does, Asked
<1>7. First(x.r) = First(r) /\ x.r.own = r.own /\ x.r # Idle
  BY <1>2, IdleAsks DEF Does, First
<1>8. Asked(x.r)'
  <2>1. DOMAIN x.r = RequestFields /\ Rest(x.r.ops) /\ x.r.at # "idle" /\ x.r.issued \subseteq DOMAIN issued /\ x.r.ended \subseteq ended
    BY <1>2, <1>3 DEF Does, Asked
  <2>2. /\ First(r) = "RegisterSession" => x.r.own \notin DOMAIN issued
        /\ First(r) # "RegisterSession" => x.r.own \in DOMAIN issued /\ x.r.target \in DOMAIN issued
    BY <1>2, <1>3 DEF Does, Asked
  <2>3. /\ First(r) = "RevokeSession" => x.r.target \notin DOMAIN st'.rec
        /\ First(r) = "RevokeAllSession" /\ x.r.at = "done" => x.r.issued \cap DOMAIN st'.rec = {}
    BY <1>2, <1>4 DEF Does
  <2>4. First(r) = "RetrieveSessionByKey" /\ x.r.at = "done" /\ x.r.ans = "session" => x.r.own \notin x.r.ended
    BY <1>2, <1>3 DEF Does, Asked, EndInv
  <2>5. Store = "in-memory" => Stages(x.r)
    BY <1>2 DEF Does
  <2> QED
    BY <1>4, <1>7, <2>1, <2>2, <2>3, <2>4, <2>5 DEF Asked
<1>9. \A q \in Procs : (rq[q] = Idle \/ Asked(rq[q]))'
  <2> SUFFICES ASSUME NEW q \in Procs PROVE (rq[q] = Idle \/ Asked(rq[q]))'
    OBVIOUS
  <2>1. CASE q = p
    BY <1>5, <1>8, <2>1 DEF Asked
  <2>2. CASE q # p
    <3>1. PICK y : y = rq[q]
      OBVIOUS
    <3>2. y = Idle \/ Asked(y)'
      BY <1>4, <1>6, <3>1, AskedStays DEF EndInv, Asked
    <3> QED
      BY <1>5, <2>2, <3>1, <3>2 DEF Asked, Idle
  <2> QED
    BY <2>1, <2>2
<1>10. \A q, w \in Procs : q # w /\ Registers(rq'[q]) /\ Registers(rq'[w]) => rq'[q].own # rq'[w].own
  BY <1>1, <1>3, <1>5, <1>7 DEF EndInv, Registers
<1>11. ended' \cap DOMAIN st'.rec = {} /\ ended' \subseteq DOMAIN issued'
  BY <1>4, <1>6 DEF EndInv
<1>12. DOMAIN st' = StoreFields
  BY <1>2, <1>4 DEF Does
<1> QED
  BY <1>5, <1>9, <1>10, <1>11, <1>12 DEF EndInv, Registers, First

LEMMA FreshRequest ==
    ASSUME NEW r, DOMAIN r = RequestFields
    PROVE  LET y == Fresh([r EXCEPT !.ops = Tail(@)])
           IN /\ DOMAIN y = RequestFields /\ y.ops = Tail(r.ops) /\ y.own = r.own /\ y.target = r.target /\ y.token = r.token
              /\ y.issued = r.issued /\ y.ended = r.ended /\ y.at = "start" /\ y.ans = "none"
<1>1. PICK z : z = [r EXCEPT !.ops = Tail(@)]
  BY Zenon
<1>2. /\ DOMAIN z = RequestFields /\ z.ops = Tail(r.ops) /\ z.own = r.own /\ z.target = r.target /\ z.token = r.token
      /\ z.issued = r.issued /\ z.ended = r.ended
  BY <1>1, Zenon DEF RequestFields
<1>3. PICK y : y = [z EXCEPT !.at = "start", !.ans = "none", !.left = <<>>, !.res = {}, !.n = 0, !.t = 0]
  OBVIOUS
<1>4. /\ DOMAIN y = RequestFields /\ y.ops = z.ops /\ y.own = z.own /\ y.target = z.target /\ y.token = z.token
      /\ y.issued = z.issued /\ y.ended = z.ended /\ y.at = "start" /\ y.ans = "none"
  BY <1>2, <1>3 DEF RequestFields
<1> QED
  BY <1>1, <1>2, <1>3, <1>4 DEF Fresh

LEMMA RespondEnds ==
    ASSUME EndInv, NEW p \in Procs, Respond(p)
    PROVE  EndInv'
<1>1. PICK r : r = rq[p]
  OBVIOUS
<1>2. Asked(r) /\ r.at = "done" /\ r # Idle
  BY <1>1, IdleAsks DEF EndInv, Respond, Busy
<1>3. PICK y : y = IF GoesOn(r.ans) /\ Len(r.ops) > 1 THEN Fresh([r EXCEPT !.ops = Tail(@)]) ELSE Idle
  OBVIOUS
<1>4. /\ st' = st /\ rq' = [rq EXCEPT ![p] = y]
      /\ issued' = IF First(r) = "RegisterSession" THEN Put(issued, r.own, r.t) ELSE issued
      /\ ended' = ended \cup (IF r.ans # "nil" THEN {} ELSE IF First(r) = "RevokeSession" THEN {r.target}
                              ELSE IF First(r) = "RevokeAllSession" THEN r.issued ELSE {})
  BY <1>1, <1>3 DEF Respond, First
<1>5. DOMAIN rq' = Procs /\ \A q \in Procs : rq'[q] = IF q = p THEN y ELSE rq[q]
  BY <1>4 DEF EndInv
<1>6. DOMAIN issued' = IF First(r) = "RegisterSession" THEN DOMAIN issued \cup {r.own} ELSE DOMAIN issued
  BY <1>4 DEF Put
<1>7. ended \subseteq ended' /\ ended' \subseteq DOMAIN issued /\ ended' \cap DOMAIN st.rec = {}
  BY <1>2, <1>4 DEF Asked, EndInv
<1>8. y = Idle \/ (Asked(y)' /\ First(y) # "RegisterSession")
  <2> SUFFICES ASSUME y # Idle PROVE Asked(y)' /\ First(y) # "RegisterSession"
    OBVIOUS
  <2>1. Len(r.ops) > 1 /\ y = Fresh([r EXCEPT !.ops = Tail(@)])
    BY <1>3
  <2>2. Rest(Tail(r.ops)) /\ Head(Tail(r.ops)) # "RegisterSession" /\ First(r) # "RegisterSession"
    BY <1>2, <2>1, RestOfRest DEF Asked, First
  <2>3. /\ DOMAIN y = RequestFields /\ y.ops = Tail(r.ops) /\ y.own = r.own /\ y.target = r.target
        /\ y.issued = r.issued /\ y.ended = r.ended /\ y.at = "start"
    BY <1>2, <2>1, FreshRequest, Zenon DEF Asked
  <2>4. First(y) # "RegisterSession"
    BY <2>2, <2>3, Zenon DEF First
  <2>5. y.issued \subseteq DOMAIN issued' /\ y.ended \subseteq ended' /\ y.own \in DOMAIN issued' /\ y.target \in DOMAIN issued'
    BY <1>2, <1>6, <1>7, <2>2, <2>3 DEF Asked
  <2> QED
    BY <2>2, <2>3, <2>4, <2>5 DEF Asked, Stages
<1>9. \A q \in Procs : q # p /\ First(r) = "RegisterSession" /\ Registers(rq[q]) => rq[q].own # r.own
  BY <1>1, <1>2 DEF EndInv, Registers
<1>10. \A q \in Procs : (rq[q] = Idle \/ Asked(rq[q]))'
  <2> SUFFICES ASSUME NEW q \in Procs PROVE (rq[q] = Idle \/ Asked(rq[q]))'
    OBVIOUS
  <2>1. CASE q = p
    BY <1>5, <1>8, <2>1 DEF Asked, Idle
  <2>2. CASE q # p
    <3>1. PICK w : w = rq[q]
      OBVIOUS
    <3>2. ASSUME w # Idle PROVE Asked(w)'
      <4>1. Asked(w)
        BY <3>1, <3>2 DEF EndInv
      <4>2. First(w) = "RegisterSession" => w.own \notin DOMAIN issued'
        BY <1>6, <1>9, <2>2, <3>1, <3>2, <4>1 DEF Asked, Registers
      <4> QED
        BY <1>4, <1>6, <1>7, <4>1, <4>2, AskedStays
    <3> QED
      BY <1>5, <2>2, <3>1, <3>2 DEF Asked, Idle
  <2> QED
    BY <2>1, <2>2
<1>11. \A q, w \in Procs : q # w /\ Registers(rq'[q]) /\ Registers(rq'[w]) => rq'[q].own # rq'[w].own
  BY <1>5, <1>8 DEF EndInv, Registers
<1> QED
  BY <1>4, <1>5, <1>6, <1>7, <1>10, <1>11 DEF EndInv, Registers, First

LEMMA EndInvStep ==
    ASSUME SessionsAssumption, EndInv, [Next]_(vars),
           \A p \in Procs : Command(p) => Does(rq[p], InitializeDatabase(rq[p]))
    PROVE  EndInv'
<1>1. CASE UNCHANGED vars
  BY <1>1 DEF EndInv, vars, Asked, Registers
<1>2. CASE Tick
  BY <1>2 DEF EndInv, Tick, Asked, Registers
<1>3. ASSUME NEW p \in Procs, Command(p) PROVE EndInv'
  BY <1>3, CommandEnds
<1>4. ASSUME NEW p \in Procs, NEW kind \in Requests, NEW own \in SessionIds, NEW target \in SessionIds, NEW token \in BOOLEAN,
             Arrive(p, kind, own, target, token)
      PROVE  EndInv'
  BY <1>4, ArriveEnds
<1> QED
  BY <1>1, <1>2, <1>3, <1>4, RespondEnds DEF Next

LEMMA EndedFollows == ASSUME EndInv PROVE EndedStaysEnded
BY IdleAsks DEF EndInv, Asked, First, EndedStaysEnded, Answering, Busy

\* The in-memory store.
LEMMA CacheAnswers ==
    ASSUME NEW s, NEW r, NEW y, Same(r, y), NEW a
    PROVE  /\ I!Answer(s, y, a).st = s /\ Same(r, I!Answer(s, y, a).r)
           /\ I!Answer(s, y, a).r.at = "done" /\ I!Answer(s, y, a).r.ans = a
           /\ I!To(s, y, a).st = s /\ Same(r, I!To(s, y, a).r) /\ I!To(s, y, a).r.at = a
<1>1. PICK u : u = [y EXCEPT !.at = "done", !.ans = a]
  OBVIOUS
<1>2. Same(r, u) /\ u.at = "done" /\ u.ans = a
  BY <1>1 DEF Same, RequestFields
<1>3. PICK z : z = [y EXCEPT !.at = a]
  BY Zenon
<1>4. Same(r, z) /\ z.at = a
  BY <1>3 DEF Same, RequestFields
<1> QED
  BY <1>1, <1>2, <1>3, <1>4, Zenon DEF I!Answer, I!To

LEMMA StillSame ==
    ASSUME NEW r, DOMAIN r = RequestFields, NEW v
    PROVE  Same(r, r) /\ Same(r, [r EXCEPT !.left = v]) /\ Same(r, [r EXCEPT !.t = v])
<1>1. PICK y, z : y = [r EXCEPT !.left = v] /\ z = [r EXCEPT !.t = v]
  BY Zenon
<1>2. Same(r, y) /\ Same(r, z) /\ Same(r, r)
  BY <1>1 DEF Same, RequestFields
<1> QED
  BY <1>1, <1>2

LEMMA CacheDropped ==
    ASSUME DOMAIN st = StoreFields, NEW id
    PROVE  DOMAIN I!WithoutRec(st, id) = StoreFields /\ DOMAIN I!WithoutRec(st, id).rec = DOMAIN st.rec \ {id}
BY DEF StoreFields, I!WithoutRec, I!Drop

LEMMA CacheListed ==
    ASSUME DOMAIN st = StoreFields, NEW l
    PROVE  DOMAIN I!RegisterList(st, now, l) = StoreFields /\ I!RegisterList(st, now, l).rec = st.rec
BY DEF StoreFields, I!RegisterList

LEMMA CacheAdded ==
    ASSUME DOMAIN st = StoreFields, NEW id, NEW row
    PROVE  /\ DOMAIN I!Insert(st, id, row) = StoreFields
           /\ DOMAIN I!Insert(st, id, row).rec = DOMAIN st.rec \cup {id}
BY DEF StoreFields, I!Insert, I!Put

\* A command that leaves the records alone, but for one that it drops.
Drops(r, x, id) ==
    DOMAIN x.st = StoreFields /\ Same(r, x.r) /\ DOMAIN x.st.rec \in {DOMAIN st.rec, DOMAIN st.rec \ {id}}

LEMMA CacheDoes ==
    ASSUME Store = "in-memory", "password" \notin Requests, DOMAIN st = StoreFields, NEW r, Asked(r), r.at # "done"
    PROVE  Does(r, InitializeDatabase(r))
<1>0. First(r) \in Operations /\ DOMAIN r = RequestFields /\ Rest(r.ops) /\ Stages(r) /\ Same(r, r)
  BY HeadIsOperation, StillSame, Zenon DEF Asked
<1>1. First(r) # "RevokeAllSession"
  BY <1>0 DEF Rest, First
<1> SUFFICES ASSUME NEW x, x = InitializeDatabase(r) PROVE Does(r, x)
  OBVIOUS
<1>2. CASE First(r) = "RegisterSession"
  <2>1. x = I!RegisterSession(st, r, now)
    BY <1>2 DEF InitializeDatabase, First
  <2>2. PICK y, z : y = [r EXCEPT !.left = I!GetList(st, now)] /\ z = [r EXCEPT !.t = now + Lifetime]
    BY Zenon
  <2>3. Same(r, y) /\ Same(r, z)
    BY <1>0, <2>2, StillSame, Zenon
  <2>4. CASE r.at = "start"
    <3>1. x = I!To(st, y, "list")
      BY <2>1, <2>2, <2>4 DEF I!RegisterSession
    <3>2. x.st = st /\ Same(r, x.r) /\ x.r.at = "list"
      BY <2>3, <3>1, CacheAnswers
    <3> QED
      BY <1>2, <3>2 DEF Does, Same, Stages, First
  <2>5. CASE r.at = "list"
    <3>1. PICK l : x = I!To(I!RegisterList(st, now, l), r, "record")
      BY <2>1, <2>5 DEF I!RegisterSession
    <3>2. x.st = I!RegisterList(st, now, l) /\ Same(r, x.r) /\ x.r.at = "record"
      BY <1>0, <3>1, CacheAnswers
    <3>3. DOMAIN x.st = StoreFields /\ x.st.rec = st.rec
      BY <3>2, CacheListed
    <3> QED
      BY <1>2, <3>2, <3>3 DEF Does, Same, Stages, First
  <2>6. CASE r.at = "record"
    <3>1. PICK row : x = I!Answer(I!Insert(st, r.own, row), z, "session")
      BY <2>1, <2>2, <2>6 DEF I!RegisterSession
    <3>2. x.st = I!Insert(st, r.own, row) /\ Same(r, x.r) /\ x.r.at = "done"
      BY <2>3, <3>1, CacheAnswers
    <3>3. DOMAIN x.st = StoreFields /\ DOMAIN x.st.rec = DOMAIN st.rec \cup {r.own}
      BY <3>2, CacheAdded
    <3> QED
      BY <1>2, <3>2, <3>3 DEF Does, Same, Stages, First
  <2> QED
    BY <1>0, <1>2, <2>4, <2>5, <2>6 DEF Stages
<1>3. CASE First(r) = "RetrieveSession"
  <2>1. x = I!RetrieveSession(st, r, now)
    BY <1>3 DEF InitializeDatabase, First
  <2>2. PICK y, z : y = [r EXCEPT !.left = I!GetList(st, now)] /\ z = [r EXCEPT !.left = Tail(r.left)]
    BY Zenon
  <2>3. Same(r, y) /\ Same(r, z)
    BY <1>0, <2>2, StillSame, Zenon
  <2>4. \/ x = I!To(st, y, "walk") \/ x = I!Answer(st, r, "err") \/ x = I!To(st, z, "walk")
        \/ x = I!To(I!WithoutRec(st, Head(r.left)), z, "walk")
    BY <2>1, <2>2 DEF I!RetrieveSession
  <2>5. Same(r, x.r) /\ x.r.at \in {"walk", "done"} /\ x.st \in {st, I!WithoutRec(st, Head(r.left))}
    <3>1. CASE x = I!To(st, y, "walk")
      BY <2>3, <3>1, CacheAnswers
    <3>2. CASE x = I!Answer(st, r, "err")
      BY <1>0, <3>2, CacheAnswers
    <3>3. CASE x = I!To(st, z, "walk")
      BY <2>3, <3>3, CacheAnswers
    <3>4. CASE x = I!To(I!WithoutRec(st, Head(r.left)), z, "walk")
      BY <2>3, <3>4, CacheAnswers
    <3> QED
      BY <2>4, <3>1, <3>2, <3>3, <3>4, Zenon
  <2>6. Drops(r, x, Head(r.left))
    BY <2>5, CacheDropped, Zenon DEF Drops
  <2> QED
    BY <1>3, <2>5, <2>6 DEF Does, Drops, Same, Stages, First
<1>4. CASE First(r) = "RetrieveSessionByKey"
  <2>1. x = I!RetrieveSessionByKey(st, r, now)
    BY <1>4 DEF InitializeDatabase, First
  <2>2. \/ x = I!Answer(st, r, "nil") \/ x = I!Answer(I!WithoutRec(st, r.own), r, "nil")
        \/ x = I!Answer(st, r, "session") /\ r.own \in DOMAIN st.rec
    BY <2>1 DEF I!RetrieveSessionByKey, I!Found
  <2>3. /\ Same(r, x.r) /\ x.r.at = "done" /\ x.st \in {st, I!WithoutRec(st, r.own)}
        /\ x.r.ans = "session" => r.own \in DOMAIN st.rec
    BY <1>0, <2>2, CacheAnswers
  <2>4. Drops(r, x, r.own)
    BY <2>3, CacheDropped, Zenon DEF Drops
  <2> QED
    BY <1>4, <2>3, <2>4 DEF Does, Drops, Same, Stages, First
<1>5. CASE First(r) = "RevokeSession"
  <2>1. x = I!RevokeSession(st, r, now)
    BY <1>5 DEF InitializeDatabase, First
  <2>2. CASE r.at = "start"
    <3>1. x = I!To(I!WithoutRec(st, r.target), r, "get")
      BY <2>1, <2>2 DEF I!RevokeSession
    <3>2. x.st = I!WithoutRec(st, r.target) /\ Same(r, x.r) /\ x.r.at = "get"
      BY <1>0, <3>1, CacheAnswers
    <3>3. DOMAIN x.st = StoreFields /\ DOMAIN x.st.rec = DOMAIN st.rec \ {r.target}
      BY <3>2, CacheDropped
    <3> QED
      BY <1>5, <3>2, <3>3 DEF Does, Same, Stages, First
  <2>3. CASE r.at = "get"
    <3>1. PICK y : y = [r EXCEPT !.left = I!GetList(st, now)]
      BY Zenon
    <3>2. Same(r, y)
      BY <1>0, <3>1, StillSame, Zenon
    <3>3. x = I!Answer(st, r, "nil") \/ x = I!To(st, y, "list")
      BY <2>1, <2>3, <3>1 DEF I!RevokeSession
    <3>4. x.st = st /\ Same(r, x.r) /\ x.r.at \in {"done", "list"}
      <4>1. CASE x = I!Answer(st, r, "nil")
        BY <1>0, <4>1, CacheAnswers
      <4>2. CASE x = I!To(st, y, "list")
        BY <3>2, <4>2, CacheAnswers
      <4> QED
        BY <3>3, <4>1, <4>2, Zenon
    <3>5. r.target \notin DOMAIN st.rec
      BY <1>5, <2>3 DEF Asked
    <3> QED
      BY <1>5, <3>4, <3>5 DEF Does, Same, Stages, First
  <2>4. CASE r.at = "list"
    <3>1. PICK l : x = I!Answer(I!RegisterList(st, now, l), r, "nil")
      BY <2>1, <2>4 DEF I!RevokeSession
    <3>2. x.st = I!RegisterList(st, now, l) /\ Same(r, x.r) /\ x.r.at = "done"
      BY <1>0, <3>1, CacheAnswers
    <3>3. DOMAIN x.st = StoreFields /\ x.st.rec = st.rec /\ r.target \notin DOMAIN st.rec
      BY <1>5, <2>4, <3>2, CacheListed DEF Asked
    <3> QED
      BY <1>5, <3>2, <3>3 DEF Does, Same, Stages, First
  <2> QED
    BY <1>0, <1>5, <2>2, <2>3, <2>4 DEF Stages
<1>6. CASE First(r) \in {"VerifySessionExist", "VerifySessionFull"}
  <2>1. PICK yes : x = I!Verify(st, r, now, yes)
    BY <1>6 DEF InitializeDatabase, First, I!VerifySessionExist, I!VerifySessionFull
  <2>2. \/ x = I!To(st, r, "record") \/ x = I!Answer(st, r, "false") \/ x = I!Answer(st, r, yes)
        \/ x = I!Answer(I!WithoutRec(st, r.own), r, "false")
    BY <1>0, <1>6, <2>1 DEF I!Verify, Stages
  <2>3. Same(r, x.r) /\ x.r.at \in {"record", "done"} /\ x.st \in {st, I!WithoutRec(st, r.own)}
    <3>1. CASE x = I!To(st, r, "record")
      BY <1>0, <3>1, CacheAnswers
    <3>2. CASE \E s, a : x = I!Answer(s, r, a) /\ s \in {st, I!WithoutRec(st, r.own)}
      BY <1>0, <3>2, CacheAnswers
    <3> QED
      BY <2>2, <3>1, <3>2
  <2>4. Drops(r, x, r.own)
    BY <2>3, CacheDropped, Zenon DEF Drops
  <2> QED
    BY <1>6, <2>3, <2>4 DEF Does, Drops, Same, Stages, First
<1> QED
  BY <1>0, <1>1, <1>2, <1>3, <1>4, <1>5, <1>6 DEF Operations

\* A session whose log out, revocation (setting-session.go) or change of the
\* password was answered is never again taken for a login (login.go, RetrieveSessionByKey)
\* by a request that is sent after it, for any number of overlapping requests, each of
\* which may be stopped between any two operations of its store.  It holds of the
\* SQLite store (pkg/gitus/session/sqlite), and of the in-memory one
\* (pkg/gitus/session/in_memory) as long as nobody changes the password:
\* RevokeAllSession leaves the last record there.
THEOREM EndedSessionsStayEnded ==
    ASSUME SessionsAssumption, Store = "sqlite" \/ (Store = "in-memory" /\ "password" \notin Requests)
    PROVE  Spec => []EndedStaysEnded
<1>1. ASSUME EndInv, [Next]_(vars) PROVE EndInv'
  <2>1. ASSUME NEW p \in Procs, Command(p) PROVE Does(rq[p], InitializeDatabase(rq[p]))
    <3>1. Asked(rq[p]) /\ rq[p].at # "done"
      BY <1>1, <2>1, IdleAsks DEF EndInv, Command, Busy
    <3> QED
      BY <1>1, <3>1, SqliteDoes, CacheDoes DEF EndInv
  <2> QED
    BY <1>1, <2>1, EndInvStep
<1> QED
  BY <1>1, EndInvInit, EndedFollows, PTL DEF Spec

\* The SQLite store again: a session the user may count on is in the table, with the
\* instant it was handed out with, unless it is gone: met by a revocation that was
\* carried out, answered or not, or expired.
Gone(id) ==
    \/ id \in doubt
    \/ \E p \in Procs : Answering(p, "RevokeAllSession")
    \/ \E p \in Procs : Answering(p, "RevokeSession") /\ rq[p].target = id
    \/ id \in DOMAIN issued /\ now >= issued[id]

Checks == {"RetrieveSessionByKey", "VerifySessionExist", "VerifySessionFull"}
Yes(r) ==
    /\ First(r) = "RetrieveSessionByKey" => r.ans = "session"
    /\ First(r) = "VerifySessionExist" => r.ans = "true"
    /\ First(r) = "VerifySessionFull" /\ r.token => r.ans = "true"

\* What a request has found out.
Judged(r) ==
    /\ First(r) = "RegisterSession" /\ r.at = "done" =>
          /\ r.t \in Nat /\ (r.own \in DOMAIN st.rec \/ Gone(r.own))
          /\ r.own \in DOMAIN st.rec => st.rec[r.own].expire = r.t
    /\ First(r) \in Checks /\ r.at = "revoke" => now >= issued[r.own]
    /\ First(r) \in Checks /\ r.at = "done" => Yes(r) \/ Gone(r.own)
    /\ First(r) = "RetrieveSession" /\ r.at = "done" =>
          r.ans = "list" /\ (\A id \in r.issued : id \in r.res \/ Gone(id)) /\ r.res \cap r.ended = {}

ActiveInv ==
    /\ now \in Nat /\ \A id \in DOMAIN issued : issued[id] \in Nat
    /\ \A id \in DOMAIN issued : id \in DOMAIN st.rec => st.rec[id].expire = issued[id]
    /\ \A id \in DOMAIN issued : id \in DOMAIN st.rec \/ Gone(id)
    /\ \A p \in Procs : rq[p] = Idle \/ Judged(rq[p])

LEMMA ActiveInvInit == ASSUME Init PROVE ActiveInv
BY DEF Init, ActiveInv, NoKeys

\* What is handed out stays so, with its instant, and the clock runs on.
Onwards ==
    /\ now' \in Nat /\ now <= now' /\ doubt \subseteq doubt'
    /\ \A id \in DOMAIN issued : id \in DOMAIN issued' /\ issued'[id] = issued[id]

\* Gone is gone, of the sessions somebody has or is about to get.
GoneStays(x) == \A id : (id \in DOMAIN issued \/ id = x.own) /\ Gone(id) => Gone(id)'

\* Rows that go are of such sessions.
RowsStay(x) ==
    /\ \A id : (id \in DOMAIN issued \/ id = x.own) /\ id \in DOMAIN st.rec => id \in DOMAIN st'.rec \/ Gone(id)'
    /\ First(x) = "RegisterSession" /\ x.own \in DOMAIN st'.rec => x.own \in DOMAIN st.rec /\ st'.rec[x.own] = st.rec[x.own]

LEMMA JudgedStays ==
    ASSUME ActiveInv, NEW x, Asked(x), Judged(x), Onwards, GoneStays(x), RowsStay(x)
    PROVE  Judged(x)'
<1>1. ASSUME First(x) = "RegisterSession", x.at = "done"
      PROVE  /\ x.t \in Nat /\ (x.own \in DOMAIN st'.rec \/ Gone(x.own)')
             /\ x.own \in DOMAIN st'.rec => st'.rec[x.own].expire = x.t
  BY <1>1 DEF Judged, GoneStays, RowsStay
<1>2. ASSUME First(x) \in Checks, x.at = "revoke" PROVE now' >= issued'[x.own]
  <2>1. x.own \in DOMAIN issued /\ now >= issued[x.own]
    BY <1>2 DEF Judged, Asked, Checks
  <2> QED
    BY <2>1 DEF Onwards, ActiveInv
<1>3. ASSUME First(x) \in Checks, x.at = "done" PROVE Yes(x) \/ Gone(x.own)'
  BY <1>3 DEF Judged, GoneStays
<1>4. ASSUME First(x) = "RetrieveSession", x.at = "done"
      PROVE  x.ans = "list" /\ (\A id \in x.issued : id \in x.res \/ Gone(id)') /\ x.res \cap x.ended = {}
  BY <1>4 DEF Judged, GoneStays, Asked
<1> QED
  BY <1>1, <1>2, <1>3, <1>4 DEF Judged

\* How Gone is kept: whoever answers a revocation leaves those it met in doubt.
LEMMA GoneAfter ==
    ASSUME Onwards, ActiveInv, NEW id, Gone(id),
           \A p \in Procs : Answering(p, "RevokeAllSession") => Answering(p, "RevokeAllSession")' \/ id \in doubt',
           \A p \in Procs : Answering(p, "RevokeSession") =>
               (Answering(p, "RevokeSession")' /\ rq'[p].target = rq[p].target) \/ rq[p].target \in doubt'
    PROVE  Gone(id)'
<1>1. CASE id \in DOMAIN issued /\ now >= issued[id]
  BY <1>1 DEF Gone, Onwards, ActiveInv
<1>2. CASE \E p \in Procs : Answering(p, "RevokeAllSession")
  BY <1>2 DEF Gone
<1>3. CASE \E p \in Procs : Answering(p, "RevokeSession") /\ rq[p].target = id
  BY <1>3 DEF Gone
<1>4. CASE id \in doubt
  BY <1>4 DEF Gone, Onwards
<1> QED
  BY <1>1, <1>2, <1>3, <1>4 DEF Gone

\* A step of p, seen by the others.
LEMMA ActiveStep ==
    ASSUME EndInv, ActiveInv, Onwards, NEW p \in Procs, NEW y, rq' = [rq EXCEPT ![p] = y], y = Idle \/ Judged(y)',
           \A id \in DOMAIN issued' : /\ issued'[id] \in Nat /\ (id \in DOMAIN st'.rec \/ Gone(id)')
                                      /\ id \in DOMAIN st'.rec => st'.rec[id].expire = issued'[id],
           \A q \in Procs : q # p /\ rq[q] # Idle => GoneStays(rq[q]) /\ RowsStay(rq[q])
    PROVE  ActiveInv'
<1>1. \A q \in Procs : rq'[q] = IF q = p THEN y ELSE rq[q]
  BY DEF EndInv
<1>2. \A q \in Procs : (rq[q] = Idle \/ Judged(rq[q]))'
  <2> SUFFICES ASSUME NEW q \in Procs PROVE (rq[q] = Idle \/ Judged(rq[q]))'
    OBVIOUS
  <2>1. PICK w : w = rq'[q]
    OBVIOUS
  <2>2. w = Idle \/ Judged(w)'
    <3>1. CASE q = p
      BY <1>1, <2>1, <3>1
    <3>2. CASE q # p
      BY <1>1, <2>1, <3>2, JudgedStays DEF EndInv, ActiveInv
    <3> QED
      BY <3>1, <3>2
  <2> QED
    BY <2>1, <2>2, Zenon DEF Judged, Yes, First
<1> QED
  BY <1>2 DEF ActiveInv, Onwards

LEMMA ArriveActive ==
    ASSUME EndInv, ActiveInv, NEW p \in Procs, NEW kind, NEW own, NEW target, NEW token,
           Arrive(p, kind, own, target, token)
    PROVE  ActiveInv'
<1>1. PICK r : r = [ops |-> Script(kind), own |-> own, target |-> target, token |-> token,
                    at |-> "start", ans |-> "none", left |-> <<>>, res |-> {}, n |-> 0, t |-> 0,
                    issued |-> DOMAIN issued, ended |-> ended]
  BY Zenon
<1>2. r.at = "start"
  BY <1>1
<1>3. rq' = [rq EXCEPT ![p] = r] /\ rq[p].at = "idle" /\ UNCHANGED <<st, now, issued, ended, doubt>>
  BY <1>1 DEF Arrive, Busy
<1>4. Onwards
  BY <1>3, SMTT(30) DEF Onwards, ActiveInv
<1>5. \A q \in Procs : q # p => rq'[q] = rq[q]
  BY <1>3 DEF EndInv
<1>6. ASSUME NEW id, Gone(id) PROVE Gone(id)'
  <2>1. \A q \in Procs : \A op : Answering(q, op) => Answering(q, op)' /\ rq'[q].target = rq[q].target
    BY <1>3, <1>5 DEF Answering, Busy
  <2> QED
    BY <1>3, <1>4, <1>6, <2>1, GoneAfter
<1>7. \A x : GoneStays(x) /\ RowsStay(x)
  BY <1>3, <1>6 DEF GoneStays, RowsStay
<1>8. Judged(r)'
  BY <1>2 DEF Judged
<1> QED
  BY <1>3, <1>4, <1>6, <1>7, <1>8, ActiveStep, Zenon DEF ActiveInv

LEMMA TickActive == ASSUME EndInv, ActiveInv, Tick PROVE ActiveInv'
<1>1. UNCHANGED <<st, rq, issued, ended, doubt>> /\ now' = now + 1
  BY DEF Tick
<1>2. Onwards
  BY <1>1 DEF Onwards, ActiveInv
<1>3. ASSUME NEW id, Gone(id) PROVE Gone(id)'
  BY <1>1, <1>3 DEF Gone, Answering, Busy, ActiveInv
<1>4. \A x : GoneStays(x) /\ RowsStay(x)
  BY <1>1, <1>3 DEF GoneStays, RowsStay
<1>5. ASSUME NEW q \in Procs PROVE (rq[q] = Idle \/ Judged(rq[q]))'
  <2>1. PICK w : w = rq[q]
    OBVIOUS
  <2>2. w = Idle \/ Judged(w)'
    BY <1>2, <1>4, <2>1, JudgedStays DEF EndInv, ActiveInv
  <2> QED
    BY <1>1, <2>1, <2>2 DEF Judged, Yes, First
<1> QED
  BY <1>1, <1>2, <1>3, <1>5 DEF ActiveInv, Onwards

LEMMA CommandActive ==
    ASSUME SessionsAssumption, Store = "sqlite", EndInv, ActiveInv, NEW p \in Procs, Command(p)
    PROVE  ActiveInv'
<1>1. PICK r : r = rq[p]
  OBVIOUS
<1>2. Asked(r) /\ Judged(r) /\ r.at # "done" /\ r # Idle
  BY <1>1, IdleAsks DEF EndInv, ActiveInv, Command, Busy
<1>3. First(r) \in Operations /\ DOMAIN r = RequestFields /\ DOMAIN st = StoreFields
  BY <1>2, HeadIsOperation DEF Asked, EndInv
<1>4. PICK x : x = InitializeDatabase(r) /\ SqliteRow(r, x)
  BY <1>3, SqliteCommand
<1>5. st' = x.st /\ rq' = [rq EXCEPT ![p] = x.r] /\ UNCHANGED <<now, issued, ended, doubt>>
  BY <1>1, <1>4 DEF Command
<1>6. Same(r, x.r) /\ First(x.r) = First(r) /\ x.r.at \in {"done", "revoke"}
  BY <1>4 DEF SqliteRow, Same, First
<1>7. Onwards
  BY <1>5 DEF Onwards, ActiveInv
<1>8. rq'[p] = x.r /\ \A q \in Procs : q # p => rq'[q] = rq[q]
  BY <1>5 DEF EndInv
<1>9. ASSUME NEW id, Gone(id) PROVE Gone(id)'
  <2>1. \A q \in Procs : \A op : Answering(q, op) => Answering(q, op)' /\ rq'[q].target = rq[q].target
    BY <1>1, <1>2, <1>8 DEF Answering, Busy
  <2> QED
    BY <1>7, <1>9, <2>1, GoneAfter
<1>10. ASSUME NEW op, First(r) = op, x.r.at = "done" PROVE Answering(p, op)' /\ rq'[p].target = r.target
  BY <1>6, <1>8, <1>10 DEF Answering, Busy, Same, First
<1>11. First(r) \in Checks /\ r.at = "revoke" => r.own \in DOMAIN issued /\ Gone(r.own)
  BY <1>2 DEF Judged, Gone, Asked, Checks
<1>12. ASSUME NEW id \in DOMAIN st.rec, id \notin DOMAIN st'.rec PROVE Gone(id)'
  <2>1. CASE First(r) = "RevokeAllSession"
    <3>1. Answering(p, "RevokeAllSession")'
      BY <1>4, <1>10, <2>1 DEF SqliteRow
    <3> QED
      BY <3>1 DEF Gone
  <2>2. CASE First(r) = "RevokeSession"
    <3>1. Answering(p, "RevokeSession")' /\ rq'[p].target = id
      BY <1>4, <1>5, <1>10, <1>12, <2>2 DEF SqliteRow
    <3> QED
      BY <3>1 DEF Gone
  <2>3. CASE First(r) \in Checks
    <3>1. r.at = "revoke" /\ id = r.own
      BY <1>4, <1>5, <1>12, <2>3 DEF SqliteRow, Checks
    <3> QED
      BY <1>9, <1>11, <2>3, <3>1
  <2>4. CASE First(r) \in {"RegisterSession", "RetrieveSession"}
    BY <1>4, <1>5, <1>12, <2>4 DEF SqliteRow
  <2> QED
    BY <1>3, <2>1, <2>2, <2>3, <2>4 DEF Operations, Checks
<1>13. ASSUME NEW id \in DOMAIN st'.rec, First(r) = "RegisterSession" => id # r.own
       PROVE  id \in DOMAIN st.rec /\ st'.rec[id] = st.rec[id]
  <2>1. CASE First(r) = "RegisterSession"
    BY <1>4, <1>5, <1>13, <2>1 DEF SqliteRow
  <2>2. CASE First(r) # "RegisterSession"
    BY <1>4, <1>5, <1>13, <2>2 DEF SqliteRow
  <2> QED
    BY <2>1, <2>2
<1>14. \A q \in Procs : q # p /\ rq[q] # Idle => GoneStays(rq[q]) /\ RowsStay(rq[q])
  <2> SUFFICES ASSUME NEW q \in Procs, q # p, rq[q] # Idle PROVE GoneStays(rq[q]) /\ RowsStay(rq[q])
    OBVIOUS
  <2>1. First(r) = "RegisterSession" /\ First(rq[q]) = "RegisterSession" => rq[q].own # r.own
    BY <1>1, <1>2 DEF EndInv, Registers
  <2> QED
    BY <1>9, <1>12, <1>13, <2>1 DEF GoneStays, RowsStay
<1>15. Judged(x.r)'
  <2>1. CASE First(r) = "RegisterSession"
    <3>1. x.r.t \in Nat /\ x.r.own \in DOMAIN st'.rec /\ st'.rec[x.r.own].expire = x.r.t
      BY <1>4, <1>5, <1>6, <2>1, SMTT(30) DEF SqliteRow, Same, SessionsAssumption, ActiveInv
    <3> QED
      BY <1>6, <2>1, <3>1 DEF Judged, Checks
  <2>2. CASE First(r) \in Checks /\ x.r.at = "revoke"
    <3>1. r.own \in DOMAIN issued /\ r.own \in DOMAIN st.rec /\ now >= st.rec[r.own].expire
      BY <1>2, <1>4, <2>2, Zenon DEF SqliteRow, Asked, Checks
    <3>2. now' >= issued'[x.r.own]
      BY <1>5, <1>6, <3>1 DEF ActiveInv, Same
    <3> QED
      BY <1>6, <2>2, <3>2 DEF Judged, Checks
  <2>3. CASE First(r) \in Checks /\ x.r.at = "done"
    <3>1. \/ r.at = "revoke" \/ r.own \notin DOMAIN st.rec
          \/ /\ First(r) = "RetrieveSessionByKey" => x.r.ans = "session"
             /\ First(r) = "VerifySessionExist" => x.r.ans = "true"
             /\ First(r) = "VerifySessionFull" /\ r.token => x.r.ans = "true"
      BY <1>4, <2>3 DEF SqliteRow, Checks
    <3>2. r.own \in DOMAIN issued
      BY <1>2, <2>3 DEF Asked, Checks
    <3>3. Yes(x.r) \/ Gone(r.own)
      BY <1>6, <1>11, <2>3, <3>1, <3>2 DEF ActiveInv, Yes, Same
    <3>4. Yes(x.r) \/ Gone(x.r.own)'
      BY <1>6, <1>9, <3>3 DEF Same
    <3> QED
      BY <1>6, <2>3, <3>4 DEF Judged, Checks
  <2>4. CASE First(r) = "RetrieveSession"
    <3>1. x.r.ans = "list" /\ x.r.res = {i \in DOMAIN st.rec : st.rec[i].expire > now} /\ x.r.issued = r.issued /\ x.r.ended = r.ended
      BY <1>4, <1>6, <2>4 DEF SqliteRow, Same
    <3>2. ASSUME NEW id \in r.issued PROVE id \in x.r.res \/ Gone(id)'
      <4>1. id \in DOMAIN issued /\ issued[id] \in Nat /\ now \in Nat
        BY <1>2 DEF Asked, ActiveInv
      <4>2. CASE id \notin DOMAIN st.rec
        BY <1>9, <4>1, <4>2 DEF ActiveInv
      <4>3. CASE id \in DOMAIN st.rec
        <5>1. st.rec[id].expire = issued[id]
          BY <4>1, <4>3 DEF ActiveInv
        <5>2. now >= issued[id] => Gone(id)
          BY <4>1 DEF Gone
        <5> QED
          BY <1>9, <3>1, <4>1, <4>3, <5>1, <5>2
      <4> QED
        BY <4>2, <4>3
    <3>3. x.r.res \cap x.r.ended = {}
      BY <1>2, <3>1 DEF Asked, EndInv
    <3> QED
      BY <1>6, <2>4, <3>1, <3>2, <3>3 DEF Judged, Checks
  <2>5. CASE First(r) \in {"RevokeSession", "RevokeAllSession"}
    BY <1>6, <2>5 DEF Judged, Checks
  <2> QED
    BY <1>3, <1>6, <2>1, <2>2, <2>3, <2>4, <2>5 DEF Operations, Checks
<1>16. ASSUME NEW id \in DOMAIN issued'
       PROVE  /\ issued'[id] \in Nat /\ (id \in DOMAIN st'.rec \/ Gone(id)')
              /\ id \in DOMAIN st'.rec => st'.rec[id].expire = issued'[id]
  <2>1. id \in DOMAIN issued /\ issued' = issued /\ issued[id] \in Nat
    BY <1>5 DEF ActiveInv
  <2>2. First(r) = "RegisterSession" => id # r.own
    BY <1>2, <2>1 DEF Asked
  <2>3. id \in DOMAIN st'.rec \/ Gone(id)'
    BY <1>9, <1>12, <2>1 DEF ActiveInv
  <2>4. id \in DOMAIN st'.rec => st'.rec[id].expire = issued[id]
    BY <1>13, <2>1, <2>2 DEF ActiveInv
  <2> QED
    BY <2>1, <2>3, <2>4
<1> QED
  BY <1>5, <1>7, <1>14, <1>15, <1>16, ActiveStep, Zenon

LEMMA RespondActive == ASSUME EndInv, ActiveInv, NEW p \in Procs, Respond(p) PROVE ActiveInv'
<1>1. PICK r : r = rq[p]
  OBVIOUS
<1>2. Asked(r) /\ Judged(r) /\ r.at = "done" /\ r # Idle
  BY <1>1, IdleAsks DEF EndInv, ActiveInv, Respond, Busy
<1>3. PICK y : y = IF GoesOn(r.ans) /\ Len(r.ops) > 1 THEN Fresh([r EXCEPT !.ops = Tail(@)]) ELSE Idle
  OBVIOUS
<1>4. /\ st' = st /\ now' = now /\ rq' = [rq EXCEPT ![p] = y]
      /\ issued' = IF First(r) = "RegisterSession" THEN Put(issued, r.own, r.t) ELSE issued
      /\ doubt \subseteq doubt'
      /\ First(r) = "RevokeSession" => r.target \in doubt'
      /\ First(r) = "RevokeAllSession" => DOMAIN issued \subseteq doubt' /\ \A q \in Procs : rq[q].at # "idle" => rq[q].own \in doubt'
  BY <1>1, <1>3 DEF Respond, First, Busy
<1>5. y = Idle \/ Judged(y)'
  <2>1. y = Idle \/ y.at = "start"
    BY <1>2, <1>3, FreshRequest, Zenon DEF Asked
  <2> QED
    BY <2>1 DEF Judged
<1>6. \A q \in Procs : q # p => rq'[q] = rq[q]
  BY <1>4 DEF EndInv
<1>7. /\ First(r) # "RegisterSession" => issued' = issued
      /\ First(r) = "RegisterSession" => /\ DOMAIN issued' = DOMAIN issued \cup {r.own} /\ issued'[r.own] = r.t
                                         /\ r.own \notin DOMAIN issued /\ \A id \in DOMAIN issued : issued'[id] = issued[id]
  BY <1>2, <1>4 DEF Asked, Put
<1>8. Onwards
  <2>1. \A id \in DOMAIN issued : id \in DOMAIN issued' /\ issued'[id] = issued[id]
    BY <1>7
  <2> QED
    BY <1>4, <2>1 DEF Onwards, ActiveInv
<1>9. ASSUME NEW id, Gone(id), id \in DOMAIN issued \/ \E q \in Procs : rq[q].at # "idle" /\ rq[q].own = id PROVE Gone(id)'
  <2>1. ASSUME NEW q \in Procs, Answering(q, "RevokeAllSession") PROVE Answering(q, "RevokeAllSession")' \/ id \in doubt'
    BY <1>1, <1>4, <1>6, <1>9, <2>1 DEF Answering, Busy, First
  <2>2. ASSUME NEW q \in Procs, Answering(q, "RevokeSession")
        PROVE  (Answering(q, "RevokeSession")' /\ rq'[q].target = rq[q].target) \/ rq[q].target \in doubt'
    BY <1>1, <1>4, <1>6, <2>2 DEF Answering, Busy, First
  <2> QED
    BY <1>8, <1>9, <2>1, <2>2, GoneAfter
<1>10. \A q \in Procs : q # p /\ rq[q] # Idle => GoneStays(rq[q]) /\ RowsStay(rq[q])
  <2> SUFFICES ASSUME NEW q \in Procs, rq[q] # Idle PROVE GoneStays(rq[q]) /\ RowsStay(rq[q])
    OBVIOUS
  <2>1. rq[q].at # "idle"
    BY IdleAsks DEF EndInv
  <2> QED
    BY <1>4, <1>9, <2>1 DEF GoneStays, RowsStay
<1>11. ASSUME NEW id \in DOMAIN issued'
       PROVE  /\ issued'[id] \in Nat /\ (id \in DOMAIN st'.rec \/ Gone(id)')
              /\ id \in DOMAIN st'.rec => st'.rec[id].expire = issued'[id]
  <2>1. CASE id \in DOMAIN issued
    <3>1. issued'[id] = issued[id]
      BY <1>8, <2>1 DEF Onwards
    <3> QED
      BY <1>4, <1>9, <2>1, <3>1 DEF ActiveInv
  <2>2. CASE id \notin DOMAIN issued
    <3>1. First(r) = "RegisterSession" /\ id = r.own /\ issued'[id] = r.t
      BY <1>7, <1>11, <2>2
    <3>2. r.t \in Nat /\ (id \in DOMAIN st.rec \/ Gone(id)) /\ (id \in DOMAIN st.rec => st.rec[id].expire = r.t)
      BY <1>2, <3>1 DEF Judged
    <3>3. rq[p].at # "idle" /\ rq[p].own = id
      BY <1>1, <1>2, <3>1
    <3> QED
      BY <1>4, <1>9, <3>1, <3>2, <3>3
  <2> QED
    BY <2>1, <2>2
<1> QED
  BY <1>4, <1>5, <1>8, <1>10, <1>11, ActiveStep, Zenon

LEMMA ActiveInvStep ==
    ASSUME SessionsAssumption, Store = "sqlite", EndInv, ActiveInv, [Next]_(vars)
    PROVE  ActiveInv'
<1>1. CASE UNCHANGED vars
  BY <1>1, ZenonT(40) DEF ActiveInv, vars, Judged, Yes, First, Gone, Answering, Busy
<1>2. ASSUME NEW p \in Procs, NEW kind \in Requests, NEW own \in SessionIds, NEW target \in SessionIds, NEW token \in BOOLEAN,
             Arrive(p, kind, own, target, token)
      PROVE  ActiveInv'
  BY <1>2, ArriveActive
<1> QED
  BY <1>1, <1>2, TickActive, CommandActive, RespondActive DEF Next

\* A revocation that was carried out is one that is under way, and so a session
\* that is gone is not active.
LEMMA GoneIsNotActive == ASSUME EndInv, ActiveInv, NEW id, Gone(id) PROVE ~Active(id)
<1>1. ASSUME NEW p \in Procs, NEW op \in {"RevokeSession", "RevokeAllSession"}, Answering(p, op)
      PROVE  Busy(p) /\ rq[p].ops[Len(rq[p].ops)] = op
  <2>1. Busy(p) /\ First(rq[p]) = op /\ Rest(rq[p].ops)
    BY <1>1, IdleAsks DEF Answering, Busy, First, EndInv, Asked
  <2>2. PICK ops : ops = rq[p].ops
    OBVIOUS
  <2>3. ops \in Seq(Operations) /\ ops # <<>> /\ Head(ops) = op
    BY <2>1, <2>2 DEF Rest, First
  <2>4. Len(ops) \in Nat \ {0} /\ ops[1] = op
    BY <2>3
  <2>5. 1 = Len(ops)
    <3>1. \A i \in 1..Len(ops) : ops[i] \in {"RevokeSession", "RevokeAllSession"} => i = Len(ops)
      BY <2>1, <2>2 DEF Rest
    <3>2. 1 \in 1..Len(ops) /\ ops[1] \in {"RevokeSession", "RevokeAllSession"}
      BY <2>4
    <3> QED
      BY <3>1, <3>2, Zenon
  <2> QED
    BY <2>1, <2>2, <2>4, <2>5
<1>2. ASSUME NEW p \in Procs, Answering(p, "RevokeAllSession") PROVE Revoking(id)
  BY <1>1, <1>2 DEF Revoking
<1>3. ASSUME NEW p \in Procs, Answering(p, "RevokeSession"), rq[p].target = id PROVE Revoking(id)
  BY <1>1, <1>3 DEF Revoking
<1>4. ASSUME id \in DOMAIN issued, now >= issued[id] PROVE ~(now < issued[id])
  BY <1>4 DEF ActiveInv
<1> QED
  BY <1>2, <1>3, <1>4 DEF Gone, Active

\* The SQLite store keeps what docs/session.org promises: a session that was handed
\* out, has not expired and is not being revoked passes every check that a request
\* makes (RetrieveSessionByKey, VerifySessionExist, VerifySessionFull) and is on the
\* page that lists the sessions, where none is whose end was answered before.
THEOREM ActiveSessionsHold ==
    ASSUME SessionsAssumption, Store = "sqlite"
    PROVE  Spec => [](ActiveIsAccepted /\ SessionsAreListed)
<1>1. ASSUME EndInv, [Next]_(vars) PROVE EndInv'
  <2>1. ASSUME NEW p \in Procs, Command(p) PROVE Does(rq[p], InitializeDatabase(rq[p]))
    <3>1. Asked(rq[p]) /\ rq[p].at # "done"
      BY <1>1, <2>1, IdleAsks DEF EndInv, Command, Busy
    <3> QED
      BY <1>1, <3>1, SqliteDoes DEF EndInv
  <2> QED
    BY <1>1, <2>1, EndInvStep
<1>2. ASSUME EndInv, ActiveInv PROVE ActiveIsAccepted
  <2> SUFFICES ASSUME NEW p \in Procs, Busy(p), rq[p].at = "done", Active(rq[p].own)
               PROVE  First(rq[p]) \in Checks => Yes(rq[p])
    BY DEF ActiveIsAccepted, First, Checks, Yes
  <2>1. Judged(rq[p])
    BY <1>2, IdleAsks DEF ActiveInv, Busy
  <2> QED
    BY <1>2, <2>1, GoneIsNotActive DEF Judged
<1>3. ASSUME EndInv, ActiveInv PROVE SessionsAreListed
  <2> SUFFICES ASSUME NEW p \in Procs, Answering(p, "RetrieveSession")
               PROVE  /\ rq[p].ans = "list" /\ rq[p].res \cap rq[p].ended = {}
                      /\ \A id \in rq[p].issued : Active(id) => id \in rq[p].res
    BY DEF SessionsAreListed
  <2>1. Judged(rq[p]) /\ First(rq[p]) = "RetrieveSession" /\ rq[p].at = "done"
    BY <1>3, IdleAsks DEF ActiveInv, Answering, Busy, First
  <2> QED
    BY <1>3, <2>1, GoneIsNotActive DEF Judged
<1> QED
  BY <1>1, <1>2, <1>3, EndInvInit, ActiveInvInit, ActiveInvStep, PTL DEF Spec
====
