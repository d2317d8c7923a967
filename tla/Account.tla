---- MODULE Account ----
(***************************************************************************)
(* The life of an account (src/routes/controller: register.go,             *)
(* confirm-registration.go, verify-email.go, setting-user-info.go,         *)
(* setting-email.go; admin: reg-request.go, new-user.go, user-list.go,     *)
(* receipt-list.go, edit_user/info.go; src/pkg/gitus/newuser), and the     *)
(* receipt system (src/pkg/gitus/receipt: rsif.go, sqlite/main.go,         *)
(* postgres/main.go).  Requests run side by side; each call of the         *)
(* database or of the receipt system is a step.  A person is their         *)
(* address, and registers with a password only they know; mails arrive,    *)
(* and links may be passed on.  Time counts in the unit of the timeouts.   *)
(***************************************************************************)
EXTENDS Integers, FiniteSets, Sequences

CONSTANTS Procs,
          ReceiptStore, \* "sqlite" or "postgres"
          Zone,         \* the server's offset from UTC
          Config,      \* manualApproval, emailConfirmation, defaultStatus ("" is unset),
                       \* useNamespace, defaultNamespace ("" is none)
          Names,       \* account names that are asked for
          People,
          Standing,    \* namespaces of StartDb, with one repository each
          Requests,    \* the kinds of request that arrive
          Timeout,     \* of a receipt: 24*60
          MaxReceipts, MaxTime, MaxEmails

\* The backend: what it starts with, and its functions.
CONSTANTS StartDb, Null,
          GetUserByName(_, _), RegisterUser(_, _, _, _, _), UpdateUserStatus(_, _, _), UpdateUserInfo(_, _, _),
          HardDeleteUserByName(_, _),
          AddEmail(_, _, _), VerifyRegisteredEmail(_, _, _), DeleteRegisteredEmail(_, _, _),
          CheckIfEmailVerified(_, _, _), GetAllRegisteredEmailOfUser(_, _),
          InsertRegistrationRequest(_, _, _, _), GetRegistrationRequestByAbsId(_, _),
          ApproveRegistrationStatus(_, _, _), DeleteRequestsOf(_, _), DisapproveRegistrationRequest(_, _),
          GetNamespaceByName(_, _), RegisterNamespace(_, _, _), NamespaceACLRead(_, _),
          SetNamespaceACL(_, _, _, _, _)

Rows(t) == {t[i] : i \in DOMAIN t}

\* --- receipts: a row with a random id, a command and the time it was issued ---

\* The time a row stores, as it is read back.  PostgreSQL's TIMESTAMP keeps
\* the wall clock and drops the zone, and it is read back as UTC.
Stored(t) == IF ReceiptStore = "postgres" THEN t + Zone ELSE t

IssueReceipt(rs, rid, now, timeout, command) ==
    Append(rs, [id |-> rid, command |-> command, issueTime |-> Stored(now), timeoutMinute |-> timeout])

RetrieveReceipt(rs, rid) ==
    LET found == SelectSeq(rs, LAMBDA r : r.id = rid) IN IF found = <<>> THEN Null ELSE found[1]

CancelReceipt(rs, rid) == SelectSeq(rs, LAMBDA r : r.id # rid)

\* A fault: the last moment still counts.
ExpiredLate(r, now) == now - r.issueTime > r.timeoutMinute

Expired(r, now) == now - r.issueTime >= r.timeoutMinute

-----------------------------------------------------------------------------

VARIABLES db, rs, now,
          rq,          \* the request each process is serving
          mail,        \* receipts sent: [to, id, at]
          sess,        \* accounts with a session
          approved,    \* names an administrator approved
          proved,      \* <<name, address>>: confirmations that were accepted
          granted,     \* names an administrator gave a status
          followed,    \* <<name, address>>: verifications by the account itself
          uses         \* how often each receipt was acted on; 2 is more than once

ghosts == <<approved, proved, granted, followed, uses>>
vars == <<db, rs, now, rq, mail, sess, ghosts>>

Gates == {"approval", "confirm"}
Unusable == Gates \cup {"banned"}
Idle == [at |-> "idle"]
Repo == "repo"

Init ==
    /\ db = StartDb
    /\ rs = <<>> /\ now = 0 /\ mail = {} /\ sess = {}
    /\ rq = [p \in Procs |-> Idle]
    /\ approved = {} /\ proved = {} /\ granted = {} /\ followed = {}
    /\ uses = [i \in 1..MaxReceipts |-> 0]

Goto(p, r) == rq' = [rq EXCEPT ![p] = r]
Asking(stage, n, e) == [at |-> stage, n |-> n, e |-> e]
Confirming(stage, id, command) == [at |-> stage, id |-> id, command |-> command]
Arrive(p, kind) == rq[p] = Idle /\ kind \in Requests
At(p, stage) == rq[p].at = stage
User(n) == GetUserByName(db, n)

\* FinalStatus: the two gates are not resting states.
FinalStatus ==
    IF Config.defaultStatus \in Gates \cup {""} THEN "normal" ELSE Config.defaultStatus

\* --- setting up a new account: ProvisionNewUser ---

Provisioning(n, status) == [at |-> "provision", n |-> n, status |-> status]
Membership(n) ==
    IF Config.useNamespace /\ Config.defaultNamespace # "" THEN [at |-> "default", n |-> n] ELSE Idle

\* ensurePersonalNamespace: a namespace of that name is left alone ...
PersonalNamespace(p) ==
    /\ At(p, "provision")
    /\ LET r == rq[p]
       IN IF ~Config.useNamespace \/ r.status # "normal" \/ GetNamespaceByName(db, r.n) # Null
          THEN Goto(p, Membership(r.n))
          ELSE Goto(p, [at |-> "personal", n |-> r.n])
    /\ UNCHANGED <<db, rs, now, mail, sess, ghosts>>

\* ... and one that appeared meanwhile too.
CreatePersonal(p) ==
    /\ At(p, "personal")
    /\ LET a == RegisterNamespace(db, rq[p].n, rq[p].n)
       IN db' = a.db /\ Goto(p, IF a.err \in {"nil", "alreadyExists"} THEN Membership(rq[p].n) ELSE Idle)
    /\ UNCHANGED <<rs, now, mail, sess, ghosts>>

\* AddToDefaultNamespace: skipped when the namespace is gone; otherwise
\* SetNamespaceACL, which SQLite does in two steps.
DefaultNamespace(p) ==
    /\ At(p, "default")
    /\ Goto(p, IF GetNamespaceByName(db, Config.defaultNamespace) = Null THEN Idle
               ELSE [at |-> "aclRead", n |-> rq[p].n])
    /\ UNCHANGED <<db, rs, now, mail, sess, ghosts>>

ReadACL(p) ==
    /\ At(p, "aclRead")
    /\ Goto(p, [at |-> "acl", n |-> rq[p].n, read |-> NamespaceACLRead(db, Config.defaultNamespace)])
    /\ UNCHANGED <<db, rs, now, mail, sess, ghosts>>

AddMember(p) ==
    /\ At(p, "acl")
    /\ db' = SetNamespaceACL(db, Config.defaultNamespace, rq[p].n, {"addRepository"}, rq[p].read).db
    /\ Goto(p, Idle)
    /\ UNCHANGED <<rs, now, mail, sess, ghosts>>

\* --- sending a receipt ---

Sending(to, command, next) == [at |-> "receipt", to |-> to, command |-> command, next |-> next]

IssueAndMail(p) ==
    /\ At(p, "receipt") /\ Cardinality(mail) < MaxReceipts
    /\ LET id == Cardinality(mail) + 1
       IN /\ rs' = IssueReceipt(rs, id, now, Timeout, rq[p].command)
          /\ mail' = mail \cup {[to |-> rq[p].to, id |-> id, at |-> now]}
    /\ Goto(p, rq[p].next)
    /\ UNCHANGED <<db, now, sess, ghosts>>

\* --- POST /reg ---

\* GetUserByName ...
Register(p, n, e) ==
    /\ Arrive(p, "register") /\ User(n) = Null
    /\ Goto(p, Asking("regNamespace", n, e))
    /\ UNCHANGED <<db, rs, now, mail, sess, ghosts>>

\* ... GetNamespaceByName, and the branch taken; the personal namespace of the
\* name counts as taken too.
RegisterCheckNamespace(p) ==
    /\ At(p, "regNamespace")
    /\ LET byHand == Config.manualApproval \/ Config.defaultStatus = "approval"
       IN Goto(p, IF GetNamespaceByName(db, rq[p].n) # Null THEN Idle
                  ELSE Asking(IF byHand THEN "regRequest" ELSE "regUser", rq[p].n, rq[p].e))
    /\ UNCHANGED <<db, rs, now, mail, sess, ghosts>>

\* The request is stored before the account it is for.
RegisterRequest(p) ==
    /\ At(p, "regRequest")
    /\ db' = InsertRegistrationRequest(db, rq[p].n, rq[p].e, rq[p].e).db
    /\ Goto(p, Asking("regPending", rq[p].n, rq[p].e))
    /\ UNCHANGED <<rs, now, mail, sess, ghosts>>

\* A fault: with the status it is to end up with.
RegisterUsable(p) ==
    /\ At(p, "regPending")
    /\ db' = RegisterUser(db, rq[p].n, rq[p].e, rq[p].e, FinalStatus).db
    /\ Goto(p, Idle)
    /\ UNCHANGED <<rs, now, mail, sess, ghosts>>

RegisterPending(p) ==
    /\ At(p, "regPending")
    /\ db' = RegisterUser(db, rq[p].n, rq[p].e, rq[p].e, "approval").db
    /\ Goto(p, Idle)
    /\ UNCHANGED <<rs, now, mail, sess, ghosts>>

RegisterAccount(p) ==
    /\ At(p, "regUser")
    /\ LET r == rq[p]
           confirm == Config.emailConfirmation \/ Config.defaultStatus = "confirm"
           status == IF confirm THEN "confirm" ELSE FinalStatus
           a == RegisterUser(db, r.n, r.e, r.e, status)
       IN /\ db' = a.db
          /\ Goto(p, IF a.err # "nil" THEN Idle
                     ELSE IF confirm THEN Sending(r.e, <<"confirm", r.n, r.e>>, Idle)
                     ELSE Provisioning(r.n, status))
    /\ UNCHANGED <<rs, now, mail, sess, ghosts>>

\* --- POST /confirm-registration ---

\* The receipt is read; one that has expired is removed.
Confirm(p, id) ==
    /\ Arrive(p, "confirm")
    /\ LET re == RetrieveReceipt(rs, id)
       IN /\ re # Null
          /\ IF Expired(re, now) THEN rs' = CancelReceipt(rs, id) /\ UNCHANGED rq
             ELSE /\ re.command[1] = "confirm" /\ UNCHANGED rs
                  /\ Goto(p, Confirming("confUser", id, re.command))
    /\ UNCHANGED <<db, now, mail, sess, ghosts>>

\* A fault: the address on the receipt is not compared.
StillWaiting(u, command) == u.status = "confirm"

\* Only while the account waits for this very confirmation.
Awaits(u, command) == u.status = "confirm" /\ u.email = command[3]

\* The account is read and its password compared.
ConfirmUser(p, e) ==
    /\ At(p, "confUser")
    /\ LET u == User(rq[p].command[2])
           stale == u # Null /\ ~Awaits(u, rq[p].command)
       IN /\ rs' = IF stale THEN CancelReceipt(rs, rq[p].id) ELSE rs
          /\ Goto(p, IF u = Null \/ stale THEN Idle
                     ELSE IF u.pw # e THEN Idle ELSE Confirming("confCancel", rq[p].id, rq[p].command))
    /\ UNCHANGED <<db, now, mail, sess, ghosts>>

ConfirmCancel(p) ==
    /\ At(p, "confCancel")
    /\ rs' = CancelReceipt(rs, rq[p].id)
    /\ Goto(p, Confirming("confStatus", rq[p].id, rq[p].command))
    /\ UNCHANGED <<db, now, mail, sess, ghosts>>

ConfirmStatus(p) ==
    /\ At(p, "confStatus")
    /\ LET c == rq[p].command
       IN /\ db' = UpdateUserStatus(db, c[2], FinalStatus).db
          /\ Goto(p, Provisioning(c[2], FinalStatus))
          /\ proved' = proved \cup {<<c[2], c[3]>>}
    /\ uses' = [uses EXCEPT ![rq[p].id] = IF @ < 2 THEN @ + 1 ELSE 2]
    /\ UNCHANGED <<rs, now, mail, sess, approved, granted, followed>>

\* --- POST /admin/reg-request/{absid}/approve, disapprove ---

Approve(p, id) ==
    /\ Arrive(p, "approve")
    /\ LET r == GetRegistrationRequestByAbsId(db, id)
       IN r # Null /\ Goto(p, [at |-> "appStatus", id |-> id, req |-> r])
    /\ UNCHANGED <<db, rs, now, mail, sess, ghosts>>

\* ApproveRegistrationRequest reads the request of that id again.  The status ...
ApproveStatus(p) ==
    /\ At(p, "appStatus")
    /\ LET a == ApproveRegistrationStatus(db, rq[p].id, Config.emailConfirmation)
       IN /\ db' = a.db
          /\ Goto(p, IF a.err # "nil" THEN Idle
                     ELSE [at |-> "appDelete", req |-> rq[p].req, of |-> GetRegistrationRequestByAbsId(db, rq[p].id).user])
          /\ approved' = IF a.err = "nil" THEN approved \cup {rq[p].req.user} ELSE approved
    /\ UNCHANGED <<rs, now, mail, sess, proved, granted, followed, uses>>

\* ... then the requests of that name.
ApproveDelete(p) ==
    /\ At(p, "appDelete")
    /\ LET r == rq[p].req
       IN /\ db' = DeleteRequestsOf(db, rq[p].of).db
          /\ Goto(p, IF Config.emailConfirmation
                     THEN Sending(r.email, <<"confirm", r.user, r.email>>, Idle)
                     ELSE [at |-> "appFinal", n |-> r.user])
    /\ UNCHANGED <<rs, now, mail, sess, ghosts>>

ApproveFinal(p) ==
    /\ At(p, "appFinal")
    /\ db' = UpdateUserStatus(db, rq[p].n, FinalStatus).db
    /\ Goto(p, Provisioning(rq[p].n, FinalStatus))
    /\ UNCHANGED <<rs, now, mail, sess, ghosts>>

Disapprove(p, id) ==
    /\ Arrive(p, "disapprove") /\ GetRegistrationRequestByAbsId(db, id) # Null
    /\ db' = DisapproveRegistrationRequest(db, id).db
    /\ UNCHANGED <<rs, now, rq, mail, sess, ghosts>>

\* --- administrators: new-user.go, edit_user/info.go, user-list.go ---

NewUser(p, n, e, status) ==
    /\ Arrive(p, "new")
    /\ LET a == RegisterUser(db, n, e, e, status)
       IN /\ db' = a.db /\ Goto(p, IF a.err = "nil" THEN Provisioning(n, status) ELSE Idle)
          /\ granted' = IF a.err = "nil" THEN granted \cup {n} ELSE granted
    /\ UNCHANGED <<rs, now, mail, sess, approved, proved, followed, uses>>

\* The whole row is read, changed in memory ...
EditUser(p, n, status) ==
    /\ Arrive(p, "edit") /\ User(n) # Null
    /\ Goto(p, [at |-> "editSave", row |-> [User(n) EXCEPT !.status = status]])
    /\ UNCHANGED <<db, rs, now, mail, sess, ghosts>>

\* ... and written back.
EditSave(p) ==
    /\ At(p, "editSave")
    /\ db' = UpdateUserInfo(db, rq[p].row.name, rq[p].row).db
    /\ granted' = granted \cup {rq[p].row.name}
    /\ Goto(p, Idle)
    /\ UNCHANGED <<rs, now, mail, sess, approved, proved, followed, uses>>

DeleteUser(p, n) ==
    /\ Arrive(p, "delete") /\ User(n) # Null
    /\ db' = HardDeleteUserByName(db, n).db
    /\ UNCHANGED <<rs, now, rq, mail, sess, ghosts>>

DeleteReceipt(p, id) ==
    /\ Arrive(p, "deleteReceipt") /\ RetrieveReceipt(rs, id) # Null
    /\ rs' = CancelReceipt(rs, id)
    /\ UNCHANGED <<db, now, rq, mail, sess, ghosts>>

\* --- the account itself ---

\* A session outlives a change of the status.
Login(n) ==
    /\ n \notin sess /\ User(n) # Null /\ User(n).status \notin Unusable
    /\ sess' = sess \cup {n}
    /\ UNCHANGED <<db, rs, now, rq, mail, ghosts>>

LoggedIn(p, kind, n) == Arrive(p, kind) /\ n \in sess /\ User(n) # Null

\* POST /setting, type info: any address, and every column but the password.
UserInfo(p, n, e) ==
    /\ LoggedIn(p, "info", n)
    /\ Goto(p, [at |-> "infoSave", row |-> [User(n) EXCEPT !.email = e], revoke |-> TRUE])
    /\ UNCHANGED <<db, rs, now, mail, sess, ghosts>>

\* POST /setting ends with RevokeAllSession.
InfoSave(p) ==
    /\ At(p, "infoSave")
    /\ db' = UpdateUserInfo(db, rq[p].row.name, rq[p].row).db
    /\ sess' = IF rq[p].revoke THEN sess \ {rq[p].row.name} ELSE sess
    /\ Goto(p, Idle)
    /\ UNCHANGED <<rs, now, mail, ghosts>>

\* POST /setting/email and /setting/email/delete.
AddAddress(p, n, e) ==
    /\ LoggedIn(p, "email", n)
    /\ Len(db.email) < MaxEmails
    /\ db' = AddEmail(db, n, e).db
    /\ UNCHANGED <<rs, now, rq, mail, sess, ghosts>>

DeleteAddress(p, n, e) ==
    /\ LoggedIn(p, "email", n)
    /\ db' = DeleteRegisteredEmail(db, n, e).db /\ db' # db
    /\ UNCHANGED <<rs, now, rq, mail, sess, ghosts>>

\* GET /setting/email/verify: an address of this account, not verified yet.
RequestVerify(p, n, e) ==
    /\ LoggedIn(p, "email", n)
    /\ [user |-> n, email |-> e, verified |-> FALSE] \in Rows(GetAllRegisteredEmailOfUser(db, n))
    /\ Goto(p, Sending(e, <<"verify", n, e>>, Idle))
    /\ UNCHANGED <<db, rs, now, mail, sess, ghosts>>

\* A fault: whoever follows the link.
ForAnyone(command, n) == TRUE

\* The account the receipt was issued for.
Belongs(command, n) == command[2] = n

\* GET /verify-email: the receipt is checked ...
Verify(p, n, id) ==
    /\ LoggedIn(p, "email", n)
    /\ LET re == RetrieveReceipt(rs, id)
       IN /\ re # Null
          /\ IF Expired(re, now) \/ re.command[1] # "verify" THEN rs' = CancelReceipt(rs, id) /\ UNCHANGED rq
             ELSE /\ Belongs(re.command, n) /\ UNCHANGED rs
                  /\ Goto(p, [at |-> "verify", id |-> id, n |-> n, command |-> re.command])
    /\ UNCHANGED <<db, now, mail, sess, ghosts>>

\* ... and the address marked; the receipt stays.
VerifyEmail(p) ==
    /\ At(p, "verify")
    /\ db' = VerifyRegisteredEmail(db, rq[p].command[2], rq[p].command[3]).db
    /\ followed' = followed \cup {<<rq[p].n, rq[p].command[3]>>}
    /\ uses' = [uses EXCEPT ![rq[p].id] = IF @ < 2 THEN @ + 1 ELSE 2]
    /\ Goto(p, Idle)
    /\ UNCHANGED <<rs, now, mail, sess, approved, proved, granted>>

\* POST /setting/email/primary: checked, then the row read, then written.
Primary(p, n, e) ==
    /\ LoggedIn(p, "email", n) /\ CheckIfEmailVerified(db, n, e) = "yes"
    /\ Goto(p, [at |-> "primary", n |-> n, e |-> e])
    /\ UNCHANGED <<db, rs, now, mail, sess, ghosts>>

PrimaryRead(p) ==
    /\ At(p, "primary")
    /\ LET u == User(rq[p].n)
       IN Goto(p, IF u = Null THEN Idle ELSE [at |-> "infoSave", row |-> [u EXCEPT !.email = rq[p].e], revoke |-> FALSE])
    /\ UNCHANGED <<db, rs, now, mail, sess, ghosts>>

Tick ==
    /\ now < MaxTime /\ now' = now + 1
    /\ UNCHANGED <<db, rs, rq, mail, sess, ghosts>>

Provision(p) == PersonalNamespace(p) \/ CreatePersonal(p) \/ DefaultNamespace(p) \/ ReadACL(p) \/ AddMember(p)

Next ==
    \/ Tick
    \/ \E n \in Names : Login(n)
    \/ \E p \in Procs :
        \/ Provision(p) \/ IssueAndMail(p)
        \/ RegisterCheckNamespace(p) \/ RegisterRequest(p) \/ RegisterPending(p) \/ RegisterAccount(p)
        \/ ConfirmCancel(p) \/ ConfirmStatus(p)
        \/ ApproveStatus(p) \/ ApproveDelete(p) \/ ApproveFinal(p)
        \/ EditSave(p) \/ InfoSave(p) \/ VerifyEmail(p) \/ PrimaryRead(p)
        \/ \E e \in People : ConfirmUser(p, e)
        \/ \E r \in Rows(db.req) : Approve(p, r.id) \/ Disapprove(p, r.id)
        \/ \E m \in mail : Confirm(p, m.id) \/ DeleteReceipt(p, m.id)
        \/ \E n \in Names :
            \/ DeleteUser(p, n)
            \/ \E status \in {"normal", "banned"} :
                EditUser(p, n, status) \/ \E e \in People : NewUser(p, n, e, status)
            \/ \E m \in mail : Verify(p, n, m.id)
            \/ \E e \in People :
                \/ Register(p, n, e) \/ UserInfo(p, n, e)
                \/ AddAddress(p, n, e) \/ DeleteAddress(p, n, e) \/ RequestVerify(p, n, e) \/ Primary(p, n, e)

Spec == Init /\ [][Next]_vars

\* Unless an administrator set its status, an account that may log in has passed
\* the gates of the configuration: it was approved, and the person who registered
\* it followed a link sent to their address, whatever requests raced (where the id
\* of a refused request is not handed out again, CallsHold).
GatesPassed ==
    \A u \in Rows(db.user) :
        u.status \notin Unusable /\ u.name \notin granted =>
            /\ Config.manualApproval => u.name \in approved
            /\ Config.emailConfirmation => <<u.name, u.pw>> \in proved

\* What the handlers rely on: how the calls that are about to be made change the
\* table of users, whichever backend answers them.
Columns == {"name", "email", "pw", "status", "tfa", "info"}
KeepsUsers(a) == Rows(a.db.user) = Rows(db.user)
SetsStatus(a, n, status) ==
    Rows(a.db.user) = {IF u.name = n THEN [u EXCEPT !.status = status] ELSE u : u \in Rows(db.user)}
SetsInfo(a, n, row) ==
    Rows(a.db.user) = {IF u.name = n THEN [name |-> n, email |-> row.email, pw |-> u.pw, status |-> row.status,
                                           tfa |-> row.tfa, info |-> row.info]
                       ELSE u : u \in Rows(db.user)}
AddsUser(a, n, e, status) ==
    IF a.err # "nil" THEN KeepsUsers(a)
    ELSE /\ \A u \in Rows(db.user) : u.name # n
         /\ Rows(a.db.user) = Rows(db.user) \cup
                {[name |-> n, email |-> e, pw |-> e, status |-> status, tfa |-> "off", info |-> n]}
FindsUser(n) == User(n) # Null => User(n) \in Rows(db.user) /\ User(n).name = n

\* The request an approval read is still the one of that id when it acts.
StepsHold(p) ==
    LET r == rq[p]
    IN /\ At(p, "personal") => KeepsUsers(RegisterNamespace(db, r.n, r.n))
       /\ At(p, "acl") => KeepsUsers(SetNamespaceACL(db, Config.defaultNamespace, r.n, {"addRepository"}, r.read))
       /\ At(p, "regRequest") => KeepsUsers(InsertRegistrationRequest(db, r.n, r.e, r.e))
       /\ At(p, "regPending") => AddsUser(RegisterUser(db, r.n, r.e, r.e, "approval"), r.n, r.e, "approval")
       /\ At(p, "regUser") => \A status \in {"confirm", FinalStatus} :
              AddsUser(RegisterUser(db, r.n, r.e, r.e, status), r.n, r.e, status)
       /\ At(p, "confUser") => FindsUser(r.command[2])
       /\ At(p, "confStatus") =>
              SetsStatus(UpdateUserStatus(db, r.command[2], FinalStatus), r.command[2], FinalStatus)
       /\ At(p, "appStatus") =>
              LET a == ApproveRegistrationStatus(db, r.id, Config.emailConfirmation)
              IN IF a.err = "nil" THEN SetsStatus(a, r.req.user, IF Config.emailConfirmation THEN "confirm" ELSE "normal")
                 ELSE KeepsUsers(a)
       /\ At(p, "appDelete") => KeepsUsers(DeleteRequestsOf(db, r.of))
       /\ At(p, "appFinal") => SetsStatus(UpdateUserStatus(db, r.n, FinalStatus), r.n, FinalStatus)
       /\ rq[p].at \in {"editSave", "infoSave"} => SetsInfo(UpdateUserInfo(db, r.row.name, r.row), r.row.name, r.row)
       /\ At(p, "verify") => KeepsUsers(VerifyRegisteredEmail(db, r.command[2], r.command[3]))
       /\ At(p, "primary") => FindsUser(r.n)

CallsHold ==
    /\ \A u \in Rows(db.user) : DOMAIN u = Columns
    /\ \A p \in Procs : StepsHold(p)
    /\ \A r \in Rows(db.req) : KeepsUsers(DisapproveRegistrationRequest(db, r.id))
    /\ \A n \in Names :
        /\ FindsUser(n)
        /\ \A e \in People :
            /\ KeepsUsers(AddEmail(db, n, e)) /\ KeepsUsers(DeleteRegisteredEmail(db, n, e))
            /\ \A status \in {"normal", "banned"} :
                AddsUser(RegisterUser(db, n, e, e, status), n, e, status)

Taken ==
    \A p \in Procs : rq[p] = Idle /\ rq'[p].at \in {"confUser", "verify"} =>
      \A m \in mail : m.id = rq'[p].id => now - m.at < Timeout

\* A confirmation link is taken only within the time it was issued for.
TakenInTime == [][Taken]_vars

\* Registering an account never touches the repositories on disk, even when its
\* name is that of a namespace.
RepositoriesStay == \A n \in Standing : <<n, Repo>> \in db.dirs

\* docs/email.org: "the verification process must ensure only the owner of the
\* email address can trigger the confirmation."  A verified address of an account
\* was verified by that account, with a link sent to the address.
VerifiedByOwner ==
    \A r \in Rows(db.email) : r.verified =>
        <<r.user, r.email>> \in followed /\ \E m \in mail : m.to = r.email

\* docs/receipt.org: a receipt is "a one-time thing".
ReceiptsAreUsedOnce == \A i \in DOMAIN uses : uses[i] <= 1

\* confirm-registration.go: "An old receipt must not be able to re-activate an
\* account that was since confirmed, banned or changed address."
OldReceiptsAreDead ==
    [][\A p \in Procs : At(p, "confStatus") /\ rq'[p] # rq[p] =>
         LET u == User(rq[p].command[2]) IN u # Null => Awaits(u, rq[p].command)]_vars

MembersKept ==
    \A n \in Standing : DOMAIN GetNamespaceByName(db, n).acl
                        \subseteq DOMAIN GetNamespaceByName(db, n)'.acl

\* provision_test.go: "an existing member must survive the new memberships".
MembersSurvive == [][MembersKept]_vars

\* register.go tells the registered user: "You will receive the confirmation email
\* after the administrators approved your request."
ApprovedIsMailed ==
    \A u \in Rows(db.user) : u.status = "confirm" /\ (\A p \in Procs : rq[p] = Idle) =>
        \E m \in mail : m.to = u.email
====
