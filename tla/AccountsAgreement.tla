---- MODULE AccountsAgreement ----
(***************************************************************************)
(* The three backends of GitusDatabaseInterface side by side, given the    *)
(* same sequence of account calls one at a time.  The comparison goes on   *)
(* for as long as the calls are answered alike (all nil or all an error);  *)
(* the calls that are not are listed in the README.                        *)
(***************************************************************************)
EXTENDS Tables

CONSTANTS Users, Emails, Statuses,
          MaxRows   \* bound on the rows and on the identities handed out

VARIABLE db         \* the database of each backend

Backends == {"sqlite", "postgres", "mysql"}
DB(Backend) == INSTANCE Database

\* A call is a function of the interface and its arguments; requests are
\* named by their place in the table, since the backends number them apart.
Row(d, i) == IF i \in DOMAIN d.req THEN d.req[i].id ELSE 0
Calls ==
    [f : {"RegisterUser"}, n : Users, e : Emails, st : Statuses]
    \cup [f : {"UpdateUserInfo"}, n : Users, e : Emails, st : Statuses]
    \cup [f : {"UpdateUserStatus"}, n : Users, st : Statuses]
    \cup [f : {"UpdateUserPassword", "HardDeleteUserByName", "RegisterAuthKey", "UpdateAuthKey", "RemoveAuthKey",
               "RegisterSignKey", "UpdateSignKey", "RemoveSignKey"}, n : Users]
    \cup [f : {"AddEmail", "VerifyRegisteredEmail", "DeleteRegisteredEmail", "InsertRegistrationRequest"},
          n : Users, e : Emails]
    \cup [f : {"ApproveRegistrationRequest", "DisapproveRegistrationRequest"}, i : 1..MaxRows, confirm : BOOLEAN]

Answer(b, d, c) ==
    CASE c.f = "RegisterUser" -> DB(b)!RegisterUser(d, c.n, c.e, "pw", c.st)
      [] c.f = "UpdateUserInfo" -> DB(b)!UpdateUserInfo(d, c.n, [email |-> c.e, status |-> c.st, tfa |-> "on", info |-> c.n])
      [] c.f = "UpdateUserStatus" -> DB(b)!UpdateUserStatus(d, c.n, c.st)
      [] c.f = "UpdateUserPassword" -> DB(b)!UpdateUserPassword(d, c.n, "pw2")
      [] c.f = "HardDeleteUserByName" -> DB(b)!HardDeleteUserByName(d, c.n)
      [] c.f = "RegisterAuthKey" -> DB(b)!RegisterAuthKey(d, c.n, "key", "text")
      [] c.f = "UpdateAuthKey" -> DB(b)!UpdateAuthKey(d, c.n, "key", "text2")
      [] c.f = "RemoveAuthKey" -> DB(b)!RemoveAuthKey(d, c.n, "key")
      [] c.f = "RegisterSignKey" -> DB(b)!RegisterSignKey(d, c.n, "key", "text")
      [] c.f = "UpdateSignKey" -> DB(b)!UpdateSignKey(d, c.n, "key", "text2")
      [] c.f = "RemoveSignKey" -> DB(b)!RemoveSignKey(d, c.n, "key")
      [] c.f = "AddEmail" -> DB(b)!AddEmail(d, c.n, c.e)
      [] c.f = "VerifyRegisteredEmail" -> DB(b)!VerifyRegisteredEmail(d, c.n, c.e)
      [] c.f = "DeleteRegisteredEmail" -> DB(b)!DeleteRegisteredEmail(d, c.n, c.e)
      [] c.f = "InsertRegistrationRequest" -> DB(b)!InsertRegistrationRequest(d, c.n, c.e, "pw")
      [] c.f = "ApproveRegistrationRequest" -> DB(b)!ApproveRegistrationRequest(d, Row(d, c.i), c.confirm)
      [] c.f = "DisapproveRegistrationRequest" -> DB(b)!DisapproveRegistrationRequest(d, Row(d, c.i))

Init == db = [b \in Backends |-> EmptyDb]

Small(d) == Len(d.user) + Len(d.authkey) + Len(d.signkey) + Len(d.email) + Len(d.req) <= MaxRows /\ d.seq <= MaxRows

Next ==
    \E c \in Calls :
        LET a == [b \in Backends |-> Answer(b, db[b], c)]
        IN /\ Cardinality({a[b].err = "nil" : b \in Backends}) = 1
           /\ \A b \in Backends : Small(a[b].db)
           /\ db' = [b \in Backends |-> a[b].db]

Spec == Init /\ [][Next]_db

\* What the read functions show of a database; request ids are left out.
Shown(reqs) == [i \in DOMAIN reqs |-> [user |-> reqs[i].user, email |-> reqs[i].email]]
View(b, d) ==
    [users |-> DB(b)!GetAllUsers(d, 0, MaxRows), count |-> DB(b)!CountAllUser(d),
     found |-> [k \in Users |-> DB(b)!SearchForUser(d, k, 0, MaxRows)],
     user |-> [n \in Users |-> <<DB(b)!GetUserByName(d, n), DB(b)!GetUserLoginInfo(d, n)>>],
     keys |-> [n \in Users |-> <<DB(b)!GetAllAuthKeyByUsername(d, n), DB(b)!GetAuthKeyByName(d, n, "key"),
                                 DB(b)!GetAllSignKeyByUsername(d, n), DB(b)!GetSignKeyByName(d, n, "key")>>],
     allkeys |-> DB(b)!GetAllAuthKey(d),
     emails |-> [n \in Users |-> <<DB(b)!GetAllRegisteredEmailOfUser(d, n),
                                   [e \in Emails |-> DB(b)!CheckIfEmailVerified(d, n, e)]>>],
     owners |-> <<[e \in Emails |-> <<DB(b)!ResolveEmailToUsername(d, e)>>],
                  DB(b)!ResolveMultipleEmailToUsername(d, [e \in Emails |-> ""])>>,
     requests |-> [i \in 0..MaxRows |-> Shown(DB(b)!GetRegistrationRequestPaginated(d, i, 1))],
     of |-> [n \in Users |-> Shown(DB(b)!GetRequestOfUsernamePaginated(d, n, 0, MaxRows))],
     matching |-> [k \in Users \cup {""} |-> <<DB(b)!CountRegistrationRequest(d, k),
                       Rows(Shown(DB(b)!SearchRegistrationRequestPaginated(d, k, 0, MaxRows)))>>]]

\* Accounts, keys, addresses and requests read the same whichever backend is
\* configured, as long as every write so far was answered alike: what the
\* controllers see of an account does not depend on the database.
BackendsAgree ==
    \A b \in Backends : View(b, db[b]) = View("sqlite", db["sqlite"])

\* The page count and the pages belong together (docs/visibility.org): every
\* request is on exactly one of the pages CountRegistrationRequest allows for.
RequestPagesComplete ==
    \A b \in Backends : \A k \in Users \cup {""} :
        LET n == DB(b)!CountRegistrationRequest(db[b], k)
            all == UNION {Rows(DB(b)!SearchRegistrationRequestPaginated(db[b], k, i, 2)) : i \in 0..((n + 1) \div 2 - 1)}
        IN Cardinality(all) = n
====
