---- MODULE MCAccounts ----
(***************************************************************************)
(* Accounts, second factors and keys, side by side: the initial state      *)
(* chooses a part, that is a component, a backend and the kinds of request *)
(* that meet in it.  The variables of the other components rest.           *)
(***************************************************************************)
EXTENDS TwoFactor, TLC

CONSTANTS p1, p2

VARIABLES part,
          db, work,   \* of the parts other than "factors"
          rs, mail, sess, approved, proved, granted, followed, uses,
          managed, notManaged, file, mode, login, added, written

Plain == [manualApproval |-> FALSE, emailConfirmation |-> FALSE, defaultStatus |-> "",
          useNamespace |-> FALSE, defaultNamespace |-> ""]
BothGates == [Plain EXCEPT !.manualApproval = TRUE, !.emailConfirmation = TRUE]
ApprovedJoining == [Plain EXCEPT !.manualApproval = TRUE, !.useNamespace = TRUE, !.defaultNamespace = "acme"]

Lite == INSTANCE Database WITH Backend <- "sqlite", Like <- {}, Collation <- <<>>
Post == INSTANCE Database WITH Backend <- "postgres", Like <- {}, Collation <- <<>>

\* The namespace acme, with one repository.
Founded ==
    [Lite!EmptyDb EXCEPT !.ns = <<[name |-> "acme", title |-> "acme", owner |-> "root", status |-> "public",
                                   acl |-> [m \in {} |-> {}]]>>,
                         !.dirs = {<<"acme">>, <<"acme", "repo">>}]

Gates == INSTANCE Account WITH
    ReceiptStore <- "sqlite", Zone <- 0, Procs <- {p1, p2}, Config <- BothGates,
    Names <- {"ann"}, People <- {"a@", "b@"}, Standing <- {"acme"},
    Requests <- {"register", "confirm", "approve", "disapprove", "edit", "info"},
    Timeout <- 1, MaxReceipts <- 2, MaxTime <- 1, MaxEmails <- 1, rq <- work,
    StartDb <- Founded, Null <- Lite!Null, GetUserByName <- Lite!GetUserByName, RegisterUser <- Lite!RegisterUser,
    UpdateUserStatus <- Lite!UpdateUserStatus, UpdateUserInfo <- Lite!UpdateUserInfo,
    HardDeleteUserByName <- Lite!HardDeleteUserByName, AddEmail <- Lite!AddEmail,
    VerifyRegisteredEmail <- Lite!VerifyRegisteredEmail, DeleteRegisteredEmail <- Lite!DeleteRegisteredEmail,
    CheckIfEmailVerified <- Lite!CheckIfEmailVerified,
    GetAllRegisteredEmailOfUser <- Lite!GetAllRegisteredEmailOfUser,
    InsertRegistrationRequest <- Lite!InsertRegistrationRequest,
    GetRegistrationRequestByAbsId <- Lite!GetRegistrationRequestByAbsId,
    ApproveRegistrationStatus <- Lite!ApproveRegistrationStatus, DeleteRequestsOf <- Lite!DeleteRequestsOf,
    DisapproveRegistrationRequest <- Lite!DisapproveRegistrationRequest,
    GetNamespaceByName <- Lite!GetNamespaceByName, RegisterNamespace <- Lite!RegisterNamespace,
    NamespaceACLRead <- Lite!NamespaceACLRead, SetNamespaceACL <- Lite!SetNamespaceACL
Emails == INSTANCE Account WITH
    ReceiptStore <- "sqlite", Zone <- 0, Procs <- {p1, p2}, Config <- Plain,
    Names <- {"ann", "bob"}, People <- {"a@"}, Standing <- {"acme"},
    Requests <- {"register", "email", "deleteReceipt", "delete"},
    Timeout <- 1, MaxReceipts <- 1, MaxTime <- 2, MaxEmails <- 1, rq <- work,
    StartDb <- Founded, Null <- Lite!Null, GetUserByName <- Lite!GetUserByName, RegisterUser <- Lite!RegisterUser,
    UpdateUserStatus <- Lite!UpdateUserStatus, UpdateUserInfo <- Lite!UpdateUserInfo,
    HardDeleteUserByName <- Lite!HardDeleteUserByName, AddEmail <- Lite!AddEmail,
    VerifyRegisteredEmail <- Lite!VerifyRegisteredEmail, DeleteRegisteredEmail <- Lite!DeleteRegisteredEmail,
    CheckIfEmailVerified <- Lite!CheckIfEmailVerified,
    GetAllRegisteredEmailOfUser <- Lite!GetAllRegisteredEmailOfUser,
    InsertRegistrationRequest <- Lite!InsertRegistrationRequest,
    GetRegistrationRequestByAbsId <- Lite!GetRegistrationRequestByAbsId,
    ApproveRegistrationStatus <- Lite!ApproveRegistrationStatus, DeleteRequestsOf <- Lite!DeleteRequestsOf,
    DisapproveRegistrationRequest <- Lite!DisapproveRegistrationRequest,
    GetNamespaceByName <- Lite!GetNamespaceByName, RegisterNamespace <- Lite!RegisterNamespace,
    NamespaceACLRead <- Lite!NamespaceACLRead, SetNamespaceACL <- Lite!SetNamespaceACL
Setup == INSTANCE Account WITH
    ReceiptStore <- "sqlite", Zone <- 0, Procs <- {p1, p2}, Config <- ApprovedJoining,
    Names <- {"ann", "bob"}, People <- {"a@"}, Standing <- {"acme"},
    Requests <- {"register", "approve", "disapprove", "new"},
    Timeout <- 1, MaxReceipts <- 1, MaxTime <- 0, MaxEmails <- 1, rq <- work,
    StartDb <- Founded, Null <- Post!Null, GetUserByName <- Post!GetUserByName, RegisterUser <- Post!RegisterUser,
    UpdateUserStatus <- Post!UpdateUserStatus, UpdateUserInfo <- Post!UpdateUserInfo,
    HardDeleteUserByName <- Post!HardDeleteUserByName, AddEmail <- Post!AddEmail,
    VerifyRegisteredEmail <- Post!VerifyRegisteredEmail, DeleteRegisteredEmail <- Post!DeleteRegisteredEmail,
    CheckIfEmailVerified <- Post!CheckIfEmailVerified,
    GetAllRegisteredEmailOfUser <- Post!GetAllRegisteredEmailOfUser,
    InsertRegistrationRequest <- Post!InsertRegistrationRequest,
    GetRegistrationRequestByAbsId <- Post!GetRegistrationRequestByAbsId,
    ApproveRegistrationStatus <- Post!ApproveRegistrationStatus, DeleteRequestsOf <- Post!DeleteRequestsOf,
    DisapproveRegistrationRequest <- Post!DisapproveRegistrationRequest,
    GetNamespaceByName <- Post!GetNamespaceByName, RegisterNamespace <- Post!RegisterNamespace,
    NamespaceACLRead <- Post!NamespaceACLRead, SetNamespaceACL <- Post!SetNamespaceACL

Codes == INSTANCE TwoFactor WITH
    Procs <- {p1}, Types <- {"hotp", "totp"},
    Requests <- {"login", "otp", "regenerate", "disable"},
    LookAhead <- 1, Lifetime <- 1, RecoveryCodeCount <- 1, MaxCounter <- 2, MaxChallenges <- 2,
    MaxSecrets <- 1, MaxSets <- 2, MaxTime <- 1, user <- db, rq <- work

OneEach == "ann" :> {"ann1"} @@ "bob" :> {"bob1"} @@ "nobody" :> {"nobody1"}
Mine == INSTANCE Keys WITH
    Backend <- "sqlite", Procs <- {p1}, Clients <- {"c"}, Users <- {"ann"}, Admins <- {}, SuperAdmins <- {"ann"},
    NoUser <- "nobody", KeyNames <- {"k", "l"}, Texts <- ("ann" :> {"ann1", "ann2"} @@ "nobody" :> {"nobody1"}),
    Edited <- {}, Hand <- {"hand1"}, Requests <- {"add", "remove", "mode", "login"}, Crashes <- FALSE,
    rq <- work, Like <- {}, Collation <- <<>>
Theirs == INSTANCE Keys WITH
    Backend <- "sqlite", Procs <- {p1, p2}, Clients <- {}, Users <- {"ann", "bob"}, Admins <- {}, SuperAdmins <- {},
    NoUser <- "nobody", KeyNames <- {"k"}, Texts <- OneEach,
    Edited <- {}, Hand <- {}, Requests <- {"add", "remove"}, Crashes <- TRUE, rq <- work, Like <- {}, Collation <- <<>>
Managed == INSTANCE Keys WITH
    Backend <- "sqlite", Procs <- {p1}, Clients <- {"c"}, Users <- {"ann", "bob"}, Admins <- {"bob"},
    SuperAdmins <- {"ann"}, NoUser <- "nobody", KeyNames <- {"k"}, Texts <- OneEach,
    Edited <- {"ann3"}, Hand <- {}, Requests <- {"admin", "sign", "adminsign", "edit"}, Crashes <- FALSE,
    rq <- work, Like <- {}, Collation <- <<>>

AccountVars == <<rs, mail, sess, approved, proved, granted, followed, uses>>
FactorVars == <<pending, mailed, cookies, fresh, asked, spent, twice>>
KeyVars == <<managed, notManaged, file, mode, login, added, written>>
avars == <<part, vars, db, work, AccountVars, KeyVars>>

Rest == "unused"
NoAccounts ==
    /\ rs = Rest /\ mail = Rest /\ sess = Rest /\ approved = Rest /\ proved = Rest
    /\ granted = Rest /\ followed = Rest /\ uses = Rest
NoKeys ==
    /\ managed = Rest /\ notManaged = Rest /\ file = Rest /\ mode = Rest /\ login = Rest
    /\ added = Rest /\ written = Rest

AInit ==
    /\ Init
    /\ \/ part = "factors" /\ NoAccounts /\ NoKeys /\ db = Rest /\ work = Rest
       \/ part = "codes" /\ Codes!Init /\ NoAccounts /\ NoKeys
       \/ part = "gates" /\ Gates!Init /\ NoKeys
       \/ part = "emails" /\ Emails!Init /\ NoKeys
       \/ part = "setup" /\ Setup!Init /\ NoKeys
       \/ part = "mine" /\ Mine!Init /\ NoAccounts
       \/ part = "theirs" /\ Theirs!Init /\ NoAccounts
       \/ part = "managed" /\ Managed!Init /\ NoAccounts

ANext ==
    /\ UNCHANGED part
    /\ \/ part = "factors" /\ Next /\ UNCHANGED <<db, work, AccountVars, KeyVars>>
       \/ /\ UNCHANGED <<user, rq>>
          /\ \/ part = "codes" /\ Codes!Next /\ UNCHANGED <<AccountVars, KeyVars>>
             \/ part = "gates" /\ Gates!Next /\ UNCHANGED <<FactorVars, KeyVars>>
             \/ part = "emails" /\ Emails!Next /\ UNCHANGED <<FactorVars, KeyVars>>
             \/ part = "setup" /\ Setup!Next /\ UNCHANGED <<FactorVars, KeyVars>>
             \/ part = "mine" /\ Mine!Next /\ UNCHANGED <<now, AccountVars, FactorVars>>
             \/ part = "theirs" /\ Theirs!Next /\ UNCHANGED <<now, AccountVars, FactorVars>>
             \/ part = "managed" /\ Managed!Next /\ UNCHANGED <<now, AccountVars, FactorVars>>

ASpec == AInit /\ [][ANext]_avars

Symmetry == Permutations({p1, p2})

-----------------------------------------------------------------------------

\* Unless an administrator set its status, an account that may log in has passed
\* the gates of the configuration: it was approved, and the person who registered
\* it followed a link sent to their address, whatever requests raced.  On SQLite
\* this is for one name: with two, a new request may get the id of a refused one
\* while that is being approved.  And the database answers the way the handlers
\* rely on.
GatesArePassed ==
    /\ part = "gates" => Gates!GatesPassed /\ Gates!CallsHold
    /\ part = "setup" => Setup!GatesPassed /\ Setup!CallsHold

\* A link is taken only within the time it was issued for, and an address becomes
\* verified only for the account that followed a link sent to it (docs/email.org:
\* "the verification process must ensure only the owner of the email address can
\* trigger the confirmation"); setting up an account takes no member off a
\* namespace (provision_test.go: "an existing member must survive the new
\* memberships").
LinksAndMembersKept ==
    [][((part = "emails" => Emails!Taken /\ Emails!VerifiedByOwner') /\ (part = "setup" => Setup!MembersKept))]_avars

\* One request at a time, a HOTP code and a recovery code count once (login.go,
\* setting-privacy.go).
CodesAreUsedUp == part = "codes" => Codes!CodesCountOnce

\* One request at a time, a key the user was told is added (and did not remove
\* since) logs them in, as themselves: RegisterAuthKey, AddAuthorizedKey, Sync,
\* ToContext and the integrity check agree on it, in either mode of sshd; and what
\* somebody wrote into authorized_keys by hand is still there after every Sync.  A
\* user has no two keys of one name (RemoveAuthKey and UpdateAuthKey go by the
\* name), and the integrity check lets nobody in through a line that carries a key
\* of somebody else, though ToContext files keys under the wrong user, Sync writes
\* them back, and either may be cut short.
KeysHold ==
    /\ part = "mine" => Mine!AddedKeysWork /\ Mine!HandKeysSurvive /\ Mine!KeyNamesAreUnique
    /\ part = "managed" => Managed!KeyNamesAreUnique
    /\ part = "theirs" => Theirs!WrongLinesAreRefused
====
