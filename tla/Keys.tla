---- MODULE Keys ----
(***************************************************************************)
(* SSH and signing keys: pkg/gitus/ssh, the settings pages of a user       *)
(* (setting-ssh.go, setting-gpg.go), those of an administrator             *)
(* (admin/edit_user/ssh.go, gpg.go), the switch between the two ways sshd  *)
(* finds a key (admin/site-config.go), and how a key logs in               *)
(* (cmd/gitus/authorized-keys.go, ssh.go).  A password that was asked for  *)
(* was right.  A key text is a model value; names have no quotes or blanks *)
(* in them, so the forced command of a line gives back what was put in.    *)
(* The lines of authorized_keys are taken to be of one length.             *)
(***************************************************************************)
EXTENDS Tables, Integers

CONSTANTS Backend, Procs, Clients, Users,
          Admins, SuperAdmins,   \* users with those statuses
          NoUser,                \* a name no user has
          KeyNames,
          Texts,                 \* the keys of each user
          Edited,                \* texts an edit may put in their place
          Hand,                  \* lines somebody may write into the file
          Requests,              \* the kinds of request a run sends
          Crashes                \* whether the process may stop at any point

VARIABLES db, managed, notManaged,  \* the context of the serving process
          file,                     \* authorized_keys: a sequence of lines
          mode,                     \* SSHAuth.Mode, "file" or "command"
          rq, login,
          added,                    \* <<user, key, text>>: added, as far as the user was told
          written                   \* hand-written lines nobody took out

vars == <<db, managed, notManaged, file, mode, rq, login, added, written>>
context == <<managed, notManaged>>

DB == INSTANCE Database
Idle == [at |-> "idle"]
NoKeys == [u \in {} |-> 0]

\* --- pkg/gitus/ssh ---

AuthorizedKeyLine(u, k, text) == [user |-> u, key |-> k, text |-> text]
HandLine(h) == AuthorizedKeyLine("", "", h)

\* parseKey: a line without the forced command is not managed.
IsManaged(line) == line.user # ""

Put(f, k, v) == (k :> v) @@ f

AddAuthorizedKey(m, u, k, text) == Put(m, u, Put(IF u \in DOMAIN m THEN m[u] ELSE NoKeys, k, text))

RemoveAuthorizedKey(m, u, k) ==
    IF u \in DOMAIN m THEN [m EXCEPT ![u] = [x \in DOMAIN @ \ {k} |-> @[x]]] ELSE m

GetAuthorizedKey(m, u, k) == IF u \in DOMAIN m /\ k \in DOMAIN m[u] THEN m[u][k] ELSE ""

\* ToContext: one line.  The name of the first line stays the current one,
\* so only its pack is ever stored, and a line of another user starts a new
\* pack that is copied into the first user's at the end.
ReadLine(acc, line) ==
    LET first == IF acc.first = "" THEN line.user ELSE acc.first
    IN IF line.user # first
       THEN [first |-> first, stored |-> TRUE, pack |-> acc.cur, cur |-> (line.key :> line.text)]
       ELSE [acc EXCEPT !.first = first, !.cur = Put(@, line.key, line.text)]

ManagedIn(f) ==
    LET end == FoldLeft(ReadLine, [first |-> "", stored |-> FALSE, pack |-> NoKeys, cur |-> NoKeys],
                        SelectSeq(f, IsManaged))
    IN end.first :> (IF end.stored THEN end.cur @@ end.pack ELSE end.cur)

\* NewContext
NotManagedIn(f) == SelectSeq(f, LAMBDA line : ~IsManaged(line))

\* Maps are written in any order, the keys of a user together.
Lines(m) ==
    LET Pack(u) == {[i \in DOMAIN ks |-> AuthorizedKeyLine(u, ks[i], m[u][ks[i]])] : ks \in SetToSeqs(DOMAIN m[u])}
        Orders == SetToSeqs(DOMAIN m)
    IN UNION {FoldLeft(LAMBDA acc, u : {a \o b : a \in acc, b \in Pack(u)}, {<<>>}, us) : us \in Orders}

\* What stands in the file behind the shorter text of another writer stays.
Overwrite(old, new) == new \o SubSeq(old, Len(new) + 1, Len(old))

Init ==
    /\ db = [EmptyDb EXCEPT !.user = SetToSeq({[name |-> u] : u \in Users})]
    /\ file = <<>> /\ managed = ManagedIn(file) /\ notManaged = <<>>
    /\ mode = "file"
    /\ rq = [p \in Procs |-> Idle] /\ login = [c \in Clients |-> Idle]
    /\ added = {} /\ written = {}

Goto(p, r) == rq' = [rq EXCEPT ![p] = r]
Serve(p, kind) == rq[p] = Idle /\ kind \in Requests

\* --- Sync ---

Syncing(change, u, k, text) == [at |-> "sync", change |-> change, u |-> u, k |-> k, text |-> text]

\* AddAuthorizedKey or RemoveAuthorizedKey, or all keys of the database.
Changed(m, r) ==
    CASE r.change = "add" -> AddAuthorizedKey(m, r.u, r.k, r.text)
      [] r.change = "remove" -> RemoveAuthorizedKey(m, r.u, r.k)
      [] r.change = "refill" -> FoldLeft(LAMBDA acc, row : AddAuthorizedKey(acc, row.user, row.name, row.text), NoKeys, r.text)
Told(p) == added' = IF rq[p].change = "add" THEN added \cup {<<rq[p].u, rq[p].k, rq[p].text>>} ELSE added

\* A fault: the lines of the start of the process are written back.
NotReloaded(f) == notManaged
ReloadNotManaged(f) == NotManagedIn(f)

\* The map is changed.  Nothing more in command mode; otherwise the file is
\* read ...
Reload(p) ==
    /\ rq[p].at = "sync"
    /\ managed' = Changed(managed, rq[p])
    /\ IF mode = "command"
       THEN Told(p) /\ Goto(p, Idle) /\ UNCHANGED notManaged
       ELSE /\ notManaged' = ReloadNotManaged(file)
            /\ Goto(p, [rq[p] EXCEPT !.at = "open"]) /\ UNCHANGED added
    /\ UNCHANGED <<db, file, mode, login, written>>

\* ... opened with O_TRUNC ...
Open(p) ==
    /\ rq[p].at = "open"
    /\ file' = <<>>
    /\ Goto(p, [rq[p] EXCEPT !.at = "write"])
    /\ UNCHANGED <<db, context, mode, login, added, written>>

\* ... and written.
WriteOut(p) ==
    /\ rq[p].at = "write"
    /\ \E ls \in Lines(managed) : file' = Overwrite(file, ls \o notManaged)
    /\ Told(p) /\ Goto(p, Idle)
    /\ UNCHANGED <<db, context, mode, login, written>>

\* --- the pages for SSH keys ---

\* A fault: RegisterAuthKey does not look for the name.
NeverTaken(u, k) == FALSE
\* RegisterAuthKey: SQLite looks for the name first.
NameTaken(u, k) == DB!RegisterAuthKeyCheck(db, u, k)

AddFor(p, u) ==
    /\ \E k \in KeyNames, t \in Texts[u] :
          ~NameTaken(u, k) /\ Goto(p, [at |-> "insert", u |-> u, k |-> k, text |-> t])
    /\ UNCHANGED <<db, context, file, mode, login, added, written>>
AddSSH(p) == Serve(p, "add") /\ \E u \in Users : AddFor(p, u)

InsertSSH(p) ==
    /\ rq[p].at = "insert"
    /\ LET r == rq[p]
           a == DB!RegisterAuthKeyInsert(db, r.u, r.k, r.text)
       IN db' = a.db /\ Goto(p, IF a.err = "nil" THEN Syncing("add", r.u, r.k, r.text) ELSE Idle)
    /\ UNCHANGED <<context, file, mode, login, added, written>>

RemoveFor(p, u) ==
    /\ \E k \in KeyNames :
          /\ db' = DB!RemoveAuthKey(db, u, k).db
          /\ added' = {x \in added : x[1] # u \/ x[2] # k}
          /\ Goto(p, Syncing("remove", u, k, ""))
    /\ UNCHANGED <<context, file, mode, login, written>>
RemoveSSH(p) == Serve(p, "remove") /\ \E u \in Users : RemoveFor(p, u)

\* The edit changes the database only.
EditFor(u) ==
    /\ \E k \in KeyNames, t \in Edited :
          /\ db' = DB!UpdateAuthKey(db, u, k, t).db
          /\ added' = {IF x[1] = u /\ x[2] = k THEN <<u, k, t>> ELSE x : x \in added}
    /\ UNCHANGED <<context, file, mode, rq, login, written>>
EditSSH(p) == Serve(p, "edit") /\ \E u \in Users : EditFor(u)

\* On the administrator's pages adding asks for nothing but the text ...
AdminAddSSH(p) == Serve(p, "admin") /\ Admins \cup SuperAdmins # {} /\ \E u \in Users \cup {NoUser} : AddFor(p, u)

\* ... and the others refuse to touch a superadministrator's keys.
EnoughPrivilege(by, u) == by \in Admins \cup SuperAdmins /\ (u \in SuperAdmins => by \in SuperAdmins)
AdminRemoveSSH(p) ==
    Serve(p, "admin") /\ \E by, u \in Users : EnoughPrivilege(by, u) /\ RemoveFor(p, u)
AdminEditSSH(p) ==
    Serve(p, "admin") /\ \E by, u \in Users : EnoughPrivilege(by, u) /\ EditFor(u)

\* --- the pages for signing keys ---

SignOnly == UNCHANGED <<context, file, mode, login, added, written>>

AddGPGFor(p, u) ==
    /\ \E k \in KeyNames, t \in Texts[u] :
          ~DB!RegisterSignKeyCheck(db, u, k) /\ Goto(p, [at |-> "sign", u |-> u, k |-> k, text |-> t])
    /\ UNCHANGED db /\ SignOnly
AddGPG(p) == Serve(p, "sign") /\ \E u \in Users : AddGPGFor(p, u)

InsertGPG(p) ==
    /\ rq[p].at = "sign"
    /\ db' = DB!RegisterSignKeyInsert(db, rq[p].u, rq[p].k, rq[p].text).db
    /\ Goto(p, Idle) /\ SignOnly

RemoveGPGFor(u) ==
    /\ \E k \in KeyNames : db' = DB!RemoveSignKey(db, u, k).db
    /\ UNCHANGED rq /\ SignOnly
RemoveGPG(p) == Serve(p, "sign") /\ \E u \in Users : RemoveGPGFor(u)

EditGPGFor(u) ==
    /\ \E k \in KeyNames, t \in Edited : db' = DB!UpdateSignKey(db, u, k, t).db
    /\ UNCHANGED rq /\ SignOnly
EditGPG(p) == Serve(p, "sign") /\ \E u \in Users : EditGPGFor(u)

AdminAddGPG(p) == Serve(p, "adminsign") /\ Admins \cup SuperAdmins # {} /\ \E u \in Users \cup {NoUser} : AddGPGFor(p, u)
AdminRemoveGPG(p) ==
    Serve(p, "adminsign") /\ \E by, u \in Users : EnoughPrivilege(by, u) /\ RemoveGPGFor(u)
AdminEditGPG(p) ==
    Serve(p, "adminsign") /\ \E by, u \in Users : EnoughPrivilege(by, u) /\ EditGPGFor(u)

\* --- the mode ---

\* A fault: the file is left to the next change of a key.
JustSync(m) == IF m = "file" THEN Syncing("remove", NoUser, "", "") ELSE Idle
\* site-config: going back to the file fills it from the database.
AfterSwitch(m) == IF m = "file" THEN Syncing("refill", NoUser, "", DB!GetAllAuthKey(db)) ELSE Idle

SwitchMode(p) ==
    /\ Serve(p, "mode")
    /\ \E m \in {"file", "command"} : mode' = m /\ Goto(p, AfterSwitch(m))
    /\ UNCHANGED <<db, context, file, login, added, written>>

\* --- logging in ---

\* The lines sshd is shown for an offered key: those of the file, or those
\* HandleAuthorizedKeys prints.
Shown(text) ==
    IF mode = "file" THEN SelectSeq(file, LAMBDA line : line.text = text)
    ELSE LET rows == SelectSeq(DB!GetAllAuthKey(db), LAMBDA row : row.text = text)
         IN [i \in DOMAIN rows |-> AuthorizedKeyLine(rows[i].user, rows[i].name, rows[i].text)]

\* sshd takes the first and runs its command; a line written by hand is none
\* of Gitus' business.
SshdMatch(c) ==
    /\ login[c] = Idle /\ "login" \in Requests
    /\ \E t \in UNION {Texts[u] : u \in Users} :
          /\ Shown(t) # <<>> /\ IsManaged(Shown(t)[1])
          /\ login' = [login EXCEPT ![c] = [at |-> "command", line |-> Shown(t)[1]]]
    /\ UNCHANGED <<db, context, file, mode, rq, added, written>>

\* A new process: the configuration and the file are read ...
StartSSH(c) ==
    /\ login[c].at = "command"
    /\ login' = [login EXCEPT ![c] = [at |-> "check", line |-> login[c].line, mode |-> mode,
                                       auth |-> GetAuthorizedKey(ManagedIn(file), login[c].line.user, login[c].line.key)]]
    /\ UNCHANGED <<db, context, file, mode, rq, added, written>>

\* A fault: the file is not compared with the database.
JustTheRow(row, m, auth) == row # Null
\* HandleSSHLogin: the row, and in file mode the comparison.
IntegrityCheck(row, m, auth) == row # Null /\ (m = "command" \/ auth = row.text)

CheckLogin(c) ==
    /\ login[c].at = "check"
    /\ LET l == login[c].line
       IN login' = [login EXCEPT ![c] =
                       IF IntegrityCheck(DB!GetAuthKeyByName(db, l.user, l.key), login[c].mode, login[c].auth)
                       THEN [at |-> "in", line |-> l] ELSE Idle]
    /\ UNCHANGED <<db, context, file, mode, rq, added, written>>

Leave(c) ==
    /\ login[c].at = "in"
    /\ login' = [login EXCEPT ![c] = Idle]
    /\ UNCHANGED <<db, context, file, mode, rq, added, written>>

\* --- the process and its surroundings ---

\* The process stops and starts again: ToContext.
Restart ==
    /\ Crashes \/ \A p \in Procs : rq[p] = Idle
    /\ managed' = ManagedIn(file) /\ notManaged' = NotManagedIn(file)
    /\ rq' = [p \in Procs |-> Idle]
    /\ UNCHANGED <<db, file, mode, login, added, written>>

\* Somebody edits the file, not in the middle of a rewrite.
EditFile ==
    /\ \A p \in Procs : rq[p].at \notin {"open", "write"}
    /\ \E h \in Hand :
          \/ h \notin written /\ written' = written \cup {h} /\ file' = Append(file, HandLine(h))
          \/ h \in written /\ written' = written \ {h} /\ file' = SelectSeq(file, LAMBDA line : line # HandLine(h))
    /\ UNCHANGED <<db, context, mode, rq, login, added>>

Next ==
    \/ \E p \in Procs :
          \/ AddSSH(p) \/ InsertSSH(p) \/ RemoveSSH(p) \/ EditSSH(p)
          \/ AdminAddSSH(p) \/ AdminRemoveSSH(p) \/ AdminEditSSH(p)
          \/ AddGPG(p) \/ InsertGPG(p) \/ RemoveGPG(p) \/ EditGPG(p)
          \/ AdminAddGPG(p) \/ AdminRemoveGPG(p) \/ AdminEditGPG(p)
          \/ SwitchMode(p) \/ Reload(p) \/ Open(p) \/ WriteOut(p)
    \/ \E c \in Clients : SshdMatch(c) \/ StartSSH(c) \/ CheckLogin(c) \/ Leave(c)
    \/ Restart \/ EditFile

Spec == Init /\ [][Next]_vars

\* --- what the keys promise ---

Settled == \A p \in Procs : rq[p] = Idle

\* A key the user was told is added (and did not remove since) logs them in,
\* as themselves, whenever no rewrite is under way: RegisterAuthKey,
\* AddAuthorizedKey, Sync, ToContext and the integrity check agree on it.
AddedKeysWork ==
    Settled => \A x \in added :
        LET l == Shown(x[3])
        IN /\ l # <<>> /\ l[1].user = x[1]
           /\ IntegrityCheck(DB!GetAuthKeyByName(db, l[1].user, l[1].key), mode,
                             GetAuthorizedKey(ManagedIn(file), l[1].user, l[1].key))

\* Nobody gets in as a user with a key that is not, at the moment of the
\* look-up in HandleSSHLogin, one of that user's keys in the database:
\* whatever the file says by then, and however often it was rewritten.
AcceptedKeyIsTheirs ==
    [][\A c \in Clients : login[c].at = "check" /\ login[c]'.at = "in" =>
          \E i \in DOMAIN db.authkey : /\ db.authkey[i].user = login[c].line.user
                                       /\ db.authkey[i].text = login[c].line.text]_vars

\* The integrity check does its work when the file does not change between
\* the match of sshd and the check: it lets nobody in through a line that
\* carries a key of somebody else, though ToContext files keys under the wrong
\* user and Sync writes them back.
WrongLinesAreRefused ==
    \A i \in DOMAIN file :
        LET l == file[i]
            row == DB!GetAuthKeyByName(db, l.user, l.key)
        IN IsManaged(l) /\ IntegrityCheck(row, "file", GetAuthorizedKey(ManagedIn(file), l.user, l.key)) => row.text = l.text

\* What somebody wrote into authorized_keys by hand is still there after every
\* Sync.
HandKeysSurvive == Settled => \A h \in written : \E i \in DOMAIN file : file[i] = HandLine(h)

\* A user has no two keys of one name: RemoveAuthKey and UpdateAuthKey (and
\* the same for signing keys), which go by the name, mean one key, the one
\* HandleSSHLogin finds.
KeyNamesAreUnique ==
    \A t \in {db.authkey, db.signkey} :
        \A i, j \in DOMAIN t : t[i].user = t[j].user /\ t[i].name = t[j].name => i = j
====
