---- MODULE Snippet ----
(***************************************************************************)
(* routes/controller/snippet.go, new-snippet.go and the snippet page of    *)
(* user.go, with model/snippet.go: requests that read a snippet's row and  *)
(* write the row or a file of the snippet later.  All snippets belong to   *)
(* Owner.  A file is its path below SnippetRoot; contents are left out, so *)
(* that creating and editing a file are the same.                          *)
(***************************************************************************)
EXTENDS Tables

CONSTANTS Backend, Procs, Owner, Admin, Users, Names, Files, Statuses

VARIABLES db,        \* the database and the snippet directories
          rq,        \* the request each process is serving
          selected   \* <<name, user>>: selections that were answered "Updated"

vars == <<db, rq, selected>>

DB == INSTANCE Database
Viewers == Users \cup {""}           \* "" is a guest
Dir(n) == <<"snippet", Owner, n>>
Idle == [at |-> "idle"]

Init ==
    /\ db = [EmptyDb EXCEPT !.user = SetToSeq({[name |-> u] : u \in Users})]
    /\ rq = [p \in Procs |-> Idle]
    /\ selected = {}

Goto(p, r) == rq' = [rq EXCEPT ![p] = r]

\* The owner or an administrator; anybody else is sent back.
MayEdit(u) == u \in {Owner, Admin}

\* A fault: only the owner's own list decides.
ViewableByOwner(row, viewer) == row.status \in {"public", "sharedLink"} \/ viewer \in {Owner, Admin}

\* The switch of the snippet page: a status it does not name is shown.
Viewable(row, viewer) ==
    \/ viewer = Admin
    \/ row.status \in {"public", "sharedLink", "other"}
    \/ row.status \in {"internal", "sharedLinkInternal"} /\ viewer # ""
    \/ row.status = "sharedUser" /\ viewer # "" /\ viewer \in row.shared
    \/ row.status = "private" /\ viewer = Owner

\* GET /snippet/{username}/{name}: the row, then the files.
View(p, viewer, n) ==
    /\ rq[p] = Idle
    /\ LET row == DB!GetSnippet(db, Owner, n)
       IN row # Null /\ Viewable(row, viewer) /\ Goto(p, [at |-> "read", n |-> n])
    /\ UNCHANGED <<db, selected>>

\* A directory that is missing is made.
RetrieveAllFile(p) ==
    /\ rq[p].at = "read"
    /\ db' = [db EXCEPT !.dirs = @ \cup {Dir(rq[p].n)}]
    /\ Goto(p, Idle)
    /\ UNCHANGED selected

\* POST /new/snippet: the row and an empty directory, then the first file.
NewSnippet(p, n, f, status) ==
    /\ rq[p] = Idle
    /\ LET a == DB!NewSnippet(db, Owner, n, status)
       IN db' = a.db /\ Goto(p, IF a.err = "nil" THEN [at |-> "sync", n |-> n, f |-> f] ELSE Idle)
    /\ UNCHANGED selected

\* POST .../setting/new and .../setting/edit/{filePath}.
SetFile(p, actor, n, f) ==
    /\ rq[p] = Idle /\ MayEdit(actor)
    /\ DB!GetSnippet(db, Owner, n) # Null
    /\ Goto(p, [at |-> "sync", n |-> n, f |-> f])
    /\ UNCHANGED <<db, selected>>

\* O_CREATE fails when the directory is gone.
SyncFile(p) ==
    /\ rq[p].at = "sync"
    /\ db' = IF Dir(rq[p].n) \in db.dirs THEN [db EXCEPT !.dirs = @ \cup {Append(Dir(rq[p].n), rq[p].f)}] ELSE db
    /\ Goto(p, Idle)
    /\ UNCHANGED selected

\* POST .../setting/delete/{filePath}.
DeleteFile(p, actor, n, f) ==
    /\ rq[p] = Idle /\ MayEdit(actor)
    /\ DB!GetSnippet(db, Owner, n) # Null
    /\ Goto(p, [at |-> "delete", n |-> n, f |-> f])
    /\ UNCHANGED <<db, selected>>

\* A fault: the path is joined without the name of the file.
RemoveDirectory(p) ==
    /\ rq[p].at = "delete"
    /\ db' = [db EXCEPT !.dirs = RemoveAll(@, Dir(rq[p].n))]
    /\ Goto(p, Idle)
    /\ UNCHANGED selected

RemoveFile(p) ==
    /\ rq[p].at = "delete"
    /\ db' = [db EXCEPT !.dirs = RemoveAll(@, Append(Dir(rq[p].n), rq[p].f))]
    /\ Goto(p, Idle)
    /\ UNCHANGED selected

\* POST .../setting: the row is read and changed in memory; users are only
\* ever added to the ones it is shared with ...
Setting(p, actor, n, status, add) ==
    /\ rq[p] = Idle /\ MayEdit(actor)
    /\ LET row == DB!GetSnippet(db, Owner, n)
       IN /\ row # Null
          /\ Goto(p, [at |-> "save", add |-> add,
                      row |-> [row EXCEPT !.status = status, !.desc = "text", !.shared = @ \cup add]])
    /\ UNCHANGED <<db, selected>>

\* ... and the whole row is written back.
SaveSnippetInfo(p) ==
    /\ rq[p].at = "save"
    /\ LET a == DB!SaveSnippetInfo(db, rq[p].row)
       IN /\ db' = a.db
          /\ selected' = selected \cup {<<rq[p].row.name, u>> : u \in rq[p].add}
    /\ Goto(p, Idle)

Next ==
    \E p \in Procs :
        \/ \E n \in Names :
              \/ \E v \in Viewers : View(p, v, n)
              \/ \E f \in Files, s \in Statuses : NewSnippet(p, n, f, s)
              \/ \E u \in Users, f \in Files : SetFile(p, u, n, f) \/ DeleteFile(p, u, n, f)
              \/ \E u \in Users, s \in Statuses, add \in SUBSET (Users \ {Owner, Admin}) : Setting(p, u, n, s, add)
        \/ RetrieveAllFile(p) \/ SyncFile(p) \/ RemoveFile(p) \/ SaveSnippetInfo(p)

Spec == Init /\ [][Next]_vars

\* GET /u/{userName}/snippet, for a viewer.
Listed(viewer) == Rows(DB!GetAllVisibleSnippetPaginated(db, Owner, viewer, "", 0, 30))

\* The list query and the switch of the snippet page are two definitions of who
\* may see a snippet: whatever the list shows somebody other than the owner, the
\* page opens for them.
ListedOpens ==
    \A v \in Viewers \ {Owner} : \A r \in Listed(v) : Viewable(DB!GetSnippet(db, Owner, r.name), v)

FilesKept ==
    \A q \in db.dirs \ db'.dirs : \E p \in Procs : rq[p].at = "delete" /\ q = Append(Dir(rq[p].n), rq[p].f)

\* A file that was saved stays until a request to delete that very file: neither
\* creating a snippet again nor a concurrent request loses it.
FilesStay == [][FilesKept]_vars

\* docs/snippets.org: "internal: anyone who logged in can see." A guest is not
\* shown an internal snippet in the owner's list.
InternalIsForUsers == \A r \in Listed("") : r.status # "internal"

\* docs/snippets.org: "shared(user): anyone who's been explicitly selected by the
\* owner can see."
SelectedCanSee ==
    \A s \in selected :
        LET row == DB!GetSnippet(db, Owner, s[1]) IN row.status = "sharedUser" => Viewable(row, s[2])
====
