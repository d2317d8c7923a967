---- MODULE Issues ----
(***************************************************************************)
(* routes/controller: issue.go and repo-setting-issue-label.go, over the   *)
(* issue tables of a backend (Database).   One repository, one issue under *)
(* discussion.  Lists of labels are read and written back in a transaction *)
(* without a lock of its own: SQLite, with its shared cache, refuses to    *)
(* write a table another transaction has read (SQLITE_LOCKED); PostgreSQL  *)
(* and MySQL let both write.                                               *)
(***************************************************************************)
EXTENDS Tables

CONSTANTS Backend, Procs,
          Role,      \* user -> "owner", "nsOwner", "admin", "manager", "member" or "other"
          Private,   \* whether the repository is private
          Labels,
          Requests,  \* the kinds of request a run sends
          MaxEvents  \* bound on events and issues

Users == DOMAIN Role
repo == <<"acme", "repo">>
Num == 1

VARIABLES db, rq,
          decided,  \* <<list, label>> -> whether the last acknowledged request put it there
          defined,  \* labels the vocabulary has ever had
          pinner    \* who pinned or unpinned the issue last

vars == <<db, rq, decided, defined, pinner>>

DB == INSTANCE Database
Idle == [at |-> "idle"]
Nobody == "nobody"

Init ==
    /\ db = LET d == [EmptyDb EXCEPT !.user = SetToSeq({[name |-> u] : u \in Users}),
                                     !.repo = <<[id |-> 1, ns |-> "acme", name |-> "repo", issuelabels |-> <<>>]>>]
            IN DB!NewRepositoryIssue(d, repo, CHOOSE u \in Users : Role[u] = "owner").db
    /\ rq = [p \in Procs |-> Idle]
    /\ decided = [k \in {} |-> TRUE] /\ defined = {} /\ pinner = Nobody

Goto(p, r) == rq' = [rq EXCEPT ![p] = r]
Ghosts == <<decided, defined, pinner>>
Serve(p, kind, r) == rq[p] = Idle /\ kind \in Requests /\ Goto(p, r) /\ UNCHANGED <<db, decided, defined, pinner>>

MaySee(u) == Private => Role[u] # "other"
canManageIssueLabels(u) == Role[u] \in {"owner", "nsOwner", "admin", "manager"}

\* A transaction that has read the table and not ended yet.
Reads(q, list) == rq[q].at = "write" /\ rq[q].list = list
\* A fault: the list is read before the transaction is begun.
NotLocked(p, list) == FALSE
Locked(p, list) == Backend = "sqlite" /\ \E q \in Procs \ {p} : Reads(q, list)

\* --- labels ---

\* Attaching or removing one; the vocabulary is read first.
Vocabulary == DB!GetRepositoryIssueLabel(db, repo)
\* A fault: the vocabulary is not asked.
AnyLabel(l) == TRUE
Known(l) == Contains(Vocabulary, l)

LabelIssue(p) ==
    \E u \in Users, l \in Labels, add \in BOOLEAN :
        /\ MaySee(u) /\ canManageIssueLabels(u) /\ Known(l)
        /\ Serve(p, "label", [at |-> "read", list |-> "issue", label |-> l, add |-> add])

\* The settings: adding a label to the vocabulary or deleting it.
canEditRepositorySettings(u) == Role[u] \in {"owner", "nsOwner", "admin", "manager"}

LabelVocabulary(p) ==
    \E u \in Users, l \in Labels, add \in BOOLEAN :
        /\ canEditRepositorySettings(u)
        /\ Serve(p, "vocabulary", [at |-> "read", list |-> "vocabulary", label |-> l, add |-> add])

ReadList(p) ==
    /\ rq[p].at = "read"
    /\ Goto(p, [at |-> "write", list |-> rq[p].list, label |-> rq[p].label, add |-> rq[p].add,
                read |-> IF rq[p].list = "issue" THEN DB!IssueLabelsRead(db, repo, Num) ELSE Vocabulary])
    /\ UNCHANGED <<db, decided, defined, pinner>>

NewList(r) == IF r.add THEN IF Contains(r.read, r.label) THEN r.read ELSE Append(r.read, r.label)
              ELSE SelectSeq(r.read, LAMBDA l : l # r.label)

WriteList(p) ==
    /\ rq[p].at = "write"
    /\ LET r == rq[p] IN
       IF Locked(p, r.list) THEN UNCHANGED <<db, decided, defined>>
       ELSE /\ db' = IF r.list = "issue" THEN DB!updateIssueLabelList(db, repo, Num, NewList(r)).db
                     ELSE DB!updateRepositoryIssueLabelList(db, repo, NewList(r)).db
            /\ decided' = (<<r.list, r.label>> :> r.add) @@ decided
            /\ defined' = IF r.list = "vocabulary" THEN defined \cup Range(NewList(r)) ELSE defined
    /\ Goto(p, Idle)
    /\ UNCHANGED pinner

\* --- the rest of POST /repo/{repo}/issue/{id}, and issue/new ---

Pin(p) ==
    /\ rq[p] = Idle /\ "pin" \in Requests
    /\ \E u \in Users, prio \in {0, 100} :
          /\ MaySee(u)
          /\ IF Locked(p, "issue") THEN UNCHANGED <<db, pinner>>
             ELSE db' = DB!SetIssuePriority(db, repo, Num, prio).db /\ pinner' = u
    /\ UNCHANGED <<rq, decided, defined>>

\* Comments, closing and reopening: the row is read before the transaction.
Event(p) ==
    \E u \in Users, e \in {"comment", "solved", "discarded", "reopened"} :
        /\ MaySee(u) /\ Len(db.event) < MaxEvents
        /\ Serve(p, "event", [at |-> "event", u |-> u, e |-> e, read |-> DB!GetRepositoryIssue(db, repo, Num)])

WriteEvent(p) ==
    /\ rq[p].at = "event"
    /\ db' = IF Locked(p, "issue") THEN db ELSE DB!NewRepositoryIssueEvent(db, rq[p].read, rq[p].e, rq[p].u).db
    /\ Goto(p, Idle)
    /\ UNCHANGED Ghosts

NewIssue(p) ==
    /\ rq[p] = Idle /\ "new" \in Requests /\ Len(db.issue) < MaxEvents
    /\ \E u \in Users : MaySee(u) /\ db' = IF Locked(p, "issue") THEN db ELSE DB!NewRepositoryIssue(db, repo, u).db
    /\ UNCHANGED <<rq, decided, defined, pinner>>

Step(p) ==
    \/ LabelIssue(p) \/ LabelVocabulary(p) \/ ReadList(p) \/ WriteList(p)
    \/ Pin(p) \/ Event(p) \/ WriteEvent(p) \/ NewIssue(p)

Next == \E p \in Procs : Step(p)

Spec == Init /\ [][Next]_vars

-----------------------------------------------------------------------------

Issue == DB!GetRepositoryIssue(db, repo, Num)
List(name) == Range(IF name = "issue" THEN Issue.labels ELSE Vocabulary)

\* Of requests that change a list of labels at the same time none undoes what
\* another one was told has been done.
NoLabelLost == \A k \in DOMAIN decided : (k[2] \in List(k[1])) = decided[k]

\* An issue carries only labels the vocabulary of its repository has had, though
\* it is asked in another transaction than the one that attaches the label.
LabelsWereDefined == List("issue") \subseteq defined

\* An issue is closed the way some event of it says, whatever status the writer
\* of the event had read.
ClosedByEvent ==
    Issue.status # "open" => \E i \in DOMAIN db.event : db.event[i].issue = Issue.id /\ db.event[i].type = Issue.status

\* Whoever may manage labels may remove one the issue carries.
CarriedCanBeRemoved == \A l \in List("issue") : Known(l)

\* Only the owner of the repository pins and unpins.
PinnedByOwner == pinner = Nobody \/ Role[pinner] = "owner"
====
