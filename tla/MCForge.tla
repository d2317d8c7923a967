---- MODULE MCForge ----
(***************************************************************************)
(* Requests to the pages of a forge: settings and members of repositories  *)
(* and namespaces, issues and their labels, snippets, merges of pull       *)
(* requests that meet each other, and the branches and tags of a fork.     *)
(* The parts are checked side by side: the initial state chooses one, with *)
(* a backend and the kinds of request that meet in it, and the other       *)
(* variables rest.  The definitions without a prefix are those of          *)
(* Branches.                                                               *)
(***************************************************************************)
EXTENDS Branches, TLC, FiniteSets

CONSTANTS ann, bob, cat, p1, p2, pr1

VARIABLES part,
          db, page, decided, defined, pinner, selected,
          objs, head, provider, fetched, job, raced,
          status, check, reviews, merges, req, rev, pending, landed, touched

Alone == INSTANCE Settings WITH
    Backend <- "sqlite", Procs <- {p1}, NoUser <- "nobody", Namespace <- "n", Users <- {ann, bob, cat}, Admins <- {},
    Barred <- {bob}, Names <- {"r"}, Ticks <- {}, Statuses <- {"public", "archived"}, Labels <- {"l"},
    InitAcl <- (bob :> {"pushToRepo"} @@ cat :> {"editInfo"}), MaxSeq <- 1,
    Requests <- {"info", "webhook", "delete", "label", "unlabel", "nsinfo"},
    Like <- {}, Collation <- <<>>, rq <- page
Members == INSTANCE Settings WITH
    Backend <- "postgres", Procs <- {p1, p2}, NoUser <- "nobody", Namespace <- "n", Users <- {ann, bob}, Admins <- {},
    Barred <- {bob}, Names <- {"r"}, Ticks <- {{"pushToRepo"}, {"editInfo"}}, Statuses <- {}, Labels <- {},
    InitAcl <- (bob :> {"addMember"}), MaxSeq <- 2, Requests <- {"add", "edit", "remove", "delete", "new", "nsremove"},
    Like <- {}, Collation <- <<>>, rq <- page
Spaces == INSTANCE Settings WITH
    Backend <- "mysql", Procs <- {p1, p2}, NoUser <- "nobody", Namespace <- "n", Users <- {ann, bob}, Admins <- {},
    Barred <- {bob}, Names <- {"r", "s"}, Ticks <- {{"pushToRepo"}, {"editInfo"}}, Statuses <- {}, Labels <- {},
    InitAcl <- (bob :> {"addMember"}), MaxSeq <- 2, Requests <- {"nsadd", "nsedit", "nsremove", "nsdelete", "newns", "fork"},
    Like <- {}, Collation <- <<>>, rq <- page

Role == "ann" :> "owner" @@ "bob" :> "other"
Labelling == INSTANCE Issues WITH
    Backend <- "sqlite", Procs <- {p1, p2}, Private <- FALSE, Labels <- {"bug", "ui"},
    Requests <- {"label", "vocabulary"}, MaxEvents <- 2, Like <- {}, Collation <- <<>>, rq <- page
Tracking == INSTANCE Issues WITH
    Backend <- "postgres", Procs <- {p1, p2}, Private <- TRUE, Labels <- {"bug"},
    Requests <- {"event", "new", "pin"}, MaxEvents <- 2, Like <- {}, Collation <- <<>>, rq <- page

Snippets == INSTANCE Snippet WITH
    Backend <- "sqlite", Procs <- {p1, p2}, Owner <- "ann", Admin <- "root", Users <- {"ann", "bob", "root"},
    Names <- {"s1"}, Files <- {"f", "g"},
    Statuses <- {"public", "internal", "sharedUser", "sharedLink", "sharedLinkInternal", "private", "other"},
    Like <- {}, Collation <- <<>>, rq <- page

Merging == INSTANCE PullRequest WITH
    PullRequests <- {pr1}, Workers <- {p1, p2}, Reviewers <- {}, Conflicting <- {{2, 3}}, MaxCommits <- 3,
    MaxPending <- 0, MaxLanded <- 1, tracking <- fetched, moved <- raced

\* Of the requests to a fork, edits meet creations and deletions of refs, and a
\* sync, or the creation of a ref, pushes only.
EditsMeet == UNCHANGED above /\ \A p \in Procs : rq'[p].at \notin {"fetchFork", "fetchAll"}
SyncsAlone ==
    /\ Cardinality({p \in Procs : rq'[p] # Idle}) <= 1
    /\ \A p \in Procs : rq'[p].at \notin {"import", "delete"}

PageVars == <<db, page, decided, defined, pinner, selected>>
GitVars == <<objs, head, provider, fetched, job, raced>>
PRVars == <<status, check, reviews, merges, req, rev, pending, landed, touched>>
ForgeVars == <<part, PageVars, GitVars, PRVars, vars>>

Rest == "unused"
NoPages == db = Rest /\ page = Rest /\ decided = Rest /\ defined = Rest /\ pinner = Rest /\ selected = Rest
NoGit == objs = Rest /\ head = Rest /\ provider = Rest /\ fetched = Rest /\ job = Rest /\ raced = Rest
NoPR == /\ status = Rest /\ check = Rest /\ reviews = Rest /\ merges = Rest /\ req = Rest /\ rev = Rest
        /\ pending = Rest /\ landed = Rest /\ touched = Rest
NoFork == /\ anc = Rest /\ heads = [n \in Names |-> None] /\ tags = [n \in TagNames |-> None]
          /\ upstream = Rest /\ upTags = Rest /\ tracking = Rest /\ stored = Rest
          /\ rq = [p \in Procs |-> Idle] /\ moved = Rest

ForgeInit ==
    \/ /\ NoGit /\ NoPR /\ NoFork
       /\ \/ /\ defined = Rest /\ pinner = Rest /\ selected = Rest
             /\ \/ part = "alone" /\ Alone!Init
                \/ part = "members" /\ Members!Init
                \/ part = "namespace" /\ Spaces!Init
          \/ /\ selected = Rest
             /\ \/ part = "labels" /\ Labelling!Init
                \/ part = "events" /\ Tracking!Init
          \/ /\ decided = Rest /\ defined = Rest /\ pinner = Rest
             /\ part = "snippets" /\ Snippets!Init
    \/ NoPages /\ NoFork /\ part = "merging" /\ Merging!PRInit
    \/ NoPages /\ NoGit /\ NoPR /\ part \in {"editing", "syncing"} /\ Init

ForgeNext ==
    /\ UNCHANGED part
    /\ \/ /\ UNCHANGED <<GitVars, PRVars, vars>>
          /\ \/ /\ UNCHANGED <<defined, pinner, selected>>
                /\ \/ part = "alone" /\ Alone!Next
                   \/ part = "members" /\ Members!Next
                   \/ part = "namespace" /\ Spaces!Next
             \/ /\ UNCHANGED selected
                /\ \/ part = "labels" /\ Labelling!Next
                   \/ part = "events" /\ Tracking!Next
             \/ part = "snippets" /\ Snippets!Next /\ UNCHANGED <<decided, defined, pinner>>
       \/ part = "merging" /\ Merging!PRNext /\ UNCHANGED <<PageVars, vars>>
       \/ /\ UNCHANGED <<PageVars, GitVars, PRVars>>
          /\ \/ part = "editing" /\ Next /\ EditsMeet
             \/ part = "syncing" /\ Next /\ SyncsAlone

ForgeSpec == ForgeInit /\ [][ForgeNext]_ForgeVars

Symmetry == Permutations({p1, p2})

-----------------------------------------------------------------------------

\* The members of a repository and of a namespace, and what each may do, are
\* what the last acknowledged change said, whichever requests ran meanwhile and
\* however often the repository or namespace was deleted and made again
\* (SetRepositoryACL and SetNamespaceACL of PostgreSQL and MySQL), and the owner
\* of a namespace is a user (namespace-setting.go).
DecisionsStand ==
    /\ part = "members" => Members!DecisionsStand
    /\ part = "namespace" => Spaces!DecisionsStand
    /\ part = "alone" => Alone!NamespaceOwnersExist

\* One request at a time, only its owner, the owner of its namespace or an
\* administrator hands a repository, or a namespace, to somebody else, and a
\* member who may only push changes neither settings nor labels (acl.go,
\* HasSettingPrivilege).
ChangesByRight == [][(part = "alone" => Alone!OwnerChange /\ Alone!Administers)]_ForgeVars

\* Of requests that change the labels of an issue, or the vocabulary, at the same
\* time none undoes what another one was told has been done (SQLite); an issue
\* carries only labels the vocabulary has had, and is closed the way some event of
\* it says, though vocabulary and status are read before the transaction that
\* writes (issue.go, NewRepositoryIssueEvent).
IssuesStand ==
    /\ part = "labels" => Labelling!NoLabelLost /\ Labelling!LabelsWereDefined
    /\ part = "events" => Tracking!ClosedByEvent

\* The list query and the switch of the snippet page are two definitions of who
\* may see a snippet: whatever the list shows somebody other than the owner, the
\* page opens for them.
ListedOpens == part = "snippets" => Snippets!ListedOpens

\* A pull request says it was merged only if it was: every "merged" goes back to
\* a move of the receiver branch of its own, whatever crashes, concurrent merges,
\* closes and reopens happen between the update-ref and the last transaction.
MergedWasDelivered == part = "merging" => Merging!MergedWasDelivered

\* What was stored leaves in known ways only: the file of a snippet through a
\* request to delete that very file, and a commit of the receiver branch of two
\* merges at once through the update-ref of one whose refs somebody else had
\* moved (merge.go).
NothingElseIsLost ==
    [][(/\ part = "snippets" => Snippets!FilesKept
        /\ part = "merging" => Merging!LossOnlyInRace)]_ForgeVars
====
