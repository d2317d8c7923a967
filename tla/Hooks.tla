---- MODULE Hooks ----
(***************************************************************************)
(* pkg/gitlib/hooks.go and cmd/gitus/install-hooks.go: the pre-receive and *)
(* update hooks Gitus manages, installed when a repository is created, by  *)
(* its webhook settings and by `gitus install-hooks`, which walks over all *)
(* repositories in pages.  A hook is of an older build ("old"), up to date *)
(* ("current"), somebody else's ("foreign"), cut short ("half") or not     *)
(* there ("none").  Processes may die; what they wrote aside stays.        *)
(***************************************************************************)
EXTENDS Integers, Sequences, Functions

CONSTANTS Procs,
          Start,      \* sequence of [repo, hooks]: what there is, by row id
          New,        \* repositories that may be created meanwhile
          pageSize,
          Deletions   \* whether repositories may be deleted meanwhile

Names == <<"pre-receive", "update">>

VARIABLES list,   \* the repository table, by row id
          hooks,  \* repository -> hook -> what is in the file
          pr      \* what each process has got to

vars == <<list, hooks, pr>>

Idle == [at |-> "idle"]
Repos == {Start[i].repo : i \in DOMAIN Start} \cup New
NoHooks == [h \in Range(Names) |-> "none"]
StartHooks(r) == LET i == {j \in DOMAIN Start : Start[j].repo = r} IN
    IF i = {} THEN NoHooks ELSE Start[CHOOSE j \in i : TRUE].hooks

Init ==
    /\ list = [i \in DOMAIN Start |-> Start[i].repo]
    /\ hooks = [r \in Repos |-> StartHooks(r)]
    /\ pr = [p \in Procs |-> Idle]

Goto(p, q) == pr' = [pr EXCEPT ![p] = q]
Put(r, h, x) == hooks' = [hooks EXCEPT ![r][h] = x]

isGitusHook(x) == x \in {"old", "current"}

\* --- who installs ---

\* HandleInstallHooks of one repository; the webhook settings do the same.
One(p) ==
    /\ pr[p] = Idle
    /\ \E r \in Range(list) :
          Goto(p, [at |-> "check", todo |-> <<r>>, i |-> 1, page |-> 0, count |-> 0, seen |-> {}, failures |-> FALSE])
    /\ UNCHANGED <<list, hooks>>

\* HandleInstallHooks of all: they are counted first ...
Walk(p) ==
    /\ pr[p].at \in {"idle", "done"}
    /\ Goto(p, [at |-> "next", todo |-> <<>>, i |-> 1, page |-> 0, count |-> Len(list), seen |-> Range(list), failures |-> FALSE])
    /\ UNCHANGED <<list, hooks>>

\* A fault: the last page is visited only when it is full.
FullPageLeft(page, count) == (page + 1) * pageSize <= count
PageLeft(page, count) == page * pageSize < count

\* ... and listed page by page.
NextPage(p) ==
    /\ pr[p].at = "next" /\ pr[p].todo = <<>>
    /\ IF PageLeft(pr[p].page, pr[p].count)
       THEN Goto(p, [pr[p] EXCEPT !.page = @ + 1, !.todo = SubSeq(list, pr[p].page * pageSize + 1,
                                                                  IF Len(list) < (pr[p].page + 1) * pageSize THEN Len(list)
                                                                  ELSE (pr[p].page + 1) * pageSize)])
       ELSE Goto(p, [pr[p] EXCEPT !.at = "done"])
    /\ UNCHANGED <<list, hooks>>

NextRepository(p) ==
    /\ pr[p].at = "next" /\ pr[p].todo # <<>>
    /\ Goto(p, [pr[p] EXCEPT !.at = "check", !.i = 1])
    /\ UNCHANGED <<list, hooks>>

\* --- InstallManagedHook ---

Repo(p) == Head(pr[p].todo)
Hook(p) == Names[pr[p].i]
Content(p) == hooks[Repo(p)][Hook(p)]

Leave(p, failed) ==
    Goto(p, [pr[p] EXCEPT !.at = "next", !.todo = Tail(@), !.failures = @ \/ failed])

\* A fault: the first hook is written before the second is looked at.
OneChecked(i) == TRUE
\* Both are looked at before either is written.
BothChecked(i) == i = Len(Names)

Check(p) ==
    /\ pr[p].at = "check"
    /\ IF Content(p) # "none" /\ ~isGitusHook(Content(p)) THEN Leave(p, TRUE)
       ELSE IF BothChecked(pr[p].i) THEN Goto(p, [pr[p] EXCEPT !.at = "install", !.i = 1])
       ELSE Goto(p, [pr[p] EXCEPT !.i = @ + 1])
    /\ UNCHANGED <<list, hooks>>

NextHook(p) == IF pr[p].i < Len(Names) THEN Goto(p, [pr[p] EXCEPT !.at = "install", !.i = @ + 1]) ELSE Leave(p, FALSE)

\* A fault: the hook is written where git looks for it.
WriteInPlace(p) == Put(Repo(p), Hook(p), "half")
WriteAside(p) == UNCHANGED hooks

\* installHookFile leaves a hook that is up to date alone; any other it writes
\* aside, which may fail; the file aside is removed then ...
Install(p) ==
    /\ pr[p].at = "install"
    /\ IF Content(p) = "current" THEN NextHook(p) /\ UNCHANGED hooks
       ELSE \/ Goto(p, [pr[p] EXCEPT !.at = "aside"]) /\ WriteAside(p)
            \/ Leave(p, TRUE) /\ UNCHANGED hooks
    /\ UNCHANGED list

\* ... and renamed into place.
Rename(p) ==
    /\ pr[p].at = "aside"
    /\ Put(Repo(p), Hook(p), "current")
    /\ NextHook(p)
    /\ UNCHANGED list

Crash(p) == pr[p].at \notin {"idle", "done"} /\ Goto(p, Idle) /\ UNCHANGED <<list, hooks>>

Finish(p) == pr[p].at = "done" /\ Goto(p, Idle) /\ UNCHANGED <<list, hooks>>

\* --- meanwhile ---

\* CreateRepository: the row, the directory and its hooks, in one transaction.
CreateRepository ==
    /\ \E r \in New \ Range(list) :
          /\ list' = Append(list, r)
          /\ hooks' = [hooks EXCEPT ![r] = [h \in Range(Names) |-> "current"]]
    /\ UNCHANGED pr

HardDeleteRepository ==
    /\ Deletions
    /\ \E i \in DOMAIN list : list' = SubSeq(list, 1, i - 1) \o SubSeq(list, i + 1, Len(list)) /\ hooks' = [hooks EXCEPT ![list[i]] = NoHooks]
    /\ UNCHANGED pr

Step(p) ==
    \/ One(p) \/ Walk(p) \/ NextPage(p) \/ NextRepository(p) \/ Check(p) \/ Install(p) \/ Rename(p) \/ Crash(p) \/ Finish(p)

Next == (\E p \in Procs : Step(p)) \/ CreateRepository \/ HardDeleteRepository

Spec == Init /\ [][Next]_vars

-----------------------------------------------------------------------------

\* Whenever a push runs the hooks of a repository, each is a whole one, also
\* after a process has died while it installed them.
NoHalfHook == \A r \in Repos : \A h \in Range(Names) : hooks[r][h] # "half"

\* A repository with a hook of somebody else's is left alone altogether: its
\* other hook is what it was.
ForeignLeftAlone ==
    \A r \in Range(list) : (\E h \in Range(Names) : hooks[r][h] = "foreign") => hooks[r] = StartHooks(r)

\* When a walk over all repositories has reported no failure, those that were
\* there when it began, and still are, have the hooks of this build.
WalkVisitsAll ==
    \A p \in Procs : pr[p].at = "done" /\ ~pr[p].failures =>
        \A r \in pr[p].seen \cap Range(list) : hooks[r] = [h \in Range(Names) |-> "current"]
====
