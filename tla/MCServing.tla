---- MODULE MCServing ----
(***************************************************************************)
(* What stands around the pages: the four session stores, the visibility   *)
(* of the site with clones over HTTP and logins over SSH, the rate limiter *)
(* and the git hooks, side by side.  The initial state chooses a part; the *)
(* variables of the other components rest.  The definitions without a      *)
(* prefix are those of RateLimit.                                          *)
(***************************************************************************)
EXTENDS RateLimit, TLC

CONSTANTS p1, p2, p3

VARIABLES part,
          st, issued, ended, doubt,
          cfg, file, slots,
          list, hooks, pr

Sqlite == INSTANCE Sessions WITH
    Store <- "sqlite", Procs <- {p1, p2}, SessionIds <- {"a", "b"},
    Requests <- {"login", "check", "sessions", "revoke", "logout", "password"},
    MaxTime <- 1, Lifetime <- 1, CacheTTL <- 1
Redis == INSTANCE Sessions WITH
    Store <- "redis", Procs <- {p1, p2}, SessionIds <- {"a", "b"},
    Requests <- {"login", "page", "revoke", "password"}, MaxTime <- 1, Lifetime <- 1, CacheTTL <- 1
Memcached == INSTANCE Sessions WITH
    Store <- "memcached", Procs <- {p1, p2}, SessionIds <- {"a", "b"},
    Requests <- {"login", "revoke", "logout", "password"}, MaxTime <- 1, Lifetime <- 1, CacheTTL <- 1
InMemory == INSTANCE Sessions WITH
    Store <- "in-memory", Procs <- {p1, p2}, SessionIds <- {"a", "b"},
    Requests <- {"login", "revoke", "logout"}, MaxTime <- 1, Lifetime <- 1, CacheTTL <- 1

SiteIn(v) == [vis |-> v, full |-> {}, ann |-> [on |-> FALSE, msg |-> FALSE, start |-> 0, end |-> 0,
                                               mode |-> "shutdown", restore |-> FALSE]]
Repo(ns, st_) == [ns |-> ns, status |-> st_]
SomeRepos == "open" :> Repo("public", "public") @@ "old" :> Repo("public", "archived")
             @@ "mine" :> Repo("public", "private") @@ "team" :> Repo("private", "public")

Pages == INSTANCE Visibility WITH
    Mode <- "forge", Procs <- {p1, p2}, Users <- {"root", "ann"}, Admins <- {"root"}, Guest <- "",
    FullLists <- {{"root"}}, StartConfigs <- {SiteIn("public")},
    Protocols <- {"v1dumb", "v2"}, Repos <- SomeRepos, Kinds <- {"page", "lockdown"},
    MaxConcurrentClone <- 1, MaxTime <- 2
Clones == INSTANCE Visibility WITH
    Mode <- "forge", Procs <- {p1, p2, p3}, Users <- {"root", "ann"}, Admins <- {"root"}, Guest <- "",
    FullLists <- {{"root"}}, StartConfigs <- {SiteIn("public")},
    Protocols <- {"v1dumb", "v2"}, Repos <- SomeRepos, Kinds <- {"clone", "lockdown"},
    MaxConcurrentClone <- 1, MaxTime <- 2
Logins == INSTANCE Visibility WITH
    Mode <- "forge", Procs <- {p1, p2}, Users <- {"root"}, Admins <- {"root"}, Guest <- "",
    FullLists <- {{"root"}}, StartConfigs <- {SiteIn("public")},
    Protocols <- {"v2"}, Repos <- [r \in {"old"} |-> SomeRepos[r]], Kinds <- {"ssh", "lockdown"},
    MaxConcurrentClone <- 1, MaxTime <- 2
Hosted == INSTANCE Visibility WITH
    Mode <- "host", Procs <- {p1, p2}, Users <- {"root", "ann"}, Admins <- {"root"}, Guest <- "",
    FullLists <- {}, StartConfigs <- {SiteIn("public"), SiteIn("private")},
    Protocols <- {"v2"}, Repos <- [r \in {"open"} |-> SomeRepos[r]], Kinds <- {"ssh"},
    MaxConcurrentClone <- 1, MaxTime <- 2

H(pre, upd) == "pre-receive" :> pre @@ "update" :> upd
Foreign == INSTANCE Hooks WITH
    Procs <- {p1, p2}, New <- {}, pageSize <- 1, Deletions <- TRUE,
    Start <- <<[repo |-> "a", hooks |-> H("none", "old")], [repo |-> "b", hooks |-> H("old", "foreign")]>>
Walk == INSTANCE Hooks WITH
    Procs <- {p1, p2}, New <- {"n"}, pageSize <- 2, Deletions <- FALSE,
    Start <- <<[repo |-> "a", hooks |-> H("none", "old")], [repo |-> "b", hooks |-> H("none", "none")],
               [repo |-> "c", hooks |-> H("old", "old")]>>

SessionVars == <<st, issued, ended, doubt>>
SiteVars == <<cfg, file, slots>>
LimiterVars == <<limiter, lastSeen, inserts, buckets, allowed>>
HookVars == <<list, hooks, pr>>
ServingVars == <<part, now, rq, SessionVars, SiteVars, LimiterVars, HookVars>>

Rest == "unused"
NoSessions == st = Rest /\ issued = Rest /\ ended = Rest /\ doubt = Rest
NoSite == cfg = Rest /\ file = Rest /\ slots = Rest
NoLimiter == /\ limiter = Rest /\ lastSeen = Rest /\ inserts = Rest /\ buckets = Rest
             /\ allowed = [a \in Addresses |-> 0]
NoHooks == list = Rest /\ hooks = Rest /\ pr = Rest

ServingInit ==
    \/ /\ NoSite /\ NoLimiter /\ NoHooks
       /\ \/ part = "sqlite" /\ Sqlite!Init
          \/ part = "redis" /\ Redis!Init
          \/ part = "memcached" /\ Memcached!Init
          \/ part = "in-memory" /\ InMemory!Init
    \/ /\ NoSessions /\ NoLimiter /\ NoHooks
       /\ \/ part = "pages" /\ Pages!Init
          \/ part = "clones" /\ Clones!Init
          \/ part = "logins" /\ Logins!Init
          \/ part = "hosted" /\ Hosted!Init
    \/ NoSessions /\ NoSite /\ NoHooks /\ part = "limiter" /\ Init
    \/ /\ NoSessions /\ NoSite /\ NoLimiter /\ now = 0 /\ rq = Rest
       /\ \/ part = "foreign" /\ Foreign!Init
          \/ part = "walk" /\ Walk!Init

ServingNext ==
    /\ UNCHANGED part
    /\ \/ /\ UNCHANGED <<SiteVars, LimiterVars, HookVars>>
          /\ \/ part = "sqlite" /\ Sqlite!Next
             \/ part = "redis" /\ Redis!Next
             \/ part = "memcached" /\ Memcached!Next
             \/ part = "in-memory" /\ InMemory!Next
       \/ /\ UNCHANGED <<SessionVars, LimiterVars, HookVars>>
          /\ \/ part = "pages" /\ Pages!NextWithSSH
             \/ part = "clones" /\ Clones!NextWithSSH
             \/ part = "logins" /\ Logins!NextWithSSH
             \/ part = "hosted" /\ Hosted!NextWithSSH
       \/ part = "limiter" /\ Next /\ UNCHANGED <<SessionVars, SiteVars, HookVars>>
       \/ /\ UNCHANGED <<now, rq, SessionVars, SiteVars, LimiterVars>>
          /\ \/ part = "foreign" /\ Foreign!Next
             \/ part = "walk" /\ Walk!Next

ServingSpec == ServingInit /\ [][ServingNext]_ServingVars

Symmetry == Permutations({p1, p2, p3})

-----------------------------------------------------------------------------

\* A session whose end was answered (log out, the revoke button, a change of the
\* password) is never again taken for a login by a request sent after it, in any
\* of the stores (a change of the password is left out of the in-memory store).
\* docs/session.org: "Sessions aren't the kind of things that can be seemingly
\* exist to you *some* of the times." An active session passes every check (SQLite,
\* Redis) and is on the list of the session page, where none is that had ended
\* (SQLite).
SessionsHold ==
    /\ part = "sqlite" => Sqlite!EndedStaysEnded /\ Sqlite!ActiveIsAccepted /\ Sqlite!SessionsAreListed
    /\ part = "redis" => Redis!EndedStaysEnded /\ Redis!ActiveIsAccepted
    /\ part = "memcached" => Memcached!EndedStaysEnded
    /\ part = "in-memory" => InMemory!EndedStaysEnded

\* Whatever the order in which the mode changes, by form or by schedule, and
\* the middleware asks for it twice, a page is served to a user the mode in
\* effect at that step lets pass.  The banner is up only before a change, and
\* `gitus ssh`, which has the mode from the configuration file, goes by the mode
\* the server is in.
JudgedByMode ==
    [][((part = "pages" => Pages!Served /\ Pages!TypeOK' /\ Pages!BannerComesBefore')
        /\ (part = "logins" => Logins!SeesMode))]_ServingVars

\* The slots in use are those of the requests that run git or are about to,
\* whichever way a request ends (clone_limiter.go), and a dumb clone that was begun
\* ends unless the mode changes: a repository whose info/refs is served has its HEAD
\* and its objects served too (http-clone.go).
ClonesEndWell == part = "clones" => Clones!SlotsAreReturned /\ Clones!DumbCloneComplete

\* Whenever a push runs the hooks of a repository each is a whole one, also after
\* a process has died while it installed them; a repository with a hook of somebody
\* else's is left alone altogether; and when a walk over all repositories has
\* reported no failure, those that were there when it began, and still are, have
\* the hooks of this build.
HooksHold ==
    /\ part = "foreign" => Foreign!NoHalfHook /\ Foreign!ForeignLeftAlone
    /\ part = "walk" => Walk!NoHalfHook /\ Walk!WalkVisitsAll
====
