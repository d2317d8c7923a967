---- MODULE Visibility ----
(***************************************************************************)
(* Who is served while: the global visibility and its scheduled change     *)
(* (pkg/gitus/config.go, admin/site-lockdown.go), the middleware that asks *)
(* for it (routes/middleware.go), and clones over HTTP (http-clone.go,    *)
(* with the slots of clone_limiter.go), and cmd/gitus/ssh.go beside the    *)
(* server: a process for every login, started by sshd, that loads the      *)
(* configuration file.  Time is counted in steps; 0 is a time left empty.  *)
(* Notice texts and page bodies are left out.  The check of a key is in    *)
(* module Keys; a command that is not git's and a repository that does not *)
(* exist are refused and left out.                                         *)
(***************************************************************************)
EXTENDS Integers, FiniteSets

CONSTANTS Mode,        \* OperationMode: "forge", "host" or "browse"
          Procs, Users, Admins,
          Guest,       \* the user name of a request without a session, ""
          StartConfigs,\* what the server may be started with
          Protocols,   \* httpCloneProtocol: of "v1dumb" and "v2"
          FullLists,   \* lists of fullAccessUser a form may carry
          Repos,       \* repository -> [ns, status]
          Kinds,       \* the kinds of request a run sends
          MaxConcurrentClone,
          MaxTime

VARIABLES now,
          cfg,    \* the configuration in the memory of the server
          file,   \* the configuration file
          slots,  \* CloneLimiter.slots
          rq

vars == <<now, cfg, file, slots, rq>>

Idle == [at |-> "idle"]
Torn == [torn |-> TRUE]
NoAnnouncement == [on |-> FALSE, msg |-> FALSE, start |-> 0, end |-> 0, mode |-> "shutdown", restore |-> FALSE]

Init ==
    /\ now = 1
    /\ cfg \in StartConfigs
    /\ file = cfg /\ slots = 0
    /\ rq = [p \in Procs |-> Idle]

\* What was answered last, a clone that broke off for one, is kept until then.
Ready(p) == rq[p].at \in {"idle", "broken", "ssh"}

Goto(p, r) == rq' = [rq EXCEPT ![p] = r]

\* --- the mode in effect ---

\* A fault: the end of the window restores nothing.
NeverOver(a, t) == FALSE
Over(a, t) == a.restore /\ a.end # 0 /\ t >= a.end

EffectiveGlobalVisibilityAt(c, t) ==
    IF ~c.ann.on \/ c.ann.start = 0 \/ t < c.ann.start \/ Over(c.ann, t) THEN c.vis ELSE c.ann.mode

\* A fault: an announcement stays as long as it is enabled.
ShownWhileOn(c, t) == c.ann.on /\ c.ann.msg
ShouldShowMaintenanceAnnouncementAt(c, t) == c.ann.on /\ c.ann.msg /\ (c.ann.start = 0 \/ t < c.ann.start)

Effective == EffectiveGlobalVisibilityAt(cfg, now)

\* --- pages ---

\* A fault: whoever is logged in passes a shutdown.
AnybodyInShutdown(u) == u # Guest
FullAccess(u) == u \in cfg.full

CheckGlobalVisibleToUser(u) ==
    \/ Mode = "browse"
    \/ Effective = "public"
    \/ Effective = "private" /\ u # Guest
    \/ Effective = "shutdown" /\ FullAccess(u)

\* Hosts without a user system know nobody.
Arrive(p) ==
    /\ Ready(p) /\ "page" \in Kinds
    /\ \E u \in IF Mode = "forge" THEN Users \cup {Guest} ELSE {Guest} :
          Goto(p, [at |-> "gate", kind |-> "page", u |-> u])
    /\ UNCHANGED <<now, cfg, file, slots>>

\* LoginRequired and AdminRequired come first.
ArriveAdmin(p) ==
    /\ Ready(p) /\ "lockdown" \in Kinds /\ Mode = "forge"
    /\ \E u \in Admins : Goto(p, [at |-> "gate", kind |-> "lockdown", u |-> u])
    /\ UNCHANGED <<now, cfg, file, slots>>

\* GlobalVisibility asks once whether the user may pass ...
Gate(p) ==
    /\ rq[p].at = "gate"
    /\ Goto(p, [rq[p] EXCEPT !.at = IF CheckGlobalVisibleToUser(rq[p].u) THEN "serve" ELSE "denied"])
    /\ UNCHANGED <<now, cfg, file, slots>>

\* ... and once more, which notice to send them to; later, it may be none.
Denied(p) ==
    /\ rq[p].at = "denied"
    /\ Goto(p, IF Effective \in {"maintenance", "shutdown", "private"} THEN Idle ELSE [rq[p] EXCEPT !.at = "serve"])
    /\ UNCHANGED <<now, cfg, file, slots>>

Serve(p) ==
    /\ rq[p].at = "serve" /\ rq[p].kind = "page"
    /\ Goto(p, Idle)
    /\ UNCHANGED <<now, cfg, file, slots>>

\* --- /admin/site-lockdown ---

Announcements ==
    {a \in [on : BOOLEAN, msg : BOOLEAN, start : 0..MaxTime, end : 0..MaxTime, mode : {"shutdown", "maintenance"}, restore : BOOLEAN] :
        /\ a.restore => a.start # 0 /\ a.end # 0
        /\ a.start # 0 /\ a.end # 0 => a.end > a.start}

\* The names between the commas: a text left empty holds one, the empty name.
SplitNames(f) == IF f = {} THEN {Guest} ELSE f

\* Under LockForSync, which only the administrator's forms take.
Lockdown(p) ==
    /\ rq[p].at = "serve" /\ rq[p].kind = "lockdown"
    /\ \A q \in Procs : rq[q].at # "sync"
    /\ \/ \E v \in {"public", "private", "maintenance"} : cfg' = [cfg EXCEPT !.vis = v]
       \/ \E f \in FullLists : cfg' = [cfg EXCEPT !.vis = "shutdown", !.full = SplitNames(f)]
       \/ \E a \in Announcements : cfg' = [cfg EXCEPT !.ann = a]
    /\ file' = Torn
    /\ Goto(p, [at |-> "sync"])
    /\ UNCHANGED <<now, slots>>

\* A fault: a write that failed goes unnoticed.
WriteLost == UNCHANGED file
Write == file' = cfg

\* GitusConfig.Sync: the file was opened with O_TRUNC, and is written.
Sync(p) ==
    /\ rq[p].at = "sync"
    /\ Write
    /\ Goto(p, Idle)
    /\ UNCHANGED <<now, cfg, slots>>

\* --- clones over HTTP ---

\* In browse-only mode what is not ignored is served, whatever its status.
PublicStatus(r) == Repos[r].ns = "public" /\ Repos[r].status \in {"public", "archived"}
InfoServed(r) == Mode = "browse" \/ PublicStatus(r)
ObjectServed(r) == Mode = "browse" \/ PublicStatus(r)

\* A fault: an archived repository has no HEAD to offer.
HeadUnlessArchived(r) == Repos[r].ns = "public" /\ Repos[r].status = "public"
\* The route of HEAD does not ask for the mode.
HeadServed(r) == PublicStatus(r)

\* A clone by the dumb protocol asks for info/refs ...
InfoRefs(p) ==
    /\ Ready(p) /\ "clone" \in Kinds /\ "v1dumb" \in Protocols /\ Effective = "public"
    /\ \E r \in DOMAIN Repos : InfoServed(r) /\ Goto(p, [at |-> "head", r |-> r])
    /\ UNCHANGED <<now, cfg, file, slots>>

\* ... then HEAD ...
HeadFile(p) ==
    /\ rq[p].at = "head"
    /\ Goto(p, IF Effective # "public" THEN Idle
               ELSE [rq[p] EXCEPT !.at = IF HeadServed(rq[p].r) THEN "objects" ELSE "broken"])
    /\ UNCHANGED <<now, cfg, file, slots>>

\* ... and the objects.
Objects(p) ==
    /\ rq[p].at = "objects"
    /\ Goto(p, IF Effective # "public" \/ ObjectServed(rq[p].r) THEN Idle ELSE [rq[p] EXCEPT !.at = "broken"])
    /\ UNCHANGED <<now, cfg, file, slots>>

\* info/refs with a service has no body to read, git-upload-pack has: the checks ...
SmartClone(p) ==
    /\ Ready(p) /\ "clone" \in Kinds /\ "v2" \in Protocols /\ Effective = "public"
    /\ \E r \in DOMAIN Repos, post \in BOOLEAN : InfoServed(r) /\ Goto(p, [at |-> "slot", body |-> ~post])
    /\ UNCHANGED <<now, cfg, file, slots>>

\* ... a slot, or 503 ...
TryAcquire(p) ==
    /\ rq[p].at = "slot"
    /\ IF slots < MaxConcurrentClone THEN slots' = slots + 1 /\ Goto(p, [rq[p] EXCEPT !.at = "git"])
       ELSE Goto(p, Idle) /\ UNCHANGED slots
    /\ UNCHANGED <<now, cfg, file>>

Release == slots' = slots - 1

\* A fault: the slot is given back when git was run.
ReleaseLater == UNCHANGED slots
\* The deferred release of a request whose body is refused.
ReleaseEarly == Release

\* ... the body, which may be too large or break off ...
ReadBody(p) ==
    /\ rq[p].at = "git" /\ ~rq[p].body
    /\ \/ Goto(p, [rq[p] EXCEPT !.body = TRUE]) /\ UNCHANGED slots
       \/ Goto(p, Idle) /\ ReleaseEarly
    /\ UNCHANGED <<now, cfg, file>>

\* ... and git, which ends well, fails, or is stopped with the request.
UploadPack(p) ==
    /\ rq[p].at = "git" /\ rq[p].body
    /\ Goto(p, Idle) /\ Release
    /\ UNCHANGED <<now, cfg, file>>

\* --- gitus ssh ---

Roles == {"none", "ns", "nsPush", "repo", "repoPush"}
Verdicts == {"allow", "disallow", ""}

\* A fault: the announcement is not looked at.
ConfiguredMode == file.vis
LoadedMode == EffectiveGlobalVisibilityAt(file, now)

\* The table in the comments of HandleSSHLogin.
TableAllows(r, push, role) ==
    LET status == Repos[r].status
        repoAny == role \in {"repo", "repoPush"}
        nsAny == role \in {"ns", "nsPush"} IN
    /\ LoadedMode \in {"public", "private"}
    /\ IF push
       THEN \/ role = "repoPush" /\ status # "archived"
            \/ role = "nsPush" /\ status \in {"public", "internal", "limited"}
       ELSE \/ status \in {"public", "internal", "archived"}
            \/ status = "limited" /\ (nsAny \/ repoAny)
            \/ status = "private" /\ repoAny

Answered(p, outcome, due) == Goto(p, [at |-> "ssh", vis |-> LoadedMode, outcome |-> outcome, due |-> due])

\* handleSSHHostMode: the user's entry in the configuration of the repository.
HostVerdict(push, acl) ==
    LET v == IF push THEN acl.push ELSE acl.pull IN (IF v = "" THEN acl.default ELSE v) = "allow"

SSHHost(p) ==
    /\ Ready(p) /\ "ssh" \in Kinds /\ Mode = "host" /\ file # Torn
    /\ \E push \in BOOLEAN, acl \in [push : Verdicts, pull : Verdicts, default : Verdicts] :
          Answered(p, IF HostVerdict(push, acl) THEN "git" ELSE "refused", HostVerdict(push, acl))
    /\ UNCHANGED <<now, cfg, file, slots>>

\* HandleSSHLogin, in a process of its own that has no LoginInfo: reading its
\* user name for the privileges ends it.
SSHForge(p) ==
    /\ Ready(p) /\ "ssh" \in Kinds /\ Mode = "forge" /\ file # Torn
    /\ \E r \in DOMAIN Repos, push \in BOOLEAN, role \in Roles :
          Answered(p, IF LoadedMode \notin {"public", "private"} \/ (push /\ Repos[r].status = "archived")
                      THEN "refused" ELSE "panic", TableAllows(r, push, role))
    /\ UNCHANGED <<now, cfg, file, slots>>

Tick == now < MaxTime /\ now' = now + 1 /\ UNCHANGED <<cfg, file, slots, rq>>

Step(p) ==
    \/ Arrive(p) \/ ArriveAdmin(p) \/ Gate(p) \/ Denied(p) \/ Serve(p) \/ Lockdown(p) \/ Sync(p)
    \/ InfoRefs(p) \/ HeadFile(p) \/ Objects(p) \/ SmartClone(p) \/ TryAcquire(p) \/ ReadBody(p) \/ UploadPack(p)

Next == (\E p \in Procs : Step(p)) \/ Tick

NextWithSSH == Next \/ \E p \in Procs : SSHHost(p) \/ SSHForge(p)

\* Time passes.
Spec == Init /\ [][Next]_vars /\ WF_vars(Tick)
SpecWithSSH == Init /\ [][NextWithSSH]_vars

-----------------------------------------------------------------------------

TypeOK ==
    /\ now \in 1..MaxTime /\ slots \in 0..MaxConcurrentClone
    /\ cfg.vis \in {"public", "private", "shutdown", "maintenance"} /\ cfg.full \subseteq Users \cup {Guest}
    /\ file # cfg => file = Torn /\ \E p \in Procs : rq[p].at = "sync"

\* What the modes mean: docs/global-visibility.org.
MayPass(u) ==
    \/ Effective = "public"
    \/ Effective = "private" /\ u # Guest
    \/ Effective = "shutdown" /\ u # Guest /\ u \in cfg.full

Served ==
    \A p \in Procs : rq[p].at # "serve" /\ rq'[p].at = "serve" => MayPass(rq[p].u)

\* Whatever the order in which the mode changes, by form or by schedule, and
\* the middleware asks for it twice, a page is served to a user the mode in
\* effect at that step lets pass.
ServedIsVisible == [][Served]_vars

\* The slots in use are those of the requests that run git or are about to,
\* whichever way a request ends: none is lost, and no more are used than there
\* are.
SlotsAreReturned == slots = Cardinality({p \in Procs : rq[p].at = "git"}) /\ slots <= MaxConcurrentClone

\* A repository whose info/refs is served has its HEAD and its objects served
\* too, so that a dumb clone that was begun ends unless the mode changes.
DumbCloneComplete == \A p \in Procs : rq[p].at # "broken"

\* The banner announces a change to come: while it is shown the configured mode
\* is still in effect.
BannerComesBefore == ShouldShowMaintenanceAnnouncementAt(cfg, now) => Effective = cfg.vis

\* A window announced with automatic recovery ends by itself: at some time the
\* configured mode is in effect, or the announcement is another one.
SiteComesBack == cfg.ann.restore ~> (Effective = cfg.vis \/ ~cfg.ann.restore)

\* Git runs for a user who has come in over SSH exactly when the table says so.
SSHFollowsTable == \A p \in Procs : rq[p].at = "ssh" => (rq[p].outcome = "git" <=> rq[p].due)

SeesMode == \A p \in Procs : rq'[p] # rq[p] /\ rq'[p].at = "ssh" => rq'[p].vis = Effective

\* A process that sshd starts knows the mode only from the configuration file,
\* which the server writes after it has changed the mode in its memory: it goes
\* by the mode the server is in, scheduled ones included.
SSHSeesMode == [][SeesMode]_vars

\* No git over SSH starts while the instance is in maintenance.
NoSSHInMaintenance == \A p \in Procs : rq[p].at = "ssh" /\ rq[p].vis = "maintenance" => rq[p].outcome # "git"
====
