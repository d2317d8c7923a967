---- MODULE MCProgress ----
(***************************************************************************)
(* What must come to an end: calls of the last-commit cache, pushes with   *)
(* their hooks and webhooks, and announced maintenance windows, side by    *)
(* side.  The initial state chooses a part; the variables of the other     *)
(* components rest in a state from which nothing is due.                   *)
(***************************************************************************)
EXTENDS LastCommit, TLC

CONSTANTS p1, p2, p3

VARIABLES part,
          conf, ref, tracking, base, quar, db, ppc, job, made, sent, answer,
          now, cfg, file, slots, rq

MCFileOf == "root" :> "f1" @@ "src" :> "f1"

On == [enable |-> TRUE, secret |-> TRUE, json |-> TRUE]
DB == INSTANCE Database WITH Backend <- "sqlite", Like <- {}, Collation <- <<>>
Pushing == INSTANCE Push WITH
    pc <- ppc, Pushers <- {p1, p2}, Sizes <- {0, 2}, Limit <- 3, Tip <- 9,
    RegisterWebhookRequest <- DB!RegisterWebhookRequest, GetWebhookResultByUUID <- DB!GetWebhookResultByUUID,
    EmptyDb <- DB!EmptyDb, Null <- DB!Null,
    Confs <- {On, [On EXCEPT !.json = FALSE]}, MaxPushes <- 2

\* A window can be announced by the form, or stand in the file at the start.
Announced == [on : BOOLEAN, msg : {TRUE}, start : 1..2, end : 2..3, mode : {"shutdown", "maintenance"}, restore : {TRUE}]
Window == INSTANCE Visibility WITH
    Mode <- "forge", Procs <- {p1}, Users <- {"root", "ann"}, Admins <- {"root"}, Guest <- "", FullLists <- {{"root"}},
    StartConfigs <- {[vis |-> "public", full |-> {}, ann |-> a] : a \in {a \in Announced : a.end > a.start}},
    Protocols <- {"v2"}, Repos <- "open" :> [ns |-> "public", status |-> "public"], Kinds <- {"lockdown"},
    MaxConcurrentClone <- 1, MaxTime <- 3

PushVars == <<conf, ref, tracking, base, quar, db, ppc, job, made, sent, answer>>
SiteVars == <<now, cfg, file, slots, rq>>
pvars == <<part, vars, PushVars, SiteVars>>

Rest == "unused"
NoPush == /\ conf = Rest /\ ref = Rest /\ tracking = Rest /\ base = Rest /\ quar = Rest /\ db = Rest
          /\ ppc = [p \in {p1, p2} |-> "idle"] /\ job = Rest /\ made = Rest /\ sent = Rest /\ answer = Rest
NoSite == now = 1 /\ cfg = [vis |-> "public", full |-> {}, ann |-> Window!NoAnnouncement] /\ file = Rest /\ slots = Rest /\ rq = Rest

PInit ==
    /\ Init
    /\ \/ part = "listings" /\ NoPush /\ NoSite
       \/ part = "pushes" /\ Pushing!Init /\ NoSite
       \/ part = "window" /\ Window!Init /\ NoPush

Listings(A) == part = "listings" /\ A /\ UNCHANGED <<part, PushVars, SiteVars>>
Pushes(A) == part = "pushes" /\ A /\ UNCHANGED <<part, vars, SiteVars>>
Site(A) == part = "window" /\ A /\ UNCHANGED <<part, vars, PushVars>>

PNext == Listings(Next) \/ Pushes(Pushing!Next) \/ Site(Window!Next)

PSpec ==
    /\ PInit /\ [][PNext]_pvars
    /\ \A p \in Procs : WF_pvars(Listings(Step(p)))
    /\ \A p \in {p1, p2} : WF_pvars(Pushes(Pushing!Step(p)))
    /\ WF_pvars(Site(Window!Tick))

-----------------------------------------------------------------------------

\* What was begun ends: every call of ResolveLastCommitAtDir, those that wait for
\* another's included; every push, whatever the server, the upstream repository
\* and the receiver of the webhook do ("a receiver that never answers must not
\* hold the push hostage", webhooks.go); and a window announced with automatic
\* recovery, unless another announcement takes its place.
WorkEnds == CallsReturn /\ Pushing!PushesEnd /\ Window!SiteComesBack

\* What a push leaves behind fits what it was told.  The receiver of a webhook can
\* always refer to its request: the row is there, undecided, when the message
\* leaves, and there is none for a push that asked for silence (webhooks.go).  A push
\* the storage check let through on a size it could determine did fit: its own
\* objects and everything that was there when it began, whatever other pushes moved
\* while it was counted (docs/storage.org).  RegisteringAdds is what the hook counts
\* on, and the theorem about pushes assumes: SQLite registers a request by a row.
PushesHold ==
    part = "pushes" => Pushing!SentIsRegistered /\ Pushing!SilenceIsKept /\ Pushing!AcceptedPushesFit /\ Pushing!RegisteringAdds
====
