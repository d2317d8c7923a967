---- MODULE Push ----
(***************************************************************************)
(* A push to one branch of a fork: git-receive-pack with the hooks Gitus   *)
(* installs (src/pkg/gitlib/hooks.go), the storage check they run          *)
(* (cmd/gitus/storage-check.go), the update trigger                        *)
(* (cmd/gitus/update-trigger.go), the webhook it sends                     *)
(* (cmd/gitus/webhooks.go) and the report of its result                    *)
(* (routes/controller/webhook-result-report.go).  Git itself is external:  *)
(* githooks(5) has it run pre-receive before the objects leave quarantine, *)
(* update before the ref is written, and compare the ref with the value    *)
(* the client saw.                                                         *)
(***************************************************************************)
EXTENDS Naturals, FiniteSets, Sequences

CONSTANTS Pushers, Sizes,
          Limit,      \* RepositorySizeLimit; 0 is none
          EmptyDb, Null, RegisterWebhookRequest(_, _, _, _, _), GetWebhookResultByUUID(_, _),   \* of the backend
          Tip,        \* the commit the branch may start from
          Confs,      \* the webhook settings tried
          MaxPushes   \* bound on the pushes

VARIABLES conf,       \* WebHookConfig of the repository
          ref,        \* the tip of the branch, 0 when there is none
          tracking,   \* refs/remotes/<fork>/<branch> of the upstream repository
          base,       \* bytes outside the quarantine directories
          quar,       \* bytes in the quarantine directory of a push
          db, pc, job,
          made,       \* commits pushed so far
          sent,       \* webhooks delivered: the uuids of the requests
          answer      \* status of the last report for a webhook

vars == <<conf, ref, tracking, base, quar, db, pc, job, made, sent, answer>>

NoJob == [old |-> 0, new |-> 0, bytes |-> 0, tag |-> FALSE, seen |-> 0, began |-> 0, fits |-> FALSE, refreshed |-> FALSE]

Init ==
    /\ conf \in Confs /\ ref \in {0, Tip} /\ tracking = 0 /\ base = 0 /\ quar = [p \in Pushers |-> 0]
    /\ db = EmptyDb
    /\ pc = [p \in Pushers |-> "idle"] /\ job = [p \in Pushers |-> NoJob]
    /\ made = 0 /\ sent = {} /\ answer = [u \in {} |-> 0]

Goto(p, l) == pc' = [pc EXCEPT ![p] = l]

\* The bytes in the quarantine directories.
Bytes(q) == UNION {{p} \X (1..q[p]) : p \in DOMAIN q}

\* The client has sent the pack; a deletion (new = 0) has none, and the
\* pre-receive hook skips the check for it.
Receive(p, bytes, tag) ==
    /\ pc[p] = "idle" /\ made < MaxPushes /\ made' = made + 1
    /\ bytes = 0 => ref # 0
    /\ quar' = [quar EXCEPT ![p] = bytes]
    /\ job' = [job EXCEPT ![p] = [NoJob EXCEPT !.old = ref, !.new = IF bytes = 0 THEN 0 ELSE made + 1,
                                               !.bytes = bytes, !.tag = tag, !.began = base]]
    /\ Goto(p, IF bytes = 0 THEN "update" ELSE "check")
    /\ UNCHANGED <<conf, ref, tracking, base, db, sent, answer>>

\* HandleStorageCheck.  filepath.WalkDir meets objects/pack before the
\* quarantine directories, while other pushes go on.
StorageCheck(p) ==
    /\ pc[p] = "check"
    /\ \/ Limit > 0 /\ job' = [job EXCEPT ![p].seen = base] /\ Goto(p, "quarantine")
       \/ UNCHANGED job /\ Goto(p, "migrate")  \* no limit, or no size to be had: fails open
    /\ UNCHANGED <<conf, ref, tracking, base, quar, db, made, sent, answer>>

QuarantineIgnored(p) == job[p].seen
CountedSize(p) == job[p].seen + Cardinality(Bytes(quar))

\* CheckSizeLimit: a refused push leaves nothing behind.  A file that vanishes
\* under the walk is an error, and the check fails open.
CheckSizeLimit(p) ==
    /\ pc[p] = "quarantine"
    /\ \/ /\ CountedSize(p) > Limit
          /\ quar' = [quar EXCEPT ![p] = 0] /\ Goto(p, "idle") /\ UNCHANGED job
       \/ /\ CountedSize(p) <= Limit
          /\ job' = [job EXCEPT ![p].fits = TRUE] /\ Goto(p, "migrate") /\ UNCHANGED quar
       \/ UNCHANGED <<quar, job>> /\ Goto(p, "migrate")
    /\ UNCHANGED <<conf, ref, tracking, base, db, made, sent, answer>>

Migrate(p) ==
    /\ pc[p] = "migrate"
    /\ base' = base + quar[p] /\ quar' = [quar EXCEPT ![p] = 0]
    /\ Goto(p, "update")
    /\ UNCHANGED <<conf, ref, tracking, db, job, made, sent, answer>>

\* The update hook and HandleUpdateTrigger: the database may fail, and then
\* the hook is over.  The IPC message that warms up the last-commit listing
\* changes nothing here (LastCommit has what a call does).
HandleUpdateTrigger(p) ==
    /\ pc[p] = "update"
    /\ Goto(p, "refresh") \/ Goto(p, "ref")
    /\ UNCHANGED <<conf, ref, tracking, base, quar, db, job, made, sent, answer>>

\* refreshForkComparison: git fetch takes the branch as it is now.
refreshForkComparison(p) ==
    /\ pc[p] = "refresh"
    /\ \/ /\ job[p].new # 0 /\ ref # 0
          /\ tracking' = ref /\ job' = [job EXCEPT ![p].refreshed = TRUE]
       \/ UNCHANGED <<tracking, job>>
    /\ Goto(p, "webhook")
    /\ UNCHANGED <<conf, ref, base, quar, db, made, sent, answer>>

\* git rev-list new ^old fails on the null id of a creation or a deletion.
RevList(p) == job[p].old # 0 /\ job[p].new # 0
WantedTagged(p) == conf.enable /\ conf.secret /\ RevList(p)
Wanted(p) == conf.enable /\ conf.secret /\ RevList(p) /\ ~job[p].tag

\* HandleWebHook up to the request: the row first.
Registering(d, u) == RegisterWebhookRequest(d, u, <<"report", u>>, <<"acme", "repo">>, u)
HandleWebHook(p) ==
    LET r == Registering(db, job[p].new)
    IN /\ pc[p] = "webhook"
       /\ \/ /\ Wanted(p) /\ r.err = "nil" /\ db' = r.db
             /\ Goto(p, IF conf.json THEN "send" ELSE "ref")
          \/ Goto(p, "ref") /\ UNCHANGED db   \* not wanted, or an error on the way
       /\ UNCHANGED <<conf, ref, tracking, base, quar, job, made, sent, answer>>

\* c.Do with its timeout: delivered or not, the hook goes on.
SendForever(p) ==
    /\ pc[p] = "send"
    /\ sent' = sent \cup {job[p].new} /\ UNCHANGED pc
    /\ UNCHANGED <<conf, ref, tracking, base, quar, db, job, made, answer>>
Send(p) ==
    /\ pc[p] = "send"
    /\ sent' \in {sent, sent \cup {job[p].new}}
    /\ Goto(p, "ref")
    /\ UNCHANGED <<conf, ref, tracking, base, quar, db, job, made, answer>>

\* The hook exits 0 whatever happened; git writes the ref if nobody moved it.
UpdateRef(p) ==
    /\ pc[p] = "ref"
    /\ ref' = IF ref = job[p].old THEN job[p].new ELSE ref
    /\ Goto(p, "idle")
    /\ UNCHANGED <<conf, tracking, base, quar, db, job, made, sent, answer>>

\* POST /webhook-result-report for a delivered webhook.  REGEX_BEARER has a
\* literal asterisk where docs/webhooks.org has a space, and jwt.Parse is
\* handed the secret as a string, which HMAC refuses as a key.
ReportStatus(u, header) ==
    IF GetWebhookResultByUUID(db, u) = Null THEN 500
    ELSE IF header # "Bearer*webhook-jwt-" THEN 400
    ELSE IF ~conf.secret THEN 400 ELSE 500
Report(u, header) ==
    /\ u \in sent
    /\ answer' = [x \in DOMAIN answer \cup {u} |-> IF x = u THEN ReportStatus(u, header) ELSE answer[x]]
    /\ UNCHANGED <<conf, ref, tracking, base, quar, db, pc, job, made, sent>>

Step(p) ==
    \/ StorageCheck(p) \/ CheckSizeLimit(p) \/ Migrate(p) \/ HandleUpdateTrigger(p) \/ refreshForkComparison(p)
    \/ HandleWebHook(p) \/ Send(p) \/ UpdateRef(p)

Next ==
    \/ \E p \in Pushers : Step(p)
    \/ \E p \in Pushers, bytes \in Sizes, tag \in BOOLEAN : Receive(p, bytes, tag)
    \/ \E u \in sent, h \in {"Bearer webhook-jwt-", "Bearer*webhook-jwt-"} : Report(u, h)

\* Git and the hooks it runs keep running; clients and receivers need not.
Spec == Init /\ [][Next]_vars /\ \A p \in Pushers : WF_vars(Step(p))

-----------------------------------------------------------------------------

\* "a receiver that never answers must not hold the push hostage"
\* (webhooks.go): every push ends, whatever the server, the upstream
\* repository and the receiver of the webhook do.
PushesEnd == \A p \in Pushers : (pc[p] # "idle") ~> (pc[p] = "idle")

\* The receiver of a webhook can always refer to its request: the row is
\* there before the message leaves, and it is of a push that did not ask for
\* silence ("Nothing is registered in the database either", webhooks.go).
SentIsRegistered ==
    \A u \in sent : \E i \in DOMAIN db.hook : db.hook[i].uuid = u /\ db.hook[i].status = "undefined"
SilenceIsKept ==
    \A p \in Pushers : job[p].tag /\ job[p].new # 0 => \A i \in DOMAIN db.hook : db.hook[i].uuid # job[p].new

\* What the hook counts on: a request registered for any push so far adds a row,
\* undecided, and nothing else (RegisterWebhookRequest of the backend).
AddsRow(d, u) ==
    LET r == Registering(d, u)
    IN r.err = "nil" => r.db.hook = Append(d.hook, [uuid |-> u, report |-> <<"report", u>>, repo |-> <<"acme", "repo">>,
                                                    commit |-> u, status |-> "undefined", time |-> 0])
RegisteringAdds == \A u \in 1..made : AddsRow(db, u)

\* A push the storage check let through on a size it could determine did fit:
\* its own objects and everything that was there when it began, whatever
\* other pushes moved while it was counted (docs/storage.org).
AcceptedPushesFit ==
    \A p \in Pushers : job[p].fits => job[p].began + job[p].bytes <= Limit

\* "Refresh the upstream's remote-tracking ref for the branch that was just
\* pushed, so the next page view has a fresh comparison." (update-trigger.go):
\* once the pushes are over and the last one was fetched, the upstream
\* repository has the tip of the branch.
ForkComparisonFresh ==
    (\A p \in Pushers : pc[p] = "idle") =>
        \A p \in Pushers : job[p].refreshed /\ job[p].new = ref => tracking = ref

\* "The request header should also contain the same format of JWT."
\* (docs/webhooks.org): a report with the documented header is accepted.
DocumentedReportAccepted ==
    [][\A u \in sent : Report(u, "Bearer webhook-jwt-") => answer'[u] = 200]_vars
====
