---- MODULE TwoFactor ----
(***************************************************************************)
(* Logging in with a second factor: routes/controller/login.go,            *)
(* setting-privacy.go, the helpers of aux.go, the reset of                 *)
(* admin/edit_user/info.go, and pkg/gitus/otp, for one account.  A code of *)
(* the app is its secret and counter (or time step): no two of them are    *)
(* taken to give the same digits.  The user knows the password.            *)
(***************************************************************************)
EXTENDS Integers, Sequences

CONSTANTS Procs, Types,                   \* "hotp", "totp"
          Requests,                       \* the kinds of request that arrive
          LookAhead,                      \* hotpLookAhead
          Lifetime,                       \* of a challenge: 10 minutes
          RecoveryCodeCount,
          MaxCounter, MaxChallenges, MaxSecrets, MaxSets, MaxTime

ASSUME TypesAssumption == Types \subseteq {"hotp", "totp"}

VARIABLES user,      \* the row of the account
          now,
          pending,   \* the confirm code manager: the entry of the account
          mailed,    \* challenges that were mailed
          cookies,   \* challenges a browser holds the temp-key of
          fresh,     \* challenges, secrets and sets of codes made so far
          rq,        \* the request each process is serving
          asked,     \* the factors that were enabled when a challenge was made
          spent,     \* codes that opened a session or confirmed a set-up
          twice      \* ... more than once

vars == <<user, now, pending, mailed, cookies, fresh, rq, asked, spent, twice>>

Idle == [at |-> "idle"]
NoOTP == [enable |-> FALSE, pending |-> FALSE, type |-> "totp", secret |-> 0, counter |-> 0, codes |-> {}]
NoChallenge == [id |-> 0, factors |-> {}, since |-> 0]
NoCode == [kind |-> "none", of |-> 0, at |-> 0]

Init ==
    /\ user = [status |-> "normal", tfa |-> [email |-> FALSE, otp |-> NoOTP]]
    /\ now = 0 /\ pending = NoChallenge /\ mailed = {} /\ cookies = {}
    /\ fresh = [challenge |-> 0, secret |-> 0, set |-> 0]
    /\ rq = [p \in Procs |-> Idle]
    /\ asked = <<>> /\ spent = {} /\ twice = {}

\* Every column but the password hash comes from the object handed in.
UpdateUserInfo(row) == user' = row

Goto(p, r) == rq' = [rq EXCEPT ![p] = r]
Arrive(p, kind) == rq[p] = Idle /\ kind \in Requests
At(p, stage) == rq[p].at = stage

\* A code of the app, or a recovery code: the at-th of a set.
AppCodes == [kind : Types, of : 1..fresh.secret, at : 0..MaxCounter]
RecoveryCodes == [kind : {"recovery"}, of : 1..fresh.set, at : 1..RecoveryCodeCount]
GenerateRecoveryCodes == [kind : {"recovery"}, of : {fresh.set + 1}, at : 1..RecoveryCodeCount]

Spend(code) ==
    IF code = NoCode THEN UNCHANGED <<spent, twice>>
    ELSE /\ spent' = spent \cup {code}
         /\ twice' = IF code \in spent THEN twice \cup {code} ELSE twice

\* AnySecondFactor and the letters stored with the challenge.
Factors(tfa) == {f \in {"e", "o"} : IF f = "e" THEN tfa.email ELSE tfa.otp.enable}

\* The time step of now, and one either side.
VerifyTOTP(otp, code) == code.of = otp.secret /\ code.at \in now - 1..now + 1

\* The stored counter, and LookAhead ones after it.
VerifyCode(otp, code) == code.of = otp.secret /\ code.at \in otp.counter..otp.counter + LookAhead

verifyUserOTP(otp, code) ==
    /\ otp.secret # 0 /\ code.kind = otp.type
    /\ IF otp.type = "totp" THEN VerifyTOTP(otp, code) ELSE VerifyCode(otp, code)

\* --- POST /login ---

\* The password is right; without a second factor this is all.
Login(p) ==
    /\ Arrive(p, "login") /\ user.status \notin {"banned", "approval", "confirm"}
    /\ Goto(p, IF Factors(user.tfa) = {} THEN [at |-> "session", challenge |-> 0, shown |-> {}, code |-> NoCode]
               ELSE [at |-> "challenge", factors |-> Factors(user.tfa)])
    /\ UNCHANGED <<user, now, pending, mailed, cookies, fresh, asked, spent, twice>>

\* The challenge replaces an earlier one; the browser gets its key unless the
\* mail could not be sent.
Challenge(p) ==
    /\ At(p, "challenge") /\ fresh.challenge < MaxChallenges
    /\ LET id == fresh.challenge + 1
           byMail == "e" \in rq[p].factors
       IN /\ fresh' = [fresh EXCEPT !.challenge = id]
          /\ pending' = [id |-> id, factors |-> rq[p].factors, since |-> now]
          /\ asked' = Append(asked, rq[p].factors)
          /\ \/ /\ cookies' = cookies \cup {id}
                /\ mailed' = IF byMail THEN mailed \cup {id} ELSE mailed
             \/ byMail /\ UNCHANGED <<cookies, mailed>>
    /\ Goto(p, Idle)
    /\ UNCHANGED <<user, now, spent, twice>>

\* --- POST /login/confirm ---

\* The row is read ...
Confirm(p, cookie, mailCode, code) ==
    /\ Arrive(p, "login")
    /\ Goto(p, [at |-> "stored", row |-> user, cookie |-> cookie, mailCode |-> mailCode, code |-> code])
    /\ UNCHANGED <<user, now, pending, mailed, cookies, fresh, asked, spent, twice>>

\* A fault: the configuration of the moment decides.
RequiredNow(row, stored) == Factors(row.tfa)

\* The factors recorded with the challenge.
Required(row, stored) == stored.factors

\* A fault: the counter is moved to the code, not past it.
AfterUseAt(row, code) ==
    IF verifyUserOTP(row.tfa.otp, code)
    THEN IF row.tfa.otp.type = "totp" THEN row ELSE [row EXCEPT !.tfa.otp.counter = code.at]
    ELSE [row EXCEPT !.tfa.otp.codes = @ \ {code}]

\* The app's code moves the counter of HOTP past it; a recovery code is removed.
AfterUse(row, code) ==
    IF verifyUserOTP(row.tfa.otp, code)
    THEN IF row.tfa.otp.type = "totp" THEN row ELSE [row EXCEPT !.tfa.otp.counter = code.at + 1]
    ELSE [row EXCEPT !.tfa.otp.codes = @ \ {code}]

\* ... then the challenge, the key, and every factor is checked.
Stored(p) ==
    /\ At(p, "stored")
    /\ LET r == rq[p]
           need == Required(r.row, pending)
           good == /\ pending.id # 0 /\ now - pending.since < Lifetime
                   /\ r.cookie = pending.id
                   /\ "e" \in need => r.mailCode = pending.id
                   /\ "o" \in need => verifyUserOTP(r.row.tfa.otp, r.code) \/ r.code \in r.row.tfa.otp.codes
           session == [at |-> "session", challenge |-> pending.id, shown |-> need,
                       code |-> IF "o" \in need THEN r.code ELSE NoCode]
           row == AfterUse(r.row, r.code)
       IN Goto(p, IF ~good THEN Idle
                  ELSE IF "o" \notin need \/ row = r.row THEN session
                  ELSE [at |-> "remember", row |-> row, next |-> session])
    /\ UNCHANGED <<user, now, pending, mailed, cookies, fresh, asked, spent, twice>>

\* The row as it was read, but for the counter or the recovery code.
Remember(p) ==
    /\ At(p, "remember")
    /\ UpdateUserInfo(rq[p].row)
    /\ Goto(p, rq[p].next)
    /\ UNCHANGED <<now, pending, mailed, cookies, fresh, asked, spent, twice>>

\* RegisterSession; the challenge stays until it expires.
Session(p) ==
    /\ At(p, "session")
    /\ Spend(rq[p].code)
    /\ Goto(p, Idle)
    /\ UNCHANGED <<user, now, pending, mailed, cookies, fresh, asked>>

\* --- POST /setting/privacy: the row is read, changed and written back ---

Save(p, kind, row) == Goto(p, [at |-> "save", row |-> row, kind |-> kind])

SetEmail(p, enable) ==
    /\ Arrive(p, "email")
    /\ Save(p, "setting", [user EXCEPT !.tfa.email = enable])
    /\ UNCHANGED <<user, now, pending, mailed, cookies, fresh, asked, spent, twice>>

StartOTP(p, type) ==
    /\ Arrive(p, "otp") /\ ~user.tfa.otp.enable /\ fresh.secret < MaxSecrets
    /\ fresh' = [fresh EXCEPT !.secret = @ + 1]
    /\ Save(p, "setting", [user EXCEPT !.tfa.otp = [NoOTP EXCEPT !.pending = TRUE, !.type = type, !.secret = fresh.secret + 1]])
    /\ UNCHANGED <<user, now, pending, mailed, cookies, asked, spent, twice>>

\* A fault: any code is taken.
ShowsSecretUnchecked(otp, code) == otp.pending

\* A code that the pending secret gives.
ShowsSecret(otp, code) == otp.pending /\ otp.secret # 0 /\ verifyUserOTP(otp, code)

ConfirmOTP(p, code) ==
    /\ Arrive(p, "otp") /\ ShowsSecret(user.tfa.otp, code) /\ fresh.set < MaxSets
    /\ fresh' = [fresh EXCEPT !.set = @ + 1]
    /\ Spend(code)
    /\ Save(p, "setting", [user EXCEPT !.tfa.otp = [@ EXCEPT !.pending = FALSE, !.enable = TRUE, !.codes = GenerateRecoveryCodes,
                                                 !.counter = IF code.kind = "totp" THEN 0 ELSE code.at + 1]])
    /\ UNCHANGED <<user, now, pending, mailed, cookies, asked>>

CancelOTP(p) ==
    /\ Arrive(p, "cancel")
    /\ Save(p, "cancel", [user EXCEPT !.tfa.otp = NoOTP])
    /\ UNCHANGED <<user, now, pending, mailed, cookies, fresh, asked, spent, twice>>

\* With the password.
RegenerateCodes(p) ==
    /\ Arrive(p, "regenerate") /\ user.tfa.otp.enable /\ fresh.set < MaxSets
    /\ fresh' = [fresh EXCEPT !.set = @ + 1]
    /\ Save(p, "setting", [user EXCEPT !.tfa.otp.codes = GenerateRecoveryCodes])
    /\ UNCHANGED <<user, now, pending, mailed, cookies, asked, spent, twice>>

\* With the password.
DisableOTP(p) ==
    /\ Arrive(p, "disable")
    /\ Save(p, "disable", [user EXCEPT !.tfa.otp = NoOTP])
    /\ UNCHANGED <<user, now, pending, mailed, cookies, fresh, asked, spent, twice>>

\* An administrator.
Reset2FA(p) ==
    /\ Arrive(p, "reset")
    /\ Save(p, "reset", [user EXCEPT !.tfa = [email |-> FALSE, otp |-> NoOTP]])
    /\ UNCHANGED <<user, now, pending, mailed, cookies, fresh, asked, spent, twice>>

Saved(p) ==
    /\ At(p, "save")
    /\ UpdateUserInfo(rq[p].row)
    /\ Goto(p, Idle)
    /\ UNCHANGED <<now, pending, mailed, cookies, fresh, asked, spent, twice>>

Tick ==
    /\ now < MaxTime /\ now' = now + 1
    /\ UNCHANGED <<user, pending, mailed, cookies, fresh, rq, asked, spent, twice>>

Next ==
    \/ Tick
    \/ \E p \in Procs :
        \/ Login(p) \/ Challenge(p) \/ Stored(p) \/ Remember(p) \/ Session(p) \/ Saved(p)
        \/ \E cookie \in cookies, mailCode \in mailed \cup {0}, code \in AppCodes \cup RecoveryCodes \cup {NoCode} :
              Confirm(p, cookie, mailCode, code)
        \/ \E enable \in BOOLEAN : SetEmail(p, enable)
        \/ \E type \in Types : StartOTP(p, type)
        \/ \E code \in AppCodes \cup {NoCode} : ConfirmOTP(p, code)
        \/ CancelOTP(p) \/ RegenerateCodes(p) \/ DisableOTP(p) \/ Reset2FA(p)

Spec == Init /\ [][Next]_vars

----
\* A session follows only when every factor that was enabled when the password
\* was accepted has been shown, whatever other requests do to the configuration
\* and to the challenge in between.
NoWeakerLogin ==
    \A p \in Procs : At(p, "session") /\ rq[p].challenge # 0 => asked[rq[p].challenge] \subseteq rq[p].shown

\* An authenticator is enabled only with a secret whose code the user has shown,
\* also when set-ups, resets and logins overlap: nobody is locked out by a
\* secret that never reached the app.
EnabledWasShown ==
    user.tfa.otp.enable => \E c \in spent : c.kind = user.tfa.otp.type /\ c.of = user.tfa.otp.secret

\* What a login relies on: no weaker login than the account asked for, and no
\* second factor nobody can show (POST /login/confirm, POST /setting/privacy).
SecondFactorHolds == NoWeakerLogin /\ EnabledWasShown

\* A HOTP code and a recovery code count once: the set-up and the logins they
\* were accepted for are one (TOTP codes last for their time steps).
CodesCountOnce == \A c \in twice : c.kind = "totp"

\* An enabled authenticator stops being required only by a request that asked
\* for the password, or by an administrator's reset.
DisablingTakesPassword ==
    [][user.tfa.otp.enable /\ ~user'.tfa.otp.enable
       => \E p \in Procs : At(p, "save") /\ rq[p].kind \in {"disable", "reset"}]_vars
====
