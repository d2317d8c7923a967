---- MODULE TwoFactorProofs ----
(***************************************************************************)
(* Proofs about logging in with a second factor, for any number of         *)
(* overlapping requests, challenges, secrets and sets of codes, and about  *)
(* the gates an account passes before it may log in.                       *)
(***************************************************************************)
EXTENDS TwoFactor, FiniteSets, TLAPS

Letters == {"e", "o"}
CodeSpace == [kind : {"hotp", "totp", "recovery", "none"}, of : Nat, at : Int]
OtpSpace == [enable : BOOLEAN, pending : BOOLEAN, type : {"hotp", "totp"}, secret : Nat, counter : Int, codes : SUBSET CodeSpace]
TfaSpace == [email : BOOLEAN, otp : OtpSpace]
RowSpace == [status : {"normal"}, tfa : TfaSpace]
FreshSpace == [challenge : Nat, secret : Nat, set : Nat]

\* The secret of an enabled authenticator is one whose code was shown.
WasShown(otp) == otp.enable => \E c \in spent : c.kind = otp.type /\ c.of = otp.secret

\* A row somebody holds or that is in the table.
GoodRow(row) == row \in RowSpace /\ WasShown(row.tfa.otp)

\* The session a request is about to open follows the challenge it names.
GoodSession(s) == s.challenge # 0 => s.challenge \in DOMAIN asked /\ asked[s.challenge] \subseteq s.shown

GoodRequest(r) ==
    /\ r.at = "challenge" => r.factors \in SUBSET Letters
    /\ r.at = "stored" => GoodRow(r.row) /\ r.code \in CodeSpace
    /\ r.at = "remember" => GoodRow(r.row) /\ r.next.at = "session" /\ GoodSession(r.next)
    /\ r.at = "session" => GoodSession(r)
    /\ r.at = "save" => GoodRow(r.row)

\* The entry of the confirm code manager carries the factors of its challenge.
GoodPending == pending.id # 0 => pending.id \in DOMAIN asked /\ pending.factors = asked[pending.id]

FactorInv ==
    /\ GoodRow(user)
    /\ fresh \in FreshSpace
    /\ asked \in Seq(SUBSET Letters) /\ Len(asked) = fresh.challenge
    /\ GoodPending
    /\ DOMAIN rq = Procs /\ \A p \in Procs : GoodRequest(rq[p])

-----------------------------------------------------------------------------

\* Challenges and shown codes are only ever added.
Grows ==
    /\ spent \subseteq spent'
    /\ UNCHANGED asked \/ \E f \in SUBSET Letters : asked' = Append(asked, f)

\* One request moves on to r, the others are where they were.
LEMMA OneMoves ==
    ASSUME FactorInv, Grows, NEW p \in Procs, NEW r, Goto(p, r), GoodRequest(r)'
    PROVE  DOMAIN rq' = Procs /\ \A q \in Procs : GoodRequest(rq[q])'
<1>1. DOMAIN rq' = Procs /\ \A q \in Procs : rq'[q] = IF q = p THEN r ELSE rq[q]
  BY DEF Goto, FactorInv
<1>2. asked \in Seq(SUBSET Letters)
  BY DEF FactorInv
<1>3. \A i \in DOMAIN asked : i \in DOMAIN asked' /\ asked'[i] = asked[i]
  BY <1>2 DEF Grows
<1>4. spent \subseteq spent'
  BY DEF Grows
<1>5. ASSUME NEW q \in Procs PROVE GoodRequest(rq[q])'
  <2>1. CASE q = p
    BY <1>1, <2>1 DEF GoodRequest, GoodRow, WasShown, GoodSession
  <2>2. CASE q # p
    <3>1. PICK x : x = rq[q]
      OBVIOUS
    <3>2. rq'[q] = x /\ GoodRequest(x)
      BY <1>1, <2>2, <3>1 DEF FactorInv
    <3>3. \A row : GoodRow(row) => GoodRow(row)'
      BY <1>4 DEF GoodRow, WasShown
    <3>4. \A y : GoodSession(y) => GoodSession(y)'
      BY <1>3 DEF GoodSession
    <3> QED
      BY <3>2, <3>3, <3>4 DEF GoodRequest
  <2> QED
    BY <2>1, <2>2
<1> QED
  BY <1>1, <1>5

\* A step of one request that leaves the table, the challenges and their number alone.
LEMMA QuietStep ==
    ASSUME FactorInv, NEW p \in Procs, NEW r, Goto(p, r), GoodRequest(r)',
           UNCHANGED <<user, pending, asked>>, spent \subseteq spent',
           fresh' \in FreshSpace, fresh'.challenge = fresh.challenge
    PROVE  FactorInv'
<1>1. Grows
  BY DEF Grows
<1>2. DOMAIN rq' = Procs /\ \A q \in Procs : GoodRequest(rq[q])'
  BY <1>1, OneMoves
<1>3. GoodRow(user)'
  BY DEF FactorInv, GoodRow, WasShown
<1>4. GoodPending'
  BY DEF FactorInv, GoodPending
<1> QED
  BY <1>2, <1>3, <1>4 DEF FactorInv

\* A step that writes the row u a request holds.
LEMMA WriteStep ==
    ASSUME FactorInv, NEW p \in Procs, NEW r, Goto(p, r), GoodRequest(r)', NEW u, GoodRow(u),
           UpdateUserInfo(u), UNCHANGED <<pending, asked, spent, fresh>>
    PROVE  FactorInv'
<1>1. Grows
  BY DEF Grows
<1>2. DOMAIN rq' = Procs /\ \A q \in Procs : GoodRequest(rq[q])'
  BY <1>1, OneMoves
<1>3. GoodRow(user)'
  BY DEF GoodRow, WasShown, UpdateUserInfo
<1>4. GoodPending'
  BY DEF FactorInv, GoodPending
<1> QED
  BY <1>2, <1>3, <1>4 DEF FactorInv

LEMMA IdleIsGood == GoodRequest(Idle)'
BY DEF GoodRequest, Idle

\* A request that is about to save a row made from the one it read.
LEMMA SaveStep ==
    ASSUME FactorInv, NEW p \in Procs, NEW kind, NEW u \in RowSpace, Save(p, kind, u), WasShown(u.tfa.otp)',
           UNCHANGED <<user, pending, asked>>, spent \subseteq spent',
           fresh' \in FreshSpace, fresh'.challenge = fresh.challenge
    PROVE  FactorInv'
<1>1. PICK r : r = [at |-> "save", row |-> u, kind |-> kind]
  BY Zenon
<1>2. GoodRequest(r)'
  BY <1>1 DEF GoodRequest, GoodRow
<1>3. Goto(p, r)
  BY <1>1 DEF Save
<1> QED
  BY <1>2, <1>3, QuietStep

LEMMA NoOTPIsGood == NoOTP \in OtpSpace /\ ~NoOTP.enable
BY DEF NoOTP, OtpSpace

\* A row with other factors.
LEMMA WithFactors ==
    ASSUME NEW row \in RowSpace, NEW tfa \in TfaSpace
    PROVE  [row EXCEPT !.tfa = tfa] \in RowSpace /\ [row EXCEPT !.tfa = tfa].tfa = tfa
BY DEF RowSpace

LEMMA WithOTP ==
    ASSUME NEW row \in RowSpace, NEW otp \in OtpSpace
    PROVE  [row EXCEPT !.tfa.otp = otp] \in RowSpace /\ [row EXCEPT !.tfa.otp = otp].tfa.otp = otp
<1>1. [row EXCEPT !.tfa.otp = otp] = [row EXCEPT !.tfa = [row.tfa EXCEPT !.otp = otp]]
  OBVIOUS
<1>2. row.tfa \in TfaSpace
  BY DEF RowSpace
<1>3. [row.tfa EXCEPT !.otp = otp] \in TfaSpace /\ [row.tfa EXCEPT !.otp = otp].otp = otp
  BY <1>2 DEF TfaSpace
<1> QED
  BY <1>1, <1>3, WithFactors, Zenon

\* A row with other recovery codes, or another counter: still the same authenticator.
LEMMA WithCodes ==
    ASSUME NEW row \in RowSpace, NEW codes \in SUBSET CodeSpace
    PROVE  LET u == [row EXCEPT !.tfa.otp.codes = codes]
           IN u \in RowSpace /\ u.tfa.otp.enable = row.tfa.otp.enable
              /\ u.tfa.otp.type = row.tfa.otp.type /\ u.tfa.otp.secret = row.tfa.otp.secret
<1> DEFINE otp == [row.tfa.otp EXCEPT !.codes = codes]
<1>1. row.tfa.otp \in OtpSpace
  BY DEF RowSpace, TfaSpace
<1>2. otp \in OtpSpace /\ otp.enable = row.tfa.otp.enable /\ otp.type = row.tfa.otp.type /\ otp.secret = row.tfa.otp.secret
  BY <1>1 DEF OtpSpace
<1>3. [row EXCEPT !.tfa.otp.codes = codes] = [row EXCEPT !.tfa.otp = otp]
  OBVIOUS
<1> HIDE DEF otp
<1> QED
  BY <1>2, <1>3, WithOTP, Zenon

LEMMA WithCounter ==
    ASSUME NEW row \in RowSpace, NEW n \in Int
    PROVE  LET u == [row EXCEPT !.tfa.otp.counter = n]
           IN u \in RowSpace /\ u.tfa.otp.enable = row.tfa.otp.enable
              /\ u.tfa.otp.type = row.tfa.otp.type /\ u.tfa.otp.secret = row.tfa.otp.secret
<1> DEFINE otp == [row.tfa.otp EXCEPT !.counter = n]
<1>1. row.tfa.otp \in OtpSpace
  BY DEF RowSpace, TfaSpace
<1>2. otp \in OtpSpace /\ otp.enable = row.tfa.otp.enable /\ otp.type = row.tfa.otp.type /\ otp.secret = row.tfa.otp.secret
  BY <1>1 DEF OtpSpace
<1>3. [row EXCEPT !.tfa.otp.counter = n] = [row EXCEPT !.tfa.otp = otp]
  OBVIOUS
<1> HIDE DEF otp
<1> QED
  BY <1>2, <1>3, WithOTP, Zenon

\* The codes a request can carry.
LEMMA CodesAreCodes == ASSUME FactorInv PROVE AppCodes \cup RecoveryCodes \cup {NoCode} \subseteq CodeSpace
<1>1. fresh \in FreshSpace
  BY DEF FactorInv
<1>2. fresh.secret \in Nat /\ fresh.set \in Nat
  BY <1>1 DEF FreshSpace
<1>3. AppCodes \subseteq CodeSpace
  <2>1. \A t \in Types : t \in {"hotp", "totp", "recovery", "none"}
    BY TypesAssumption
  <2>2. 1..fresh.secret \subseteq Nat /\ 0..MaxCounter \subseteq Int
    BY <1>2
  <2> QED
    BY <2>1, <2>2 DEF AppCodes, CodeSpace
<1>4. RecoveryCodes \subseteq CodeSpace
  BY <1>2 DEF RecoveryCodes, CodeSpace
<1>5. NoCode \in CodeSpace
  BY DEF NoCode, CodeSpace
<1> QED
  BY <1>3, <1>4, <1>5

LEMMA NewCodesAreCodes == ASSUME FactorInv PROVE GenerateRecoveryCodes \in SUBSET CodeSpace
<1>1. fresh.set \in Nat
  BY DEF FactorInv, FreshSpace
<1> QED
  BY <1>1 DEF GenerateRecoveryCodes, CodeSpace

\* --- the settings ---

LEMMA SetEmailStep == ASSUME FactorInv, NEW p \in Procs, NEW enable \in BOOLEAN, SetEmail(p, enable) PROVE FactorInv'
<1>1. PICK row : row = user
  OBVIOUS
<1>2. row \in RowSpace /\ WasShown(row.tfa.otp)
  BY <1>1 DEF FactorInv, GoodRow
<1>3. PICK u : u = [row EXCEPT !.tfa = [row.tfa EXCEPT !.email = enable]]
  BY Zenon
<1>4. [row.tfa EXCEPT !.email = enable] \in TfaSpace /\ [row.tfa EXCEPT !.email = enable].otp = row.tfa.otp
  BY <1>2 DEF RowSpace, TfaSpace
<1>5. u \in RowSpace /\ u.tfa.otp = row.tfa.otp
  BY <1>2, <1>3, <1>4, WithFactors, Zenon
<1>6. Save(p, "setting", u)
  BY <1>1, <1>3 DEF SetEmail
<1>7. UNCHANGED <<user, pending, asked, spent, fresh>>
  BY DEF SetEmail
<1>8. WasShown(u.tfa.otp)'
  BY <1>2, <1>5, <1>7 DEF WasShown
<1> QED
  BY <1>5, <1>6, <1>7, <1>8, SaveStep DEF FactorInv

\* Requests that end with no authenticator enabled.
LEMMA WithoutOTP ==
    ASSUME FactorInv, NEW p \in Procs, NEW kind, NEW otp \in OtpSpace, ~otp.enable,
           Save(p, kind, [user EXCEPT !.tfa.otp = otp]), UNCHANGED <<user, pending, asked, spent>>,
           fresh' \in FreshSpace, fresh'.challenge = fresh.challenge
    PROVE  FactorInv'
<1>1. PICK row : row = user
  OBVIOUS
<1>2. row \in RowSpace
  BY <1>1 DEF FactorInv, GoodRow
<1>3. PICK u : u = [row EXCEPT !.tfa.otp = otp]
  BY Zenon
<1>4. u \in RowSpace /\ u.tfa.otp = otp
  BY <1>2, <1>3, WithOTP
<1>5. WasShown(u.tfa.otp)'
  BY <1>4 DEF WasShown
<1>6. Save(p, kind, u)
  BY <1>1, <1>3
<1> QED
  BY <1>4, <1>5, <1>6, SaveStep

LEMMA StartOTPStep == ASSUME FactorInv, NEW p \in Procs, NEW type \in Types, StartOTP(p, type) PROVE FactorInv'
<1>1. fresh \in FreshSpace
  BY DEF FactorInv
<1>2. PICK otp : otp = [NoOTP EXCEPT !.pending = TRUE, !.type = type, !.secret = fresh.secret + 1]
  OBVIOUS
<1>3. otp \in OtpSpace /\ ~otp.enable
  <2>1. type \in {"hotp", "totp"}
    BY TypesAssumption
  <2>2. fresh.secret + 1 \in Nat
    BY <1>1 DEF FreshSpace
  <2>3. otp = [enable |-> FALSE, pending |-> TRUE, type |-> type, secret |-> fresh.secret + 1, counter |-> 0, codes |-> {}]
    BY <1>2, Zenon DEF NoOTP
  <2> QED
    BY <2>1, <2>2, <2>3 DEF OtpSpace
<1>4. fresh' \in FreshSpace /\ fresh'.challenge = fresh.challenge
  BY <1>1 DEF StartOTP, FreshSpace
<1>5. Save(p, "setting", [user EXCEPT !.tfa.otp = otp]) /\ UNCHANGED <<user, pending, asked, spent>>
  BY <1>2 DEF StartOTP
<1> QED
  BY <1>3, <1>4, <1>5, WithoutOTP

LEMMA OffSteps == ASSUME FactorInv, NEW p \in Procs, CancelOTP(p) \/ DisableOTP(p) PROVE FactorInv'
<1>1. PICK kind : Save(p, kind, [user EXCEPT !.tfa.otp = NoOTP])
  BY DEF CancelOTP, DisableOTP
<1>2. UNCHANGED <<user, pending, asked, spent, fresh>>
  BY DEF CancelOTP, DisableOTP
<1> QED
  BY <1>1, <1>2, NoOTPIsGood, WithoutOTP DEF FactorInv

LEMMA ResetStep == ASSUME FactorInv, NEW p \in Procs, Reset2FA(p) PROVE FactorInv'
<1>1. PICK row : row = user
  OBVIOUS
<1>2. row \in RowSpace
  BY <1>1 DEF FactorInv, GoodRow
<1>3. PICK tfa : tfa = [email |-> FALSE, otp |-> NoOTP]
  BY Zenon
<1>4. tfa \in TfaSpace /\ ~tfa.otp.enable
  BY <1>3, NoOTPIsGood DEF TfaSpace
<1>5. PICK u : u = [row EXCEPT !.tfa = tfa]
  BY Zenon
<1>6. u \in RowSpace /\ u.tfa = tfa
  BY <1>2, <1>4, <1>5, WithFactors
<1>7. Save(p, "reset", u) /\ UNCHANGED <<user, pending, asked, spent, fresh>>
  BY <1>1, <1>3, <1>5 DEF Reset2FA
<1>8. WasShown(u.tfa.otp)'
  BY <1>4, <1>6 DEF WasShown
<1> QED
  BY <1>6, <1>7, <1>8, SaveStep DEF FactorInv

\* Spend only adds, and adds what was shown.
LEMMA SpendAdds == ASSUME NEW code, Spend(code) PROVE spent \subseteq spent' /\ (code # NoCode => code \in spent')
BY DEF Spend

LEMMA ConfirmOTPStep ==
    ASSUME FactorInv, NEW p \in Procs, NEW code \in AppCodes \cup {NoCode}, ConfirmOTP(p, code)
    PROVE  FactorInv'
<1>1. PICK row : row = user
  OBVIOUS
<1>2. row \in RowSpace
  BY <1>1 DEF FactorInv, GoodRow
<1>3. PICK o : o = row.tfa.otp
  OBVIOUS
<1>4. o \in OtpSpace
  BY <1>2, <1>3 DEF RowSpace, TfaSpace
<1>5. code.kind = o.type /\ code.of = o.secret
  <2>1. ShowsSecret(o, code)
    BY <1>1, <1>3 DEF ConfirmOTP
  <2> QED
    BY <2>1 DEF ShowsSecret, verifyUserOTP, VerifyTOTP, VerifyCode
<1>6. code # NoCode
  BY <1>4, <1>5 DEF NoCode, OtpSpace
<1>7. code \in spent' /\ spent \subseteq spent'
  BY <1>6, SpendAdds DEF ConfirmOTP
<1>8. PICK g : g = GenerateRecoveryCodes
  OBVIOUS
<1>9. g \in SUBSET CodeSpace
  BY <1>8, NewCodesAreCodes
<1>10. PICK n : n = IF code.kind = "totp" THEN 0 ELSE code.at + 1
  OBVIOUS
<1>11. n \in Int
  <2>1. code \in CodeSpace
    BY CodesAreCodes
  <2> QED
    BY <1>10, <2>1 DEF CodeSpace
<1>12. PICK otp : otp = [o EXCEPT !.pending = FALSE, !.enable = TRUE, !.codes = g, !.counter = n]
  OBVIOUS
<1>13. otp \in OtpSpace /\ otp.type = o.type /\ otp.secret = o.secret
  BY <1>4, <1>9, <1>11, <1>12, Zenon DEF OtpSpace
<1>14. PICK u : u = [row EXCEPT !.tfa.otp = otp]
  BY Zenon
<1>15. u \in RowSpace /\ u.tfa.otp = otp
  BY <1>2, <1>13, <1>14, WithOTP
<1>16. WasShown(u.tfa.otp)'
  BY <1>5, <1>7, <1>13, <1>15 DEF WasShown
<1>17. Save(p, "setting", u)
  BY <1>1, <1>3, <1>8, <1>10, <1>12, <1>14 DEF ConfirmOTP
<1>18. UNCHANGED <<user, pending, asked>>
  BY DEF ConfirmOTP
<1>19. fresh' \in FreshSpace /\ fresh'.challenge = fresh.challenge
  BY DEF ConfirmOTP, FactorInv, FreshSpace
<1> QED
  BY <1>7, <1>15, <1>16, <1>17, <1>18, <1>19, SaveStep

LEMMA RegenerateStep == ASSUME FactorInv, NEW p \in Procs, RegenerateCodes(p) PROVE FactorInv'
<1>1. PICK row : row = user
  OBVIOUS
<1>2. row \in RowSpace /\ WasShown(row.tfa.otp)
  BY <1>1 DEF FactorInv, GoodRow
<1>3. PICK g : g = GenerateRecoveryCodes
  OBVIOUS
<1>4. g \in SUBSET CodeSpace
  BY <1>3, NewCodesAreCodes
<1>5. PICK u : u = [row EXCEPT !.tfa.otp.codes = g]
  BY Zenon
<1>6. u \in RowSpace /\ u.tfa.otp.enable = row.tfa.otp.enable
      /\ u.tfa.otp.type = row.tfa.otp.type /\ u.tfa.otp.secret = row.tfa.otp.secret
  BY <1>2, <1>4, <1>5, WithCodes
<1>7. Save(p, "setting", u) /\ UNCHANGED <<user, pending, asked, spent>>
  BY <1>1, <1>3, <1>5 DEF RegenerateCodes
<1>8. WasShown(u.tfa.otp)'
  BY <1>2, <1>6, <1>7 DEF WasShown
<1>9. fresh' \in FreshSpace /\ fresh'.challenge = fresh.challenge
  BY DEF RegenerateCodes, FactorInv, FreshSpace
<1> QED
  BY <1>6, <1>7, <1>8, <1>9, SaveStep

\* --- logging in ---

LEMMA LoginStep == ASSUME FactorInv, NEW p \in Procs, Login(p) PROVE FactorInv'
<1>1. UNCHANGED <<user, pending, asked, spent, fresh>>
  BY DEF Login
<1>2. PICK f : f = Factors(user.tfa)
  OBVIOUS
<1>3. f \in SUBSET Letters
  BY <1>2 DEF Factors, Letters
<1>4. PICK r : r = IF f = {} THEN [at |-> "session", challenge |-> 0, shown |-> {}, code |-> NoCode]
                   ELSE [at |-> "challenge", factors |-> f]
  BY Zenon
<1>5. GoodRequest(r)'
  BY <1>3, <1>4 DEF GoodRequest, GoodSession
<1>6. Goto(p, r)
  BY <1>2, <1>4 DEF Login
<1> QED
  BY <1>1, <1>5, <1>6, QuietStep DEF FactorInv

LEMMA ChallengeStep == ASSUME FactorInv, NEW p \in Procs, Challenge(p) PROVE FactorInv'
<1>1. PICK f \in SUBSET Letters : f = rq[p].factors
  BY DEF Challenge, At, FactorInv, GoodRequest
<1>2. asked \in Seq(SUBSET Letters) /\ Len(asked) = fresh.challenge /\ fresh \in FreshSpace
  BY DEF FactorInv
<1>3. asked' = Append(asked, f) /\ UNCHANGED <<user, spent>>
  BY <1>1 DEF Challenge
<1>4. fresh' = [fresh EXCEPT !.challenge = fresh.challenge + 1]
      /\ pending' = [id |-> fresh.challenge + 1, factors |-> f, since |-> now]
  BY <1>1 DEF Challenge
<1>5. fresh' \in FreshSpace /\ fresh'.challenge = fresh.challenge + 1
  BY <1>2, <1>4 DEF FreshSpace
<1>6. asked' \in Seq(SUBSET Letters) /\ Len(asked') = fresh'.challenge
      /\ fresh.challenge + 1 \in DOMAIN asked' /\ asked'[fresh.challenge + 1] = f
  BY <1>2, <1>3, <1>5
<1>7. GoodPending'
  BY <1>4, <1>6 DEF GoodPending
<1>8. Grows
  BY <1>3 DEF Grows
<1>9. DOMAIN rq' = Procs /\ \A q \in Procs : GoodRequest(rq[q])'
  BY <1>8, OneMoves, IdleIsGood DEF Challenge
<1>10. GoodRow(user)'
  BY <1>3 DEF FactorInv, GoodRow, WasShown
<1> QED
  BY <1>5, <1>6, <1>7, <1>9, <1>10 DEF FactorInv

LEMMA ConfirmStep ==
    ASSUME FactorInv, NEW p \in Procs, NEW cookie, NEW mailCode,
           NEW code \in AppCodes \cup RecoveryCodes \cup {NoCode}, Confirm(p, cookie, mailCode, code)
    PROVE  FactorInv'
<1>1. UNCHANGED <<user, pending, asked, spent, fresh>>
  BY DEF Confirm
<1>2. PICK row : row = user
  OBVIOUS
<1>3. row \in RowSpace /\ WasShown(row.tfa.otp)
  BY <1>2 DEF FactorInv, GoodRow
<1>4. PICK r : r = [at |-> "stored", row |-> row, cookie |-> cookie, mailCode |-> mailCode, code |-> code]
  BY Zenon
<1>5. code \in CodeSpace
  BY CodesAreCodes
<1>6. WasShown(row.tfa.otp)'
  BY <1>1, <1>3 DEF WasShown
<1>7. GoodRequest(r)'
  BY <1>3, <1>4, <1>5, <1>6 DEF GoodRequest, GoodRow
<1>8. Goto(p, r)
  BY <1>2, <1>4 DEF Confirm
<1> QED
  BY <1>1, <1>7, <1>8, QuietStep DEF FactorInv

\* Using a code up leaves the authenticator the same.
LEMMA UsedUp ==
    ASSUME NEW row, GoodRow(row), NEW code \in CodeSpace
    PROVE  GoodRow(AfterUse(row, code))
<1>1. row \in RowSpace /\ WasShown(row.tfa.otp)
  BY DEF GoodRow
<1>2. row.tfa.otp.codes \ {code} \in SUBSET CodeSpace
  BY <1>1 DEF RowSpace, TfaSpace, OtpSpace
<1>3. code.at + 1 \in Int
  BY DEF CodeSpace
<1>4. PICK u : u = AfterUse(row, code)
  OBVIOUS
<1>5. u \in RowSpace /\ u.tfa.otp.enable = row.tfa.otp.enable
      /\ u.tfa.otp.type = row.tfa.otp.type /\ u.tfa.otp.secret = row.tfa.otp.secret
  <2>1. CASE u = row
    BY <1>1, <2>1
  <2>2. CASE u = [row EXCEPT !.tfa.otp.counter = code.at + 1]
    BY <1>1, <1>3, <2>2, WithCounter
  <2>3. CASE u = [row EXCEPT !.tfa.otp.codes = row.tfa.otp.codes \ {code}]
    BY <1>1, <1>2, <2>3, WithCodes
  <2> QED
    BY <1>4, <2>1, <2>2, <2>3 DEF AfterUse
<1> QED
  BY <1>1, <1>4, <1>5 DEF GoodRow, WasShown

LEMMA StoredStep == ASSUME FactorInv, NEW p \in Procs, Stored(p) PROVE FactorInv'
<1>1. UNCHANGED <<user, pending, asked, spent, fresh>>
  BY DEF Stored
<1>2. PICK r : r = rq[p]
  OBVIOUS
<1>3. GoodRow(r.row) /\ r.code \in CodeSpace
  BY <1>2 DEF Stored, At, FactorInv, GoodRequest
<1>4. PICK row : row = AfterUse(r.row, r.code)
  OBVIOUS
<1>5. GoodRow(row)'
  BY <1>1, <1>3, <1>4, UsedUp DEF GoodRow, WasShown
<1>6. PICK session : session = [at |-> "session", challenge |-> pending.id, shown |-> pending.factors,
                                code |-> IF "o" \in pending.factors THEN r.code ELSE NoCode]
  BY Zenon
<1>7. session.at = "session" /\ session.challenge = pending.id /\ session.shown = pending.factors
  BY <1>6
<1>8. GoodSession(session)'
  BY <1>1, <1>7 DEF GoodSession, FactorInv, GoodPending
<1>9. PICK x : x = [at |-> "remember", row |-> row, next |-> session]
  BY Zenon
<1>10. GoodRequest(session)' /\ GoodRequest(x)'
  BY <1>5, <1>7, <1>8, <1>9 DEF GoodRequest
<1>11. Goto(p, Idle) \/ Goto(p, session) \/ Goto(p, x)
  BY <1>2, <1>4, <1>6, <1>9 DEF Stored, Required
<1> QED
  BY <1>1, <1>10, <1>11, IdleIsGood, QuietStep DEF FactorInv

LEMMA RememberStep == ASSUME FactorInv, NEW p \in Procs, Remember(p) PROVE FactorInv'
<1>1. PICK r : r = rq[p]
  OBVIOUS
<1>2. GoodRow(r.row) /\ r.next.at = "session" /\ GoodSession(r.next)
  BY <1>1 DEF Remember, At, FactorInv, GoodRequest
<1>3. PICK u, n : u = r.row /\ n = r.next
  OBVIOUS
<1>4. UpdateUserInfo(u) /\ Goto(p, n) /\ UNCHANGED <<pending, asked, spent, fresh>>
  BY <1>1, <1>3 DEF Remember
<1>5. GoodRequest(n)'
  BY <1>2, <1>3, <1>4 DEF GoodRequest, GoodSession
<1> QED
  BY <1>2, <1>3, <1>4, <1>5, WriteStep

LEMMA SavedStep == ASSUME FactorInv, NEW p \in Procs, Saved(p) PROVE FactorInv'
<1>1. PICK u : u = rq[p].row
  OBVIOUS
<1>2. GoodRow(u)
  BY <1>1 DEF Saved, At, FactorInv, GoodRequest
<1>3. UpdateUserInfo(u) /\ Goto(p, Idle) /\ UNCHANGED <<pending, asked, spent, fresh>>
  BY <1>1 DEF Saved
<1> QED
  BY <1>2, <1>3, IdleIsGood, WriteStep

LEMMA SessionStep == ASSUME FactorInv, NEW p \in Procs, Session(p) PROVE FactorInv'
<1>1. UNCHANGED <<user, pending, asked, fresh>> /\ Goto(p, Idle) /\ spent \subseteq spent'
  BY SpendAdds DEF Session
<1> QED
  BY <1>1, IdleIsGood, QuietStep DEF FactorInv

-----------------------------------------------------------------------------

LEMMA FactorInvInit == Init => FactorInv
<1> SUFFICES ASSUME Init PROVE FactorInv
  OBVIOUS
<1>1. [email |-> FALSE, otp |-> NoOTP] \in TfaSpace
  BY NoOTPIsGood DEF TfaSpace
<1>2. user \in RowSpace /\ user.tfa.otp = NoOTP
  BY <1>1 DEF Init, RowSpace
<1>3. GoodRow(user)
  BY <1>2, NoOTPIsGood DEF GoodRow, WasShown
<1>4. \A p \in Procs : GoodRequest(rq[p])
  BY Zenon DEF Init, GoodRequest, Idle
<1>5. fresh \in FreshSpace /\ asked \in Seq(SUBSET Letters) /\ Len(asked) = fresh.challenge
  BY DEF Init, FreshSpace
<1>6. GoodPending
  BY DEF Init, GoodPending, NoChallenge
<1> QED
  BY <1>3, <1>4, <1>5, <1>6 DEF FactorInv, Init

LEMMA FactorInvStep == FactorInv /\ [Next]_vars => FactorInv'
<1> SUFFICES ASSUME FactorInv, [Next]_vars PROVE FactorInv'
  OBVIOUS
<1>1. CASE UNCHANGED <<user, pending, fresh, rq, asked, spent>>
  BY <1>1 DEF FactorInv, GoodRow, WasShown, GoodPending, GoodRequest, GoodSession
<1>2. CASE Tick \/ UNCHANGED vars
  BY <1>1, <1>2 DEF Tick, vars
<1>3. ASSUME NEW p \in Procs, Login(p) \/ Challenge(p) \/ Stored(p) \/ Remember(p) \/ Session(p) \/ Saved(p) PROVE FactorInv'
  BY <1>3, LoginStep, ChallengeStep, StoredStep, RememberStep, SessionStep, SavedStep
<1>4. ASSUME NEW p \in Procs, NEW cookie \in cookies, NEW mailCode \in mailed \cup {0},
             NEW code \in AppCodes \cup RecoveryCodes \cup {NoCode}, Confirm(p, cookie, mailCode, code)
      PROVE  FactorInv'
  BY <1>4, ConfirmStep
<1>5. ASSUME NEW p \in Procs, NEW enable \in BOOLEAN, SetEmail(p, enable) PROVE FactorInv'
  BY <1>5, SetEmailStep
<1>6. ASSUME NEW p \in Procs, NEW type \in Types, StartOTP(p, type) PROVE FactorInv'
  BY <1>6, StartOTPStep
<1>7. ASSUME NEW p \in Procs, NEW code \in AppCodes \cup {NoCode}, ConfirmOTP(p, code) PROVE FactorInv'
  BY <1>7, ConfirmOTPStep
<1>8. ASSUME NEW p \in Procs, CancelOTP(p) \/ RegenerateCodes(p) \/ DisableOTP(p) \/ Reset2FA(p) PROVE FactorInv'
  BY <1>8, OffSteps, RegenerateStep, ResetStep
<1> QED
  BY <1>2, <1>3, <1>4, <1>5, <1>6, <1>7, <1>8 DEF Next

\* Whatever requests overlap, POST /login/confirm opens a session only for every
\* factor that was enabled when the password was accepted, and POST /setting/privacy
\* never leaves an authenticator enabled whose secret nobody has shown a code of.
THEOREM SecondFactorIsKept == Spec => []SecondFactorHolds
<1>1. FactorInv => SecondFactorHolds
  BY DEF FactorInv, SecondFactorHolds, NoWeakerLogin, EnabledWasShown, GoodRow, WasShown, GoodRequest, GoodSession, At
<1> QED
  BY <1>1, FactorInvInit, FactorInvStep, PTL DEF Spec

-----------------------------------------------------------------------------
\* One request at a time: what a HOTP code or a recovery code was accepted for.

\* A code that would be accepted for an authenticator, however late.
Live(otp, c) ==
    \/ c \in otp.codes
    \/ c.kind = "hotp" /\ otp.type = "hotp" /\ c.of = otp.secret /\ c.at >= otp.counter

\* None of those that were accepted already would be.
SpentAreDead(otp) == \A c \in spent : c.kind # "totp" => ~Live(otp, c)

\* The codes of an authenticator are recovery codes.
OnlyRecovery(otp) == \A c \in otp.codes : c.kind = "recovery"

\* A code somebody has entered is of a secret or a set that was made.
Made(c) ==
    /\ c \in CodeSpace
    /\ c.kind = "hotp" => c.of <= fresh.secret
    /\ c.kind = "recovery" => c.of <= fresh.set

\* A code about to count is not one that counted before, nor can it count again.
CountsFirst(otp, c) == c = NoCode \/ c.kind = "totp" \/ (c \notin spent /\ ~Live(otp, c))

\* What the one request holds: the row it read is still the one in the table,
\* and the row it is about to write has no spent code left.
CountRequest(r) ==
    /\ r.at # "save" => SpentAreDead(user.tfa.otp)
    /\ r.at = "stored" => r.row = user /\ Made(r.code)
    /\ r.at = "remember" => /\ SpentAreDead(r.row.tfa.otp) /\ OnlyRecovery(r.row.tfa.otp)
                            /\ Made(r.next.code) /\ CountsFirst(r.row.tfa.otp, r.next.code)
    /\ r.at = "session" => Made(r.code) /\ CountsFirst(user.tfa.otp, r.code)
    /\ r.at = "save" => SpentAreDead(r.row.tfa.otp) /\ OnlyRecovery(r.row.tfa.otp)

CountInv ==
    /\ OnlyRecovery(user.tfa.otp)
    /\ \A c \in spent : Made(c)
    /\ CodesCountOnce
    /\ \A p \in Procs : CountRequest(rq[p])

\* What a row has of the authenticator, after each way to change it.
LEMMA OtherCodes ==
    ASSUME NEW row \in RowSpace, NEW codes \in SUBSET CodeSpace
    PROVE  LET u == [row EXCEPT !.tfa.otp.codes = codes]
           IN u.tfa.otp.codes = codes /\ u.tfa.otp.counter = row.tfa.otp.counter
              /\ u.tfa.otp.type = row.tfa.otp.type /\ u.tfa.otp.secret = row.tfa.otp.secret
<1> DEFINE otp == [row.tfa.otp EXCEPT !.codes = codes]
<1>1. row.tfa.otp \in OtpSpace
  BY DEF RowSpace, TfaSpace
<1>2. /\ otp \in OtpSpace /\ otp.codes = codes /\ otp.counter = row.tfa.otp.counter
      /\ otp.type = row.tfa.otp.type /\ otp.secret = row.tfa.otp.secret
  BY <1>1 DEF OtpSpace
<1>3. [row EXCEPT !.tfa.otp.codes = codes] = [row EXCEPT !.tfa.otp = otp]
  OBVIOUS
<1> HIDE DEF otp
<1> QED
  BY <1>2, <1>3, WithOTP, Zenon

LEMMA OtherCounter ==
    ASSUME NEW row \in RowSpace, NEW n \in Int
    PROVE  LET u == [row EXCEPT !.tfa.otp.counter = n]
           IN u.tfa.otp.counter = n /\ u.tfa.otp.codes = row.tfa.otp.codes
              /\ u.tfa.otp.type = row.tfa.otp.type /\ u.tfa.otp.secret = row.tfa.otp.secret
<1> DEFINE otp == [row.tfa.otp EXCEPT !.counter = n]
<1>1. row.tfa.otp \in OtpSpace
  BY DEF RowSpace, TfaSpace
<1>2. /\ otp \in OtpSpace /\ otp.counter = n /\ otp.codes = row.tfa.otp.codes
      /\ otp.type = row.tfa.otp.type /\ otp.secret = row.tfa.otp.secret
  BY <1>1 DEF OtpSpace
<1>3. [row EXCEPT !.tfa.otp.counter = n] = [row EXCEPT !.tfa.otp = otp]
  OBVIOUS
<1> HIDE DEF otp
<1> QED
  BY <1>2, <1>3, WithOTP, Zenon

\* A code that was accepted, and what AfterUse leaves of it: a counter past it or a
\* set without it.  Nothing else comes to life.
LEMMA UseUses ==
    ASSUME NEW row \in RowSpace, NEW code \in CodeSpace, OnlyRecovery(row.tfa.otp),
           verifyUserOTP(row.tfa.otp, code) \/ code \in row.tfa.otp.codes,
           NEW u, u = AfterUse(row, code)
    PROVE  /\ \A c \in CodeSpace : Live(u.tfa.otp, c) => Live(row.tfa.otp, c)
           /\ OnlyRecovery(u.tfa.otp)
           /\ code.kind # "totp" => u # row /\ Live(row.tfa.otp, code) /\ ~Live(u.tfa.otp, code)
<1>1. PICK o : o = row.tfa.otp
  OBVIOUS
<1>2. o \in OtpSpace
  BY <1>1 DEF RowSpace, TfaSpace
<1>3. code.at \in Int /\ o.counter \in Int /\ o.type \in {"hotp", "totp"}
  BY <1>2 DEF CodeSpace, OtpSpace
<1>4. CASE verifyUserOTP(o, code) /\ o.type = "totp"
  <2>1. u = row /\ code.kind = "totp"
    BY <1>1, <1>4 DEF AfterUse, verifyUserOTP
  <2> QED
    BY <2>1
<1>5. CASE verifyUserOTP(o, code) /\ o.type # "totp"
  <2>1. code.kind = "hotp" /\ o.type = "hotp" /\ code.of = o.secret /\ code.at >= o.counter
    BY <1>3, <1>5 DEF verifyUserOTP, VerifyCode
  <2>2. u = [row EXCEPT !.tfa.otp.counter = code.at + 1]
    BY <1>1, <1>5 DEF AfterUse
  <2>3. PICK w : w = u.tfa.otp
    OBVIOUS
  <2>4. w.counter = code.at + 1 /\ w.codes = o.codes /\ w.type = o.type /\ w.secret = o.secret
    BY <1>1, <1>3, <2>2, <2>3, OtherCounter
  <2>5. \A c \in CodeSpace : Live(w, c) => Live(o, c)
    BY <1>3, <2>1, <2>4 DEF Live, CodeSpace
  <2>6. Live(o, code) /\ ~Live(w, code)
    BY <1>1, <1>3, <2>1, <2>4 DEF Live, OnlyRecovery
  <2>7. u # row
    BY <1>1, <2>3, <2>6
  <2> QED
    BY <1>1, <2>3, <2>4, <2>5, <2>6, <2>7 DEF OnlyRecovery
<1>6. CASE ~verifyUserOTP(o, code)
  <2>1. PICK g : g = row.tfa.otp.codes \ {code}
    BY Zenon
  <2>2. u = [row EXCEPT !.tfa.otp.codes = g] /\ g \in SUBSET CodeSpace
    BY <1>1, <1>2, <1>6, <2>1 DEF AfterUse, OtpSpace
  <2>3. PICK w : w = u.tfa.otp
    OBVIOUS
  <2>4. w.codes = o.codes \ {code} /\ w.counter = o.counter /\ w.type = o.type /\ w.secret = o.secret
    BY <1>1, <2>1, <2>2, <2>3, OtherCodes
  <2>5. code \in o.codes /\ code.kind = "recovery"
    BY <1>1, <1>6 DEF OnlyRecovery
  <2>6. \A c \in CodeSpace : Live(w, c) => Live(o, c)
    BY <2>4 DEF Live
  <2>7. Live(o, code) /\ ~Live(w, code)
    BY <2>4, <2>5 DEF Live
  <2>8. u # row
    BY <1>1, <2>3, <2>7
  <2> QED
    BY <1>1, <2>3, <2>4, <2>6, <2>7, <2>8 DEF OnlyRecovery
<1> QED
  BY <1>1, <1>4, <1>5, <1>6

\* The one request moves on to r.
LEMMA OnlyOneMoves ==
    ASSUME FactorInv, NEW p, Procs = {p}, NEW r, Goto(p, r), CountRequest(r)', OnlyRecovery(user.tfa.otp)',
           \A c \in spent' : Made(c)', CodesCountOnce'
    PROVE  CountInv'
<1>1. DOMAIN rq = Procs
  BY DEF FactorInv
<1>2. rq'[p] = r
  BY <1>1, Zenon DEF Goto
<1>3. \A q \in Procs : CountRequest(rq[q])'
  BY <1>2 DEF CountRequest, SpentAreDead, CountsFirst, Made
<1> QED
  BY <1>3 DEF CountInv

\* Codes that were made stay made.
LEMMA MadeStays ==
    ASSUME FactorInv, NEW c, Made(c), fresh' \in FreshSpace, fresh.secret <= fresh'.secret, fresh.set <= fresh'.set
    PROVE  Made(c)'
<1>1. fresh.secret \in Nat /\ fresh.set \in Nat /\ fresh'.secret \in Nat /\ fresh'.set \in Nat
  BY DEF FactorInv, FreshSpace
<1>2. c.of \in Nat
  BY DEF Made, CodeSpace
<1> QED
  BY <1>1, <1>2 DEF Made

\* The codes a request can carry have been made.
LEMMA CodesWereMade ==
    ASSUME FactorInv, NEW code \in AppCodes \cup RecoveryCodes \cup {NoCode}
    PROVE  Made(code)
<1>1. code \in CodeSpace
  BY CodesAreCodes
<1>2. fresh.secret \in Nat /\ fresh.set \in Nat
  BY DEF FactorInv, FreshSpace
<1>3. CASE code \in AppCodes
  <2>1. code.kind # "recovery"
    BY <1>3, TypesAssumption DEF AppCodes
  <2>2. code.of <= fresh.secret
    BY <1>2, <1>3 DEF AppCodes
  <2> QED
    BY <1>1, <2>1, <2>2 DEF Made
<1>4. CASE code \in RecoveryCodes
  <2>1. code.kind = "recovery" /\ code.of <= fresh.set
    BY <1>2, <1>4 DEF RecoveryCodes
  <2> QED
    BY <1>1, <2>1 DEF Made
<1>5. CASE code = NoCode
  BY <1>1, <1>5 DEF Made, NoCode
<1> QED
  BY <1>3, <1>4, <1>5

\* While the request is not about to save, no spent code is live.
LEMMA DeadNow ==
    ASSUME CountInv, NEW p \in Procs, rq[p].at # "save"
    PROVE  SpentAreDead(user.tfa.otp)
BY DEF CountInv, CountRequest

LEMMA IdleIsNotSaving == ASSUME NEW p \in Procs, rq[p] = Idle PROVE rq[p].at # "save"
BY DEF Idle

\* A request that is about to save u.
LEMMA CountSave ==
    ASSUME FactorInv, CountInv, NEW p, Procs = {p}, NEW kind, NEW u, Save(p, kind, u), SpentAreDead(u.tfa.otp)',
           OnlyRecovery(u.tfa.otp), user' = user, \A c \in spent' : Made(c)', CodesCountOnce'
    PROVE  CountInv'
<1>1. PICK r : r = [at |-> "save", row |-> u, kind |-> kind]
  BY Zenon
<1>2. r.at = "save" /\ r.row = u
  BY <1>1
<1>3. CountRequest(r)'
  BY <1>2 DEF CountRequest, OnlyRecovery
<1>4. Goto(p, r)
  BY <1>1 DEF Save
<1>5. OnlyRecovery(user.tfa.otp)'
  BY DEF CountInv, OnlyRecovery
<1> QED
  BY <1>3, <1>4, <1>5, OnlyOneMoves

\* The same when nothing is spent: u may have any code that was not spent.
LEMMA QuietSave ==
    ASSUME FactorInv, CountInv, NEW p, Procs = {p}, NEW kind, NEW u, Save(p, kind, u), SpentAreDead(u.tfa.otp),
           OnlyRecovery(u.tfa.otp), UNCHANGED <<user, spent, twice>>,
           fresh' \in FreshSpace, fresh.secret <= fresh'.secret, fresh.set <= fresh'.set
    PROVE  CountInv'
<1>1. \A c \in spent' : Made(c)'
  BY MadeStays DEF CountInv
<1>2. SpentAreDead(u.tfa.otp)'
  BY DEF SpentAreDead
<1>3. CodesCountOnce'
  BY DEF CountInv, CodesCountOnce
<1> QED
  BY <1>1, <1>2, <1>3, CountSave

LEMMA FreshStays == ASSUME FactorInv, fresh' = fresh PROVE fresh' \in FreshSpace /\ fresh.secret <= fresh'.secret /\ fresh.set <= fresh'.set
BY DEF FactorInv, FreshSpace

LEMMA CountEmail ==
    ASSUME FactorInv, CountInv, NEW p, Procs = {p}, NEW enable \in BOOLEAN, SetEmail(p, enable)
    PROVE  CountInv'
<1>1. PICK row : row = user
  OBVIOUS
<1>2. row \in RowSpace
  BY <1>1 DEF FactorInv, GoodRow
<1>3. PICK u : u = [row EXCEPT !.tfa = [row.tfa EXCEPT !.email = enable]]
  BY Zenon
<1>4. [row.tfa EXCEPT !.email = enable] \in TfaSpace /\ [row.tfa EXCEPT !.email = enable].otp = row.tfa.otp
  BY <1>2 DEF RowSpace, TfaSpace
<1>5. u.tfa.otp = row.tfa.otp
  BY <1>2, <1>3, <1>4, WithFactors, Zenon
<1>6. Save(p, "setting", u) /\ UNCHANGED <<user, spent, twice, fresh>> /\ rq[p] = Idle
  BY <1>1, <1>3 DEF SetEmail, Arrive
<1>7. SpentAreDead(row.tfa.otp) /\ OnlyRecovery(row.tfa.otp)
  BY <1>1, <1>6, DeadNow, IdleIsNotSaving DEF CountInv
<1> QED
  BY <1>5, <1>6, <1>7, FreshStays, QuietSave

LEMMA NoOTPIsDead == SpentAreDead(NoOTP) /\ OnlyRecovery(NoOTP)
BY DEF SpentAreDead, OnlyRecovery, Live, NoOTP

LEMMA CountOff ==
    ASSUME FactorInv, CountInv, NEW p, Procs = {p}, CancelOTP(p) \/ DisableOTP(p) \/ Reset2FA(p)
    PROVE  CountInv'
<1>1. PICK row : row = user
  OBVIOUS
<1>2. row \in RowSpace
  BY <1>1 DEF FactorInv, GoodRow
<1>3. [row EXCEPT !.tfa.otp = NoOTP].tfa.otp = NoOTP
  BY <1>2, NoOTPIsGood, WithOTP, Zenon
<1>4. PICK tfa : tfa = [email |-> FALSE, otp |-> NoOTP]
  BY Zenon
<1>5. tfa \in TfaSpace /\ tfa.otp = NoOTP
  BY <1>4, NoOTPIsGood DEF TfaSpace
<1>6. [row EXCEPT !.tfa = tfa].tfa.otp = NoOTP
  BY <1>2, <1>5, WithFactors, Zenon
<1>7. UNCHANGED <<user, spent, twice, fresh>>
  BY DEF CancelOTP, DisableOTP, Reset2FA
<1>8. PICK kind, u : Save(p, kind, u) /\ (u = [row EXCEPT !.tfa.otp = NoOTP] \/ u = [row EXCEPT !.tfa = tfa])
  BY <1>1, <1>4 DEF CancelOTP, DisableOTP, Reset2FA
<1>9. u.tfa.otp = NoOTP
  BY <1>3, <1>6, <1>8, Zenon
<1> QED
  BY <1>7, <1>8, <1>9, NoOTPIsDead, FreshStays, QuietSave

LEMMA CountStart ==
    ASSUME FactorInv, CountInv, NEW p, Procs = {p}, NEW type \in Types, StartOTP(p, type)
    PROVE  CountInv'
<1>1. PICK row : row = user
  OBVIOUS
<1>2. row \in RowSpace
  BY <1>1 DEF FactorInv, GoodRow
<1>3. fresh \in FreshSpace /\ fresh.secret \in Nat
  BY DEF FactorInv, FreshSpace
<1>4. PICK n : n = fresh.secret + 1
  OBVIOUS
<1>5. PICK otp : otp = [NoOTP EXCEPT !.pending = TRUE, !.type = type, !.secret = fresh.secret + 1]
  OBVIOUS
<1>6. otp \in OtpSpace /\ otp.secret = n /\ otp.codes = {}
  <2>1. otp = [enable |-> FALSE, pending |-> TRUE, type |-> type, secret |-> fresh.secret + 1, counter |-> 0, codes |-> {}]
    BY <1>5, Zenon DEF NoOTP
  <2> QED
    BY <1>3, <1>4, <2>1, TypesAssumption DEF OtpSpace
<1>7. PICK u : u = [row EXCEPT !.tfa.otp = otp]
  BY Zenon
<1>8. u.tfa.otp = otp
  BY <1>2, <1>6, <1>7, WithOTP
<1>9. Save(p, "setting", u) /\ UNCHANGED <<user, spent, twice>>
  BY <1>1, <1>5, <1>7 DEF StartOTP
<1>10. SpentAreDead(otp)
  <2> SUFFICES ASSUME NEW c \in spent, c.kind # "totp", Live(otp, c) PROVE FALSE
    BY DEF SpentAreDead
  <2>1. Made(c)
    BY DEF CountInv
  <2>2. c.kind = "hotp" /\ c.of = n
    BY <1>6 DEF Live
  <2> QED
    BY <1>3, <1>4, <2>1, <2>2 DEF Made
<1>11. OnlyRecovery(otp)
  BY <1>6 DEF OnlyRecovery
<1>12. fresh' \in FreshSpace /\ fresh.secret <= fresh'.secret /\ fresh.set <= fresh'.set
  BY <1>3 DEF StartOTP, FreshSpace
<1> QED
  BY <1>8, <1>9, <1>10, <1>11, <1>12, QuietSave

\* The recovery codes of a new set: none of them was spent before.
LEMMA NewCodesUnspent ==
    ASSUME FactorInv, CountInv, NEW g, g = GenerateRecoveryCodes
    PROVE  (\A c \in g : c.kind = "recovery") /\ (\A c \in spent : c \notin g)
<1>1. fresh.set \in Nat
  BY DEF FactorInv, FreshSpace
<1>2. \A c \in g : c.kind = "recovery" /\ c.of = fresh.set + 1
  BY DEF GenerateRecoveryCodes
<1>3. ASSUME NEW c \in spent, c \in g PROVE FALSE
  <2>1. Made(c)
    BY DEF CountInv
  <2> QED
    BY <1>1, <1>2, <1>3, <2>1 DEF Made
<1> QED
  BY <1>2, <1>3

LEMMA CountRegenerate ==
    ASSUME FactorInv, CountInv, NEW p, Procs = {p}, RegenerateCodes(p)
    PROVE  CountInv'
<1>1. PICK row : row = user
  OBVIOUS
<1>2. row \in RowSpace
  BY <1>1 DEF FactorInv, GoodRow
<1>3. PICK g : g = GenerateRecoveryCodes
  OBVIOUS
<1>4. g \in SUBSET CodeSpace
  BY <1>3, NewCodesAreCodes
<1>5. (\A c \in g : c.kind = "recovery") /\ (\A c \in spent : c \notin g)
  BY <1>3, NewCodesUnspent
<1>6. PICK u : u = [row EXCEPT !.tfa.otp.codes = g]
  BY Zenon
<1>7. PICK o, w : o = row.tfa.otp /\ w = u.tfa.otp
  OBVIOUS
<1>8. w.codes = g /\ w.counter = o.counter /\ w.type = o.type /\ w.secret = o.secret
  BY <1>2, <1>4, <1>6, <1>7, OtherCodes
<1>9. Save(p, "setting", u) /\ UNCHANGED <<user, spent, twice>> /\ rq[p] = Idle
  BY <1>1, <1>3, <1>6 DEF RegenerateCodes, Arrive
<1>10. SpentAreDead(o)
  BY <1>1, <1>7, <1>9, DeadNow, IdleIsNotSaving
<1>11. SpentAreDead(w)
  BY <1>5, <1>8, <1>10 DEF SpentAreDead, Live
<1>12. OnlyRecovery(w)
  BY <1>5, <1>8 DEF OnlyRecovery
<1>13. fresh' \in FreshSpace /\ fresh.secret <= fresh'.secret /\ fresh.set <= fresh'.set
  BY DEF RegenerateCodes, FactorInv, FreshSpace
<1> QED
  BY <1>7, <1>9, <1>11, <1>12, <1>13, QuietSave

\* Spending a code for the first time.
LEMMA SpendFirst ==
    ASSUME FactorInv, CountInv, NEW code, Made(code), NEW o, CountsFirst(o, code), Spend(code),
           fresh' \in FreshSpace, fresh.secret <= fresh'.secret, fresh.set <= fresh'.set
    PROVE  (\A c \in spent' : Made(c)') /\ CodesCountOnce' /\ (SpentAreDead(o) => SpentAreDead(o)')
<1>1. spent' \subseteq spent \cup {code}
  BY DEF Spend
<1>2. \A c \in spent' : Made(c)
  BY <1>1 DEF CountInv
<1>3. \A c \in spent' : Made(c)'
  BY <1>2, MadeStays
<1>4. CodesCountOnce'
  <2>1. CASE code \in spent
    <3>1. code.kind = "totp" \/ code = NoCode
      BY <2>1 DEF CountsFirst
    <3> QED
      BY <3>1 DEF CountInv, CodesCountOnce, Spend
  <2>2. CASE code \notin spent
    BY <2>2 DEF CountInv, CodesCountOnce, Spend
  <2> QED
    BY <2>1, <2>2
<1>5. ASSUME SpentAreDead(o) PROVE SpentAreDead(o)'
  <2> SUFFICES ASSUME NEW c \in spent', c.kind # "totp" PROVE ~Live(o, c)
    BY DEF SpentAreDead
  <2>1. CASE c \in spent
    BY <1>5, <2>1 DEF SpentAreDead
  <2>2. CASE c \notin spent
    <3>1. c = code /\ code # NoCode
      BY <1>1, <2>2 DEF Spend
    <3> QED
      BY <3>1 DEF CountsFirst
  <2> QED
    BY <2>1, <2>2
<1> QED
  BY <1>3, <1>4, <1>5

LEMMA CountConfirmOTP ==
    ASSUME FactorInv, CountInv, NEW p, Procs = {p}, NEW code \in AppCodes \cup {NoCode}, ConfirmOTP(p, code)
    PROVE  CountInv'
<1>1. PICK row : row = user
  OBVIOUS
<1>2. row \in RowSpace
  BY <1>1 DEF FactorInv, GoodRow
<1>3. PICK o : o = row.tfa.otp
  OBVIOUS
<1>4. o \in OtpSpace
  BY <1>2, <1>3 DEF RowSpace, TfaSpace
<1>5. code \in CodeSpace /\ Made(code)
  BY CodesWereMade DEF Made
<1>6. verifyUserOTP(o, code) /\ rq[p] = Idle
  BY <1>1, <1>3 DEF ConfirmOTP, ShowsSecret, Arrive
<1>7. SpentAreDead(o) /\ OnlyRecovery(o)
  BY <1>1, <1>3, <1>6, DeadNow, IdleIsNotSaving DEF CountInv
<1>8. code.kind = o.type /\ o.type \in {"hotp", "totp"} /\ code.at \in Int /\ o.counter \in Int
  BY <1>4, <1>5, <1>6 DEF verifyUserOTP, OtpSpace, CodeSpace
<1>9. code.kind # "totp" => code.kind = "hotp" /\ code.of = o.secret /\ code.at >= o.counter
  BY <1>6, <1>8 DEF verifyUserOTP, VerifyCode
<1>10. PICK g : g = GenerateRecoveryCodes
  OBVIOUS
<1>11. g \in SUBSET CodeSpace /\ (\A c \in g : c.kind = "recovery") /\ (\A c \in spent : c \notin g)
  BY <1>10, NewCodesAreCodes, NewCodesUnspent
<1>12. PICK n : n = IF code.kind = "totp" THEN 0 ELSE code.at + 1
  OBVIOUS
<1>13. n \in Int
  BY <1>8, <1>12
<1>14. PICK otp : otp = [o EXCEPT !.pending = FALSE, !.enable = TRUE, !.codes = g, !.counter = n]
  OBVIOUS
<1>15. otp \in OtpSpace /\ otp.type = o.type /\ otp.secret = o.secret /\ otp.codes = g /\ otp.counter = n
  BY <1>4, <1>11, <1>13, <1>14, Zenon DEF OtpSpace
<1>16. PICK u : u = [row EXCEPT !.tfa.otp = otp]
  BY Zenon
<1>17. u.tfa.otp = otp
  BY <1>2, <1>15, <1>16, WithOTP
<1>18. Save(p, "setting", u) /\ Spend(code) /\ user' = user
  BY <1>1, <1>3, <1>10, <1>12, <1>14, <1>16 DEF ConfirmOTP
<1>19. SpentAreDead(otp)
  <2> SUFFICES ASSUME NEW c \in spent, c.kind # "totp", Live(otp, c) PROVE FALSE
    BY DEF SpentAreDead
  <2>1. ~Live(o, c) /\ c \notin g
    BY <1>7, <1>11 DEF SpentAreDead
  <2>2. c.kind = "hotp" /\ o.type = "hotp" /\ c.of = o.secret /\ c.at >= n
    BY <1>15, <2>1 DEF Live
  <2>3. n = code.at + 1 /\ code.at >= o.counter
    BY <1>8, <1>9, <1>12, <2>2
  <2>4. c.at \in Int
    BY DEF CountInv, Made, CodeSpace
  <2> QED
    BY <1>8, <2>1, <2>2, <2>3, <2>4 DEF Live
<1>20. CountsFirst(otp, code)
  <2>1. CASE code.kind = "totp"
    BY <2>1 DEF CountsFirst
  <2>2. CASE code.kind # "totp"
    <3>1. Live(o, code)
      BY <1>8, <1>9, <2>2 DEF Live
    <3>2. code \notin spent
      BY <1>7, <2>2, <3>1 DEF SpentAreDead
    <3>3. n = code.at + 1 /\ code \notin g
      BY <1>9, <1>11, <1>12, <2>2
    <3>4. ~Live(otp, code)
      BY <1>8, <1>15, <3>3 DEF Live
    <3> QED
      BY <3>2, <3>4 DEF CountsFirst
  <2> QED
    BY <2>1, <2>2
<1>21. fresh' \in FreshSpace /\ fresh.secret <= fresh'.secret /\ fresh.set <= fresh'.set
  BY DEF ConfirmOTP, FactorInv, FreshSpace
<1>22. (\A c \in spent' : Made(c)') /\ CodesCountOnce' /\ SpentAreDead(otp)'
  BY <1>5, <1>18, <1>19, <1>20, <1>21, SpendFirst
<1>23. OnlyRecovery(otp)
  BY <1>11, <1>15 DEF OnlyRecovery
<1> QED
  BY <1>17, <1>18, <1>22, <1>23, CountSave

\* --- logging in ---

\* A step that spends nothing and leaves the table alone.
LEMMA QuietMove ==
    ASSUME FactorInv, CountInv, NEW p, Procs = {p}, NEW r, Goto(p, r), CountRequest(r)',
           UNCHANGED <<user, spent, twice>>, fresh'.secret = fresh.secret, fresh'.set = fresh.set
    PROVE  CountInv'
<1>1. OnlyRecovery(user.tfa.otp)' /\ CodesCountOnce'
  BY DEF CountInv, OnlyRecovery, CodesCountOnce
<1>2. \A c \in spent' : Made(c)'
  BY DEF CountInv, Made
<1> QED
  BY <1>1, <1>2, OnlyOneMoves

LEMMA CountLogin == ASSUME FactorInv, CountInv, NEW p, Procs = {p}, Login(p) PROVE CountInv'
<1>1. UNCHANGED <<user, spent, twice, fresh>> /\ rq[p] = Idle
  BY DEF Login, Arrive
<1>2. PICK f : f = Factors(user.tfa)
  OBVIOUS
<1>3. PICK r : r = IF f = {} THEN [at |-> "session", challenge |-> 0, shown |-> {}, code |-> NoCode]
                   ELSE [at |-> "challenge", factors |-> f]
  BY Zenon
<1>4. r.at \in {"session", "challenge"} /\ (r.at = "session" => r.code = NoCode)
  BY <1>3
<1>5. SpentAreDead(user.tfa.otp)'
  BY <1>1, DeadNow, IdleIsNotSaving DEF SpentAreDead
<1>6. Made(NoCode)'
  BY DEF Made, NoCode, CodeSpace
<1>7. CountRequest(r)'
  BY <1>4, <1>5, <1>6 DEF CountRequest, CountsFirst
<1>8. Goto(p, r)
  BY <1>2, <1>3 DEF Login
<1> QED
  BY <1>1, <1>7, <1>8, QuietMove

LEMMA IdleCounts == ASSUME SpentAreDead(user.tfa.otp)' PROVE CountRequest(Idle)'
BY DEF CountRequest, Idle

LEMMA CountChallenge == ASSUME FactorInv, CountInv, NEW p, Procs = {p}, Challenge(p) PROVE CountInv'
<1>1. UNCHANGED <<user, spent, twice>> /\ Goto(p, Idle) /\ rq[p].at = "challenge"
  BY DEF Challenge, At
<1>2. fresh'.secret = fresh.secret /\ fresh'.set = fresh.set
  <2>1. fresh \in FreshSpace
    BY DEF FactorInv
  <2> QED
    BY <2>1 DEF Challenge, FreshSpace
<1>3. SpentAreDead(user.tfa.otp)'
  BY <1>1, DeadNow DEF SpentAreDead
<1> QED
  BY <1>1, <1>2, <1>3, IdleCounts, QuietMove

LEMMA CountConfirm ==
    ASSUME FactorInv, CountInv, NEW p, Procs = {p}, NEW cookie, NEW mailCode,
           NEW code \in AppCodes \cup RecoveryCodes \cup {NoCode}, Confirm(p, cookie, mailCode, code)
    PROVE  CountInv'
<1>1. UNCHANGED <<user, spent, twice, fresh>> /\ rq[p] = Idle
  BY DEF Confirm, Arrive
<1>2. PICK row : row = user
  OBVIOUS
<1>3. PICK r : r = [at |-> "stored", row |-> row, cookie |-> cookie, mailCode |-> mailCode, code |-> code]
  BY Zenon
<1>4. r.at = "stored" /\ r.row = row /\ r.code = code
  BY <1>3
<1>5. SpentAreDead(user.tfa.otp)'
  BY <1>1, DeadNow, IdleIsNotSaving DEF SpentAreDead
<1>6. Made(code)'
  BY <1>1, CodesWereMade DEF Made
<1>7. CountRequest(r)'
  BY <1>1, <1>2, <1>4, <1>5, <1>6 DEF CountRequest
<1>8. Goto(p, r)
  BY <1>2, <1>3 DEF Confirm
<1> QED
  BY <1>1, <1>7, <1>8, QuietMove

LEMMA CountStored == ASSUME FactorInv, CountInv, NEW p, Procs = {p}, Stored(p) PROVE CountInv'
<1>1. UNCHANGED <<user, spent, twice, fresh>> /\ rq[p].at = "stored"
  BY DEF Stored, At
<1>2. PICK r : r = rq[p]
  OBVIOUS
<1>3. r.row = user /\ Made(r.code)
  BY <1>1, <1>2 DEF CountInv, CountRequest
<1>4. PICK old, code : old = user /\ code = r.code
  OBVIOUS
<1>5. old \in RowSpace /\ code \in CodeSpace
  BY <1>3, <1>4 DEF FactorInv, GoodRow, Made
<1>6. SpentAreDead(old.tfa.otp) /\ OnlyRecovery(old.tfa.otp)
  BY <1>1, <1>4, DeadNow DEF CountInv
<1>7. PICK row : row = AfterUse(old, code)
  OBVIOUS
<1>8. PICK need : need = pending.factors
  OBVIOUS
<1>9. PICK spend : spend = IF "o" \in need THEN code ELSE NoCode
  OBVIOUS
<1>10. PICK session : session = [at |-> "session", challenge |-> pending.id, shown |-> need, code |-> spend]
  BY Zenon
<1>11. session.at = "session" /\ session.code = spend
  BY <1>10
<1>12. PICK x : x = [at |-> "remember", row |-> row, next |-> session]
  BY Zenon
<1>13. x.at = "remember" /\ x.row = row /\ x.next = session
  BY <1>12
<1>14. \/ Goto(p, Idle)
       \/ Goto(p, session) /\ ("o" \notin need \/ (row = old /\ (verifyUserOTP(old.tfa.otp, code) \/ code \in old.tfa.otp.codes)))
       \/ Goto(p, x) /\ "o" \in need /\ (verifyUserOTP(old.tfa.otp, code) \/ code \in old.tfa.otp.codes)
  BY <1>2, <1>3, <1>4, <1>7, <1>8, <1>9, <1>10, <1>12 DEF Stored, Required
<1>15. SpentAreDead(user.tfa.otp)'
  BY <1>1, <1>4, <1>6 DEF SpentAreDead
<1>16. Made(code)' /\ Made(NoCode)'
  BY <1>1, <1>3, <1>4 DEF Made, NoCode, CodeSpace
<1>17. CASE Goto(p, Idle)
  BY <1>1, <1>15, <1>17, IdleCounts, QuietMove
<1>18. CASE Goto(p, session) /\ ("o" \notin need \/ (row = old /\ (verifyUserOTP(old.tfa.otp, code) \/ code \in old.tfa.otp.codes)))
  <2>1. spend = NoCode \/ (spend = code /\ code.kind = "totp")
    BY <1>5, <1>6, <1>7, <1>9, <1>18, UseUses
  <2>2. CountRequest(session)'
    BY <1>11, <1>15, <1>16, <2>1 DEF CountRequest, CountsFirst
  <2> QED
    BY <1>1, <1>18, <2>2, QuietMove
<1>19. CASE Goto(p, x) /\ "o" \in need /\ (verifyUserOTP(old.tfa.otp, code) \/ code \in old.tfa.otp.codes)
  <2>1. /\ \A c \in CodeSpace : Live(row.tfa.otp, c) => Live(old.tfa.otp, c)
        /\ OnlyRecovery(row.tfa.otp)
        /\ code.kind # "totp" => Live(old.tfa.otp, code) /\ ~Live(row.tfa.otp, code)
    BY <1>5, <1>6, <1>7, <1>19, UseUses
  <2>2. \A c \in spent : c \in CodeSpace
    BY DEF CountInv, Made
  <2>3. SpentAreDead(row.tfa.otp)
    BY <1>6, <2>1, <2>2 DEF SpentAreDead
  <2>4. CountsFirst(row.tfa.otp, code)
    BY <1>6, <2>1 DEF CountsFirst, SpentAreDead
  <2>5. spend = code
    BY <1>9, <1>19
  <2>6. SpentAreDead(row.tfa.otp)' /\ CountsFirst(row.tfa.otp, code)'
    BY <1>1, <2>3, <2>4 DEF SpentAreDead, CountsFirst
  <2>7. CountRequest(x)'
    BY <1>11, <1>13, <1>15, <1>16, <2>1, <2>5, <2>6 DEF CountRequest
  <2> QED
    BY <1>1, <1>19, <2>7, QuietMove
<1> QED
  BY <1>14, <1>17, <1>18, <1>19

LEMMA CountRemember == ASSUME FactorInv, CountInv, NEW p, Procs = {p}, Remember(p) PROVE CountInv'
<1>1. PICK r : r = rq[p]
  OBVIOUS
<1>2. PICK u, n : u = r.row /\ n = r.next
  OBVIOUS
<1>3. /\ SpentAreDead(u.tfa.otp) /\ OnlyRecovery(u.tfa.otp)
      /\ Made(n.code) /\ CountsFirst(u.tfa.otp, n.code)
  BY <1>1, <1>2 DEF Remember, At, CountInv, CountRequest
<1>4. n.at = "session"
  BY <1>1, <1>2, Zenon DEF Remember, At, FactorInv, GoodRequest
<1>5. user' = u /\ Goto(p, n) /\ UNCHANGED <<spent, twice, fresh>>
  BY <1>1, <1>2 DEF Remember, UpdateUserInfo
<1>6. SpentAreDead(user.tfa.otp)' /\ CountsFirst(user.tfa.otp, n.code)' /\ OnlyRecovery(user.tfa.otp)' /\ Made(n.code)'
  BY <1>3, <1>5 DEF SpentAreDead, CountsFirst, OnlyRecovery, Made
<1>7. CountRequest(n)'
  BY <1>4, <1>6 DEF CountRequest
<1>8. (\A c \in spent' : Made(c)') /\ CodesCountOnce'
  BY <1>5 DEF CountInv, Made, CodesCountOnce
<1> QED
  BY <1>5, <1>6, <1>7, <1>8, OnlyOneMoves

LEMMA CountSaved == ASSUME FactorInv, CountInv, NEW p, Procs = {p}, Saved(p) PROVE CountInv'
<1>1. PICK u : u = rq[p].row
  OBVIOUS
<1>2. SpentAreDead(u.tfa.otp) /\ OnlyRecovery(u.tfa.otp)
  BY <1>1 DEF Saved, At, CountInv, CountRequest
<1>3. user' = u /\ Goto(p, Idle) /\ UNCHANGED <<spent, twice, fresh>>
  BY <1>1 DEF Saved, UpdateUserInfo
<1>4. SpentAreDead(user.tfa.otp)' /\ OnlyRecovery(user.tfa.otp)'
  BY <1>2, <1>3 DEF SpentAreDead, OnlyRecovery
<1>5. (\A c \in spent' : Made(c)') /\ CodesCountOnce'
  BY <1>3 DEF CountInv, Made, CodesCountOnce
<1> QED
  BY <1>3, <1>4, <1>5, IdleCounts, OnlyOneMoves

LEMMA CountSession == ASSUME FactorInv, CountInv, NEW p, Procs = {p}, Session(p) PROVE CountInv'
<1>1. PICK code, o : code = rq[p].code /\ o = user.tfa.otp
  OBVIOUS
<1>2. rq[p].at = "session" /\ Spend(code) /\ Goto(p, Idle) /\ UNCHANGED <<user, fresh>>
  BY <1>1 DEF Session, At
<1>3. Made(code) /\ CountsFirst(o, code)
  BY <1>1, <1>2 DEF CountInv, CountRequest
<1>4. SpentAreDead(o)
  BY <1>1, <1>2, DeadNow
<1>5. (\A c \in spent' : Made(c)') /\ CodesCountOnce' /\ SpentAreDead(o)'
  BY <1>2, <1>3, <1>4, FreshStays, SpendFirst
<1>6. OnlyRecovery(user.tfa.otp)'
  BY <1>2 DEF CountInv, OnlyRecovery
<1>7. SpentAreDead(user.tfa.otp)'
  BY <1>1, <1>2, <1>5 DEF SpentAreDead
<1> QED
  BY <1>2, <1>5, <1>6, <1>7, IdleCounts, OnlyOneMoves

LEMMA CountInvInit == Init => CountInv
<1> SUFFICES ASSUME Init PROVE CountInv
  OBVIOUS
<1>1. user.tfa.otp = NoOTP /\ spent = {} /\ twice = {} /\ \A p \in Procs : rq[p] = Idle
  BY DEF Init
<1>2. CountRequest(Idle)
  <2>1. Idle.at = "idle"
    BY DEF Idle
  <2> QED
    BY <1>1, <2>1 DEF CountRequest, SpentAreDead
<1> QED
  BY <1>1, <1>2, NoOTPIsDead DEF CountInv, CodesCountOnce

LEMMA CountInvStep ==
    ASSUME NEW p, Procs = {p}, FactorInv, CountInv, [Next]_vars
    PROVE  CountInv'
<1>1. CASE UNCHANGED <<user, fresh, rq, spent, twice>>
  BY <1>1, Zenon DEF CountInv, OnlyRecovery, Made, CodesCountOnce, CountRequest, SpentAreDead, CountsFirst
<1>2. CASE Tick \/ UNCHANGED vars
  BY <1>1, <1>2 DEF Tick, vars
<1>3. CASE Login(p) \/ Challenge(p) \/ Stored(p) \/ Remember(p) \/ Session(p) \/ Saved(p)
  BY <1>3, CountLogin, CountChallenge, CountStored, CountRemember, CountSession, CountSaved
<1>4. ASSUME NEW cookie \in cookies, NEW mailCode \in mailed \cup {0},
             NEW code \in AppCodes \cup RecoveryCodes \cup {NoCode}, Confirm(p, cookie, mailCode, code)
      PROVE  CountInv'
  BY <1>4, CountConfirm
<1>5. ASSUME NEW enable \in BOOLEAN, SetEmail(p, enable) PROVE CountInv'
  BY <1>5, CountEmail
<1>6. ASSUME NEW type \in Types, StartOTP(p, type) PROVE CountInv'
  BY <1>6, CountStart
<1>7. ASSUME NEW code \in AppCodes \cup {NoCode}, ConfirmOTP(p, code) PROVE CountInv'
  BY <1>7, CountConfirmOTP
<1>8. CASE CancelOTP(p) \/ RegenerateCodes(p) \/ DisableOTP(p) \/ Reset2FA(p)
  BY <1>8, CountOff, CountRegenerate
<1> QED
  BY <1>2, <1>3, <1>4, <1>5, <1>6, <1>7, <1>8 DEF Next

\* One request at a time, a HOTP code and a recovery code are accepted once, by
\* POST /login/confirm and by the set-up together, however far the counter
\* skipped, and whatever was disabled, set up again and regenerated in between.
THEOREM CodesCount ==
    ASSUME NEW p, Procs = {p}
    PROVE  Spec => []CodesCountOnce
<1>1. FactorInv /\ CountInv /\ [Next]_vars => CountInv'
  BY CountInvStep
<1>2. CountInv => CodesCountOnce
  BY DEF CountInv
<1> QED
  BY <1>1, <1>2, FactorInvInit, FactorInvStep, CountInvInit, PTL DEF Spec
-----------------------------------------------------------------------------
(* The gates of registration (Account), for any accounts, people and requests *)
(* at the same time, over any backend whose calls change the table of users   *)
(* the way CallsHold has it.                                                  *)

CONSTANTS ReceiptStore, Zone, Config, Names, People, Standing, Timeout, MaxReceipts, MaxEmails,
          StartDb, Null,
          GetUserByName(_, _), RegisterUser(_, _, _, _, _), UpdateUserStatus(_, _, _), WriteUserInfo(_, _, _),
          HardDeleteUserByName(_, _),
          AddEmail(_, _, _), VerifyRegisteredEmail(_, _, _), DeleteRegisteredEmail(_, _, _),
          CheckIfEmailVerified(_, _, _), GetAllRegisteredEmailOfUser(_, _),
          InsertRegistrationRequest(_, _, _, _), GetRegistrationRequestByAbsId(_, _),
          ApproveRegistrationStatus(_, _, _), DeleteRequestsOf(_, _), DisapproveRegistrationRequest(_, _),
          GetNamespaceByName(_, _), RegisterNamespace(_, _, _), NamespaceACLRead(_, _),
          SetNamespaceACL(_, _, _, _, _)
VARIABLES db, rs, work, mail, sess, approved, proved, granted, followed, uses

Site == INSTANCE Account WITH rq <- work, UpdateUserInfo <- WriteUserInfo

\* No account is deleted: a row that was read before the deletion could be
\* written back over the one of somebody who took the name since.
GateAssumption == StartDb.user = <<>> /\ "delete" \notin Requests

Users == Site!Rows(db.user)

\* The account got through every gate, or an administrator set its status.
Passed(n, pw) ==
    n \in granted \/ ((Config.manualApproval => n \in approved) /\ (Config.emailConfirmation => <<n, pw>> \in proved))
Known(n) == \E u \in Users : u.name = n
Safe(n) == Known(n) /\ \A u \in Users : u.name = n => Passed(n, u.pw)

\* Following a link sent to e is all that is left to do.
Proves(n, e) ==
    /\ Known(n)
    /\ \A u \in Users : u.name = n => Passed(n, u.pw) \/ (u.pw = e /\ (Config.manualApproval => n \in approved))

\* An account that waits for the link was approved; and until it has passed, its
\* address is the one it was registered with.
Sound(u) ==
    /\ u.status \notin Site!Unusable => Passed(u.name, u.pw)
    /\ u.status = "confirm" => Passed(u.name, u.pw) \/ (Config.manualApproval => u.name \in approved)
    /\ Passed(u.name, u.pw) \/ u.email = u.pw

\* What a request has made sure of before the call it makes next.
Due(p) ==
    /\ work[p].at \in {"confCancel", "confStatus"} => Proves(work[p].command[2], work[p].command[3])
    /\ work[p].at = "infoSave" => Safe(work[p].row.name)
    /\ work[p].at = "primary" => Safe(work[p].n)
    /\ work[p].at = "appDelete" => work[p].req.user \in approved
    /\ work[p].at = "appFinal" => work[p].n \in approved /\ ~Config.emailConfirmation
    /\ work[p].at = "regUser" => ~Config.manualApproval
    /\ work[p].at = "receipt" => work[p].next = Site!Idle

TableInv == (\A u, v \in Users : u.name = v.name => u = v) /\ \A u \in Users : Sound(u)

GateInv ==
    /\ TableInv
    /\ \A n \in sess : Safe(n)
    /\ DOMAIN work = Procs /\ \A p \in Procs : Due(p)

\* What holds of every step: nothing is taken back, and no row goes or changes hands.
GatesGrow == approved \subseteq approved' /\ proved \subseteq proved' /\ granted \subseteq granted'
Stays ==
    /\ \A v \in Users' : (\E u \in Users : v.name = u.name /\ v.pw = u.pw) \/ \A u \in Users : u.name # v.name
    /\ \A u \in Users : \E v \in Users' : v.name = u.name

LEMMA PassedStays ==
    ASSUME GatesGrow, NEW n, NEW pw, Passed(n, pw)
    PROVE  Passed(n, pw)'
  BY DEF GatesGrow, Passed

LEMMA SafeStays ==
    ASSUME GatesGrow, Stays, NEW n
    PROVE  (Safe(n) => Safe(n)') /\ \A e : Proves(n, e) => Proves(n, e)'
<1>1. Known(n) => Known(n)'
  BY DEF Known, Stays
<1>2. ASSUME Known(n), NEW v \in Users', v.name = n PROVE \E u \in Users : u.name = n /\ u.pw = v.pw
  BY <1>2 DEF Known, Stays
<1>3. ASSUME Safe(n) PROVE Safe(n)'
  <2>1. ASSUME NEW v \in Users', v.name = n PROVE Passed(n, v.pw)'
    BY <1>2, <1>3, <2>1, PassedStays DEF Safe
  <2> QED
    BY <1>1, <1>3, <2>1 DEF Safe
<1>4. ASSUME NEW e, Proves(n, e) PROVE Proves(n, e)'
  <2>1. ASSUME NEW v \in Users', v.name = n
        PROVE  Passed(n, v.pw)' \/ (v.pw = e /\ (Config.manualApproval => n \in approved'))
    <3>1. PICK u \in Users : u.name = n /\ u.pw = v.pw
      BY <1>2, <1>4, <2>1 DEF Proves
    <3>2. Passed(n, u.pw) \/ (u.pw = e /\ (Config.manualApproval => n \in approved))
      BY <1>4, <3>1 DEF Proves
    <3> QED
      BY <3>1, <3>2, PassedStays DEF GatesGrow
  <2> QED
    BY <1>1, <1>4, <2>1 DEF Proves
<1> QED
  BY <1>3, <1>4

LEMMA GateInvKept ==
    ASSUME GateInv, GatesGrow, Stays, TableInv', NEW p \in Procs, work' = [work EXCEPT ![p] = work'[p]], Due(p)',
           sess' \subseteq sess
    PROVE  GateInv'
<1>1. ASSUME NEW q \in Procs PROVE Due(q)'
  <2>1. CASE q = p
    BY <2>1
  <2>2. CASE q # p
    <3>1. work'[q] = work[q]
      BY <2>2 DEF GateInv
    <3>2. Due(q)
      BY DEF GateInv
    <3> QED
      BY <3>1, <3>2, SafeStays DEF Due, GatesGrow
  <2> QED
    BY <2>1, <2>2
<1>2. \A n \in sess' : Safe(n)'
  BY SafeStays DEF GateInv
<1>3. DOMAIN work' = Procs
  BY DEF GateInv
<1> QED
  BY <1>1, <1>2, <1>3 DEF GateInv

\* --- what the calls do to the table ---

LEMMA TableKept ==
    ASSUME TableInv, GatesGrow, Users' = Users
    PROVE  TableInv' /\ Stays
<1>1. ASSUME NEW u \in Users PROVE Sound(u)'
  BY PassedStays DEF TableInv, Sound, GatesGrow
<1> QED
  BY <1>1 DEF TableInv, Stays

LEMMA StatusTable ==
    ASSUME TableInv, GatesGrow, NEW n, NEW s, NEW a, Users' = Site!Rows(a.db.user), Site!SetsStatus(a, n, s),
           \A u \in Users : DOMAIN u = Site!Columns,
           \A u \in Users : u.name = n =>
               /\ s \notin Site!Unusable => Passed(n, u.pw)'
               /\ s = "confirm" => Passed(n, u.pw)' \/ (Config.manualApproval => n \in approved')
    PROVE  TableInv' /\ Stays
<1> DEFINE F(u) == IF u.name = n THEN [u EXCEPT !.status = s] ELSE u
<1>1. ASSUME NEW u \in Users
      PROVE  /\ F(u).name = u.name /\ F(u).pw = u.pw /\ F(u).email = u.email
             /\ F(u).status = IF u.name = n THEN s ELSE u.status
  BY DEF Site!Columns
<1>2. (\A v \in Users' : \E u \in Users : v = F(u)) /\ \A u \in Users : F(u) \in Users'
  BY DEF Site!SetsStatus, Users
<1> HIDE DEF F
<1>3. ASSUME NEW u \in Users PROVE Sound(F(u))'
  <2>1. F(u)' = F(u)
    BY DEF F
  <2>2. Sound(u) /\ (Passed(u.name, u.pw) => Passed(u.name, u.pw)')
    BY PassedStays DEF TableInv
  <2>3. Passed(u.name, u.pw)' \/ F(u).email = F(u).pw
    BY <1>1, <2>2 DEF Sound
  <2>4. F(u).status \notin Site!Unusable => Passed(u.name, u.pw)'
    BY <1>1, <2>2 DEF Sound
  <2>5. F(u).status = "confirm" => Passed(u.name, u.pw)' \/ (Config.manualApproval => u.name \in approved')
    BY <1>1, <2>2 DEF Sound, GatesGrow
  <2> QED
    BY <1>1, <2>1, <2>3, <2>4, <2>5 DEF Sound
<1>4. ASSUME NEW v \in Users', NEW w \in Users', v.name = w.name PROVE v = w
  <2>1. PICK u \in Users, t \in Users : v = F(u) /\ w = F(t)
    BY <1>2
  <2>2. u.name = t.name
    BY <1>1, <1>4, <2>1
  <2> QED
    BY <2>1, <2>2 DEF TableInv
<1>5. Stays
  BY <1>1, <1>2 DEF Stays
<1> QED
  BY <1>2, <1>3, <1>4, <1>5 DEF TableInv

LEMMA InfoTable ==
    ASSUME TableInv, GatesGrow, NEW n, NEW row,
           Users' = {IF u.name = n THEN [name |-> n, email |-> row.email, pw |-> u.pw, status |-> row.status,
                                         tfa |-> row.tfa, info |-> row.info]
                     ELSE u : u \in Users},
           \A u \in Users : u.name = n => Passed(n, u.pw)'
    PROVE  TableInv' /\ Stays
<1> DEFINE F(u) == IF u.name = n THEN [name |-> n, email |-> row.email, pw |-> u.pw, status |-> row.status,
                                       tfa |-> row.tfa, info |-> row.info] ELSE u
<1>1. ASSUME NEW u \in Users
      PROVE  F(u).name = u.name /\ F(u).pw = u.pw /\ (u.name # n => F(u) = u)
  OBVIOUS
<1>2. (\A v \in Users' : \E u \in Users : v = F(u)) /\ \A u \in Users : F(u) \in Users'
  OBVIOUS
<1> HIDE DEF F
<1>3. ASSUME NEW u \in Users PROVE /\ F(u).status \notin Site!Unusable => Passed(u.name, u.pw)'
                                   /\ F(u).status = "confirm" => Passed(u.name, u.pw)' \/ (Config.manualApproval => u.name \in approved')
                                   /\ Passed(u.name, u.pw)' \/ F(u).email = F(u).pw
  <2>1. CASE u.name = n
    BY <2>1
  <2>2. CASE u.name # n
    BY <1>1, <2>2, PassedStays DEF TableInv, Sound, GatesGrow
  <2> QED
    BY <2>1, <2>2
<1>4. ASSUME NEW v \in Users' PROVE Sound(v)'
  BY <1>1, <1>2, <1>3 DEF Sound
<1>5. \A u, v \in Users' : u.name = v.name => u = v
  BY <1>1, <1>2 DEF TableInv
<1>6. Stays
  BY <1>1, <1>2 DEF Stays
<1> QED
  BY <1>4, <1>5, <1>6 DEF TableInv

LEMMA GrownTable ==
    ASSUME TableInv, GatesGrow, NEW n, NEW e, NEW s, NEW a, Users' = Site!Rows(a.db.user),
           Site!AddsUser(a, n, e, s),
           a.err = "nil" =>
               /\ s \notin Site!Unusable => Passed(n, e)'
               /\ s = "confirm" => Passed(n, e)' \/ (Config.manualApproval => n \in approved')
    PROVE  TableInv' /\ Stays
<1>1. CASE a.err # "nil"
  BY <1>1, TableKept DEF Site!AddsUser, Site!KeepsUsers, Users
<1>2. CASE a.err = "nil"
  <2>1. PICK w : w = [name |-> n, email |-> e, pw |-> e, status |-> s, tfa |-> "off", info |-> n]
    BY Zenon
  <2>2. w.name = n /\ w.email = e /\ w.pw = e /\ w.status = s
    BY <2>1
  <2>3. Users' = Users \cup {w} /\ \A u \in Users : u.name # n
    BY <1>2, <2>1 DEF Site!AddsUser, Users
  <2>4. Sound(w)'
    BY <1>2, <2>2 DEF Sound
  <2>5. ASSUME NEW u \in Users PROVE Sound(u)'
    BY PassedStays, Zenon DEF TableInv, Sound, GatesGrow
  <2>6. \A u, v \in Users' : u.name = v.name => u = v
    BY <2>2, <2>3 DEF TableInv
  <2>7. Stays
    BY <2>2, <2>3 DEF Stays
  <2> QED
    BY <2>3, <2>4, <2>5, <2>6, <2>7 DEF TableInv
<1> QED
  BY <1>1, <1>2

\* --- the steps ---

Checked == {"confCancel", "confStatus", "infoSave", "primary", "appDelete", "appFinal", "regUser", "receipt"}

LEMMA PlainDue ==
    ASSUME NEW p, work'[p].at \notin Checked
    PROVE  Due(p)'
  BY DEF Due, Checked

LEMMA Going ==
    ASSUME GateInv, NEW p \in Procs, NEW r, Site!Goto(p, r)
    PROVE  work'[p] = r /\ work' = [work EXCEPT ![p] = work'[p]]
  BY DEF GateInv, Site!Goto

LEMMA SameTable ==
    ASSUME GateInv, GatesGrow, Users' = Users, NEW p \in Procs, work' = [work EXCEPT ![p] = work'[p]], Due(p)',
           sess' \subseteq sess
    PROVE  GateInv'
<1>1. TableInv' /\ Stays
  BY TableKept DEF GateInv
<1> QED
  BY <1>1, GateInvKept

LEMMA GhostsKept ==
    ASSUME UNCHANGED <<approved, proved, granted>>
    PROVE  GatesGrow
  BY DEF GatesGrow

\* Steps that leave the requests in flight alone.
LEMMA GateAside ==
    ASSUME GateInv, UNCHANGED <<work, approved, proved, granted>>, Users' = Users, \A n \in sess' : Safe(n)
    PROVE  GateInv'
<1>1. GatesGrow
  BY GhostsKept
<1>2. TableInv' /\ Stays
  BY <1>1, TableKept DEF GateInv
<1>3. \A n \in sess' : Safe(n)'
  BY <1>1, <1>2, SafeStays
<1>4. ASSUME NEW q \in Procs PROVE Due(q)'
  <2>1. Due(q) /\ work'[q] = work[q]
    BY DEF GateInv
  <2> QED
    BY <1>1, <1>2, <2>1, SafeStays, Zenon DEF Due, GatesGrow
<1> QED
  BY <1>2, <1>3, <1>4 DEF GateInv

\* ProvisionNewUser, and the receipts.
LEMMA GateProvision ==
    ASSUME GateInv, Site!CallsHold, NEW p \in Procs, Site!Provision(p) \/ Site!IssueAndMail(p)
    PROVE  GateInv'
<1>1. UNCHANGED <<approved, proved, granted>> /\ sess' \subseteq sess
  BY Zenon DEF Site!Provision, Site!PersonalNamespace, Site!CreatePersonal, Site!DefaultNamespace, Site!ReadACL,
         Site!AddMember, Site!IssueAndMail, Site!ghosts
<1>2. Users' = Users
  <2>1. Site!StepsHold(p)
    BY Zenon DEF Site!CallsHold
  <2>2. CASE Site!CreatePersonal(p)
    <3>1. Site!KeepsUsers(RegisterNamespace(db, work[p].n, work[p].n))
      BY <2>1, <2>2, Zenon DEF Site!StepsHold, Site!CreatePersonal
    <3> QED
      BY <2>2, <3>1, Zenon DEF Site!CreatePersonal, Site!KeepsUsers, Users
  <2>3. CASE Site!AddMember(p)
    <3>1. Site!KeepsUsers(SetNamespaceACL(db, Config.defaultNamespace, work[p].n, {"addRepository"}, work[p].read))
      BY <2>1, <2>3, Zenon DEF Site!StepsHold, Site!AddMember
    <3> QED
      BY <2>3, <3>1 DEF Site!AddMember, Site!KeepsUsers, Users
  <2>4. CASE Site!PersonalNamespace(p) \/ Site!DefaultNamespace(p) \/ Site!ReadACL(p) \/ Site!IssueAndMail(p)
    BY <2>4, Zenon DEF Site!PersonalNamespace, Site!DefaultNamespace, Site!ReadACL, Site!IssueAndMail, Users
  <2> QED
    BY <2>2, <2>3, <2>4 DEF Site!Provision
<1>3. \E r : Site!Goto(p, r) /\ r.at \in {"idle", "default", "personal", "aclRead", "acl"}
  <2>1. Site!Idle.at = "idle"
    BY DEF Site!Idle
  <2>2. \A n : Site!Membership(n).at \in {"idle", "default"}
    BY <2>1, Zenon DEF Site!Membership
  <2>3. CASE Site!PersonalNamespace(p)
    <3>1. PICK n : n = work[p].n
      OBVIOUS
    <3>2. Site!Goto(p, Site!Membership(n)) \/ Site!Goto(p, [at |-> "personal", n |-> n])
      BY <2>3, <3>1, Zenon DEF Site!PersonalNamespace
    <3> QED
      BY <2>2, <3>2
  <2>4. CASE Site!CreatePersonal(p)
    BY <2>1, <2>2, <2>4 DEF Site!CreatePersonal
  <2>5. CASE Site!DefaultNamespace(p)
    BY <2>1, <2>5 DEF Site!DefaultNamespace
  <2>6. CASE Site!ReadACL(p) \/ Site!AddMember(p)
    BY <2>1, <2>6 DEF Site!ReadACL, Site!AddMember
  <2>7. CASE Site!IssueAndMail(p)
    BY <2>1, <2>7, Zenon DEF Site!IssueAndMail, Site!At, GateInv, Due
  <2> QED
    BY <2>3, <2>4, <2>5, <2>6, <2>7 DEF Site!Provision
<1>4. PICK r : Site!Goto(p, r) /\ r.at \in {"idle", "default", "personal", "aclRead", "acl"}
  BY <1>3
<1>5. work'[p] = r /\ work' = [work EXCEPT ![p] = work'[p]]
  BY <1>4, Going
<1>6. Due(p)'
  BY <1>4, <1>5, PlainDue DEF Checked
<1> QED
  BY <1>1, <1>2, <1>5, <1>6, GhostsKept, SameTable

\* POST /reg, until the account is made.
LEMMA GateRegister ==
    ASSUME GateInv, Site!CallsHold, NEW p \in Procs,
           (\E n \in Names, e \in People : Site!Register(p, n, e)) \/ Site!RegisterCheckNamespace(p) \/ Site!RegisterRequest(p)
    PROVE  GateInv'
<1>1. UNCHANGED <<approved, proved, granted>> /\ sess' \subseteq sess
  BY DEF Site!Register, Site!RegisterCheckNamespace, Site!RegisterRequest, Site!ghosts
<1>2. Users' = Users
  <2>1. CASE Site!RegisterRequest(p)
    <3>1. Site!KeepsUsers(InsertRegistrationRequest(db, work[p].n, work[p].e, work[p].e))
      BY <2>1, Zenon DEF Site!CallsHold, Site!StepsHold, Site!RegisterRequest
    <3> QED
      BY <2>1, <3>1, Zenon DEF Site!RegisterRequest, Site!KeepsUsers, Users
  <2>2. CASE (\E n \in Names, e \in People : Site!Register(p, n, e)) \/ Site!RegisterCheckNamespace(p)
    BY <2>2 DEF Site!Register, Site!RegisterCheckNamespace, Users
  <2> QED
    BY <2>1, <2>2
<1>3. \E r : Site!Goto(p, r) /\ r.at \in {"idle", "regNamespace", "regRequest", "regPending", "regUser"}
                             /\ (r.at = "regUser" => ~Config.manualApproval)
  <2>1. Site!Idle.at = "idle"
    BY DEF Site!Idle
  <2>2. \A stage, n, e : Site!Asking(stage, n, e).at = stage
    BY DEF Site!Asking
  <2>3. CASE \E n \in Names, e \in People : Site!Register(p, n, e)
    BY <2>2, <2>3 DEF Site!Register
  <2>4. CASE Site!RegisterCheckNamespace(p)
    BY <2>1, <2>2, <2>4 DEF Site!RegisterCheckNamespace
  <2>5. CASE Site!RegisterRequest(p)
    BY <2>2, <2>5 DEF Site!RegisterRequest
  <2> QED
    BY <2>3, <2>4, <2>5
<1>4. PICK r : /\ Site!Goto(p, r) /\ r.at \in {"idle", "regNamespace", "regRequest", "regPending", "regUser"}
               /\ r.at = "regUser" => ~Config.manualApproval
  BY <1>3
<1>5. work'[p] = r /\ work' = [work EXCEPT ![p] = work'[p]]
  BY <1>4, Going, Zenon
<1>6. Due(p)'
  BY <1>4, <1>5, Zenon DEF Due
<1> QED
  BY <1>1, <1>2, <1>5, <1>6, GhostsKept, SameTable

LEMMA GatePending ==
    ASSUME GateInv, Site!CallsHold, NEW p \in Procs, Site!RegisterPending(p)
    PROVE  GateInv'
<1>1. PICK n, e, a : n = work[p].n /\ e = work[p].e /\ a = RegisterUser(db, n, e, e, "approval")
  OBVIOUS
<1>2. Site!AddsUser(a, n, e, "approval")
  BY <1>1, Zenon DEF Site!CallsHold, Site!StepsHold, Site!RegisterPending, Site!At
<1>3. GatesGrow /\ sess' \subseteq sess
  BY GhostsKept DEF Site!RegisterPending, Site!ghosts
<1>4. Users' = Site!Rows(a.db.user)
  BY <1>1 DEF Site!RegisterPending, Users
<1>5. "approval" \in Site!Unusable /\ "approval" # "confirm"
  BY DEF Site!Unusable, Site!Gates
<1>6. TableInv' /\ Stays
  BY <1>2, <1>3, <1>4, <1>5, GrownTable DEF GateInv
<1>7. work'[p] = Site!Idle /\ work' = [work EXCEPT ![p] = work'[p]]
  BY Going DEF Site!RegisterPending
<1>8. Due(p)'
  BY <1>7, PlainDue DEF Site!Idle, Checked
<1> QED
  BY <1>3, <1>6, <1>7, <1>8, GateInvKept

LEMMA GateAccount ==
    ASSUME GateInv, Site!CallsHold, NEW p \in Procs, Site!RegisterAccount(p)
    PROVE  GateInv'
<1> DEFINE confirm == Config.emailConfirmation \/ Config.defaultStatus = "confirm"
<1>1. PICK n, e, s : n = work[p].n /\ e = work[p].e /\ s = IF confirm THEN "confirm" ELSE Site!FinalStatus
  OBVIOUS
<1>2. PICK a : a = RegisterUser(db, n, e, e, s)
  OBVIOUS
<1>3. db' = a.db /\ Site!Goto(p, IF a.err # "nil" THEN Site!Idle
                                 ELSE IF confirm THEN Site!Sending(e, <<"confirm", n, e>>, Site!Idle)
                                 ELSE Site!Provisioning(n, s))
  BY <1>1, <1>2 DEF Site!RegisterAccount
<1>4. Site!AddsUser(a, n, e, s)
  BY <1>1, <1>2, Zenon DEF Site!CallsHold, Site!StepsHold, Site!RegisterAccount, Site!At
<1>5. GatesGrow /\ sess' \subseteq sess
  BY GhostsKept DEF Site!RegisterAccount, Site!ghosts
<1>6. ~Config.manualApproval
  BY Zenon DEF Site!RegisterAccount, Site!At, GateInv, Due
<1>7. s \notin Site!Unusable => Passed(n, e)'
  BY <1>1, <1>6 DEF Passed, Site!Unusable, Site!Gates
<1>8. TableInv' /\ Stays
  BY <1>3, <1>4, <1>5, <1>6, <1>7, GrownTable DEF GateInv, Users
<1>9. work' = [work EXCEPT ![p] = work'[p]] /\ Due(p)'
  <2>1. PICK r : Site!Goto(p, r) /\ (r = Site!Idle \/ r = Site!Sending(e, <<"confirm", n, e>>, Site!Idle)
                                     \/ r = Site!Provisioning(n, s))
    BY <1>3
  <2>2. work'[p] = r /\ work' = [work EXCEPT ![p] = work'[p]]
    BY <2>1, Going
  <2>3. r.at \in {"idle", "receipt", "provision"} /\ (r.at = "receipt" => r.next = Site!Idle)
    BY <2>1 DEF Site!Idle, Site!Sending, Site!Provisioning
  <2> QED
    BY <2>2, <2>3, Zenon DEF Due
<1> QED
  BY <1>5, <1>8, <1>9, GateInvKept

\* POST /confirm-registration: the password and the address were those of the
\* account while it waited for the link.
LEMMA GateConfirmUser ==
    ASSUME GateInv, Site!CallsHold, NEW p \in Procs, NEW e, Site!ConfirmUser(p, e)
    PROVE  GateInv'
<1>1. PICK c, u : c = work[p].command /\ u = GetUserByName(db, c[2])
  OBVIOUS
<1>2. Site!Goto(p, IF u = Null \/ (u # Null /\ ~Site!Awaits(u, c)) THEN Site!Idle
                   ELSE IF u.pw # e THEN Site!Idle ELSE Site!Confirming("confCancel", work[p].id, c))
  BY <1>1, Zenon DEF Site!ConfirmUser, Site!User
<1>3. PICK r : /\ Site!Goto(p, r)
               /\ r = Site!Idle \/ (r = Site!Confirming("confCancel", work[p].id, c) /\ u # Null /\ Site!Awaits(u, c))
  BY <1>2
<1>4. work'[p] = r /\ work' = [work EXCEPT ![p] = work'[p]]
  BY <1>3, Going
<1>5. UNCHANGED <<approved, proved, granted>> /\ sess' \subseteq sess /\ Users' = Users
  BY Zenon DEF Site!ConfirmUser, Site!ghosts, Users
<1>6. u # Null => u \in Users /\ u.name = c[2]
  BY <1>1, Zenon DEF Site!ConfirmUser, Site!At, Site!CallsHold, Site!StepsHold, Site!FindsUser, Site!User, Users
<1>7. ASSUME u # Null, Site!Awaits(u, c) PROVE Proves(c[2], c[3])
  <2>1. Known(c[2])
    BY <1>6, <1>7, Zenon DEF Known
  <2>2. Sound(u) /\ u.status = "confirm" /\ u.email = c[3]
    BY <1>6, <1>7 DEF GateInv, TableInv, Site!Awaits
  <2>3. Passed(c[2], u.pw) \/ (u.pw = c[3] /\ (Config.manualApproval => c[2] \in approved))
    BY <1>6, <1>7, <2>2 DEF Sound
  <2>4. \A v \in Users : v.name = c[2] => v = u
    BY <1>6, <1>7 DEF GateInv, TableInv
  <2> QED
    BY <2>1, <2>3, <2>4, Zenon DEF Proves
<1>8. Stays /\ GatesGrow
  BY <1>5, TableKept, GhostsKept DEF GateInv
<1>9. Due(p)'
  <2>1. CASE r = Site!Idle
    BY <1>4, <2>1, PlainDue DEF Site!Idle, Checked
  <2>2. CASE r = Site!Confirming("confCancel", work[p].id, c) /\ u # Null /\ Site!Awaits(u, c)
    <3>1. r.at = "confCancel" /\ r.command = c
      BY <2>2 DEF Site!Confirming
    <3>2. Proves(c[2], c[3])'
      BY <1>7, <1>8, <2>2, SafeStays
    <3> QED
      BY <1>4, <3>1, <3>2 DEF Due
  <2> QED
    BY <1>3, <2>1, <2>2
<1> QED
  BY <1>4, <1>5, <1>8, <1>9, SameTable

LEMMA GateConfirm ==
    ASSUME GateInv, Site!CallsHold, NEW p \in Procs, (\E id : Site!Confirm(p, id)) \/ Site!ConfirmCancel(p)
    PROVE  GateInv'
<1>1. UNCHANGED <<approved, proved, granted>> /\ sess' \subseteq sess /\ Users' = Users
  BY Zenon DEF Site!Confirm, Site!ConfirmCancel, Site!ghosts, Users
<1>2. Stays /\ GatesGrow
  BY <1>1, TableKept, GhostsKept DEF GateInv
<1>3. CASE \E id : Site!Confirm(p, id)
  <2>1. CASE UNCHANGED work
    <3>1. \A n \in sess' : Safe(n)
      BY <1>1 DEF GateInv
    <3> QED
      BY <1>1, <2>1, <3>1, GateAside
  <2>2. CASE \E r : Site!Goto(p, r) /\ r.at = "confUser"
    <3>1. PICK r : Site!Goto(p, r) /\ r.at = "confUser"
      BY <2>2
    <3>2. work'[p] = r /\ work' = [work EXCEPT ![p] = work'[p]]
      BY <3>1, Going
    <3> QED
      BY <1>1, <1>2, <3>1, <3>2, PlainDue, SameTable DEF Checked
  <2>3. \A id, c : Site!Confirming("confUser", id, c).at = "confUser"
    BY DEF Site!Confirming
  <2>4. UNCHANGED work \/ \E id, c : Site!Goto(p, Site!Confirming("confUser", id, c))
    BY <1>3, Zenon DEF Site!Confirm
  <2> QED
    BY <2>1, <2>2, <2>3, <2>4
<1>4. CASE Site!ConfirmCancel(p)
  <2>1. PICK r, c : r = Site!Confirming("confStatus", work[p].id, c) /\ c = work[p].command
    OBVIOUS
  <2>2. work'[p] = r /\ work' = [work EXCEPT ![p] = work'[p]]
    BY <1>4, <2>1, Going DEF Site!ConfirmCancel
  <2>3. r.at = "confStatus" /\ r.command = c
    BY <2>1 DEF Site!Confirming
  <2>4. Proves(c[2], c[3])
    BY <1>4, <2>1, Zenon DEF GateInv, Due, Site!ConfirmCancel, Site!At
  <2>5. Proves(c[2], c[3])'
    BY <1>2, <2>4, SafeStays
  <2>6. Due(p)'
    BY <2>2, <2>3, <2>5, Zenon DEF Due
  <2> QED
    BY <1>1, <1>2, <2>2, <2>6, SameTable
<1> QED
  BY <1>3, <1>4

LEMMA IdleDue ==
    ASSUME NEW p, work'[p] = Site!Idle
    PROVE  Due(p)'
<1>1. work'[p].at = "idle"
  BY DEF Site!Idle
<1>2. work'[p].at \notin Checked
  BY <1>1 DEF Checked
<1> QED
  BY <1>2, PlainDue

LEMMA ProvisioningDue ==
    ASSUME NEW p, NEW n, NEW s, work'[p] = Site!Provisioning(n, s)
    PROVE  Due(p)'
<1>1. work'[p].at = "provision"
  BY DEF Site!Provisioning
<1>2. work'[p].at \notin Checked
  BY <1>1 DEF Checked
<1> QED
  BY <1>2, PlainDue

LEMMA GateConfirmStatus ==
    ASSUME GateInv, Site!CallsHold, NEW p \in Procs, Site!ConfirmStatus(p)
    PROVE  GateInv'
<1>1. PICK n, e, s : n = work[p].command[2] /\ e = work[p].command[3] /\ s = Site!FinalStatus
  OBVIOUS
<1>2. Proves(n, e)
  BY <1>1, Zenon DEF GateInv, Due, Site!ConfirmStatus, Site!At
<1>3. /\ proved' = proved \cup {<<n, e>>} /\ approved' = approved /\ granted' = granted /\ sess' = sess
      /\ db' = UpdateUserStatus(db, n, s).db /\ Site!Goto(p, Site!Provisioning(n, s))
  BY <1>1, Zenon DEF Site!ConfirmStatus
<1>4. Users' = Site!Rows(UpdateUserStatus(db, n, s).db.user) /\ Site!SetsStatus(UpdateUserStatus(db, n, s), n, s)
  BY <1>1, <1>3, Zenon DEF Site!CallsHold, Site!StepsHold, Site!ConfirmStatus, Site!At, Users
<1>5. GatesGrow
  BY <1>3 DEF GatesGrow
<1>6. ASSUME NEW u \in Users, u.name = n PROVE Passed(n, u.pw)'
  <2>1. CASE Passed(n, u.pw)
    BY <1>5, <2>1, PassedStays
  <2>2. CASE u.pw = e /\ (Config.manualApproval => n \in approved)
    BY <1>3, <2>2 DEF Passed
  <2> QED
    BY <1>2, <1>6, <2>1, <2>2 DEF Proves
<1>7. \A u \in Users : DOMAIN u = Site!Columns
  BY Zenon DEF Site!CallsHold, Users
<1>8. TableInv' /\ Stays
  BY <1>4, <1>5, <1>6, <1>7, StatusTable DEF GateInv
<1>9. work'[p] = Site!Provisioning(n, s) /\ work' = [work EXCEPT ![p] = work'[p]]
  BY <1>3, Going
<1> QED
  BY <1>3, <1>5, <1>8, <1>9, ProvisioningDue, GateInvKept

\* POST /admin/reg-request/{absid}/approve and disapprove.
LEMMA GateApproveStatus ==
    ASSUME GateInv, Site!CallsHold, NEW p \in Procs, Site!ApproveStatus(p)
    PROVE  GateInv'
<1>1. PICK q, n, a, s, o : /\ q = work[p].req /\ n = q.user /\ o = GetRegistrationRequestByAbsId(db, work[p].id).user
                           /\ a = ApproveRegistrationStatus(db, work[p].id, Config.emailConfirmation)
                           /\ s = IF Config.emailConfirmation THEN "confirm" ELSE "normal"
  OBVIOUS
<1>2. /\ db' = a.db /\ proved' = proved /\ granted' = granted /\ sess' = sess
      /\ approved' = IF a.err = "nil" THEN approved \cup {n} ELSE approved
      /\ Site!Goto(p, IF a.err # "nil" THEN Site!Idle ELSE [at |-> "appDelete", req |-> q, of |-> o])
  BY <1>1 DEF Site!ApproveStatus
<1>3. GatesGrow
  BY <1>2 DEF GatesGrow
<1>4. IF a.err = "nil" THEN Site!SetsStatus(a, n, s) ELSE Site!KeepsUsers(a)
  BY <1>1, Zenon DEF Site!CallsHold, Site!StepsHold, Site!ApproveStatus, Site!At
<1>5. CASE a.err # "nil"
  <2>1. Users' = Users
    BY <1>2, <1>4, <1>5, Zenon DEF Site!KeepsUsers, Users
  <2>2. work'[p] = Site!Idle /\ work' = [work EXCEPT ![p] = work'[p]]
    BY <1>2, <1>5, Going
  <2>3. Due(p)'
    BY <2>2, IdleDue
  <2> QED
    BY <1>2, <1>3, <2>1, <2>2, <2>3, SameTable, Zenon
<1>6. CASE a.err = "nil"
  <2>1. Users' = Site!Rows(a.db.user) /\ Site!SetsStatus(a, n, s)
    BY <1>2, <1>4, <1>6 DEF Users
  <2>2. n \in approved'
    BY <1>2, <1>6
  <2>3. \A pw : s \notin Site!Unusable => Passed(n, pw)'
    BY <1>1, <2>2 DEF Passed, Site!Unusable, Site!Gates
  <2>4. \A u \in Users : DOMAIN u = Site!Columns
    BY Zenon DEF Site!CallsHold, Users
  <2>5. TableInv' /\ Stays
    BY <1>3, <2>1, <2>2, <2>3, <2>4, StatusTable DEF GateInv
  <2>6. PICK r : r = [at |-> "appDelete", req |-> q, of |-> o]
    BY Zenon
  <2>7. work'[p] = r /\ work' = [work EXCEPT ![p] = work'[p]]
    BY <1>2, <1>6, <2>6, Going, Zenon
  <2>8. r.at = "appDelete" /\ r.req.user = n
    BY <1>1, <2>6
  <2>9. Due(p)'
    BY <2>2, <2>7, <2>8 DEF Due
  <2> QED
    BY <1>2, <1>3, <2>5, <2>7, <2>9, GateInvKept
<1> QED
  BY <1>5, <1>6

LEMMA GateApprove ==
    ASSUME GateInv, Site!CallsHold, NEW p \in Procs, (\E id : Site!Approve(p, id)) \/ Site!ApproveDelete(p)
    PROVE  GateInv'
<1>1. UNCHANGED <<approved, proved, granted>> /\ sess' \subseteq sess
  BY Zenon DEF Site!Approve, Site!ApproveDelete, Site!ghosts
<1>2. Users' = Users
  <2>1. CASE Site!ApproveDelete(p)
    <3>1. Site!KeepsUsers(DeleteRequestsOf(db, work[p].of))
      BY <2>1, Zenon DEF Site!CallsHold, Site!StepsHold, Site!ApproveDelete
    <3> QED
      BY <2>1, <3>1, Zenon DEF Site!ApproveDelete, Site!KeepsUsers, Users
  <2>2. CASE \E id : Site!Approve(p, id)
    BY <2>2 DEF Site!Approve, Users
  <2> QED
    BY <2>1, <2>2
<1>3. CASE \E id : Site!Approve(p, id)
  <2>1. PICK r : Site!Goto(p, r) /\ r.at = "appStatus"
    BY <1>3 DEF Site!Approve
  <2>2. work'[p] = r /\ work' = [work EXCEPT ![p] = work'[p]]
    BY <2>1, Going
  <2>3. Due(p)'
    BY <2>1, <2>2, PlainDue DEF Checked
  <2> QED
    BY <1>1, <1>2, <2>2, <2>3, GhostsKept, SameTable
<1>4. CASE Site!ApproveDelete(p)
  <2>1. PICK q : q = work[p].req
    OBVIOUS
  <2>2. q.user \in approved'
    BY <1>1, <1>4, <2>1, Zenon DEF GateInv, Due, Site!ApproveDelete, Site!At
  <2>3. PICK r : Site!Goto(p, r) /\ r = IF Config.emailConfirmation
                                        THEN Site!Sending(q.email, <<"confirm", q.user, q.email>>, Site!Idle)
                                        ELSE [at |-> "appFinal", n |-> q.user]
    BY <1>4, <2>1 DEF Site!ApproveDelete
  <2>4. work'[p] = r /\ work' = [work EXCEPT ![p] = work'[p]]
    BY <2>3, Going, Zenon
  <2>5. \/ r.at = "receipt" /\ r.next = Site!Idle
        \/ ~Config.emailConfirmation /\ r.at = "appFinal" /\ r.n = q.user
    BY <2>3 DEF Site!Sending
  <2>6. Due(p)'
    BY <2>2, <2>4, <2>5, Zenon DEF Due
  <2> QED
    BY <1>1, <1>2, <2>4, <2>6, GhostsKept, SameTable
<1> QED
  BY <1>3, <1>4

LEMMA GateApproveFinal ==
    ASSUME GateInv, Site!CallsHold, NEW p \in Procs, Site!ApproveFinal(p)
    PROVE  GateInv'
<1>1. PICK n, s : n = work[p].n /\ s = Site!FinalStatus
  OBVIOUS
<1>2. UNCHANGED <<approved, proved, granted>> /\ sess' \subseteq sess
  BY DEF Site!ApproveFinal, Site!ghosts
<1>3. db' = UpdateUserStatus(db, n, s).db /\ Site!Goto(p, Site!Provisioning(n, s))
  BY <1>1 DEF Site!ApproveFinal
<1>4. Users' = Site!Rows(UpdateUserStatus(db, n, s).db.user) /\ Site!SetsStatus(UpdateUserStatus(db, n, s), n, s)
  BY <1>1, <1>3, Zenon DEF Site!CallsHold, Site!StepsHold, Site!ApproveFinal, Site!At, Users
<1>5. n \in approved /\ ~Config.emailConfirmation
  BY <1>1, Zenon DEF GateInv, Due, Site!ApproveFinal, Site!At
<1>6. \A pw : Passed(n, pw)'
  BY <1>2, <1>5 DEF Passed
<1>7. \A u \in Users : DOMAIN u = Site!Columns
  BY Zenon DEF Site!CallsHold, Users
<1>8. TableInv' /\ Stays
  BY <1>2, <1>4, <1>6, <1>7, GhostsKept, StatusTable DEF GateInv
<1>9. work'[p] = Site!Provisioning(n, s) /\ work' = [work EXCEPT ![p] = work'[p]]
  BY <1>3, Going
<1> QED
  BY <1>2, <1>8, <1>9, GhostsKept, ProvisioningDue, GateInvKept

LEMMA GateLogin ==
    ASSUME GateInv, Site!CallsHold, NEW n \in Names, Site!Login(n)
    PROVE  GateInv'
<1>1. PICK u : u = GetUserByName(db, n)
  OBVIOUS
<1>2. u \in Users /\ u.name = n /\ u.status \notin Site!Unusable
  BY <1>1, Zenon DEF Site!Login, Site!User, Site!CallsHold, Site!FindsUser, Users
<1>3. Passed(n, u.pw)
  BY <1>2 DEF GateInv, TableInv, Sound
<1>4. \A v \in Users : v.name = n => v = u
  BY <1>2 DEF GateInv, TableInv
<1>5. Safe(n)
  BY <1>2, <1>3, <1>4 DEF Safe, Known
<1>6. UNCHANGED <<work, approved, proved, granted, db>> /\ sess' = sess \cup {n}
  BY DEF Site!Login, Site!ghosts
<1>7. Users' = Users
  BY <1>6 DEF Users
<1>8. \A m \in sess' : Safe(m)
  BY <1>5, <1>6 DEF GateInv
<1> QED
  BY <1>6, <1>7, <1>8, GateAside

LEMMA GateOthers ==
    ASSUME GateInv, Site!CallsHold, NEW p \in Procs,
           \/ Site!Tick
           \/ \E r \in Site!Rows(db.req) : Site!Disapprove(p, r.id)
           \/ \E id : Site!DeleteReceipt(p, id)
           \/ \E n \in Names, e \in People : Site!AddAddress(p, n, e) \/ Site!DeleteAddress(p, n, e)
    PROVE  GateInv'
<1>1. UNCHANGED <<work, approved, proved, granted, sess>>
  BY Zenon DEF Site!Tick, Site!Disapprove, Site!DeleteReceipt, Site!AddAddress, Site!DeleteAddress, Site!ghosts
<1>2. Users' = Users
  <2>1. CASE Site!Tick \/ \E id : Site!DeleteReceipt(p, id)
    BY <2>1, Zenon DEF Site!Tick, Site!DeleteReceipt, Users
  <2>2. CASE \E r \in Site!Rows(db.req) : Site!Disapprove(p, r.id)
    <3>1. PICK r \in Site!Rows(db.req) : Site!Disapprove(p, r.id)
      BY <2>2
    <3>2. Site!KeepsUsers(DisapproveRegistrationRequest(db, r.id))
      BY Zenon DEF Site!CallsHold
    <3> QED
      BY <3>1, <3>2, Zenon DEF Site!Disapprove, Site!KeepsUsers, Users
  <2>3. CASE \E n \in Names, e \in People : Site!AddAddress(p, n, e) \/ Site!DeleteAddress(p, n, e)
    <3>1. PICK n \in Names, e \in People : Site!AddAddress(p, n, e) \/ Site!DeleteAddress(p, n, e)
      BY <2>3
    <3>2. Site!KeepsUsers(AddEmail(db, n, e)) /\ Site!KeepsUsers(DeleteRegisteredEmail(db, n, e))
      BY Zenon DEF Site!CallsHold
    <3> QED
      BY <3>1, <3>2, Zenon DEF Site!AddAddress, Site!DeleteAddress, Site!KeepsUsers, Users
  <2> QED
    BY <2>1, <2>2, <2>3
<1>3. \A n \in sess' : Safe(n)
  BY <1>1 DEF GateInv
<1> QED
  BY <1>1, <1>2, <1>3, GateAside

\* new-user.go and edit_user/info.go: the status is the administrator's.
LEMMA GateNewUser ==
    ASSUME GateInv, Site!CallsHold, NEW p \in Procs, NEW n \in Names, NEW e \in People,
           NEW s \in {"normal", "banned"}, Site!NewUser(p, n, e, s)
    PROVE  GateInv'
<1>1. PICK a : a = RegisterUser(db, n, e, e, s)
  OBVIOUS
<1>2. /\ db' = a.db /\ approved' = approved /\ proved' = proved /\ sess' = sess
      /\ granted' = IF a.err = "nil" THEN granted \cup {n} ELSE granted
      /\ Site!Goto(p, IF a.err = "nil" THEN Site!Provisioning(n, s) ELSE Site!Idle)
  BY <1>1 DEF Site!NewUser
<1>3. GatesGrow /\ Users' = Site!Rows(a.db.user)
  BY <1>2 DEF GatesGrow, Users
<1>4. Site!AddsUser(a, n, e, s)
  BY <1>1, Zenon DEF Site!CallsHold
<1>5. a.err = "nil" => Passed(n, e)'
  BY <1>2 DEF Passed
<1>6. TableInv' /\ Stays
  BY <1>3, <1>4, <1>5, GrownTable DEF GateInv
<1>7. PICK r : Site!Goto(p, r) /\ (r = Site!Provisioning(n, s) \/ r = Site!Idle)
  BY <1>2
<1>8. work'[p] = r /\ work' = [work EXCEPT ![p] = work'[p]]
  BY <1>7, Going
<1>9. Due(p)'
  BY <1>7, <1>8, ProvisioningDue, IdleDue
<1> QED
  BY <1>2, <1>3, <1>6, <1>8, <1>9, GateInvKept

\* The object a form or a handler is about to write back over the row.
LEMMA GateSave ==
    ASSUME GateInv, Site!CallsHold, NEW p \in Procs, Site!EditSave(p) \/ Site!InfoSave(p)
    PROVE  GateInv'
<1>1. PICK row, n : row = work[p].row /\ n = row.name
  OBVIOUS
<1>2. /\ db' = WriteUserInfo(db, n, row).db /\ approved' = approved /\ proved' = proved /\ sess' \subseteq sess
      /\ Site!Goto(p, Site!Idle) /\ work[p].at \in {"editSave", "infoSave"}
  BY <1>1, Zenon DEF Site!EditSave, Site!InfoSave, Site!ghosts, Site!At
<1>3. granted' = granted \cup {n} \/ (granted' = granted /\ Safe(n))
  BY <1>1, Zenon DEF Site!EditSave, Site!InfoSave, Site!ghosts, Site!At, GateInv, Due
<1>4. GatesGrow
  BY <1>2, <1>3, Zenon DEF GatesGrow
<1>5. Users' = {IF u.name = n THEN [name |-> n, email |-> row.email, pw |-> u.pw, status |-> row.status,
                                    tfa |-> row.tfa, info |-> row.info]
                ELSE u : u \in Users}
  BY <1>1, <1>2, Zenon DEF Site!CallsHold, Site!StepsHold, Site!SetsInfo, Users
<1>6. ASSUME NEW u \in Users, u.name = n PROVE Passed(n, u.pw)'
  <2>1. CASE n \in granted'
    BY <2>1 DEF Passed
  <2>2. CASE Safe(n)
    BY <1>4, <1>6, <2>2, PassedStays DEF Safe
  <2> QED
    BY <1>3, <2>1, <2>2
<1>7. TableInv' /\ Stays
  BY <1>4, <1>5, <1>6, InfoTable, Zenon DEF GateInv
<1>8. work'[p] = Site!Idle /\ work' = [work EXCEPT ![p] = work'[p]]
  BY <1>2, Going, Zenon
<1>9. Due(p)'
  BY <1>8, IdleDue
<1> QED
  BY <1>2, <1>4, <1>7, <1>8, <1>9, GateInvKept, Zenon

\* Requests of somebody who is logged in, and the form of the administrator.
LEMMA GateRead ==
    ASSUME GateInv, Site!CallsHold, NEW p \in Procs, NEW n \in Names, NEW e, NEW s, NEW id,
           \/ Site!EditUser(p, n, s) \/ Site!UserInfo(p, n, e) \/ Site!RequestVerify(p, n, e)
           \/ Site!Verify(p, n, id) \/ Site!Primary(p, n, e)
    PROVE  GateInv'
<1>1. UNCHANGED <<approved, proved, granted, sess, db>>
  BY DEF Site!EditUser, Site!UserInfo, Site!RequestVerify, Site!Verify, Site!Primary, Site!ghosts
<1>2. Users' = Users /\ GatesGrow /\ Stays /\ sess' \subseteq sess
  BY <1>1, GhostsKept, TableKept DEF Users, GateInv
<1>3. n \in sess => Safe(n)'
  BY <1>2, SafeStays DEF GateInv
<1>4. PICK u : u = GetUserByName(db, n)
  OBVIOUS
<1>5. u # Null => u.name = n /\ DOMAIN u = Site!Columns
  BY <1>4, Zenon DEF Site!CallsHold, Site!FindsUser, Site!User
<1>6. \/ UNCHANGED work /\ work[p] = Site!Idle
      \/ \E r : /\ Site!Goto(p, r)
                /\ \/ r.at \in {"editSave", "verify"}
                   \/ r.at = "receipt" /\ r.next = Site!Idle
                   \/ r.at = "infoSave" /\ r.row.name = n /\ n \in sess
                   \/ r.at = "primary" /\ r.n = n /\ n \in sess
  <2>1. CASE Site!EditUser(p, n, s)
    BY <2>1 DEF Site!EditUser
  <2>2. CASE Site!UserInfo(p, n, e)
    <3>1. n \in sess /\ u # Null /\ Site!Goto(p, [at |-> "infoSave", row |-> [u EXCEPT !.email = e], revoke |-> TRUE])
      BY <1>4, <2>2 DEF Site!UserInfo, Site!LoggedIn, Site!User
    <3>2. [u EXCEPT !.email = e].name = n
      BY <1>5, <3>1 DEF Site!Columns
    <3>3. PICK row, r : row = [u EXCEPT !.email = e] /\ r = [at |-> "infoSave", row |-> row, revoke |-> TRUE]
      BY Zenon
    <3>4. Site!Goto(p, r)
      BY <3>1, <3>3, Zenon
    <3>5. r.at = "infoSave" /\ r.row.name = n
      BY <3>2, <3>3, Zenon
    <3> QED
      BY <3>1, <3>4, <3>5
  <2>3. CASE Site!RequestVerify(p, n, e)
    <3>1. PICK r : r = Site!Sending(e, <<"verify", n, e>>, Site!Idle)
      OBVIOUS
    <3>2. r.at = "receipt" /\ r.next = Site!Idle
      BY <3>1 DEF Site!Sending
    <3>3. Site!Goto(p, r)
      BY <2>3, <3>1, Zenon DEF Site!RequestVerify
    <3> QED
      BY <3>2, <3>3, Zenon
  <2>4. CASE Site!Verify(p, n, id)
    <3>1. CASE UNCHANGED work
      BY <2>4, <3>1, Zenon DEF Site!Verify, Site!LoggedIn, Site!Arrive
    <3>2. CASE \E c : Site!Goto(p, [at |-> "verify", id |-> id, n |-> n, command |-> c])
      BY <3>2
    <3>3. UNCHANGED work \/ \E c : Site!Goto(p, [at |-> "verify", id |-> id, n |-> n, command |-> c])
      BY <2>4, Zenon DEF Site!Verify
    <3> QED
      BY <3>1, <3>2, <3>3
  <2>5. CASE Site!Primary(p, n, e)
    <3>1. Site!Goto(p, [at |-> "primary", n |-> n, e |-> e]) /\ n \in sess
      BY <2>5, Zenon DEF Site!Primary, Site!LoggedIn
    <3> QED
      BY <3>1
  <2> QED
    BY <2>1, <2>2, <2>3, <2>4, <2>5, Zenon
<1>7. CASE UNCHANGED work /\ work[p] = Site!Idle
  <2>1. \A m \in sess' : Safe(m)
    BY <1>1 DEF GateInv
  <2> QED
    BY <1>1, <1>2, <1>7, <2>1, GateAside
<1>8. CASE \E r : /\ Site!Goto(p, r)
                  /\ \/ r.at \in {"editSave", "verify"}
                     \/ r.at = "receipt" /\ r.next = Site!Idle
                     \/ r.at = "infoSave" /\ r.row.name = n /\ n \in sess
                     \/ r.at = "primary" /\ r.n = n /\ n \in sess
  <2>1. PICK r : /\ Site!Goto(p, r)
                 /\ \/ r.at \in {"editSave", "verify"}
                    \/ r.at = "receipt" /\ r.next = Site!Idle
                    \/ r.at = "infoSave" /\ r.row.name = n /\ n \in sess
                    \/ r.at = "primary" /\ r.n = n /\ n \in sess
    BY <1>8, Zenon
  <2>2. work'[p] = r /\ work' = [work EXCEPT ![p] = work'[p]]
    BY <2>1, Going, Zenon
  <2>3. Due(p)'
    BY <1>3, <2>1, <2>2, Zenon DEF Due
  <2> QED
    BY <1>2, <2>2, <2>3, SameTable
<1> QED
  BY <1>6, <1>7, <1>8, Zenon

LEMMA GateEmails ==
    ASSUME GateInv, Site!CallsHold, NEW p \in Procs, Site!VerifyEmail(p) \/ Site!PrimaryRead(p)
    PROVE  GateInv'
<1>1. UNCHANGED <<approved, proved, granted, sess>>
  BY DEF Site!VerifyEmail, Site!PrimaryRead, Site!ghosts
<1>2. Users' = Users
  <2>1. CASE Site!VerifyEmail(p)
    <3>1. Site!KeepsUsers(VerifyRegisteredEmail(db, work[p].command[2], work[p].command[3]))
      BY <2>1, Zenon DEF Site!CallsHold, Site!StepsHold, Site!VerifyEmail
    <3> QED
      BY <2>1, <3>1, Zenon DEF Site!VerifyEmail, Site!KeepsUsers, Users
  <2>2. CASE Site!PrimaryRead(p)
    BY <2>2 DEF Site!PrimaryRead, Users
  <2> QED
    BY <2>1, <2>2
<1>3. GatesGrow /\ Stays /\ sess' \subseteq sess
  BY <1>1, <1>2, GhostsKept, TableKept DEF GateInv
<1>4. \E r : /\ Site!Goto(p, r)
             /\ r.at = "idle" \/ (r.at = "infoSave" /\ Safe(r.row.name))
  <2>1. CASE Site!VerifyEmail(p)
    <3>1. Site!Goto(p, Site!Idle) /\ Site!Idle.at = "idle"
      BY <2>1, Zenon DEF Site!VerifyEmail, Site!Idle
    <3> QED
      BY <3>1
  <2>2. CASE Site!PrimaryRead(p)
    <3>1. PICK n, e, u : n = work[p].n /\ e = work[p].e /\ u = GetUserByName(db, n)
      OBVIOUS
    <3>2. Site!Goto(p, IF u = Null THEN Site!Idle ELSE [at |-> "infoSave", row |-> [u EXCEPT !.email = e], revoke |-> FALSE])
      BY <2>2, <3>1 DEF Site!PrimaryRead, Site!User
    <3>3. Safe(n)
      BY <2>2, <3>1 DEF GateInv, Due, Site!PrimaryRead, Site!At
    <3>4. u # Null => u.name = n /\ DOMAIN u = Site!Columns
      BY <2>2, <3>1 DEF Site!PrimaryRead, Site!At, Site!CallsHold, Site!StepsHold, Site!FindsUser, Site!User
    <3>5. CASE u = Null
      BY <3>2, <3>5 DEF Site!Idle
    <3>6. CASE u # Null
      <4>1. [u EXCEPT !.email = e].name = n
        BY <3>4, <3>6 DEF Site!Columns
      <4>2. PICK row, r : row = [u EXCEPT !.email = e] /\ r = [at |-> "infoSave", row |-> row, revoke |-> FALSE]
        BY Zenon
      <4>3. Site!Goto(p, r)
        BY <3>2, <3>6, <4>2, Zenon
      <4>4. r.at = "infoSave" /\ r.row.name = n
        BY <4>1, <4>2, Zenon
      <4> QED
        BY <3>3, <4>3, <4>4
    <3> QED
      BY <3>5, <3>6
  <2> QED
    BY <2>1, <2>2
<1>5. PICK r : Site!Goto(p, r) /\ (r.at = "idle" \/ (r.at = "infoSave" /\ Safe(r.row.name)))
  BY <1>4
<1>6. work'[p] = r /\ work' = [work EXCEPT ![p] = work'[p]]
  BY <1>5, Going
<1>7. r.at = "infoSave" => Safe(r.row.name)'
  BY <1>3, <1>5, SafeStays
<1>8. Due(p)'
  BY <1>5, <1>6, <1>7, Zenon DEF Due
<1> QED
  BY <1>2, <1>3, <1>6, <1>8, SameTable

LEMMA GateInvInit ==
    ASSUME GateAssumption, Site!Init
    PROVE  GateInv
<1>1. Users = {}
  BY DEF GateAssumption, Site!Init, Site!Rows, Users
<1>2. work = [p \in Procs |-> Site!Idle] /\ sess = {}
  BY DEF Site!Init
<1>3. ASSUME NEW p \in Procs PROVE Due(p)
  <2>1. work[p].at = "idle"
    BY <1>2 DEF Site!Idle
  <2> QED
    BY <2>1 DEF Due
<1> QED
  BY <1>1, <1>2, <1>3 DEF GateInv, TableInv

LEMMA GateInvStep ==
    ASSUME GateAssumption, GateInv, Site!CallsHold, [Site!Next]_(Site!vars)
    PROVE  GateInv'
<1>1. CASE UNCHANGED Site!vars
  <2>1. UNCHANGED <<work, approved, proved, granted, db, sess>>
    BY <1>1 DEF Site!vars, Site!ghosts
  <2>2. Users' = Users /\ \A n \in sess' : Safe(n)
    BY <2>1 DEF Users, GateInv
  <2> QED
    BY <2>1, <2>2, GateAside
<1>2. CASE Site!Tick
  <2>1. UNCHANGED <<work, approved, proved, granted, db, sess>>
    BY <1>2 DEF Site!Tick, Site!ghosts
  <2>2. Users' = Users /\ \A n \in sess' : Safe(n)
    BY <2>1 DEF Users, GateInv
  <2> QED
    BY <2>1, <2>2, GateAside
<1>3. CASE \E n \in Names : Site!Login(n)
  BY <1>3, GateLogin
<1>4. ASSUME NEW p \in Procs,
             \/ Site!Provision(p) \/ Site!IssueAndMail(p)
             \/ Site!RegisterCheckNamespace(p) \/ Site!RegisterRequest(p) \/ Site!RegisterPending(p) \/ Site!RegisterAccount(p)
             \/ Site!ConfirmCancel(p) \/ Site!ConfirmStatus(p)
             \/ Site!ApproveStatus(p) \/ Site!ApproveDelete(p) \/ Site!ApproveFinal(p)
             \/ Site!EditSave(p) \/ Site!InfoSave(p) \/ Site!VerifyEmail(p) \/ Site!PrimaryRead(p)
      PROVE  GateInv'
  BY <1>4, GateProvision, GateRegister, GatePending, GateAccount, GateConfirm, GateConfirmStatus,
     GateApproveStatus, GateApprove, GateApproveFinal, GateSave, GateEmails
<1>5. ASSUME NEW p \in Procs,
             \/ \E e \in People : Site!ConfirmUser(p, e)
             \/ \E r \in Site!Rows(db.req) : Site!Approve(p, r.id) \/ Site!Disapprove(p, r.id)
             \/ \E m \in mail : Site!Confirm(p, m.id) \/ Site!DeleteReceipt(p, m.id)
      PROVE  GateInv'
  BY <1>5, GateConfirmUser, GateApprove, GateOthers, GateConfirm
<1>6. ASSUME NEW p \in Procs, NEW n \in Names,
             \/ Site!DeleteUser(p, n)
             \/ \E s \in {"normal", "banned"} : Site!EditUser(p, n, s) \/ \E e \in People : Site!NewUser(p, n, e, s)
             \/ \E m \in mail : Site!Verify(p, n, m.id)
      PROVE  GateInv'
  <2>1. ~Site!DeleteUser(p, n)
    BY Zenon DEF GateAssumption, Site!DeleteUser, Site!Arrive
  <2> QED
    BY <1>6, <2>1, GateNewUser, GateRead
<1>7. ASSUME NEW p \in Procs, NEW n \in Names, NEW e \in People,
             \/ Site!Register(p, n, e) \/ Site!UserInfo(p, n, e)
             \/ Site!AddAddress(p, n, e) \/ Site!DeleteAddress(p, n, e) \/ Site!RequestVerify(p, n, e) \/ Site!Primary(p, n, e)
      PROVE  GateInv'
  BY <1>7, GateRegister, GateRead, GateOthers
<1> QED
  BY <1>1, <1>2, <1>3, <1>4, <1>5, <1>6, <1>7 DEF Site!Next

\* Registration, approval, confirmation and the forms of users and administrators,
\* in any number and order: an account that may log in was approved and confirmed
\* as the configuration asks, or got its status from an administrator, as long as
\* none is deleted and the calls change the table of users as CallsHold says.
THEOREM GatesAreKept ==
    ASSUME GateAssumption
    PROVE  Site!Spec /\ []Site!CallsHold => []Site!GatesPassed
<1>1. Site!Init => GateInv
  BY GateInvInit
<1>2. GateInv /\ Site!CallsHold /\ [Site!Next]_(Site!vars) => GateInv'
  BY GateInvStep
<1>3. GateInv => Site!GatesPassed
  BY DEF GateInv, TableInv, Sound, Passed, Users, Site!GatesPassed
<1> QED
  BY <1>1, <1>2, <1>3, PTL DEF Site!Spec
====
