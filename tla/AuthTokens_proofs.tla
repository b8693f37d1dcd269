-------------------------- MODULE AuthTokens_proofs --------------------------
(***************************************************************************)
(* Proofs about AuthTokens, for any number of overlapping requests,        *)
(* sessions, mail tokens, changes of the password and failures: types,     *)
(* which sessions outlive a revocation of all of them, that rotation       *)
(* replaces what it spends, and what the throttle of the mails lets by.    *)
(***************************************************************************)
EXTENDS AuthTokens, TLAPS, FiniteSetTheorems

-----------------------------------------------------------------------------
(* Types *)

Ops == {"signup", "login", "refresh", "verifyEmail", "resend", "forgotPassword",
        "resetPassword", "setPassword", "deactivate"}
Ats == {"create user", "create token", "create session", "revoke", "verify user",
        "use token", "read last token", "set password", "revoke all", "write"}

\* The part of TypeOK about the requests.
HoldsToken(q) ==
  /\ q.op = "login" => q.token = 0
  /\ q.op = "refresh" => q.token \in Sessions
  /\ q.op \in {"verifyEmail", "resetPassword"} => q.token \in MailTokens

ReqOK ==
  /\ req \in [Requests -> RequestRow \cup {Idle}]
  /\ \A r \in Requests : InFlight(r) => HoldsToken(req[r])

\* The part about the tables.
TablesOK ==
  /\ user \in UserRow
  /\ session \in [Sessions -> SessionRow]
  /\ mailToken \in [MailTokens -> MailTokenRow]
  /\ group \in Groups
  /\ cut \in 0..MaxPasswords
  /\ failures \in 0..MaxFailures

LEMMA TypeParts == TypeOK <=> ReqOK /\ TablesOK
  BY DEF TypeOK, ReqOK, TablesOK, HoldsToken

LEMMA TypePartsNext == TypeOK' <=> ReqOK' /\ TablesOK'
  BY TypeParts, PTL

LEMMA RequestType ==
  ASSUME NEW op \in Ops, NEW at \in Ats, NEW token \in Nat, NEW password \in 0..MaxPasswords
  PROVE  /\ Request(op, at, token, password) \in RequestRow
         /\ Request(op, at, token, password).op = op
         /\ Request(op, at, token, password).token = token
         /\ Request(op, at, token, password).password = password
  BY DEF Request, RequestRow, Ops, Ats

LEMMA BeginsType ==
  ASSUME ReqOK, NEW r \in Requests, NEW q \in RequestRow, HoldsToken(q), Begins(r, q)
  PROVE  ReqOK'
  BY DEF ReqOK, Begins, InFlight

LEMMA GoesToType ==
  ASSUME ReqOK, NEW r \in Requests, InFlight(r), NEW at \in Ats, GoesTo(r, at)
  PROVE  ReqOK'
  <1>1. req[r] \in RequestRow
    BY DEF ReqOK, InFlight
  <1>2. [req[r] EXCEPT !.at = at] \in RequestRow
    BY <1>1 DEF RequestRow, Ats
  <1>3. /\ [req[r] EXCEPT !.at = at].op = req[r].op
        /\ [req[r] EXCEPT !.at = at].token = req[r].token
    BY <1>1 DEF RequestRow
  <1>4. HoldsToken([req[r] EXCEPT !.at = at])
    BY <1>3 DEF ReqOK, HoldsToken
  <1>5. req' = [req EXCEPT ![r] = [req[r] EXCEPT !.at = at]]
    BY DEF GoesTo, ReqOK
  <1> QED
    BY <1>2, <1>4, <1>5 DEF ReqOK, InFlight

LEMMA EndsType == ASSUME ReqOK, NEW r \in Requests, Ends(r) PROVE ReqOK'
  BY DEF ReqOK, Ends, InFlight

LEMMA OvertakeType == ASSUME ReqOK, NEW r \in Requests, Overtake(r) PROVE ReqOK'
  <1>1. ASSUME NEW q \in Requests, InFlight(q)
        PROVE  /\ [req[q] EXCEPT !.overtaken = TRUE] \in RequestRow
               /\ HoldsToken([req[q] EXCEPT !.overtaken = TRUE])
    <2>1. req[q] \in RequestRow
      BY <1>1 DEF ReqOK, InFlight
    <2>2. /\ [req[q] EXCEPT !.overtaken = TRUE] \in RequestRow
          /\ [req[q] EXCEPT !.overtaken = TRUE].op = req[q].op
          /\ [req[q] EXCEPT !.overtaken = TRUE].token = req[q].token
      BY <2>1 DEF RequestRow
    <2> QED
      BY <1>1, <2>2 DEF ReqOK, HoldsToken
  <1>2. req' = [q \in Requests |->
                  IF q = r \/ ~InFlight(q) THEN Idle ELSE [req[q] EXCEPT !.overtaken = TRUE]]
    BY DEF Overtake
  <1> QED
    BY <1>1, <1>2 DEF ReqOK, InFlight

\* An unchanged request table stays well typed.
LEMMA SameReqType == ASSUME ReqOK, UNCHANGED req PROVE ReqOK'
  BY DEF ReqOK, InFlight

-----------------------------------------------------------------------------
(* The tables *)

LEMMA UserType ==
  ASSUME TablesOK, NEW p \in 0..MaxPasswords,
         NEW s \in {"ABSENT", "LIVE", "DELETED", "REMOVED"}, NEW b \in BOOLEAN
  PROVE  /\ [user EXCEPT !.password = p] \in UserRow
         /\ [user EXCEPT !.state = s] \in UserRow
         /\ [user EXCEPT !.state = s, !.verified = b] \in UserRow
         /\ [user EXCEPT !.verified = b] \in UserRow
         /\ [user EXCEPT !.aged = b] \in UserRow
  BY DEF TablesOK, UserRow

LEMMA NewPasswordType ==
  ASSUME TablesOK, NewPassword
  PROVE  /\ user' \in UserRow
         /\ user'.password >= user.password
         /\ user'.state = user.state
  <1>1. user.password \in 0..MaxPasswords /\ MaxPasswords \in Nat
    BY BoundsAssumption DEF TablesOK, UserRow
  <1>2. CASE UNCHANGED user
    BY <1>1, <1>2 DEF TablesOK
  <1>3. CASE user.password < MaxPasswords /\ SetPasswordTo(user.password + 1)
    <2>1. user.password + 1 \in 0..MaxPasswords
      BY <1>1, <1>3
    <2>2. user' = [user EXCEPT !.password = user.password + 1]
      BY <1>3 DEF SetPasswordTo
    <2>3. user' \in UserRow
      BY <2>1, <2>2, UserType
    <2> QED
      BY <1>1, <2>2, <2>3 DEF TablesOK, UserRow
  <1> QED
    BY <1>2, <1>3 DEF NewPassword

\* What a step may do to the sessions without making one.
SessionsOnlyEnd ==
  /\ session' \in [Sessions -> SessionRow]
  /\ \A s \in Sessions :
       /\ session'[s].password = session[s].password
       /\ session'[s].late = session[s].late
       /\ session[s].status # "NONE" => session'[s].status # "NONE"
       /\ session'[s].status = "VALID" => session[s].status = "VALID"

LEMMA SameSessions == ASSUME TablesOK, UNCHANGED session PROVE SessionsOnlyEnd
  BY DEF TablesOK, SessionsOnlyEnd

LEMMA SessionEnds ==
  ASSUME TablesOK, NEW s \in Sessions
  PROVE  /\ session' = [session EXCEPT ![s].status = "REVOKED"] => SessionsOnlyEnd
         /\ session' = [session EXCEPT ![s].status = "REVOKED", ![s].rotated = TRUE] => SessionsOnlyEnd
  BY DEF TablesOK, SessionsOnlyEnd, SessionRow

LEMMA AllRevoked ==
  ASSUME TablesOK, RevokeAll
  PROVE  SessionsOnlyEnd /\ \A s \in Sessions : session'[s].status # "VALID"
  BY DEF TablesOK, RevokeAll, SessionsOnlyEnd, SessionRow

LEMMA CreateMailTokenType ==
  ASSUME TablesOK, NEW tokens \in SUBSET MailTokens, NEW age \in {"recent", "old", "expired"},
         CreateMailToken(tokens, age)
  PROVE  mailToken' \in [MailTokens -> MailTokenRow]
  BY DEF TablesOK, CreateMailToken, NextMailToken, MailTokenRow

LEMMA TokenSets ==
  /\ VerifyTokens \subseteq MailTokens /\ ResetTokens \subseteq MailTokens
  /\ Sessions \subseteq Nat /\ MailTokens \subseteq Nat
  BY BoundsAssumption DEF VerifyTokens, ResetTokens, MailTokens, Sessions

-----------------------------------------------------------------------------
(* Every step keeps the types *)

\* A request that starts at a statement of its handler, with the token it has read.
LEMMA StartType ==
  ASSUME TypeOK, NEW r \in Requests, NEW op \in Ops, NEW at \in Ats,
         NEW token \in Nat, NEW password \in 0..MaxPasswords,
         op = "login" => token = 0,
         op = "refresh" => token \in Sessions,
         op \in {"verifyEmail", "resetPassword"} => token \in MailTokens,
         Begins(r, Request(op, at, token, password)),
         UNCHANGED <<user, session, mailToken, group, cut, failures>>
  PROVE  TypeOK'
  <1>1. ReqOK'
    BY RequestType, BeginsType, TypeParts DEF HoldsToken
  <1>2. TablesOK'
    BY TypeParts DEF TablesOK
  <1> QED
    BY <1>1, <1>2, TypePartsNext

LEMMA BeginType == ASSUME TypeOK, NEW r \in Requests, Begin(r) PROVE TypeOK'
  <1>1. user.password \in 0..MaxPasswords /\ 0 \in 0..MaxPasswords
    BY BoundsAssumption DEF TypeOK, UserRow
  <1>2. CASE SignupFinds(r)
    BY <1>1, <1>2, StartType DEF SignupFinds, Ops, Ats
  <1>3. CASE VerifyFinds(r)
    <2>1. PICK m \in VerifyTokens : Begins(r, Request("verifyEmail", "verify user", m, 0))
      BY <1>3 DEF VerifyFinds
    <2>2. m \in MailTokens /\ m \in Nat
      BY TokenSets
    <2> QED
      BY <1>1, <1>3, <2>1, <2>2, StartType DEF VerifyFinds, Ops, Ats
  <1>4. CASE ResendFinds(r)
    BY <1>1, <1>4, StartType DEF ResendFinds, Ops, Ats
  <1>5. CASE LoginChecks(r)
    BY <1>1, <1>5, StartType DEF LoginChecks, Ops, Ats
  <1>6. CASE RefreshFinds(r)
    <2>1. PICK s \in Sessions :
            Begins(r, Request("refresh", "revoke", s, session[s].password))
      BY <1>6 DEF RefreshFinds
    <2>2. s \in Nat /\ session[s].password \in 0..MaxPasswords
      BY TokenSets DEF TypeOK, SessionRow
    <2> QED
      BY <1>6, <2>1, <2>2, StartType DEF RefreshFinds, Ops, Ats
  <1>7. CASE ForgotFinds(r)
    BY <1>1, <1>7, StartType DEF ForgotFinds, Ops, Ats
  <1>8. CASE ResetFinds(r)
    <2>1. PICK m \in ResetTokens : Begins(r, Request("resetPassword", "set password", m, 0))
      BY <1>8 DEF ResetFinds
    <2>2. m \in MailTokens /\ m \in Nat
      BY TokenSets
    <2> QED
      BY <1>1, <1>8, <2>1, <2>2, StartType DEF ResetFinds, Ops, Ats
  <1>9. CASE SetPasswordAuthorized(r)
    BY <1>1, <1>9, StartType DEF SetPasswordAuthorized, Ops, Ats
  <1>10. CASE DeactivateFinds(r)
    BY <1>1, <1>10, StartType DEF DeactivateFinds, Ops, Ats
  <1> QED
    BY <1>2, <1>3, <1>4, <1>5, <1>6, <1>7, <1>8, <1>9, <1>10 DEF Begin

\* The session that the last step of login and of refresh writes.
NewSession(q) == [status |-> "VALID", rotated |-> FALSE, parent |-> q.token,
                  password |-> q.password, late |-> Late(q)]

LEMMA NewSessionType ==
  ASSUME TypeOK, NEW r \in Requests, CreateSession(r)
  PROVE  /\ session' \in [Sessions -> SessionRow]
         /\ \E s \in Sessions : /\ session[s].status = "NONE"
                               /\ session' = [session EXCEPT ![s] = NewSession(req[r])]
         /\ req[r] \in RequestRow /\ InFlight(r)
         /\ req[r].op = "login" \/ req[r].op = "refresh"
  <1>1. req[r] \in RequestRow /\ InFlight(r)
    BY DEF TypeOK, CreateSession, At, InFlight
  <1>2. req[r].op = "login" \/ req[r].op = "refresh"
    BY DEF CreateSession, At
  <1>3. req[r].token = 0 \/ req[r].token \in Sessions
    BY <1>1, <1>2 DEF TypeOK
  <1>4. req[r].token \in 0..MaxSessions
    BY <1>3, BoundsAssumption DEF Sessions
  <1>5. Late(req[r]) \in {"no", "itself", "descends"}
    BY DEF Late
  <1>6. req[r].password \in 0..MaxPasswords
    BY <1>1 DEF RequestRow
  <1>7. NewSession(req[r]) \in SessionRow
    BY <1>4, <1>5, <1>6 DEF NewSession, SessionRow
  <1>8. PICK s \in Sessions : /\ session[s].status = "NONE"
                             /\ session' = [session EXCEPT ![s] = NewSession(req[r])]
    BY DEF CreateSession, NewSession, NextSession
  <1>9. session' \in [Sessions -> SessionRow]
    BY <1>7, <1>8 DEF TypeOK
  <1> QED
    BY <1>1, <1>2, <1>8, <1>9

LEMMA ContinueType == ASSUME TypeOK, NEW r \in Requests, Continue(r) PROVE TypeOK'
  <1> ReqOK /\ TablesOK
    BY TypeParts
  <1> SUFFICES ReqOK' /\ TablesOK'
    BY TypePartsNext
  <1>0. Ends(r) => ReqOK'
    BY EndsType
  <1>1. CASE SignupCreatesUser(r)
    <2>1. user' \in UserRow
      BY <1>1, UserType DEF SignupCreatesUser, TablesOK
    <2>2. ReqOK'
      BY <1>1, EndsType, GoesToType DEF SignupCreatesUser, At, Ats
    <2> QED
      BY <1>1, <2>1, <2>2 DEF SignupCreatesUser, TablesOK
  <1>2. CASE SignupCreatesToken(r)
    BY <1>0, <1>2, CreateMailTokenType, TokenSets DEF SignupCreatesToken, TablesOK
  <1>3. CASE CreateSession(r)
    BY <1>0, <1>3, NewSessionType DEF CreateSession, TablesOK
  <1>4. CASE RefreshRevokes(r)
    <2>1. req[r].token \in Sessions
      BY <1>4 DEF RefreshRevokes, At, ReqOK, HoldsToken
    <2>2. session' \in [Sessions -> SessionRow]
      BY <1>4, <2>1, SessionEnds DEF RefreshRevokes, SessionsOnlyEnd
    <2>3. ReqOK'
      BY <1>4, GoesToType DEF RefreshRevokes, At, Ats
    <2> QED
      BY <1>4, <2>2, <2>3 DEF RefreshRevokes, TablesOK
  <1>5. CASE VerifyUser(r)
    <2>1. user' \in UserRow
      BY <1>5, UserType DEF VerifyUser, TablesOK
    <2>2. ReqOK'
      BY <1>5, EndsType, GoesToType DEF VerifyUser, At, Ats
    <2> QED
      BY <1>5, <2>1, <2>2 DEF VerifyUser, TablesOK
  <1>6. CASE UseToken(r)
    <2>1. mailToken' \in [MailTokens -> MailTokenRow]
      BY <1>6 DEF UseToken, At, ReqOK, HoldsToken, TablesOK, MailTokenRow
    <2>2. ReqOK'
      BY <1>6, EndsType, GoesToType DEF UseToken, At, Ats
    <2> QED
      BY <1>6, <2>1, <2>2 DEF UseToken, TablesOK
  <1>7. CASE ResendReadsLastToken(r)
    <2>1. ReqOK'
      BY <1>7, EndsType, GoesToType DEF ResendReadsLastToken, At, Ats
    <2> QED
      BY <1>7, <2>1 DEF ResendReadsLastToken, TablesOK
  <1>8. CASE ResendOrForgotCreates(r)
    BY <1>0, <1>8, CreateMailTokenType, TokenSets DEF ResendOrForgotCreates, TablesOK
  <1>9. CASE ResetSetsPassword(r)
    <2>1. ReqOK'
      BY <1>9, GoesToType DEF ResetSetsPassword, At, Ats
    <2> QED
      BY <1>9, <2>1, NewPasswordType DEF ResetSetsPassword, TablesOK
  <1>10. CASE ResetRevokesAll(r)
    BY <1>10, OvertakeType, AllRevoked DEF ResetRevokesAll, SessionsOnlyEnd, TablesOK, UserRow
  <1>11. CASE SetPassword(r)
    BY <1>0, <1>11, NewPasswordType DEF SetPassword, TablesOK
  <1>12. CASE DeactivateMyAccount(r)
    <2>1. user' \in UserRow
      BY <1>12 DEF DeactivateMyAccount, TablesOK, UserRow
    <2>2. mailToken' \in [MailTokens -> MailTokenRow]
      BY <1>12 DEF DeactivateMyAccount, UseAllTokens, TablesOK, MailTokenRow
    <2>3. session' \in [Sessions -> SessionRow] /\ ReqOK'
      BY <1>12, OvertakeType, AllRevoked DEF DeactivateMyAccount, SessionsOnlyEnd
    <2> QED
      BY <1>12, <2>1, <2>2, <2>3 DEF DeactivateMyAccount, TablesOK, UserRow
  <1> QED
    BY <1>1, <1>2, <1>3, <1>4, <1>5, <1>6, <1>7, <1>8, <1>9, <1>10, <1>11, <1>12
    DEF Continue

LEMMA BackgroundType == ASSUME TypeOK, Background PROVE TypeOK'
  <1> ReqOK /\ TablesOK
    BY TypeParts
  <1> SUFFICES ReqOK' /\ TablesOK'
    BY TypePartsNext
  <1>1. CASE CleanupUnverifiedUsers
    BY <1>1, SameReqType, UserType
    DEF CleanupUnverifiedUsers, TablesOK, MailTokenRow, NoMailToken
  <1>2. CASE CleanupExpiredVerificationTokens
    BY <1>2, SameReqType
    DEF CleanupExpiredVerificationTokens, TablesOK, MailTokenRow, NoMailToken
  <1>3. CASE AccountAges
    BY <1>3, SameReqType, UserType DEF AccountAges, TablesOK
  <1>4. ASSUME NEW m \in MailTokens, MailTokenAges(m)
        PROVE  ReqOK' /\ TablesOK'
    BY <1>4, SameReqType DEF MailTokenAges, TablesOK, MailTokenRow
  <1> QED
    BY <1>1, <1>2, <1>3, <1>4 DEF Background

LEMMA TypeStep == ASSUME TypeOK, [Next]_vars PROVE TypeOK'
  <1> ReqOK /\ TablesOK
    BY TypeParts
  <1>1. CASE Logout
    BY <1>1, TypePartsNext, SameReqType, SessionEnds DEF Logout, TablesOK, SessionsOnlyEnd
  <1>2. ASSUME NEW r \in Requests, Dies(r) PROVE TypeOK'
    <2>1. failures' \in 0..MaxFailures
      BY <1>2, BoundsAssumption DEF Dies, TablesOK
    <2> QED
      BY <1>2, <2>1, TypePartsNext, EndsType DEF Dies, TablesOK
  <1>3. CASE UNCHANGED vars
    BY <1>3, TypePartsNext, SameReqType DEF vars, TablesOK
  <1> QED
    BY <1>1, <1>2, <1>3, BeginType, ContinueType, BackgroundType DEF Next

\* The rows of the account and every request that works on it keep their types, and a
\* request never holds a token that was not there to be read (services/auth/index.js).
THEOREM TypeCorrect == Spec => []TypeOK
  <1>1. Init => TypeOK
    BY BoundsAssumption
    DEF Init, TypeOK, UserRow, SessionRow, NoSession, MailTokenRow, NoMailToken, Groups, InFlight
  <1> QED
    BY <1>1, TypeStep, PTL DEF Spec

-----------------------------------------------------------------------------
(* Which sessions outlive a revocation of all of them *)

\* What an unfinished login or refresh carries: nothing older than the last revocation of
\* all sessions unless it was overtaken by it, or goes back to a session that was.
Fits(q) ==
  /\ q.op = "login" /\ ~q.overtaken => q.password >= cut
  /\ q.op = "refresh" =>
       /\ session[q.token].status # "NONE"
       /\ session[q.token].password = q.password
       /\ ~q.overtaken /\ session[q.token].late = "no" => q.password >= cut
  /\ q.op \in {"login", "refresh"} /\ user.state = "DELETED" => q.overtaken

RequestsFit == \A r \in Requests : InFlight(r) => Fits(req[r])

IInv ==
  /\ TypeOK
  /\ cut <= user.password
  /\ RequestsFit
  /\ SurvivorsWereInFlight
  /\ DeactivatedIsOut

\* Every step but those of a login, of a refresh and of a revocation of all sessions.
Quiet ==
  /\ SessionsOnlyEnd
  /\ cut' = cut
  /\ user'.password >= user.password
  /\ user'.state = "DELETED" => user.state = "DELETED"

\* Unfinished logins and refreshes of the next state were there with the same data.
NoneIsNew ==
  \A r \in Requests : InFlight(r)' /\ req'[r].op \in {"login", "refresh"} =>
    /\ InFlight(r)
    /\ req'[r].op = req[r].op /\ req'[r].token = req[r].token
    /\ req'[r].password = req[r].password /\ req'[r].overtaken = req[r].overtaken

\* The properties of the sessions hold as long as none is made and none is revoked in
\* bulk.
LEMMA QuietSessions ==
  ASSUME IInv, TypeOK', Quiet
  PROVE  cut' <= user'.password /\ SurvivorsWereInFlight' /\ DeactivatedIsOut'
  <1>1. user.password \in Nat /\ user'.password \in Nat /\ cut \in Nat
    BY BoundsAssumption DEF IInv, TypeOK, UserRow
  <1>2. cut' <= user'.password
    BY <1>1 DEF IInv, Quiet
  <1>3. SurvivorsWereInFlight'
    BY DEF IInv, SurvivorsWereInFlight, Quiet, SessionsOnlyEnd
  <1>4. DeactivatedIsOut'
    BY DEF IInv, DeactivatedIsOut, Quiet, SessionsOnlyEnd
  <1> QED
    BY <1>2, <1>3, <1>4

\* A request that was there before still fits after a quiet step.
LEMMA StillFits ==
  ASSUME IInv, Quiet, NEW r \in Requests, InFlight(r)
  PROVE  /\ req[r].op = "login" /\ ~req[r].overtaken => req[r].password >= cut'
         /\ req[r].op = "refresh" =>
              /\ session'[req[r].token].status # "NONE"
              /\ session'[req[r].token].password = req[r].password
              /\ ~req[r].overtaken /\ session'[req[r].token].late = "no"
                   => req[r].password >= cut'
         /\ req[r].op \in {"login", "refresh"} /\ user'.state = "DELETED" => req[r].overtaken
  <1>1. Fits(req[r])
    BY DEF IInv, RequestsFit
  <1>2. req[r].op = "refresh" => req[r].token \in Sessions
    BY DEF IInv, TypeOK
  <1> QED
    BY <1>1, <1>2 DEF Fits, Quiet, SessionsOnlyEnd

LEMMA QuietStep ==
  ASSUME IInv, TypeOK', Quiet, NoneIsNew
  PROVE  IInv'
  <1>1. ASSUME NEW r \in Requests, InFlight(r)'
        PROVE  Fits(req[r])'
    <2>1. CASE req'[r].op \notin {"login", "refresh"}
      BY <2>1 DEF Fits
    <2>2. CASE req'[r].op \in {"login", "refresh"}
      BY <1>1, <2>2, StillFits DEF NoneIsNew, Fits
    <2> QED
      BY <2>1, <2>2
  <1>2. RequestsFit'
    BY <1>1 DEF RequestsFit
  <1> QED
    BY <1>2, QuietSessions DEF IInv

\* A step that leaves the password alone.
LEMMA QuietIf ==
  ASSUME TypeOK, SessionsOnlyEnd, cut' = cut, user'.password = user.password,
         user'.state = "DELETED" => user.state = "DELETED"
  PROVE  Quiet
  <1>1. user.password \in Nat
    BY BoundsAssumption DEF TypeOK, UserRow
  <1>2. user'.password >= user.password
    BY <1>1
  <1> QED
    BY <1>2 DEF Quiet

\* A step that does not touch the account, the sessions or the cut.
LEMMA QuietUnchanged == ASSUME TypeOK, UNCHANGED <<user, session, cut>> PROVE Quiet
  BY QuietIf, SameSessions, TypeParts

LEMMA RequestsKept ==
  ASSUME ReqOK, NEW r \in Requests
  PROVE  /\ UNCHANGED req => NoneIsNew
         /\ Ends(r) => NoneIsNew
         /\ \A at : InFlight(r) /\ GoesTo(r, at) => NoneIsNew
  <1>1. UNCHANGED req => NoneIsNew
    BY DEF NoneIsNew, InFlight
  <1>2. Ends(r) => NoneIsNew
    BY DEF ReqOK, NoneIsNew, Ends, InFlight
  <1>3. ASSUME NEW at, InFlight(r), GoesTo(r, at) PROVE NoneIsNew
    <2>1. req[r] \in RequestRow
      BY <1>3 DEF ReqOK, InFlight
    <2>2. req' = [req EXCEPT ![r] = [req[r] EXCEPT !.at = at]]
      BY <1>3 DEF GoesTo, ReqOK
    <2>3. /\ [req[r] EXCEPT !.at = at].op = req[r].op
          /\ [req[r] EXCEPT !.at = at].token = req[r].token
          /\ [req[r] EXCEPT !.at = at].password = req[r].password
          /\ [req[r] EXCEPT !.at = at].overtaken = req[r].overtaken
      BY <2>1 DEF RequestRow
    <2> QED
      BY <1>3, <2>2, <2>3 DEF ReqOK, NoneIsNew, InFlight
  <1> QED
    BY <1>1, <1>2, <1>3

\* A request that begins with data that fit.
LEMMA BeginsFit ==
  ASSUME IInv, TypeOK', Quiet, NEW r \in Requests, NEW q, Begins(r, q), Fits(q)'
  PROVE  IInv'
  <1>1. ASSUME NEW p \in Requests, InFlight(p)'
        PROVE  Fits(req[p])'
    <2>1. CASE p = r
      <3>1. req'[r] = q
        BY DEF Begins, IInv, TypeOK
      <3> QED
        BY <2>1, <3>1 DEF Fits
    <2>2. CASE p # r
      <3>1. req'[p] = req[p] /\ InFlight(p)
        BY <1>1, <2>2 DEF Begins, IInv, TypeOK, InFlight
      <3> QED
        BY <3>1, StillFits DEF Fits
    <2> QED
      BY <2>1, <2>2
  <1>2. RequestsFit'
    BY <1>1 DEF RequestsFit
  <1> QED
    BY <1>2, QuietSessions DEF IInv

\* The first statement of a handler that is neither login nor refresh.
LEMMA OtherBegins ==
  ASSUME IInv, TypeOK', NEW r \in Requests, NEW op \in Ops \ {"login", "refresh"},
         NEW at, NEW token, NEW password,
         Begins(r, Request(op, at, token, password)),
         UNCHANGED <<user, session, cut>>
  PROVE  IInv'
  <1>1. Request(op, at, token, password).op = op
    BY DEF Request
  <1>2. Fits(Request(op, at, token, password))'
    BY <1>1 DEF Fits, Ops
  <1>3. Quiet
    BY QuietUnchanged DEF IInv
  <1> QED
    BY <1>2, <1>3, BeginsFit

LEMMA BeginStep ==
  ASSUME IInv, TypeOK', NEW r \in Requests, Begin(r)
  PROVE  IInv'
  <1>0. UNCHANGED <<user, session, cut>> => Quiet
    BY QuietUnchanged DEF IInv
  <1>1. CASE SignupFinds(r)
    BY <1>1, OtherBegins DEF SignupFinds, Ops
  <1>2. CASE VerifyFinds(r)
    BY <1>2, OtherBegins DEF VerifyFinds, Ops
  <1>3. CASE ResendFinds(r)
    BY <1>3, OtherBegins DEF ResendFinds, Ops
  <1>4. CASE LoginChecks(r)
    <2> DEFINE q == Request("login", "create session", 0, user.password)
    <2>1. q.op = "login" /\ q.password = user.password
      BY DEF Request
    <2>2. user.password \in Nat /\ cut \in Nat /\ cut <= user.password
      BY BoundsAssumption DEF IInv, TypeOK, UserRow
    <2>3. user' = user /\ cut' = cut /\ user.state = "LIVE"
      BY <1>4 DEF LoginChecks, Found
    <2>4. Fits(q)'
      BY <2>1, <2>2, <2>3 DEF Fits
    <2> QED
      BY <1>0, <1>4, <2>4, BeginsFit DEF LoginChecks
  <1>5. CASE RefreshFinds(r)
    <2>1. PICK s \in Sessions :
            /\ session[s].status = "VALID"
            /\ Found
            /\ Begins(r, Request("refresh", "revoke", s, session[s].password))
      BY <1>5 DEF RefreshFinds
    <2> DEFINE q == Request("refresh", "revoke", s, session[s].password)
    <2>2. q.op = "refresh" /\ q.token = s /\ q.password = session[s].password
      BY DEF Request
    <2>3. session[s].password \in Nat /\ cut \in Nat
      BY BoundsAssumption DEF IInv, TypeOK, SessionRow
    <2>4. session[s].late = "no" => session[s].password >= cut
      BY <2>1, <2>3 DEF IInv, SurvivorsWereInFlight
    <2>5. session' = session /\ user' = user /\ cut' = cut /\ user.state = "LIVE"
      BY <1>5, <2>1 DEF RefreshFinds, Found
    <2>6. Fits(q)'
      BY <2>1, <2>2, <2>4, <2>5 DEF Fits
    <2> QED
      BY <1>0, <1>5, <2>1, <2>6, BeginsFit DEF RefreshFinds
  <1>6. CASE ForgotFinds(r)
    BY <1>6, OtherBegins DEF ForgotFinds, Ops
  <1>7. CASE ResetFinds(r)
    BY <1>7, OtherBegins DEF ResetFinds, Ops
  <1>8. CASE SetPasswordAuthorized(r)
    BY <1>8, OtherBegins DEF SetPasswordAuthorized, Ops
  <1>9. CASE DeactivateFinds(r)
    BY <1>9, OtherBegins DEF DeactivateFinds, Ops
  <1> QED
    BY <1>1, <1>2, <1>3, <1>4, <1>5, <1>6, <1>7, <1>8, <1>9 DEF Begin

\* The last statement of login and of refresh writes what its request carries.
LEMMA CreateSessionStep ==
  ASSUME IInv, TypeOK', NEW r \in Requests, CreateSession(r)
  PROVE  IInv'
  <1> DEFINE q == req[r]
  <1>1. PICK s \in Sessions : /\ session[s].status = "NONE"
                             /\ session' = [session EXCEPT ![s] = NewSession(q)]
    BY NewSessionType DEF IInv
  <1>2. /\ q.op = "login" \/ q.op = "refresh"
        /\ Fits(q) /\ InFlight(r)
        /\ q.op = "login" => q.token = 0
        /\ q.op = "refresh" => q.token \in Sessions
    BY NewSessionType DEF IInv, RequestsFit, TypeOK
  <1>3. UNCHANGED <<user, cut>> /\ Ends(r)
    BY DEF CreateSession
  <1>4. /\ session'[s] = NewSession(q)
        /\ \A t \in Sessions \ {s} : session'[t] = session[t]
    BY <1>1 DEF IInv, TypeOK
  <1>5. /\ NewSession(q).password = q.password
        /\ NewSession(q).late = Late(q)
    BY DEF NewSession
  <1>6. cut \in Nat /\ q.password \in Nat
    <2>1. q \in RequestRow /\ cut \in 0..MaxPasswords
      BY NewSessionType DEF IInv, TypeOK
    <2>2. q.password \in 0..MaxPasswords
      BY <2>1 DEF RequestRow
    <2> QED
      BY <2>1, <2>2, BoundsAssumption
  <1>7. q.overtaken => Late(q) = "itself"
    BY DEF Late
  <1>8. Late(q) = "no" => q.password >= cut
    <2>1. CASE q.overtaken
      BY <2>1, <1>7
    <2>2. CASE ~q.overtaken /\ q.op = "login"
      BY <2>2, <1>2 DEF Fits
    <2>3. CASE ~q.overtaken /\ q.op = "refresh" /\ session[q.token].late = "no"
      BY <2>3, <1>2 DEF Fits
    <2>4. CASE ~q.overtaken /\ q.op = "refresh" /\ session[q.token].late # "no"
      <3>1. q.token # 0
        BY <1>2, <2>4, BoundsAssumption DEF Sessions
      <3> QED
        BY <2>4, <3>1 DEF Late
    <2> QED
      BY <1>2, <2>1, <2>2, <2>3, <2>4
  <1>9. SurvivorsWereInFlight'
    BY <1>3, <1>4, <1>5, <1>6, <1>8 DEF IInv, SurvivorsWereInFlight
  <1>10. DeactivatedIsOut'
    <2>1. user.state = "DELETED" => Late(q) = "itself"
      BY <1>2, <1>7 DEF Fits
    <2> QED
      BY <1>3, <1>4, <1>5, <2>1 DEF IInv, DeactivatedIsOut
  <1>11. ASSUME NEW p \in Requests, InFlight(p)'
         PROVE  Fits(req[p])'
    <2>1. req'[p] = req[p] /\ InFlight(p)
      BY <1>3, <1>11 DEF Ends, IInv, TypeOK, InFlight
    <2>2. Fits(req[p]) /\ (req[p].op = "refresh" => req[p].token \in Sessions)
      BY <2>1 DEF IInv, RequestsFit, TypeOK
    <2>3. req[p].op = "refresh" => req[p].token # s
      BY <1>1, <2>2 DEF Fits
    <2> QED
      BY <1>3, <1>4, <2>1, <2>2, <2>3 DEF Fits
  <1>12. RequestsFit'
    BY <1>11 DEF RequestsFit
  <1> QED
    BY <1>3, <1>9, <1>10, <1>12 DEF IInv

\* resetPassword and deactivateMyAccount: after them only requests in flight carry
\* anything older, and they are overtaken.
LEMMA CutStep ==
  ASSUME IInv, TypeOK', NEW r \in Requests, RevokeAll, Overtake(r),
         cut' = user.password, user'.password = user.password
  PROVE  IInv'
  <1>1. SessionsOnlyEnd /\ \A s \in Sessions : session'[s].status # "VALID"
    BY AllRevoked, TypeParts DEF IInv
  <1>2. SurvivorsWereInFlight' /\ DeactivatedIsOut'
    BY <1>1 DEF SurvivorsWereInFlight, DeactivatedIsOut
  <1>3. cut' <= user'.password
    BY BoundsAssumption DEF IInv, TypeOK, UserRow
  <1>4. ASSUME NEW p \in Requests, InFlight(p)'
        PROVE  Fits(req[p])'
    <2>1. /\ InFlight(p)
          /\ req'[p] = [req[p] EXCEPT !.overtaken = TRUE]
      BY <1>4 DEF Overtake, InFlight
    <2>2. /\ req[p] \in RequestRow /\ Fits(req[p])
          /\ req[p].op = "refresh" => req[p].token \in Sessions
      BY <2>1 DEF IInv, TypeOK, RequestsFit, InFlight
    <2>3. /\ req'[p].op = req[p].op /\ req'[p].token = req[p].token
          /\ req'[p].password = req[p].password /\ req'[p].overtaken
      BY <2>1, <2>2 DEF RequestRow
    <2> QED
      BY <1>1, <2>2, <2>3 DEF Fits, SessionsOnlyEnd
  <1>5. RequestsFit'
    BY <1>4 DEF RequestsFit
  <1> QED
    BY <1>2, <1>3, <1>5 DEF IInv

LEMMA ContinueStep ==
  ASSUME IInv, TypeOK', NEW r \in Requests, Continue(r)
  PROVE  IInv'
  <1> ReqOK /\ TablesOK /\ TypeOK
    BY TypeParts DEF IInv
  <1>1. CASE SignupCreatesUser(r)
    <2>1. user'.password = user.password /\ (user'.state = "DELETED" => user.state = "DELETED")
      BY <1>1 DEF SignupCreatesUser, TablesOK, UserRow
    <2>2. NoneIsNew
      BY <1>1, RequestsKept DEF SignupCreatesUser, At
    <2> QED
      BY <1>1, <2>1, <2>2, SameSessions, QuietIf, QuietStep DEF SignupCreatesUser
  <1>2. CASE SignupCreatesToken(r)
    BY <1>2, RequestsKept, QuietUnchanged, QuietStep DEF SignupCreatesToken
  <1>3. CASE CreateSession(r)
    BY <1>3, CreateSessionStep
  <1>4. CASE RefreshRevokes(r)
    <2>1. req[r].token \in Sessions
      BY <1>4 DEF RefreshRevokes, At, ReqOK, HoldsToken
    <2>2. SessionsOnlyEnd
      BY <1>4, <2>1, SessionEnds DEF RefreshRevokes
    <2>3. NoneIsNew
      BY <1>4, RequestsKept DEF RefreshRevokes, At
    <2> QED
      BY <1>4, <2>2, <2>3, QuietIf, QuietStep DEF RefreshRevokes
  <1>5. CASE VerifyUser(r)
    <2>1. user'.password = user.password /\ user'.state = user.state
      BY <1>5 DEF VerifyUser, TablesOK, UserRow
    <2>2. NoneIsNew
      BY <1>5, RequestsKept DEF VerifyUser, At
    <2> QED
      BY <1>5, <2>1, <2>2, SameSessions, QuietIf, QuietStep DEF VerifyUser
  <1>6. CASE UseToken(r)
    <2>1. NoneIsNew
      BY <1>6, RequestsKept DEF UseToken, At
    <2> QED
      BY <1>6, <2>1, QuietUnchanged, QuietStep DEF UseToken
  <1>7. CASE ResendReadsLastToken(r)
    <2>1. NoneIsNew
      BY <1>7, RequestsKept DEF ResendReadsLastToken, At
    <2> QED
      BY <1>7, <2>1, QuietUnchanged, QuietStep DEF ResendReadsLastToken
  <1>8. CASE ResendOrForgotCreates(r)
    BY <1>8, RequestsKept, QuietUnchanged, QuietStep DEF ResendOrForgotCreates
  <1>9. CASE ResetSetsPassword(r)
    <2>1. NoneIsNew
      BY <1>9, RequestsKept DEF ResetSetsPassword, At
    <2> QED
      BY <1>9, <2>1, NewPasswordType, SameSessions, QuietStep DEF ResetSetsPassword, Quiet
  <1>10. CASE ResetRevokesAll(r)
    BY <1>10, CutStep DEF ResetRevokesAll
  <1>11. CASE SetPassword(r)
    BY <1>11, NewPasswordType, RequestsKept, SameSessions, QuietStep DEF SetPassword, Quiet
  <1>12. CASE DeactivateMyAccount(r)
    <2>1. user'.password = user.password
      BY <1>12 DEF DeactivateMyAccount, TablesOK, UserRow
    <2> QED
      BY <1>12, <2>1, CutStep DEF DeactivateMyAccount
  <1> QED
    BY <1>1, <1>2, <1>3, <1>4, <1>5, <1>6, <1>7, <1>8, <1>9, <1>10, <1>11, <1>12
    DEF Continue

LEMMA InvariantStep == ASSUME IInv, [Next]_vars PROVE IInv'
  <1> ReqOK /\ TablesOK /\ TypeOK
    BY TypeParts DEF IInv
  <1> TypeOK'
    BY TypeStep
  <1>0. UNCHANGED req => NoneIsNew
    BY DEF NoneIsNew, InFlight
  <1>1. CASE Logout
    BY <1>0, <1>1, SessionEnds, QuietIf, QuietStep DEF Logout
  <1>2. CASE Background
    <2>1. UNCHANGED <<session, req, cut>>
      BY <1>2 DEF Background, CleanupUnverifiedUsers, CleanupExpiredVerificationTokens,
                  AccountAges, MailTokenAges
    <2>2. user'.password = user.password /\ (user'.state = "DELETED" => user.state = "DELETED")
      BY <1>2 DEF Background, CleanupUnverifiedUsers, CleanupExpiredVerificationTokens,
                  AccountAges, MailTokenAges, TablesOK, UserRow
    <2> QED
      BY <1>0, <2>1, <2>2, SameSessions, QuietIf, QuietStep
  <1>3. ASSUME NEW r \in Requests, Dies(r) PROVE IInv'
    BY <1>3, RequestsKept, QuietUnchanged, QuietStep DEF Dies
  <1>4. CASE UNCHANGED vars
    BY <1>0, <1>4, QuietUnchanged, QuietStep DEF vars
  <1> QED
    BY <1>1, <1>2, <1>3, <1>4, BeginStep, ContinueStep DEF Next

LEMMA InvariantInit == Init => IInv
  BY BoundsAssumption
  DEF Init, IInv, TypeOK, UserRow, SessionRow, NoSession, MailTokenRow, NoMailToken, Groups,
      InFlight, RequestsFit, SurvivorsWereInFlight, DeactivatedIsOut

\* After resetPassword (index.js:338) or a deactivation has revoked all sessions, a session
\* that goes back to an older password was written by a request in flight at that moment,
\* or continues one that was.
THEOREM OnlyOvertakenSurvive == Spec => []SurvivorsWereInFlight
  <1>1. IInv => SurvivorsWereInFlight
    BY DEF IInv
  <1> QED
    BY <1>1, InvariantInit, InvariantStep, PTL DEF Spec

\* A deactivated account (account.js:88) has no session but those that requests in flight
\* at its deactivation wrote, and none of these is ever refreshed.
THEOREM DeactivatedStaysOut == Spec => []DeactivatedIsOut
  <1>1. IInv => DeactivatedIsOut
    BY DEF IInv
  <1> QED
    BY <1>1, InvariantInit, InvariantStep, PTL DEF Spec

-----------------------------------------------------------------------------
(* Counting *)

\* Two finite sets that have at most so many elements together still have when they lose
\* elements, and when an element of the second makes way for one of the first.
LEMMA Balance ==
  ASSUME NEW S, NEW P, IsFiniteSet(S), IsFiniteSet(P), NEW bound \in Nat,
         Cardinality(S) + Cardinality(P) <= bound,
         NEW S2, NEW P2, P2 \subseteq P
  PROVE  /\ S2 \subseteq S => Cardinality(S2) + Cardinality(P2) <= bound
         /\ \A x : \A r \in P : S2 \subseteq S \cup {x} /\ r \notin P2 =>
              Cardinality(S2) + Cardinality(P2) <= bound
  <1>1. Cardinality(S) \in Nat /\ Cardinality(P) \in Nat
    BY FS_CardinalityType
  <1>2. Cardinality(P2) \in Nat /\ Cardinality(P2) <= Cardinality(P)
    BY FS_Subset, FS_CardinalityType
  <1>3. ASSUME S2 \subseteq S
        PROVE  Cardinality(S2) + Cardinality(P2) <= bound
    <2>1. Cardinality(S2) \in Nat /\ Cardinality(S2) <= Cardinality(S)
      BY <1>3, FS_Subset, FS_CardinalityType
    <2> QED
      BY <1>1, <1>2, <2>1
  <1>4. ASSUME NEW x, NEW r \in P, S2 \subseteq S \cup {x}, r \notin P2
        PROVE  Cardinality(S2) + Cardinality(P2) <= bound
    <2>0. /\ IsFiniteSet(S \cup {x})
          /\ Cardinality(S \cup {x}) = IF x \in S THEN Cardinality(S) ELSE Cardinality(S) + 1
      BY FS_AddElement
    <2>1. /\ IsFiniteSet(S \cup {x})
          /\ Cardinality(S \cup {x}) <= Cardinality(S) + 1
      BY <1>1, <2>0
    <2>2. /\ Cardinality(S2) \in Nat
          /\ Cardinality(S2) <= Cardinality(S \cup {x})
          /\ Cardinality(S \cup {x}) \in Nat
      BY <1>4, <2>1, FS_Subset, FS_CardinalityType
    <2>3. /\ IsFiniteSet(P \ {r})
          /\ Cardinality(P \ {r}) = Cardinality(P) - 1
      BY <1>4, FS_RemoveElement
    <2>4. P2 \subseteq P \ {r}
      BY <1>4
    <2>5. Cardinality(P2) <= Cardinality(P \ {r})
      BY <2>3, <2>4, FS_Subset
    <2> QED
      BY <1>1, <1>2, <2>1, <2>2, <2>3, <2>5
  <1> QED
    BY <1>3, <1>4

\* Requests are as many as their number says, and there are finitely many rows.
LEMMA FiniteTables ==
  /\ Cardinality(Requests) \in Nat
  /\ \A R : R \subseteq Requests =>
       IsFiniteSet(R) /\ Cardinality(R) \in Nat /\ Cardinality(R) <= Cardinality(Requests)
  /\ \A S : S \subseteq Sessions => IsFiniteSet(S) /\ Cardinality(S) \in Nat
  /\ \A M : M \subseteq VerifyTokens => IsFiniteSet(M) /\ Cardinality(M) \in Nat
  <1>1. IsFiniteSet(Sessions) /\ IsFiniteSet(VerifyTokens)
    BY BoundsAssumption, FS_Interval DEF Sessions, VerifyTokens
  <1> QED
    BY <1>1, RequestsAssumption, FS_Subset, FS_CardinalityType

-----------------------------------------------------------------------------
(* Rotation *)

\* Request r has spent session s and is about to make its successor.
Succeeding(r, s) == At(r, "refresh", "create session") /\ req[r].token = s

\* The requests that spend, or have spent, session s and have not made its successor.
Refreshing(s) == {r \in Requests : InFlight(r) /\ req[r].op = "refresh" /\ req[r].token = s}

\* A token has a successor, or a request about to make one, only once it is revoked; and a
\* token that is revoked is found by no further request, so those that spend it and those
\* that have are never more than there can be at once.
RotationInv ==
  /\ \A n \in Sessions : session[n].status # "NONE" /\ session[n].parent \in Sessions =>
       session[session[n].parent].status = "REVOKED"
  /\ \A r \in Requests : At(r, "refresh", "create session") =>
       session[req[r].token].status = "REVOKED"
  /\ \A s \in Sessions :
       /\ session[s].status = "NONE" => ~session[s].rotated
       /\ session[s].rotated /\ failures = 0 =>
            \/ Successors(s) # {}
            \/ \E r \in Requests : Succeeding(r, s)
       /\ Cardinality(Successors(s)) + Cardinality(Refreshing(s)) <= Cardinality(Requests)

\* A step that makes no session and begins no refresh: what it marks as rotated it is
\* about to replace.
Elsewhere ==
  /\ \A s \in Sessions :
       /\ session'[s].status = "NONE" <=> session[s].status = "NONE"
       /\ session'[s].parent = session[s].parent
       /\ session[s].status = "REVOKED" => session'[s].status = "REVOKED"
       /\ session'[s].rotated /\ ~session[s].rotated =>
            /\ session[s].status # "NONE"
            /\ \E r \in Requests : Succeeding(r, s)'
  /\ \A r \in Requests :
       /\ InFlight(r)' /\ req'[r].op = "refresh" =>
            /\ InFlight(r) /\ req[r].op = "refresh" /\ req'[r].token = req[r].token
            /\ \/ req'[r].at = req[r].at
               \/ session'[req[r].token].status = "REVOKED"
       /\ \A s \in Sessions : Succeeding(r, s) /\ failures' = 0 => Succeeding(r, s)'
  /\ failures' = 0 => failures = 0

LEMMA ElsewhereRotation ==
  ASSUME TypeOK, RotationInv, Elsewhere
  PROVE  RotationInv'
  <1>1. ASSUME NEW s \in Sessions
        PROVE  /\ Successors(s)' = Successors(s)
               /\ Refreshing(s)' \subseteq Refreshing(s)
    BY <1>1 DEF Elsewhere, Successors, Refreshing
  <1>2. ASSUME NEW n \in Sessions, session'[n].status # "NONE", session'[n].parent \in Sessions
        PROVE  session'[session'[n].parent].status = "REVOKED"
    <2>1. session[n].status # "NONE" /\ session'[n].parent = session[n].parent
      BY <1>2 DEF Elsewhere
    <2>2. session[session[n].parent].status = "REVOKED"
      BY <1>2, <2>1 DEF RotationInv
    <2> QED
      BY <1>2, <2>1, <2>2 DEF Elsewhere
  <1>3. ASSUME NEW r \in Requests, At(r, "refresh", "create session")'
        PROVE  session'[req'[r].token].status = "REVOKED"
    <2>1. /\ InFlight(r) /\ req[r].op = "refresh" /\ req'[r].token = req[r].token
          /\ req[r].at = "create session" \/ session'[req[r].token].status = "REVOKED"
      BY <1>3 DEF Elsewhere, At
    <2>2. req[r].token \in Sessions
      BY <2>1 DEF TypeOK
    <2> QED
      BY <2>1, <2>2 DEF Elsewhere, RotationInv, At
  <1>4. ASSUME NEW s \in Sessions
        PROVE  /\ session'[s].status = "NONE" => ~session'[s].rotated
               /\ session'[s].rotated /\ failures' = 0 =>
                    \/ Successors(s)' # {}
                    \/ \E r \in Requests : Succeeding(r, s)'
    BY <1>1, <1>4 DEF Elsewhere, RotationInv
  <1>5. ASSUME NEW s \in Sessions
        PROVE  Cardinality(Successors(s)') + Cardinality(Refreshing(s)') <= Cardinality(Requests)
    <2>1. IsFiniteSet(Successors(s)) /\ IsFiniteSet(Refreshing(s))
      BY FiniteTables DEF Successors, Refreshing
    <2>2. Cardinality(Successors(s)) + Cardinality(Refreshing(s)) <= Cardinality(Requests)
      BY DEF RotationInv
    <2> QED
      BY <1>1, <2>1, <2>2, Balance, FiniteTables
  <1> QED
    BY <1>2, <1>3, <1>4, <1>5 DEF RotationInv

\* The two halves of most steps: no session is made or spent, and no refresh begins or
\* moves on.
SameOrRevoked ==
  \A s \in Sessions :
    /\ session'[s].status = "NONE" <=> session[s].status = "NONE"
    /\ session'[s].parent = session[s].parent
    /\ session[s].status = "REVOKED" => session'[s].status = "REVOKED"
    /\ session'[s].rotated = session[s].rotated

RefreshesKept ==
  \A r \in Requests :
    /\ InFlight(r)' /\ req'[r].op = "refresh" =>
         /\ InFlight(r) /\ req[r].op = "refresh"
         /\ req'[r].token = req[r].token /\ req'[r].at = req[r].at
    /\ \A s \in Sessions : Succeeding(r, s) /\ failures' = 0 => Succeeding(r, s)'

LEMMA ElsewhereIf ==
  ASSUME SameOrRevoked, RefreshesKept, failures' = 0 => failures = 0
  PROVE  Elsewhere
  BY DEF SameOrRevoked, RefreshesKept, Elsewhere

LEMMA SessionsSame ==
  ASSUME TablesOK
  PROVE  /\ UNCHANGED session => SameOrRevoked
         /\ RevokeAll => SameOrRevoked
         /\ \A s \in Sessions :
              session[s].status # "NONE" /\ session' = [session EXCEPT ![s].status = "REVOKED"]
                => SameOrRevoked
  <1>1. UNCHANGED session => SameOrRevoked
    BY DEF SameOrRevoked
  <1>2. RevokeAll => SameOrRevoked
    BY DEF TablesOK, SameOrRevoked, RevokeAll, SessionRow
  <1>3. ASSUME NEW s \in Sessions, session[s].status # "NONE",
               session' = [session EXCEPT ![s].status = "REVOKED"]
        PROVE  SameOrRevoked
    BY <1>3 DEF TablesOK, SameOrRevoked, SessionRow
  <1> QED
    BY <1>1, <1>2, <1>3

LEMMA RequestsSame ==
  ASSUME ReqOK, NEW r \in Requests, InFlight(r)
  PROVE  /\ Ends(r) /\ (failures' # 0 \/ req[r].op # "refresh") => RefreshesKept
         /\ \A at : GoesTo(r, at) /\ req[r].op # "refresh" => RefreshesKept
         /\ Overtake(r) /\ req[r].op # "refresh" => RefreshesKept
  <1>1. ASSUME Ends(r), failures' # 0 \/ req[r].op # "refresh"
        PROVE  RefreshesKept
    BY <1>1 DEF ReqOK, RefreshesKept, Ends, InFlight, Succeeding, At
  <1>2. ASSUME NEW at, GoesTo(r, at), req[r].op # "refresh"
        PROVE  RefreshesKept
    <2>1. req[r] \in RequestRow
      BY DEF ReqOK, InFlight
    <2>2. req' = [req EXCEPT ![r] = [req[r] EXCEPT !.at = at]]
      BY <1>2 DEF GoesTo, ReqOK
    <2>3. [req[r] EXCEPT !.at = at].op = req[r].op
      BY <2>1 DEF RequestRow
    <2> QED
      BY <1>2, <2>2, <2>3 DEF ReqOK, RefreshesKept, InFlight, Succeeding, At
  <1>3. ASSUME Overtake(r), req[r].op # "refresh"
        PROVE  RefreshesKept
    <2>1. ASSUME NEW q \in Requests
          PROVE  /\ InFlight(q)' => InFlight(q) /\ req'[q] = [req[q] EXCEPT !.overtaken = TRUE]
                 /\ InFlight(q) /\ q # r => InFlight(q)' /\ req'[q] = [req[q] EXCEPT !.overtaken = TRUE]
      <3>1. InFlight(q) => [req[q] EXCEPT !.overtaken = TRUE] \in RequestRow
        BY DEF ReqOK, RequestRow, InFlight
      <3>2. InFlight(q) => [req[q] EXCEPT !.overtaken = TRUE] # Idle
        BY <3>1, IdleAssumption
      <3> QED
        BY <1>3, <3>2 DEF Overtake, InFlight
    <2>2. ASSUME NEW q \in Requests, InFlight(q)
          PROVE  /\ [req[q] EXCEPT !.overtaken = TRUE].op = req[q].op
                 /\ [req[q] EXCEPT !.overtaken = TRUE].at = req[q].at
                 /\ [req[q] EXCEPT !.overtaken = TRUE].token = req[q].token
      BY <2>2 DEF ReqOK, RequestRow, InFlight
    <2> QED
      BY <1>3, <2>1, <2>2 DEF RefreshesKept, Succeeding, At
  <1> QED
    BY <1>1, <1>2, <1>3

LEMMA RequestBegins ==
  ASSUME ReqOK, NEW r \in Requests, NEW q, Begins(r, q), q.op # "refresh"
  PROVE  RefreshesKept
  BY DEF ReqOK, RefreshesKept, Begins, InFlight, Succeeding, At

\* A refresh that begins found its token valid, which no token with a successor is.
LEMMA RefreshFindsRotation ==
  ASSUME TypeOK, RotationInv, NEW r \in Requests, RefreshFinds(r)
  PROVE  RotationInv'
  <1>1. PICK s \in Sessions :
          /\ session[s].status = "VALID"
          /\ Begins(r, Request("refresh", "revoke", s, session[s].password))
    BY DEF RefreshFinds
  <1> DEFINE q == Request("refresh", "revoke", s, session[s].password)
  <1>2. /\ session' = session /\ failures' = failures
        /\ req[r] = Idle /\ req'[r] = q
        /\ \A p \in Requests \ {r} : req'[p] = req[p]
    BY <1>1 DEF RefreshFinds, Begins, TypeOK
  <1>3. q.op = "refresh" /\ q.at = "revoke" /\ q.token = s
    BY DEF Request
  <1>4. Successors(s) = {}
    BY <1>1 DEF RotationInv, Successors
  <1>5. \A t \in Sessions : Successors(t)' = Successors(t)
    BY <1>2 DEF Successors
  <1>6. ASSUME NEW t \in Sessions
        PROVE  \A p \in Requests : Succeeding(p, t)' <=> Succeeding(p, t)
    BY <1>2, <1>3 DEF Succeeding, At, InFlight
  <1>7. ASSUME NEW p \in Requests, At(p, "refresh", "create session")'
        PROVE  session'[req'[p].token].status = "REVOKED"
    BY <1>2, <1>3, <1>7 DEF RotationInv, At, InFlight
  <1>8. ASSUME NEW t \in Sessions
        PROVE  Cardinality(Successors(t)') + Cardinality(Refreshing(t)') <= Cardinality(Requests)
    <2>1. CASE t = s
      <3>1. Cardinality(Successors(t)') = 0
        BY <1>4, <1>5, <2>1, FS_EmptySet
      <3>2. Cardinality(Refreshing(t)') \in Nat /\ Cardinality(Refreshing(t)') <= Cardinality(Requests)
        <4>1. Refreshing(t)' \subseteq Requests
          BY DEF Refreshing
        <4> QED
          BY <4>1, FiniteTables
      <3> QED
        BY <3>1, <3>2
    <2>2. CASE t # s
      <3>1. Refreshing(t)' = Refreshing(t)
        BY <1>2, <1>3, <2>2 DEF Refreshing, InFlight
      <3> QED
        BY <1>5, <3>1 DEF RotationInv
    <2> QED
      BY <2>1, <2>2
  <1> QED
    BY <1>2, <1>5, <1>6, <1>7, <1>8 DEF RotationInv

\* A new session takes the place of the request that made it among those of its parent.
LEMMA CreateSessionRotation ==
  ASSUME TypeOK, RotationInv, NEW r \in Requests, CreateSession(r)
  PROVE  RotationInv'
  <1> DEFINE q == req[r]
  <1>1. PICK n \in Sessions : /\ session[n].status = "NONE"
                             /\ session' = [session EXCEPT ![n] = NewSession(q)]
    BY NewSessionType
  <1>2. /\ session'[n] = NewSession(q)
        /\ \A t \in Sessions \ {n} : session'[t] = session[t]
        /\ failures' = failures
        /\ req' = [req EXCEPT ![r] = Idle]
    BY <1>1 DEF TypeOK, CreateSession, Ends
  <1>3. /\ NewSession(q).status = "VALID" /\ NewSession(q).parent = q.token
        /\ NewSession(q).rotated = FALSE
    BY DEF NewSession
  <1>4. /\ InFlight(r)
        /\ \/ q.op = "login" /\ q.token = 0
           \/ Succeeding(r, q.token) /\ q.token \in Sessions
    BY DEF CreateSession, At, TypeOK, Succeeding
  <1>5. 0 \notin Sessions
    BY BoundsAssumption DEF Sessions
  <1>6. ASSUME NEW p \in Requests
        PROVE  /\ p # r => req'[p] = req[p]
               /\ ~InFlight(r)'
    BY <1>2 DEF TypeOK, InFlight
  <1>7. q.token \in Sessions => session[q.token].status = "REVOKED" /\ q.token # n
    BY <1>1, <1>4, <1>5 DEF RotationInv, Succeeding
  <1>8. ASSUME NEW t \in Sessions
        PROVE  /\ t # q.token => Successors(t)' = Successors(t)
               /\ t = q.token => Successors(t)' = Successors(t) \cup {n}
    BY <1>1, <1>2, <1>3 DEF Successors
  <1>9. ASSUME NEW t \in Sessions
        PROVE  /\ Refreshing(t)' \subseteq Refreshing(t)
               /\ t = q.token => r \in Refreshing(t) /\ r \notin Refreshing(t)'
    BY <1>4, <1>5, <1>6 DEF Refreshing, InFlight, Succeeding, At
  <1>10. ASSUME NEW m \in Sessions, session'[m].status # "NONE", session'[m].parent \in Sessions
         PROVE  session'[session'[m].parent].status = "REVOKED"
    <2>1. CASE m = n
      BY <1>2, <1>3, <1>7, <1>10, <2>1
    <2>2. CASE m # n
      <3>1. session'[m] = session[m] /\ session[session[m].parent].status = "REVOKED"
        BY <1>2, <1>10, <2>2 DEF RotationInv
      <3>2. session[m].parent # n
        BY <1>1, <3>1
      <3> QED
        BY <1>2, <1>10, <3>1, <3>2
    <2> QED
      BY <2>1, <2>2
  <1>11. ASSUME NEW p \in Requests, At(p, "refresh", "create session")'
         PROVE  session'[req'[p].token].status = "REVOKED"
    <2>1. req'[p] = req[p] /\ At(p, "refresh", "create session")
      BY <1>6, <1>11 DEF At, InFlight
    <2>2. session[req[p].token].status = "REVOKED" /\ req[p].token \in Sessions
      BY <2>1 DEF RotationInv, TypeOK, At
    <2> QED
      BY <1>1, <1>2, <2>1, <2>2
  <1>12. ASSUME NEW t \in Sessions, session'[t].rotated, failures' = 0
         PROVE  Successors(t)' # {} \/ \E p \in Requests : Succeeding(p, t)'
    <2>1. t # n /\ session'[t] = session[t]
      BY <1>2, <1>3, <1>12
    <2>2. CASE t = q.token
      BY <1>8, <2>2
    <2>3. CASE t # q.token /\ Successors(t) # {}
      BY <1>8, <2>3
    <2>4. ASSUME NEW p \in Requests, Succeeding(p, t), t # q.token
          PROVE  Succeeding(p, t)'
      BY <1>6, <2>4 DEF Succeeding, At, InFlight
    <2> QED
      BY <1>2, <1>12, <2>1, <2>2, <2>3, <2>4 DEF RotationInv
  <1>13. ASSUME NEW t \in Sessions
         PROVE  Cardinality(Successors(t)') + Cardinality(Refreshing(t)') <= Cardinality(Requests)
    <2>1. IsFiniteSet(Successors(t)) /\ IsFiniteSet(Refreshing(t))
      BY FiniteTables DEF Successors, Refreshing
    <2>2. Cardinality(Successors(t)) + Cardinality(Refreshing(t)) <= Cardinality(Requests)
      BY DEF RotationInv
    <2> DEFINE S == Successors(t)
               P == Refreshing(t)
    <2>3. Cardinality(Requests) \in Nat
      BY FiniteTables
    <2>4. CASE t # q.token
      BY <1>8, <1>9, <2>1, <2>2, <2>3, <2>4, Balance
    <2>5. CASE t = q.token
      <3>1. r \in P /\ r \notin P' /\ P' \subseteq P /\ S' \subseteq S \cup {n}
        BY <1>8, <1>9, <2>5
      <3> HIDE DEF S, P
      <3> QED
        BY <2>1, <2>2, <2>3, <3>1, Balance DEF S, P
    <2> QED
      BY <2>4, <2>5
  <1>14. ASSUME NEW t \in Sessions, session'[t].status = "NONE"
         PROVE  ~session'[t].rotated
    BY <1>2, <1>3, <1>14 DEF RotationInv
  <1> QED
    BY <1>10, <1>11, <1>12, <1>13, <1>14 DEF RotationInv

LEMMA RefreshRevokesRotation ==
  ASSUME TypeOK, RotationInv, NEW r \in Requests, RefreshRevokes(r),
         session[req[r].token].status # "NONE"
  PROVE  Elsewhere
  <1>0. InFlight(r) /\ req[r].op = "refresh" /\ req[r] \in RequestRow
    BY DEF RefreshRevokes, At, TypeOK, InFlight
  <1>1. PICK s \in Sessions : s = req[r].token
    BY <1>0 DEF TypeOK
  <1>2. /\ session'[s].status = "REVOKED" /\ session'[s].parent = session[s].parent
        /\ \A t \in Sessions \ {s} : session'[t] = session[t]
    BY <1>0, <1>1 DEF RefreshRevokes, TypeOK, SessionRow
  <1>3. /\ req'[r] = [req[r] EXCEPT !.at = "create session"]
        /\ \A p \in Requests \ {r} : req'[p] = req[p]
    BY <1>0, <1>1 DEF RefreshRevokes, GoesTo, TypeOK
  <1>4. /\ [req[r] EXCEPT !.at = "create session"] \in RequestRow
        /\ req'[r].op = "refresh" /\ req'[r].token = s /\ req'[r].at = "create session"
    BY <1>0, <1>1, <1>3 DEF RequestRow
  <1>5. InFlight(r)'
    BY <1>3, <1>4, IdleAssumption DEF InFlight
  <1>6. Succeeding(r, s)'
    BY <1>4, <1>5 DEF Succeeding, At
  <1>7. \A t \in Sessions : ~Succeeding(r, t)
    BY DEF RefreshRevokes, Succeeding, At
  <1>8. failures' = failures
    BY DEF RefreshRevokes
  <1>9. ASSUME NEW p \in Requests, InFlight(p)', req'[p].op = "refresh"
        PROVE  /\ InFlight(p) /\ req[p].op = "refresh" /\ req'[p].token = req[p].token
               /\ \/ req'[p].at = req[p].at
                  \/ session'[req[p].token].status = "REVOKED"
    BY <1>0, <1>1, <1>2, <1>3, <1>4, <1>9 DEF InFlight
  <1>10. ASSUME NEW p \in Requests, NEW t \in Sessions, Succeeding(p, t)
         PROVE  Succeeding(p, t)'
    BY <1>3, <1>7, <1>10 DEF Succeeding, At, InFlight
  <1>11. ASSUME NEW t \in Sessions
         PROVE  /\ session'[t].status = "NONE" <=> session[t].status = "NONE"
                /\ session'[t].parent = session[t].parent
                /\ session[t].status = "REVOKED" => session'[t].status = "REVOKED"
                /\ session'[t].rotated /\ ~session[t].rotated => t = s
    BY <1>0, <1>1, <1>2
  <1>12. ASSUME NEW t \in Sessions, session'[t].rotated, ~session[t].rotated
         PROVE  session[t].status # "NONE" /\ \E p \in Requests : Succeeding(p, t)'
    BY <1>1, <1>6, <1>11, <1>12
  <1> QED
    BY <1>8, <1>9, <1>10, <1>11, <1>12 DEF Elsewhere

LEMMA BeginRotation ==
  ASSUME TypeOK, RotationInv, NEW r \in Requests, Begin(r)
  PROVE  RotationInv'
  <1> ReqOK /\ TablesOK
    BY TypeParts
  <1>1. CASE RefreshFinds(r)
    BY <1>1, RefreshFindsRotation
  <1>2. CASE ~RefreshFinds(r)
    <2>1. UNCHANGED <<session, failures>>
      BY <1>2 DEF Begin, SignupFinds, VerifyFinds, ResendFinds, LoginChecks, ForgotFinds,
                  ResetFinds, SetPasswordAuthorized, DeactivateFinds
    <2>2. \E op \in Ops \ {"refresh"} : \E at, token, password :
            Begins(r, Request(op, at, token, password))
      BY <1>2 DEF Begin, SignupFinds, VerifyFinds, ResendFinds, LoginChecks, ForgotFinds,
                  ResetFinds, SetPasswordAuthorized, DeactivateFinds, Ops
    <2>3. \A op, at, token, password : Request(op, at, token, password).op = op
      BY DEF Request
    <2>4. RefreshesKept
      BY <2>2, <2>3, RequestBegins
    <2> QED
      BY <2>1, <2>4, SessionsSame, ElsewhereIf, ElsewhereRotation
  <1> QED
    BY <1>1, <1>2

LEMMA ContinueRotation ==
  ASSUME IInv, RotationInv, NEW r \in Requests, Continue(r)
  PROVE  RotationInv'
  <1> ReqOK /\ TablesOK /\ TypeOK
    BY TypeParts DEF IInv
  <1>1. CASE CreateSession(r)
    BY <1>1, CreateSessionRotation
  <1>2. CASE RefreshRevokes(r)
    <2>1. InFlight(r) /\ req[r].op = "refresh"
      BY <1>2 DEF RefreshRevokes, At
    <2>2. session[req[r].token].status # "NONE"
      BY <2>1 DEF IInv, RequestsFit, Fits
    <2> QED
      BY <1>2, <2>2, RefreshRevokesRotation, ElsewhereRotation
  <1>3. CASE ~CreateSession(r) /\ ~RefreshRevokes(r)
    <2>1. /\ InFlight(r) /\ req[r].op # "refresh"
          /\ Ends(r) \/ (\E at : GoesTo(r, at)) \/ Overtake(r)
          /\ UNCHANGED session \/ RevokeAll
          /\ UNCHANGED failures
      BY <1>3 DEF Continue, SignupCreatesUser, SignupCreatesToken, VerifyUser, UseToken,
                  ResendReadsLastToken, ResendOrForgotCreates, ResetSetsPassword,
                  ResetRevokesAll, SetPassword, DeactivateMyAccount, At
    <2>2. SameOrRevoked
      BY <2>1, SessionsSame
    <2>3. RefreshesKept
      BY <2>1, RequestsSame
    <2> QED
      BY <2>1, <2>2, <2>3, ElsewhereIf, ElsewhereRotation
  <1> QED
    BY <1>1, <1>2, <1>3

LEMMA RotationStep == ASSUME IInv, RotationInv, [Next]_vars PROVE RotationInv'
  <1> ReqOK /\ TablesOK /\ TypeOK
    BY TypeParts DEF IInv
  <1>0. UNCHANGED req => RefreshesKept
    BY DEF RefreshesKept, InFlight, Succeeding, At
  <1>1. CASE Logout
    <2>1. SameOrRevoked /\ UNCHANGED <<req, failures>>
      BY <1>1, SessionsSame DEF Logout
    <2> QED
      BY <1>0, <2>1, ElsewhereIf, ElsewhereRotation
  <1>2. CASE Background \/ UNCHANGED vars
    <2>1. UNCHANGED <<session, req, failures>>
      BY <1>2 DEF Background, CleanupUnverifiedUsers, CleanupExpiredVerificationTokens,
                  AccountAges, MailTokenAges, vars
    <2> QED
      BY <1>0, <2>1, SessionsSame, ElsewhereIf, ElsewhereRotation
  <1>3. ASSUME NEW r \in Requests, Dies(r) PROVE RotationInv'
    <2>1. UNCHANGED session /\ InFlight(r) /\ Ends(r)
      BY <1>3 DEF Dies
    <2>2. failures' # 0
      BY <1>3 DEF Dies, TablesOK
    <2>3. RefreshesKept
      BY <2>1, <2>2, RequestsSame
    <2> QED
      BY <2>1, <2>2, <2>3, SessionsSame, ElsewhereIf, ElsewhereRotation
  <1> QED
    BY <1>1, <1>2, <1>3, BeginRotation, ContinueRotation DEF Next

LEMMA RotationInit == Init => RotationInv
  <1> SUFFICES ASSUME Init PROVE RotationInv
    OBVIOUS
  <1>1. \A s \in Sessions : session[s] = NoSession
    BY DEF Init
  <1>2. \A s \in Sessions : session[s].status = "NONE" /\ ~session[s].rotated
    BY <1>1 DEF NoSession
  <1>3. \A r \in Requests : ~InFlight(r)
    BY DEF Init, InFlight
  <1>4. \A s \in Sessions : Successors(s) = {} /\ Refreshing(s) = {}
    BY <1>2, <1>3 DEF Successors, Refreshing
  <1>5. Cardinality({}) = 0 /\ Cardinality(Requests) \in Nat
    BY FS_EmptySet, FiniteTables
  <1>6. \A s \in Sessions :
          Cardinality(Successors(s)) + Cardinality(Refreshing(s)) <= Cardinality(Requests)
    BY <1>4, <1>5
  <1> QED
    BY <1>2, <1>3, <1>6 DEF RotationInv, At

\* Whoever spends a refresh token gets a new one or is getting it, unless the request died
\* (services/auth/index.js:126), and however many spend the same one at once, it has never
\* more successors than requests that can overlap.
THEOREM RotationReplaces == Spec => [](RotationKeepsSession /\ SuccessorsBounded)
  <1>1. Init => IInv /\ RotationInv
    BY InvariantInit, RotationInit
  <1>2. IInv /\ RotationInv /\ [Next]_vars => (IInv /\ RotationInv)'
    BY InvariantStep, RotationStep
  <1>3. ASSUME RotationInv PROVE RotationKeepsSession /\ SuccessorsBounded
    <2>1. ASSUME NEW s \in Sessions
          PROVE  Cardinality(Successors(s)) <= Cardinality(Requests)
      <3>1. /\ Cardinality(Successors(s)) \in Nat /\ Cardinality(Refreshing(s)) \in Nat
            /\ Cardinality(Requests) \in Nat
        BY FiniteTables DEF Successors, Refreshing
      <3>2. Cardinality(Successors(s)) + Cardinality(Refreshing(s)) <= Cardinality(Requests)
        BY <1>3 DEF RotationInv
      <3> QED
        BY <3>1, <3>2
    <2> QED
      BY <1>3, <2>1 DEF RotationInv, RotationKeepsSession, SuccessorsBounded, Succeeding
  <1> QED
    BY <1>1, <1>2, <1>3, PTL DEF Spec

-----------------------------------------------------------------------------
(* The throttle of the verification mails *)

\* The verification tokens of the last five minutes, and the requests that have passed the
\* throttle, or need none, and have not created theirs.
Recent  == {m \in VerifyTokens : /\ mailToken[m].status \in {"FRESH", "USED"}
                                 /\ mailToken[m].age = "recent"}
Mailing == {r \in Requests : At(r, "signup", "create token") \/ At(r, "resend", "create token")}

UsesToken(q) == q.op \in {"verifyEmail", "resetPassword"}

\* Nobody passes the throttle while there is a recent token, so the recent tokens and those
\* about to be created are never more than there can be requests at once.
ThrottleInv ==
  /\ user.state = "ABSENT" => \A m \in VerifyTokens : mailToken[m].status = "NONE"
  /\ \A r \in Requests : InFlight(r) /\ UsesToken(req[r]) =>
       mailToken[req[r].token].status # "NONE"
  /\ Cardinality(Recent) + Cardinality(Mailing) <= Cardinality(Requests)

\* A step that creates no token: rows stay rows, none becomes recent.
RowsKept ==
  /\ \A m \in MailTokens : mailToken'[m].status = "NONE" <=> mailToken[m].status = "NONE"
  /\ Recent' \subseteq Recent

\* A step by which nobody finds a token and nobody passes the throttle.
NoneFinds ==
  \A r \in Requests : InFlight(r)' /\ UsesToken(req'[r]) =>
    InFlight(r) /\ UsesToken(req[r]) /\ req'[r].token = req[r].token
NonePasses == Mailing' \subseteq Mailing

\* The count is kept when nothing is added, when a token takes the place of the request
\* that created it, and when there was no recent token.
LEMMA CountKept ==
  ASSUME ThrottleInv,
         \/ Recent' \subseteq Recent /\ NonePasses
         \/ Recent' = {}
         \/ \E m \in VerifyTokens : \E r \in Mailing :
              Recent' \subseteq Recent \cup {m} /\ Mailing' \subseteq Mailing \ {r}
  PROVE  Cardinality(Recent') + Cardinality(Mailing') <= Cardinality(Requests)
  <1>1. /\ IsFiniteSet(Recent) /\ IsFiniteSet(Mailing)
        /\ Cardinality(Requests) \in Nat
        /\ Cardinality(Recent) + Cardinality(Mailing) <= Cardinality(Requests)
    BY FiniteTables DEF ThrottleInv, Recent, Mailing
  <1>2. CASE Recent' \subseteq Recent /\ NonePasses
    BY <1>1, <1>2, Balance DEF NonePasses
  <1>3. CASE Recent' = {}
    <2>1. Mailing' \subseteq Requests
      BY DEF Mailing
    <2>2. Cardinality(Mailing') \in Nat /\ Cardinality(Mailing') <= Cardinality(Requests)
      BY <2>1, FiniteTables
    <2>3. Cardinality(Recent') = 0
      BY <1>3, FS_EmptySet
    <2> QED
      BY <1>1, <2>2, <2>3
  <1>4. ASSUME NEW m \in VerifyTokens, NEW r \in Mailing,
               Recent' \subseteq Recent \cup {m}, Mailing' \subseteq Mailing \ {r}
        PROVE  Cardinality(Recent') + Cardinality(Mailing') <= Cardinality(Requests)
    <2>1. Mailing' \subseteq Mailing /\ r \notin Mailing'
      BY <1>4
    <2> QED
      BY <1>1, <1>4, <2>1, Balance
  <1> QED
    BY <1>2, <1>3, <1>4

LEMMA ThrottleKept ==
  ASSUME TypeOK, ThrottleInv, RowsKept, NoneFinds, NonePasses,
         user'.state = "ABSENT" => user.state = "ABSENT"
  PROVE  ThrottleInv'
  <1>1. user'.state = "ABSENT" => \A m \in VerifyTokens : mailToken'[m].status = "NONE"
    BY TokenSets DEF ThrottleInv, RowsKept
  <1>2. ASSUME NEW r \in Requests, InFlight(r)', UsesToken(req'[r])
        PROVE  mailToken'[req'[r].token].status # "NONE"
    <2>1. InFlight(r) /\ UsesToken(req[r]) /\ req'[r].token = req[r].token
      BY <1>2 DEF NoneFinds
    <2>2. req[r].token \in MailTokens
      BY <2>1 DEF TypeOK, UsesToken
    <2> QED
      BY <2>1, <2>2 DEF ThrottleInv, RowsKept
  <1>3. Cardinality(Recent') + Cardinality(Mailing') <= Cardinality(Requests)
    BY CountKept DEF RowsKept
  <1> QED
    BY <1>1, <1>2, <1>3 DEF ThrottleInv

LEMMA RequestsStay ==
  ASSUME ReqOK, NEW r \in Requests, InFlight(r)
  PROVE  /\ Ends(r) => NoneFinds /\ NonePasses /\ r \notin Mailing'
         /\ Overtake(r) => NoneFinds /\ NonePasses
  <1>1. ASSUME Ends(r)
        PROVE  NoneFinds /\ NonePasses /\ r \notin Mailing'
    BY <1>1 DEF ReqOK, NoneFinds, NonePasses, Mailing, Ends, InFlight, At
  <1>2. ASSUME Overtake(r)
        PROVE  NoneFinds /\ NonePasses
    <2>1. ASSUME NEW q \in Requests, InFlight(q)'
          PROVE  InFlight(q) /\ req'[q] = [req[q] EXCEPT !.overtaken = TRUE]
      BY <1>2, <2>1 DEF Overtake, InFlight
    <2>2. ASSUME NEW q \in Requests, InFlight(q)
          PROVE  /\ [req[q] EXCEPT !.overtaken = TRUE].op = req[q].op
                 /\ [req[q] EXCEPT !.overtaken = TRUE].at = req[q].at
                 /\ [req[q] EXCEPT !.overtaken = TRUE].token = req[q].token
      BY <2>2 DEF ReqOK, RequestRow, InFlight
    <2> QED
      BY <2>1, <2>2 DEF NoneFinds, NonePasses, Mailing, UsesToken, At
  <1> QED
    BY <1>1, <1>2

LEMMA RequestMoves ==
  ASSUME ReqOK, NEW r \in Requests, InFlight(r), NEW at \in Ats, GoesTo(r, at)
  PROVE  /\ NoneFinds
         /\ at # "create token" => NonePasses
  <1>1. req[r] \in RequestRow
    BY DEF ReqOK, InFlight
  <1>2. req' = [req EXCEPT ![r] = [req[r] EXCEPT !.at = at]]
    BY DEF GoesTo, ReqOK
  <1>3. /\ [req[r] EXCEPT !.at = at].op = req[r].op
        /\ [req[r] EXCEPT !.at = at].at = at
        /\ [req[r] EXCEPT !.at = at].token = req[r].token
    BY <1>1 DEF RequestRow
  <1>4. NoneFinds
    BY <1>2, <1>3 DEF ReqOK, NoneFinds, InFlight, UsesToken
  <1>5. at # "create token" => NonePasses
    BY <1>2, <1>3 DEF ReqOK, NonePasses, Mailing, InFlight, At
  <1> QED
    BY <1>4, <1>5

\* The step of a request that leaves the account and the tokens alone.
LEMMA SameRows ==
  ASSUME UNCHANGED mailToken
  PROVE  RowsKept
  BY DEF RowsKept, Recent

LEMMA BeginThrottle ==
  ASSUME TypeOK, ThrottleInv, NEW r \in Requests, Begin(r)
  PROVE  ThrottleInv'
  <1>1. UNCHANGED <<user, mailToken>>
    BY DEF Begin, SignupFinds, VerifyFinds, ResendFinds, LoginChecks, RefreshFinds,
           ForgotFinds, ResetFinds, SetPasswordAuthorized, DeactivateFinds
  <1> DEFINE Starts(op, at, token, password) ==
               /\ Begins(r, Request(op, at, token, password))
               /\ at = "create token" => op = "forgotPassword"
               /\ op \in {"verifyEmail", "resetPassword"} => mailToken[token].status # "NONE"
  <1>2. \E op, at, token, password : Starts(op, at, token, password)
    <2>1. CASE RefreshFinds(r)
      <3>1. PICK s \in Sessions : Begins(r, Request("refresh", "revoke", s, session[s].password))
        BY <2>1 DEF RefreshFinds
      <3>2. Starts("refresh", "revoke", s, session[s].password)
        BY <3>1
      <3> QED
        BY <3>2
    <2>2. CASE VerifyFinds(r)
      <3>1. PICK m \in VerifyTokens : /\ Begins(r, Request("verifyEmail", "verify user", m, 0))
                                      /\ mailToken[m].status = "FRESH"
        BY <2>2 DEF VerifyFinds
      <3>2. Starts("verifyEmail", "verify user", m, 0)
        BY <3>1
      <3> QED
        BY <3>2
    <2>3. CASE ResetFinds(r)
      <3>1. PICK m \in ResetTokens : /\ Begins(r, Request("resetPassword", "set password", m, 0))
                                     /\ mailToken[m].status = "FRESH"
        BY <2>3 DEF ResetFinds
      <3>2. Starts("resetPassword", "set password", m, 0)
        BY <3>1
      <3> QED
        BY <3>2
    <2>4. \/ Starts("signup", "create user", 0, 0)
          \/ Starts("resend", "read last token", 0, 0)
          \/ Starts("login", "create session", 0, user.password)
          \/ Starts("forgotPassword", "create token", 0, 0)
          \/ Starts("setPassword", "set password", 0, 0)
          \/ Starts("deactivate", "write", 0, 0)
          \/ VerifyFinds(r) \/ RefreshFinds(r) \/ ResetFinds(r)
      BY DEF Begin, SignupFinds, ResendFinds, LoginChecks, ForgotFinds, SetPasswordAuthorized,
             DeactivateFinds
    <2> HIDE DEF Starts
    <2> QED
      BY <2>1, <2>2, <2>3, <2>4
  <1>4. PICK op, at, token, password : Starts(op, at, token, password)
    BY <1>2
  <1> DEFINE q == Request(op, at, token, password)
  <1>5. q.op = op /\ q.at = at /\ q.token = token
    BY DEF Request
  <1>6. /\ req'[r] = q
        /\ \A p \in Requests \ {r} : req'[p] = req[p]
    BY <1>4 DEF Begins, TypeOK
  <1>7. NonePasses
    BY <1>4, <1>5, <1>6 DEF NonePasses, Mailing, At, InFlight
  <1>8. ASSUME NEW p \in Requests, InFlight(p)', UsesToken(req'[p])
        PROVE  mailToken'[req'[p].token].status # "NONE"
    BY <1>1, <1>4, <1>5, <1>6, <1>8 DEF ThrottleInv, UsesToken, InFlight
  <1>9. Recent' = Recent
    BY <1>1 DEF Recent
  <1>10. Cardinality(Recent') + Cardinality(Mailing') <= Cardinality(Requests)
    BY <1>7, <1>9, CountKept
  <1> QED
    BY <1>1, <1>8, <1>10 DEF ThrottleInv

\* A token that is created takes the place of the request that creates it.
LEMMA CreateThrottle ==
  ASSUME TypeOK, ThrottleInv, NEW r \in Requests, InFlight(r), Ends(r), UNCHANGED user,
         \/ r \in Mailing /\ CreateMailToken(VerifyTokens, "recent")
         \/ CreateMailToken(ResetTokens, "old")
  PROVE  ThrottleInv'
  <1>0. NoneFinds /\ NonePasses /\ r \notin Mailing'
    BY RequestsStay, TypeParts
  <1>1. CASE ~RowExists
    BY <1>0, <1>1, SameRows, ThrottleKept DEF CreateMailToken
  <1>2. CASE RowExists
    <2>1. user'.state # "ABSENT"
      BY <1>2 DEF RowExists
    <2>2. PICK m \in MailTokens :
            /\ mailToken[m].status = "NONE" /\ mailToken'[m].status = "FRESH"
            /\ \A i \in MailTokens \ {m} : mailToken'[i] = mailToken[i]
            /\ \/ r \in Mailing /\ m \in VerifyTokens
               \/ m \in ResetTokens /\ mailToken'[m].age = "old"
      BY <1>2, TokenSets DEF CreateMailToken, NextMailToken, TypeOK
    <2>3. Recent' \subseteq Recent \cup {m}
      BY <2>2, TokenSets DEF Recent
    <2>4. m \notin VerifyTokens => Recent' \subseteq Recent
      BY <2>2, TokenSets DEF Recent
    <2>5. m \in VerifyTokens /\ m \in ResetTokens => FALSE
      BY BoundsAssumption DEF VerifyTokens, ResetTokens
    <2>6. Cardinality(Recent') + Cardinality(Mailing') <= Cardinality(Requests)
      <3>1. CASE m \in VerifyTokens
        <4>1. r \in Mailing /\ Mailing' \subseteq Mailing \ {r}
          BY <1>0, <2>2, <2>5, <3>1 DEF NonePasses
        <4> QED
          BY <2>3, <3>1, <4>1, CountKept
      <3>2. CASE m \notin VerifyTokens
        BY <1>0, <2>4, <3>2, CountKept
      <3> QED
        BY <3>1, <3>2
    <2>7. ASSUME NEW p \in Requests, InFlight(p)', UsesToken(req'[p])
          PROVE  mailToken'[req'[p].token].status # "NONE"
      <3>1. InFlight(p) /\ UsesToken(req[p]) /\ req'[p].token = req[p].token
        BY <1>0, <2>7 DEF NoneFinds
      <3>2. req[p].token \in MailTokens /\ mailToken[req[p].token].status # "NONE"
        BY <3>1 DEF TypeOK, ThrottleInv, UsesToken
      <3> QED
        BY <2>2, <3>1, <3>2
    <2> QED
      BY <2>1, <2>6, <2>7 DEF ThrottleInv
  <1> QED
    BY <1>1, <1>2

LEMMA ContinueThrottle ==
  ASSUME TypeOK, ThrottleInv, NEW r \in Requests, Continue(r)
  PROVE  ThrottleInv'
  <1> ReqOK /\ TablesOK
    BY TypeParts
  <1>0. InFlight(r)
    BY DEF Continue, SignupCreatesUser, SignupCreatesToken, CreateSession, RefreshRevokes,
           VerifyUser, UseToken, ResendReadsLastToken, ResendOrForgotCreates,
           ResetSetsPassword, ResetRevokesAll, SetPassword, DeactivateMyAccount, At
  <1>13. /\ GoesTo(r, "create session") => NoneFinds /\ NonePasses
         /\ GoesTo(r, "use token") => NoneFinds /\ NonePasses
         /\ GoesTo(r, "revoke all") => NoneFinds /\ NonePasses
    BY <1>0, RequestMoves DEF Ats
  <1>1. CASE SignupCreatesUser(r)
    <2>1. CASE user.state = "ABSENT"
      <3>1. user'.state = "LIVE" /\ UNCHANGED mailToken /\ NoneFinds
        BY <1>0, <1>1, <2>1, RequestMoves DEF SignupCreatesUser, TablesOK, UserRow, Ats
      <3>2. Recent' = {}
        BY <2>1, <3>1 DEF ThrottleInv, Recent
      <3>3. Cardinality(Recent') + Cardinality(Mailing') <= Cardinality(Requests)
        BY <3>2, CountKept
      <3> QED
        BY <3>1, <3>3 DEF ThrottleInv, NoneFinds
    <2>2. CASE user.state # "ABSENT"
      BY <1>0, <1>1, <2>2, RequestsStay, SameRows, ThrottleKept DEF SignupCreatesUser
    <2> QED
      BY <2>1, <2>2
  <1>2. CASE SignupCreatesToken(r)
    BY <1>0, <1>2, CreateThrottle DEF SignupCreatesToken, Mailing
  <1>3. CASE CreateSession(r)
    BY <1>0, <1>3, RequestsStay, SameRows, ThrottleKept DEF CreateSession
  <1>4. CASE RefreshRevokes(r)
    BY <1>13, <1>4, SameRows, ThrottleKept DEF RefreshRevokes
  <1>5. CASE VerifyUser(r)
    <2>1. user'.state = user.state
      BY <1>5 DEF VerifyUser, TablesOK, UserRow
    <2> QED
      BY <1>0, <1>13, <1>5, <2>1, RequestsStay, SameRows, ThrottleKept DEF VerifyUser
  <1>6. CASE UseToken(r)
    <2>1. UsesToken(req[r]) /\ req[r].token \in MailTokens
      BY <1>6 DEF UseToken, At, UsesToken, TypeOK
    <2>2. mailToken[req[r].token].status # "NONE"
      BY <1>0, <2>1 DEF ThrottleInv
    <2>3. RowsKept
      <3>1. CASE mailToken[req[r].token].status = "GONE"
        BY <1>6, <3>1, SameRows DEF UseToken
      <3>2. CASE mailToken[req[r].token].status # "GONE"
        <4>1. mailToken[req[r].token].status \in {"FRESH", "USED"}
          BY <2>1, <2>2, <3>2 DEF TablesOK, MailTokenRow
        <4>2. mailToken' = [mailToken EXCEPT ![req[r].token].status = "USED"]
          BY <1>6, <3>2 DEF UseToken
        <4> QED
          BY <2>1, <4>1, <4>2 DEF RowsKept, Recent, TablesOK, MailTokenRow
      <3> QED
        BY <3>1, <3>2
    <2>4. UNCHANGED user /\ (Ends(r) \/ GoesTo(r, "revoke all"))
      BY <1>6 DEF UseToken
    <2> QED
      BY <1>0, <1>13, <2>3, <2>4, RequestsStay, ThrottleKept
  <1>7. CASE ResendReadsLastToken(r)
    <2>1. CASE ThrottledNow
      BY <1>0, <1>7, <2>1, RequestsStay, SameRows, ThrottleKept DEF ResendReadsLastToken
    <2>2. CASE ~ThrottledNow
      <3>1. UNCHANGED <<user, mailToken>> /\ NoneFinds
        BY <1>0, <1>7, <2>2, RequestMoves DEF ResendReadsLastToken, Ats
      <3>2. Recent' = {}
        BY <2>2, <3>1 DEF ThrottledNow, Recent
      <3>3. Cardinality(Recent') + Cardinality(Mailing') <= Cardinality(Requests)
        BY <3>2, CountKept
      <3> QED
        BY <3>1, <3>3 DEF ThrottleInv, NoneFinds
    <2> QED
      BY <2>1, <2>2
  <1>8. CASE ResendOrForgotCreates(r)
    BY <1>0, <1>8, CreateThrottle DEF ResendOrForgotCreates, Mailing
  <1>9. CASE ResetSetsPassword(r)
    BY <1>13, <1>9, NewPasswordType, SameRows, ThrottleKept DEF ResetSetsPassword
  <1>10. CASE ResetRevokesAll(r)
    BY <1>0, <1>10, RequestsStay, SameRows, ThrottleKept DEF ResetRevokesAll
  <1>11. CASE SetPassword(r)
    BY <1>0, <1>11, NewPasswordType, RequestsStay, SameRows, ThrottleKept DEF SetPassword
  <1>12. CASE DeactivateMyAccount(r)
    <2>1. user'.state # "ABSENT"
      BY <1>12 DEF DeactivateMyAccount, TablesOK, UserRow
    <2>2. RowsKept
      BY <1>12 DEF DeactivateMyAccount, UseAllTokens, RowsKept, Recent, TablesOK,
                   MailTokens, MailTokenRow
    <2> QED
      BY <1>0, <1>12, <2>1, <2>2, RequestsStay, ThrottleKept DEF DeactivateMyAccount
  <1> QED
    BY <1>1, <1>2, <1>3, <1>4, <1>5, <1>6, <1>7, <1>8, <1>9, <1>10, <1>11, <1>12
    DEF Continue

\* The clock and the cleanup jobs make no token recent.
LEMMA BackgroundThrottle == ASSUME TypeOK, ThrottleInv, Background PROVE ThrottleInv'
  <1> TablesOK
    BY TypeParts
  <1>0. UNCHANGED req
    BY DEF Background, CleanupUnverifiedUsers, CleanupExpiredVerificationTokens,
           AccountAges, MailTokenAges
  <1>1. NoneFinds /\ NonePasses
    BY <1>0 DEF NoneFinds, NonePasses, Mailing, InFlight, At
  <1>2. user'.state = "ABSENT" => user.state = "ABSENT"
    BY DEF Background, CleanupUnverifiedUsers, CleanupExpiredVerificationTokens,
           AccountAges, MailTokenAges, TablesOK, UserRow
  <1>3. RowsKept
    <2>1. CASE CleanupUnverifiedUsers
      BY <2>1 DEF CleanupUnverifiedUsers, RowsKept, Recent, NoMailToken, MailTokens
    <2>2. CASE CleanupExpiredVerificationTokens
      BY <2>2 DEF CleanupExpiredVerificationTokens, Disposable, RowsKept, Recent, NoMailToken,
                  MailTokens
    <2>3. CASE AccountAges
      BY <2>3, SameRows DEF AccountAges
    <2>4. ASSUME NEW m \in MailTokens, MailTokenAges(m) PROVE RowsKept
      BY <2>4 DEF MailTokenAges, RowsKept, Recent, TablesOK, MailTokenRow, MailTokens
    <2> QED
      BY <2>1, <2>2, <2>3, <2>4 DEF Background
  <1> QED
    BY <1>1, <1>2, <1>3, ThrottleKept

LEMMA ThrottleStep == ASSUME TypeOK, ThrottleInv, [Next]_vars PROVE ThrottleInv'
  <1> ReqOK /\ TablesOK
    BY TypeParts
  <1>1. CASE Logout \/ UNCHANGED vars
    <2>1. UNCHANGED <<user, mailToken, req>>
      BY <1>1 DEF Logout, vars
    <2>2. NoneFinds /\ NonePasses
      BY <2>1 DEF NoneFinds, NonePasses, Mailing, InFlight, At
    <2> QED
      BY <2>1, <2>2, SameRows, ThrottleKept
  <1>2. ASSUME NEW r \in Requests, Dies(r) PROVE ThrottleInv'
    BY <1>2, RequestsStay, SameRows, ThrottleKept DEF Dies
  <1> QED
    BY <1>1, <1>2, BeginThrottle, ContinueThrottle, BackgroundThrottle DEF Next

LEMMA ThrottleInit == Init => ThrottleInv
  <1> SUFFICES ASSUME Init PROVE ThrottleInv
    OBVIOUS
  <1>1. \A m \in MailTokens : mailToken[m].status = "NONE"
    BY DEF Init, NoMailToken
  <1>2. \A r \in Requests : ~InFlight(r)
    BY DEF Init, InFlight
  <1>3. Recent = {} /\ Mailing = {}
    BY <1>1, <1>2, TokenSets DEF Recent, Mailing, At
  <1>4. Cardinality(Recent) + Cardinality(Mailing) <= Cardinality(Requests)
    BY <1>3, FS_EmptySet, FiniteTables
  <1> QED
    BY <1>1, <1>2, <1>4, TokenSets DEF ThrottleInv

\* In five minutes an account is sent no more verification mails than requests can overlap
\* (services/auth/index.js:229): the throttle lets by only those that read the last token
\* before any of them has created its own.
THEOREM ThrottleHolds == Spec => []ResendThrottled
  <1>1. Init => TypeOK /\ ThrottleInv
    BY InvariantInit, ThrottleInit DEF IInv
  <1>2. TypeOK /\ ThrottleInv /\ [Next]_vars => (TypeOK /\ ThrottleInv)'
    BY TypeStep, ThrottleStep
  <1>3. ASSUME ThrottleInv PROVE ResendThrottled
    <2>1. /\ Cardinality(Recent) \in Nat /\ Cardinality(Mailing) \in Nat
          /\ Cardinality(Requests) \in Nat
      BY FiniteTables DEF Recent, Mailing
    <2>2. Cardinality(Recent) + Cardinality(Mailing) <= Cardinality(Requests)
      BY <1>3 DEF ThrottleInv
    <2>3. Cardinality(Recent) <= Cardinality(Requests)
      BY <2>1, <2>2
    <2> QED
      BY <2>3 DEF ResendThrottled, Recent
  <1> QED
    BY <1>1, <1>2, <1>3, PTL DEF Spec
=============================================================================
