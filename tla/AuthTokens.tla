----------------------------- MODULE AuthTokens -----------------------------
(***************************************************************************)
(* One account, its refresh tokens and its mail tokens, under overlapping  *)
(* requests.                                                               *)
(*                                                                         *)
(* None of the handlers of src/services/auth uses a transaction: each is a *)
(* sequence of separate statements, so every statement is a step here and  *)
(* req[r] says which one request r executes next.  The first step of a     *)
(* handler reads, checks and refuses; what it saw may be out of date when  *)
(* the later steps write by id.  Deactivation is one transaction after its *)
(* reads.  A request may die between any two statements.  A behaviour has  *)
(* the requests of one group, which is chosen at the start: those of an    *)
(* address that is not verified yet, or those of a verified account.       *)
(*                                                                         *)
(* A password is known by its number: each change makes the next one, and  *)
(* a login gives the current one.  Mails are always delivered in the end   *)
(* (EmailOutbox.tla), so a stored mail token is one its owner can use.     *)
(* Refresh and access tokens that have expired are tokens nobody presents  *)
(* any more; their clock is left out.                                      *)
(***************************************************************************)
EXTENDS Naturals, FiniteSets

CONSTANTS
  Requests,       \* bound: requests in flight at the same time
  Idle,           \* a request slot with no request
  MaxSessions,    \* bound: refresh tokens ever created
  MaxVerifyTokens, \* bound: verification tokens ever created
  MaxResetTokens,  \* bound: reset tokens ever created
  MaxPasswords,   \* bound: changes of the password
  MaxFailures     \* bound: requests that die between two statements

ASSUME BoundsAssumption ==
  /\ MaxSessions \in Nat /\ MaxVerifyTokens \in Nat /\ MaxResetTokens \in Nat
  /\ MaxPasswords \in Nat /\ MaxFailures \in Nat

\* A server has finitely many requests in flight.
ASSUME RequestsAssumption == IsFiniteSet(Requests)

VARIABLES
  user,       \* the row of users
  session,    \* refresh_tokens
  mailToken,  \* verification_tokens: verification tokens first, then reset tokens
  group,      \* which requests come, chosen at the start
  req,        \* [Requests -> {Idle} or a request]
  cut,        \* history: the password at the last revocation of all sessions
  failures    \* bound counter

vars == <<user, session, mailToken, group, req, cut, failures>>

Sessions   == 1..MaxSessions
VerifyTokens == 1..MaxVerifyTokens
ResetTokens  == (MaxVerifyTokens + 1)..(MaxVerifyTokens + MaxResetTokens)
MailTokens   == VerifyTokens \cup ResetTokens

UserRow ==
  [state : {"ABSENT", "LIVE", "DELETED", "REMOVED"},  \* DELETED: deactivated; REMOVED: no row
   verified : BOOLEAN, password : 0..MaxPasswords,
   aged : BOOLEAN]                                    \* created before the cleanup's cutoff

\* parent, password and late are history: the token this one replaced, the password
\* that was given at the login it goes back to, and whether it was made by a request
\* that was in flight when all sessions were revoked (or goes back to one that was).
SessionRow ==
  [status : {"NONE", "VALID", "REVOKED"}, rotated : BOOLEAN,
   parent : 0..MaxSessions, password : 0..MaxPasswords,
   late : {"no", "itself", "descends"}]

NoSession == [status |-> "NONE", rotated |-> FALSE,
              parent |-> 0, password |-> 0, late |-> "no"]

\* "recent": created in the last five minutes.
MailTokenRow == [status : {"NONE", "FRESH", "USED", "GONE"},
                 age : {"recent", "old", "expired"}]

NoMailToken == [status |-> "NONE", age |-> "recent"]

Groups == {"registration", "sessions"}

Init ==
  /\ group \in Groups
  /\ user = [state    |-> IF group = "registration" THEN "ABSENT" ELSE "LIVE",
             verified |-> group = "sessions", password |-> 0, aged |-> FALSE]
  /\ session   = [s \in Sessions |-> NoSession]
  /\ mailToken = [m \in MailTokens |-> NoMailToken]
  /\ req       = [r \in Requests |-> Idle]
  /\ cut       = 0
  /\ failures  = 0

-----------------------------------------------------------------------------
(* Requests *)

RequestRow ==
  [op : {"signup", "login", "refresh", "verifyEmail", "resend", "forgotPassword",
         "resetPassword", "setPassword", "deactivate"},
   at : {"create user", "create token", "create session", "revoke", "verify user",
         "use token", "read last token", "set password", "revoke all", "write"},
   token : Nat, password : 0..MaxPasswords, overtaken : BOOLEAN]

\* An empty slot is no request.
ASSUME IdleAssumption == Idle \notin RequestRow

Request(op, at, token, password) ==
  [op |-> op, at |-> at, token |-> token, password |-> password, overtaken |-> FALSE]

InFlight(r) == req[r] # Idle

\* Request r is at this statement of this handler.
At(r, op, at) == InFlight(r) /\ req[r].op = op /\ req[r].at = at

Begins(r, q) == req[r] = Idle /\ req' = [req EXCEPT ![r] = q]
GoesTo(r, at) == req' = [req EXCEPT ![r].at = at]
Ends(r) == req' = [req EXCEPT ![r] = Idle]

\* findUserByEmail and requireAuth only see a row that is not deactivated.
Found == user.state = "LIVE"

\* Writes by id meet the row unless the cleanup job has removed it.
RowExists == user.state \in {"LIVE", "DELETED"}

\* The next unused number; the ids themselves are random.
NextSession   == {s \in Sessions : /\ session[s].status = "NONE"
                                   /\ \A i \in 1..(s - 1) : session[i].status # "NONE"}
NextMailToken(tokens) ==
  {m \in tokens : /\ mailToken[m].status = "NONE"
                  /\ \A i \in tokens : i < m => mailToken[i].status # "NONE"}

\* The foreign key fails, and the request with it, when the user has been removed.
CreateMailToken(tokens, age) ==
  IF RowExists
  THEN \E m \in NextMailToken(tokens) :
         mailToken' = [mailToken EXCEPT ![m] = [status |-> "FRESH", age |-> age]]
  ELSE UNCHANGED mailToken

\* An access token is held by who has logged in.
HasAccess == \E s \in Sessions : session[s].status # "NONE"

\* The mutant of RevokeAll: the newest session is kept, as for "sign out other devices".
RevokeAllButNewest ==
  session' = [s \in Sessions |->
                IF session[s].status = "VALID" /\ \E n \in Sessions : n > s /\ session[n].status = "VALID"
                THEN [session[s] EXCEPT !.status = "REVOKED"] ELSE session[s]]

\* updateMany where userId and revokedAt = null.  Requests in flight are overtaken.
RevokeAll ==
  session' = [s \in Sessions |->
                IF session[s].status = "VALID"
                THEN [session[s] EXCEPT !.status = "REVOKED"] ELSE session[s]]

Overtake(r) ==
  req' = [q \in Requests |->
            IF q = r \/ ~InFlight(q) THEN Idle ELSE [req[q] EXCEPT !.overtaken = TRUE]]

SetPasswordTo(p) == user' = [user EXCEPT !.password = p]

\* The password of a deactivated row is nobody's, whatever is written over it.
NewPassword ==
  /\ RowExists
  /\ IF Found
     THEN user.password < MaxPasswords /\ SetPasswordTo(user.password + 1)
     ELSE UNCHANGED user

-----------------------------------------------------------------------------
(* signup: find by e-mail, create the user, create its token *)

SignupFinds(r) ==
  /\ user.state = "ABSENT"
  /\ Begins(r, Request("signup", "create user", 0, 0))
  /\ UNCHANGED <<user, session, mailToken, group, cut, failures>>

\* The e-mail is unique: of two overlapping signups the second fails here.
SignupCreatesUser(r) ==
  /\ At(r, "signup", "create user")
  /\ IF user.state = "ABSENT"
     THEN user' = [user EXCEPT !.state = "LIVE"] /\ GoesTo(r, "create token")
     ELSE UNCHANGED user /\ Ends(r)
  /\ UNCHANGED <<session, mailToken, group, cut, failures>>

SignupCreatesToken(r) ==
  /\ At(r, "signup", "create token")
  /\ CreateMailToken(VerifyTokens, "recent")
  /\ Ends(r)
  /\ UNCHANGED <<user, session, group, cut, failures>>

-----------------------------------------------------------------------------
(* login: find by e-mail, compare the password, create a session *)

LoginChecks(r) ==
  /\ Found /\ user.verified
  /\ Begins(r, Request("login", "create session", 0, user.password))
  /\ UNCHANGED <<user, session, mailToken, group, cut, failures>>

\* What the new row remembers of the request that makes it, and of its parent.
Late(q) ==
  CASE q.overtaken -> "itself"
    [] ~q.overtaken /\ q.token # 0 /\ session[q.token].late # "no" -> "descends"
    [] OTHER -> "no"

\* The last step of login and of refresh.
CreateSession(r) ==
  /\ At(r, "login", "create session") \/ At(r, "refresh", "create session")
  /\ \E s \in NextSession :
       session' = [session EXCEPT
                     ![s] = [status |-> "VALID", rotated |-> FALSE,
                             parent |-> req[r].token, password |-> req[r].password,
                             late |-> Late(req[r])]]
  /\ Ends(r)
  /\ UNCHANGED <<user, mailToken, group, cut, failures>>

-----------------------------------------------------------------------------
(* refresh: find the token with its user, revoke it by id, create its successor *)

\* The mutant of RefreshFinds: a token that is not found is not refused.
RefreshFindsNothing(r) ==
  /\ Found
  /\ Begins(r, Request("refresh", "revoke", 0, 0))
  /\ UNCHANGED <<user, session, mailToken, group, cut, failures>>

RefreshFinds(r) ==
  /\ \E s \in Sessions :
       /\ session[s].status = "VALID"
       /\ Found
       /\ Begins(r, Request("refresh", "revoke", s, session[s].password))
  /\ UNCHANGED <<user, session, mailToken, group, cut, failures>>

\* The mutant of RefreshRevokes: the successor is not created.
RefreshRevokesOnly(r) ==
  /\ At(r, "refresh", "revoke")
  /\ session' = [session EXCEPT ![req[r].token].status = "REVOKED",
                                ![req[r].token].rotated = TRUE]
  /\ Ends(r)
  /\ UNCHANGED <<user, mailToken, group, cut, failures>>

\* Unconditional: an overlapping refresh may have revoked it already.
RefreshRevokes(r) ==
  /\ At(r, "refresh", "revoke")
  /\ session' = [session EXCEPT ![req[r].token].status = "REVOKED",
                                ![req[r].token].rotated = TRUE]
  /\ GoesTo(r, "create session")
  /\ UNCHANGED <<user, mailToken, group, cut, failures>>

\* One statement: updateMany where the token is not revoked yet.
Logout ==
  /\ \E s \in Sessions :
       /\ session[s].status = "VALID"
       /\ session' = [session EXCEPT ![s].status = "REVOKED"]
  /\ UNCHANGED <<user, mailToken, group, req, cut, failures>>

-----------------------------------------------------------------------------
(* verifyEmail: find the token with its user, verify the user, use the token *)

VerifyFinds(r) ==
  /\ \E m \in VerifyTokens :
       /\ mailToken[m].status = "FRESH" /\ mailToken[m].age # "expired"
       /\ ~user.verified
       /\ Begins(r, Request("verifyEmail", "verify user", m, 0))
  /\ UNCHANGED <<user, session, mailToken, group, cut, failures>>

\* By id: fails when the cleanup has removed the user in between.
VerifyUser(r) ==
  /\ At(r, "verifyEmail", "verify user")
  /\ IF RowExists
     THEN user' = [user EXCEPT !.verified = TRUE] /\ GoesTo(r, "use token")
     ELSE UNCHANGED user /\ Ends(r)
  /\ UNCHANGED <<session, mailToken, group, cut, failures>>

\* The second statement of verifyEmail and of resetPassword: by id, whatever became of
\* the token; it fails, and ends the request, when the cleanup has deleted the row.
UseToken(r) ==
  /\ At(r, "verifyEmail", "use token") \/ At(r, "resetPassword", "use token")
  /\ LET m == req[r].token
     IN  IF mailToken[m].status = "GONE"
         THEN UNCHANGED mailToken /\ Ends(r)
         ELSE /\ mailToken' = [mailToken EXCEPT ![m].status = "USED"]
              /\ IF req[r].op = "resetPassword" THEN GoesTo(r, "revoke all") ELSE Ends(r)
  /\ UNCHANGED <<user, session, group, cut, failures>>

-----------------------------------------------------------------------------
(* resendVerificationEmail: find the user, find its last token, create another *)

ResendFinds(r) ==
  /\ Found /\ ~user.verified
  /\ Begins(r, Request("resend", "read last token", 0, 0))
  /\ UNCHANGED <<user, session, mailToken, group, cut, failures>>

\* The mutant of ThrottledNow: the comparison with the window is turned round.
ThrottledLater ==
  \E m \in VerifyTokens : /\ mailToken[m].status \in {"FRESH", "USED"}
                        /\ mailToken[m].age # "recent"

\* Tokens of an account age in the order of their creation, so its last one is recent
\* when any is.
ThrottledNow ==
  \E m \in VerifyTokens : /\ mailToken[m].status \in {"FRESH", "USED"}
                        /\ mailToken[m].age = "recent"

ResendReadsLastToken(r) ==
  /\ At(r, "resend", "read last token")
  /\ IF ThrottledNow THEN Ends(r) ELSE GoesTo(r, "create token")
  /\ UNCHANGED <<user, session, mailToken, group, cut, failures>>

\* forgotPassword: find the user, create a token; no throttle.
ForgotFinds(r) ==
  /\ Found /\ user.verified
  /\ Begins(r, Request("forgotPassword", "create token", 0, 0))
  /\ UNCHANGED <<user, session, mailToken, group, cut, failures>>

ResendOrForgotCreates(r) ==
  /\ \/ At(r, "resend", "create token") /\ CreateMailToken(VerifyTokens, "recent")
     \/ At(r, "forgotPassword", "create token") /\ CreateMailToken(ResetTokens, "old")
  /\ Ends(r)
  /\ UNCHANGED <<user, session, group, cut, failures>>

-----------------------------------------------------------------------------
(* resetPassword: find the token, set the password, use the token, revoke all sessions *)

ResetFinds(r) ==
  /\ \E m \in ResetTokens :
       /\ mailToken[m].status = "FRESH" /\ mailToken[m].age # "expired"
       /\ Begins(r, Request("resetPassword", "set password", m, 0))
  /\ UNCHANGED <<user, session, mailToken, group, cut, failures>>

ResetSetsPassword(r) ==
  /\ At(r, "resetPassword", "set password")
  /\ NewPassword
  /\ GoesTo(r, "use token")
  /\ UNCHANGED <<session, mailToken, group, cut, failures>>

ResetRevokesAll(r) ==
  /\ At(r, "resetPassword", "revoke all")
  /\ RevokeAll
  /\ Overtake(r)
  /\ cut' = user.password
  /\ UNCHANGED <<user, mailToken, group, failures>>

\* setPassword of a logged-in user: requireAuth reads the user, then one update.
SetPasswordAuthorized(r) ==
  /\ HasAccess /\ Found
  /\ Begins(r, Request("setPassword", "set password", 0, 0))
  /\ UNCHANGED <<user, session, mailToken, group, cut, failures>>

SetPassword(r) ==
  /\ At(r, "setPassword", "set password")
  /\ NewPassword
  /\ Ends(r)
  /\ UNCHANGED <<session, mailToken, group, cut, failures>>

-----------------------------------------------------------------------------
(* deactivateMyAccount: find the user, then one transaction *)

DeactivateFinds(r) ==
  /\ HasAccess /\ Found
  /\ Begins(r, Request("deactivate", "write", 0, 0))
  /\ UNCHANGED <<user, session, mailToken, group, cut, failures>>

UseAllTokens ==
  mailToken' = [m \in MailTokens |->
                  IF mailToken[m].status = "FRESH"
                  THEN [mailToken[m] EXCEPT !.status = "USED"] ELSE mailToken[m]]

\* The mutant of DeactivateMyAccount: the sessions are forgotten.
DeactivateKeepsSessions(r) ==
  /\ At(r, "deactivate", "write")
  /\ UNCHANGED session
  /\ UseAllTokens
  /\ user' = [user EXCEPT !.state = "DELETED", !.verified = FALSE]
  /\ Overtake(r)
  /\ cut' = user.password
  /\ UNCHANGED <<group, failures>>

DeactivateMyAccount(r) ==
  /\ At(r, "deactivate", "write")
  /\ RevokeAll
  /\ UseAllTokens
  /\ user' = [user EXCEPT !.state = "DELETED", !.verified = FALSE]
  /\ Overtake(r)
  /\ cut' = user.password
  /\ UNCHANGED <<group, failures>>

-----------------------------------------------------------------------------
(* The cleanup jobs, the clock, and requests that die *)

\* The mutant of CleanupUnverifiedUsers: only users without a token are removed.
CleanupUsersWithoutToken ==
  /\ user.state = "LIVE" /\ ~user.verified /\ user.aged
  /\ \A m \in VerifyTokens : mailToken[m].status # "FRESH"
  /\ user' = [user EXCEPT !.state = "REMOVED"]
  /\ mailToken' = [m \in MailTokens |->
                     IF mailToken[m].status = "NONE" THEN mailToken[m]
                     ELSE [NoMailToken EXCEPT !.status = "GONE"]]
  /\ UNCHANGED <<session, group, req, cut, failures>>

\* deleteMany; the tokens of the user go with the row.
CleanupUnverifiedUsers ==
  /\ user.state = "LIVE" /\ ~user.verified /\ user.aged
  /\ user' = [user EXCEPT !.state = "REMOVED"]
  /\ mailToken' = [m \in MailTokens |->
                     IF mailToken[m].status = "NONE" THEN mailToken[m]
                     ELSE [NoMailToken EXCEPT !.status = "GONE"]]
  /\ UNCHANGED <<session, group, req, cut, failures>>

Disposable(m) ==
  /\ mailToken[m].status \in {"FRESH", "USED"}
  /\ mailToken[m].age = "expired" \/ mailToken[m].status = "USED"

CleanupExpiredVerificationTokens ==
  /\ \E m \in MailTokens : Disposable(m)
  /\ mailToken' = [m \in MailTokens |->
                     IF Disposable(m) THEN [NoMailToken EXCEPT !.status = "GONE"]
                     ELSE mailToken[m]]
  /\ UNCHANGED <<user, session, group, req, cut, failures>>

AccountAges ==
  /\ user.state = "LIVE" /\ ~user.aged
  /\ user' = [user EXCEPT !.aged = TRUE]
  /\ UNCHANGED <<session, mailToken, group, req, cut, failures>>

MailTokenAges(m) ==
  /\ mailToken[m].status \in {"FRESH", "USED"} /\ mailToken[m].age # "expired"
  /\ mailToken' = [mailToken EXCEPT
                     ![m].age = IF @ = "recent" THEN "old" ELSE "expired"]
  /\ UNCHANGED <<user, session, group, req, cut, failures>>

Dies(r) ==
  /\ InFlight(r) /\ failures < MaxFailures
  /\ Ends(r)
  /\ failures' = failures + 1
  /\ UNCHANGED <<user, session, mailToken, group, cut>>

-----------------------------------------------------------------------------
Begin(r) ==
  \/ /\ group = "registration"
     /\ SignupFinds(r) \/ VerifyFinds(r) \/ ResendFinds(r)
  \/ /\ group = "sessions"
     /\ \/ LoginChecks(r) \/ RefreshFinds(r) \/ ForgotFinds(r) \/ ResetFinds(r)
        \/ SetPasswordAuthorized(r) \/ DeactivateFinds(r)

Continue(r) ==
  \/ SignupCreatesUser(r) \/ SignupCreatesToken(r) \/ CreateSession(r)
  \/ RefreshRevokes(r) \/ VerifyUser(r) \/ UseToken(r)
  \/ ResendReadsLastToken(r) \/ ResendOrForgotCreates(r)
  \/ ResetSetsPassword(r) \/ ResetRevokesAll(r)
  \/ SetPassword(r) \/ DeactivateMyAccount(r)

Background ==
  \/ CleanupUnverifiedUsers \/ CleanupExpiredVerificationTokens
  \/ AccountAges
  \/ \E m \in MailTokens : MailTokenAges(m)

Next ==
  \/ \E r \in Requests : Begin(r) \/ Continue(r) \/ Dies(r)
  \/ Logout
  \/ Background

Spec == Init /\ [][Next]_vars

\* Time passes and the daily job runs; nobody has to click or to log in.
Fairness == WF_vars(AccountAges) /\ WF_vars(CleanupUnverifiedUsers)

FairSpec == Spec /\ Fairness
-----------------------------------------------------------------------------
(* Properties *)

\* Every column and every request has its type, and a request holds a token that its
\* handler has really read.
TypeOK ==
  /\ user \in UserRow
  /\ session \in [Sessions -> SessionRow]
  /\ mailToken \in [MailTokens -> MailTokenRow]
  /\ group \in Groups
  /\ req \in [Requests -> RequestRow \cup {Idle}]
  /\ cut \in 0..MaxPasswords
  /\ failures \in 0..MaxFailures
  /\ \A r \in Requests : InFlight(r) =>
       /\ req[r].op = "login" => req[r].token = 0
       /\ req[r].op = "refresh" => req[r].token \in Sessions
       /\ req[r].op \in {"verifyEmail", "resetPassword"} => req[r].token \in MailTokens

\* After resetPassword (index.js:338) or a deactivation has revoked the sessions, the
\* only ones that go back to an older password are those of requests that were in
\* flight at that moment.  Rests on the order of the statements: the password first.
SurvivorsWereInFlight ==
  \A s \in Sessions :
    session[s].status = "VALID" /\ session[s].password < cut => session[s].late # "no"

\* A deactivated account (account.js:88) keeps no session but one written by a request
\* in flight at its deactivation, and not even that one can be prolonged.
DeactivatedIsOut ==
  user.state = "DELETED" =>
    \A s \in Sessions : session[s].status = "VALID" => session[s].late = "itself"

Successors(s) == {n \in Sessions : session[n].status # "NONE" /\ session[n].parent = s}

\* Rotation (index.js:126): unless a request died, whoever spent a refresh token got, or
\* is getting, a new one.
RotationKeepsSession ==
  \A s \in Sessions :
    session[s].rotated /\ failures = 0 =>
      \/ Successors(s) # {}
      \/ \E r \in Requests : At(r, "refresh", "create session") /\ req[r].token = s

\* A token is spent twice only by overlapping refreshes (index.js:109), so it has never more
\* successors than requests that can run at the same time.  The runs have too few sessions
\* to break it; it is proved in AuthTokens_proofs.
SuccessorsBounded ==
  \A s \in Sessions : Cardinality(Successors(s)) <= Cardinality(Requests)

\* resendVerificationEmail throttles to one mail in five minutes (index.js:229); requests
\* that overlap escape it, but never more of them than run at the same time.
ResendThrottled ==
  Cardinality({m \in VerifyTokens : /\ mailToken[m].status \in {"FRESH", "USED"}
                                  /\ mailToken[m].age = "recent"})
    <= Cardinality(Requests)

\* An unverified account does not stay: at last it is verified, or the cleanup job has
\* removed it, whatever the requests that are working on it do.
AccountSettles ==
  (user.state = "LIVE" /\ ~user.verified) ~> (user.state # "LIVE" \/ user.verified)
=============================================================================
