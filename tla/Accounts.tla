------------------------------ MODULE Accounts ------------------------------
(***************************************************************************)
(* Accounts and sessions: signing in by password or mailed code,           *)
(* registration by invitation, passwords and their resets, on the server   *)
(* (internal/auth, internal/admin), with the browsers and the user data    *)
(* they keep in the query cache (web/src/pages/login, register, invite,    *)
(* settings, ...).                                                         *)
(*                                                                         *)
(* A sign-in is several statements outside a transaction.  The data that   *)
(* a browser keeps is not keyed by user: only a logout empties the cache.  *)
(***************************************************************************)
EXTENDS Naturals, Sequences, FiniteSets

CONSTANTS
  Users,     \* the people, by their addresses
  Members,   \* those with an account at the start
  Browsers,
  Nobody,
  MaxUses,   \* the most uses an administrator gives an invitation
  MaxTries,  \* emailCodeMaxTries
  MaxCalls,  \* bound: requests that sign in, out or change a password
  MaxOthers  \* bound: codes that are mailed or expire, acts of the administrator, fetches

ASSUME AccountsAssumption ==
  /\ Members \subseteq Users /\ Nobody \notin Users
  /\ MaxUses \in Nat /\ MaxTries \in Nat \ {0}
  /\ MaxCalls \in Nat /\ MaxOthers \in Nat

VARIABLES
  users,       \* status, the number of the password, the one of the last reset,
               \* and the reset link that works
  sessions,    \* by id: of whom, whether it was not revoked, what it was opened with
  codes,       \* auth_email_codes in their order: attempts, whether they were not
               \* consumed and have not expired
  invitation,  \* max_uses, used_count and revoked_at of one invitation
  mode,        \* registration_mode; closed is like invite here
  browsers,    \* cookie, the cache, fetches, the request under way, and (history)
               \* whether one signed in after a logout or over what was there
  bounds       \* bound: calls and others so far

serverVars == <<users, sessions, codes, invitation, mode>>
vars == <<serverVars, browsers, bounds>>

Idle == <<>>
NoRequest == [op |-> "none", user |-> Nobody, password |-> 0, code |-> 0, stage |-> "sent", session |-> 0]
NoSession == 0

Counted(bound, max) == bounds[bound] < max /\ bounds' = [bounds EXCEPT ![bound] = @ + 1]

Req(b) == browsers[b].req
Goes(b, stage) == browsers' = [browsers EXCEPT ![b].req.stage = stage]

-----------------------------------------------------------------------------
(* What the pages send; one at a time, as their buttons are disabled       *)

Sends(b, request) ==
  /\ Req(b) = NoRequest /\ Counted("calls", MaxCalls)
  /\ browsers' = [browsers EXCEPT ![b].req = request]
  /\ UNCHANGED serverVars

Request(op, user) == [NoRequest EXCEPT !.op = op, !.user = user]

\* handlePasswordLogin, with this password or an earlier one.
HandlePasswordLogin(b, user) ==
  \E password \in 1..users[user].password :
    Sends(b, [Request("password", user) EXCEPT !.password = password])

\* handleCodeLogin, handleVerify, handleSubmit: a code that was mailed to this
\* address, or a wrong one.
HandleCode(b, user, op) ==
  \E code \in {i \in DOMAIN codes : codes[i].user = user /\ codes[i].op = op} \cup {0} :
    Sends(b, [Request(op, user) EXCEPT !.code = code])

SignedIn(b) == browsers[b].who # Nobody

HandleChangePassword(b, user) ==
  /\ SignedIn(b)
  /\ \E password \in 1..users[user].password, op \in {"change", "change alone"} :
       Sends(b, [Request(op, user) EXCEPT !.password = password])

HandleRevokeSession(b, session) ==
  /\ SignedIn(b) /\ session # browsers[b].cookie
  /\ Sends(b, [Request("revoke", browsers[b].who) EXCEPT !.session = session])

HandleLogout(b) == SignedIn(b) /\ Sends(b, Request("logout", browsers[b].who))

\* The reset page with the last link that was sent.
HandleReset(b, user) == users[user].linked /\ Sends(b, Request("reset", user))

-----------------------------------------------------------------------------
(* The server                                                              *)

Active(user) == users[user].status = "active"
Failing(b) == Goes(b, "failed")

\* The answer arrives, or the browser sees a failure.
Answering(b) == Goes(b, "done") \/ Failing(b)

\* Of the cookie: a session that was not revoked, of a user who is not disabled.
Authenticate(b) ==
  LET id == browsers[b].cookie
  IN  IF id = NoSession \/ ~sessions[id].live \/ ~Active(sessions[id].user)
        THEN Nobody ELSE sessions[id].user

\* Login: the password and the status are read ...
VerifyPassword(b) ==
  /\ Req(b).op = "password" /\ Req(b).stage = "sent"
  /\ IF Req(b).password = users[Req(b).user].password /\ Active(Req(b).user)
       THEN Goes(b, "create") ELSE Failing(b)
  /\ UNCHANGED <<serverVars, bounds>>

\* ... and createSession inserts a row, whatever was revoked in between.
CreateSession(b) ==
  /\ Req(b).stage = "create"
  /\ sessions' = Append(sessions,
       [user |-> Req(b).user, live |-> TRUE, password |-> Req(b).password, code |-> Req(b).code,
        late |-> Req(b).password # 0 /\ Req(b).password # users[Req(b).user].password])
  /\ \E stage \in {"done", "failed"} :
       browsers' = [browsers EXCEPT ![b].req.stage = stage, ![b].req.session = Len(sessions')]
  /\ UNCHANGED <<users, codes, invitation, mode, bounds>>

\* RequestEmailCode: for an account that can sign in, or a registration that
\* the invitation or the mode allows when it is asked for.
Invited == ~invitation.revoked /\ invitation.used < invitation.limit

RequestCode(user, op, invited) ==
  /\ Counted("others", MaxOthers)
  /\ IF op = "code" THEN Active(user) /\ ~invited
     ELSE IF invited THEN Invited ELSE mode = "open"
  /\ codes' = Append(codes, [user |-> user, op |-> op, invited |-> invited, tries |-> 0, open |-> TRUE, fresh |-> TRUE])
  /\ UNCHANGED <<users, sessions, invitation, mode, browsers>>

\* LatestEmailCode: of those that were not consumed and have not expired.
Usable(user, op) ==
  {i \in DOMAIN codes : codes[i].user = user /\ codes[i].op = op /\ codes[i].open /\ codes[i].fresh}

Latest(user, op) == {i \in Usable(user, op) : \A j \in Usable(user, op) : j <= i}

\* The request once its code is found to be wrong, with the row to count it on.
WrongCode(op, user, row) ==
  [op |-> op, user |-> user, password |-> 0, code |-> row, stage |-> "count", session |-> 0]

\* verifyCodeRecord compares what was read of the row, and with a wrong code ...
VerifyCode(b) ==
  LET user == Req(b).user
      op == Req(b).op
      row == {i \in Latest(user, op) : codes[i].tries < MaxTries}
  IN  /\ op \in {"code", "register"} /\ Req(b).stage = "sent"
      /\ \/ row = {} /\ Failing(b)
         \/ Req(b).code \in row /\ Goes(b, "consume")
         \/ \E i \in row : /\ i # Req(b).code
                            /\ browsers' = [browsers EXCEPT ![b].req = WrongCode(op, user, i)]
      /\ UNCHANGED <<serverVars, bounds>>

\* ... BumpEmailCodeAttempt counts the attempt, by then perhaps one too many.
CountAttempt(b) ==
  /\ Req(b).stage = "count"
  /\ codes' = [codes EXCEPT ![Req(b).code].tries = @ + 1]
  /\ Failing(b)
  /\ UNCHANGED <<users, sessions, invitation, mode, bounds>>

\* Mutant: the row is updated whether or not it was consumed.
ConsumableAgain(code) == TRUE

\* ConsumeEmailCode updates the row only if nobody else consumed it; it may have
\* expired since it was read.
Consumable(code) == codes[code].open

ConsumeCode(b) ==
  /\ Req(b).stage = "consume"
  /\ codes' = IF Consumable(Req(b).code) THEN [codes EXCEPT ![Req(b).code].open = FALSE] ELSE codes
  /\ Goes(b, IF ~Consumable(Req(b).code) THEN "failed" ELSE IF Req(b).op = "code" THEN "lookup" ELSE "register")
  /\ UNCHANGED <<users, sessions, invitation, mode, bounds>>

\* VerifyEmailCodeLogin after the code was consumed.
LookUp(b) ==
  /\ Req(b).stage = "lookup"
  /\ IF Active(Req(b).user) THEN Goes(b, "create") ELSE Failing(b)
  /\ UNCHANGED <<serverVars, bounds>>

\* The transaction of a registration reads the invitation or the mode again.
Admitted(invited) == IF invited THEN Invited ELSE mode = "open"

\* RegisterWithInvitation, RegisterOpen: the account, the use of the invitation
\* and the session, or nothing; the code is gone either way.
Register(b) ==
  LET user == Req(b).user
      invited == codes[Req(b).code].invited
  IN  /\ Req(b).stage = "register"
      /\ IF users[user].status = "none" /\ Admitted(invited)
           THEN /\ users' = [users EXCEPT ![user].status = "active", ![user].password = 1]
                /\ invitation' = [invitation EXCEPT !.used = IF invited THEN @ + 1 ELSE @]
                /\ sessions' = Append(sessions, [user |-> user, live |-> TRUE, password |-> 1,
                                                 code |-> Req(b).code, late |-> FALSE])
                /\ \E stage \in {"done", "failed"} :
                     browsers' = [browsers EXCEPT ![b].req.stage = stage, ![b].req.session = Len(sessions')]
           ELSE Failing(b) /\ UNCHANGED <<users, invitation, sessions>>
      /\ UNCHANGED <<codes, mode, bounds>>

\* Sessions of a user end, but for the one that is kept.
Revoked(user, kept) ==
  [i \in DOMAIN sessions |->
     IF sessions[i].user = user /\ i # kept THEN [sessions[i] EXCEPT !.live = FALSE] ELSE sessions[i]]

\* Mutant: a reset leaves the sessions as they are.
ResetSessionsKept(user) == sessions

\* ConsumePasswordResetToken
ResetSessions(user) == Revoked(user, NoSession)

\* A reset: the link is used up, the password is new, every session ends.
Reset(b) ==
  LET user == Req(b).user
  IN  /\ Req(b).op = "reset" /\ Req(b).stage = "sent"
      /\ IF users[user].linked
           THEN /\ users' = [users EXCEPT ![user].linked = FALSE, ![user].password = @ + 1,
                                          ![user].since = users[user].password + 1]
                /\ sessions' = ResetSessions(user)
                /\ Answering(b)
           ELSE Failing(b) /\ UNCHANGED <<users, sessions>>
      /\ UNCHANGED <<codes, invitation, mode, bounds>>

\* ChangePassword reads the current password ...
VerifyCurrent(b) ==
  /\ Req(b).op \in {"change", "change alone"} /\ Req(b).stage = "sent"
  /\ IF Authenticate(b) = Req(b).user /\ Req(b).password = users[Req(b).user].password
       THEN Goes(b, "update") ELSE Failing(b)
  /\ UNCHANGED <<serverVars, bounds>>

\* ... and UpdatePassword replaces whatever is there then.
UpdatePassword(b) ==
  LET user == Req(b).user
  IN  /\ Req(b).stage = "update"
      /\ users' = [users EXCEPT ![user].password = @ + 1]
      /\ sessions' = IF Req(b).op = "change" THEN Revoked(user, browsers[b].cookie) ELSE sessions
      /\ Answering(b)
      /\ UNCHANGED <<codes, invitation, mode, bounds>>

\* RevokeOwnedSession: one's own only.
RevokeSession(b) ==
  LET id == Req(b).session
  IN  /\ Req(b).op = "revoke" /\ Req(b).stage = "sent"
      /\ IF Authenticate(b) # Nobody /\ sessions[id].live /\ sessions[id].user = Authenticate(b)
           THEN sessions' = [sessions EXCEPT ![id].live = FALSE] /\ Answering(b)
           ELSE Failing(b) /\ UNCHANGED sessions
      /\ UNCHANGED <<users, codes, invitation, mode, bounds>>

\* Logout deletes the row; a lost answer leaves the cookie and the cache.
Logout(b) ==
  LET id == browsers[b].cookie
  IN  /\ Req(b).op = "logout" /\ Req(b).stage = "sent"
      /\ sessions' = IF id = NoSession THEN sessions ELSE [sessions EXCEPT ![id].live = FALSE]
      /\ Answering(b)
      /\ UNCHANGED <<users, codes, invitation, mode, bounds>>

-----------------------------------------------------------------------------
(* Answers in the browser                                                  *)

\* applySession: the session's entry is written, the rest of the cache is kept.
Applied(b) ==
  [browsers[b] EXCEPT !.cookie = Req(b).session, !.who = Req(b).user, !.req = NoRequest,
                      !.past = IF @ = "out" THEN "in" ELSE "over"]

\* Mutant: only the entry of the session is removed.
ClearedSession(b) == [browsers[b] EXCEPT !.cookie = NoSession, !.who = Nobody, !.past = "out", !.req = NoRequest]

\* useLogout: queryClient.clear, also of the fetches that are under way.
Cleared(b) ==
  [browsers[b] EXCEPT !.cookie = NoSession, !.who = Nobody, !.data = Nobody, !.asking = Idle,
                      !.fetching = Idle, !.past = "out", !.req = NoRequest]

Answered(b) ==
  /\ Req(b).stage \in {"done", "failed"}
  /\ browsers' = [browsers EXCEPT ![b] =
       IF Req(b).stage = "done" /\ Req(b).op \in {"password", "code", "register"} THEN Applied(b)
       ELSE IF Req(b).stage = "done" /\ Req(b).op = "logout" THEN Cleared(b)
       ELSE [@ EXCEPT !.req = NoRequest]]
  /\ UNCHANGED <<serverVars, bounds>>

-----------------------------------------------------------------------------
(* Fetches: the session's entry, and what is kept of the user              *)

\* useCurrentUser, once what it has is five minutes old.
AskSession(b) ==
  /\ browsers[b].asking = Idle /\ Counted("others", MaxOthers)
  /\ browsers' = [browsers EXCEPT ![b].asking = <<Authenticate(b)>>]
  /\ UNCHANGED serverVars

SessionArrives(b) ==
  /\ browsers[b].asking # Idle
  /\ browsers' = [browsers EXCEPT ![b].asking = Idle, ![b].who = browsers[b].asking[1]]
  /\ UNCHANGED <<serverVars, bounds>>

\* useProfile, useSessions, useMyPage: only with a user, and whoever the cookie
\* is of answers; a refusal leaves what there is.
Fetch(b) ==
  /\ SignedIn(b) /\ browsers[b].fetching = Idle /\ Counted("others", MaxOthers)
  /\ browsers' = [browsers EXCEPT ![b].fetching = <<Authenticate(b)>>]
  /\ UNCHANGED serverVars

DataArrives(b) ==
  /\ browsers[b].fetching # Idle
  /\ browsers' = [browsers EXCEPT ![b].fetching = Idle,
       ![b].data = IF browsers[b].fetching[1] = Nobody THEN @ ELSE browsers[b].fetching[1]]
  /\ UNCHANGED <<serverVars, bounds>>

-----------------------------------------------------------------------------
(* The administrator, and time                                             *)

Administers ==
  /\ Counted("others", MaxOthers)
  /\ UNCHANGED browsers

\* Disabling ends every session of the user in the same transaction.
SetUserStatus(user, status) ==
  /\ users[user].status \in {"active", "disabled"} \ {status}
  /\ users' = [users EXCEPT ![user].status = status]
  /\ sessions' = IF status = "disabled" THEN Revoked(user, NoSession) ELSE sessions
  /\ UNCHANGED <<codes, invitation, mode>>

RevokeUserSessions(user) ==
  /\ users[user].status # "none"
  /\ sessions' = Revoked(user, NoSession)
  /\ UNCHANGED <<users, codes, invitation, mode>>

\* A new link makes the earlier ones void.
IssueReset(user) ==
  /\ users[user].status # "none"
  /\ users' = [users EXCEPT ![user].linked = TRUE]
  /\ UNCHANGED <<sessions, codes, invitation, mode>>

\* The invitation is created, with the uses the administrator entered.
CreateInvitation(limit) ==
  /\ invitation.limit = 0 /\ invitation' = [invitation EXCEPT !.limit = limit]
  /\ UNCHANGED <<users, sessions, codes, mode, browsers, bounds>>

RevokeInvitation ==
  /\ invitation.limit > 0
  /\ ~invitation.revoked /\ invitation' = [invitation EXCEPT !.revoked = TRUE]
  /\ UNCHANGED <<users, sessions, codes, mode>>

SetMode(m) ==
  /\ mode' = m /\ m # mode
  /\ UNCHANGED <<users, sessions, codes, invitation>>

CodeExpires(i) ==
  /\ codes[i].fresh /\ codes' = [codes EXCEPT ![i].fresh = FALSE]
  /\ UNCHANGED <<users, sessions, invitation, mode>>

-----------------------------------------------------------------------------
(* The system                                                              *)

Init ==
  /\ users = [u \in Users |-> [status |-> IF u \in Members THEN "active" ELSE "none",
                               password |-> IF u \in Members THEN 1 ELSE 0, since |-> 0, linked |-> FALSE]]
  /\ sessions = <<>> /\ codes = <<>>
  /\ invitation = [limit |-> 0, used |-> 0, revoked |-> FALSE] /\ mode = "invite"
  /\ browsers = [b \in Browsers |-> [cookie |-> NoSession, who |-> Nobody, data |-> Nobody, asking |-> Idle,
                                     fetching |-> Idle, past |-> "out", req |-> NoRequest]]
  /\ bounds = [calls |-> 0, others |-> 0]

HandleSendCode(user) == RequestCode(user, "code", FALSE)

\* The pages of those who are signed out; signed in, one can open them too.
LoginPage(b) ==
  \E user \in Users : \/ HandlePasswordLogin(b, user) \/ HandleCode(b, user, "code")
                      \/ HandleSendCode(user)

RegisterPage(b) == \E user \in Users : HandleCode(b, user, "register") \/ RequestCode(user, "register", FALSE)

InvitePage == \E user \in Users : RequestCode(user, "register", TRUE)

ResetPasswordPage(b) == \E user \in Users : HandleReset(b, user)

\* A link is asked for without an account's existence being shown.
ForgotPasswordPage == \E user \in Users : Active(user) /\ IssueReset(user)

SettingsPage(b) ==
  \/ HandleLogout(b) \/ HandleChangePassword(b, browsers[b].who)
  \/ \E session \in DOMAIN sessions : HandleRevokeSession(b, session)

HandleAction(user) ==
  \/ \E status \in {"active", "disabled"} : SetUserStatus(user, status)
  \/ RevokeUserSessions(user) \/ IssueReset(user)

AdminUsersPage == \E user \in Users : HandleAction(user)

AdminInvitationsPage == \E limit \in 1..MaxUses : CreateInvitation(limit)

\* A statement fails, the count of a wrong code too, or the server is gone.
StatementFails(b) ==
  /\ Req(b).op # "none" /\ Req(b).stage \notin {"done", "failed"}
  /\ Failing(b)
  /\ UNCHANGED <<serverVars, bounds>>

Served(b) ==
  \/ VerifyPassword(b) \/ CreateSession(b) \/ VerifyCode(b) \/ CountAttempt(b) \/ ConsumeCode(b)
  \/ LookUp(b) \/ Register(b) \/ Reset(b) \/ VerifyCurrent(b) \/ UpdatePassword(b)
  \/ RevokeSession(b) \/ Logout(b) \/ StatementFails(b)

Next ==
  \/ \E b \in Browsers :
       \/ LoginPage(b) \/ RegisterPage(b) \/ ResetPasswordPage(b) \/ SettingsPage(b)
       \/ Served(b) \/ Answered(b) \/ AskSession(b) \/ SessionArrives(b) \/ Fetch(b) \/ DataArrives(b)
  \/ InvitePage \/ AdminInvitationsPage
  \/ Administers /\ (AdminUsersPage \/ ForgotPasswordPage \/ RevokeInvitation \/ \E m \in {"invite", "open"} : SetMode(m))
  \/ Administers /\ \E i \in DOMAIN codes : CodeExpires(i)

Spec == Init /\ [][Next]_vars

-----------------------------------------------------------------------------
(* Properties                                                              *)

\* The shape of the state; what a request or a cookie names exists.
TypeOK ==
  /\ users \in [Users -> [status : {"none", "active", "disabled"}, password : Nat, since : Nat, linked : BOOLEAN]]
  /\ sessions \in Seq([user : Users, live : BOOLEAN, password : Nat, code : 0..Len(codes), late : BOOLEAN])
  /\ codes \in Seq([user : Users, op : {"code", "register"}, invited : BOOLEAN, tries : Nat,
                 open : BOOLEAN, fresh : BOOLEAN])
  /\ invitation \in [limit : 0..MaxUses, used : Nat, revoked : BOOLEAN] /\ mode \in {"invite", "open"}
  /\ \A b \in Browsers :
       /\ browsers[b].cookie \in 0..Len(sessions) /\ Req(b).session \in 0..Len(sessions)
       /\ browsers[b].who \in Users \cup {Nobody} /\ browsers[b].data \in Users \cup {Nobody}

\* A code that was mailed opens one session at most, however many requests
\* with it are verified before the first consumes it.
CodesLogInOnce ==
  \A i, j \in DOMAIN sessions : i # j /\ sessions[i].code = sessions[j].code => sessions[i].code = 0

\* No more accounts come from an invitation than it allows, however many were
\* admitted to ask for a code while it had uses left.
InvitationIsNotOverspent == invitation.used <= invitation.limit

\* What admits its bearer once, or a number of times, admits no further.
AdmissionsAreSpent == TypeOK /\ CodesLogInOnce /\ InvitationIsNotOverspent

\* After a reset no session lives that was opened with an earlier password,
\* except one whose sign-in had been verified before the password changed.
ResetEndsSessions ==
  \A i \in DOMAIN sessions :
    sessions[i].live /\ sessions[i].password # 0 =>
      sessions[i].late \/ sessions[i].password >= users[sessions[i].user].since

\* A browser where one signs in shows nothing of the user before, provided that
\* one logged out; not so where a session had ended in another way or one signs
\* in over another's.
NobodyElsesData ==
  \A b \in Browsers :
    SignedIn(b) /\ browsers[b].past = "in" => browsers[b].data \in {Nobody, browsers[b].who}
=============================================================================
