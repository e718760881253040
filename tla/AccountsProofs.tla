--------------------------- MODULE AccountsProofs ---------------------------
(***************************************************************************)
(* What holds of accounts and sessions for any people, browsers and        *)
(* bounds: a code and an invitation admit no further than they say, and    *)
(* no session outlives a reset of its password, unless its sign-in had     *)
(* been verified before, and a browser shows nothing of a user who logged  *)
(* out.                                                                    *)
(*                                                                         *)
(* A code is spent by the request that consumed it until its session is    *)
(* there.  What makes CodesLogInOnce inductive is that spent codes and     *)
(* those of sessions are closed, and that two requests never hold one      *)
(* spent code.                                                             *)
(***************************************************************************)
EXTENDS Accounts, SequenceTheorems, TLAPS

UserSet == [status : {"none", "active", "disabled"}, password : Nat, since : Nat, linked : BOOLEAN]
SessionSet == [user : Users, live : BOOLEAN, password : Nat, code : Nat, late : BOOLEAN]
CodeSet == [user : Users, op : {"code", "register"}, invited : BOOLEAN, tries : Nat,
            open : BOOLEAN, fresh : BOOLEAN]
People == Users \cup {Nobody}
Fetches == {Idle} \cup {<<u>> : u \in People}
Ops == {"none", "password", "code", "register", "change", "change alone", "revoke", "logout", "reset"}
Stages == {"sent", "create", "consume", "count", "lookup", "register", "update", "done", "failed"}
RequestSet == [op : Ops, user : People, password : Nat, code : Nat, stage : Stages, session : Nat]
BrowserSet == [cookie : Nat, who : People, data : People, asking : Fetches, fetching : Fetches,
               past : {"out", "in", "over"}, req : RequestSet]

\* A reset is never ahead of the password; who has no account was never reset.
UsersOK ==
  /\ users \in [Users -> UserSet]
  /\ \A u \in Users : /\ users[u].since <= users[u].password
                      /\ users[u].status = "none" => users[u].since = 0 /\ users[u].linked = FALSE

CodesOK == codes \in Seq(CodeSet)

\* The code a session was opened with is closed.
SessionsOK ==
  /\ sessions \in Seq(SessionSet)
  /\ \A i \in 1..Len(sessions) :
       /\ sessions[i].code <= Len(codes)
       /\ sessions[i].code # 0 => codes[sessions[i].code].open = FALSE

InvitationOK ==
  /\ invitation \in [limit : 0..MaxUses, used : Nat, revoked : BOOLEAN]
  /\ mode \in {"invite", "open"}
  /\ invitation.used <= invitation.limit

\* What a browser names exists, and its request is by someone.
BrowserOK(b) ==
  /\ browsers[b].cookie <= Len(sessions)
  /\ Req(b).session <= Len(sessions) /\ Req(b).code <= Len(codes)
  /\ Req(b).user \in Users \/ (Req(b).op = "none" /\ Req(b).stage = "sent")
  /\ Req(b).op = "password" => Req(b).code = 0
  /\ Req(b).stage \in {"consume", "count"} => Req(b).code # 0

BrowsersOK == browsers \in [Browsers -> BrowserSet] /\ \A b \in Browsers : BrowserOK(b)

\* The request has consumed its code and has no session yet.
Spent(b) == Req(b).stage \in {"lookup", "register", "create"} /\ Req(b).code # 0

SpentOnce ==
  /\ \A b \in Browsers : Spent(b) =>
       /\ codes[Req(b).code].open = FALSE
       /\ \A i \in 1..Len(sessions) : sessions[i].code # Req(b).code
  /\ \A b, c \in Browsers : b # c /\ Spent(b) /\ Spent(c) => Req(b).code # Req(c).code

IInv ==
  /\ UsersOK /\ CodesOK /\ SessionsOK /\ InvitationOK /\ BrowsersOK /\ SpentOnce
  /\ CodesLogInOnce /\ ResetEndsSessions

-----------------------------------------------------------------------------
(* Sequences of rows                                                       *)

LEMMA SameLength ==
  ASSUME NEW S, NEW T, NEW s \in Seq(S), NEW t \in [1..Len(s) -> T]
  PROVE  t \in Seq(T) /\ Len(t) = Len(s)
<1>1. Len(s) \in Nat
  BY LenProperties
<1>2. t \in Seq(T)
  BY <1>1, SeqDef
<1>3. DOMAIN t = 1..Len(t) /\ Len(t) \in Nat
  BY <1>2, LenProperties
<1>4. DOMAIN t = 1..Len(s)
  OBVIOUS
<1> QED
  BY <1>1, <1>2, <1>3, <1>4

LEMMA Domains ==
  ASSUME IInv
  PROVE  /\ Len(sessions) \in Nat /\ DOMAIN sessions = 1..Len(sessions)
         /\ \A i \in 1..Len(sessions) : sessions[i] \in SessionSet
         /\ Len(codes) \in Nat /\ DOMAIN codes = 1..Len(codes)
         /\ \A i \in 1..Len(codes) : codes[i] \in CodeSet
BY LenProperties, ElementOfSeq DEF IInv, SessionsOK, CodesOK

-----------------------------------------------------------------------------
(* Changes that the invariant is insensitive to                            *)

\* Codes are mailed, tried and closed.
CodesLater ==
  /\ codes' \in Seq(CodeSet) /\ Len(codes) <= Len(codes')
  /\ \A i \in 1..Len(codes) : codes[i].open = FALSE => codes'[i].open = FALSE

\* Sessions end.
SessionsEnd ==
  /\ sessions' \in Seq(SessionSet) /\ Len(sessions') = Len(sessions)
  /\ \A i \in 1..Len(sessions) :
       /\ sessions'[i].user = sessions[i].user /\ sessions'[i].password = sessions[i].password
       /\ sessions'[i].code = sessions[i].code /\ sessions'[i].late = sessions[i].late
       /\ sessions'[i].live => sessions[i].live

\* A session is added.
SessionAdded(new) == new \in SessionSet /\ sessions' = Append(sessions, new)

\* Browsers go on, and no code is consumed.
BrowsersGo ==
  /\ browsers' \in [Browsers -> BrowserSet]
  /\ \A b \in Browsers : /\ BrowserOK(b)'
                         /\ Spent(b)' => Spent(b) /\ Req(b)'.code = Req(b).code

LEMMA CodesStay ==
  ASSUME IInv, UNCHANGED codes PROVE CodesLater
BY Domains DEF IInv, CodesOK, CodesLater

LEMMA SessionsStay ==
  ASSUME IInv, UNCHANGED sessions PROVE SessionsEnd
BY Domains DEF IInv, SessionsOK, SessionsEnd

LEMMA BrowsersStay ==
  ASSUME IInv, UNCHANGED browsers, CodesLater, SessionsEnd PROVE BrowsersGo
<1>1. Len(codes') \in Nat
  BY LenProperties DEF CodesLater
<1> QED
  BY <1>1, Domains DEF IInv, BrowsersOK, BrowserOK, BrowsersGo, Spent, Req, CodesLater, SessionsEnd,
     BrowserSet, RequestSet

\* Sessions that end do not come behind a reset that was there.
LEMMA EndingIsSafe ==
  ASSUME IInv, SessionsEnd, \A u \in Users : users'[u].since = users[u].since
  PROVE  ResetEndsSessions'
<1>1. DOMAIN sessions' = 1..Len(sessions)
  BY LenProperties DEF SessionsEnd
<1>2. \A i \in 1..Len(sessions) : sessions[i].user \in Users
  BY Domains DEF SessionSet
<1> QED
  BY <1>1, <1>2, Domains DEF IInv, ResetEndsSessions, SessionsEnd

LEMMA Unspent ==
  ASSUME IInv, CodesLater, SessionsEnd, BrowsersGo, UsersOK', InvitationOK', ResetEndsSessions'
  PROVE  IInv'
<1>1. /\ Len(codes') \in Nat /\ DOMAIN sessions' = 1..Len(sessions)
      /\ DOMAIN sessions = 1..Len(sessions) /\ Len(codes) \in Nat
  BY LenProperties, Domains DEF CodesLater, SessionsEnd
<1>2. CodesOK'
  BY DEF CodesLater, CodesOK
<1>3. SessionsOK'
  <2> SUFFICES ASSUME NEW i \in 1..Len(sessions)
               PROVE  /\ sessions'[i].code <= Len(codes')
                      /\ sessions'[i].code # 0 => codes'[sessions'[i].code].open = FALSE
    BY <1>1 DEF SessionsOK, SessionsEnd
  <2>1. sessions'[i].code = sessions[i].code /\ sessions[i].code \in Nat
    BY Domains DEF SessionsEnd, SessionSet
  <2>2. /\ sessions[i].code <= Len(codes)
        /\ sessions[i].code # 0 => codes[sessions[i].code].open = FALSE
    BY DEF IInv, SessionsOK
  <2> QED
    BY <1>1, <2>1, <2>2 DEF CodesLater
<1>4. BrowsersOK'
  BY DEF BrowsersGo, BrowsersOK
<1>5. SpentOnce'
  <2>1. ASSUME NEW b \in Browsers, Spent(b)'
        PROVE  /\ codes'[Req(b)'.code].open = FALSE
               /\ \A i \in 1..Len(sessions') : sessions'[i].code # Req(b)'.code
    <3>1. Spent(b) /\ Req(b)'.code = Req(b).code
      BY <2>1 DEF BrowsersGo
    <3>2. Req(b).code \in 1..Len(codes)
      BY <3>1, <1>1 DEF Spent, IInv, BrowsersOK, BrowserOK, BrowserSet, RequestSet, Req
    <3>3. codes[Req(b).code].open = FALSE /\ \A i \in 1..Len(sessions) : sessions[i].code # Req(b).code
      BY <3>1 DEF IInv, SpentOnce
    <3> QED
      BY <3>1, <3>2, <3>3 DEF CodesLater, SessionsEnd
  <2>2. ASSUME NEW b \in Browsers, NEW c \in Browsers, b # c, Spent(b)', Spent(c)'
        PROVE  Req(b)'.code # Req(c)'.code
    BY <2>2 DEF BrowsersGo, IInv, SpentOnce
  <2> QED
    BY <2>1, <2>2 DEF SpentOnce
<1>6. CodesLogInOnce'
  BY <1>1 DEF IInv, CodesLogInOnce, SessionsEnd
<1> QED
  BY <1>2, <1>3, <1>4, <1>5, <1>6 DEF IInv

-----------------------------------------------------------------------------
(* One browser goes on                                                     *)

LEMMA BrowserGoes ==
  ASSUME IInv, CodesLater, SessionsEnd, NEW b \in Browsers, NEW r \in BrowserSet,
         browsers' = [browsers EXCEPT ![b] = r],
         r.cookie <= Len(sessions) /\ r.req.session <= Len(sessions) /\ r.req.code <= Len(codes),
         r.req.user \in Users \/ (r.req.op = "none" /\ r.req.stage = "sent"),
         r.req.op = "password" => r.req.code = 0,
         r.req.stage \in {"consume", "count"} => r.req.code # 0,
         r.req.stage \in {"lookup", "register", "create"} /\ r.req.code # 0
           => Spent(b) /\ r.req.code = Req(b).code
  PROVE  BrowsersGo
<1>1. browsers \in [Browsers -> BrowserSet]
  BY DEF IInv, BrowsersOK
<1>2. browsers' \in [Browsers -> BrowserSet]
  BY <1>1
<1>3. /\ Len(codes) \in Nat /\ Len(codes') \in Nat /\ Len(codes) <= Len(codes')
      /\ Len(sessions') = Len(sessions)
  BY LenProperties, Domains DEF CodesLater, SessionsEnd
<1>4. ASSUME NEW c \in Browsers
      PROVE  BrowserOK(c)' /\ (Spent(c)' => Spent(c) /\ Req(c)'.code = Req(c).code)
  <2>1. CASE c = b
    <3>1. browsers'[c] = r
      BY <2>1, <1>1
    <3>2. r.req.code \in Nat
      BY DEF BrowserSet, RequestSet
    <3>3. BrowserOK(c)'
      BY <3>1, <3>2, <1>3 DEF BrowserOK, Req
    <3>4. Spent(c)' => Spent(c) /\ Req(c)'.code = Req(c).code
      BY <2>1, <3>1 DEF Spent, Req
    <3> QED
      BY <3>3, <3>4
  <2>2. CASE c # b
    <3>1. browsers'[c] = browsers[c]
      BY <2>2, <1>1
    <3>2. browsers[c].req.code \in Nat /\ BrowserOK(c)
      BY <1>1 DEF BrowserSet, RequestSet, IInv, BrowsersOK
    <3> QED
      BY <3>1, <3>2, <1>3 DEF BrowserOK, Req, Spent
  <2> QED
    BY <2>1, <2>2
<1> QED
  BY <1>2, <1>4 DEF BrowsersGo

LEMMA BrowserTypes ==
  ASSUME IInv, NEW b \in Browsers
  PROVE  /\ browsers[b] \in BrowserSet /\ Req(b) \in RequestSet
         /\ browsers[b].cookie \in 0..Len(sessions) /\ Req(b).session \in 0..Len(sessions)
         /\ Req(b).code \in 0..Len(codes) /\ BrowserOK(b)
BY Domains DEF IInv, BrowsersOK, BrowserOK, BrowserSet, RequestSet, Req

\* The request comes to another stage.
LEMMA StageMoves ==
  ASSUME IInv, CodesLater, SessionsEnd, NEW b \in Browsers, NEW stage \in Stages, Goes(b, stage),
         Req(b).user \in Users,
         stage \in {"consume", "count"} => Req(b).code # 0,
         stage \in {"lookup", "register", "create"} => Spent(b) \/ Req(b).code = 0
  PROVE  BrowsersGo
<1> DEFINE q == [Req(b) EXCEPT !.stage = stage]
           r == [browsers[b] EXCEPT !.req = q]
<1>1. q \in RequestSet
  BY BrowserTypes DEF RequestSet
<1>2. r \in BrowserSet
  BY <1>1, BrowserTypes DEF BrowserSet
<1>3. r.cookie = browsers[b].cookie /\ r.req = q
  BY BrowserTypes DEF BrowserSet
<1>4. /\ q.user = Req(b).user /\ q.op = Req(b).op /\ q.code = Req(b).code /\ q.session = Req(b).session
      /\ q.stage = stage
  BY BrowserTypes DEF RequestSet
<1>5. browsers' = [browsers EXCEPT ![b] = r]
  BY DEF Goes, Req
<1> HIDE DEF q, r
<1> QED
  BY <1>1, <1>2, <1>3, <1>4, <1>5, BrowserTypes, BrowserGoes DEF BrowserOK

\* A request that is new, or typed a wrong code, holds no code.
LEMMA RequestChanges ==
  ASSUME IInv, CodesLater, SessionsEnd, NEW b \in Browsers, NEW q \in RequestSet,
         browsers' = [browsers EXCEPT ![b].req = q],
         q.session <= Len(sessions), q.code <= Len(codes),
         q.stage = "sent" \/ (q.stage = "count" /\ q.code # 0 /\ q.user \in Users),
         q.user \in Users \/ q.op = "none", q.op = "password" => q.code = 0
  PROVE  BrowsersGo
<1> DEFINE r == [browsers[b] EXCEPT !.req = q]
<1>1. r \in BrowserSet /\ r.cookie = browsers[b].cookie /\ r.req = q
  BY BrowserTypes DEF BrowserSet
<1>2. browsers' = [browsers EXCEPT ![b] = r]
  OBVIOUS
<1> HIDE DEF r
<1> QED
  BY <1>1, <1>2, BrowserTypes, BrowserGoes DEF BrowserOK

\* Whoever the cookie is of
LEMMA AuthenticateType ==
  ASSUME IInv, NEW b \in Browsers PROVE Authenticate(b) \in People
BY BrowserTypes, Domains DEF Authenticate, NoSession, SessionSet, People

LEMMA QuietServer ==
  ASSUME IInv, UNCHANGED serverVars, BrowsersGo PROVE IInv'
<1>1. CodesLater /\ SessionsEnd
  BY CodesStay, SessionsStay DEF serverVars
<1>2. ResetEndsSessions'
  BY <1>1, EndingIsSafe DEF serverVars
<1>3. UsersOK' /\ InvitationOK'
  BY DEF IInv, UsersOK, InvitationOK, serverVars
<1> QED
  BY <1>1, <1>2, <1>3, Unspent

-----------------------------------------------------------------------------
(* What the pages send                                                     *)

\* A request of a user, and what else it may name.
New(q, op, user, session, code) ==
  /\ q \in RequestSet /\ q.op = op /\ q.user = user /\ q.stage = "sent"
  /\ q.session = session /\ q.code = code

LEMMA NewRequest ==
  ASSUME NEW op \in Ops, NEW user \in People, NEW n \in Nat
  PROVE  /\ New(Request(op, user), op, user, 0, 0)
         /\ New([Request(op, user) EXCEPT !.password = n], op, user, 0, 0)
         /\ New([Request(op, user) EXCEPT !.code = n], op, user, 0, n)
         /\ New([Request(op, user) EXCEPT !.session = n], op, user, n, 0)
<1>1. New(Request(op, user), op, user, 0, 0)
  BY DEF New, Request, NoRequest, RequestSet, Stages, People
<1>2. New([Request(op, user) EXCEPT !.password = n], op, user, 0, 0)
  BY DEF New, Request, NoRequest, RequestSet, Stages, People
<1>3. New([Request(op, user) EXCEPT !.code = n], op, user, 0, n)
  BY DEF New, Request, NoRequest, RequestSet, Stages, People
<1>4. New([Request(op, user) EXCEPT !.session = n], op, user, n, 0)
  BY DEF New, Request, NoRequest, RequestSet, Stages, People
<1> QED
  BY <1>1, <1>2, <1>3, <1>4

\* The operations of the pages and the people who are named by them
LEMMA Types ==
  /\ "password" \in Ops /\ "code" \in Ops /\ "register" \in Ops /\ "change" \in Ops
  /\ "change alone" \in Ops /\ "revoke" \in Ops /\ "logout" \in Ops /\ "reset" \in Ops
  /\ \A user \in Users : user \in People
BY DEF Ops, People

LEMMA Zeros ==
  ASSUME IInv PROVE 0 \in Nat /\ 0 \in 0..Len(sessions) /\ 0 \in 0..Len(codes)
BY Domains

LEMMA SendingKeeps ==
  ASSUME IInv, NEW b \in Browsers, NEW q, Sends(b, q),
         NEW op \in Ops, NEW user \in Users, NEW session \in 0..Len(sessions), NEW code \in 0..Len(codes),
         New(q, op, user, session, code), op = "password" => code = 0
  PROVE  IInv'
<1>1. CodesLater /\ SessionsEnd
  BY CodesStay, SessionsStay DEF Sends, serverVars
<1>2. /\ q \in RequestSet /\ q.session <= Len(sessions) /\ q.code <= Len(codes) /\ q.stage = "sent"
      /\ q.user \in Users /\ (q.op = "password" => q.code = 0)
  BY Domains DEF New
<1>3. BrowsersGo
  BY <1>1, <1>2, RequestChanges DEF Sends
<1> QED
  BY <1>3, QuietServer DEF Sends

LEMMA PasswordTypes ==
  ASSUME IInv, NEW user \in Users PROVE users[user].password \in Nat /\ 1..users[user].password \subseteq Nat
BY DEF IInv, UsersOK, UserSet

LEMMA HandlePasswordLoginKeeps ==
  ASSUME IInv, NEW b \in Browsers, NEW user \in Users, HandlePasswordLogin(b, user) PROVE IInv'
<1>1. PICK password \in 1..users[user].password :
        Sends(b, [Request("password", user) EXCEPT !.password = password])
  BY DEF HandlePasswordLogin
<1>2. password \in Nat
  BY PasswordTypes
<1>3. New([Request("password", user) EXCEPT !.password = password], "password", user, 0, 0)
  BY <1>2, Types, NewRequest
<1> QED
  BY <1>1, <1>3, Types, Zeros, SendingKeeps

LEMMA HandleCodeKeeps ==
  ASSUME IInv, NEW b \in Browsers, NEW user \in Users, NEW op \in {"code", "register"}, HandleCode(b, user, op)
  PROVE  IInv'
<1>1. PICK code \in {i \in DOMAIN codes : codes[i].user = user /\ codes[i].op = op} \cup {0} :
        Sends(b, [Request(op, user) EXCEPT !.code = code])
  BY DEF HandleCode
<1>2. code \in 0..Len(codes) /\ code \in Nat
  BY Domains
<1>4. op \in Ops /\ op # "password"
  BY Types
<1>3. New([Request(op, user) EXCEPT !.code = code], op, user, 0, code)
  BY <1>2, <1>4, Types, NewRequest
<1> QED
  BY <1>1, <1>2, <1>3, <1>4, Zeros, SendingKeeps

LEMMA HandleChangePasswordKeeps ==
  ASSUME IInv, NEW b \in Browsers, HandleChangePassword(b, browsers[b].who) PROVE IInv'
<1>1. PICK user \in Users : user = browsers[b].who
  BY BrowserTypes DEF HandleChangePassword, SignedIn, BrowserSet, People
<1>2. PICK password \in 1..users[user].password, op \in {"change", "change alone"} :
        Sends(b, [Request(op, user) EXCEPT !.password = password])
  BY <1>1 DEF HandleChangePassword
<1>3. password \in Nat /\ op \in Ops
  BY PasswordTypes, Types
<1>4. New([Request(op, user) EXCEPT !.password = password], op, user, 0, 0)
  BY <1>3, Types, NewRequest
<1> QED
  BY <1>2, <1>3, <1>4, Zeros, SendingKeeps

LEMMA HandleRevokeSessionKeeps ==
  ASSUME IInv, NEW b \in Browsers, NEW session \in DOMAIN sessions, HandleRevokeSession(b, session) PROVE IInv'
<1>1. PICK user \in Users : user = browsers[b].who
  BY BrowserTypes DEF HandleRevokeSession, SignedIn, BrowserSet, People
<1>2. Sends(b, [Request("revoke", user) EXCEPT !.session = session])
  BY <1>1 DEF HandleRevokeSession
<1>3. session \in 0..Len(sessions) /\ session \in Nat
  BY Domains
<1>4. New([Request("revoke", user) EXCEPT !.session = session], "revoke", user, session, 0)
  BY <1>3, Types, NewRequest
<1> QED
  BY <1>2, <1>3, <1>4, Types, Zeros, SendingKeeps

LEMMA HandleLogoutKeeps ==
  ASSUME IInv, NEW b \in Browsers, HandleLogout(b) PROVE IInv'
<1>1. PICK user \in Users : user = browsers[b].who
  BY BrowserTypes DEF HandleLogout, SignedIn, BrowserSet, People
<1>2. Sends(b, Request("logout", user)) /\ 0 \in Nat
  BY <1>1 DEF HandleLogout
<1>3. New(Request("logout", user), "logout", user, 0, 0)
  BY <1>2, Types, NewRequest
<1> QED
  BY <1>2, <1>3, Types, Zeros, SendingKeeps

LEMMA HandleResetKeeps ==
  ASSUME IInv, NEW b \in Browsers, NEW user \in Users, HandleReset(b, user) PROVE IInv'
<1>1. Sends(b, Request("reset", user)) /\ 0 \in Nat
  BY DEF HandleReset
<1>2. New(Request("reset", user), "reset", user, 0, 0)
  BY <1>1, Types, NewRequest
<1> QED
  BY <1>1, <1>2, Types, Zeros, SendingKeeps

-----------------------------------------------------------------------------
(* Answers and fetches                                                     *)

LEMMA QuietKeeps ==
  ASSUME IInv, UNCHANGED serverVars, NEW b \in Browsers, NEW r \in BrowserSet,
         browsers' = [browsers EXCEPT ![b] = r],
         r.cookie <= Len(sessions),
         r.req = Req(b) \/ r.req = NoRequest
  PROVE  IInv'
<1>1. CodesLater /\ SessionsEnd
  BY CodesStay, SessionsStay DEF serverVars
<1>2. CASE r.req = Req(b)
  <2>1. /\ r.req.session <= Len(sessions) /\ r.req.code <= Len(codes)
        /\ r.req.user \in Users \/ (r.req.op = "none" /\ r.req.stage = "sent")
        /\ r.req.op = "password" => r.req.code = 0
        /\ r.req.stage \in {"consume", "count"} => r.req.code # 0
        /\ r.req.stage \in {"lookup", "register", "create"} /\ r.req.code # 0
             => Spent(b) /\ r.req.code = Req(b).code
    BY <1>2, BrowserTypes DEF BrowserOK, Spent
  <2> QED
    BY <1>1, <2>1, BrowserGoes, QuietServer
<1>3. CASE r.req = NoRequest
  <2>1. /\ r.req.session <= Len(sessions) /\ r.req.code <= Len(codes)
        /\ r.req.user \in Users \/ (r.req.op = "none" /\ r.req.stage = "sent")
        /\ r.req.op = "password" => r.req.code = 0
        /\ r.req.stage \in {"consume", "count"} => r.req.code # 0
        /\ r.req.stage \in {"lookup", "register", "create"} /\ r.req.code # 0
             => Spent(b) /\ r.req.code = Req(b).code
    BY <1>3, Domains DEF NoRequest
  <2> QED
    BY <1>1, <2>1, BrowserGoes, QuietServer
<1> QED
  BY <1>2, <1>3

LEMMA NoRequestType == NoRequest \in RequestSet
BY DEF NoRequest, RequestSet, Ops, Stages, People

LEMMA AnsweredKeeps ==
  ASSUME IInv, NEW b \in Browsers, Answered(b) PROVE IInv'
<1>0. browsers[b] \in BrowserSet /\ Req(b) \in RequestSet
  BY BrowserTypes
<1>1. UNCHANGED serverVars
  BY DEF Answered
<1> DEFINE r == IF Req(b).stage = "done" /\ Req(b).op \in {"password", "code", "register"} THEN Applied(b)
                ELSE IF Req(b).stage = "done" /\ Req(b).op = "logout" THEN Cleared(b)
                ELSE [browsers[b] EXCEPT !.req = NoRequest]
<1>2. browsers' = [browsers EXCEPT ![b] = r]
  BY DEF Answered
<1>3. /\ Applied(b) \in BrowserSet /\ Applied(b).cookie <= Len(sessions) /\ Applied(b).req = NoRequest
  <2>1. /\ Req(b).session \in Nat /\ Req(b).user \in People /\ Req(b).session <= Len(sessions)
        /\ (IF browsers[b].past = "out" THEN "in" ELSE "over") \in {"out", "in", "over"}
    BY <1>0, BrowserTypes DEF RequestSet, BrowserOK
  <2> QED
    BY <1>0, <2>1, NoRequestType DEF Applied, BrowserSet
<1>4. /\ Cleared(b) \in BrowserSet /\ Cleared(b).cookie <= Len(sessions) /\ Cleared(b).req = NoRequest
  <2>1. 0 \in Nat /\ 0 <= Len(sessions) /\ Nobody \in People /\ Idle \in Fetches
    BY Domains DEF People, Fetches
  <2> QED
    BY <1>0, <2>1, NoRequestType DEF Cleared, BrowserSet, NoSession
<1>5. LET p == [browsers[b] EXCEPT !.req = NoRequest]
      IN  p \in BrowserSet /\ p.cookie <= Len(sessions) /\ p.req = NoRequest
  BY <1>0, BrowserTypes, NoRequestType DEF BrowserSet, BrowserOK
<1>6. r \in BrowserSet /\ r.cookie <= Len(sessions) /\ r.req = NoRequest
  BY <1>3, <1>4, <1>5
<1> HIDE DEF r
<1> QED
  BY <1>1, <1>2, <1>6, QuietKeeps

LEMMA FetchTypes ==
  ASSUME NEW f \in Fetches, f # Idle PROVE f[1] \in People
BY DEF Fetches, Idle

LEMMA FetchesKeep ==
  ASSUME IInv, NEW b \in Browsers,
         AskSession(b) \/ SessionArrives(b) \/ Fetch(b) \/ DataArrives(b)
  PROVE  IInv'
<1>0. /\ browsers[b] \in BrowserSet /\ browsers[b].asking \in Fetches /\ browsers[b].fetching \in Fetches
      /\ browsers[b].cookie <= Len(sessions) /\ browsers[b].req = Req(b)
  BY BrowserTypes DEF BrowserSet, BrowserOK, Req
<1>1. <<Authenticate(b)>> \in Fetches /\ Idle \in Fetches
  BY AuthenticateType DEF Fetches
<1>2. CASE AskSession(b)
  <2> DEFINE r == [browsers[b] EXCEPT !.asking = <<Authenticate(b)>>]
  <2>1. r \in BrowserSet /\ r.cookie = browsers[b].cookie /\ r.req = Req(b)
    BY <1>0, <1>1 DEF BrowserSet
  <2>2. browsers' = [browsers EXCEPT ![b] = r] /\ UNCHANGED serverVars
    BY <1>2 DEF AskSession
  <2> HIDE DEF r
  <2> QED
    BY <1>0, <2>1, <2>2, QuietKeeps
<1>3. CASE SessionArrives(b)
  <2> DEFINE r == [browsers[b] EXCEPT !.asking = Idle, !.who = browsers[b].asking[1]]
  <2>1. browsers[b].asking[1] \in People
    BY <1>0, <1>3, FetchTypes DEF SessionArrives
  <2>2. r \in BrowserSet /\ r.cookie = browsers[b].cookie /\ r.req = Req(b)
    BY <1>0, <1>1, <2>1 DEF BrowserSet
  <2>3. browsers' = [browsers EXCEPT ![b] = r] /\ UNCHANGED serverVars
    BY <1>3 DEF SessionArrives
  <2> HIDE DEF r
  <2> QED
    BY <1>0, <2>2, <2>3, QuietKeeps
<1>4. CASE Fetch(b)
  <2> DEFINE r == [browsers[b] EXCEPT !.fetching = <<Authenticate(b)>>]
  <2>1. r \in BrowserSet /\ r.cookie = browsers[b].cookie /\ r.req = Req(b)
    BY <1>0, <1>1 DEF BrowserSet
  <2>2. browsers' = [browsers EXCEPT ![b] = r] /\ UNCHANGED serverVars
    BY <1>4 DEF Fetch
  <2> HIDE DEF r
  <2> QED
    BY <1>0, <2>1, <2>2, QuietKeeps
<1>5. CASE DataArrives(b)
  <2> DEFINE d == IF browsers[b].fetching[1] = Nobody THEN browsers[b].data ELSE browsers[b].fetching[1]
             r == [browsers[b] EXCEPT !.fetching = Idle, !.data = d]
  <2>1. d \in People
    BY <1>0, <1>5, FetchTypes DEF DataArrives, BrowserSet
  <2>2. browsers' = [browsers EXCEPT ![b] = r] /\ UNCHANGED serverVars
    BY <1>5 DEF DataArrives
  <2> HIDE DEF d
  <2>3. r \in BrowserSet /\ r.cookie = browsers[b].cookie /\ r.req = Req(b)
    BY <1>0, <1>1, <2>1 DEF BrowserSet
  <2> HIDE DEF r
  <2> QED
    BY <1>0, <2>2, <2>3, QuietKeeps
<1> QED
  BY <1>2, <1>3, <1>4, <1>5

-----------------------------------------------------------------------------
(* The server: requests that add no session and consume no code            *)

LEMMA Requester ==
  ASSUME IInv, NEW b \in Browsers, Req(b).op # "none" \/ Req(b).stage # "sent" PROVE Req(b).user \in Users
BY BrowserTypes DEF BrowserOK

LEMMA StageTypes ==
  /\ "done" \in Stages /\ "failed" \in Stages /\ "create" \in Stages /\ "consume" \in Stages
  /\ "lookup" \in Stages /\ "register" \in Stages /\ "update" \in Stages
BY DEF Stages

\* The request is answered, or waits for a second statement.
LEMMA RequestEnds ==
  ASSUME IInv, CodesLater, SessionsEnd, NEW b \in Browsers, Req(b).user \in Users,
         NEW stage \in {"done", "failed", "update"}, Goes(b, stage)
  PROVE  BrowsersGo
<1>1. stage \in Stages /\ stage \notin {"consume", "count"} /\ stage \notin {"lookup", "register", "create"}
  BY StageTypes
<1> QED
  BY <1>1, StageMoves

LEMMA RevokedEnds ==
  ASSUME IInv, NEW user, NEW kept, sessions' = Revoked(user, kept)
  PROVE  /\ SessionsEnd
         /\ \A i \in 1..Len(sessions) :
              sessions[i].user = user /\ i # kept => sessions'[i].live = FALSE
<1>1. \A i \in 1..Len(sessions) :
        sessions'[i] = IF sessions[i].user = user /\ i # kept
                         THEN [sessions[i] EXCEPT !.live = FALSE] ELSE sessions[i]
  BY Domains DEF Revoked
<1>2. ASSUME NEW i \in 1..Len(sessions)
      PROVE  /\ sessions'[i] \in SessionSet
             /\ sessions'[i].user = sessions[i].user /\ sessions'[i].password = sessions[i].password
             /\ sessions'[i].code = sessions[i].code /\ sessions'[i].late = sessions[i].late
             /\ sessions'[i].live => sessions[i].live
             /\ sessions[i].user = user /\ i # kept => sessions'[i].live = FALSE
  BY <1>1, Domains DEF SessionSet
<1>3. sessions' \in [1..Len(sessions) -> SessionSet]
  <2>1. sessions' = [i \in 1..Len(sessions) |->
          IF sessions[i].user = user /\ i # kept THEN [sessions[i] EXCEPT !.live = FALSE] ELSE sessions[i]]
    BY Domains DEF Revoked
  <2> QED
    BY <2>1, <1>2, Zenon
<1>4. sessions' \in Seq(SessionSet) /\ Len(sessions') = Len(sessions)
  BY <1>3, SameLength DEF IInv, SessionsOK
<1> QED
  BY <1>2, <1>4 DEF SessionsEnd

LEMMA OneEnds ==
  ASSUME IInv, NEW id \in 1..Len(sessions), sessions' = [sessions EXCEPT ![id].live = FALSE]
  PROVE  SessionsEnd
<1>1. \A i \in 1..Len(sessions) :
        sessions'[i] = IF i = id THEN [sessions[i] EXCEPT !.live = FALSE] ELSE sessions[i]
  BY Domains
<1>2. ASSUME NEW i \in 1..Len(sessions)
      PROVE  /\ sessions'[i] \in SessionSet
             /\ sessions'[i].user = sessions[i].user /\ sessions'[i].password = sessions[i].password
             /\ sessions'[i].code = sessions[i].code /\ sessions'[i].late = sessions[i].late
             /\ sessions'[i].live => sessions[i].live
  BY <1>1, Domains DEF SessionSet
<1>3. sessions' \in [1..Len(sessions) -> SessionSet]
  <2>1. sessions' = [i \in 1..Len(sessions) |-> sessions'[i]]
    BY Domains
  <2> QED
    BY <2>1, <1>2, Zenon
<1>4. sessions' \in Seq(SessionSet) /\ Len(sessions') = Len(sessions)
  BY <1>3, SameLength DEF IInv, SessionsOK
<1> QED
  BY <1>2, <1>4 DEF SessionsEnd

LEMMA VerifyPasswordKeeps ==
  ASSUME IInv, NEW b \in Browsers, VerifyPassword(b) PROVE IInv'
<1>1. CodesLater /\ SessionsEnd /\ UNCHANGED serverVars
  BY CodesStay, SessionsStay DEF VerifyPassword, serverVars
<1>2. Req(b).user \in Users /\ Req(b).code = 0
  BY Requester, BrowserTypes DEF VerifyPassword, BrowserOK
<1>3. Goes(b, "create") \/ Goes(b, "failed")
  BY DEF VerifyPassword, Failing
<1>4. BrowsersGo
  BY <1>1, <1>2, <1>3, StageTypes, StageMoves, RequestEnds
<1> QED
  BY <1>1, <1>4, QuietServer

LEMMA LookUpKeeps ==
  ASSUME IInv, NEW b \in Browsers, LookUp(b) PROVE IInv'
<1>1. CodesLater /\ SessionsEnd /\ UNCHANGED serverVars
  BY CodesStay, SessionsStay DEF LookUp, serverVars
<1>2. Req(b).user \in Users /\ (Spent(b) \/ Req(b).code = 0)
  BY Requester DEF LookUp, Spent
<1>3. Goes(b, "create") \/ Goes(b, "failed")
  BY DEF LookUp, Failing
<1>4. BrowsersGo
  BY <1>1, <1>2, <1>3, StageTypes, StageMoves, RequestEnds
<1> QED
  BY <1>1, <1>4, QuietServer

LEMMA VerifyCurrentKeeps ==
  ASSUME IInv, NEW b \in Browsers, VerifyCurrent(b) PROVE IInv'
<1>1. CodesLater /\ SessionsEnd /\ UNCHANGED serverVars
  BY CodesStay, SessionsStay DEF VerifyCurrent, serverVars
<1>2. Req(b).user \in Users
  BY Requester DEF VerifyCurrent
<1>3. Goes(b, "update") \/ Goes(b, "failed")
  BY DEF VerifyCurrent, Failing
<1>4. BrowsersGo
  BY <1>1, <1>2, <1>3, RequestEnds
<1> QED
  BY <1>1, <1>4, QuietServer

LEMMA RevokeSessionEnds ==
  ASSUME IInv, NEW b \in Browsers, RevokeSession(b) PROVE SessionsEnd
<1>1. Req(b).session \in 1..Len(sessions) \/ Req(b).session = 0
  BY BrowserTypes, Domains
<1>2. CASE UNCHANGED sessions
  BY <1>2, SessionsStay
<1>3. CASE sessions' = [sessions EXCEPT ![Req(b).session].live = FALSE]
  <2>1. CASE Req(b).session = 0
    <3>1. sessions \in [1..Len(sessions) -> SessionSet] /\ 0 \notin 1..Len(sessions)
      BY LenProperties, Domains DEF IInv, SessionsOK
    <3>2. sessions' = [sessions EXCEPT ![0] = [sessions[0] EXCEPT !.live = FALSE]]
      BY <1>3, <2>1
    <3>3. sessions' = sessions
      BY <3>1, <3>2
    <3> QED
      BY <3>3, SessionsStay
  <2> QED
    BY <1>1, <1>3, <2>1, OneEnds
<1> QED
  BY <1>2, <1>3 DEF RevokeSession

LEMMA RevokeSessionKeeps ==
  ASSUME IInv, NEW b \in Browsers, RevokeSession(b) PROVE IInv'
<1>1. CodesLater /\ UsersOK' /\ InvitationOK' /\ UNCHANGED users
  BY CodesStay DEF RevokeSession, IInv, UsersOK, InvitationOK
<1>2. SessionsEnd
  BY RevokeSessionEnds
<1>3. Goes(b, "done") \/ Goes(b, "failed")
  BY DEF RevokeSession, Answering, Failing
<1>4. Req(b).user \in Users
  BY Requester DEF RevokeSession
<1>5. BrowsersGo
  BY <1>1, <1>2, <1>3, <1>4, RequestEnds
<1> QED
  BY <1>1, <1>2, <1>5, EndingIsSafe, Unspent

LEMMA LogoutEnds ==
  ASSUME IInv, NEW b \in Browsers, Logout(b) PROVE SessionsEnd
<1>1. browsers[b].cookie \in 1..Len(sessions) \/ browsers[b].cookie = 0
  BY BrowserTypes, Domains
<1>2. CASE browsers[b].cookie = 0
  BY <1>2, SessionsStay DEF Logout, NoSession
<1>3. CASE browsers[b].cookie \in 1..Len(sessions)
  <2>1. sessions' = [sessions EXCEPT ![browsers[b].cookie].live = FALSE]
    BY <1>3, Domains DEF Logout, NoSession
  <2> QED
    BY <1>3, <2>1, OneEnds
<1> QED
  BY <1>1, <1>2, <1>3

LEMMA LogoutKeeps ==
  ASSUME IInv, NEW b \in Browsers, Logout(b) PROVE IInv'
<1>1. CodesLater /\ UsersOK' /\ InvitationOK' /\ UNCHANGED users
  BY CodesStay DEF Logout, IInv, UsersOK, InvitationOK
<1>2. SessionsEnd
  BY LogoutEnds
<1>3. Goes(b, "done") \/ Goes(b, "failed")
  BY DEF Logout, Answering, Failing
<1>4. Req(b).user \in Users
  BY Requester DEF Logout
<1>5. BrowsersGo
  BY <1>1, <1>2, <1>3, <1>4, RequestEnds
<1> QED
  BY <1>1, <1>2, <1>5, EndingIsSafe, Unspent

\* A reset: what lives afterwards is of others, or of nobody before.
LEMMA ResetKeeps ==
  ASSUME IInv, NEW b \in Browsers, Reset(b) PROVE IInv'
<1> DEFINE user == Req(b).user
<1>1. CodesLater /\ InvitationOK'
  BY CodesStay DEF Reset, IInv, InvitationOK
<1>2. user \in Users
  BY Requester DEF Reset
<1>3. Goes(b, "done") \/ Goes(b, "failed")
  BY DEF Reset, Answering, Failing
<1>4. CASE users[user].linked
  <2>1. /\ users' = [users EXCEPT ![user].linked = FALSE, ![user].password = @ + 1,
                                  ![user].since = users[user].password + 1]
        /\ sessions' = Revoked(user, 0)
    BY <1>4 DEF Reset, ResetSessions, NoSession
  <2>2. /\ SessionsEnd
        /\ \A i \in 1..Len(sessions) : sessions[i].user = user /\ i # 0 => sessions'[i].live = FALSE
    BY <2>1, RevokedEnds
  <2>3. /\ users \in [Users -> UserSet]
        /\ \A u \in Users : /\ users[u].since <= users[u].password
                            /\ users[u].status = "none" => users[u].since = 0 /\ users[u].linked = FALSE
    BY DEF IInv, UsersOK
  <2>4. users[user].status # "none"
    BY <1>2, <1>4, <2>3
  <2>5. users' \in [Users -> UserSet]
    BY <1>2, <2>1, <2>3 DEF UserSet
  <2>6. \A u \in Users : u # user => users'[u] = users[u]
    BY <1>2, <2>1, <2>3
  <2>7. users'[user].since = users'[user].password /\ users'[user].status = users[user].status
    BY <1>2, <2>1, <2>3 DEF UserSet
  <2>8. UsersOK'
    <3>1. users'[user].since <= users'[user].password
      BY <1>2, <2>5, <2>7 DEF UserSet
    <3> QED
      BY <2>3, <2>4, <2>5, <2>6, <2>7, <3>1 DEF UsersOK
  <2>9. ResetEndsSessions'
    <3> SUFFICES ASSUME NEW i \in 1..Len(sessions), sessions'[i].live, sessions'[i].password # 0
                 PROVE  sessions'[i].late \/ sessions'[i].password >= users'[sessions'[i].user].since
      BY <2>2, LenProperties DEF ResetEndsSessions, SessionsEnd
    <3>1. i # 0 /\ sessions[i].user # user /\ sessions[i].user \in Users
      BY <2>2, Domains DEF SessionSet
    <3> QED
      BY <3>1, <2>2, <2>6, Domains DEF SessionsEnd, IInv, ResetEndsSessions
  <2>10. BrowsersGo
    BY <1>1, <1>2, <1>3, <2>2, RequestEnds
  <2> QED
    BY <1>1, <2>2, <2>8, <2>9, <2>10, Unspent
<1>5. CASE ~users[user].linked
  <2>1. UNCHANGED <<users, sessions>>
    BY <1>5 DEF Reset
  <2>2. SessionsEnd /\ UsersOK'
    BY <2>1, SessionsStay DEF IInv, UsersOK
  <2>3. BrowsersGo
    BY <1>1, <1>2, <1>3, <2>2, RequestEnds
  <2> QED
    BY <1>1, <2>1, <2>2, <2>3, EndingIsSafe, Unspent
<1> QED
  BY <1>4, <1>5

LEMMA UpdatePasswordKeeps ==
  ASSUME IInv, NEW b \in Browsers, UpdatePassword(b) PROVE IInv'
<1> DEFINE user == Req(b).user
<1>1. CodesLater /\ InvitationOK'
  BY CodesStay DEF UpdatePassword, IInv, InvitationOK
<1>2. user \in Users
  BY Requester DEF UpdatePassword
<1>3. Goes(b, "done") \/ Goes(b, "failed")
  BY DEF UpdatePassword, Answering, Failing
<1>4. users' = [users EXCEPT ![user].password = @ + 1] /\ users \in [Users -> UserSet]
  BY DEF UpdatePassword, IInv, UsersOK
<1>5. users' \in [Users -> UserSet]
  BY <1>2, <1>4 DEF UserSet
<1>6. \A u \in Users : /\ users'[u].since = users[u].since /\ users'[u].status = users[u].status
                       /\ users'[u].linked = users[u].linked /\ users'[u].password >= users[u].password
  BY <1>2, <1>4 DEF UserSet
<1>7. UsersOK'
  BY <1>4, <1>5, <1>6 DEF IInv, UsersOK, UserSet
<1>8. SessionsEnd
  BY SessionsStay, RevokedEnds DEF UpdatePassword
<1>9. BrowsersGo
  BY <1>1, <1>2, <1>3, <1>8, RequestEnds
<1> QED
  BY <1>1, <1>6, <1>7, <1>8, <1>9, EndingIsSafe, Unspent

-----------------------------------------------------------------------------
(* Codes                                                                   *)

\* One row changes, and a consumed code stays so.
LEMMA OneRow ==
  ASSUME IInv, NEW id \in 1..Len(codes), NEW row \in CodeSet, codes' = [codes EXCEPT ![id] = row],
         codes[id].open = FALSE => row.open = FALSE
  PROVE  CodesLater /\ codes'[id] = row /\ Len(codes') = Len(codes)
<1>1. \A i \in 1..Len(codes) : codes'[i] = IF i = id THEN row ELSE codes[i]
  BY Domains
<1>2. ASSUME NEW i \in 1..Len(codes)
      PROVE  codes'[i] \in CodeSet /\ (codes[i].open = FALSE => codes'[i].open = FALSE)
  BY <1>1, Domains
<1>3. codes' \in [1..Len(codes) -> CodeSet]
  <2>1. codes' = [i \in 1..Len(codes) |-> codes'[i]]
    BY Domains
  <2> QED
    BY <2>1, <1>2, Zenon
<1>4. codes' \in Seq(CodeSet) /\ Len(codes') = Len(codes)
  BY <1>3, SameLength DEF IInv, CodesOK
<1> QED
  BY <1>1, <1>2, <1>4, Domains DEF CodesLater

LEMMA OneCloses ==
  ASSUME IInv, NEW id \in 1..Len(codes), codes' = [codes EXCEPT ![id].open = FALSE]
  PROVE  CodesLater /\ codes'[id].open = FALSE /\ Len(codes') = Len(codes)
<1> DEFINE row == [codes[id] EXCEPT !.open = FALSE]
<1>1. row \in CodeSet /\ row.open = FALSE /\ codes' = [codes EXCEPT ![id] = row]
  BY Domains DEF CodeSet
<1> HIDE DEF row
<1> QED
  BY <1>1, OneRow

\* The rows that a code is compared with are there.
LEMMA LatestTypes ==
  ASSUME IInv, NEW user, NEW op, NEW i \in Latest(user, op)
  PROVE  i \in 1..Len(codes)
BY Domains DEF Latest, Usable

LEMMA WrongCodeType ==
  ASSUME NEW op \in {"code", "register"}, NEW user \in Users, NEW i \in Nat
  PROVE  LET q == WrongCode(op, user, i)
         IN  /\ q \in RequestSet /\ q.session = 0 /\ q.code = i /\ q.stage = "count"
             /\ q.user \in Users /\ q.op # "password"
<1>1. op \in Ops /\ user \in People /\ "count" \in Stages
  BY DEF Ops, People, Stages
<1> QED
  BY <1>1 DEF WrongCode, RequestSet

LEMMA VerifyCodeKeeps ==
  ASSUME IInv, NEW b \in Browsers, VerifyCode(b) PROVE IInv'
<1> DEFINE user == Req(b).user
           op == Req(b).op
           row == {i \in Latest(user, op) : codes[i].tries < MaxTries}
<1>1. CodesLater /\ SessionsEnd /\ UNCHANGED serverVars
  BY CodesStay, SessionsStay DEF VerifyCode, serverVars
<1>2. user \in Users /\ op \in {"code", "register"}
  BY Requester DEF VerifyCode
<1>3. \A i \in row : i \in 1..Len(codes)
  BY LatestTypes
<1>4. CASE Failing(b)
  BY <1>1, <1>2, <1>4, RequestEnds, QuietServer DEF Failing
<1>5. CASE Req(b).code \in row /\ Goes(b, "consume")
  <2>1. Req(b).code # 0
    BY <1>3, <1>5, Domains
  <2>2. BrowsersGo
    BY <1>1, <1>2, <1>5, <2>1, StageTypes, StageMoves
  <2> QED
    BY <1>1, <2>2, QuietServer
<1>6. ASSUME NEW i \in row, browsers' = [browsers EXCEPT ![b].req = WrongCode(op, user, i)] PROVE IInv'
  <2> DEFINE q == WrongCode(op, user, i)
  <2>1. /\ i \in 1..Len(codes) /\ i \in Nat /\ i <= Len(codes) /\ i # 0
        /\ Len(codes) \in Nat /\ Len(sessions) \in Nat /\ 0 <= Len(sessions)
    BY <1>3, Domains
  <2>2. /\ q \in RequestSet /\ q.session = 0 /\ q.code = i /\ q.stage = "count"
        /\ q.user \in Users /\ q.op # "password"
    BY <1>2, <2>1, WrongCodeType
  <2>3. browsers' = [browsers EXCEPT ![b].req = q]
    BY <1>6
  <2> HIDE DEF q
  <2>4. BrowsersGo
    BY <1>1, <2>1, <2>2, <2>3, RequestChanges
  <2> QED
    BY <1>1, <2>4, QuietServer
<1> QED
  BY <1>4, <1>5, <1>6 DEF VerifyCode

LEMMA CountAttemptKeeps ==
  ASSUME IInv, NEW b \in Browsers, CountAttempt(b) PROVE IInv'
<1> DEFINE id == Req(b).code
<1>1. SessionsEnd /\ UsersOK' /\ InvitationOK' /\ UNCHANGED users
  BY SessionsStay DEF CountAttempt, IInv, UsersOK, InvitationOK
<1>2. Req(b).user \in Users /\ id \in 1..Len(codes)
  BY Requester, BrowserTypes, Domains DEF CountAttempt, BrowserOK
<1>3. PICK n \in Nat : n = codes[id].tries + 1
  BY <1>2, Domains DEF CodeSet
<1> DEFINE row == [codes[id] EXCEPT !.tries = n]
<1>4. row \in CodeSet /\ row.open = codes[id].open
  BY <1>2, Domains DEF CodeSet
<1>5. codes' = [codes EXCEPT ![id] = row]
  BY <1>2, <1>3, Domains DEF CountAttempt, CodeSet
<1> HIDE DEF row
<1>6. CodesLater
  BY <1>2, <1>4, <1>5, OneRow
<1>7. BrowsersGo
  BY <1>1, <1>2, <1>6, RequestEnds DEF CountAttempt, Failing
<1> QED
  BY <1>1, <1>6, <1>7, EndingIsSafe, Unspent

LEMMA StatementFailsKeeps ==
  ASSUME IInv, NEW b \in Browsers, StatementFails(b) PROVE IInv'
<1>1. CodesLater /\ SessionsEnd /\ UNCHANGED serverVars
  BY CodesStay, SessionsStay DEF StatementFails, serverVars
<1>2. Goes(b, "failed")
  BY DEF StatementFails, Failing
<1>3. Req(b).user \in Users
  BY Requester DEF StatementFails
<1> QED
  BY <1>1, <1>2, <1>3, RequestEnds, QuietServer

LEMMA StageFacts ==
  ASSUME IInv, NEW b \in Browsers, NEW stage \in Stages, Goes(b, stage)
  PROVE  /\ browsers' \in [Browsers -> BrowserSet]
         /\ \A c \in Browsers : c # b => browsers'[c] = browsers[c]
         /\ browsers'[b].cookie = browsers[b].cookie
         /\ Req(b)'.op = Req(b).op /\ Req(b)'.user = Req(b).user /\ Req(b)'.code = Req(b).code
         /\ Req(b)'.session = Req(b).session /\ Req(b)'.stage = stage
<1> DEFINE q == [Req(b) EXCEPT !.stage = stage]
           r == [browsers[b] EXCEPT !.req = q]
<1>1. /\ q \in RequestSet
      /\ q.user = Req(b).user /\ q.op = Req(b).op /\ q.code = Req(b).code /\ q.session = Req(b).session
      /\ q.stage = stage
  BY BrowserTypes DEF RequestSet
<1>2. r \in BrowserSet /\ r.cookie = browsers[b].cookie /\ r.req = q
  BY <1>1, BrowserTypes DEF BrowserSet
<1>3. browsers' = [browsers EXCEPT ![b] = r]
  BY DEF Goes, Req
<1> HIDE DEF q, r
<1>4. browsers'[b] = r /\ \A c \in Browsers : c # b => browsers'[c] = browsers[c]
  BY <1>3 DEF IInv, BrowsersOK
<1> QED
  BY <1>1, <1>2, <1>3, <1>4 DEF IInv, BrowsersOK, Req

\* The code closes and is spent by this request alone.
LEMMA ConsumeCodeKeeps ==
  ASSUME IInv, NEW b \in Browsers, ConsumeCode(b) PROVE IInv'
<1> DEFINE k == Req(b).code
<1>1. SessionsEnd /\ UsersOK' /\ InvitationOK' /\ UNCHANGED <<users, sessions>>
  BY SessionsStay DEF ConsumeCode, IInv, UsersOK, InvitationOK
<1>2. Req(b).user \in Users /\ k \in 1..Len(codes)
  BY Requester, BrowserTypes, Domains DEF ConsumeCode, BrowserOK
<1>3. CASE ~codes[k].open
  <2>1. Goes(b, "failed") /\ UNCHANGED codes
    BY <1>3 DEF ConsumeCode, Consumable
  <2>2. CodesLater
    BY <2>1, CodesStay
  <2>3. BrowsersGo
    BY <1>1, <1>2, <2>1, <2>2, RequestEnds
  <2> QED
    BY <1>1, <2>2, <2>3, EndingIsSafe, Unspent
<1>4. CASE codes[k].open
  <2>1. PICK stage \in {"lookup", "register"} : Goes(b, stage)
    BY <1>4 DEF ConsumeCode, Consumable
  <2>2. codes' = [codes EXCEPT ![k].open = FALSE]
    BY <1>4 DEF ConsumeCode, Consumable
  <2>3. CodesLater /\ codes'[k].open = FALSE /\ Len(codes') = Len(codes)
    BY <1>2, <2>2, OneCloses
  <2>4. stage \in Stages /\ stage \notin {"sent", "consume", "count"}
    BY StageTypes
  <2>5. /\ browsers' \in [Browsers -> BrowserSet]
        /\ \A c \in Browsers : c # b => browsers'[c] = browsers[c]
        /\ browsers'[b].cookie = browsers[b].cookie
        /\ Req(b)'.op = Req(b).op /\ Req(b)'.user = Req(b).user /\ Req(b)'.code = k
        /\ Req(b)'.session = Req(b).session /\ Req(b)'.stage = stage
    BY <2>1, <2>4, StageFacts
  <2>6. CodesOK'
    BY <2>3 DEF CodesLater, CodesOK
  <2>7. SessionsOK'
    <3> SUFFICES ASSUME NEW i \in 1..Len(sessions), sessions[i].code # 0
                 PROVE  codes'[sessions[i].code].open = FALSE
      BY <1>1, <2>3 DEF IInv, SessionsOK
    <3>1. sessions[i].code <= Len(codes) /\ codes[sessions[i].code].open = FALSE
      BY DEF IInv, SessionsOK
    <3>2. sessions[i].code \in 1..Len(codes)
      BY <3>1, Domains DEF SessionSet
    <3> QED
      BY <3>1, <3>2, <2>3 DEF CodesLater
  <2>8. BrowsersOK'
    <3>1. ASSUME NEW c \in Browsers, c # b PROVE BrowserOK(c)'
      <4>1. browsers'[c] = browsers[c]
        BY <2>5, <3>1
      <4> QED
        BY <1>1, <2>3, <4>1, BrowserTypes DEF BrowserOK, Req
    <3>2. BrowserOK(b)'
      <4>1. Len(sessions') = Len(sessions) /\ BrowserOK(b)
        BY <1>1, BrowserTypes
      <4> QED
        BY <4>1, <1>2, <2>3, <2>4, <2>5 DEF BrowserOK
    <3> QED
      BY <2>5, <3>1, <3>2 DEF BrowsersOK
  <2>9. \A c \in Browsers : c # b => (Spent(c)' <=> Spent(c)) /\ Req(c)'.code = Req(c).code
    BY <2>5 DEF Spent, Req
  <2>10. \A c \in Browsers : c # b /\ Spent(c) => Req(c).code \in 1..Len(codes) /\ Req(c).code # k
    <3> TAKE c \in Browsers
    <3> HAVE c # b /\ Spent(c)
    <3>1. Req(c).code \in 1..Len(codes)
      BY BrowserTypes, Domains DEF Spent
    <3>2. codes[Req(c).code].open = FALSE
      BY DEF IInv, SpentOnce
    <3> QED
      BY <1>4, <3>1, <3>2
  <2>11. \A i \in 1..Len(sessions) : sessions[i].code # k
    BY <1>2, <1>4 DEF IInv, SessionsOK
  <2>12. SpentOnce'
    <3>1. ASSUME NEW c \in Browsers, Spent(c)'
          PROVE  /\ codes'[Req(c)'.code].open = FALSE
                 /\ \A i \in 1..Len(sessions') : sessions'[i].code # Req(c)'.code
      <4>1. CASE c = b
        BY <1>1, <2>3, <2>5, <2>11, <4>1
      <4>2. CASE c # b
        <5>1. Spent(c) /\ Req(c)'.code = Req(c).code /\ Req(c).code \in 1..Len(codes)
          BY <2>9, <2>10, <3>1, <4>2
        <5>2. codes[Req(c).code].open = FALSE /\ \A i \in 1..Len(sessions) : sessions[i].code # Req(c).code
          BY <5>1 DEF IInv, SpentOnce
        <5> QED
          BY <1>1, <2>3, <5>1, <5>2 DEF CodesLater
      <4> QED
        BY <4>1, <4>2
    <3>2. ASSUME NEW c \in Browsers, NEW d \in Browsers, c # d, Spent(c)', Spent(d)'
          PROVE  Req(c)'.code # Req(d)'.code
      <4>1. CASE c = b
        BY <2>5, <2>9, <2>10, <3>2, <4>1
      <4>2. CASE d = b
        BY <2>5, <2>9, <2>10, <3>2, <4>2
      <4>3. CASE c # b /\ d # b
        BY <2>9, <3>2, <4>3 DEF IInv, SpentOnce
      <4> QED
        BY <4>1, <4>2, <4>3
    <3> QED
      BY <3>1, <3>2 DEF SpentOnce
  <2>13. CodesLogInOnce' /\ ResetEndsSessions'
    BY <1>1 DEF IInv, CodesLogInOnce, ResetEndsSessions
  <2> QED
    BY <1>1, <2>6, <2>7, <2>8, <2>12, <2>13 DEF IInv
<1> QED
  BY <1>3, <1>4

-----------------------------------------------------------------------------
(* Sign-ins                                                                *)

\* The session takes over the code its request has spent.
LEMMA AddingKeeps ==
  ASSUME IInv, NEW b \in Browsers, NEW s \in SessionSet, sessions' = Append(sessions, s), UNCHANGED codes,
         Req(b).stage \in {"create", "register"}, s.code = Req(b).code,
         UsersOK', InvitationOK', \A u \in Users : users'[u].since = users[u].since,
         s.password # 0 => s.late \/ s.password >= users[s.user].since,
         NEW stage \in {"done", "failed"},
         browsers' = [browsers EXCEPT ![b].req.stage = stage, ![b].req.session = Len(sessions')]
  PROVE  IInv'
<1> DEFINE n == Len(sessions)
<1>1. /\ sessions' \in Seq(SessionSet) /\ Len(sessions') = n + 1 /\ n \in Nat
      /\ \A i \in 1..n : sessions'[i] = sessions[i]
      /\ sessions'[n + 1] = s
  BY Domains DEF IInv, SessionsOK
<1>2. /\ DOMAIN sessions' = 1..(n + 1) /\ DOMAIN sessions = 1..n
      /\ Req(b).user \in Users
  BY <1>1, LenProperties, Domains, Requester
<1> DEFINE q == [Req(b) EXCEPT !.stage = stage, !.session = n + 1]
           r == [browsers[b] EXCEPT !.req = q]
<1>3. stage \in Stages /\ n + 1 \in Nat /\ stage \notin {"consume", "lookup", "register", "create"}
  BY <1>1, StageTypes
<1>4. /\ q \in RequestSet /\ q.user = Req(b).user /\ q.op = Req(b).op /\ q.code = Req(b).code
      /\ q.session = n + 1 /\ q.stage = stage
  BY <1>3, BrowserTypes DEF RequestSet
<1>5. r \in BrowserSet /\ r.cookie = browsers[b].cookie /\ r.req = q
  BY <1>4, BrowserTypes DEF BrowserSet
<1>6. browsers' = [browsers EXCEPT ![b] = r]
  BY <1>1, BrowserTypes DEF Req, BrowserSet, RequestSet
<1> HIDE DEF q, r
<1>7. /\ browsers' \in [Browsers -> BrowserSet] /\ browsers'[b] = r
      /\ \A c \in Browsers : c # b => browsers'[c] = browsers[c]
  BY <1>5, <1>6 DEF IInv, BrowsersOK
<1>8. CodesOK'
  BY DEF IInv, CodesOK
<1>9. s.code \in Nat /\ s.code <= Len(codes) /\ (s.code # 0 => codes[s.code].open = FALSE)
  <2>1. s.code # 0 => Spent(b)
    BY DEF Spent
  <2>2. s.code # 0 => codes[s.code].open = FALSE
    BY <2>1 DEF IInv, SpentOnce
  <2> QED
    BY <2>2, BrowserTypes, Domains
<1>10. SessionsOK'
  <2>1. ASSUME NEW i \in 1..(n + 1)
        PROVE  /\ sessions'[i].code <= Len(codes)
               /\ sessions'[i].code # 0 => codes[sessions'[i].code].open = FALSE
    <3>1. CASE i = n + 1
      BY <1>1, <1>9, <3>1
    <3>2. CASE i # n + 1
      <4>1. i \in 1..n
        BY <1>1, <3>2
      <4> QED
        BY <4>1, <1>1 DEF IInv, SessionsOK
    <3> QED
      BY <3>1, <3>2
  <2> QED
    BY <1>1, <2>1 DEF SessionsOK
<1>11. BrowsersOK'
  <2>1. ASSUME NEW c \in Browsers, c # b PROVE BrowserOK(c)'
    <3>1. browsers'[c] = browsers[c] /\ BrowserOK(c) /\ browsers[c].cookie \in Nat /\ Req(c).session \in Nat
      BY <1>7, <2>1, BrowserTypes DEF BrowserSet, RequestSet
    <3> QED
      BY <1>1, <3>1 DEF BrowserOK, Req
  <2>2. BrowserOK(b)'
    <3>1. Req(b)' = q /\ browsers'[b].cookie = browsers[b].cookie
      BY <1>5, <1>7 DEF Req
    <3>2. browsers[b].cookie <= n + 1
      BY <1>1, BrowserTypes
    <3> QED
      BY <1>1, <1>2, <1>3, <1>4, <3>1, <3>2, BrowserTypes DEF BrowserOK
  <2> QED
    BY <1>7, <2>1, <2>2 DEF BrowsersOK
<1>12. SpentOnce'
  <2>1. ~Spent(b)'
    BY <1>3, <1>4, <1>5, <1>7 DEF Spent, Req
  <2>2. \A c \in Browsers : c # b => (Spent(c)' <=> Spent(c)) /\ Req(c)'.code = Req(c).code
    BY <1>7 DEF Spent, Req
  <2>3. ASSUME NEW c \in Browsers, Spent(c)'
        PROVE  /\ codes[Req(c)'.code].open = FALSE
               /\ \A i \in 1..(n + 1) : sessions'[i].code # Req(c)'.code
    <3>1. c # b /\ Spent(c) /\ Req(c)'.code = Req(c).code
      BY <2>1, <2>2, <2>3
    <3>2. codes[Req(c).code].open = FALSE /\ \A i \in 1..n : sessions[i].code # Req(c).code
      BY <3>1 DEF IInv, SpentOnce
    <3>3. s.code # Req(c).code
      <4>1. CASE s.code = 0
        BY <3>1, <4>1 DEF Spent
      <4>2. CASE s.code # 0
        BY <3>1, <4>2 DEF Spent, IInv, SpentOnce
      <4> QED
        BY <4>1, <4>2
    <3>4. ASSUME NEW i \in 1..(n + 1) PROVE sessions'[i].code # Req(c).code
      <4>1. i = n + 1 \/ i \in 1..n
        BY <1>1
      <4> QED
        BY <1>1, <3>2, <3>3, <4>1
    <3> QED
      BY <3>1, <3>2, <3>4
  <2>4. ASSUME NEW c \in Browsers, NEW d \in Browsers, c # d, Spent(c)', Spent(d)'
        PROVE  Req(c)'.code # Req(d)'.code
    BY <2>1, <2>2, <2>4 DEF IInv, SpentOnce
  <2> QED
    BY <1>1, <2>3, <2>4 DEF SpentOnce
<1>13. CodesLogInOnce'
  <2>1. ASSUME NEW i \in 1..n, s.code # 0 PROVE sessions[i].code # s.code
    BY <2>1 DEF Spent, IInv, SpentOnce
  <2>2. ASSUME NEW i \in 1..(n + 1), NEW j \in 1..(n + 1), i # j, sessions'[i].code = sessions'[j].code
        PROVE  sessions'[i].code = 0
    <3>1. (i = n + 1 \/ i \in 1..n) /\ (j = n + 1 \/ j \in 1..n)
      BY <1>1
    <3>2. CASE i \in 1..n /\ j \in 1..n
      BY <1>1, <1>2, <2>2, <3>2 DEF IInv, CodesLogInOnce
    <3>3. CASE i = n + 1 /\ j \in 1..n
      BY <1>1, <2>1, <2>2, <3>3
    <3>4. CASE j = n + 1 /\ i \in 1..n
      BY <1>1, <2>1, <2>2, <3>4
    <3> QED
      BY <2>2, <3>1, <3>2, <3>3, <3>4
  <2> QED
    BY <1>2, <2>2 DEF CodesLogInOnce
<1>14. ResetEndsSessions'
  <2>1. ASSUME NEW i \in 1..(n + 1), sessions'[i].live, sessions'[i].password # 0
        PROVE  sessions'[i].late \/ sessions'[i].password >= users'[sessions'[i].user].since
    <3>1. CASE i = n + 1
      <4>1. s.user \in Users
        BY DEF SessionSet
      <4> QED
        BY <1>1, <2>1, <3>1, <4>1
    <3>2. CASE i # n + 1
      <4>1. i \in 1..n /\ sessions'[i] = sessions[i] /\ sessions[i].user \in Users
        BY <1>1, <3>2, Domains DEF SessionSet
      <4> QED
        BY <1>2, <2>1, <4>1 DEF IInv, ResetEndsSessions
    <3> QED
      BY <3>1, <3>2
  <2> QED
    BY <1>2, <2>1 DEF ResetEndsSessions
<1> QED
  BY <1>8, <1>10, <1>11, <1>12, <1>13, <1>14 DEF IInv

LEMMA CreateSessionKeeps ==
  ASSUME IInv, NEW b \in Browsers, CreateSession(b) PROVE IInv'
<1> DEFINE late == Req(b).password # 0 /\ Req(b).password # users[Req(b).user].password
           s == [user |-> Req(b).user, live |-> TRUE, password |-> Req(b).password, code |-> Req(b).code,
                 late |-> late]
<1>1. PICK stage \in {"done", "failed"} :
        browsers' = [browsers EXCEPT ![b].req.stage = stage, ![b].req.session = Len(sessions')]
  BY DEF CreateSession
<1>2. Req(b).user \in Users /\ Req(b).password \in Nat /\ Req(b).code \in Nat
  BY Requester, BrowserTypes DEF CreateSession, RequestSet
<1>3. sessions' = Append(sessions, s) /\ UNCHANGED codes /\ Req(b).stage \in {"create", "register"}
  BY DEF CreateSession
<1>4. late \in BOOLEAN
  OBVIOUS
<1>5. UsersOK' /\ InvitationOK' /\ \A u \in Users : users'[u].since = users[u].since
  BY DEF CreateSession, IInv, UsersOK, InvitationOK
<1>6. ~late /\ Req(b).password # 0 => Req(b).password >= users[Req(b).user].since
  BY <1>2 DEF IInv, UsersOK, UserSet
<1> HIDE DEF late
<1>7. s \in SessionSet /\ s.code = Req(b).code /\ (s.password # 0 => s.late \/ s.password >= users[s.user].since)
  BY <1>2, <1>4, <1>6 DEF SessionSet
<1> HIDE DEF s
<1> QED
  BY <1>1, <1>3, <1>5, <1>7, AddingKeeps

\* The transaction looks at the invitation again.
LEMMA RegisterKeeps ==
  ASSUME IInv, NEW b \in Browsers, Register(b) PROVE IInv'
<1> DEFINE user == Req(b).user
           invited == codes[Req(b).code].invited
           s == [user |-> user, live |-> TRUE, password |-> 1, code |-> Req(b).code, late |-> FALSE]
<1>1. user \in Users /\ Req(b).code \in Nat
  BY Requester, BrowserTypes DEF Register, RequestSet
<1>2. CASE users[user].status = "none" /\ Admitted(invited)
  <2>1. /\ users' = [users EXCEPT ![user].status = "active", ![user].password = 1]
        /\ invitation' = [invitation EXCEPT !.used = IF invited THEN @ + 1 ELSE @]
        /\ sessions' = Append(sessions, s)
        /\ UNCHANGED <<codes, mode>> /\ Req(b).stage \in {"create", "register"}
    BY <1>2 DEF Register
  <2>2. PICK stage \in {"done", "failed"} :
          browsers' = [browsers EXCEPT ![b].req.stage = stage, ![b].req.session = Len(sessions')]
    BY <1>2 DEF Register
  <2>3. s \in SessionSet /\ s.code = Req(b).code /\ s.password = 1 /\ s.user = user
    BY <1>1 DEF SessionSet
  <2>4. /\ users \in [Users -> UserSet] /\ users[user].since = 0 /\ users[user].linked = FALSE
    BY <1>1, <1>2 DEF IInv, UsersOK
  <2>5. users' \in [Users -> UserSet]
    BY <1>1, <2>1, <2>4 DEF UserSet
  <2>6. /\ users'[user].since = 0 /\ users'[user].linked = FALSE /\ users'[user].password = 1
        /\ users'[user].status = "active"
        /\ \A u \in Users : u # user => users'[u] = users[u]
    BY <1>1, <2>1, <2>4 DEF UserSet
  <2>7. UsersOK' /\ \A u \in Users : users'[u].since = users[u].since
    BY <2>4, <2>5, <2>6 DEF IInv, UsersOK
  <2>8. InvitationOK'
    <3>1. /\ invitation \in [limit : 0..MaxUses, used : Nat, revoked : BOOLEAN]
          /\ invitation.used <= invitation.limit
      BY DEF IInv, InvitationOK
    <3>2. CASE invited
      <4>1. invitation.used < invitation.limit
        BY <1>2, <3>2 DEF Admitted, Invited
      <4>2. invitation' = [invitation EXCEPT !.used = @ + 1]
        BY <2>1, <3>2
      <4>3. PICK used \in Nat : used = invitation.used + 1 /\ used <= invitation.limit
        BY <3>1, <4>1
      <4>4. invitation' = [invitation EXCEPT !.used = used]
        BY <4>2, <4>3
      <4>5. /\ invitation' \in [limit : 0..MaxUses, used : Nat, revoked : BOOLEAN]
            /\ invitation'.used = used /\ invitation'.limit = invitation.limit
        BY <3>1, <4>4
      <4> QED
        BY <2>1, <4>3, <4>5 DEF IInv, InvitationOK
    <3>3. CASE ~invited
      <4>1. invitation' = [invitation EXCEPT !.used = invitation.used]
        BY <2>1, <3>3
      <4>2. invitation' = invitation
        BY <3>1, <4>1
      <4> QED
        BY <2>1, <4>2 DEF IInv, InvitationOK
    <3> QED
      BY <3>2, <3>3
  <2>9. s.password # 0 => s.late \/ s.password >= users[s.user].since
    BY <2>3, <2>4
  <2> HIDE DEF s
  <2> QED
    BY <2>1, <2>2, <2>3, <2>7, <2>8, <2>9, AddingKeeps
<1>3. CASE ~(users[user].status = "none" /\ Admitted(invited))
  <2>1. Goes(b, "failed") /\ UNCHANGED serverVars
    BY <1>3 DEF Register, Failing, serverVars
  <2>2. CodesLater /\ SessionsEnd
    BY <2>1, CodesStay, SessionsStay DEF serverVars
  <2>3. BrowsersGo
    BY <1>1, <2>1, <2>2, RequestEnds
  <2> QED
    BY <2>1, <2>3, QuietServer
<1> QED
  BY <1>2, <1>3

-----------------------------------------------------------------------------
(* The administrator, mail and time                                        *)

LEMMA RequestCodeKeeps ==
  ASSUME IInv, NEW user \in Users, NEW op \in {"code", "register"}, NEW invited \in BOOLEAN,
         RequestCode(user, op, invited)
  PROVE  IInv'
<1> DEFINE c == [user |-> user, op |-> op, invited |-> invited, tries |-> 0, open |-> TRUE, fresh |-> TRUE]
<1>1. codes' = Append(codes, c) /\ UNCHANGED <<users, sessions, invitation, mode, browsers>>
  BY DEF RequestCode
<1>2. c \in CodeSet
  BY AccountsAssumption DEF CodeSet
<1> HIDE DEF c
<1>3. CodesLater
  BY <1>1, <1>2, Domains DEF CodesLater, IInv, CodesOK
<1>4. SessionsEnd /\ UsersOK' /\ InvitationOK'
  BY <1>1, SessionsStay DEF IInv, UsersOK, InvitationOK
<1> QED
  BY <1>1, <1>3, <1>4, BrowsersStay, EndingIsSafe, Unspent

LEMMA CodeExpiresKeeps ==
  ASSUME IInv, UNCHANGED browsers, NEW i \in DOMAIN codes, CodeExpires(i) PROVE IInv'
<1> DEFINE row == [codes[i] EXCEPT !.fresh = FALSE]
<1>1. i \in 1..Len(codes) /\ codes' = [codes EXCEPT ![i] = row]
  BY Domains DEF CodeExpires
<1>2. CodesLater
  <2>1. row \in CodeSet /\ row.open = codes[i].open
    BY <1>1, Domains DEF CodeSet
  <2> HIDE DEF row
  <2> QED
    BY <1>1, <2>1, OneRow
<1>3. SessionsEnd /\ UsersOK' /\ InvitationOK' /\ UNCHANGED users
  BY SessionsStay DEF CodeExpires, IInv, UsersOK, InvitationOK
<1> QED
  BY <1>2, <1>3, BrowsersStay, EndingIsSafe, Unspent

LEMMA SetUserStatusKeeps ==
  ASSUME IInv, UNCHANGED browsers, NEW user \in Users, NEW status \in {"active", "disabled"},
         SetUserStatus(user, status)
  PROVE  IInv'
<1>1. /\ users' = [users EXCEPT ![user].status = status] /\ users \in [Users -> UserSet]
      /\ users[user].status # "none" /\ status # "none"
  BY DEF SetUserStatus, IInv, UsersOK
<1>2. users' \in [Users -> UserSet]
  BY <1>1 DEF UserSet
<1>3. \A u \in Users : /\ users'[u].since = users[u].since /\ users'[u].password = users[u].password
                       /\ users'[u].linked = users[u].linked
                       /\ users'[u].status = "none" => users[u].status = "none"
  BY <1>1 DEF UserSet
<1>4. UsersOK'
  BY <1>2, <1>3 DEF IInv, UsersOK
<1>5. CodesLater /\ InvitationOK'
  BY CodesStay DEF SetUserStatus, IInv, InvitationOK
<1>6. SessionsEnd
  BY SessionsStay, RevokedEnds DEF SetUserStatus
<1> QED
  BY <1>3, <1>4, <1>5, <1>6, BrowsersStay, EndingIsSafe, Unspent

LEMMA RevokeUserSessionsKeeps ==
  ASSUME IInv, UNCHANGED browsers, NEW user \in Users, RevokeUserSessions(user) PROVE IInv'
<1>1. CodesLater /\ InvitationOK' /\ UsersOK' /\ UNCHANGED users
  BY CodesStay DEF RevokeUserSessions, IInv, InvitationOK, UsersOK
<1>2. SessionsEnd
  BY RevokedEnds DEF RevokeUserSessions
<1> QED
  BY <1>1, <1>2, BrowsersStay, EndingIsSafe, Unspent

LEMMA IssueResetKeeps ==
  ASSUME IInv, UNCHANGED browsers, NEW user \in Users, IssueReset(user) PROVE IInv'
<1>1. /\ users' = [users EXCEPT ![user].linked = TRUE] /\ users \in [Users -> UserSet]
      /\ users[user].status # "none"
  BY DEF IssueReset, IInv, UsersOK
<1>2. users' \in [Users -> UserSet]
  BY <1>1 DEF UserSet
<1>3. \A u \in Users : /\ users'[u].since = users[u].since /\ users'[u].password = users[u].password
                       /\ users'[u].status = users[u].status
                       /\ u # user => users'[u].linked = users[u].linked
  BY <1>1 DEF UserSet
<1>4. UsersOK'
  BY <1>1, <1>2, <1>3 DEF IInv, UsersOK
<1>5. CodesLater /\ InvitationOK' /\ SessionsEnd
  BY CodesStay, SessionsStay DEF IssueReset, IInv, InvitationOK
<1> QED
  BY <1>3, <1>4, <1>5, BrowsersStay, EndingIsSafe, Unspent

\* The invitation and the registration mode
LEMMA AdmissionKeeps ==
  ASSUME IInv, UNCHANGED browsers,
         \/ \E limit \in 1..MaxUses : CreateInvitation(limit)
         \/ RevokeInvitation
         \/ \E m \in {"invite", "open"} : SetMode(m)
  PROVE  IInv'
<1>1. UNCHANGED <<users, sessions, codes>>
  BY DEF CreateInvitation, RevokeInvitation, SetMode
<1>2. CodesLater /\ SessionsEnd /\ UsersOK'
  BY <1>1, CodesStay, SessionsStay DEF IInv, UsersOK
<1>3. /\ invitation \in [limit : 0..MaxUses, used : Nat, revoked : BOOLEAN]
      /\ mode \in {"invite", "open"} /\ invitation.used <= invitation.limit
  BY DEF IInv, InvitationOK
<1>4. InvitationOK'
  <2>1. ASSUME NEW limit \in 1..MaxUses, CreateInvitation(limit) PROVE InvitationOK'
    <3>1. invitation' = [invitation EXCEPT !.limit = limit] /\ invitation.limit = 0 /\ mode' = mode
      BY <2>1 DEF CreateInvitation
    <3>2. limit \in 0..MaxUses /\ 0 <= limit
      BY AccountsAssumption
    <3> QED
      BY <1>3, <3>1, <3>2 DEF InvitationOK
  <2>2. CASE RevokeInvitation
    BY <1>3, <2>2 DEF RevokeInvitation, InvitationOK
  <2>3. ASSUME NEW m \in {"invite", "open"}, SetMode(m) PROVE InvitationOK'
    BY <1>3, <2>3 DEF SetMode, InvitationOK
  <2> QED
    BY <2>1, <2>2, <2>3
<1> QED
  BY <1>1, <1>2, <1>4, BrowsersStay, EndingIsSafe, Unspent

-----------------------------------------------------------------------------
(* The theorems                                                            *)

LEMMA InitKeeps == Init => IInv
<1> SUFFICES ASSUME Init PROVE IInv
  OBVIOUS
<1> DEFINE unknown == [cookie |-> 0, who |-> Nobody, data |-> Nobody, asking |-> Idle,
                       fetching |-> Idle, past |-> "out", req |-> NoRequest]
<1>1. UsersOK
  BY DEF Init, UsersOK, UserSet
<1>2. Len(sessions) = 0 /\ Len(codes) = 0 /\ sessions \in Seq(SessionSet) /\ codes \in Seq(CodeSet)
  BY DEF Init
<1>3. CodesOK /\ SessionsOK
  BY <1>2 DEF CodesOK, SessionsOK
<1>4. InvitationOK
  BY AccountsAssumption DEF Init, InvitationOK
<1>5. browsers = [b \in Browsers |-> unknown]
  BY DEF Init, NoSession
<1>6. unknown \in BrowserSet /\ unknown.cookie = 0 /\ unknown.req = NoRequest
  <2>1. Nobody \in People /\ Idle \in Fetches
    BY DEF People, Fetches
  <2> QED
    BY <2>1, NoRequestType DEF BrowserSet
<1> HIDE DEF unknown
<1>7. BrowsersOK
  <2>1. browsers \in [Browsers -> BrowserSet]
    BY <1>5, <1>6
  <2>2. ASSUME NEW b \in Browsers PROVE BrowserOK(b)
    BY <1>2, <1>5, <1>6 DEF BrowserOK, Req, NoRequest
  <2> QED
    BY <2>1, <2>2 DEF BrowsersOK
<1>8. SpentOnce
  BY <1>5, <1>6 DEF SpentOnce, Spent, Req, NoRequest
<1>9. CodesLogInOnce /\ ResetEndsSessions
  BY DEF Init, CodesLogInOnce, ResetEndsSessions
<1> QED
  BY <1>1, <1>3, <1>4, <1>7, <1>8, <1>9 DEF IInv

LEMMA LoginPageKeeps ==
  ASSUME IInv, NEW b \in Browsers, LoginPage(b) \/ RegisterPage(b) \/ ResetPasswordPage(b)
  PROVE  IInv'
<1>1. ASSUME LoginPage(b) PROVE IInv'
  BY <1>1, HandlePasswordLoginKeeps, HandleCodeKeeps, RequestCodeKeeps DEF LoginPage, HandleSendCode
<1>2. ASSUME RegisterPage(b) PROVE IInv'
  BY <1>2, HandleCodeKeeps, RequestCodeKeeps DEF RegisterPage
<1>3. ASSUME ResetPasswordPage(b) PROVE IInv'
  BY <1>3, HandleResetKeeps DEF ResetPasswordPage
<1> QED
  BY <1>1, <1>2, <1>3

LEMMA SettingsPageKeeps ==
  ASSUME IInv, NEW b \in Browsers, SettingsPage(b) PROVE IInv'
<1>1. ASSUME HandleLogout(b) \/ HandleChangePassword(b, browsers[b].who) PROVE IInv'
  BY <1>1, HandleLogoutKeeps, HandleChangePasswordKeeps
<1>2. ASSUME NEW session \in DOMAIN sessions, HandleRevokeSession(b, session) PROVE IInv'
  BY <1>2, HandleRevokeSessionKeeps
<1> QED
  BY <1>1, <1>2 DEF SettingsPage

LEMMA ServedKeeps ==
  ASSUME IInv, NEW b \in Browsers, Served(b) PROVE IInv'
BY VerifyPasswordKeeps, CreateSessionKeeps, VerifyCodeKeeps, CountAttemptKeeps, ConsumeCodeKeeps, LookUpKeeps,
   RegisterKeeps, StatementFailsKeeps, ResetKeeps, VerifyCurrentKeeps, UpdatePasswordKeeps, RevokeSessionKeeps, LogoutKeeps DEF Served

LEMMA AdministratorKeeps ==
  ASSUME IInv, UNCHANGED browsers,
         AdminUsersPage \/ ForgotPasswordPage \/ \E i \in DOMAIN codes : CodeExpires(i)
  PROVE  IInv'
<1>1. ASSUME NEW user \in Users, HandleAction(user) PROVE IInv'
  BY <1>1, SetUserStatusKeeps, RevokeUserSessionsKeeps, IssueResetKeeps DEF HandleAction
<1>2. ASSUME NEW user \in Users, IssueReset(user) PROVE IInv'
  BY <1>2, IssueResetKeeps
<1>3. ASSUME NEW i \in DOMAIN codes, CodeExpires(i) PROVE IInv'
  BY <1>3, CodeExpiresKeeps
<1> QED
  BY <1>1, <1>2, <1>3 DEF AdminUsersPage, ForgotPasswordPage

LEMMA StepKeeps == IInv /\ [Next]_vars => IInv'
<1> SUFFICES ASSUME IInv, [Next]_vars PROVE IInv'
  OBVIOUS
<1>1. CASE UNCHANGED vars
  <2>1. UNCHANGED serverVars /\ UNCHANGED browsers
    BY <1>1 DEF vars
  <2>2. CodesLater /\ SessionsEnd
    BY <2>1, CodesStay, SessionsStay DEF serverVars
  <2> QED
    BY <2>1, <2>2, BrowsersStay, QuietServer
<1>2. ASSUME NEW b \in Browsers,
             \/ LoginPage(b) \/ RegisterPage(b) \/ ResetPasswordPage(b) \/ SettingsPage(b)
             \/ Served(b) \/ Answered(b) \/ AskSession(b) \/ SessionArrives(b) \/ Fetch(b) \/ DataArrives(b)
      PROVE  IInv'
  BY <1>2, LoginPageKeeps, SettingsPageKeeps, ServedKeeps, AnsweredKeeps, FetchesKeep
<1>3. ASSUME InvitePage PROVE IInv'
  BY <1>3, RequestCodeKeeps DEF InvitePage
<1>4. ASSUME AdminInvitationsPage PROVE IInv'
  BY <1>4, AdmissionKeeps DEF AdminInvitationsPage, CreateInvitation
<1>5. ASSUME Administers,
             \/ AdminUsersPage \/ ForgotPasswordPage \/ RevokeInvitation
             \/ \E m \in {"invite", "open"} : SetMode(m)
             \/ \E i \in DOMAIN codes : CodeExpires(i)
      PROVE  IInv'
  BY <1>5, AdministratorKeeps, AdmissionKeeps DEF Administers
<1> QED
  BY <1>1, <1>2, <1>3, <1>4, <1>5 DEF Next

LEMMA TypesHold == IInv => TypeOK
<1> SUFFICES ASSUME IInv PROVE TypeOK
  OBVIOUS
<1>1. /\ users \in [Users -> [status : {"none", "active", "disabled"}, password : Nat, since : Nat, linked : BOOLEAN]]
      /\ codes \in Seq([user : Users, op : {"code", "register"}, invited : BOOLEAN, tries : Nat,
                       open : BOOLEAN, fresh : BOOLEAN])
      /\ invitation \in [limit : 0..MaxUses, used : Nat, revoked : BOOLEAN] /\ mode \in {"invite", "open"}
  BY DEF IInv, UsersOK, UserSet, CodesOK, CodeSet, InvitationOK
<1> DEFINE S == [user : Users, live : BOOLEAN, password : Nat, code : 0..Len(codes), late : BOOLEAN]
<1>2. ASSUME NEW i \in 1..Len(sessions) PROVE sessions[i] \in S
  <2>1. sessions[i] \in SessionSet /\ sessions[i].code <= Len(codes)
    BY Domains DEF IInv, SessionsOK
  <2>2. sessions[i].code \in 0..Len(codes)
    BY <2>1, Domains DEF SessionSet
  <2> QED
    BY <2>1, <2>2 DEF SessionSet
<1>3. sessions \in [1..Len(sessions) -> S]
  <2>1. sessions = [i \in 1..Len(sessions) |-> sessions[i]]
    BY LenProperties DEF IInv, SessionsOK
  <2> HIDE DEF S
  <2> QED
    BY <2>1, <1>2, Zenon
<1>4. sessions \in Seq(S)
  BY <1>3, SameLength DEF IInv, SessionsOK
<1>5. ASSUME NEW b \in Browsers
      PROVE  /\ browsers[b].cookie \in 0..Len(sessions) /\ Req(b).session \in 0..Len(sessions)
             /\ browsers[b].who \in Users \cup {Nobody} /\ browsers[b].data \in Users \cup {Nobody}
  BY BrowserTypes DEF BrowserSet, People
<1> QED
  BY <1>1, <1>4, <1>5 DEF TypeOK

LEMMA Inductive == Spec => []IInv
<1>1. Init => IInv
  BY InitKeeps
<1>2. IInv /\ [Next]_vars => IInv'
  BY StepKeeps
<1> QED
  BY <1>1, <1>2, PTL DEF Spec

\* A mailed code opens one session at most and an invitation admits no more
\* accounts than it says, although both are read before they are used
\* (auth/emailcode.go, auth/sqlstore.go): for any people, browsers and bounds.
THEOREM AdmissionsHold == Spec => []AdmissionsAreSpent
<1>1. IInv => AdmissionsAreSpent
  <2> SUFFICES ASSUME IInv PROVE AdmissionsAreSpent
    OBVIOUS
  <2>1. CodesLogInOnce /\ invitation.used <= invitation.limit
    BY DEF IInv, InvitationOK
  <2> QED
    BY <2>1, TypesHold DEF AdmissionsAreSpent, InvitationIsNotOverspent
<1> QED
  BY <1>1, Inductive, PTL

\* No session that was opened with an earlier password outlives a reset
\* (auth/sqlstore.go, ConsumePasswordResetToken), except one whose sign-in had
\* verified that password before.
THEOREM ResetsHold == Spec => []ResetEndsSessions
<1>1. IInv => ResetEndsSessions
  BY DEF IInv
<1> QED
  BY <1>1, Inductive, PTL

-----------------------------------------------------------------------------
(* Whose data a browser keeps.  A cookie and what was fetched with it are   *)
(* of one user, and a browser that logged out holds nothing: so after the   *)
(* next sign-in there is nothing of anybody else, nor on its way.           *)

SignIns == {"password", "code", "register"}

\* A sign-in that succeeded names its own session; only a password is updated.
RequestMine(b) ==
  /\ Req(b).op \in SignIns /\ Req(b).stage = "done" =>
       Req(b).session # 0 /\ sessions[Req(b).session].user = Req(b).user
  /\ Req(b).stage = "update" => Req(b).op \notin SignIns

\* The cache, and what is under way to it, is of these people.
Belongs(b, people) ==
  /\ browsers[b].who \in people /\ browsers[b].data \in people
  /\ browsers[b].asking # Idle => browsers[b].asking[1] \in people
  /\ browsers[b].fetching # Idle => browsers[b].fetching[1] \in people

CacheMine(b) ==
  /\ browsers[b].past = "out" => browsers[b].cookie = 0 /\ Belongs(b, {Nobody})
  /\ browsers[b].past = "in" =>
       browsers[b].cookie # 0 /\ Belongs(b, {Nobody, sessions[browsers[b].cookie].user})

AllMine == \A b \in Browsers : RequestMine(b) /\ CacheMine(b)

\* Sessions are added and end; none changes its user.
UsersStay ==
  /\ Len(sessions) <= Len(sessions')
  /\ \A i \in 1..Len(sessions) : sessions'[i].user = sessions[i].user

\* The browser's cache is left alone.
CacheStays(b) ==
  /\ browsers'[b].cookie = browsers[b].cookie /\ browsers'[b].past = browsers[b].past
  /\ browsers'[b].who = browsers[b].who /\ browsers'[b].data = browsers[b].data
  /\ browsers'[b].asking = browsers[b].asking /\ browsers'[b].fetching = browsers[b].fetching

LEMMA EndingStays == ASSUME IInv, SessionsEnd PROVE UsersStay
BY Domains DEF SessionsEnd, UsersStay

LEMMA AddingStays ==
  ASSUME IInv, NEW s, s.user \in Users, sessions' = Append(sessions, s)
  PROVE  UsersStay /\ Len(sessions') # 0 /\ sessions'[Len(sessions')].user = s.user
<1>1. Len(sessions) \in Nat /\ sessions \in Seq(SessionSet)
  BY Domains DEF IInv, SessionsOK
<1> DEFINE S == SessionSet \cup {s}
<1>2. sessions \in Seq(S) /\ s \in S
  <2>1. sessions = [i \in 1..Len(sessions) |-> sessions[i]]
    BY <1>1, LenProperties
  <2>2. sessions \in [1..Len(sessions) -> S]
    BY <2>1, Domains
  <2> QED
    BY <1>1, <2>2, SameLength
<1> HIDE DEF S
<1>3. Len(sessions') = Len(sessions) + 1 /\ sessions'[Len(sessions) + 1] = s
      /\ \A i \in 1..Len(sessions) : sessions'[i] = sessions[i]
  BY <1>1, <1>2, AppendProperties
<1> QED
  BY <1>1, <1>3 DEF UsersStay

LEMMA CacheKept ==
  ASSUME IInv, UsersStay, NEW b \in Browsers, CacheMine(b), CacheStays(b) PROVE CacheMine(b)'
<1>1. browsers[b].cookie # 0 => browsers[b].cookie \in 1..Len(sessions)
  BY BrowserTypes, Domains
<1>2. browsers[b].cookie # 0 =>
        sessions'[browsers[b].cookie].user = sessions[browsers[b].cookie].user
  BY <1>1 DEF UsersStay
<1> QED
  BY <1>2 DEF CacheMine, CacheStays, Belongs

LEMMA RequestKept ==
  ASSUME IInv, UsersStay, NEW b \in Browsers, RequestMine(b), Req(b)' = Req(b) PROVE RequestMine(b)'
<1>1. Req(b).session # 0 => Req(b).session \in 1..Len(sessions)
  BY BrowserTypes, Domains
<1>2. Req(b).session # 0 => sessions'[Req(b).session].user = sessions[Req(b).session].user
  BY <1>1 DEF UsersStay
<1> QED
  BY <1>2 DEF RequestMine

\* One browser changes; the others keep what they have.
LEMMA OneChanges ==
  ASSUME IInv, AllMine, UsersStay, NEW b \in Browsers, NEW r, browsers' = [browsers EXCEPT ![b] = r],
         RequestMine(b)', CacheMine(b)'
  PROVE  AllMine'
<1>1. browsers \in [Browsers -> BrowserSet]
  BY DEF IInv, BrowsersOK
<1>2. ASSUME NEW c \in Browsers, c # b PROVE RequestMine(c)' /\ CacheMine(c)'
  <2>1. browsers'[c] = browsers[c]
    BY <1>1, <1>2
  <2>2. CacheStays(c) /\ Req(c)' = Req(c)
    BY <2>1 DEF CacheStays, Req
  <2> QED
    BY <2>2, CacheKept, RequestKept DEF AllMine
<1> QED
  BY <1>2 DEF AllMine

\* A request changes, and the cache does not.
LEMMA RequestGoes ==
  ASSUME IInv, AllMine, UsersStay, NEW b \in Browsers, NEW q,
         browsers' = [browsers EXCEPT ![b].req = q],
         q.op \in SignIns /\ q.stage = "done" => q.session # 0 /\ sessions'[q.session].user = q.user,
         q.stage = "update" => q.op \notin SignIns
  PROVE  AllMine'
<1> DEFINE r == [browsers[b] EXCEPT !.req = q]
<1>1. /\ r.req = q /\ r.cookie = browsers[b].cookie /\ r.past = browsers[b].past
      /\ r.who = browsers[b].who /\ r.data = browsers[b].data
      /\ r.asking = browsers[b].asking /\ r.fetching = browsers[b].fetching
  BY BrowserTypes DEF BrowserSet
<1>2. browsers' = [browsers EXCEPT ![b] = r] /\ browsers'[b] = r
  BY DEF IInv, BrowsersOK
<1> HIDE DEF r
<1>3. CacheMine(b)'
  BY <1>1, <1>2, CacheKept DEF CacheStays, AllMine
<1>4. RequestMine(b)'
  BY <1>1, <1>2 DEF RequestMine, Req
<1> QED
  BY <1>2, <1>3, <1>4, OneChanges

LEMMA SendingMine ==
  ASSUME IInv, AllMine, NEW b \in Browsers, NEW q, Sends(b, q), q.stage = "sent" PROVE AllMine'
<1>1. browsers' = [browsers EXCEPT ![b].req = q] /\ UNCHANGED sessions
  BY DEF Sends, serverVars
<1> QED
  BY <1>1, SessionsStay, EndingStays, RequestGoes

\* A request comes to another stage, but for a sign-in that succeeds.
LEMMA StageMine ==
  ASSUME IInv, AllMine, UsersStay, NEW b \in Browsers, NEW stage, Goes(b, stage),
         stage \in {"done", "update"} => Req(b).op \notin SignIns
  PROVE  AllMine'
<1> DEFINE q == [Req(b) EXCEPT !.stage = stage]
<1>1. q.op = Req(b).op /\ q.stage = stage
  BY BrowserTypes DEF RequestSet
<1>2. browsers' = [browsers EXCEPT ![b].req = q]
  BY DEF Goes, Req
<1> HIDE DEF q
<1> QED
  BY <1>1, <1>2, RequestGoes

\* A sign-in comes to its end with a session of its user.
LEMMA SignInMine ==
  ASSUME IInv, AllMine, NEW b \in Browsers, NEW s, s.user \in Users, s.user = Req(b).user,
         sessions' = Append(sessions, s), NEW stage \in {"done", "failed"},
         browsers' = [browsers EXCEPT ![b].req.stage = stage, ![b].req.session = Len(sessions')]
  PROVE  AllMine'
<1>1. UsersStay /\ Len(sessions') # 0 /\ sessions'[Len(sessions')].user = Req(b).user
  BY AddingStays
<1>2. PICK n : n = Len(sessions')
  OBVIOUS
<1> DEFINE q == [Req(b) EXCEPT !.stage = stage, !.session = n]
<1>3. q.stage = stage /\ q.session = n /\ q.user = Req(b).user
  BY BrowserTypes DEF RequestSet
<1>4. browsers' = [browsers EXCEPT ![b].req = q]
  BY <1>2 DEF Req
<1> HIDE DEF q
<1>5. q.session # 0 /\ sessions'[q.session].user = q.user /\ q.stage # "update"
  BY <1>1, <1>2, <1>3
<1> QED
  BY <1>1, <1>4, <1>5, RequestGoes

LEMMA ServedMine ==
  ASSUME IInv, AllMine, NEW b \in Browsers, Served(b) PROVE AllMine'
<1>1. ASSUME VerifyPassword(b) \/ LookUp(b) \/ ConsumeCode(b) \/ CountAttempt(b) \/ StatementFails(b)
      PROVE  AllMine'
  <2>1. UNCHANGED sessions
    BY <1>1 DEF VerifyPassword, LookUp, ConsumeCode, CountAttempt, StatementFails, serverVars
  <2>2. PICK stage : Goes(b, stage) /\ stage \notin {"done", "update"}
    BY <1>1 DEF VerifyPassword, LookUp, ConsumeCode, CountAttempt, StatementFails, Failing
  <2> QED
    BY <2>1, <2>2, SessionsStay, EndingStays, StageMine
<1>6. ASSUME VerifyCode(b) PROVE AllMine'
  <2>1. UsersStay
    BY <1>6, SessionsStay, EndingStays DEF VerifyCode, serverVars
  <2>2. CASE Goes(b, "consume") \/ Goes(b, "failed")
    BY <2>1, <2>2, StageMine
  <2>3. ASSUME NEW i, browsers' = [browsers EXCEPT ![b].req = WrongCode(Req(b).op, Req(b).user, i)]
        PROVE  AllMine'
    <3>1. PICK q : q = WrongCode(Req(b).op, Req(b).user, i)
      OBVIOUS
    <3>2. q.stage = "count"
      BY <3>1 DEF WrongCode
    <3> QED
      BY <2>1, <2>3, <3>1, <3>2, RequestGoes
  <2> QED
    BY <1>6, <2>2, <2>3 DEF VerifyCode, Failing
<1>2. ASSUME CreateSession(b) PROVE AllMine'
  <2> DEFINE s == [user |-> Req(b).user, live |-> TRUE, password |-> Req(b).password, code |-> Req(b).code,
                   late |-> Req(b).password # 0 /\ Req(b).password # users[Req(b).user].password]
  <2>1. sessions' = Append(sessions, s) /\ s.user = Req(b).user /\ s.user \in Users
    BY <1>2, Requester DEF CreateSession
  <2>2. PICK stage \in {"done", "failed"} :
          browsers' = [browsers EXCEPT ![b].req.stage = stage, ![b].req.session = Len(sessions')]
    BY <1>2 DEF CreateSession
  <2> HIDE DEF s
  <2> QED
    BY <2>1, <2>2, SignInMine
<1>3. ASSUME Register(b) PROVE AllMine'
  <2> DEFINE s == [user |-> Req(b).user, live |-> TRUE, password |-> 1, code |-> Req(b).code, late |-> FALSE]
  <2>1. s.user = Req(b).user /\ s.user \in Users
    BY <1>3, Requester DEF Register
  <2>2. CASE UNCHANGED sessions /\ Failing(b)
    BY <2>2, SessionsStay, EndingStays, StageMine DEF Failing
  <2>3. CASE /\ sessions' = Append(sessions, s)
             /\ \E stage \in {"done", "failed"} :
                  browsers' = [browsers EXCEPT ![b].req.stage = stage, ![b].req.session = Len(sessions')]
    <3> HIDE DEF s
    <3> QED
      BY <2>1, <2>3, SignInMine
  <2> QED
    BY <1>3, <2>2, <2>3 DEF Register
<1>4. ASSUME VerifyCurrent(b) PROVE AllMine'
  <2>1. UNCHANGED sessions /\ Req(b).op \notin SignIns
    BY <1>4 DEF VerifyCurrent, serverVars, SignIns
  <2>2. Goes(b, "update") \/ Goes(b, "failed")
    BY <1>4 DEF VerifyCurrent, Failing
  <2> QED
    BY <2>1, <2>2, SessionsStay, EndingStays, StageMine
<1>5. ASSUME Reset(b) \/ UpdatePassword(b) \/ RevokeSession(b) \/ Logout(b) PROVE AllMine'
  <2>1. Req(b).op \notin SignIns
    BY <1>5 DEF Reset, UpdatePassword, RevokeSession, Logout, AllMine, RequestMine, SignIns
  <2>2. Goes(b, "done") \/ Goes(b, "failed")
    BY <1>5 DEF Reset, UpdatePassword, RevokeSession, Logout, Answering, Failing
  <2>3. SessionsEnd
    <3>1. ASSUME Reset(b) \/ UpdatePassword(b) PROVE SessionsEnd
      BY <3>1, SessionsStay, RevokedEnds DEF Reset, UpdatePassword, ResetSessions
    <3> QED
      BY <1>5, <3>1, RevokeSessionEnds, LogoutEnds
  <2> QED
    BY <2>1, <2>2, <2>3, EndingStays, StageMine
<1> QED
  BY <1>1, <1>2, <1>3, <1>4, <1>5, <1>6 DEF Served

\* Answers: a sign-in makes the first cookie after a logout, which found
\* nothing; a logout leaves nothing.
LEMMA AnsweredMine ==
  ASSUME IInv, AllMine, NEW b \in Browsers, Answered(b) PROVE AllMine'
<1>1. browsers[b] \in BrowserSet /\ browsers \in [Browsers -> BrowserSet] /\ CacheMine(b) /\ RequestMine(b)
  BY BrowserTypes DEF IInv, BrowsersOK, AllMine
<1>2. UNCHANGED sessions /\ UsersStay
  BY SessionsStay, EndingStays DEF Answered, serverVars
<1>3. NoRequest.op \notin SignIns /\ NoRequest.stage = "sent"
  BY DEF NoRequest, SignIns
<1>4. CASE browsers' = [browsers EXCEPT ![b] = Applied(b)] /\ Req(b).stage = "done" /\ Req(b).op \in SignIns
  <2>1. Req(b).session # 0 /\ sessions[Req(b).session].user = Req(b).user
    BY <1>1, <1>4 DEF RequestMine
  <2> DEFINE r == Applied(b)
  <2>2. /\ r.cookie = Req(b).session /\ r.who = Req(b).user /\ r.req = NoRequest
        /\ r.past = IF browsers[b].past = "out" THEN "in" ELSE "over"
        /\ r.data = browsers[b].data /\ r.asking = browsers[b].asking /\ r.fetching = browsers[b].fetching
    BY <1>1 DEF BrowserSet, Applied
  <2>3. browsers'[b] = r
    BY <1>1, <1>4
  <2> HIDE DEF r
  <2>4. CacheMine(b)'
    BY <1>1, <1>2, <2>1, <2>2, <2>3 DEF CacheMine, Belongs
  <2>5. RequestMine(b)'
    BY <1>3, <2>2, <2>3 DEF RequestMine, Req
  <2> QED
    BY <1>2, <1>4, <2>4, <2>5, OneChanges
<1>5. CASE browsers' = [browsers EXCEPT ![b] = Cleared(b)]
  <2> DEFINE r == Cleared(b)
  <2>1. /\ r.cookie = 0 /\ r.who = Nobody /\ r.req = NoRequest /\ r.past = "out"
        /\ r.data = Nobody /\ r.asking = Idle /\ r.fetching = Idle
    BY <1>1 DEF BrowserSet, Cleared, NoSession
  <2>2. browsers'[b] = r
    BY <1>1, <1>5
  <2> HIDE DEF r
  <2>3. CacheMine(b)'
    BY <2>1, <2>2 DEF CacheMine, Belongs
  <2>4. RequestMine(b)'
    BY <1>3, <2>1, <2>2 DEF RequestMine, Req
  <2> QED
    BY <1>2, <1>5, <2>3, <2>4, OneChanges
<1>6. CASE browsers' = [browsers EXCEPT ![b].req = NoRequest]
  BY <1>2, <1>3, <1>6, RequestGoes
<1> QED
  BY <1>4, <1>5, <1>6 DEF Answered, SignIns

\* What a fetch brings is of the one the cookie is of, or of nobody.
LEMMA FetchesMine ==
  ASSUME IInv, AllMine, NEW b \in Browsers,
         AskSession(b) \/ SessionArrives(b) \/ Fetch(b) \/ DataArrives(b)
  PROVE  AllMine'
<1>0. browsers[b] \in BrowserSet /\ browsers \in [Browsers -> BrowserSet] /\ CacheMine(b) /\ RequestMine(b)
  BY BrowserTypes DEF IInv, BrowsersOK, AllMine
<1>1. UNCHANGED sessions /\ UsersStay
  BY SessionsStay, EndingStays DEF AskSession, SessionArrives, Fetch, DataArrives, serverVars
<1>2. /\ browsers[b].past = "out" => Authenticate(b) = Nobody
      /\ browsers[b].past = "in" => Authenticate(b) \in {Nobody, sessions[browsers[b].cookie].user}
  BY <1>0 DEF Authenticate, CacheMine, NoSession
<1> DEFINE d == IF browsers[b].fetching[1] = Nobody THEN browsers[b].data ELSE browsers[b].fetching[1]
           asked == [browsers[b] EXCEPT !.asking = <<Authenticate(b)>>]
           known == [browsers[b] EXCEPT !.asking = Idle, !.who = browsers[b].asking[1]]
           fetched == [browsers[b] EXCEPT !.fetching = <<Authenticate(b)>>]
           shown == [browsers[b] EXCEPT !.fetching = Idle, !.data = d]
\* Neither the cookie nor what it was set for changes.
<1>3. ASSUME NEW r, r.cookie = browsers[b].cookie, r.past = browsers[b].past, r.req = browsers[b].req,
             browsers' = [browsers EXCEPT ![b] = r],
             \A people : Nobody \in people /\ Authenticate(b) \in people /\ Belongs(b, people) =>
               /\ r.who \in people /\ r.data \in people
               /\ r.asking # Idle => r.asking[1] \in people
               /\ r.fetching # Idle => r.fetching[1] \in people
      PROVE  AllMine'
  <2>1. browsers'[b] = r
    BY <1>0, <1>3
  <2>2. RequestMine(b)'
    BY <1>0, <1>1, <1>3, <2>1, RequestKept DEF Req
  <2>3. ASSUME NEW people, Nobody \in people, Authenticate(b) \in people, Belongs(b, people)
        PROVE  Belongs(b, people)'
    BY <1>3, <2>1, <2>3 DEF Belongs
  <2>4. CacheMine(b)'
    <3>1. browsers[b].past = "out" => Belongs(b, {Nobody})'
      BY <1>0, <1>2, <2>3 DEF CacheMine
    <3>2. PICK user : user = sessions[browsers[b].cookie].user
      OBVIOUS
    <3>3. browsers[b].past = "in" => Belongs(b, {Nobody, user})'
      BY <1>0, <1>2, <2>3, <3>2 DEF CacheMine
    <3>4. sessions'[browsers'[b].cookie].user = user
      BY <1>1, <1>3, <2>1, <3>2
    <3> QED
      BY <1>0, <1>3, <2>1, <3>1, <3>3, <3>4 DEF CacheMine
  <2> QED
    BY <1>1, <1>3, <2>2, <2>4, OneChanges
<1>4. CASE AskSession(b)
  <2>1. /\ asked.cookie = browsers[b].cookie /\ asked.past = browsers[b].past /\ asked.req = browsers[b].req
        /\ asked.who = browsers[b].who /\ asked.data = browsers[b].data
        /\ asked.fetching = browsers[b].fetching /\ asked.asking[1] = Authenticate(b)
    BY <1>0 DEF BrowserSet
  <2>2. browsers' = [browsers EXCEPT ![b] = asked]
    BY <1>4 DEF AskSession
  <2> HIDE DEF asked
  <2> QED
    BY <1>3, <2>1, <2>2 DEF Belongs
<1>5. CASE SessionArrives(b)
  <2>1. /\ known.cookie = browsers[b].cookie /\ known.past = browsers[b].past /\ known.req = browsers[b].req
        /\ known.who = browsers[b].asking[1] /\ known.data = browsers[b].data
        /\ known.fetching = browsers[b].fetching /\ known.asking = Idle
    BY <1>0 DEF BrowserSet
  <2>2. browsers' = [browsers EXCEPT ![b] = known] /\ browsers[b].asking # Idle
    BY <1>5 DEF SessionArrives
  <2> HIDE DEF known
  <2> QED
    BY <1>3, <2>1, <2>2 DEF Belongs
<1>6. CASE Fetch(b)
  <2>1. /\ fetched.cookie = browsers[b].cookie /\ fetched.past = browsers[b].past
        /\ fetched.req = browsers[b].req /\ fetched.who = browsers[b].who /\ fetched.data = browsers[b].data
        /\ fetched.asking = browsers[b].asking /\ fetched.fetching[1] = Authenticate(b)
    BY <1>0 DEF BrowserSet
  <2>2. browsers' = [browsers EXCEPT ![b] = fetched]
    BY <1>6 DEF Fetch
  <2> HIDE DEF fetched
  <2> QED
    BY <1>3, <2>1, <2>2 DEF Belongs
<1>7. CASE DataArrives(b)
  <2> HIDE DEF d
  <2>1. /\ shown.cookie = browsers[b].cookie /\ shown.past = browsers[b].past /\ shown.req = browsers[b].req
        /\ shown.who = browsers[b].who /\ shown.data = d
        /\ shown.asking = browsers[b].asking /\ shown.fetching = Idle
    BY <1>0 DEF BrowserSet
  <2>2. browsers' = [browsers EXCEPT ![b] = shown] /\ browsers[b].fetching # Idle
    BY <1>7 DEF DataArrives, d
  <2>3. \A people : Belongs(b, people) => d \in people
    BY <2>2 DEF Belongs, d
  <2> HIDE DEF shown
  <2> QED
    BY <1>3, <2>1, <2>2, <2>3 DEF Belongs
<1> QED
  BY <1>4, <1>5, <1>6, <1>7

LEMMA PagesMine ==
  ASSUME IInv, AllMine, NEW b \in Browsers,
         LoginPage(b) \/ RegisterPage(b) \/ ResetPasswordPage(b) \/ SettingsPage(b)
  PROVE  AllMine'
<1>1. ASSUME NEW user \in Users, NEW op \in {"code", "register"}, NEW invited, RequestCode(user, op, invited)
      PROVE  AllMine'
  <2>1. UNCHANGED <<sessions, browsers>>
    BY <1>1 DEF RequestCode
  <2> QED
    BY <2>1 DEF AllMine, RequestMine, CacheMine, Belongs, Req
<1>2. ASSUME NEW op, NEW user, NEW n
      PROVE  /\ Request(op, user).stage = "sent" /\ [Request(op, user) EXCEPT !.password = n].stage = "sent"
             /\ [Request(op, user) EXCEPT !.code = n].stage = "sent"
             /\ [Request(op, user) EXCEPT !.session = n].stage = "sent"
  BY DEF Request, NoRequest
<1>3. ASSUME NEW user, HandlePasswordLogin(b, user) PROVE AllMine'
  <2>1. PICK n : Sends(b, [Request("password", user) EXCEPT !.password = n])
    BY <1>3 DEF HandlePasswordLogin
  <2> DEFINE q == [Request("password", user) EXCEPT !.password = n]
  <2>2. Sends(b, q) /\ q.stage = "sent"
    BY <1>2, <2>1
  <2> HIDE DEF q
  <2> QED
    BY <2>2, SendingMine
<1>4. ASSUME NEW user, NEW op, HandleCode(b, user, op) PROVE AllMine'
  <2>1. PICK n : Sends(b, [Request(op, user) EXCEPT !.code = n])
    BY <1>4 DEF HandleCode
  <2> DEFINE q == [Request(op, user) EXCEPT !.code = n]
  <2>2. Sends(b, q) /\ q.stage = "sent"
    BY <1>2, <2>1
  <2> HIDE DEF q
  <2> QED
    BY <2>2, SendingMine
<1>5. ASSUME NEW user, HandleChangePassword(b, user) PROVE AllMine'
  <2>1. PICK op, n : Sends(b, [Request(op, user) EXCEPT !.password = n])
    BY <1>5 DEF HandleChangePassword
  <2> DEFINE q == [Request(op, user) EXCEPT !.password = n]
  <2>2. Sends(b, q) /\ q.stage = "sent"
    BY <1>2, <2>1
  <2> HIDE DEF q
  <2> QED
    BY <2>2, SendingMine
<1>6. ASSUME NEW session, HandleRevokeSession(b, session) PROVE AllMine'
  <2> DEFINE q == [Request("revoke", browsers[b].who) EXCEPT !.session = session]
  <2>1. Sends(b, q) /\ q.stage = "sent"
    BY <1>2, <1>6 DEF HandleRevokeSession
  <2> HIDE DEF q
  <2> QED
    BY <2>1, SendingMine
<1>7. ASSUME HandleLogout(b) PROVE AllMine'
  BY <1>2, <1>7, SendingMine DEF HandleLogout
<1>8. ASSUME NEW user, HandleReset(b, user) PROVE AllMine'
  BY <1>2, <1>8, SendingMine DEF HandleReset
<1> QED
  BY <1>1, <1>3, <1>4, <1>5, <1>6, <1>7, <1>8
     DEF LoginPage, RegisterPage, ResetPasswordPage, SettingsPage, HandleSendCode

\* The administrator, mail and time end sessions and change no browser.
LEMMA AdministratorMine ==
  ASSUME IInv, AllMine, UNCHANGED browsers, SessionsEnd PROVE AllMine'
<1>1. ASSUME NEW b \in Browsers PROVE CacheStays(b) /\ Req(b)' = Req(b)
  BY DEF CacheStays, Req
<1> QED
  BY <1>1, EndingStays, CacheKept, RequestKept DEF AllMine

LEMMA StepMine == IInv /\ AllMine /\ [Next]_vars => AllMine'
<1> SUFFICES ASSUME IInv, AllMine, [Next]_vars PROVE AllMine'
  OBVIOUS
<1>1. ASSUME NEW b \in Browsers,
             \/ LoginPage(b) \/ RegisterPage(b) \/ ResetPasswordPage(b) \/ SettingsPage(b)
             \/ Served(b) \/ Answered(b) \/ AskSession(b) \/ SessionArrives(b) \/ Fetch(b) \/ DataArrives(b)
      PROVE  AllMine'
  BY <1>1, PagesMine, ServedMine, AnsweredMine, FetchesMine
<1>2. ASSUME UNCHANGED <<sessions, browsers>> PROVE AllMine'
  BY <1>2, SessionsStay, AdministratorMine
<1>3. ASSUME Administers, NEW user \in Users, HandleAction(user) PROVE AllMine'
  <2>1. UNCHANGED browsers
    BY <1>3 DEF Administers
  <2>2. UNCHANGED sessions \/ sessions' = Revoked(user, NoSession)
    BY <1>3 DEF HandleAction, SetUserStatus, RevokeUserSessions, IssueReset
  <2> QED
    BY <2>1, <2>2, SessionsStay, RevokedEnds, AdministratorMine
<1>4. InvitePage \/ AdminInvitationsPage \/ UNCHANGED vars => UNCHANGED <<sessions, browsers>>
  BY DEF InvitePage, RequestCode, AdminInvitationsPage, CreateInvitation, vars, serverVars
<1>5. ASSUME Administers,
             \/ ForgotPasswordPage \/ RevokeInvitation \/ \E m \in {"invite", "open"} : SetMode(m)
             \/ \E i \in DOMAIN codes : CodeExpires(i)
      PROVE  UNCHANGED <<sessions, browsers>>
  BY <1>5 DEF Administers, ForgotPasswordPage, IssueReset, RevokeInvitation, SetMode, CodeExpires
<1> QED
  BY <1>1, <1>2, <1>3, <1>4, <1>5 DEF Next, AdminUsersPage

\* Who signs in after a logout sees nothing of the user before, whatever was
\* being fetched when he left (useLogout, queryClient.clear).
THEOREM NobodySeesElses == Spec => []NobodyElsesData
<1>1. Init => AllMine
  BY DEF Init, AllMine, RequestMine, CacheMine, Belongs, Req, NoRequest, NoSession, SignIns
<1>2. AllMine => NobodyElsesData
  BY DEF AllMine, CacheMine, Belongs, NobodyElsesData, SignedIn
<1> QED
  BY <1>1, <1>2, InitKeeps, StepKeeps, StepMine, PTL DEF Spec
=============================================================================
