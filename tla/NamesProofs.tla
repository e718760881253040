---------------------------- MODULE NamesProofs ----------------------------
(***************************************************************************)
(* What holds of subdomains and custom domains for any labels, hosts and   *)
(* bounds: a name has one owner at most, and decisions are not taken back. *)
(*                                                                         *)
(* Applications and reviews only ever add a row that the unique indexes    *)
(* let through, set a custom domain they let through, or move a row on in  *)
(* a way that claims nothing (Revised).  That the counters fit rests on    *)
(* the calls that wait for an answer: they and what was served are no more *)
(* than what was sent.                                                     *)
(***************************************************************************)
EXTENDS Names, SequenceTheorems, FiniteSetTheorems, WellFoundedInduction, TLAPS

CallSet == [id : Nat, op : {"apply", "cancel", "cname"}, label : Labels, host : Hosts \cup {NoHost},
            answer : {"none", "ok", "failed"}, served : Nat, heard : BOOLEAN]

Counters == served \in Nat /\ sent \in 0..MaxCalls /\ others \in 0..MaxOthers /\ open \in BOOLEAN

Rows == requests \in Seq(Request) /\ Len(requests) <= served + others

\* What the tab was told, when n of its requests had been served.
Told(shown, n) ==
  /\ shown \in [served : Nat, request : Request \cup {NoRequest}]
  /\ shown.served <= n
  /\ shown.request # NoRequest => shown.request.owner = "me"

CacheOK ==
  /\ Told(domain, served)
  /\ told \in 0..served /\ failed \in BOOLEAN
  /\ asking \in {<<>>, <<"sent">>} \/ \E shown : Told(shown, served) /\ asking = <<"read", shown>>

Waiting == {n \in 1..sent : \E c \in calls : c.id = n /\ c.answer = "none"}

\* A call has an identity of its own; those that wait have not been served.
CallsOK ==
  /\ calls \subseteq CallSet
  /\ \A c \in calls : c.id \in 1..sent /\ c.served <= served
  /\ \A c, d \in calls : c.id = d.id => c = d
  /\ served + Cardinality(Waiting) <= sent

IInv == Counters /\ Rows /\ CacheOK /\ CallsOK /\ HostsHaveOneOwner

-----------------------------------------------------------------------------
(* Requests                                                                *)

LEMMA SameLength ==
  ASSUME NEW S, NEW T, NEW s \in Seq(S), NEW t \in [1..Len(s) -> T]
  PROVE  t \in Seq(T) /\ Len(t) = Len(s)
<1>1. Len(s) \in Nat
  BY LenProperties
<1>2. t \in Seq(T)
  BY <1>1, SeqDef
<1>3. DOMAIN t = 1..Len(t) /\ Len(t) \in Nat
  BY <1>2, LenProperties
<1>4. DOMAIN t = 1..Len(s)
  OBVIOUS
<1> QED
  BY <1>1, <1>2, <1>3, <1>4

LEMMA Domains ==
  ASSUME Rows
  PROVE  /\ Len(requests) \in Nat /\ DOMAIN requests = 1..Len(requests)
         /\ \A i \in 1..Len(requests) : requests[i] \in Request
BY LenProperties, ElementOfSeq DEF Rows

\* The row waits for a review or was approved: the indexes cover it.
Holds(row) == row.status = "pending" \/ row.status = "approved"

LEMMA ActiveRows ==
  ASSUME NEW i
  PROVE  i \in Active <=> i \in DOMAIN requests /\ Holds(requests[i])
BY DEF Active, With, Holds

\* The last of a user's requests exists: positions are bounded naturals.
LEMMA LatestExists ==
  ASSUME Rows, NEW user, Of(user) # {}
  PROVE  \E i \in Of(user) : \A j \in Of(user) : j <= i
<1> DEFINE R == OpToRel(<, Nat)
           N == Len(requests)
           T == {N - i : i \in Of(user)}
<1>1. N \in Nat /\ Of(user) \subseteq 1..N
  BY Domains DEF Of
<1>2. T \subseteq Nat /\ T # {}
  BY <1>1
<1>3. IsWellFoundedOn(R, Nat)
  BY NatLessThanWellFounded
<1>4. PICK x \in T : \A y \in T : ~(<<y, x>> \in R)
  <2> HIDE DEF R, T
  <2> QED
    BY <1>2, <1>3, WFMin
<1>5. ASSUME NEW y \in T PROVE x <= y
  <2>1. x \in Nat /\ y \in Nat /\ <<y, x>> \in Nat \X Nat
    BY <1>2, <1>4
  <2>2. y < x => <<y, x>> \in R
    BY <2>1 DEF OpToRel
  <2>3. ~(y < x)
    <3>1. ~(<<y, x>> \in R)
      BY <1>4
    <3> HIDE DEF R, T
    <3> QED
      BY <2>2, <3>1, Zenon
  <2> QED
    BY <2>1, <2>3
<1>6. PICK i \in Of(user) : x = N - i
  BY <1>4
<1>7. ASSUME NEW j \in Of(user) PROVE j <= i
  <2>1. N - j \in T
    OBVIOUS
  <2>2. x <= N - j
    BY <1>5, <2>1
  <2> HIDE DEF T, N
  <2> QED
    BY <1>1, <1>6, <2>2
<1> QED
  BY <1>7

\* LatestForUser answers with a request of the user.
LEMMA NowIsTold ==
  ASSUME Rows, served \in Nat PROVE Told(DomainNow, served)
<1>1. CASE Of("me") = {}
  BY <1>1 DEF DomainNow, Told
<1>2. CASE Of("me") # {}
  <2> DEFINE last == CHOOSE i \in Of("me") : \A j \in Of("me") : j <= i
  <2>1. last \in Of("me")
    BY <1>2, LatestExists
  <2>2. requests[last] \in Request /\ requests[last].owner = "me"
    BY <2>1, Domains DEF Of
  <2>3. DomainNow = [served |-> served, request |-> requests[last]]
    BY <1>2 DEF DomainNow
  <2> HIDE DEF last
  <2> QED
    BY <2>2, <2>3 DEF Told
<1> QED
  BY <1>1, <1>2

\* Rows that move on without claiming a name.
Revised ==
  /\ requests' \in Seq(Request) /\ Len(requests') = Len(requests)
  /\ \A i \in 1..Len(requests) :
       /\ requests'[i].owner = requests[i].owner /\ requests'[i].label = requests[i].label
       /\ requests'[i].host = requests[i].host
       /\ Holds(requests'[i]) => Holds(requests[i])

LEMMA RevisedKeeps ==
  ASSUME Rows, HostsHaveOneOwner, Revised PROVE HostsHaveOneOwner'
<1>1. DOMAIN requests' = 1..Len(requests)
  BY LenProperties DEF Revised
<1>2. \A i : i \in Active' => i \in Active /\ i \in 1..Len(requests)
  BY <1>1, Domains DEF Active, With, Holds, Revised
<1> QED
  BY <1>2 DEF HostsHaveOneOwner, Revised

LEMMA RequestsStay ==
  ASSUME Rows, UNCHANGED requests PROVE Revised
BY Domains DEF Rows, Revised

\* An application goes in if the indexes allow it.
LEMMA AppliedKeeps ==
  ASSUME Rows, HostsHaveOneOwner, NEW owner \in Users, NEW label \in Labels,
         Free(owner, label), Applied(owner, label)
  PROVE  /\ requests' \in Seq(Request) /\ Len(requests') = Len(requests) + 1
         /\ HostsHaveOneOwner'
         /\ \A i \in 1..Len(requests) : requests'[i] = requests[i]
<1> DEFINE new == [owner |-> owner, label |-> label, host |-> NoHost,
                   status |-> IF label \in ShortLabels THEN "pending" ELSE "approved"]
           n == Len(requests)
<1>1. new \in Request /\ requests' = Append(requests, new)
  BY DEF Request, Statuses, Applied
<1>2. new.owner = owner /\ new.label = label /\ new.host = NoHost
  OBVIOUS
<1> HIDE DEF new
<1>3. /\ requests' \in Seq(Request) /\ Len(requests') = n + 1
      /\ requests'[n + 1] = new /\ \A i \in 1..n : requests'[i] = requests[i]
  BY <1>1, Domains DEF Rows
<1>4. DOMAIN requests' = 1..(n + 1) /\ n \in Nat
  BY <1>3, LenProperties, Domains
<1>5. \A i \in Active' : i = n + 1 \/ (i \in Active /\ requests'[i] = requests[i])
  BY <1>3, <1>4, Domains DEF Active, With
<1>6. \A i \in Active : requests[i].owner # owner /\ requests[i].label # label
  BY DEF Free
<1>7. HostsHaveOneOwner'
  BY <1>2, <1>3, <1>5, <1>6 DEF HostsHaveOneOwner
<1> QED
  BY <1>3, <1>7

\* A custom domain is set if the index allows it.
LEMMA HostSetKeeps ==
  ASSUME Rows, HostsHaveOneOwner, NEW user \in Users, NEW host \in Hosts \cup {NoHost},
         ~HostTaken(user, host), HostSet(user, host)
  PROVE  /\ requests' \in Seq(Request) /\ Len(requests') = Len(requests)
         /\ HostsHaveOneOwner'
         /\ \A i \in 1..Len(requests) : requests'[i].status = requests[i].status
<1> DEFINE n == Len(requests)
<1>1. n \in Nat /\ DOMAIN requests = 1..n /\ \A i \in 1..n : requests[i] \in Request
  BY Domains
<1>2. requests' \in [1..n -> Request]
  BY <1>1 DEF HostSet, Request
<1>3. requests' \in Seq(Request) /\ Len(requests') = n
  BY <1>2, SameLength DEF Rows
<1>4. \A i \in 1..n :
        /\ requests'[i].owner = requests[i].owner /\ requests'[i].label = requests[i].label
        /\ requests'[i].status = requests[i].status
        /\ requests'[i].host = IF i \in Of(user) \cap With("approved") THEN host ELSE requests[i].host
  BY <1>1 DEF HostSet, Request
<1>5. DOMAIN requests' = 1..n
  BY <1>2
<1>6. \A i : i \in Active' <=> i \in Active
  BY <1>1, <1>4, <1>5 DEF Active, With
<1>7. \A i \in Active : i \in 1..n
  BY <1>1 DEF Active, With
<1>8. ASSUME NEW i \in Active, NEW j \in Active, i # j
      PROVE  requests'[i].host # NoHost => requests'[i].host # requests'[j].host
  <2>1. requests[i].owner # requests[j].owner
        /\ (requests[i].host # NoHost => requests[i].host # requests[j].host)
        /\ (requests[j].host # NoHost => requests[j].host # requests[i].host)
    BY <1>8 DEF HostsHaveOneOwner
  <2>2. \A k \in Active : host # NoHost /\ k \notin Of(user) => requests[k].host # host
    BY DEF HostTaken
  <2>3. ~(i \in Of(user) /\ j \in Of(user))
    BY <2>1 DEF Of
  <2> QED
    BY <1>4, <1>7, <2>1, <2>2, <2>3
<1>9. HostsHaveOneOwner'
  BY <1>4, <1>6, <1>7, <1>8 DEF HostsHaveOneOwner
<1> QED
  BY <1>3, <1>4, <1>9

-----------------------------------------------------------------------------
(* Calls and the cache                                                     *)

LEMMA WaitingIsFinite ==
  ASSUME Counters PROVE IsFiniteSet(Waiting) /\ Cardinality(Waiting) \in Nat
<1>1. IsFiniteSet(1..sent)
  BY FS_Interval DEF Counters
<1>2. Waiting \in SUBSET (1..sent)
  BY DEF Waiting
<1> QED
  BY <1>1, <1>2, FS_Subset, FS_CardinalityType

\* Calls go, or are no longer heard.
Quieter ==
  /\ \A d \in calls' : \E c \in calls : d.heard \in BOOLEAN /\ d = [c EXCEPT !.heard = d.heard]
  /\ \A d, e \in calls' : d.id = e.id => d = e

LEMMA QuieterKeeps ==
  ASSUME Counters, CallsOK, Quieter, UNCHANGED <<sent, served>> PROVE CallsOK'
<1>1. ASSUME NEW d \in calls'
      PROVE  \E c \in calls : /\ d \in CallSet /\ d.id = c.id /\ d.served = c.served
                              /\ d.answer = c.answer /\ d = [c EXCEPT !.heard = d.heard]
  BY DEF Quieter, CallsOK, CallSet
<1>3. Waiting' \in SUBSET Waiting
  BY <1>1 DEF Waiting
<1>4. Cardinality(Waiting') <= Cardinality(Waiting) /\ Cardinality(Waiting') \in Nat
  BY <1>3, WaitingIsFinite, FS_Subset, FS_CardinalityType
<1>5. served + Cardinality(Waiting') <= sent
  BY <1>4, WaitingIsFinite DEF CallsOK, Counters
<1>6. \A d, e \in calls' : d.id = e.id => d = e
  BY DEF Quieter
<1>7. calls' \subseteq CallSet /\ \A d \in calls' : d.id \in 1..sent' /\ d.served <= served'
  BY <1>1 DEF CallsOK
<1> QED
  BY <1>5, <1>6, <1>7 DEF CallsOK

\* An answer: the call no longer waits.
LEMMA AnswerKeeps ==
  ASSUME Counters, CallsOK, NEW c \in calls, c.answer = "none",
         NEW answer \in {"ok", "failed"}, NEW n \in Nat, served' \in {served, served + 1}, n <= served',
         calls' = (calls \ {c}) \cup {[c EXCEPT !.answer = answer, !.served = n]},
         UNCHANGED sent
  PROVE  CallsOK' /\ served' \in Nat
<1> DEFINE d == [c EXCEPT !.answer = answer, !.served = n]
<1>1. d \in CallSet /\ d.id = c.id /\ d.served = n /\ d.answer # "none"
  BY DEF CallsOK, CallSet
<1>2. calls' = (calls \ {c}) \cup {d}
  OBVIOUS
<1> HIDE DEF d
<1>3. \A e \in calls' : e = d \/ (e \in calls /\ e # c /\ e.id # c.id)
  BY <1>2 DEF CallsOK
<1>4. Waiting' = Waiting \ {c.id} /\ c.id \in Waiting
  BY <1>1, <1>2, <1>3 DEF Waiting, CallsOK
<1>5. Cardinality(Waiting') = Cardinality(Waiting) - 1
  BY <1>4, WaitingIsFinite, FS_RemoveElement
<1>6. calls' \subseteq CallSet /\ \A e \in calls' : e.id \in 1..sent' /\ e.served <= served'
  BY <1>1, <1>2 DEF CallsOK, Counters, CallSet
<1>7. \A e, f \in calls' : e.id = f.id => e = f
  BY <1>1, <1>3 DEF CallsOK
<1> QED
  BY <1>5, <1>6, <1>7, WaitingIsFinite DEF CallsOK, Counters

LEMMA CacheStays ==
  ASSUME Counters, CacheOK, UNCHANGED cacheVars, served' \in {served, served + 1} PROVE CacheOK'
<1>1. \A shown : Told(shown, served) => Told(shown, served')
  BY DEF Counters, Told
<1>2. \A n \in 0..served : n \in 0..served'
  BY DEF Counters
<1> QED
  BY <1>1, <1>2 DEF CacheOK, cacheVars

\* An application, a cancellation or a custom domain is asked for.
LEMMA AskKeeps ==
  ASSUME IInv, NEW op \in {"apply", "cancel", "cname"}, NEW label \in Labels,
         NEW host \in Hosts \cup {NoHost}, Ask(op, label, host)
  PROVE  IInv'
<1> DEFINE new == [id |-> sent', op |-> op, label |-> label, host |-> host,
                   answer |-> "none", served |-> 0, heard |-> TRUE]
<1>1. /\ sent < MaxCalls /\ sent' = sent + 1 /\ calls' = calls \cup {new}
      /\ UNCHANGED <<requests, served, domain, asking, failed, told, open, others>>
  BY DEF Ask, serverVars, cacheVars
<1>2. new \in CallSet /\ new.id = sent + 1 /\ new.served = 0 /\ new.answer = "none"
  BY <1>1 DEF CallSet, IInv, Counters
<1> HIDE DEF new
<1>3. Waiting' = Waiting \cup {sent + 1} /\ sent + 1 \notin Waiting
  BY <1>1, <1>2 DEF Waiting, IInv, Counters, CallsOK
<1>4. Cardinality(Waiting') = Cardinality(Waiting) + 1
  BY <1>3, WaitingIsFinite, FS_AddElement DEF IInv
<1>5. calls' \subseteq CallSet /\ \A c \in calls' : c.id \in 1..sent' /\ c.served <= served'
  BY <1>1, <1>2 DEF IInv, CallsOK, Counters
<1>6. \A c, d \in calls' : c.id = d.id => c = d
  BY <1>1, <1>2 DEF IInv, CallsOK, Counters
<1>7. CallsOK'
  BY <1>1, <1>4, <1>5, <1>6, WaitingIsFinite DEF IInv, CallsOK, Counters
<1>8. Counters' /\ Rows' /\ CacheOK'
  BY <1>1, CacheStays, NamesAssumption DEF IInv, Counters, Rows, cacheVars
<1>9. HostsHaveOneOwner'
  BY <1>1, RequestsStay, RevisedKeeps DEF IInv
<1> QED
  BY <1>7, <1>8, <1>9 DEF IInv

-----------------------------------------------------------------------------
(* Steps                                                                   *)

\* What a step may do to the decisions.
Stands ==
  \A i \in DOMAIN requests :
    LET before == requests[i].status  after == requests'[i].status IN
    /\ before \in {"rejected", "revoked"} => after = before
    /\ before = "approved" => after \in {"approved", "revoked"}
    /\ before = "approved" /\ after = "revoked" => served' = served

LEMMA StayStands ==
  ASSUME IInv, \A i \in 1..Len(requests) : requests'[i].status = requests[i].status PROVE Stands
BY Domains DEF IInv, Stands

\* The tab: what it asks for, and leaving the page.
LEMMA TabKeeps ==
  ASSUME IInv, TabSteps PROVE IInv' /\ UNCHANGED requests
<1>1. ASSUME NEW label \in Labels, ApplyDomain(label) PROVE IInv' /\ UNCHANGED requests
  <2>1. Ask("apply", label, NoHost)
    BY <1>1 DEF ApplyDomain
  <2> QED
    BY <2>1, AskKeeps DEF Ask, serverVars
<1>2. ASSUME domain.request.status \in Statuses PROVE domain.request.label \in Labels
  BY <1>2 DEF IInv, CacheOK, Told, NoRequest, Request, Statuses
<1>3. ASSUME NEW host \in Hosts \cup {NoHost}, SaveCname(host) PROVE IInv' /\ UNCHANGED requests
  <2>1. Ask("cname", domain.request.label, host) /\ domain.request.label \in Labels
    BY <1>2, <1>3 DEF SaveCname, Statuses
  <2> QED
    BY <2>1, AskKeeps DEF Ask, serverVars
<1>4. CASE CancelDomain
  <2>1. Ask("cancel", domain.request.label, NoHost) /\ domain.request.label \in Labels
    BY <1>2, <1>4 DEF CancelDomain, Statuses
  <2> QED
    BY <2>1, AskKeeps DEF Ask, serverVars
<1>5. CASE Toggle
  <2>1. /\ calls' = {[c EXCEPT !.heard = FALSE] : c \in calls}
        /\ open' = ~open /\ asking' \in {asking, <<"sent">>}
        /\ UNCHANGED <<requests, served, domain, failed, told, sent, others>>
    BY <1>5 DEF Toggle, serverVars
  <2>2. ASSUME NEW d \in calls' PROVE \E c \in calls : d = [c EXCEPT !.heard = FALSE] /\ d.id = c.id /\ d.heard = FALSE
    BY <2>1 DEF IInv, CallsOK, CallSet
  <2>3. Quieter
    <3>1. ASSUME NEW d \in calls' PROVE \E c \in calls : d.heard \in BOOLEAN /\ d = [c EXCEPT !.heard = d.heard]
      BY <2>2
    <3>2. ASSUME NEW d \in calls', NEW e \in calls', d.id = e.id PROVE d = e
      <4>1. PICK c \in calls : d = [c EXCEPT !.heard = FALSE] /\ d.id = c.id
        BY <2>2
      <4>2. PICK b \in calls : e = [b EXCEPT !.heard = FALSE] /\ e.id = b.id
        BY <2>2
      <4>3. c = b
        BY <3>2, <4>1, <4>2 DEF IInv, CallsOK
      <4> QED
        BY <4>1, <4>2, <4>3
    <3> QED
      BY <3>1, <3>2 DEF Quieter
  <2>4. CallsOK'
    BY <2>1, <2>3, QuieterKeeps DEF IInv
  <2>5. HostsHaveOneOwner'
    BY <2>1, RequestsStay, RevisedKeeps DEF IInv
  <2> QED
    BY <2>1, <2>4, <2>5 DEF IInv, Counters, Rows, CacheOK
<1>6. CASE GoHome
  <2>1. /\ open' = FALSE /\ calls' = {} /\ domain' = DomainNow /\ asking' = <<>>
        /\ failed' = FALSE /\ UNCHANGED <<requests, served, told, sent, others>>
    BY <1>6 DEF GoHome, serverVars
  <2>2. CallsOK'
    BY <2>1, QuieterKeeps DEF IInv, Quieter
  <2>3. CacheOK'
    BY <2>1, NowIsTold DEF IInv, Counters, CacheOK
  <2>4. HostsHaveOneOwner'
    BY <2>1, RequestsStay, RevisedKeeps DEF IInv
  <2> QED
    BY <2>1, <2>2, <2>3, <2>4 DEF IInv, Counters, Rows
<1> QED
  BY <1>1, <1>3, <1>4, <1>5, <1>6 DEF TabSteps

\* A request of the tab succeeds.
LEMMA SucceedKeeps ==
  ASSUME IInv, NEW c \in calls, Succeed(c)
  PROVE  /\ Counters' /\ CallsOK' /\ CacheOK'
         /\ served' = served + 1 /\ UNCHANGED others
<1>1. c.answer = "none" /\ served' = served + 1 /\ UNCHANGED <<cacheVars, open, sent, others>>
  BY DEF Succeed
<1>2. PICK answer \in {"ok", "failed"} :
        calls' = (calls \ {c}) \cup {[c EXCEPT !.answer = answer, !.served = served']}
  BY DEF Succeed
<1>3. CallsOK' /\ served' \in Nat
  <2>1. served' \in Nat /\ served' <= served'
    BY <1>1 DEF IInv, Counters
  <2> QED
    BY <1>1, <1>2, <2>1, AnswerKeeps DEF IInv
<1>4. CacheOK'
  BY <1>1, CacheStays DEF IInv
<1> QED
  BY <1>1, <1>3, <1>4 DEF IInv, Counters

LEMMA FailKeeps ==
  ASSUME IInv, NEW c \in calls, Fail(c) PROVE IInv' /\ UNCHANGED requests
<1>1. /\ c.answer = "none" /\ calls' = (calls \ {c}) \cup {[c EXCEPT !.answer = "failed"]}
      /\ UNCHANGED <<requests, served, domain, asking, failed, told, open, sent, others>>
  BY DEF Fail, serverVars, cacheVars
<1>2. [c EXCEPT !.answer = "failed"] = [c EXCEPT !.answer = "failed", !.served = c.served]
  BY DEF IInv, CallsOK, CallSet
<1>3. CallsOK'
  <2>1. c.served \in Nat /\ c.served <= served'
    BY <1>1 DEF IInv, CallsOK, CallSet
  <2> QED
    BY <1>1, <1>2, <2>1, AnswerKeeps DEF IInv
<1>4. HostsHaveOneOwner' /\ CacheOK'
  BY <1>1, RequestsStay, RevisedKeeps, CacheStays DEF IInv, cacheVars
<1> QED
  BY <1>1, <1>3, <1>4 DEF IInv, Counters, Rows

\* The server executes a request of the tab.
LEMMA ExecutedKeeps ==
  ASSUME IInv, NEW c \in calls, Executed(c) PROVE IInv' /\ Stands
<1>0. c \in CallSet
  BY DEF IInv, CallsOK
<1>1. CASE ServeApply(c)
  <2>1. Free("me", c.label) /\ Succeed(c) /\ Applied("me", c.label)
    BY <1>1 DEF ServeApply
  <2>2. /\ requests' \in Seq(Request) /\ Len(requests') = Len(requests) + 1
        /\ HostsHaveOneOwner' /\ \A i \in 1..Len(requests) : requests'[i] = requests[i]
    BY <1>0, <2>1, AppliedKeeps DEF IInv, CallSet, Users
  <2>3. Counters' /\ CallsOK' /\ CacheOK' /\ served' = served + 1 /\ UNCHANGED others
    BY <2>1, SucceedKeeps
  <2>4. Rows'
    BY <2>2, <2>3, Domains DEF IInv, Rows, Counters
  <2> QED
    BY <2>2, <2>3, <2>4, StayStands DEF IInv
<1>2. CASE ServeCancel(c)
  <2>1. Succeed(c)
    BY <1>2 DEF ServeCancel
  <2>2. requests' = [i \in DOMAIN requests |->
          IF i \in Of("me") /\ Cancellable(i) THEN [requests[i] EXCEPT !.status = "revoked"] ELSE requests[i]]
    BY <1>2 DEF ServeCancel
  <2>3. requests' \in [1..Len(requests) -> Request]
    BY <2>2, Domains DEF IInv, Request, Statuses
  <2>4. requests' \in Seq(Request) /\ Len(requests') = Len(requests)
    BY <2>3, SameLength DEF IInv, Rows
  <2>5. \A i \in 1..Len(requests) :
          \/ requests'[i] = requests[i]
          \/ /\ requests[i].status = "pending"
             /\ requests'[i] = [requests[i] EXCEPT !.status = "revoked"]
    BY <2>2, Domains DEF IInv, Cancellable
  <2>6. Revised
    BY <2>4, <2>5, Domains DEF Revised, IInv, Request, Holds
  <2>7. Counters' /\ CallsOK' /\ CacheOK' /\ served' = served + 1 /\ UNCHANGED others
    BY <2>1, SucceedKeeps
  <2>8. Rows' /\ HostsHaveOneOwner'
    BY <2>4, <2>6, <2>7, RevisedKeeps, Domains DEF IInv, Rows, Counters
  <2>9. Stands
    BY <2>5, Domains DEF IInv, Stands, Request
  <2> QED
    BY <2>7, <2>8, <2>9 DEF IInv
<1>3. CASE ServeCname(c)
  <2>1. Succeed(c) /\ ~HostTaken("me", c.host) /\ HostSet("me", c.host)
    BY <1>3 DEF ServeCname
  <2>2. /\ requests' \in Seq(Request) /\ Len(requests') = Len(requests)
        /\ HostsHaveOneOwner' /\ \A i \in 1..Len(requests) : requests'[i].status = requests[i].status
    BY <1>0, <2>1, HostSetKeeps DEF IInv, CallSet, Users
  <2>3. Counters' /\ CallsOK' /\ CacheOK' /\ served' = served + 1 /\ UNCHANGED others
    BY <2>1, SucceedKeeps
  <2>4. Rows'
    BY <2>2, <2>3, Domains DEF IInv, Rows, Counters
  <2> QED
    BY <2>2, <2>3, <2>4, StayStands DEF IInv
<1> QED
  BY <1>1, <1>2, <1>3 DEF Executed

\* Reviews, and another user.
LEMMA OthersKeep ==
  ASSUME IInv, OtherSteps PROVE IInv' /\ Stands
<1>1. /\ others < MaxOthers /\ others' = others + 1
      /\ UNCHANGED <<served, cacheVars, open, calls, sent>>
  BY DEF OtherSteps, Review, OtherApplies, OtherSetsHost, Other
<1>2. Counters' /\ CacheOK'
  BY <1>1, CacheStays, NamesAssumption DEF IInv, Counters
<1>3. CallsOK'
  BY <1>1 DEF IInv, CallsOK, Waiting
<1>4. ASSUME requests' \in Seq(Request), Len(requests') <= Len(requests) + 1 PROVE Rows'
  <2>1. Len(requests') \in Nat
    BY <1>4, LenProperties
  <2> QED
    BY <1>1, <1>4, <2>1, Domains DEF IInv, Rows, Counters
<1>5. ASSUME NEW i \in DOMAIN requests, NEW decision \in {"approved", "rejected", "revoked"}, Review(i, decision)
      PROVE  Rows' /\ HostsHaveOneOwner' /\ Stands
  <2> DEFINE new == [requests[i] EXCEPT !.status = decision]
  <2>1. i \in 1..Len(requests) /\ requests[i] \in Request /\ Reviewable(i, decision)
    BY <1>5, Domains DEF IInv, Review
  <2>2. new \in Request /\ requests' = [requests EXCEPT ![i] = new]
    BY <1>5, <2>1 DEF Review, Request, Statuses
  <2>3. /\ new.status = decision /\ new.owner = requests[i].owner
        /\ new.label = requests[i].label /\ new.host = requests[i].host
    BY <2>1 DEF Request
  <2> HIDE DEF new
  <2>4. /\ requests' \in Seq(Request) /\ Len(requests') = Len(requests)
        /\ \A j \in 1..Len(requests) : requests'[j] = IF j = i THEN new ELSE requests[j]
    BY <2>1, <2>2, ExceptSeq DEF IInv, Rows
  <2>5. Revised
    BY <2>1, <2>3, <2>4 DEF Revised, Holds, Reviewable
  <2>6. Stands
    BY <1>1, <2>1, <2>3, <2>4, Domains DEF IInv, Stands, Reviewable
  <2>7. Len(requests') <= Len(requests) + 1
    BY <2>4, Domains DEF IInv
  <2> QED
    BY <1>4, <2>4, <2>5, <2>6, <2>7, RevisedKeeps DEF IInv
<1>6. ASSUME NEW label \in Labels, OtherApplies(label) PROVE Rows' /\ HostsHaveOneOwner' /\ Stands
  <2>1. /\ requests' \in Seq(Request) /\ Len(requests') = Len(requests) + 1
        /\ HostsHaveOneOwner' /\ \A i \in 1..Len(requests) : requests'[i] = requests[i]
    BY <1>6, AppliedKeeps DEF IInv, OtherApplies, Users
  <2>2. Len(requests') <= Len(requests) + 1
    BY <2>1, Domains DEF IInv
  <2> QED
    BY <1>4, <2>1, <2>2, StayStands
<1>7. ASSUME NEW host \in Hosts, OtherSetsHost(host) PROVE Rows' /\ HostsHaveOneOwner' /\ Stands
  <2>1. /\ requests' \in Seq(Request) /\ Len(requests') = Len(requests)
        /\ HostsHaveOneOwner' /\ \A i \in 1..Len(requests) : requests'[i].status = requests[i].status
    BY <1>7, HostSetKeeps DEF IInv, OtherSetsHost, Users
  <2>2. Len(requests') <= Len(requests) + 1
    BY <2>1, Domains DEF IInv
  <2> QED
    BY <1>4, <2>1, <2>2, StayStands
<1>8. Rows' /\ HostsHaveOneOwner' /\ Stands
  BY <1>5, <1>6, <1>7 DEF OtherSteps
<1> QED
  BY <1>2, <1>3, <1>8 DEF IInv

\* An answer reaches the tab.
LEMMA EndedKeeps ==
  ASSUME IInv, NEW c \in calls, Ended(c) PROVE IInv' /\ UNCHANGED requests
<1>1. /\ calls' = calls \ {c} /\ asking' \in {asking, <<"sent">>}
      /\ told' \in {told, c.served} /\ UNCHANGED <<requests, served, domain, failed, open, sent, others>>
  BY DEF Ended, Refetched, serverVars
<1>6. c.served \in 0..served
  BY DEF IInv, CallsOK, CallSet, Counters
<1>2. \A d \in calls : d = [d EXCEPT !.heard = d.heard] /\ d.heard \in BOOLEAN
  BY DEF IInv, CallsOK, CallSet
<1>3. Quieter
  BY <1>1, <1>2 DEF Quieter, IInv, CallsOK
<1>4. CallsOK'
  BY <1>1, <1>3, QuieterKeeps DEF IInv
<1>5. HostsHaveOneOwner'
  BY <1>1, RequestsStay, RevisedKeeps DEF IInv
<1> QED
  BY <1>1, <1>4, <1>5, <1>6 DEF IInv, Counters, Rows, CacheOK

LEMMA DomainFailsKeeps ==
  ASSUME IInv, DomainFails PROVE IInv' /\ UNCHANGED requests
<1>1. /\ asking' = <<>> /\ failed' = TRUE
      /\ UNCHANGED <<requests, served, domain, told, open, calls, sent, others>>
  BY DEF DomainFails, serverVars
<1>2. HostsHaveOneOwner'
  BY <1>1, RequestsStay, RevisedKeeps DEF IInv
<1> QED
  BY <1>1, <1>2 DEF IInv, Counters, Rows, CacheOK, CallsOK, Waiting

LEMMA ReadKeeps ==
  ASSUME IInv, DomainRead PROVE IInv' /\ UNCHANGED requests
<1>1. asking' = <<"read", DomainNow>> /\ UNCHANGED <<requests, served, domain, failed, told, open, calls, sent, others>>
  BY DEF DomainRead, serverVars
<1>2. Told(DomainNow, served)
  BY NowIsTold DEF IInv, Counters
<1>3. CacheOK'
  <2> HIDE DEF DomainNow
  <2> QED
    BY <1>1, <1>2 DEF IInv, CacheOK
<1>4. HostsHaveOneOwner'
  BY <1>1, RequestsStay, RevisedKeeps DEF IInv
<1>5. CallsOK'
  BY <1>1 DEF IInv, CallsOK, Waiting
<1> QED
  BY <1>1, <1>3, <1>4, <1>5 DEF IInv, Counters, Rows

LEMMA ArrivesKeeps ==
  ASSUME IInv, DomainArrives PROVE IInv' /\ UNCHANGED requests
<1>1. /\ Len(asking) = 2 /\ domain' = asking[2] /\ asking' = <<>> /\ failed' = FALSE
      /\ UNCHANGED <<requests, served, told, open, sent, others>>
      /\ calls' = {[c EXCEPT !.heard = @ /\ ~Broken'] : c \in calls}
  BY DEF DomainArrives, serverVars
<1>2. PICK shown : Told(shown, served) /\ asking = <<"read", shown>>
  <2>1. asking # <<>> /\ asking # <<"sent">>
    BY <1>1
  <2> QED
    BY <2>1 DEF IInv, CacheOK
<1>3. CacheOK'
  BY <1>1, <1>2 DEF IInv, CacheOK
<1>4. ASSUME NEW d \in calls'
      PROVE  \E c \in calls : d = [c EXCEPT !.heard = c.heard /\ ~Broken'] /\ d.id = c.id
                              /\ d.heard = (c.heard /\ ~Broken')
  BY <1>1 DEF IInv, CallsOK, CallSet
<1>5. \A c \in calls : (c.heard /\ ~Broken') \in BOOLEAN
  OBVIOUS
<1>6. Quieter
  <2> DEFINE e(c) == c.heard /\ ~Broken'
  <2>1. ASSUME NEW d \in calls' PROVE \E c \in calls : d.heard \in BOOLEAN /\ d = [c EXCEPT !.heard = d.heard]
    BY <1>4, <1>5
  <2>2. ASSUME NEW d \in calls', NEW f \in calls', d.id = f.id PROVE d = f
    <3>1. PICK c \in calls : d = [c EXCEPT !.heard = e(c)] /\ d.id = c.id
      BY <1>4
    <3>2. PICK b \in calls : f = [b EXCEPT !.heard = e(b)] /\ f.id = b.id
      BY <1>4
    <3>3. c = b
      BY <2>2, <3>1, <3>2 DEF IInv, CallsOK
    <3> HIDE DEF e
    <3> QED
      BY <3>1, <3>2, <3>3
  <2> QED
    BY <2>1, <2>2 DEF Quieter
<1>7. CallsOK'
  BY <1>1, <1>6, QuieterKeeps DEF IInv
<1>8. HostsHaveOneOwner'
  BY <1>1, RequestsStay, RevisedKeeps DEF IInv
<1> QED
  BY <1>1, <1>3, <1>7, <1>8 DEF IInv, Counters, Rows

-----------------------------------------------------------------------------
(* Theorems                                                                *)

LEMMA InitKeeps ==
  ASSUME Init PROVE IInv
<1>1. Counters
  <2>1. served = 0 /\ sent = 0 /\ others = 0
    BY DEF Init
  <2>2. open \in BOOLEAN
    BY Zenon DEF Init
  <2>3. MaxCalls \in Nat /\ MaxOthers \in Nat
    BY NamesAssumption
  <2> QED
    BY <2>1, <2>2, <2>3 DEF Counters
<1>2. Rows
  <2>1. requests = <<>> /\ served = 0 /\ others = 0
    BY DEF Init
  <2>2. <<>> \in Seq(Request) /\ Len(<<>>) = 0
    BY EmptySeq
  <2> QED
    BY <2>1, <2>2 DEF Rows
<1>3. CacheOK
  <2>1. domain = DomainNow /\ asking = <<>> /\ failed = FALSE /\ told = 0
    BY DEF Init
  <2>2. Told(DomainNow, served) /\ 0 \in 0..served
    BY <1>1, <1>2, NowIsTold DEF Counters
  <2> QED
    BY <2>1, <2>2 DEF CacheOK
<1>4. CallsOK
  <2>1. Waiting = {}
    BY DEF Init, Waiting
  <2>2. Cardinality(Waiting) = 0
    BY <2>1, FS_EmptySet
  <2> QED
    BY <2>2 DEF Init, CallsOK
<1>5. HostsHaveOneOwner
  BY DEF Init, HostsHaveOneOwner, Active, With
<1> QED
  BY <1>1, <1>2, <1>3, <1>4, <1>5 DEF IInv

LEMMA StepKeeps ==
  ASSUME IInv, Next PROVE IInv' /\ Stands
<1>1. ASSUME UNCHANGED requests PROVE Stands
  BY <1>1, StayStands
<1>2. CASE TabSteps
  BY <1>1, <1>2, TabKeeps
<1>3. CASE OtherSteps
  BY <1>3, OthersKeep
<1>4. ASSUME NEW c \in calls, Executed(c) PROVE IInv' /\ Stands
  BY <1>4, ExecutedKeeps
<1>5. ASSUME NEW c \in calls, Fail(c) \/ Ended(c) PROVE IInv' /\ Stands
  BY <1>1, <1>5, FailKeeps, EndedKeeps
<1>6. CASE Fetching
  BY <1>1, <1>6, ReadKeeps, DomainFailsKeeps, ArrivesKeeps DEF Fetching
<1> QED
  BY <1>2, <1>3, <1>4, <1>5, <1>6 DEF Next

LEMMA StutterKeeps ==
  ASSUME IInv, UNCHANGED vars PROVE IInv'
<1>1. UNCHANGED <<requests, served, domain, asking, failed, told, open, calls, sent, others>>
  BY DEF vars, serverVars, cacheVars
<1>2. HostsHaveOneOwner'
  BY <1>1, RequestsStay, RevisedKeeps DEF IInv
<1> QED
  BY <1>1, <1>2 DEF IInv, Counters, Rows, CacheOK, CallsOK, Waiting

LEMMA Inductive == Spec => []IInv
<1>1. Init => IInv
  BY InitKeeps
<1>2. IInv /\ [Next]_vars => IInv'
  BY StepKeeps, StutterKeeps
<1> QED
  BY <1>1, <1>2, PTL DEF Spec

\* No two users hold a label or a custom domain, and a user holds one request
\* at most, however applications, cancellations and reviews race
\* (subdomains/sqlstore.go and its unique indexes).
THEOREM NamesHold == Spec => []NamesAreSound
<1>1. IInv => NamesAreSound
  <2> SUFFICES ASSUME IInv PROVE NamesAreSound
    OBVIOUS
  <2>1. served \in 0..sent
    BY WaitingIsFinite DEF IInv, Counters, CallsOK
  <2>2. requests \in Seq(Request) /\ Len(requests) <= sent + others
    BY <2>1, Domains DEF IInv, Rows, Counters
  <2>3. /\ domain \in [served : 0..served, request : Request \cup {NoRequest}]
        /\ (domain.request # NoRequest => domain.request.owner = "me")
        /\ told \in 0..served /\ failed \in BOOLEAN
    BY DEF IInv, Counters, CacheOK, Told
  <2>4. \A c \in calls :
          /\ c.id \in 1..sent /\ c.served \in 0..served /\ c.heard \in BOOLEAN
          /\ c.op \in {"apply", "cancel", "cname"} /\ c.label \in Labels /\ c.host \in Hosts \cup {NoHost}
          /\ c.answer \in {"none", "ok", "failed"}
    BY DEF IInv, Counters, CallsOK, CallSet
  <2>5. TypeOK
    BY <2>1, <2>2, <2>3, <2>4 DEF IInv, Counters, TypeOK
  <2> QED
    BY <2>5 DEF IInv, NamesAreSound
<1> QED
  BY <1>1, Inductive, PTL

\* A refused or revoked request stays so; an approved one is only ever revoked,
\* and not by its owner (subdomains/sqlstore.go, Review and CancelPending).
THEOREM DecisionsHold == Spec => DecisionsStand
<1>1. IInv /\ [Next]_vars => [Stands]_vars
  BY StepKeeps
<1>2. DecisionsStand <=> [][Stands]_vars
  BY DEF DecisionsStand, Stands
<1> QED
  BY <1>1, <1>2, Inductive, PTL DEF Spec
=============================================================================
