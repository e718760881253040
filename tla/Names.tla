------------------------------- MODULE Names -------------------------------
(***************************************************************************)
(* The names a user's page can be reached under besides its own address:   *)
(* the subdomain he asks for, which an administrator reviews if it is      *)
(* short, and the custom domain he adds to it.  The table of requests and  *)
(* its indexes (internal/subdomains), the settings page of one tab         *)
(* (web/src/pages/app/publish) with its cached copy of the latest request, *)
(* another user, and the administrators.                                   *)
(***************************************************************************)
EXTENDS Naturals, Sequences, FiniteSets

CONSTANTS
  Labels,        \* names of subdomains
  ShortLabels,   \* those that are reviewed
  Hosts,         \* custom domains
  NoHost,        \* no custom domain
  MaxCalls,      \* bound: requests of the tab
  MaxOthers      \* bound: reviews, and acts of the other user

ASSUME NamesAssumption ==
  /\ ShortLabels \subseteq Labels /\ NoHost \notin Hosts
  /\ MaxCalls \in Nat /\ MaxOthers \in Nat

Users == {"me", "other"}
Statuses == {"pending", "approved", "rejected", "revoked"}
NoRequest == [status |-> "none"]

VARIABLES
  requests,   \* server: subdomain_requests, in the order of application
  served,     \* requests of the tab that succeeded
  domain,     \* cache: ['navigation', 'subdomain'], and served when it was read
  asking,     \* its fetch: <<>>, <<"sent">>, or <<"read", what was read>>
  failed,     \* isError: its last fetch that ended has failed
  told,       \* history: the last success the tab was told of
  open,       \* the publish page is on the screen
  calls,      \* requests of the tab that have not ended
  sent,       \* bound: requests of the tab so far
  others      \* bound: acts of others so far

serverVars == <<requests, served>>
cacheVars == <<domain, asking, failed, told>>
vars == <<serverVars, cacheVars, open, calls, sent, others>>

Of(user) == {i \in DOMAIN requests : requests[i].owner = user}
With(status) == {i \in DOMAIN requests : requests[i].status = status}
Active == With("pending") \cup With("approved")

\* LatestForUser: null without an application.
DomainNow ==
  [served |-> served,
   request |-> IF Of("me") = {} THEN NoRequest
               ELSE requests[CHOOSE i \in Of("me") : \A j \in Of("me") : j <= i]]

\* statusMap has no entry for this status: rendering the page throws, and the
\* error boundary takes the whole application off the screen.
Broken == open /\ domain.request.status = "revoked"

-----------------------------------------------------------------------------
(* The tab                                                                 *)

Ask(op, label, host) ==
  /\ sent < MaxCalls /\ sent' = sent + 1
  /\ open /\ ~Broken /\ \A c \in calls : ~(c.op = op /\ c.heard)
  /\ calls' = calls \cup {[id |-> sent', op |-> op, label |-> label, host |-> host,
                           answer |-> "none", served |-> 0, heard |-> TRUE]}
  /\ UNCHANGED <<serverVars, cacheVars, open, others>>

\* The form is on the page without a request, and after a refusal.
ApplyDomain(label) ==
  /\ domain.request.status \in {"none", "rejected"}
  /\ Ask("apply", label, NoHost)

CancelDomain ==
  /\ domain.request.status = "pending"
  /\ Ask("cancel", domain.request.label, NoHost)

SaveCname(host) ==
  /\ domain.request.status = "approved"
  /\ Ask("cname", domain.request.label, host)

\* Opening or leaving the page; what is older than 30 seconds is fetched.
Toggle ==
  /\ ~Broken
  /\ open' = ~open
  /\ asking' \in {asking, IF asking = <<>> /\ open' THEN <<"sent">> ELSE asking}
  /\ calls' = {[c EXCEPT !.heard = FALSE] : c \in calls}
  /\ UNCHANGED <<serverVars, domain, failed, told, sent, others>>

\* handleGoHome of the error boundary loads the application anew.
GoHome ==
  /\ Broken
  /\ open' = FALSE /\ calls' = {}
  /\ domain' = DomainNow /\ asking' = <<>> /\ failed' = FALSE
  /\ UNCHANGED <<serverVars, told, sent, others>>

-----------------------------------------------------------------------------
(* The server                                                              *)

\* A request succeeds, and its answer may be lost.
Succeed(c) ==
  /\ c.answer = "none"
  /\ served' = served + 1
  /\ \E answer \in {"ok", "failed"} :
       calls' = (calls \ {c}) \cup {[c EXCEPT !.answer = answer, !.served = served']}
  /\ UNCHANGED <<cacheVars, open, sent, others>>

\* A request is refused, or never reaches the server.
Fail(c) ==
  /\ c.answer = "none"
  /\ calls' = (calls \ {c}) \cup {[c EXCEPT !.answer = "failed"]}
  /\ UNCHANGED <<serverVars, cacheVars, open, sent, others>>

\* Mutant: only approved requests are in the unique indexes.
FreeOfApproved(owner, label) ==
  \A i \in With("approved") : requests[i].owner # owner /\ requests[i].label # label

\* idx_subdomain_active_user, idx_subdomain_active_label.
Free(owner, label) == \A i \in Active : requests[i].owner # owner /\ requests[i].label # label

\* Short labels wait for a review, others are approved at once.
Applied(owner, label) ==
  requests' = Append(requests,
    [owner |-> owner, label |-> label, host |-> NoHost,
     status |-> IF label \in ShortLabels THEN "pending" ELSE "approved"])

ServeApply(c) ==
  /\ c.op = "apply" /\ Free("me", c.label)
  /\ Succeed(c)
  /\ Applied("me", c.label)

\* Mutant: the user's approved request is cancelled as well.
PendingOrApproved(i) == i \in Active

\* UPDATE ... WHERE id = ? AND status = 'pending'
Cancellable(i) == requests[i].status = "pending"

\* CancelPending
ServeCancel(c) ==
  /\ c.op = "cancel" /\ \E i \in Of("me") : Cancellable(i)
  /\ Succeed(c)
  /\ requests' = [i \in DOMAIN requests |->
       IF i \in Of("me") /\ Cancellable(i) THEN [requests[i] EXCEPT !.status = "revoked"]
       ELSE requests[i]]

\* idx_subdomain_custom_domain_active
HostTaken(user, host) == host # NoHost /\ \E i \in Active \ Of(user) : requests[i].host = host

\* SetCustomDomain: on the approved request.
HostSet(user, host) ==
  requests' = [i \in DOMAIN requests |->
    IF i \in Of(user) \cap With("approved") THEN [requests[i] EXCEPT !.host = host] ELSE requests[i]]

ServeCname(c) ==
  /\ c.op = "cname" /\ Of("me") \cap With("approved") # {} /\ ~HostTaken("me", c.host)
  /\ Succeed(c)
  /\ HostSet("me", c.host)

-----------------------------------------------------------------------------
(* Others                                                                  *)

Other ==
  /\ others < MaxOthers /\ others' = others + 1
  /\ UNCHANGED <<served, cacheVars, open, calls, sent>>

\* Approved or rejected while it waits for a review, revoked once approved.
Reviewable(i, decision) ==
  requests[i].status = IF decision = "revoked" THEN "approved" ELSE "pending"

Review(i, decision) ==
  /\ Other
  /\ Reviewable(i, decision)
  /\ requests' = [requests EXCEPT ![i].status = decision]

OtherApplies(label) ==
  /\ Other
  /\ Free("other", label)
  /\ Applied("other", label)

OtherSetsHost(host) ==
  /\ Other
  /\ Of("other") \cap With("approved") # {} /\ ~HostTaken("other", host)
  /\ HostSet("other", host)

-----------------------------------------------------------------------------
(* Answers and fetches                                                     *)

\* Mutant: a fetch under way is not started again.
RefetchedUnlessUnderWay == IF asking = <<>> THEN <<"sent">> ELSE asking

\* invalidateQueries and refetch start a fetch under way again.
Refetched == <<"sent">>

\* The hooks refetch even after the page was left; a refusal refetches nothing.
Ended(c) ==
  /\ c.answer # "none"
  /\ calls' = calls \ {c}
  /\ asking' = IF c.answer = "ok" THEN Refetched ELSE asking
  /\ told' = IF c.answer = "ok" /\ told < c.served THEN c.served ELSE told
  /\ UNCHANGED <<serverVars, domain, failed, open, sent, others>>

\* Nothing on the screen observes the query after a crash.
DomainRead ==
  /\ ~Broken /\ asking = <<"sent">>
  /\ asking' = <<"read", DomainNow>>
  /\ UNCHANGED <<serverVars, domain, failed, told, open, calls, sent, others>>

\* retry: 1, and the second attempt fails too.  The page goes on showing what
\* the cache has, and nothing asks again until a page opens or a request ends.
DomainFails ==
  /\ ~Broken /\ asking # <<>>
  /\ asking' = <<>> /\ failed' = TRUE
  /\ UNCHANGED <<serverVars, domain, told, open, calls, sent, others>>

DomainArrives ==
  /\ ~Broken /\ Len(asking) = 2
  /\ domain' = asking[2] /\ asking' = <<>> /\ failed' = FALSE
  /\ UNCHANGED <<serverVars, told, open, sent, others>>
  /\ calls' = {[c EXCEPT !.heard = @ /\ ~Broken'] : c \in calls}

-----------------------------------------------------------------------------
Init ==
  /\ requests = <<>> /\ served = 0 /\ sent = 0 /\ others = 0
  /\ domain = DomainNow /\ asking = <<>> /\ failed = FALSE /\ told = 0
  /\ open = FALSE /\ calls = {}

TabSteps ==
  \/ \E label \in Labels : ApplyDomain(label)
  \/ \E host \in Hosts \cup {NoHost} : SaveCname(host)
  \/ CancelDomain \/ Toggle \/ GoHome

OtherSteps ==
  \/ \E i \in DOMAIN requests, decision \in {"approved", "rejected", "revoked"} : Review(i, decision)
  \/ \E label \in Labels : OtherApplies(label)
  \/ \E host \in Hosts : OtherSetsHost(host)

\* What is refused is what none of these allows; the network may refuse anything.
Executed(c) == ServeApply(c) \/ ServeCancel(c) \/ ServeCname(c)

Fetching == DomainRead \/ DomainFails \/ DomainArrives

Next ==
  \/ TabSteps \/ OtherSteps
  \/ \E c \in calls : Executed(c) \/ Fail(c) \/ Ended(c)
  \/ Fetching

\* Every request and every fetch ends, well or not; users and administrators owe nothing.
Spec ==
  /\ Init /\ [][Next]_vars
  /\ \A n \in 1..MaxCalls :
       /\ WF_vars(\E c \in calls : c.id = n /\ (Executed(c) \/ Fail(c)))
       /\ WF_vars(\E c \in calls : c.id = n /\ Ended(c))
  /\ WF_vars(Fetching)

-----------------------------------------------------------------------------
(* Properties                                                              *)

Request == [owner : Users, label : Labels, host : Hosts \cup {NoHost}, status : Statuses]

\* The shape of the state; the tab never shows another user's request.
TypeOK ==
  /\ requests \in Seq(Request) /\ Len(requests) <= sent + others
  /\ served \in 0..sent /\ sent \in 0..MaxCalls /\ others \in 0..MaxOthers
  /\ told \in 0..served /\ open \in BOOLEAN /\ failed \in BOOLEAN
  /\ domain \in [served : 0..served, request : Request \cup {NoRequest}]
  /\ domain.request # NoRequest => domain.request.owner = "me"
  /\ \A c \in calls :
       /\ c.id \in 1..sent /\ c.served \in 0..served /\ c.heard \in BOOLEAN
       /\ c.op \in {"apply", "cancel", "cname"} /\ c.label \in Labels /\ c.host \in Hosts \cup {NoHost}
       /\ c.answer \in {"none", "ok", "failed"}

\* However applications, cancellations and reviews race, one user at most
\* holds a label or a custom domain, and a user holds one request at most.
HostsHaveOneOwner ==
  \A i, j \in Active : i # j =>
    /\ requests[i].owner # requests[j].owner
    /\ requests[i].label # requests[j].label
    /\ requests[i].host # NoHost => requests[i].host # requests[j].host

\* Requests and the names they hold are consistent.
NamesAreSound == TypeOK /\ HostsHaveOneOwner

\* A decision is never taken back: a refused or revoked request stays so, an
\* approved one can only be revoked, by an administrator.
DecisionsStand ==
  [][\A i \in DOMAIN requests :
       LET before == requests[i].status  after == requests'[i].status IN
       /\ before \in {"rejected", "revoked"} => after = before
       /\ before = "approved" => after \in {"approved", "revoked"}
       /\ before = "approved" /\ after = "revoked" => served' = served]_vars

\* A success the tab was told of reaches the page, or the fetch it started has
\* failed, or the application crashed: a success refetches, and restarts a
\* fetch that was sent before.
SuccessIsShown ==
  \A n \in 1..MaxCalls :
    told >= n ~> (domain.served >= n \/ (asking = <<>> /\ failed) \/ Broken)

\* The type assertion of the publish page: the status of the latest request is
\* none, pending, approved or rejected.
StatusIsKnown == ~Broken
=============================================================================
