--------------------------- MODULE PublishRequest ---------------------------
(***************************************************************************)
(* The publish handler (internal/httpapi/navigation.go) around the publish *)
(* transaction of one page: reservation of the idempotency key, the        *)
(* transaction, the read of the result, the stored answer or the deferred  *)
(* abort.  Clients repeat requests, disconnect, and the process dies.      *)
(***************************************************************************)
EXTENDS Idempotency

CONSTANTS
  Handlers,      \* requests the server receives
  MaxRevision,   \* bound: draft edits the model explores
  MaxExpiries    \* bound: expiries of each key the model explores

ASSUME BoundAssumption ==
  MaxRevision \in Nat /\ MaxExpiries \in Nat /\ Bodies \subseteq Nat /\ Answers = Bodies

VARIABLES
  draftRevision, \* the revision the page's draft is at
  snapshots,     \* snapshots[h]: revision handler h published, or NotPublished
  handler,       \* handler[h]: where h is and which request it serves
  expiries       \* expiries[k]: how often the row of k was forgotten

vars == <<records, draftRevision, snapshots, handler, expiries>>

NotPublished == -1

Stages == {"unsent", "reserved", "committed", "loaded", "failed",
           "answered", "unstored", "refused", "replayed", "error", "unaborted", "dead"}

Calls == [stage : Stages, key : Keys, body : Bodies, present : BOOLEAN,
          answer : Bodies \cup {NotPublished}]

Init ==
  /\ records = [k \in Keys |-> Free]
  /\ draftRevision = 0
  /\ snapshots = [h \in Handlers |-> NotPublished]
  /\ handler \in [Handlers -> [stage : {"unsent"}, key : Keys, body : Bodies,
                               present : {TRUE}, answer : {NotPublished}]]
  /\ expiries = [k \in Keys |-> 0]

Goto(h, stage) == handler' = [handler EXCEPT ![h].stage = stage]

-----------------------------------------------------------------------------
(* The handler *)

\* Begin reserves the key, replays a stored answer, or refuses.
Begin(h) ==
  LET k == handler[h].key
      b == handler[h].body IN
  /\ handler[h].stage = "unsent"
  /\ \/ Reserve(k, b) /\ Goto(h, "reserved")
     \/ /\ Replayable(k, b)
        /\ handler' = [handler EXCEPT ![h].stage = "replayed",
                                      ![h].answer = records[k].answer]
        /\ UNCHANGED records
     \/ Rejected(k, b) /\ Goto(h, "refused") /\ UNCHANGED records
  /\ UNCHANGED <<draftRevision, snapshots, expiries>>

\* The transaction of Publish inserts a snapshot of the expected revision.
CommitPublish(h) ==
  /\ handler[h].stage = "reserved"
  /\ handler[h].present
  /\ handler[h].body = draftRevision
  /\ snapshots' = [snapshots EXCEPT ![h] = draftRevision]
  /\ Goto(h, "committed")
  /\ UNCHANGED <<records, draftRevision, expiries>>

\* A stale revision, a conflict, a busy database or a context that is
\* cancelled: nothing is committed.
RejectPublish(h) ==
  /\ handler[h].stage = "reserved"
  /\ Goto(h, "failed")
  /\ UNCHANGED <<records, draftRevision, snapshots, expiries>>

\* After the commit Publish reads the publication back, in the same context;
\* if that read fails, as it does for a client that is gone, Publish fails.
LoadResult(h) ==
  /\ handler[h].stage = "committed"
  /\ \/ handler[h].present /\ Goto(h, "loaded")
     \/ Goto(h, "failed")
  /\ UNCHANGED <<records, draftRevision, snapshots, expiries>>

Answered(h, stage) ==
  handler' = [handler EXCEPT ![h].stage = stage, ![h].answer = snapshots[h]]

\* Complete fails for a cancelled context, and may fail for a busy database;
\* the answer is sent regardless.
Complete(h) ==
  /\ handler[h].stage = "loaded"
  /\ \/ /\ handler[h].present
        /\ StoreAnswer(handler[h].key, handler[h].body, snapshots[h])
        /\ Answered(h, "answered")
     \/ UNCHANGED records /\ Answered(h, "unstored")
  /\ UNCHANGED <<draftRevision, snapshots, expiries>>

\* Mutant: the abort runs in the context of the request.
AbortInRequestContext(h) ==
  /\ handler[h].stage = "failed"
  /\ IF handler[h].present THEN GiveBack(handler[h].key, handler[h].body)
                           ELSE UNCHANGED records
  /\ Goto(h, "error")
  /\ UNCHANGED <<draftRevision, snapshots, expiries>>

\* The deferred abort runs in a context that cannot be cancelled.  If the
\* database refuses its DELETE, that is logged and the row stays.
Abort(h) ==
  /\ handler[h].stage = "failed"
  /\ \/ GiveBack(handler[h].key, handler[h].body) /\ Goto(h, "error")
     \/ UNCHANGED records /\ Goto(h, "unaborted")
  /\ UNCHANGED <<draftRevision, snapshots, expiries>>

-----------------------------------------------------------------------------
(* The environment *)

InFlight(h) == handler[h].stage \in {"reserved", "committed", "loaded", "failed"}

Disconnect(h) ==
  /\ InFlight(h) /\ handler[h].present
  /\ handler' = [handler EXCEPT ![h].present = FALSE]
  /\ UNCHANGED <<records, draftRevision, snapshots, expiries>>

Edit ==
  /\ draftRevision < MaxRevision
  /\ draftRevision' = draftRevision + 1
  /\ UNCHANGED <<records, snapshots, handler, expiries>>

\* Mutant: starting up drops the rows that are still open.
CrashDroppingOpen ==
  /\ \E h \in Handlers : InFlight(h)
  /\ handler' = [h \in Handlers |->
                   IF InFlight(h) THEN [handler[h] EXCEPT !.stage = "dead"] ELSE handler[h]]
  /\ records' = [k \in Keys |-> IF records[k].state = "open" THEN Free ELSE records[k]]
  /\ UNCHANGED <<draftRevision, snapshots, expiries>>

\* The process dies and starts again: handlers are gone, the database is not.
Crash ==
  /\ \E h \in Handlers : InFlight(h)
  /\ handler' = [h \in Handlers |->
                   IF InFlight(h) THEN [handler[h] EXCEPT !.stage = "dead"] ELSE handler[h]]
  /\ UNCHANGED <<records, draftRevision, snapshots, expiries>>

\* No handler runs for 24 hours, so a key expires when nobody holds it.
Expire(k) ==
  /\ expiries[k] < MaxExpiries
  /\ \A h \in Handlers : handler[h].key = k => ~InFlight(h)
  /\ Forget(k)
  /\ expiries' = [expiries EXCEPT ![k] = @ + 1]
  /\ UNCHANGED <<draftRevision, snapshots, handler>>

-----------------------------------------------------------------------------

Step(h) ==
  Begin(h) \/ CommitPublish(h) \/ RejectPublish(h) \/ LoadResult(h) \/ Complete(h) \/ Abort(h)

Next ==
  \/ \E h \in Handlers : Step(h) \/ Disconnect(h)
  \/ \E k \in Keys : Expire(k)
  \/ Edit
  \/ Crash

Spec == Init /\ [][Next]_vars

-----------------------------------------------------------------------------
(* Properties *)

Published(k) == {h \in Handlers : handler[h].key = k /\ snapshots[h] # NotPublished}

\* Rows hold requests and the answers worth replaying, never an error.
TypeOK ==
  /\ records \in [Keys -> Rows]
  /\ draftRevision \in 0 .. MaxRevision
  /\ snapshots \in [Handlers -> Bodies \cup {NotPublished}]
  /\ handler \in [Handlers -> Calls]
  /\ expiries \in [Keys -> 0 .. MaxExpiries]

\* A key is in the hands of one handler at a time, through aborts, crashes
\* and expiry: its body is the one the row was reserved for.
OneHolder ==
  \A g, h \in Handlers :
    InFlight(g) /\ InFlight(h) /\ handler[g].key = handler[h].key => g = h

\* Every answer, fresh or replayed, is the snapshot of an earlier or the same
\* request under that key and with that body.
AnswersAreTrue ==
  \A h \in Handlers : handler[h].answer # NotPublished =>
    \E g \in Published(handler[h].key) :
      handler[g].body = handler[h].body /\ snapshots[g] = handler[h].answer

\* A key has one holder, and whoever gets an answer under it gets a true one.
OneTrueAnswer == OneHolder /\ AnswersAreTrue

\* A request that was reported as failed, and gave its key back, after its
\* own commit.
GaveBackCommitted(h) ==
  handler[h].stage \in {"failed", "error"} /\ snapshots[h] # NotPublished

\* A key publishes once.  Every further snapshot under it is paid for by a
\* request that gave the key back after its commit, or by an expiry: retries
\* racing each other, crashes and lost answers never add one.
OncePerReservation ==
  \A k \in Keys :
    Cardinality(Published(k)) <=
      1 + expiries[k] + Cardinality({h \in Published(k) : GaveBackCommitted(h)})

\* The database did not get, or did not take, what would have closed the row.
WriteLost(h) == handler[h].stage \in {"dead", "unstored", "unaborted"}

\* The row of k is that of h, which has not ended or could not close it.
LeavesOpen(h, k) ==
  /\ handler[h].key = k /\ handler[h].body = records[k].body
  /\ InFlight(h) \/ WriteLost(h)
  /\ handler[h].stage = "unstored" => snapshots[h] # NotPublished

\* A key nobody works on is usable again, or answers for what was published.
\* A row stays in progress only for the request that reserved it, and only if
\* the process died, the answer of a publication could not be stored, or the
\* DELETE of the abort was refused: a client that goes away during a publish
\* that fails never leaves one.
KeyIsNotStranded ==
  \A k \in Keys : records[k].state = "open" => \E h \in Handlers : LeavesOpen(h, k)
=============================================================================
