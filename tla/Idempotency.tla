---------------------------- MODULE Idempotency ----------------------------
(***************************************************************************)
(* The table of idempotency keys (internal/idempotency): a request reserves*)
(* its key, runs, and either stores its answer under the key or gives the  *)
(* key back.  Every operation is one SQLite transaction or statement.      *)
(*                                                                         *)
(* One scope and one actor: keys of other scopes or actors never meet.     *)
(***************************************************************************)
EXTENDS Integers, FiniteSets

CONSTANTS Keys,     \* values of the Idempotency-Key header
          Bodies,   \* request bodies; the table keeps their hash
          Answers   \* responses worth replaying

VARIABLE records    \* records[k]: the row of key k, or Free

\* No row, a row whose response is NULL, a row with its response.
Free == [state |-> "free"]
Open(b) == [state |-> "open", body |-> b]
Done(b, r) == [state |-> "done", body |-> b, answer |-> r]

Rows == {Free} \cup {Open(b) : b \in Bodies} \cup {Done(b, r) : b \in Bodies, r \in Answers}

\* Mutant: the hash of the request is not compared.
ReplayableAnyBody(k, b) == records[k].state = "done"

\* What Begin answers when it does not reserve the key.
Replayable(k, b) == records[k].state = "done" /\ records[k].body = b

Rejected(k, b) ==
  \/ records[k].state = "open"
  \/ records[k].state = "done" /\ records[k].body # b

Reserve(k, b) ==
  /\ records[k] = Free
  /\ records' = [records EXCEPT ![k] = Open(b)]

\* The update finds the open row of the reservation; any other row is left.
StoreAnswer(k, b, r) ==
  records' = [records EXCEPT ![k] = IF @ = Open(b) THEN Done(b, r) ELSE @]

GiveBack(k, b) ==
  records' = [records EXCEPT ![k] = IF @ = Open(b) THEN Free ELSE @]

\* A row past its 24 hours is deleted by the next Begin of its key.
Forget(k) ==
  /\ records[k] # Free
  /\ records' = [records EXCEPT ![k] = Free]
=============================================================================
