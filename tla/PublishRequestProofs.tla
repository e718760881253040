------------------------ MODULE PublishRequestProofs ------------------------
(***************************************************************************)
(* Safety of PublishRequest for any requests, keys, edits, disconnections  *)
(* and crashes: who holds a key, what an answer says, and which keys stay  *)
(* in progress.                                                            *)
(*                                                                         *)
(* The three rest on one fact: the row of the key a handler works under is *)
(* the open row of its own reservation, until that handler closes it.      *)
(***************************************************************************)
EXTENDS PublishRequest, FiniteSetTheorems, TLAPS

HoldsItsRow ==
  \A h \in Handlers : InFlight(h) => records[handler[h].key] = Open(handler[h].body)

\* What is published is the revision the request asked for.
PublishesItsBody ==
  \A h \in Handlers :
    /\ snapshots[h] \in {NotPublished, handler[h].body}
    /\ handler[h].stage \in {"committed", "loaded"} => snapshots[h] = handler[h].body

\* A stored answer is a snapshot of a request under its key, with its body.
PublishedAs(k, b, r) ==
  \E g \in Handlers : handler[g].key = k /\ handler[g].body = b /\ snapshots[g] = r /\ r = b

StoredAnswersAreTrue ==
  \A k \in Keys : records[k].state = "done" => PublishedAs(k, records[k].body, records[k].answer)

GivenAnswersAreTrue ==
  \A h \in Handlers :
    handler[h].answer # NotPublished => PublishedAs(handler[h].key, handler[h].body, handler[h].answer)

IInv ==
  /\ TypeOK
  /\ HoldsItsRow
  /\ OneHolder
  /\ PublishesItsBody
  /\ StoredAnswersAreTrue
  /\ GivenAnswersAreTrue
  /\ KeyIsNotStranded

-----------------------------------------------------------------------------
(* Rows *)

LEMMA RowFacts ==
  ASSUME NEW b \in Bodies, NEW r \in Answers
  PROVE  /\ Free \in Rows /\ Open(b) \in Rows /\ Done(b, r) \in Rows
         /\ Free.state = "free"
         /\ Open(b).state = "open" /\ Open(b).body = b
         /\ Done(b, r).state = "done" /\ Done(b, r).body = b /\ Done(b, r).answer = r
  BY DEF Rows, Free, Open, Done

LEMMA FreeRow == Free \in Rows /\ Free.state = "free"
  BY DEF Rows, Free

LEMMA OpenRow ==
  ASSUME NEW row \in Rows, row.state = "open"
  PROVE  \E b \in Bodies : row = Open(b)
  BY DEF Rows, Free, Open, Done

LEMMA OpenState == ASSUME NEW b PROVE Open(b).state = "open" /\ Open(b).body = b
  BY DEF Open

LEMMA OpenType == ASSUME NEW b \in Bodies PROVE Open(b) \in Rows /\ Open(b).state = "open"
  BY DEF Rows, Open

LEMMA DoneRow ==
  ASSUME NEW row \in Rows, row.state = "done"
  PROVE  row.body \in Bodies /\ row.answer \in Answers
  BY DEF Rows, Free, Open, Done

LEMMA SameOpenRow ==
  ASSUME NEW b, NEW c, Open(b) = Open(c)
  PROVE  b = c
  <1>1. Open(b).body = b /\ Open(c).body = c
    BY DEF Open
  <1> QED BY <1>1

\* What a handler's move leaves of the records of all handlers.
LEMMA Moved ==
  ASSUME TypeOK, NEW h \in Handlers, NEW stage \in Stages, Goto(h, stage)
  PROVE  /\ handler' \in [Handlers -> Calls]
         /\ handler'[h].stage = stage
         /\ \A g \in Handlers : /\ handler'[g].key = handler[g].key
                                /\ handler'[g].body = handler[g].body
                                /\ handler'[g].present = handler[g].present
                                /\ handler'[g].answer = handler[g].answer
                                /\ g # h => handler'[g] = handler[g]
  <1>1. handler \in [Handlers -> Calls]
    BY DEF TypeOK
  <1>2. handler' = [handler EXCEPT ![h] = [@ EXCEPT !.stage = stage]]
    BY DEF Goto
  <1>3. [handler[h] EXCEPT !.stage = stage] \in Calls
    BY <1>1 DEF Calls
  <1> QED BY <1>1, <1>2, <1>3 DEF Calls

-----------------------------------------------------------------------------
(* Initially *)

LEMMA InitHolds == Init => IInv
  <1> SUFFICES ASSUME Init PROVE IInv
    OBVIOUS
  <1> USE BoundAssumption
  <1>1. \A k \in Keys : records[k] = Free
    BY DEF Init
  <1>2. /\ handler \in [Handlers -> Calls]
        /\ \A h \in Handlers : handler[h].stage = "unsent" /\ handler[h].answer = NotPublished
    BY DEF Init, Calls, Stages
  <1>3. \A h \in Handlers : ~InFlight(h)
    BY <1>2 DEF InFlight
  <1>4. TypeOK
    <2>1. records \in [Keys -> Rows]
      BY FreeRow DEF Init
    <2>2. draftRevision \in 0 .. MaxRevision /\ expiries \in [Keys -> 0 .. MaxExpiries]
      BY DEF Init
    <2> QED BY <1>2, <2>1, <2>2 DEF Init, TypeOK
  <1>5. PublishesItsBody
    BY <1>2 DEF Init, PublishesItsBody
  <1>6. StoredAnswersAreTrue /\ KeyIsNotStranded
    BY <1>1, FreeRow DEF StoredAnswersAreTrue, KeyIsNotStranded
  <1> QED BY <1>2, <1>3, <1>4, <1>5, <1>6 DEF IInv, HoldsItsRow, OneHolder, GivenAnswersAreTrue

-----------------------------------------------------------------------------
(* Steps *)

\* The stages of InFlight.
Working == {"reserved", "committed", "loaded", "failed"}

\* A handler that only walks on, staying in flight if it is, keeps everything.
LEMMA Walks ==
  ASSUME IInv, NEW h \in Handlers, NEW stage \in Stages, Goto(h, stage),
         handler[h].stage \in Working \cup {"unsent"},
         stage \in Working <=> InFlight(h),
         stage \in {"committed", "loaded"} => snapshots[h] = handler[h].body,
         UNCHANGED <<records, draftRevision, snapshots, expiries>>
  PROVE  IInv'
  <1> USE DEF IInv
  <1>1. /\ handler' \in [Handlers -> Calls]
        /\ handler'[h].stage = stage
        /\ \A g \in Handlers : /\ handler'[g].key = handler[g].key
                               /\ handler'[g].body = handler[g].body
                               /\ handler'[g].present = handler[g].present
                               /\ handler'[g].answer = handler[g].answer
                               /\ g # h => handler'[g] = handler[g]
    BY Moved
  <1>2. \A g \in Handlers : InFlight(g)' <=> InFlight(g)
    BY <1>1 DEF InFlight, Working
  <1>3. TypeOK'
    BY <1>1 DEF TypeOK
  <1>4. HoldsItsRow' /\ OneHolder'
    BY <1>1, <1>2 DEF HoldsItsRow, OneHolder
  <1>5. PublishesItsBody'
    BY <1>1 DEF PublishesItsBody
  <1>6. StoredAnswersAreTrue' /\ GivenAnswersAreTrue'
    BY <1>1 DEF StoredAnswersAreTrue, GivenAnswersAreTrue, PublishedAs
  <1>7. KeyIsNotStranded'
    BY <1>1, <1>2 DEF KeyIsNotStranded, LeavesOpen, WriteLost, InFlight, Working
  <1> QED BY <1>3, <1>4, <1>5, <1>6, <1>7

LEMMA BeginHolds == ASSUME IInv, NEW h \in Handlers, Begin(h) PROVE IInv'
  <1> USE DEF IInv
  <1> DEFINE k == handler[h].key
             b == handler[h].body
  <1>0. /\ handler \in [Handlers -> Calls] /\ records \in [Keys -> Rows]
        /\ k \in Keys /\ b \in Bodies
    BY DEF TypeOK, Calls
  <1>1. CASE Reserve(k, b) /\ Goto(h, "reserved")
    <2>1. /\ handler' \in [Handlers -> Calls]
          /\ handler'[h].stage = "reserved"
          /\ \A g \in Handlers : /\ handler'[g].key = handler[g].key
                                 /\ handler'[g].body = handler[g].body
                                 /\ handler'[g].present = handler[g].present
                                 /\ handler'[g].answer = handler[g].answer
                                 /\ g # h => handler'[g] = handler[g]
      BY <1>1, Moved DEF Stages
    <2>2. Open(b) \in Rows /\ Open(b).state = "open" /\ Free.state = "free"
      BY <1>0, OpenType, FreeRow
    <2>3. /\ records[k] = Free /\ records'[k] = Open(b)
          /\ records' \in [Keys -> Rows]
          /\ \A j \in Keys : j # k => records'[j] = records[j]
      BY <1>0, <1>1, <2>2 DEF Reserve
    <2>4. UNCHANGED <<draftRevision, snapshots, expiries>> /\ handler[h].stage = "unsent"
      BY DEF Begin
    <2>5. \A g \in Handlers : InFlight(g)' <=> InFlight(g) \/ g = h
      BY <2>1 DEF InFlight
    <2>6. \A g \in Handlers : InFlight(g) => handler[g].key # k
      BY <2>2, <2>3, OpenState DEF HoldsItsRow
    <2>7. TypeOK'
      BY <2>1, <2>3, <2>4 DEF TypeOK
    <2>8. HoldsItsRow'
      <3> SUFFICES ASSUME NEW g \in Handlers, InFlight(g)'
                   PROVE  (records[handler[g].key] = Open(handler[g].body))'
        BY DEF HoldsItsRow
      <3>1. CASE g = h
        BY <3>1, <2>1, <2>3
      <3>2. CASE g # h
        <4>1. InFlight(g) /\ handler[g].key \in Keys
          BY <3>2, <2>5, <1>0 DEF Calls
        <4> QED BY <3>2, <4>1, <2>1, <2>3, <2>6 DEF HoldsItsRow
      <3> QED BY <3>1, <3>2
    <2>9. OneHolder'
      BY <2>1, <2>5, <2>6 DEF OneHolder
    <2>10. PublishesItsBody' /\ GivenAnswersAreTrue'
      BY <2>1, <2>4 DEF PublishesItsBody, GivenAnswersAreTrue, PublishedAs
    <2>11. StoredAnswersAreTrue'
      BY <2>1, <2>2, <2>3, <2>4 DEF StoredAnswersAreTrue, PublishedAs
    <2>12. KeyIsNotStranded'
      <3> SUFFICES ASSUME NEW j \in Keys, records'[j].state = "open"
                   PROVE  \E g \in Handlers : LeavesOpen(g, j)'
        BY DEF KeyIsNotStranded
      <3>1. CASE j = k
        <4>1. handler'[h].key = k /\ handler'[h].body = b /\ handler'[h].stage = "reserved" /\ InFlight(h)'
          BY <2>1, <2>5
        <4>2. records'[k] = Open(b) /\ Open(b).body = b
          BY <2>3, OpenState
        <4>3. LeavesOpen(h, j)'
          BY <3>1, <4>1, <4>2 DEF LeavesOpen
        <4> QED BY <4>3
      <3>2. CASE j # k
        <4>1. PICK g \in Handlers : LeavesOpen(g, j)
          BY <3>2, <2>3 DEF KeyIsNotStranded
        <4>2. g # h
          BY <4>1, <2>4 DEF LeavesOpen, InFlight, WriteLost
        <4>3. LeavesOpen(g, j)'
          BY <4>1, <4>2, <3>2, <2>1, <2>3, <2>4, <2>5 DEF LeavesOpen, WriteLost
        <4> QED BY <4>3
      <3> QED BY <3>1, <3>2
    <2> QED BY <2>7, <2>8, <2>9, <2>10, <2>11, <2>12
  <1>2. CASE /\ Replayable(k, b)
             /\ handler' = [handler EXCEPT ![h].stage = "replayed", ![h].answer = records[k].answer]
             /\ UNCHANGED records
    <2> DEFINE new == [handler[h] EXCEPT !.stage = "replayed", !.answer = records[k].answer]
    <2>1. records[k].answer \in Answers /\ PublishedAs(k, b, records[k].answer)
      BY <1>0, <1>2, DoneRow DEF Replayable, StoredAnswersAreTrue
    <2>2. handler' = [handler EXCEPT ![h] = new]
      BY <1>2
    <2>3. /\ new \in Calls /\ new.stage = "replayed" /\ new.answer = records[k].answer
          /\ new.key = k /\ new.body = b /\ new.present = handler[h].present
      BY <1>0, <2>1, BoundAssumption DEF Calls, Stages
    <2>4. handler[h].stage = "unsent" /\ UNCHANGED <<records, draftRevision, snapshots, expiries>>
      BY <1>2 DEF Begin
    <2>5. /\ handler' \in [Handlers -> Calls] /\ handler'[h] = new
          /\ \A g \in Handlers : g # h => handler'[g] = handler[g]
      BY <1>0, <2>2, <2>3
    <2> HIDE DEF new
    <2>6. \A g \in Handlers : /\ InFlight(g)' <=> InFlight(g)
                             /\ handler'[g].key = handler[g].key
                             /\ handler'[g].body = handler[g].body
      BY <2>3, <2>4, <2>5 DEF InFlight
    <2>7. TypeOK'
      BY <2>4, <2>5 DEF TypeOK
    <2>8. HoldsItsRow' /\ OneHolder'
      BY <2>4, <2>6 DEF HoldsItsRow, OneHolder
    <2>9. PublishesItsBody'
      BY <2>3, <2>4, <2>5 DEF PublishesItsBody
    <2>10. StoredAnswersAreTrue'
      BY <2>4, <2>6 DEF StoredAnswersAreTrue, PublishedAs
    <2>11. GivenAnswersAreTrue'
      BY <2>1, <2>3, <2>4, <2>5, <2>6 DEF GivenAnswersAreTrue, PublishedAs
    <2>12. KeyIsNotStranded'
      <3> SUFFICES ASSUME NEW j \in Keys, records[j].state = "open"
                   PROVE  \E g \in Handlers : LeavesOpen(g, j)'
        BY <2>4 DEF KeyIsNotStranded
      <3>1. PICK g \in Handlers : LeavesOpen(g, j)
        BY DEF KeyIsNotStranded
      <3>2. g # h
        BY <3>1, <2>4 DEF LeavesOpen, InFlight, WriteLost
      <3>3. LeavesOpen(g, j)'
        BY <3>1, <3>2, <2>4, <2>5, <2>6 DEF LeavesOpen, WriteLost
      <3> QED BY <3>3
    <2> QED BY <2>7, <2>8, <2>9, <2>10, <2>11, <2>12
  <1>3. CASE Goto(h, "refused") /\ UNCHANGED records
    BY <1>3, Walks DEF Begin, Stages, Working, InFlight
  <1> QED BY <1>1, <1>2, <1>3 DEF Begin

\* A publication changes the snapshot of its own handler only.
LEMMA CommitHolds == ASSUME IInv, NEW h \in Handlers, CommitPublish(h) PROVE IInv'
  <1> USE DEF IInv
  <1>0. handler \in [Handlers -> Calls] /\ snapshots \in [Handlers -> Bodies \cup {NotPublished}]
    BY DEF TypeOK
  <1>1. /\ handler' \in [Handlers -> Calls]
        /\ handler'[h].stage = "committed"
        /\ \A g \in Handlers : /\ handler'[g].key = handler[g].key
                               /\ handler'[g].body = handler[g].body
                               /\ handler'[g].present = handler[g].present
                               /\ handler'[g].answer = handler[g].answer
                               /\ g # h => handler'[g] = handler[g]
    BY Moved DEF CommitPublish, Stages
  <1>2. /\ handler[h].stage = "reserved" /\ handler[h].body = draftRevision
        /\ UNCHANGED <<records, draftRevision, expiries>>
    BY DEF CommitPublish
  <1>3. /\ snapshots' \in [Handlers -> Bodies \cup {NotPublished}]
        /\ snapshots'[h] = handler[h].body
        /\ \A g \in Handlers : g # h => snapshots'[g] = snapshots[g]
        /\ snapshots'[h] # NotPublished
    BY <1>0, <1>2, BoundAssumption DEF CommitPublish, Calls, NotPublished
  <1>4. \A g \in Handlers : InFlight(g)' <=> InFlight(g)
    BY <1>1, <1>2 DEF InFlight
  <1>5. TypeOK'
    BY <1>1, <1>2, <1>3 DEF TypeOK
  <1>6. HoldsItsRow' /\ OneHolder'
    BY <1>1, <1>2, <1>4 DEF HoldsItsRow, OneHolder
  <1>7. PublishesItsBody'
    BY <1>1, <1>3 DEF PublishesItsBody
  <1>9. StoredAnswersAreTrue'
    <2> SUFFICES ASSUME NEW k \in Keys, records[k].state = "done"
                 PROVE  PublishedAs(k, records[k].body, records[k].answer)'
      BY <1>2 DEF StoredAnswersAreTrue
    <2>1. records[k].body \in Bodies /\ records[k].answer \in Bodies
      BY DoneRow, BoundAssumption DEF TypeOK
    <2>2. PublishedAs(k, records[k].body, records[k].answer)
      BY DEF StoredAnswersAreTrue
    <2>3. PICK g \in Handlers :
            /\ handler[g].key = k /\ handler[g].body = records[k].body
            /\ snapshots[g] = records[k].answer /\ records[k].answer = records[k].body
      BY <2>2 DEF PublishedAs
    <2> QED BY <2>3, <1>1, <1>2, <1>3 DEF PublishedAs
  <1>10. GivenAnswersAreTrue'
    <2> SUFFICES ASSUME NEW f \in Handlers, handler[f].answer # NotPublished
                 PROVE  PublishedAs(handler[f].key, handler[f].body, handler[f].answer)'
      BY <1>1 DEF GivenAnswersAreTrue
    <2>1. PICK g \in Handlers :
            /\ handler[g].key = handler[f].key /\ handler[g].body = handler[f].body
            /\ snapshots[g] = handler[f].answer /\ handler[f].answer = handler[f].body
      BY DEF GivenAnswersAreTrue, PublishedAs
    <2> QED BY <2>1, <1>1, <1>3 DEF PublishedAs
  <1>11. KeyIsNotStranded'
    <2>1. \A g \in Handlers, j \in Keys : LeavesOpen(g, j) => LeavesOpen(g, j)'
      BY <1>1, <1>2, <1>3, <1>4 DEF LeavesOpen, WriteLost
    <2> QED BY <2>1, <1>2 DEF KeyIsNotStranded
  <1> QED BY <1>5, <1>6, <1>7, <1>9, <1>10, <1>11

LEMMA RejectHolds == ASSUME IInv, NEW h \in Handlers, RejectPublish(h) PROVE IInv'
  BY Walks DEF RejectPublish, Stages, Working, InFlight

LEMMA LoadHolds == ASSUME IInv, NEW h \in Handlers, LoadResult(h) PROVE IInv'
  <1>1. snapshots[h] = handler[h].body /\ handler[h].stage = "committed"
    BY DEF IInv, PublishesItsBody, LoadResult
  <1>2. CASE Goto(h, "loaded")
    BY <1>1, <1>2, Walks DEF LoadResult, Stages, Working, InFlight
  <1>3. CASE Goto(h, "failed")
    BY <1>1, <1>3, Walks DEF LoadResult, Stages, Working, InFlight
  <1> QED BY <1>2, <1>3 DEF LoadResult

\* Leaving with the row closed: Complete and Abort, if they succeed.
LEMMA RowClosed ==
  ASSUME IInv, NEW h \in Handlers, InFlight(h),
         NEW row \in Rows, row.state # "open",
         records' = [records EXCEPT ![handler[h].key] = IF @ = Open(handler[h].body) THEN row ELSE @]
  PROVE  /\ records' \in [Keys -> Rows]
         /\ records'[handler[h].key] = row
         /\ \A j \in Keys : j # handler[h].key => records'[j] = records[j]
  <1>1. records \in [Keys -> Rows] /\ handler[h].key \in Keys
    BY DEF IInv, TypeOK, Calls
  <1>2. records[handler[h].key] = Open(handler[h].body)
    BY DEF IInv, HoldsItsRow
  <1> QED BY <1>1, <1>2

\* A handler that ends, and closes its row or could not.
LEMMA Ends ==
  ASSUME IInv, NEW h \in Handlers, InFlight(h), NEW new \in Calls,
         handler' = [handler EXCEPT ![h] = new],
         new.key = handler[h].key, new.body = handler[h].body,
         new.stage \in {"answered", "unstored", "error", "unaborted"},
         new.answer \in {handler[h].answer, snapshots[h]},
         new.stage = "unstored" => snapshots[h] # NotPublished,
         records' \in [Keys -> Rows],
         \A j \in Keys : j # handler[h].key => records'[j] = records[j],
         \/ records'[handler[h].key] = records[handler[h].key] /\ new.stage \in {"unstored", "unaborted"}
         \/ records'[handler[h].key] = Free
         \/ /\ snapshots[h] # NotPublished
            /\ records'[handler[h].key] = Done(handler[h].body, snapshots[h]),
         UNCHANGED <<draftRevision, snapshots, expiries>>
  PROVE  IInv'
  <1> USE DEF IInv
  <1> DEFINE k == handler[h].key
             b == handler[h].body
  <1>0. /\ handler \in [Handlers -> Calls] /\ k \in Keys /\ b \in Bodies
        /\ records[k] = Open(b) /\ Open(b).state = "open" /\ Open(b).body = b
    BY OpenState DEF TypeOK, Calls, HoldsItsRow
  <1>1. /\ handler' \in [Handlers -> Calls] /\ handler'[h] = new
        /\ \A g \in Handlers : g # h => handler'[g] = handler[g]
    BY <1>0
  <1>2. \A g \in Handlers : /\ InFlight(g)' <=> InFlight(g) /\ g # h
                           /\ handler'[g].key = handler[g].key
                           /\ handler'[g].body = handler[g].body
    BY <1>1 DEF InFlight
  <1>3. \A g \in Handlers : g # h /\ InFlight(g) => handler[g].key # k
    BY DEF OneHolder
  <1>4. snapshots[h] \in {NotPublished, b} /\ (snapshots[h] # NotPublished => snapshots[h] = b /\ b \in Answers)
    BY <1>0, BoundAssumption DEF PublishesItsBody
  <1>5. TypeOK'
    BY <1>1 DEF TypeOK
  <1>6. HoldsItsRow'
    <2> SUFFICES ASSUME NEW g \in Handlers, InFlight(g), g # h
                 PROVE  records'[handler[g].key] = Open(handler[g].body)
      BY <1>2 DEF HoldsItsRow
    <2>1. handler[g].key \in Keys /\ handler[g].key # k
      BY <1>0, <1>3 DEF Calls
    <2> QED BY <2>1 DEF HoldsItsRow
  <1>7. OneHolder'
    BY <1>2 DEF OneHolder
  <1>8. PublishesItsBody'
    BY <1>1, <1>2 DEF PublishesItsBody
  <1>9. \A j, c, r : PublishedAs(j, c, r) => PublishedAs(j, c, r)'
    BY <1>2 DEF PublishedAs
  <1>10. snapshots[h] # NotPublished => PublishedAs(k, b, snapshots[h])'
    BY <1>2, <1>4 DEF PublishedAs
  <1>11. GivenAnswersAreTrue'
    <2> SUFFICES ASSUME NEW f \in Handlers, handler'[f].answer # NotPublished
                 PROVE  PublishedAs(handler[f].key, handler[f].body, handler[f].answer)'
      BY DEF GivenAnswersAreTrue
    <2>1. CASE handler'[f].answer = handler[f].answer
      <3>1. PublishedAs(handler[f].key, handler[f].body, handler[f].answer)
        BY <2>1 DEF GivenAnswersAreTrue
      <3> QED BY <3>1, <2>1, <1>2 DEF PublishedAs
    <2>2. CASE handler'[f].answer # handler[f].answer
      <3>1. f = h /\ handler'[f].answer = snapshots[h]
        BY <2>2, <1>1
      <3> QED BY <3>1, <1>2, <1>10 DEF PublishedAs
    <2> QED BY <2>1, <2>2
  <1>12. StoredAnswersAreTrue'
    <2> SUFFICES ASSUME NEW j \in Keys, records'[j].state = "done"
                 PROVE  PublishedAs(j, records[j].body, records[j].answer)'
      BY DEF StoredAnswersAreTrue
    <2>1. CASE records'[j] = records[j]
      <3>1. PublishedAs(j, records[j].body, records[j].answer)
        BY <2>1 DEF StoredAnswersAreTrue
      <3> QED BY <2>1, <3>1, <1>2 DEF PublishedAs
    <2>2. CASE records'[j] # records[j]
      <3>1. j = k /\ snapshots[h] # NotPublished /\ records'[k] = Done(b, snapshots[h])
        BY <2>2, FreeRow
      <3>2. records'[k].body = b /\ records'[k].answer = snapshots[h]
        BY <3>1, <1>0, <1>4, RowFacts
      <3> QED BY <3>1, <3>2, <1>2, <1>10 DEF PublishedAs
    <2> QED BY <2>1, <2>2
  <1>13. KeyIsNotStranded'
    <2> SUFFICES ASSUME NEW j \in Keys, records'[j].state = "open"
                 PROVE  \E g \in Handlers : LeavesOpen(g, j)'
      BY DEF KeyIsNotStranded
    <2>1. records'[j] = records[j]
      <3>1. snapshots[h] # NotPublished => Done(b, snapshots[h]).state = "done"
        BY <1>0, <1>4, RowFacts
      <3> QED BY <3>1, FreeRow
    <2>2. CASE j = k
      <3>1. handler'[h].stage \in {"unstored", "unaborted"}
        BY <2>1, <2>2, <1>0, <1>1, <1>4, FreeRow, RowFacts
      <3>2. LeavesOpen(h, j)'
        BY <3>1, <2>1, <2>2, <1>0, <1>1 DEF LeavesOpen, WriteLost
      <3> QED BY <3>2
    <2>3. CASE j # k
      <3>1. PICK g \in Handlers : LeavesOpen(g, j)
        BY <2>1 DEF KeyIsNotStranded
      <3>2. LeavesOpen(g, j)'
        BY <3>1, <2>1, <2>3, <1>1, <1>2 DEF LeavesOpen, WriteLost
      <3> QED BY <3>2
    <2> QED BY <2>2, <2>3
  <1> QED BY <1>5, <1>6, <1>7, <1>8, <1>11, <1>12, <1>13

LEMMA AbortHolds == ASSUME IInv, NEW h \in Handlers, Abort(h) PROVE IInv'
  <1>0. /\ handler \in [Handlers -> Calls] /\ records \in [Keys -> Rows] /\ InFlight(h)
        /\ UNCHANGED <<draftRevision, snapshots, expiries>>
    BY DEF IInv, TypeOK, Abort, InFlight
  <1>1. ASSUME NEW s \in {"error", "unaborted"}, Goto(h, s),
               (s = "error" /\ GiveBack(handler[h].key, handler[h].body)) \/
               (s = "unaborted" /\ UNCHANGED records)
        PROVE  IInv'
    <2> DEFINE new == [handler[h] EXCEPT !.stage = s]
    <2>1. /\ new \in Calls /\ new.stage = s /\ new.answer = handler[h].answer
          /\ new.key = handler[h].key /\ new.body = handler[h].body
      BY <1>0 DEF Calls, Stages
    <2>2. handler' = [handler EXCEPT ![h] = new]
      BY <1>1 DEF Goto
    <2> HIDE DEF new
    <2>3. CASE s = "error"
      <3>1. /\ records' \in [Keys -> Rows] /\ records'[handler[h].key] = Free
            /\ \A j \in Keys : j # handler[h].key => records'[j] = records[j]
        BY <1>0, <1>1, <2>3, FreeRow, RowClosed DEF GiveBack
      <3> QED BY <1>0, <2>1, <2>2, <2>3, <3>1, Ends
    <2>4. CASE s = "unaborted"
      <3>1. records' = records
        BY <1>1, <2>4
      <3> QED BY <1>0, <2>1, <2>2, <2>4, <3>1, Ends
    <2> QED BY <2>3, <2>4
  <1> QED BY <1>1 DEF Abort

\* The answer is sent whether or not it could be stored.
LEMMA CompleteHolds == ASSUME IInv, NEW h \in Handlers, Complete(h) PROVE IInv'
  <1>0. /\ handler \in [Handlers -> Calls] /\ records \in [Keys -> Rows] /\ InFlight(h)
        /\ handler[h].body \in Answers /\ handler[h].body \in Bodies
        /\ snapshots[h] = handler[h].body /\ snapshots[h] # NotPublished
        /\ UNCHANGED <<draftRevision, snapshots, expiries>>
    BY BoundAssumption DEF IInv, TypeOK, Complete, InFlight, PublishesItsBody, Calls, NotPublished
  <1>1. ASSUME NEW s \in {"answered", "unstored"}, Answered(h, s),
               (s = "answered" /\ StoreAnswer(handler[h].key, handler[h].body, snapshots[h])) \/
               (s = "unstored" /\ UNCHANGED records)
        PROVE  IInv'
    <2> DEFINE new == [handler[h] EXCEPT !.stage = s, !.answer = snapshots[h]]
    <2>1. /\ new \in Calls /\ new.stage = s /\ new.answer = snapshots[h]
          /\ new.key = handler[h].key /\ new.body = handler[h].body
      BY <1>0 DEF Calls, Stages
    <2>2. handler' = [handler EXCEPT ![h] = new]
      BY <1>1 DEF Answered
    <2> HIDE DEF new
    <2>3. CASE s = "answered"
      <3>1. /\ Done(handler[h].body, snapshots[h]) \in Rows
            /\ Done(handler[h].body, snapshots[h]).state # "open"
        BY <1>0, RowFacts
      <3>2. /\ records' \in [Keys -> Rows]
            /\ records'[handler[h].key] = Done(handler[h].body, snapshots[h])
            /\ \A j \in Keys : j # handler[h].key => records'[j] = records[j]
        BY <1>0, <1>1, <2>3, <3>1, RowClosed DEF StoreAnswer
      <3> QED BY <1>0, <2>1, <2>2, <2>3, <3>2, Ends
    <2>4. CASE s = "unstored"
      <3>1. records' = records
        BY <1>1, <2>4
      <3> QED BY <1>0, <2>1, <2>2, <2>4, <3>1, Ends
    <2> QED BY <2>3, <2>4
  <1> QED BY <1>1 DEF Complete

LEMMA DisconnectHolds == ASSUME IInv, NEW h \in Handlers, Disconnect(h) PROVE IInv'
  <1> USE DEF IInv
  <1> DEFINE new == [handler[h] EXCEPT !.present = FALSE]
  <1>0. /\ handler \in [Handlers -> Calls]
        /\ UNCHANGED <<records, draftRevision, snapshots, expiries>>
        /\ InFlight(h)
    BY DEF TypeOK, Disconnect
  <1>1. new \in Calls
    <2>1. FALSE \in BOOLEAN /\ handler[h] \in Calls
      BY <1>0
    <2> QED BY <2>1 DEF Calls
  <1>2. /\ new.key = handler[h].key /\ new.body = handler[h].body
        /\ new.stage = handler[h].stage /\ new.answer = handler[h].answer
    BY <1>0 DEF Calls
  <1>3. handler' = [handler EXCEPT ![h] = new]
    BY DEF Disconnect
  <1>4. /\ handler' \in [Handlers -> Calls] /\ handler'[h] = new
        /\ \A g \in Handlers : g # h => handler'[g] = handler[g]
    BY <1>0, <1>1, <1>3
  <1> HIDE DEF new
  <1>5. \A g \in Handlers : /\ handler'[g].key = handler[g].key
                           /\ handler'[g].body = handler[g].body
                           /\ handler'[g].stage = handler[g].stage
                           /\ handler'[g].answer = handler[g].answer
    BY <1>2, <1>4
  <1>6. TypeOK'
    BY <1>0, <1>4 DEF TypeOK
  <1>7. HoldsItsRow' /\ OneHolder' /\ PublishesItsBody'
    BY <1>0, <1>5 DEF HoldsItsRow, OneHolder, PublishesItsBody, InFlight
  <1>8. StoredAnswersAreTrue' /\ GivenAnswersAreTrue'
    BY <1>0, <1>5 DEF StoredAnswersAreTrue, GivenAnswersAreTrue, PublishedAs
  <1>9. KeyIsNotStranded'
    <2>1. \A g \in Handlers, j \in Keys : LeavesOpen(g, j) => LeavesOpen(g, j)'
      BY <1>0, <1>5 DEF LeavesOpen, WriteLost, InFlight
    <2> QED BY <2>1, <1>0 DEF KeyIsNotStranded
  <1> QED BY <1>6, <1>7, <1>8, <1>9

LEMMA CrashHolds == ASSUME IInv, Crash PROVE IInv'
  <1> USE DEF IInv
  <1>0. /\ handler \in [Handlers -> Calls]
        /\ UNCHANGED <<records, draftRevision, snapshots, expiries>>
    BY DEF TypeOK, Crash
  <1>1. ASSUME NEW h \in Handlers
        PROVE  [handler[h] EXCEPT !.stage = "dead"] \in Calls
    BY <1>0 DEF Calls, Stages
  <1>2. handler' \in [Handlers -> Calls]
    BY <1>0, <1>1 DEF Crash
  <1>3. \A h \in Handlers : handler'[h] = IF InFlight(h) THEN [handler[h] EXCEPT !.stage = "dead"]
                                                       ELSE handler[h]
    BY DEF Crash
  <1>4. \A h \in Handlers : /\ handler'[h].key = handler[h].key
                           /\ handler'[h].body = handler[h].body
                           /\ handler'[h].answer = handler[h].answer
                           /\ handler'[h].present = handler[h].present
                           /\ handler'[h].stage = IF InFlight(h) THEN "dead" ELSE handler[h].stage
    BY <1>0, <1>3 DEF Calls
  <1>5. \A h \in Handlers : ~InFlight(h)'
    BY <1>4 DEF InFlight
  <1>6. TypeOK'
    BY <1>0, <1>2 DEF TypeOK
  <1>7. HoldsItsRow' /\ OneHolder' /\ PublishesItsBody'
    BY <1>0, <1>4, <1>5 DEF HoldsItsRow, OneHolder, PublishesItsBody
  <1>8. StoredAnswersAreTrue' /\ GivenAnswersAreTrue'
    BY <1>0, <1>4 DEF StoredAnswersAreTrue, GivenAnswersAreTrue, PublishedAs
  <1>9. KeyIsNotStranded'
    <2>1. \A g \in Handlers, j \in Keys : LeavesOpen(g, j) => LeavesOpen(g, j)'
      BY <1>0, <1>4 DEF LeavesOpen, WriteLost, InFlight
    <2> QED BY <2>1, <1>0 DEF KeyIsNotStranded
  <1> QED BY <1>6, <1>7, <1>8, <1>9

LEMMA ExpireHolds == ASSUME IInv, NEW k \in Keys, Expire(k) PROVE IInv'
  <1> USE DEF IInv
  <1>0. /\ UNCHANGED <<draftRevision, snapshots, handler>>
        /\ \A h \in Handlers : InFlight(h) => handler[h].key # k
        /\ \A h \in Handlers : InFlight(h)' <=> InFlight(h)
    BY DEF Expire, InFlight
  <1>1. /\ records' \in [Keys -> Rows] /\ records'[k] = Free
        /\ \A j \in Keys : j # k => records'[j] = records[j]
    BY FreeRow DEF TypeOK, Expire, Forget
  <1>2. expiries' \in [Keys -> 0 .. MaxExpiries]
    <2>1. expiries[k] \in Nat /\ expiries[k] + 1 \in 0 .. MaxExpiries
      BY BoundAssumption DEF TypeOK, Expire
    <2> QED BY <2>1 DEF TypeOK, Expire
  <1>3. TypeOK'
    BY <1>0, <1>1, <1>2 DEF TypeOK
  <1>4. HoldsItsRow'
    BY <1>0, <1>1 DEF HoldsItsRow, TypeOK, Calls
  <1>5. OneHolder' /\ PublishesItsBody'
    BY <1>0 DEF OneHolder, PublishesItsBody
  <1>6. StoredAnswersAreTrue' /\ KeyIsNotStranded'
    BY <1>0, <1>1, FreeRow DEF StoredAnswersAreTrue, KeyIsNotStranded, LeavesOpen, WriteLost, PublishedAs
  <1>7. GivenAnswersAreTrue'
    BY <1>0 DEF GivenAnswersAreTrue, PublishedAs
  <1> QED BY <1>3, <1>4, <1>5, <1>6, <1>7

LEMMA Unmoved ==
  ASSUME IInv, UNCHANGED <<records, snapshots, handler, expiries>>, draftRevision' \in 0 .. MaxRevision
  PROVE  IInv'
  BY DEF IInv, TypeOK, HoldsItsRow, OneHolder, PublishesItsBody, StoredAnswersAreTrue,
         GivenAnswersAreTrue, KeyIsNotStranded, LeavesOpen, WriteLost, PublishedAs, InFlight

-----------------------------------------------------------------------------

LEMMA NextHolds == IInv /\ [Next]_vars => IInv'
  <1> SUFFICES ASSUME IInv, [Next]_vars PROVE IInv'
    OBVIOUS
  <1>1. ASSUME NEW h \in Handlers, Step(h) PROVE IInv'
    BY <1>1, BeginHolds, CommitHolds, RejectHolds, LoadHolds, CompleteHolds, AbortHolds DEF Step
  <1>2. CASE Edit
    <2>1. draftRevision' \in 0 .. MaxRevision
      BY <1>2, BoundAssumption DEF IInv, TypeOK, Edit
    <2> QED BY <1>2, <2>1, Unmoved DEF Edit
  <1>3. CASE UNCHANGED vars
    <2>1. draftRevision' \in 0 .. MaxRevision
      BY <1>3 DEF IInv, TypeOK, vars
    <2> QED BY <1>3, <2>1, Unmoved DEF vars
  <1> QED BY <1>1, <1>2, <1>3, DisconnectHolds, CrashHolds, ExpireHolds DEF Next

LEMMA Invariance == Spec => []IInv
  BY InitHolds, NextHolds, PTL DEF Spec

\* Every reachable state is well typed: a row never holds the answer of a
\* request that failed (idempotency/service.go).
THEOREM TypeCorrect == Spec => []TypeOK
  <1>1. IInv => TypeOK
    BY DEF IInv
  <1> QED BY <1>1, Invariance, PTL

\* However requests, retries, crashes and expiries interleave, no two handlers
\* work under one key (Begin's insert).
THEOREM KeysHaveOneHolder == Spec => []OneHolder
  <1>1. IInv => OneHolder
    BY DEF IInv
  <1> QED BY <1>1, Invariance, PTL

\* An answer, fresh or replayed, is a snapshot that a request of the same key
\* and body published (Begin's replay, Complete).
THEOREM AnswersTellTheTruth == Spec => []AnswersAreTrue
  <1>1. IInv => AnswersAreTrue
    <2> SUFFICES ASSUME IInv, NEW h \in Handlers, handler[h].answer # NotPublished
                 PROVE  \E g \in Published(handler[h].key) :
                          handler[g].body = handler[h].body /\ snapshots[g] = handler[h].answer
      BY DEF AnswersAreTrue
    <2>1. PICK g \in Handlers :
            /\ handler[g].key = handler[h].key /\ handler[g].body = handler[h].body
            /\ snapshots[g] = handler[h].answer
      BY DEF IInv, GivenAnswersAreTrue, PublishedAs
    <2>2. g \in Published(handler[h].key)
      BY <2>1 DEF Published
    <2> QED BY <2>1, <2>2
  <1> QED BY <1>1, Invariance, PTL

\* A key has one holder and its answers are true (Begin, Complete).
THEOREM KeysAnswerTruly == Spec => []OneTrueAnswer
  <1>1. OneHolder /\ AnswersAreTrue => OneTrueAnswer
    BY DEF OneTrueAnswer
  <1> QED BY <1>1, KeysHaveOneHolder, AnswersTellTheTruth, PTL

\* A key stays in progress only for the request that reserved it, while it runs,
\* or after a crash, an answer that could not be stored, or an abort whose DELETE
\* was refused: a client that goes away is no reason (the deferred Abort).
THEOREM KeysAreGivenBack == Spec => []KeyIsNotStranded
  <1>1. IInv => KeyIsNotStranded
    BY DEF IInv
  <1> QED BY <1>1, Invariance, PTL

-----------------------------------------------------------------------------
(* How often a key publishes.  A reservation pays for one snapshot; while   *)
(* the row is free, or its holder has not published or is about to give the *)
(* key back, that one is still to come.                                     *)

\* Snapshots under a key that no request has disowned.
Kept(k) == {h \in Published(k) : ~GaveBackCommitted(h)}

Unspent(k) ==
  \/ records[k] = Free
  \/ \E h \in Handlers : handler[h].key = k /\ handler[h].stage \in {"reserved", "failed"}

PaidFor(k) ==
  /\ IsFiniteSet(Published(k))
  /\ Cardinality(Kept(k)) <= expiries[k] + 1
  /\ Unspent(k) => Cardinality(Kept(k)) <= expiries[k]

AllPaidFor == \A k \in Keys : PaidFor(k)

LEMMA KeptIsFinite ==
  ASSUME NEW k, IsFiniteSet(Published(k))
  PROVE  IsFiniteSet(Kept(k)) /\ Cardinality(Kept(k)) \in Nat
  <1>1. Kept(k) \in SUBSET Published(k)
    BY DEF Kept
  <1> QED BY <1>1, FS_Subset, FS_CardinalityType

\* No snapshot comes, and no reservation.
LEMMA NothingAdded ==
  ASSUME NEW k, PaidFor(k), expiries[k] \in Nat, expiries'[k] = expiries[k],
         Published(k)' \subseteq Published(k), Kept(k)' \subseteq Kept(k),
         Unspent(k)' => Unspent(k)
  PROVE  PaidFor(k)'
  <1>1. IsFiniteSet(Published(k))
    BY DEF PaidFor
  <1>2. IsFiniteSet(Published(k)')
    BY <1>1, FS_Subset
  <1>3. Cardinality(Kept(k)') <= Cardinality(Kept(k)) /\ Cardinality(Kept(k)') \in Nat
    BY <1>1, KeptIsFinite, FS_Subset, FS_CardinalityType
  <1> QED BY <1>1, <1>2, <1>3, KeptIsFinite DEF PaidFor

\* The snapshot of the reservation comes, or is no longer disowned.
LEMMA OneAdded ==
  ASSUME NEW k, PaidFor(k), expiries[k] \in Nat, expiries'[k] = expiries[k], NEW h,
         Published(k)' \subseteq Published(k) \cup {h}, Kept(k)' \subseteq Kept(k) \cup {h},
         Unspent(k), ~Unspent(k)'
  PROVE  PaidFor(k)'
  <1>1. IsFiniteSet(Published(k)) /\ Cardinality(Kept(k)) <= expiries[k]
    BY DEF PaidFor
  <1>2. IsFiniteSet(Published(k) \cup {h})
    BY <1>1, FS_AddElement
  <1>3. IsFiniteSet(Published(k)')
    BY <1>2, FS_Subset
  <1>4. /\ IsFiniteSet(Kept(k) \cup {h})
        /\ Cardinality(Kept(k) \cup {h}) <= Cardinality(Kept(k)) + 1
        /\ Cardinality(Kept(k) \cup {h}) \in Nat
    <2>1. IsFiniteSet(Kept(k)) /\ Cardinality(Kept(k)) \in Nat
      BY <1>1, KeptIsFinite
    <2>2. /\ IsFiniteSet(Kept(k) \cup {h})
          /\ Cardinality(Kept(k) \cup {h}) =
               IF h \in Kept(k) THEN Cardinality(Kept(k)) ELSE Cardinality(Kept(k)) + 1
      BY <2>1, FS_AddElement
    <2> QED BY <2>1, <2>2
  <1>5. Cardinality(Kept(k)') <= Cardinality(Kept(k) \cup {h}) /\ Cardinality(Kept(k)') \in Nat
    BY <1>4, FS_Subset, FS_CardinalityType
  <1> QED BY <1>1, <1>3, <1>4, <1>5, KeptIsFinite DEF PaidFor

\* A snapshot is disowned.
LEMMA OneGone ==
  ASSUME NEW k, PaidFor(k), expiries[k] \in Nat, expiries'[k] = expiries[k], NEW h \in Kept(k),
         Published(k)' \subseteq Published(k), Kept(k)' \subseteq Kept(k) \ {h}
  PROVE  PaidFor(k)'
  <1>1. IsFiniteSet(Published(k)) /\ Cardinality(Kept(k)) <= expiries[k] + 1
    BY DEF PaidFor
  <1>2. IsFiniteSet(Published(k)')
    BY <1>1, FS_Subset
  <1>3. /\ IsFiniteSet(Kept(k) \ {h})
        /\ Cardinality(Kept(k) \ {h}) = Cardinality(Kept(k)) - 1
    BY <1>1, KeptIsFinite, FS_RemoveElement
  <1>4. Cardinality(Kept(k)') <= Cardinality(Kept(k) \ {h}) /\ Cardinality(Kept(k)') \in Nat
    BY <1>3, FS_Subset, FS_CardinalityType
  <1> QED BY <1>1, <1>2, <1>3, <1>4, KeptIsFinite DEF PaidFor

\* Keys a handler does not work under.
LEMMA OtherKeys ==
  ASSUME IInv, AllPaidFor, NEW k \in Keys, NEW h \in Handlers, handler[h].key # k,
         UNCHANGED expiries, records'[k] = records[k], handler'[h].key = handler[h].key,
         \A g \in Handlers \ {h} : handler'[g] = handler[g] /\ snapshots'[g] = snapshots[g]
  PROVE  PaidFor(k)'
  <1>1. \A g \in Handlers : handler[g].key = k => g # h
    OBVIOUS
  <1>2. \A g \in Handlers : handler'[g].key = k => handler'[g] = handler[g] /\ snapshots'[g] = snapshots[g]
    BY <1>1
  <1>3. Published(k)' \subseteq Published(k) /\ Kept(k)' \subseteq Kept(k)
    BY <1>2 DEF Published, Kept, GaveBackCommitted
  <1>4. Unspent(k)' => Unspent(k)
    BY <1>2 DEF Unspent
  <1>5. PaidFor(k) /\ expiries[k] \in Nat
    BY DEF AllPaidFor, IInv, TypeOK
  <1> QED BY <1>3, <1>4, <1>5, NothingAdded

\* What a handler's move means for its own key.
LEMMA OwnKey ==
  ASSUME IInv, NEW k, NEW h \in Handlers, handler[h].key = k,
         \A g \in Handlers : handler'[g].key = handler[g].key,
         \A g \in Handlers \ {h} : handler'[g] = handler[g] /\ snapshots'[g] = snapshots[g]
  PROVE  /\ Published(k)' \subseteq Published(k) \cup {h}
         /\ Kept(k)' \subseteq Kept(k) \cup {h}
         /\ GaveBackCommitted(h)' => Kept(k)' \subseteq Kept(k) \ {h}
         /\ snapshots'[h] = snapshots[h] => Published(k)' \subseteq Published(k)
  BY DEF Published, Kept, GaveBackCommitted

\* No other handler in flight has the key of one that is.
LEMMA Alone ==
  ASSUME IInv, NEW h \in Handlers, InFlight(h)
  PROVE  /\ \A g \in Handlers : handler[g].key = handler[h].key /\ InFlight(g) => g = h
         /\ handler[h].key \in Keys /\ records[handler[h].key] = Open(handler[h].body)
         /\ records[handler[h].key] # Free
  <1>1. handler[h].key \in Keys /\ records[handler[h].key] = Open(handler[h].body)
    BY DEF IInv, TypeOK, Calls, HoldsItsRow
  <1>2. Open(handler[h].body) # Free
    BY OpenState, FreeRow
  <1> QED BY <1>1, <1>2 DEF IInv, OneHolder

LEMMA StepPays ==
  ASSUME IInv, AllPaidFor, NEW k \in Keys, NEW h \in Handlers, handler[h].key = k,
         Step(h) \/ Disconnect(h)
  PROVE  AllPaidFor'
  <1>0. /\ handler \in [Handlers -> Calls] /\ records \in [Keys -> Rows] /\ k \in Keys
        /\ PaidFor(k) /\ expiries[k] \in Nat
    BY DEF IInv, TypeOK, Calls, AllPaidFor
  <1>1. /\ UNCHANGED expiries
        /\ \A g \in Handlers : handler'[g].key = handler[g].key
        /\ \A g \in Handlers \ {h} : handler'[g] = handler[g] /\ snapshots'[g] = snapshots[g]
        /\ \A j \in Keys \ {k} : records'[j] = records[j]
    <2>1. /\ UNCHANGED expiries
          /\ handler'[h].key = k
          /\ \A g \in Handlers \ {h} : handler'[g] = handler[g]
      <3>1. ASSUME NEW s, NEW a, NEW p, handler' = [handler EXCEPT ![h].stage = s] \/
                     handler' = [handler EXCEPT ![h].stage = s, ![h].answer = a] \/
                     handler' = [handler EXCEPT ![h].present = p]
            PROVE  handler'[h].key = k /\ \A g \in Handlers \ {h} : handler'[g] = handler[g]
        BY <1>0, <3>1 DEF Calls
      <3>2. Begin(h) => \E s, a : handler' = [handler EXCEPT ![h].stage = s] \/
                                  handler' = [handler EXCEPT ![h].stage = s, ![h].answer = a]
        BY DEF Begin, Goto
      <3>3. CommitPublish(h) \/ RejectPublish(h) \/ LoadResult(h) \/ Abort(h) =>
              \E s : handler' = [handler EXCEPT ![h].stage = s]
        BY DEF CommitPublish, RejectPublish, LoadResult, Abort, Goto
      <3>4. Complete(h) => \E s, a : handler' = [handler EXCEPT ![h].stage = s, ![h].answer = a]
        BY DEF Complete, Answered
      <3>5. Disconnect(h) => \E p : handler' = [handler EXCEPT ![h].present = p]
        BY DEF Disconnect
      <3>6. UNCHANGED expiries
        BY DEF Step, Begin, CommitPublish, RejectPublish, LoadResult, Complete, Abort, Disconnect
      <3> QED BY <3>1, <3>2, <3>3, <3>4, <3>5, <3>6 DEF Step
    <2>2. \A g \in Handlers \ {h} : snapshots'[g] = snapshots[g]
      BY DEF IInv, TypeOK, Step, Begin, CommitPublish, RejectPublish, LoadResult, Complete, Abort, Disconnect
    <2>3. \A j \in Keys \ {k} : records'[j] = records[j]
      BY <1>0 DEF Step, Begin, CommitPublish, RejectPublish, LoadResult, Complete, Abort, Disconnect,
                  Reserve, StoreAnswer, GiveBack
    <2> QED BY <1>0, <2>1, <2>2, <2>3
  <1>2. ASSUME NEW j \in Keys, j # k PROVE PaidFor(j)'
    BY <1>1, <1>2, OtherKeys
  <1>3. /\ Published(k)' \subseteq Published(k) \cup {h}
        /\ Kept(k)' \subseteq Kept(k) \cup {h}
        /\ GaveBackCommitted(h)' => Kept(k)' \subseteq Kept(k) \ {h}
        /\ snapshots'[h] = snapshots[h] => Published(k)' \subseteq Published(k)
    BY <1>1, OwnKey
  \* Disowned or not as before, with the same snapshot: nothing is added.
  <1>4. ASSUME snapshots'[h] = snapshots[h], GaveBackCommitted(h) => GaveBackCommitted(h)',
               Unspent(k)' => Unspent(k)
        PROVE  PaidFor(k)'
    <2>1. Kept(k)' \subseteq Kept(k)
      BY <1>1, <1>3, <1>4 DEF Kept, Published
    <2> QED BY <1>0, <1>1, <1>3, <1>4, <2>1, NothingAdded
  <1>5. ASSUME records'[k] = records[k] \/ records'[k] # Free,
               handler'[h].stage \in {"reserved", "failed"} => Unspent(k)
        PROVE  Unspent(k)' => Unspent(k)
    BY <1>1, <1>5 DEF Unspent
  <1>6. ASSUME Begin(h) PROVE PaidFor(k)'
    <2>1. /\ snapshots' = snapshots /\ ~GaveBackCommitted(h)
          /\ handler'[h].stage \in {"reserved", "replayed", "refused"}
          /\ handler'[h].stage = "reserved" => records[k] = Free
          /\ records[k] # Free => records'[k] = records[k]
      <3>1. snapshots' = snapshots /\ ~GaveBackCommitted(h)
        BY <1>6 DEF Begin, GaveBackCommitted
      <3>2. \/ /\ records[k] = Free
               /\ handler' = [handler EXCEPT ![h].stage = "reserved"]
            \/ /\ records' = records
               /\ \E a : handler' = [handler EXCEPT ![h].stage = "replayed", ![h].answer = a]
            \/ /\ records' = records
               /\ handler' = [handler EXCEPT ![h].stage = "refused"]
        BY <1>6 DEF Begin, Goto, Reserve
      <3> QED BY <1>0, <3>1, <3>2 DEF Calls
    <2>2. Unspent(k)' => Unspent(k)
      BY <1>1, <2>1 DEF Unspent
    <2> QED BY <1>4, <2>1, <2>2
  <1>7. ASSUME CommitPublish(h) PROVE PaidFor(k)'
    <2>1. /\ handler[h].stage = "reserved" /\ handler'[h].stage = "committed"
          /\ records' = records /\ InFlight(h)
      BY <1>0, <1>7 DEF CommitPublish, Goto, InFlight
    <2>2. Unspent(k) /\ ~Unspent(k)'
      BY <1>1, <2>1, Alone DEF Unspent, InFlight
    <2> QED BY <1>0, <1>1, <1>3, <2>2, OneAdded
  <1>8. ASSUME RejectPublish(h) PROVE PaidFor(k)'
    <2>1. /\ handler[h].stage = "reserved" /\ handler'[h].stage = "failed"
          /\ records' = records /\ snapshots' = snapshots
      BY <1>0, <1>8 DEF RejectPublish, Goto
    <2>2. Unspent(k) /\ ~GaveBackCommitted(h)
      BY <2>1 DEF Unspent, GaveBackCommitted
    <2> QED BY <1>4, <2>1, <2>2
  <1>9. ASSUME LoadResult(h) PROVE PaidFor(k)'
    <2>1. /\ handler[h].stage = "committed" /\ handler'[h].stage \in {"loaded", "failed"}
          /\ records' = records /\ snapshots' = snapshots
      BY <1>0, <1>9 DEF LoadResult, Goto, Calls
    <2>2. snapshots[h] # NotPublished
      BY <1>0, <2>1, BoundAssumption DEF IInv, PublishesItsBody, NotPublished, Calls
    <2>3. h \in Kept(k)
      BY <2>1, <2>2 DEF Kept, Published, GaveBackCommitted
    <2>4. CASE handler'[h].stage = "loaded"
      <3>1. Unspent(k)' => Unspent(k)
        BY <1>1, <2>1, <2>4 DEF Unspent
      <3> QED BY <1>4, <2>1, <2>3, <3>1 DEF Kept
    <2>5. CASE handler'[h].stage = "failed"
      <3>1. GaveBackCommitted(h)'
        BY <2>1, <2>2, <2>5 DEF GaveBackCommitted
      <3> QED BY <1>0, <1>1, <1>3, <2>1, <2>3, <3>1, OneGone
    <2> QED BY <2>1, <2>4, <2>5
  <1>10. ASSUME Complete(h) PROVE PaidFor(k)'
    <2>1. /\ handler[h].stage = "loaded" /\ handler'[h].stage \in {"answered", "unstored"}
          /\ snapshots' = snapshots /\ InFlight(h)
          /\ ~GaveBackCommitted(h)
      BY <1>0, <1>10 DEF Complete, Answered, InFlight, GaveBackCommitted, Calls
    <2>2. records'[k] = records[k] \/ records'[k] # Free
      <3>1. Done(handler[h].body, snapshots[h]) # Free
        BY FreeRow DEF Done
      <3> QED BY <1>0, <1>10, <3>1 DEF Complete, StoreAnswer
    <2> QED BY <1>4, <1>5, <2>1, <2>2
  <1>11. ASSUME Abort(h) PROVE PaidFor(k)'
    <2>1. /\ handler[h].stage = "failed" /\ snapshots' = snapshots /\ InFlight(h)
          /\ \/ handler'[h].stage = "error"
             \/ handler'[h].stage = "unaborted" /\ records' = records
      BY <1>0, <1>11 DEF Abort, Goto, InFlight, Calls
    <2>2. Unspent(k)
      BY <2>1 DEF Unspent
    <2>3. CASE handler'[h].stage = "error"
      BY <1>4, <2>1, <2>2, <2>3 DEF GaveBackCommitted
    \* The row stays, and so the snapshot of its reservation counts.
    <2>4. CASE handler'[h].stage = "unaborted" /\ records' = records
      <3>1. ~Unspent(k)'
        BY <1>1, <2>1, <2>4, Alone DEF Unspent, InFlight
      <3> QED BY <1>0, <1>1, <1>3, <2>2, <3>1, OneAdded
    <2> QED BY <2>1, <2>3, <2>4
  <1>12. ASSUME Disconnect(h) PROVE PaidFor(k)'
    <2>1. /\ handler'[h].stage = handler[h].stage /\ snapshots' = snapshots /\ records' = records
      BY <1>0, <1>12 DEF Disconnect, Calls
    <2>2. Unspent(k)' => Unspent(k)
      BY <1>1, <2>1 DEF Unspent
    <2> QED BY <1>4, <2>1, <2>2 DEF GaveBackCommitted
  <1>13. PaidFor(k)'
    BY <1>6, <1>7, <1>8, <1>9, <1>10, <1>11, <1>12 DEF Step
  <1> QED BY <1>2, <1>13 DEF AllPaidFor

\* A crash makes the snapshot of a holder that was giving its key back count:
\* the row stays in progress.
LEMMA CrashPays ==
  ASSUME IInv, AllPaidFor, Crash PROVE AllPaidFor'
  <1> SUFFICES ASSUME NEW k \in Keys PROVE PaidFor(k)'
    BY DEF AllPaidFor
  <1>0. PaidFor(k) /\ expiries[k] \in Nat /\ UNCHANGED <<records, snapshots, expiries>>
    BY DEF IInv, TypeOK, AllPaidFor, Crash
  <1>1. \A h \in Handlers :
          /\ handler'[h].key = handler[h].key
          /\ handler'[h].stage = IF InFlight(h) THEN "dead" ELSE handler[h].stage
    BY DEF IInv, TypeOK, Crash, Calls
  <1>2. Published(k)' \subseteq Published(k)
    BY <1>0, <1>1 DEF Published
  <1>3. Unspent(k)' => records[k] = Free
    BY <1>0, <1>1 DEF Unspent, InFlight
  <1>4. CASE \E h \in Handlers : handler[h].key = k /\ handler[h].stage = "failed"
    <2>1. PICK h \in Handlers : handler[h].key = k /\ handler[h].stage = "failed"
      BY <1>4
    <2>2. InFlight(h) /\ Unspent(k)
      BY <2>1 DEF InFlight, Unspent
    <2>3. ~Unspent(k)'
      BY <1>3, <2>1, <2>2, Alone
    <2>4. \A g \in Handlers : handler[g].key = k /\ InFlight(g) => g = h
      BY <2>1, <2>2, Alone
    <2>5. Kept(k)' \subseteq Kept(k) \cup {h}
      BY <1>0, <1>1, <2>4 DEF Kept, Published, GaveBackCommitted
    <2> QED BY <1>0, <1>2, <2>2, <2>3, <2>5, OneAdded
  <1>5. CASE \A h \in Handlers : handler[h].key = k => handler[h].stage # "failed"
    <2>1. Kept(k)' \subseteq Kept(k)
      BY <1>0, <1>1, <1>5 DEF Kept, Published, GaveBackCommitted, InFlight
    <2> QED BY <1>0, <1>2, <1>3, <2>1, NothingAdded DEF Unspent
  <1> QED BY <1>4, <1>5

LEMMA ExpiryPays ==
  ASSUME IInv, AllPaidFor, NEW k \in Keys, Expire(k) PROVE AllPaidFor'
  <1>1. /\ UNCHANGED <<snapshots, handler>>
        /\ records' = [records EXCEPT ![k] = Free] /\ expiries' = [expiries EXCEPT ![k] = @ + 1]
        /\ expiries \in [Keys -> 0 .. MaxExpiries] /\ records \in [Keys -> Rows]
    BY DEF Expire, Forget, IInv, TypeOK
  <1>2. ASSUME NEW j \in Keys PROVE Published(j)' = Published(j) /\ Kept(j)' = Kept(j)
    BY <1>1 DEF Published, Kept, GaveBackCommitted
  <1>3. ASSUME NEW j \in Keys, j # k PROVE PaidFor(j)'
    BY <1>1, <1>2, <1>3 DEF AllPaidFor, PaidFor, Unspent
  <1>4. PaidFor(k)'
    <2>1. PaidFor(k) /\ expiries'[k] = expiries[k] + 1 /\ expiries[k] \in Nat
      BY <1>1 DEF AllPaidFor
    <2> QED BY <1>2, <2>1, KeptIsFinite DEF PaidFor
  <1> QED BY <1>3, <1>4 DEF AllPaidFor

\* A key publishes once per reservation: further snapshots are paid for by
\* requests that gave the key back after their commit, or by expiries, however
\* retries, crashes and lost answers interleave (httpapi/navigation.go publish).
THEOREM KeysPublishOnce == Spec => []OncePerReservation
  <1>1. Init => AllPaidFor
    <2> SUFFICES ASSUME Init, NEW k \in Keys PROVE PaidFor(k)
      BY DEF AllPaidFor
    <2>1. Published(k) = {} /\ Kept(k) = {} /\ expiries[k] = 0
      BY DEF Init, Published, Kept
    <2> QED BY <2>1, FS_EmptySet DEF PaidFor
  <1>2. IInv /\ AllPaidFor /\ [Next]_vars => AllPaidFor'
    <2> SUFFICES ASSUME IInv, AllPaidFor, [Next]_vars PROVE AllPaidFor'
      OBVIOUS
    <2>1. CASE Edit \/ UNCHANGED vars
      <3>1. UNCHANGED <<records, snapshots, handler, expiries>>
        BY <2>1 DEF Edit, vars
      <3> QED BY <3>1 DEF AllPaidFor, PaidFor, Kept, Unspent, Published, GaveBackCommitted
    <2>2. \A h \in Handlers : handler[h].key \in Keys
      BY DEF IInv, TypeOK, Calls
    <2> QED BY <2>1, <2>2, StepPays, CrashPays, ExpiryPays DEF Next
  <1>3. IInv /\ AllPaidFor => OncePerReservation
    <2> SUFFICES ASSUME IInv, AllPaidFor, NEW k \in Keys
                 PROVE  Cardinality(Published(k)) <=
                          1 + expiries[k] + Cardinality({h \in Published(k) : GaveBackCommitted(h)})
      BY DEF OncePerReservation
    <2> DEFINE Disowned == {h \in Published(k) : GaveBackCommitted(h)}
    <2>1. PaidFor(k) /\ expiries[k] \in Nat
      BY DEF AllPaidFor, IInv, TypeOK
    <2>2. /\ IsFiniteSet(Published(k)) /\ Disowned \in SUBSET Published(k)
          /\ Cardinality(Kept(k)) <= expiries[k] + 1
      BY <2>1 DEF PaidFor
    <2>3. IsFiniteSet(Disowned) /\ Cardinality(Disowned) \in Nat
      BY <2>2, FS_Subset, FS_CardinalityType
    <2>4. IsFiniteSet(Kept(k)) /\ Cardinality(Kept(k)) \in Nat
      BY <2>2, KeptIsFinite
    <2>5. Published(k) = Kept(k) \cup Disowned /\ Kept(k) \cap Disowned = {}
      BY DEF Kept
    <2> HIDE DEF Disowned
    <2>6. Cardinality(Published(k)) = Cardinality(Kept(k)) + Cardinality(Disowned)
      <3>1. Cardinality({}) = 0
        BY FS_EmptySet
      <3>2. Cardinality(Kept(k) \cup Disowned) =
              Cardinality(Kept(k)) + Cardinality(Disowned) - Cardinality(Kept(k) \cap Disowned)
        BY <2>3, <2>4, FS_Union
      <3>3. Cardinality(Kept(k) \cap Disowned) = 0 /\
            Cardinality(Kept(k) \cup Disowned) = Cardinality(Published(k))
        BY <2>5, <3>1
      <3> QED BY <2>3, <2>4, <3>2, <3>3
    <2>7. Cardinality(Published(k)) <= 1 + expiries[k] + Cardinality(Disowned)
      BY <2>1, <2>2, <2>3, <2>4, <2>6
    <2> QED BY <2>7 DEF Disowned
  <1> QED BY <1>1, <1>2, <1>3, InitHolds, NextHolds, PTL DEF Spec
=============================================================================
