-------------------------- MODULE MaintenanceProofs --------------------------
(***************************************************************************)
(* Safety of Update for any administrators, versions and crashes: a program*)
(* is always left on disk, and no restart brings an older one.  Both need  *)
(* to know what a call of Apply may rely on at each stage, and that        *)
(* applyMu lets one call at a time get there.                              *)
(*                                                                         *)
(* Safety of Restore for any backups and any number of mishaps: what serves*)
(* is whole without faults, no file is lost without a kill or a failing way*)
(* back, a database is opened with its own log, kills alone begin no empty *)
(* instance, and what waits for a start is of one archive.  Each property  *)
(* has an invariant of its own, that says for every phase of a start where *)
(* each component is: already swapped, at hand, or untouched.              *)
(***************************************************************************)
EXTENDS Update, Restore, TLAPS

-----------------------------------------------------------------------------
(* Update *)

\* applyMu: one call at a time is past TryLock.
OneApplies ==
  \A a, b \in Appliers :
    applier[a].at \in Holding /\ applier[b].at \in Holding => a = b

\* No call outlives its process.
DownMeansIdle == ~up => \A a \in Appliers : applier[a].at = "idle"

\* A call that got past the checks wants a version newer than the running one.
WantsNewer == \A a \in Appliers : applier[a].at \in Holding => applier[a].wanted > running

\* The files a call counts on between two of its operations.
NeedsExecutable == {"downloaded", "saved", "applying", "cleared", "installed"}
NeedsRollback == {"moved", "installed", "unsynced"}

FilesInPlace ==
  \A a \in Appliers :
    /\ applier[a].at \in NeedsExecutable => exe # Missing
    /\ applier[a].at \in NeedsRollback => rollback[running] # Missing

\* No file is older than the process that left it.
NothingOlder ==
  /\ exe # Missing => exe >= running
  /\ \A v \in Versions : rollback[v] # Missing => rollback[v] >= v

IInv ==
  /\ TypeOK
  /\ OneApplies
  /\ DownMeansIdle
  /\ WantsNewer
  /\ FilesInPlace
  /\ NothingOlder
  /\ SomeBinarySurvives

-----------------------------------------------------------------------------

LEMMA NewCallType ==
  ASSUME NEW stage \in Stages, NEW v \in 0 .. MaxVersion
  PROVE  Call(stage, v) \in Calls /\ Call(stage, v).at = stage
  BY DEF Call, Calls

LEMMA CalledType ==
  ASSUME NEW v \in 0 .. MaxVersion
  PROVE  Call("called", v) \in Calls /\ Call("called", v).at = "called"
  BY DEF Call, Calls, Stages

LEMMA NoCallType == NoCall \in Calls
  BY BoundAssumption DEF NoCall, Call, Calls, Stages

\* The program starts with the invariant.
LEMMA InitInvariant == Init => IInv
<1> SUFFICES ASSUME Init PROVE IInv
  OBVIOUS
<1>1. TypeOK
  <2>1. applier \in [Appliers -> Calls]
    BY NoCallType DEF Init
  <2>2. 1 \in Versions /\ crashes \in 0 .. MaxCrashes /\ checks \in 0 .. MaxChecks
    BY BoundAssumption DEF Init, Versions
  <2>3. rollback \in [Versions -> 0 .. MaxVersion]
    BY BoundAssumption DEF Init, Missing
  <2>4. exe \in 0 .. MaxVersion /\ latest \in 0 .. MaxVersion
    BY BoundAssumption DEF Init
  <2>5. status \in Statuses /\ up \in BOOLEAN /\ stopping \in BOOLEAN
    BY Zenon DEF Init, Statuses
  <2> QED
    BY <2>1, <2>2, <2>3, <2>4, <2>5 DEF Init, TypeOK
<1>2. \A a \in Appliers : applier[a].at = "idle"
  BY DEF Init, NoCall, Call
<1>3. OneApplies /\ DownMeansIdle /\ WantsNewer /\ FilesInPlace
  BY <1>2 DEF OneApplies, DownMeansIdle, WantsNewer, FilesInPlace, Holding,
              NeedsExecutable, NeedsRollback
<1>4. NothingOlder /\ SomeBinarySurvives
  BY BoundAssumption DEF Init, NothingOlder, SomeBinarySurvives, Versions, Missing
<1> QED
  BY <1>1, <1>3, <1>4 DEF IInv

\* What TypeOK says of one call.
LEMMA CallType ==
  ASSUME TypeOK, NEW a \in Appliers
  PROVE  /\ applier[a] \in Calls
         /\ applier[a].at \in Stages
         /\ applier[a].wanted \in 0 .. MaxVersion
  BY DEF TypeOK, Calls

\* A step of a call to another stage, with the files it needs there, keeps
\* what is said of the calls.
LEMMA StageStep ==
  ASSUME IInv, TypeOK', up, up', running' = running,
         NEW a \in Appliers,
         \A b \in Appliers \ {a} : applier'[b] = applier[b],
         applier[a].at \in Holding \/ applier'[a].at \notin Holding,
         applier'[a].at \in Holding => applier'[a].wanted = applier[a].wanted,
         applier[a].at \in Holding \/ UNCHANGED disk,
         applier'[a].at \in NeedsExecutable => exe' # Missing,
         applier'[a].at \in NeedsRollback => rollback'[running] # Missing
  PROVE  OneApplies' /\ DownMeansIdle' /\ WantsNewer' /\ FilesInPlace'
<1>1. OneApplies'
  BY DEF IInv, OneApplies
<1>2. DownMeansIdle'
  BY DEF DownMeansIdle
<1>3. WantsNewer'
  BY DEF IInv, WantsNewer
<1>4. FilesInPlace'
  <2>1. ASSUME NEW b \in Appliers \ {a}, applier[a].at \in Holding
        PROVE  applier[b].at \notin NeedsExecutable \cup NeedsRollback
    BY <2>1 DEF IInv, OneApplies, NeedsExecutable, NeedsRollback, Holding
  <2> QED
    BY <2>1 DEF IInv, FilesInPlace, disk
<1> QED
  BY <1>1, <1>2, <1>3, <1>4

\* How a call moves from stage to stage.
LEMMA GotoEffect ==
  ASSUME TypeOK, NEW a \in Appliers, NEW stage \in Stages, Goto(a, stage)
  PROVE  /\ applier' \in [Appliers -> Calls]
         /\ applier'[a].at = stage
         /\ applier'[a].wanted = applier[a].wanted
         /\ \A b \in Appliers \ {a} : applier'[b] = applier[b]
  BY CallType DEF TypeOK, Goto, Calls

LEMMA EndEffect ==
  ASSUME TypeOK, NEW a \in Appliers, NEW outcome \in Stages, End(a, outcome)
  PROVE  /\ applier' \in [Appliers -> Calls]
         /\ applier'[a].at = outcome
         /\ \A b \in Appliers \ {a} : applier'[b] = applier[b]
<1> DEFINE call == Call(outcome, 0)
<1>1. 0 \in 0 .. MaxVersion
  BY BoundAssumption
<1>2. call \in Calls
  BY <1>1, NewCallType
<1>3. applier' = [applier EXCEPT ![a] = call] /\ call.at = outcome
  BY <1>1, NewCallType DEF End
<1> HIDE DEF call
<1> QED
  BY <1>2, <1>3 DEF TypeOK

\* What all operations of a call leave alone.
ApplyFrame ==
  /\ up /\ UNCHANGED <<latest, checks, up, running, crashes>>
  /\ stopping' \in BOOLEAN

\* An operation that only moves the call on, or ends it.
LEMMA MoveOn ==
  ASSUME IInv, ApplyFrame, NEW a \in Appliers, UNCHANGED disk, status' \in Statuses,
         NEW to \in Stages, NEW outcome \in Stages \ Holding,
         \/ Goto(a, to)
         \/ End(a, outcome),
         Goto(a, to) => \/ applier[a].at \in Holding
                        \/ to \notin Holding,
         Goto(a, to) /\ to \in NeedsExecutable => exe # Missing,
         Goto(a, to) /\ to \in NeedsRollback => rollback[running] # Missing
  PROVE  IInv'
<1> USE DEF IInv
<1>1. TypeOK'
  BY GotoEffect, EndEffect DEF TypeOK, ApplyFrame, disk
<1>2. NothingOlder' /\ SomeBinarySurvives'
  BY DEF NothingOlder, SomeBinarySurvives, ApplyFrame, disk
<1>3. CASE Goto(a, to)
  BY <1>1, <1>2, <1>3, GotoEffect, StageStep DEF ApplyFrame, disk
<1>4. CASE End(a, outcome)
  <2>1. applier'[a].at \notin Holding \cup NeedsExecutable \cup NeedsRollback
    BY <1>4, EndEffect DEF Holding, NeedsExecutable, NeedsRollback
  <2> QED
    BY <1>1, <1>2, <1>4, <2>1, EndEffect, StageStep DEF ApplyFrame, disk
<1> QED
  BY <1>3, <1>4

\* An operation on the files, by a call that holds applyMu.
LEMMA ChangeFiles ==
  ASSUME IInv, ApplyFrame, NEW a \in Appliers, applier[a].at \in Holding,
         status' \in Statuses,
         applier' \in [Appliers -> Calls],
         \A b \in Appliers \ {a} : applier'[b] = applier[b],
         applier'[a].at \in Holding => applier'[a].wanted = applier[a].wanted,
         exe' \in 0 .. MaxVersion,
         rollback' \in [Versions -> 0 .. MaxVersion],
         \A v \in Versions \ {running} : rollback'[v] = rollback[v],
         exe' # Missing => exe' >= running,
         rollback'[running] # Missing => rollback'[running] >= running,
         exe' # Missing \/ rollback'[running] # Missing,
         applier'[a].at \in NeedsExecutable => exe' # Missing,
         applier'[a].at \in NeedsRollback => rollback'[running] # Missing
  PROVE  IInv'
<1> USE DEF IInv
<1>1. TypeOK'
  BY DEF TypeOK, ApplyFrame
<1>2. NothingOlder' /\ SomeBinarySurvives'
  BY DEF NothingOlder, SomeBinarySurvives, ApplyFrame
<1>3. OneApplies' /\ DownMeansIdle' /\ WantsNewer' /\ FilesInPlace'
  BY <1>1, StageStep DEF ApplyFrame
<1> QED
  BY <1>1, <1>2, <1>3

\* A failed call ends, with a status the column allows.
LEMMA FailEffect ==
  ASSUME TypeOK, NEW a \in Appliers, Fail(a)
  PROVE  End(a, "error") /\ status' \in Statuses
  BY DEF Fail, FailureStatus, Statuses, TypeOK

\* Every operation of Apply keeps the invariant.
LEMMA ApplyStep ==
  ASSUME IInv, NEW a \in Appliers, Apply(a)
  PROVE  IInv' /\ running' = running
<1> USE DEF IInv, At
<1>0. /\ running \in Versions /\ running \in Int
      /\ status \in Statuses /\ "error" \in Stages \ Holding
  BY BoundAssumption DEF TypeOK, Versions, Stages, Holding
<1>1. CASE Enter(a)
  <2>1. ApplyFrame /\ UNCHANGED <<disk, status>>
    BY <1>1 DEF Enter, ApplyFrame, state, process, TypeOK
  <2>2. CASE End(a, "error")
    BY <2>1, <2>2, <1>0, MoveOn DEF ApplyFrame, Holding, NeedsExecutable, NeedsRollback
  <2>3. CASE /\ \A b \in Appliers : applier[b].at \notin Holding
             /\ Applicable(applier[a].wanted) /\ Goto(a, "verified")
    <3>1. /\ applier' \in [Appliers -> Calls] /\ applier'[a].at = "verified"
          /\ applier'[a].wanted > running
          /\ \A b \in Appliers \ {a} : applier'[b] = applier[b]
      BY <2>3, GotoEffect DEF Stages, Holding, Applicable
    <3>2. TypeOK' /\ NothingOlder' /\ SomeBinarySurvives'
      BY <2>1, <3>1 DEF ApplyFrame, TypeOK, NothingOlder, SomeBinarySurvives, disk
    <3>3. OneApplies' /\ DownMeansIdle'
      BY <2>1, <2>3, <3>1 DEF OneApplies, DownMeansIdle, ApplyFrame
    <3>4. WantsNewer' /\ FilesInPlace'
      BY <2>1, <2>3, <3>1 DEF WantsNewer, FilesInPlace, ApplyFrame, disk, Holding,
                              NeedsExecutable, NeedsRollback
    <3> QED
      BY <2>1, <3>2, <3>3, <3>4 DEF ApplyFrame
  <2> QED
    BY <1>1, <2>2, <2>3 DEF Enter
<1>2. CASE MarkDownloading(a)
  <2>1. ApplyFrame /\ UNCHANGED disk /\ status' \in Statuses
    BY <1>0, <1>2 DEF MarkDownloading, Mark, ApplyFrame, process, TypeOK, Statuses
  <2>2. applier[a].at = "verified" /\ (Goto(a, "downloading") \/ End(a, "error"))
    BY <1>2 DEF MarkDownloading, Mark
  <2> QED
    BY <2>1, <2>2, <1>0, MoveOn
    DEF ApplyFrame, Stages, Holding, FilesInPlace, NeedsExecutable, NeedsRollback
<1>3. CASE MarkApplying(a)
  <2>1. ApplyFrame /\ UNCHANGED disk /\ status' \in Statuses
    BY <1>0, <1>3 DEF MarkApplying, Mark, ApplyFrame, process, TypeOK, Statuses
  <2>2. applier[a].at = "saved" /\ (Goto(a, "applying") \/ End(a, "error"))
    BY <1>3 DEF MarkApplying, Mark
  <2> QED
    BY <2>1, <2>2, <1>0, MoveOn
    DEF ApplyFrame, Stages, Holding, FilesInPlace, NeedsExecutable, NeedsRollback
<1>4. CASE MarkRestart(a)
  <2>1. ApplyFrame /\ UNCHANGED disk /\ status' \in Statuses
    BY <1>0, <1>4 DEF MarkRestart, Mark, ApplyFrame, process, TypeOK, Statuses
  <2>2. applier[a].at = "synced" /\ (Goto(a, "marked") \/ End(a, "error"))
    BY <1>4 DEF MarkRestart, Mark
  <2> QED
    BY <2>1, <2>2, <1>0, MoveOn
    DEF ApplyFrame, Stages, Holding, FilesInPlace, NeedsExecutable, NeedsRollback
<1>5. CASE Download(a)
  <2>1. ApplyFrame /\ UNCHANGED disk /\ status' \in Statuses
    BY <1>0, <1>5, FailEffect DEF Download, Prepare, ApplyFrame, process, TypeOK
  <2>2. applier[a].at = "downloading" /\ ((exe # Missing /\ Goto(a, "downloaded")) \/ End(a, "error"))
    BY <1>5, FailEffect DEF Download, Prepare
  <2> QED
    BY <2>1, <2>2, <1>0, MoveOn
    DEF ApplyFrame, Stages, Holding, NeedsExecutable, NeedsRollback
<1>6. CASE Backup(a)
  <2>1. ApplyFrame /\ UNCHANGED disk /\ status' \in Statuses
    BY <1>0, <1>6, FailEffect DEF Backup, Prepare, ApplyFrame, process, TypeOK
  <2>2. applier[a].at = "downloaded" /\ ((exe # Missing /\ Goto(a, "saved")) \/ End(a, "error"))
    BY <1>6, FailEffect DEF Backup, Prepare
  <2> QED
    BY <2>1, <2>2, <1>0, MoveOn
    DEF ApplyFrame, Stages, Holding, NeedsExecutable, NeedsRollback
<1>7. CASE ClearRollback(a)
  <2>1. ApplyFrame /\ status' \in Statuses /\ applier[a].at = "applying" /\ exe # Missing
    BY <1>0, <1>7 DEF ClearRollback, ApplyFrame, state, process, TypeOK, FilesInPlace,
                    NeedsExecutable
  <2>2. /\ applier' \in [Appliers -> Calls] /\ applier'[a].at = "cleared"
        /\ applier'[a].wanted = applier[a].wanted
        /\ \A b \in Appliers \ {a} : applier'[b] = applier[b]
    BY <1>7, GotoEffect DEF ClearRollback, Stages, Holding
  <2>3. /\ exe' = exe /\ rollback' \in [Versions -> 0 .. MaxVersion]
        /\ rollback'[running] = Missing
        /\ \A v \in Versions \ {running} : rollback'[v] = rollback[v]
    BY <1>0, <1>7, BoundAssumption DEF ClearRollback, TypeOK, Missing
  <2> QED
    BY <2>1, <2>2, <2>3, ChangeFiles
    DEF ApplyFrame, TypeOK, NothingOlder, Holding, NeedsExecutable, NeedsRollback
<1>8. CASE MoveAway(a)
  <2>1. ApplyFrame /\ status' \in Statuses /\ applier[a].at = "cleared" /\ exe # Missing
    BY <1>0, <1>8, FailEffect DEF MoveAway, ApplyFrame, state, process, TypeOK,
                              FilesInPlace, NeedsExecutable
  <2>2. CASE End(a, "error") /\ UNCHANGED disk
    BY <2>1, <2>2, <1>0, MoveOn DEF ApplyFrame, Holding, NeedsExecutable, NeedsRollback
  <2>3. CASE /\ rollback' = [rollback EXCEPT ![running] = exe]
             /\ exe' = Missing
             /\ Goto(a, "moved")
    <3>1. /\ applier' \in [Appliers -> Calls] /\ applier'[a].at = "moved"
          /\ applier'[a].wanted = applier[a].wanted
          /\ \A b \in Appliers \ {a} : applier'[b] = applier[b]
      BY <2>3, GotoEffect DEF Stages, Holding
    <3>2. /\ exe' = Missing /\ rollback' \in [Versions -> 0 .. MaxVersion]
          /\ rollback'[running] = exe
          /\ \A v \in Versions \ {running} : rollback'[v] = rollback[v]
      BY <1>0, <2>3 DEF TypeOK
    <3>3. Missing \in 0 .. MaxVersion
      BY BoundAssumption DEF Missing
    <3> QED
      BY <2>1, <3>1, <3>2, <3>3, ChangeFiles
      DEF ApplyFrame, TypeOK, NothingOlder, Holding, NeedsExecutable, NeedsRollback
  <2> QED
    BY <1>8, <2>2, <2>3, FailEffect DEF MoveAway
<1>9. ASSUME PutBack, Fail(a), ApplyFrame, applier[a].at \in {"moved", "unsynced"}
      PROVE  IInv'
  <2>1. rollback[running] # Missing /\ rollback[running] >= running
        /\ rollback[running] \in 0 .. MaxVersion /\ Missing \in 0 .. MaxVersion
    BY <1>0, <1>9, BoundAssumption DEF FilesInPlace, NothingOlder, NeedsRollback, TypeOK, Missing
  <2>2. /\ applier' \in [Appliers -> Calls] /\ applier'[a].at = "error"
        /\ \A b \in Appliers \ {a} : applier'[b] = applier[b]
    BY <1>0, <1>9, FailEffect, EndEffect
  <2>3. CASE UNCHANGED disk
    BY <1>0, <1>9, <2>3, FailEffect, MoveOn DEF Holding, NeedsExecutable, NeedsRollback
  <2>4. CASE /\ exe' = rollback[running]
             /\ rollback' = [rollback EXCEPT ![running] = Missing]
    <3>1. /\ rollback' \in [Versions -> 0 .. MaxVersion]
          /\ rollback'[running] = Missing
          /\ \A v \in Versions \ {running} : rollback'[v] = rollback[v]
      BY <1>0, <2>1, <2>4 DEF TypeOK
    <3> QED
      BY <1>0, <1>9, <2>1, <2>2, <2>4, <3>1, FailEffect, ChangeFiles
      DEF Holding, NeedsExecutable, NeedsRollback
  <2> QED
    BY <1>9, <2>3, <2>4 DEF PutBack
<1>10. CASE Install(a)
  <2>1. ApplyFrame /\ applier[a].at = "moved"
    BY <1>10, <1>0 DEF Install, ApplyFrame, process, TypeOK
  <2>2. CASE exe' = applier[a].wanted /\ Goto(a, "installed") /\ UNCHANGED <<rollback, status>>
    <3>1. /\ applier' \in [Appliers -> Calls] /\ applier'[a].at = "installed"
          /\ applier'[a].wanted = applier[a].wanted
          /\ \A b \in Appliers \ {a} : applier'[b] = applier[b]
      BY <2>2, GotoEffect DEF Stages, Holding
    <3>2. /\ applier[a].wanted > running /\ applier[a].wanted \in 0 .. MaxVersion
          /\ rollback[running] # Missing
      BY <2>1, CallType DEF WantsNewer, FilesInPlace, Holding, NeedsRollback
    <3>3. exe' >= running /\ exe' # Missing /\ exe' \in 0 .. MaxVersion
      BY <1>0, <2>2, <3>2, BoundAssumption DEF Versions, Missing
    <3>4. rollback'[running] >= running
      BY <1>0, <2>2, <3>2 DEF NothingOlder
    <3> QED
      BY <1>0, <2>1, <2>2, <3>1, <3>2, <3>3, <3>4, ChangeFiles
      DEF ApplyFrame, TypeOK, Holding, NeedsExecutable, NeedsRollback
  <2> QED
    BY <1>9, <1>10, <2>1, <2>2 DEF Install, ApplyFrame
<1>11. CASE SyncDirectory(a)
  <2>1. ApplyFrame /\ applier[a].at = "installed" /\ UNCHANGED <<status, rollback>>
    BY <1>11, <1>0 DEF SyncDirectory, ApplyFrame, state, process, TypeOK
  <2>2. CASE Goto(a, "synced") /\ UNCHANGED exe
    BY <1>0, <2>1, <2>2, MoveOn
    DEF ApplyFrame, disk, Stages, Holding, NeedsExecutable, NeedsRollback
  <2>3. CASE exe' = Missing /\ Goto(a, "unsynced")
    <3>1. /\ applier' \in [Appliers -> Calls] /\ applier'[a].at = "unsynced"
          /\ applier'[a].wanted = applier[a].wanted
          /\ \A b \in Appliers \ {a} : applier'[b] = applier[b]
      BY <2>3, GotoEffect DEF Stages, Holding
    <3>2. rollback[running] # Missing /\ Missing \in 0 .. MaxVersion
      BY <2>1, BoundAssumption DEF FilesInPlace, NeedsRollback, Missing
    <3> QED
      BY <1>0, <2>1, <2>3, <3>1, <3>2, ChangeFiles
      DEF ApplyFrame, TypeOK, NothingOlder, Holding, NeedsExecutable, NeedsRollback
  <2> QED
    BY <1>11, <2>2, <2>3 DEF SyncDirectory
<1>12. CASE Revert(a)
  BY <1>0, <1>9, <1>12 DEF Revert, ApplyFrame, process, TypeOK
<1>13. CASE ReadState(a)
  <2>1. ApplyFrame /\ applier[a].at = "marked" /\ UNCHANGED <<status, disk>>
    BY <1>13, <1>0 DEF ReadState, ApplyFrame, state, process, TypeOK
  <2>2. CASE End(a, "error")
    BY <2>1, <2>2, <1>0, MoveOn DEF ApplyFrame, Holding, NeedsExecutable, NeedsRollback
  <2>3. CASE applier' = [applier EXCEPT ![a].at = "accepted",
                                        ![a].restart = (status = "restart-required")]
    <3>1. /\ applier' \in [Appliers -> Calls] /\ applier'[a].at = "accepted"
          /\ \A b \in Appliers \ {a} : applier'[b] = applier[b]
      <4> DEFINE call == [applier[a] EXCEPT !.at = "accepted",
                                            !.restart = (status = "restart-required")]
      <4>1. (status = "restart-required") \in BOOLEAN
        OBVIOUS
      <4>2. call \in Calls /\ call.at = "accepted"
        BY <4>1, CallType DEF Calls, Stages
      <4>3. applier' = [applier EXCEPT ![a] = call]
        BY <2>3
      <4> HIDE DEF call
      <4> QED
        BY <4>2, <4>3 DEF TypeOK
    <3>2. TypeOK' /\ NothingOlder' /\ SomeBinarySurvives'
      BY <2>1, <3>1 DEF ApplyFrame, TypeOK, NothingOlder, SomeBinarySurvives, disk
    <3> QED
      BY <2>1, <3>1, <3>2, StageStep DEF ApplyFrame, Holding, NeedsExecutable, NeedsRollback
  <2> QED
    BY <1>13, <2>2, <2>3 DEF ReadState
<1>14. CASE RequestRestart(a)
  <2>1. ApplyFrame /\ UNCHANGED <<disk, status>> /\ End(a, "done")
    BY <1>14, CallType DEF RequestRestart, ApplyFrame, state, disk, TypeOK, Calls
  <2> QED
    BY <2>1, <1>0, MoveOn DEF ApplyFrame, Stages, Holding, NeedsExecutable, NeedsRollback
<1>15. running' = running
  BY DEF Apply, Enter, MarkDownloading, MarkApplying, MarkRestart, Mark, Download, Backup,
         Prepare, ClearRollback, MoveAway, Install, SyncDirectory, Revert, ReadState,
         RequestRestart, process
<1> QED
  BY <1>1, <1>2, <1>3, <1>4, <1>5, <1>6, <1>7, <1>8, <1>10, <1>11, <1>12, <1>13, <1>14,
     <1>15 DEF Apply

\* Every other step does, too.
LEMMA OtherStep ==
  ASSUME IInv,
         \/ CheckBegin \/ CheckEnd \/ Tick
         \/ \E a \in Admins, v \in Versions : Request(a, v)
         \/ \E a \in Admins : Disconnect(a)
         \/ Shutdown \/ Crash \/ Start \/ UNCHANGED vars
  PROVE  IInv' /\ running' >= running
<1> USE DEF IInv
<1>0. running \in Int /\ running \in Versions
  BY BoundAssumption DEF TypeOK, Versions
<1>1. ASSUME UNCHANGED <<up, running, disk, applier>>, TypeOK'
      PROVE  IInv' /\ running' >= running
  BY <1>0, <1>1 DEF OneApplies, DownMeansIdle, WantsNewer, FilesInPlace, NothingOlder,
                    SomeBinarySurvives, disk
<1>2. CASE CheckBegin
  BY <1>1, <1>2, BoundAssumption DEF CheckBegin, TypeOK, Statuses, process, disk
<1>3. CASE CheckEnd
  <2>1. checks - 1 \in 0 .. MaxChecks /\ latest' \in 0 .. MaxVersion
    BY <1>3, BoundAssumption DEF CheckEnd, TypeOK, Versions, state
  <2>2. status' \in Statuses
    BY <1>3 DEF CheckEnd, TypeOK, Statuses, FailureStatus, state
  <2> QED
    BY <1>1, <1>3, <2>1, <2>2 DEF CheckEnd, TypeOK, Statuses, FailureStatus, process, disk, state
<1>5. CASE UNCHANGED vars
  BY <1>1, <1>5 DEF vars, TypeOK, disk
<1>6. ASSUME NEW a \in Appliers, NEW call \in Calls,
             call.at \notin Holding, applier[a].at \notin Holding,
             applier' = [applier EXCEPT ![a] = call],
             UNCHANGED <<state, checks, process, disk>>, up
      PROVE  IInv' /\ running' >= running
  <2>1. TypeOK'
    BY <1>6 DEF TypeOK, state, process, disk
  <2>2. applier'[a] = call /\ \A b \in Appliers \ {a} : applier'[b] = applier[b]
    BY <1>6 DEF TypeOK
  <2>3. NothingOlder' /\ SomeBinarySurvives'
    BY <1>6 DEF NothingOlder, SomeBinarySurvives, process, disk
  <2>4. call.at \notin NeedsExecutable \cup NeedsRollback
    BY <1>6 DEF NeedsExecutable, NeedsRollback, Holding
  <2> QED
    BY <1>0, <1>6, <2>1, <2>2, <2>3, <2>4, StageStep DEF process
<1>7. CASE Tick
  <2> DEFINE call == Call("called", latest)
  <2>2. call \in Calls /\ call.at \notin Holding
    BY CalledType DEF TypeOK, Holding
  <2>3. applier' = [applier EXCEPT ![Supervisor] = call] /\ Supervisor \in Appliers
    BY <1>7 DEF Tick, Appliers
  <2>4. up /\ applier[Supervisor].at \notin Holding
    BY <1>7 DEF Tick, Resting, Holding
  <2> HIDE DEF call
  <2> QED
    BY <1>6, <1>7, <2>2, <2>3, <2>4 DEF Tick
<1>8. ASSUME NEW a \in Admins, NEW v \in Versions, Request(a, v)
      PROVE  IInv' /\ running' >= running
  <2> DEFINE call == Call("called", v)
  <2>2. call \in Calls /\ call.at \notin Holding
    <3>1. v \in 0 .. MaxVersion
      BY BoundAssumption DEF Versions
    <3> QED
      BY <3>1, CalledType DEF Holding
  <2>3. applier' = [applier EXCEPT ![a] = call] /\ a \in Appliers
    BY <1>8 DEF Request, Appliers
  <2>4. up /\ applier[a].at \notin Holding
    BY <1>8 DEF Request, Resting, Holding
  <2> HIDE DEF call
  <2> QED
    BY <1>6, <1>8, <2>2, <2>3, <2>4 DEF Request
<1>9. ASSUME NEW a \in Appliers, Disconnect(a)
      PROVE  IInv' /\ running' >= running
  <2>1. /\ applier' \in [Appliers -> Calls] /\ up
        /\ applier'[a].at = applier[a].at /\ applier'[a].wanted = applier[a].wanted
        /\ \A b \in Appliers \ {a} : applier'[b] = applier[b]
    BY <1>9, CallType DEF Disconnect, TypeOK, Calls
  <2>2. TypeOK' /\ UNCHANGED <<up, running, disk>>
    BY <1>9, <2>1 DEF Disconnect, TypeOK, state, process, disk
  <2>3. NothingOlder' /\ SomeBinarySurvives'
    BY <2>2 DEF NothingOlder, SomeBinarySurvives, disk
  <2>4. /\ applier[a].at \in NeedsExecutable => exe' # Missing
        /\ applier[a].at \in NeedsRollback => rollback'[running] # Missing
    BY <2>2 DEF FilesInPlace, disk
  <2> QED
    BY <1>0, <2>1, <2>2, <2>3, <2>4, StageStep
<1>10. ASSUME Exit, crashes' \in 0 .. MaxCrashes
       PROVE  IInv' /\ running' >= running
  <2>1. \A a \in Appliers : applier'[a].at = "idle"
    BY <1>10 DEF Exit, NoCall, Call
  <2>2. TypeOK'
    <3>1. applier' \in [Appliers -> Calls]
      BY <1>10, NoCallType DEF Exit
    <3>2. checks' \in 0 .. MaxChecks /\ up' \in BOOLEAN /\ stopping' \in BOOLEAN
      <4>1. checks' = 0 /\ 0 \in 0 .. MaxChecks
        BY <1>10, BoundAssumption DEF Exit
      <4>2. up' = FALSE /\ stopping' = FALSE
        BY <1>10 DEF Exit
      <4> QED
        BY <4>1, <4>2
    <3> QED
      BY <1>10, <3>1, <3>2 DEF Exit, TypeOK, state, disk
  <2>3. OneApplies' /\ DownMeansIdle' /\ WantsNewer' /\ FilesInPlace'
    BY <2>1 DEF OneApplies, DownMeansIdle, WantsNewer, FilesInPlace, Holding,
                NeedsExecutable, NeedsRollback
  <2>4. NothingOlder' /\ SomeBinarySurvives' /\ running' = running
    BY <1>10 DEF NothingOlder, SomeBinarySurvives, Exit, disk
  <2> QED
    BY <1>0, <2>2, <2>3, <2>4
<1>11. CASE Shutdown
  BY <1>10, <1>11 DEF Shutdown, TypeOK
<1>12. CASE Crash
  <2>1. crashes' \in 0 .. MaxCrashes
    BY <1>12, BoundAssumption DEF Crash, TypeOK
  <2> QED
    BY <1>10, <1>12, <2>1 DEF Crash
<1>13. CASE Start
  <2>1. exe \in Versions /\ exe >= running
    BY <1>13, BoundAssumption DEF Start, TypeOK, NothingOlder, Versions, Missing
  <2>2. \A a \in Appliers : applier'[a].at = "idle"
    BY <1>13 DEF Start, DownMeansIdle
  <2>3. TypeOK'
    BY <1>13, <2>1 DEF Start, TypeOK, state, disk
  <2>4. OneApplies' /\ DownMeansIdle' /\ WantsNewer' /\ FilesInPlace'
    BY <2>2 DEF OneApplies, DownMeansIdle, WantsNewer, FilesInPlace, Holding,
                NeedsExecutable, NeedsRollback
  <2>5. NothingOlder' /\ SomeBinarySurvives' /\ running' >= running
    BY <1>13, <2>1 DEF Start, NothingOlder, SomeBinarySurvives, disk, Versions
  <2> QED
    BY <2>3, <2>4, <2>5
<1> QED
  BY <1>2, <1>3, <1>5, <1>7, <1>8, <1>9, <1>11, <1>12, <1>13 DEF Appliers

LEMMA Step == IInv /\ [Next]_vars => IInv' /\ running' >= running
<1> SUFFICES ASSUME IInv, [Next]_vars PROVE IInv' /\ running' >= running
  OBVIOUS
<1>1. ASSUME NEW a \in Appliers, Apply(a) PROVE IInv' /\ running' >= running
  <2>1. IInv' /\ running' = running
    BY <1>1, ApplyStep
  <2> QED
    BY <2>1 DEF IInv, TypeOK, Versions
<1> QED
  BY <1>1, OtherStep DEF Next

THEOREM Invariance == Spec => []IInv
  BY InitInvariant, Step, PTL DEF Spec

\* Every reachable state is well typed, for any administrators and bounds.
THEOREM TypeCorrect == Spec => []TypeOK
<1>1. IInv => TypeOK
  BY DEF IInv
<1> QED
  BY <1>1, Invariance, PTL

\* Whatever fails, wherever the process dies and however calls overlap, the
\* executable or the rollback copy of the running version is on disk.
THEOREM ProgramSurvives == Spec => []SomeBinarySurvives
<1>1. IInv => SomeBinarySurvives
  BY DEF IInv
<1> QED
  BY <1>1, Invariance, PTL

\* No step leaves an executable in place that is older than the process, and
\* no restart brings an older version than the one that ran before.
THEOREM NeverDowngrades == Spec => NoDowngrade
<1>1. IInv /\ [Next]_vars =>
        [running' >= running /\ (exe' = Missing \/ exe' >= running)]_vars
  <2> SUFFICES ASSUME IInv, [Next]_vars
               PROVE  running' >= running /\ (exe' = Missing \/ exe' >= running)
    OBVIOUS
  <2>1. IInv' /\ running' >= running
    BY Step
  <2>2. /\ running \in Int /\ running' \in Int /\ exe' \in Int
        /\ exe' # Missing => exe' >= running'
    BY <2>1, BoundAssumption DEF IInv, TypeOK, Versions, NothingOlder, Missing
  <2> QED
    BY <2>1, <2>2
<1> QED
  BY <1>1, Invariance, PTL DEF Spec, NoDowngrade

-----------------------------------------------------------------------------
(* Restore *)

\* Conditions of the properties, and phases of a start.
Secure == interruptions = 0 /\ "return" \notin discarded
Faultless == interruptions = 0 /\ faults = 0
Serving == phase \in {"up", "committing", "down"}
Looking == phase \in {"looking", "preserving", "unlogging", "installing"}
AtHand == Looking \/ phase = "putting back"
Swapping == Looking \/ phase \in {"syncing", "opening"}
Away == phase \in {"unlogging", "installing", "putting back"}

Swapped == Range(swap.done)

SwapType == [at : 1 .. 5, done : Seq(Components), kept : SUBSET Components]
StagerType == [backup : Backups \cup {None}, at : 0 .. 12, failed : BOOLEAN]

\* The swapped components are different ones before the one at hand.
SwapOK ==
  /\ swap \in SwapType
  /\ IsInjective(swap.done)
  /\ Len(swap.done) < swap.at
  /\ AtHand => swap.at <= 4
  /\ phase \in {"syncing", "opening"} => swap.at = 5
  /\ phase = "returning" => swap.done # <<>>
  /\ \A c \in Swapped : \E i \in 1 .. swap.at - 1 : i <= 4 /\ StartOrder[i] = c

\* What a start counts on of the component at hand and of those it has passed.
HandOK ==
  /\ phase \in {"preserving", "unlogging", "installing"} => pending[Current] # Absent
  /\ faults = 0 /\ phase = "preserving" => previous[Current] = Absent
  /\ Swapping => \A i \in 1 .. swap.at - 1 : pending[StartOrder[i]] = Absent

\* At step n of unpacking b the pending files are those before it, and an
\* unfinished directory of assets.
Unpacked(b, n, c) ==
  IF c \in Delivered(b) /\ \E i \in 6 .. n - 1 : ArchiveOrder[i - 5] = c THEN b
  ELSE IF c = "assets" THEN Incomplete ELSE Absent

\* Where a request is, and what is pending by then if all could be removed.
StagingOK ==
  IF stager.backup = None THEN stager = Idle
  ELSE /\ phase = "up" /\ stager.at >= 1
       /\ stager.failed => stager.at <= 4
       /\ stager.backup \in Databases => stager.failed \/ stager.at >= 10
       /\ stager.at \in 11 .. 12 => stager.backup \in Databases
       /\ stager.at = 10 /\ stager.backup \in Databases => pending["db"] = stager.backup
       /\ "clear" \notin discarded =>
            /\ stager.at \in 1 .. 5 => \A i \in 1 .. stager.at - 1 : pending[StartOrder[i]] = Absent
            /\ stager.at \in 6 .. 10 /\ stager.backup \notin Databases =>
                 \A c \in Components : pending[c] = Unpacked(stager.backup, stager.at, c)

PendingOrigins == \A c \in Components : pending[c] \in Backups \cup {Absent, Incomplete, Mixed}

\* RestoreTypeOK without the swap.
RestOK ==
  /\ live \in [Components -> Origins] /\ pending \in [Components -> Origins]
  /\ previous \in [Components -> Origins] /\ ran \in [Components -> Origins]
  /\ log \in Origins
  /\ phase \in Phases
  /\ stager \in StagerType
  /\ accepted \in Backups \cup {None}
  /\ discarded \subseteq Unnoticed
  /\ interruptions \in Nat /\ faults \in Nat /\ rejections \in Nat
  /\ interruptions + faults + rejections <= MaxMishaps

StagedInv ==
  RestOK /\ SwapOK /\ HandOK /\ StagingOK /\ PendingOrigins /\ PendingOfOneArchive

-----------------------------------------------------------------------------
(* No file is lost without a kill and a failing way back *)

\* Components whose old files are beside their place.
Moved(c) == c \in Swapped \/ (Away /\ c = Current)

HeldParts ==
  /\ \A c \in Components : ran[c] # Absent
  /\ Serving => live = ran
  /\ ~Serving => \A c \in Components :
       IF Moved(c) THEN c \in swap.kept /\ previous[c] = ran[c] ELSE live[c] = ran[c]

HeldInv == Secure => HeldParts

-----------------------------------------------------------------------------
(* A database is opened with its own log *)

LogParts ==
  /\ log \in {Absent, live["db"]} \/ (live["db"] = Absent /\ pending["db"] # Absent)
  /\ phase \in {"up", "committing"} => log = Absent
  /\ phase # "down" /\ "db" \in Swapped => log = Absent
  /\ phase \in {"installing", "putting back"} /\ Current = "db" => log = Absent

LogInv == "unlog" \notin discarded => LogParts

-----------------------------------------------------------------------------
(* Kills alone begin no empty instance *)

DatabaseParts ==
  /\ phase \notin {"putting back", "undoing", "returning"}
  /\ Fresh \notin {ran["db"], live["db"]}
  /\ IF phase = "down" \/ (Looking /\ swap.at = 1)
       THEN live["db"] # Absent \/ pending["db"] # Absent
       ELSE live["db"] # Absent

DatabaseInv == faults = 0 /\ rejections = 0 => DatabaseParts

-----------------------------------------------------------------------------
(* What serves is whole without faults *)

AllMissing == \A c \in Components : pending[c] = Absent

\* All of the accepted backup waits for the next start, or nothing does; only a
\* plain database waits with files of others.
Waiting ==
  \/ AllMissing
  \/ /\ accepted \in Backups
     /\ \A c \in Delivered(accepted) : pending[c] = accepted
     /\ accepted \notin Databases =>
          \A c \in Components \ Delivered(accepted) : pending[c] = Absent

\* All of the accepted backup is swapped or about to be, or nothing is.
Swap ==
  \/ AllMissing /\ swap.done = <<>>
  \/ /\ accepted \in Backups
     /\ \A c \in Delivered(accepted) :
          IF c \in Swapped THEN live[c] = accepted ELSE pending[c] = accepted
     /\ accepted \notin Databases =>
          \A c \in Components \ Delivered(accepted) : pending[c] = Absent

WholeParts ==
  /\ discarded = {}
  /\ \A c \in Contents(ran["db"]) : ran[c] = ran["db"]
  /\ phase = "down" \/ (phase = "up" /\ stager = Idle) => Waiting
  /\ Swapping => Swap
  /\ phase \in {"undoing", "returning", "committing"} => AllMissing
  /\ phase # "putting back"
  /\ phase = "returning" => live[Last(swap.done)] = Absent

WholeInv == Faultless => WholeParts

(* Sequences without repetition *)

LEMMA Orders ==
  /\ StartOrder[1] = "db" /\ StartOrder[2] = "assets"
  /\ StartOrder[3] = "master" /\ StartOrder[4] = "analytics"
  /\ ArchiveOrder[1] = "db" /\ ArchiveOrder[2] = "master"
  /\ ArchiveOrder[3] = "analytics" /\ ArchiveOrder[4] = "assets"
  BY DEF StartOrder, ArchiveOrder

LEMMA StartOrderFacts ==
  /\ \A i \in 1 .. 4 : StartOrder[i] \in Components
  /\ \A i, j \in 1 .. 4 : StartOrder[i] = StartOrder[j] => i = j
  /\ \A c \in Components : \E i \in 1 .. 4 : StartOrder[i] = c
  <1>1. \A i \in 1 .. 4 : i = 1 \/ i = 2 \/ i = 3 \/ i = 4
    OBVIOUS
  <1>2. 1 \in 1 .. 4 /\ 2 \in 1 .. 4 /\ 3 \in 1 .. 4 /\ 4 \in 1 .. 4
    OBVIOUS
  <1>3. \A i \in 1 .. 4 : StartOrder[i] \in Components
    BY <1>1, Orders DEF Components
  <1>4. \A i, j \in 1 .. 4 : StartOrder[i] = StartOrder[j] => i = j
    BY <1>1, Orders
  <1>5. \A c \in Components : \E i \in 1 .. 4 : StartOrder[i] = c
    BY <1>2, Orders DEF Components
  <1> QED BY <1>3, <1>4, <1>5

LEMMA AppendFacts ==
  ASSUME NEW s \in Seq(Components), IsInjective(s), NEW c \in Components, c \notin Range(s)
  PROVE  /\ Append(s, c) \in Seq(Components) /\ IsInjective(Append(s, c))
         /\ Len(Append(s, c)) = Len(s) + 1
         /\ Range(Append(s, c)) = Range(s) \cup {c}
  <1> DEFINE t == Append(s, c)
  <1>1. /\ t \in Seq(Components) /\ Len(t) = Len(s) + 1 /\ Len(s) \in Nat
        /\ DOMAIN s = 1 .. Len(s) /\ DOMAIN t = 1 .. (Len(s) + 1)
        /\ \A i \in 1 .. Len(s) : t[i] = s[i]
        /\ t[Len(s) + 1] = c
    OBVIOUS
  <1> HIDE DEF t
  <1>2. \A i \in DOMAIN t : i \in DOMAIN s \/ i = Len(s) + 1
    BY <1>1
  <1>3. \A i \in DOMAIN s : i \in DOMAIN t /\ t[i] = s[i] /\ s[i] # c
    BY <1>1 DEF Range
  <1>4. Len(s) + 1 \in DOMAIN t
    BY <1>1
  <1>5. IsInjective(t)
    BY <1>1, <1>2, <1>3 DEF IsInjective
  <1>6. Range(t) = Range(s) \cup {c}
    BY <1>1, <1>2, <1>3, <1>4 DEF Range
  <1> QED BY <1>1, <1>5, <1>6 DEF t

LEMMA TailFacts ==
  ASSUME NEW s \in Seq(Components), IsInjective(s), s # <<>>
  PROVE  /\ Tail(s) \in Seq(Components) /\ IsInjective(Tail(s))
         /\ Len(Tail(s)) = Len(s) - 1 /\ Range(Tail(s)) \subseteq Range(s)
         /\ Head(s) \in Components
  <1> DEFINE t == Tail(s)
  <1>1. /\ t \in Seq(Components) /\ Len(t) = Len(s) - 1 /\ Len(s) \in Nat /\ Len(s) >= 1
        /\ DOMAIN s = 1 .. Len(s) /\ DOMAIN t = 1 .. (Len(s) - 1)
        /\ \A i \in 1 .. (Len(s) - 1) : t[i] = s[i + 1]
        /\ Head(s) \in Components
    OBVIOUS
  <1> HIDE DEF t
  <1>2. \A i \in DOMAIN t : i \in Int /\ i + 1 \in DOMAIN s /\ t[i] = s[i + 1]
    BY <1>1
  <1>3. IsInjective(t)
    BY <1>2 DEF IsInjective
  <1>4. Range(t) \subseteq Range(s)
    BY <1>2 DEF Range
  <1> QED BY <1>1, <1>3, <1>4 DEF t

LEMMA FrontFacts ==
  ASSUME NEW s \in Seq(Components), IsInjective(s), s # <<>>
  PROVE  /\ Front(s) \in Seq(Components) /\ IsInjective(Front(s))
         /\ Len(Front(s)) = Len(s) - 1 /\ Range(Front(s)) = Range(s) \ {Last(s)}
         /\ Last(s) \in Components /\ Last(s) \in Range(s)
  <1> DEFINE t == Front(s)
  <1>1. /\ Len(s) \in Nat /\ Len(s) >= 1 /\ DOMAIN s = 1 .. Len(s)
        /\ Len(s) \in DOMAIN s
    OBVIOUS
  <1>2. /\ t \in Seq(Components) /\ Len(t) = Len(s) - 1
        /\ DOMAIN t = 1 .. (Len(s) - 1)
        /\ \A i \in 1 .. (Len(s) - 1) : t[i] = s[i]
    BY <1>1 DEF Front
  <1>3. Last(s) = s[Len(s)] /\ Last(s) \in Components /\ Last(s) \in Range(s)
    BY <1>1 DEF Last, Range
  <1> HIDE DEF t
  <1>4. \A i \in DOMAIN t : i \in DOMAIN s /\ i # Len(s) /\ t[i] = s[i]
    BY <1>1, <1>2
  <1>5. \A i \in DOMAIN s : i \in DOMAIN t \/ i = Len(s)
    BY <1>1, <1>2
  <1>6. IsInjective(t)
    BY <1>4 DEF IsInjective
  <1>7. Range(t) = Range(s) \ {Last(s)}
    BY <1>1, <1>3, <1>4, <1>5 DEF IsInjective, Range
  <1> QED BY <1>2, <1>3, <1>6, <1>7 DEF t

\* No two entries: at most four of four components.
LEMMA ShortDone ==
  ASSUME NEW s \in Seq(Components), Len(s) <= 4
  PROVE  s \in SeqOf(Components, 4)
  <1>1. Len(s) \in Nat /\ DOMAIN s = 1 .. Len(s) /\ \A i \in DOMAIN s : s[i] \in Components
    OBVIOUS
  <1>2. s = [i \in DOMAIN s |-> s[i]]
    OBVIOUS
  <1>3. s \in [1 .. Len(s) -> Components]
    BY <1>1, <1>2
  <1>4. Len(s) \in 0 .. 4
    BY <1>1
  <1> QED BY <1>3, <1>4 DEF SeqOf

LEMMA NamesDiffer ==
  /\ Absent \notin Backups /\ Original \notin Backups /\ Incomplete \notin Backups
  /\ Mixed \notin Backups /\ Fresh \notin Backups /\ None \notin Backups
  /\ Absent # Fresh /\ Absent # Original /\ Absent # Incomplete /\ Absent # Mixed
  /\ Fresh # Original /\ Fresh # Incomplete /\ Fresh # Mixed
  /\ Original # Incomplete /\ Original # Mixed /\ Incomplete # Mixed
  /\ {Absent, Original, Incomplete, Mixed, Fresh} \subseteq Origins
  /\ Backups \subseteq Origins
  <1>1. /\ "missing" \notin Backups /\ "original" \notin Backups /\ "incomplete" \notin Backups
        /\ "mixed" \notin Backups /\ "fresh" \notin Backups /\ "none" \notin Backups
    BY BackupsAssumption
  <1> QED BY <1>1 DEF Absent, Original, Incomplete, Mixed, Fresh, None, Origins

-----------------------------------------------------------------------------
(* Types, staging and the swapped components *)

\* Mishaps are counted within their bound.
CountsOK ==
  /\ interruptions \in Nat /\ faults \in Nat /\ rejections \in Nat
  /\ interruptions + faults + rejections <= MaxMishaps
  /\ discarded \subseteq Unnoticed

LEMMA NoFaultFacts ==
  ASSUME RestOK, NoFault, UNCHANGED <<interruptions, rejections>>
  PROVE  CountsOK' /\ discarded' = discarded /\ faults' = faults
  BY DEF RestOK, NoFault, CountsOK

LEMMA FaultFacts ==
  ASSUME RestOK, NEW ignored \in SUBSET Unnoticed, Fault(ignored),
         UNCHANGED <<interruptions, rejections>>
  PROVE  CountsOK' /\ discarded' = discarded \cup ignored /\ faults' # 0
  BY MishapsAssumption DEF RestOK, Fault, MayFail, CountsOK

\* The steps of a request, and those of a start.
StagingStep ==
  \/ \E b \in Backups : StageRestore(b)
  \/ ClearPending \/ ClearFails \/ MakeAssets \/ Unpack
  \/ RemovePendingDatabase \/ CopyDatabase
  \/ StageFails \/ StageEndsDirty \/ Accept
StartStep ==
  \/ BeginStart \/ Look \/ LookFails \/ Preserve \/ RemoveLog \/ InstallPending
  \/ SyncDataDirectory \/ StartFails \/ ReturnKept
  \/ Open \/ Reject \/ Commit \/ CommitFails \/ Undo \/ Return \/ UndoEnds

LEMMA Steps == RestoreNext => StagingStep \/ StartStep \/ ExitGracefully \/ Interrupt
  BY DEF RestoreNext, StagingStep, StartStep

LEMMA InitStaged == RestoreInit => StagedInv
  <1> SUFFICES ASSUME RestoreInit PROVE StagedInv
    OBVIOUS
  <1>1. RestOK
    BY MishapsAssumption, NamesDiffer DEF RestoreInit, RestOK, Idle, Phases, StagerType
  <1>2. Range(<<>>) = {} /\ IsInjective(<<>>)
    BY DEF Range, IsInjective
  <1>3. SwapOK
    BY <1>2 DEF RestoreInit, NoSwap, SwapOK, SwapType, AtHand, Looking, Swapped
  <1>4. HandOK
    BY DEF RestoreInit, HandOK, Swapping, Looking
  <1>5. StagingOK /\ PendingOrigins /\ PendingOfOneArchive
    BY NamesDiffer DEF RestoreInit, StagingOK, Idle, PendingOrigins, PendingOfOneArchive
  <1> QED BY <1>1, <1>3, <1>4, <1>5 DEF StagedInv

LEMMA TypesHold == RestOK /\ SwapOK => RestoreTypeOK
  <1> SUFFICES ASSUME RestOK, SwapOK PROVE RestoreTypeOK
    OBVIOUS
  <1>1. swap.done \in SeqOf(Components, 4)
    <2>1. swap.at \in 1 .. 5 /\ swap.done \in Seq(Components) /\ Len(swap.done) \in Nat
      BY DEF SwapOK, SwapType
    <2>2. Len(swap.done) <= 4
      BY <2>1 DEF SwapOK
    <2> QED BY <2>1, <2>2, ShortDone
  <1>2. swap \in [at : 1 .. 5, done : SeqOf(Components, 4), kept : SUBSET Components]
    BY <1>1 DEF SwapOK, SwapType
  <1>3. {interruptions, faults, rejections} \subseteq 0 .. MaxMishaps
    BY MishapsAssumption DEF RestOK
  <1> QED BY <1>2, <1>3 DEF RestOK, RestoreTypeOK, StagerType

\* The component at hand is none of the swapped ones.
LEMMA CurrentFacts ==
  ASSUME SwapOK, AtHand
  PROVE  /\ swap.at \in 1 .. 4 /\ Current \in Components /\ Current = StartOrder[swap.at]
         /\ Current \notin Swapped
         /\ Current = "db" <=> swap.at = 1
  <1>1. swap.at \in 1 .. 4
    BY DEF SwapOK, SwapType
  <1>2. \A i \in 1 .. swap.at - 1 : i \in 1 .. 4 /\ i # swap.at
    BY <1>1
  <1>3. Current \notin Swapped
    BY <1>1, <1>2, StartOrderFacts DEF SwapOK, Current
  <1>4. Current = "db" <=> swap.at = 1
    BY <1>1, StartOrderFacts, Orders DEF Current
  <1> QED BY <1>1, <1>3, <1>4, StartOrderFacts DEF Current

\* Delivered components are components, the database among them.
LEMMA DeliveredFacts ==
  ASSUME NEW b \in Backups
  PROVE  /\ Delivered(b) \subseteq Components /\ "db" \in Delivered(b)
         /\ b \in Databases => Delivered(b) = {"db"}
         /\ b \notin Databases => "assets" \in Delivered(b)
  BY BundleAssumption DEF Delivered, Components

LEMMA StagerFacts ==
  ASSUME stager \in StagerType, NEW n \in 0 .. 12
  PROVE  /\ [stager EXCEPT !.at = n] \in StagerType
         /\ [backup |-> stager.backup, at |-> n, failed |-> TRUE] \in StagerType
         /\ Idle \in StagerType
         /\ stager.at \in 0 .. 12 /\ stager.backup \in Backups \cup {None}
         /\ stager.failed \in BOOLEAN
  BY DEF StagerType, Idle

\* Staging changes what is pending, and nothing a start works with.
LEMMA StagingRest ==
  ASSUME RestOK, StagingStep
  PROVE  /\ RestOK' /\ phase = "up" /\ discarded \subseteq discarded'
         /\ UNCHANGED <<live, previous, log, phase, swap, ran, interruptions, rejections>>
         /\ faults' # faults => faults' # 0
         /\ discarded' # discarded => faults' # 0
  <1>1. /\ UNCHANGED <<live, previous, log, phase, swap, ran, interruptions, rejections>>
        /\ phase = "up"
    BY DEF StagingStep, StageRestore, ClearPending, ClearFails, MakeAssets, Unpack,
           RemovePendingDatabase, CopyDatabase, StageFails, StageEndsDirty, Accept, StageOn,
           Cleared, StageFrame, Staging
  <1>2. CountsOK' /\ discarded \subseteq discarded' /\ (faults' # faults => faults' # 0)
        /\ (discarded' # discarded => faults' # 0)
    <2>1. NoFault \/ Fault({}) \/ Fault({"clear"})
      BY DEF StagingStep, StageRestore, ClearPending, ClearFails, MakeAssets, Unpack,
             RemovePendingDatabase, CopyDatabase, StageFails, StageEndsDirty, Accept
    <2>2. {} \in SUBSET Unnoticed /\ {"clear"} \in SUBSET Unnoticed
      BY DEF Unnoticed
    <2> QED BY <1>1, <2>1, <2>2, NoFaultFacts, FaultFacts
  <1>3. pending' \in [Components -> Origins] /\ stager' \in StagerType
        /\ accepted' \in Backups \cup {None}
    <2>0. stager.at \in 0 .. 12 /\ stager.backup \in Backups \cup {None}
      BY DEF RestOK, StagerType
    <2>1. ASSUME NEW b \in Backups, StageRestore(b)
          PROVE  pending' \in [Components -> Origins] /\ stager' \in StagerType
                 /\ accepted' \in Backups \cup {None}
      BY <2>1 DEF RestOK, StageRestore, StagerType
    <2>2. CASE ClearPending \/ ClearFails
      <3>1. stager.at \in 1 .. 4 /\ StartOrder[stager.at] \in Components /\ "assets" \in Components
        BY <2>2, StartOrderFacts DEF ClearPending, ClearFails, Staging, Components
      <3>2. pending' \in [Components -> Origins]
        BY <2>2, <3>1, NamesDiffer DEF RestOK, ClearPending, ClearFails
      <3>3. stager' \in StagerType
        <4>1. stager.at + 1 \in 0 .. 12
          BY <3>1
        <4>2. stager' = Idle \/ stager' = [stager EXCEPT !.at = stager.at + 1]
          BY <2>2 DEF ClearPending, ClearFails, Cleared
        <4> QED BY <4>1, <4>2, StagerFacts DEF RestOK
      <3> QED BY <2>2, <3>2, <3>3 DEF RestOK, ClearPending, ClearFails, Cleared
    <2>3. CASE MakeAssets
      <3>1. \E o \in Origins : pending' = [pending EXCEPT !["assets"] = o]
        BY <2>3, NamesDiffer DEF MakeAssets
      <3> QED BY <2>3, <3>1 DEF RestOK, MakeAssets, StageOn, StagerType, Components
    <2>4. CASE Unpack
      <3>1. stager.at \in 6 .. 9 /\ stager.backup \in Backups /\ stager.at + 1 \in 0 .. 12
        BY <2>0, <2>4 DEF Unpack, Staging
      <3>2. pending' \in [Components -> Origins]
        BY <2>4, <3>1, NamesDiffer DEF RestOK, Unpack
      <3> QED BY <2>4, <3>1, <3>2 DEF RestOK, Unpack, StageOn, StagerType
    <2>5. CASE RemovePendingDatabase \/ CopyDatabase
      <3>1. stager.backup \in Backups /\ "db" \in Components
        BY <2>0, <2>5 DEF RemovePendingDatabase, CopyDatabase, Staging, Components
      <3>2. pending' \in [Components -> Origins]
        BY <2>5, <3>1, NamesDiffer DEF RestOK, RemovePendingDatabase, CopyDatabase
      <3>3. /\ stager' = [stager EXCEPT !.at = 12] \/ stager' = [stager EXCEPT !.at = 10]
            /\ accepted' = accepted
        BY <2>5 DEF RemovePendingDatabase, CopyDatabase, StageOn
      <3>4. stager' \in StagerType
        <4>1. 12 \in 0 .. 12 /\ 10 \in 0 .. 12
          OBVIOUS
        <4> QED BY <3>3, <4>1, StagerFacts DEF RestOK
      <3> QED BY <3>2, <3>3, <3>4 DEF RestOK
    <2>6. CASE StageFails
      <3>1. stager' = [backup |-> stager.backup, at |-> 1, failed |-> TRUE]
            /\ pending' = pending /\ accepted' = accepted
        BY <2>6 DEF StageFails
      <3>2. stager' \in StagerType
        BY <2>0, <3>1 DEF StagerType
      <3> QED BY <3>1, <3>2 DEF RestOK
    <2>7. CASE StageEndsDirty \/ Accept
      <3>1. stager' = Idle /\ pending' = pending /\ (accepted' = accepted \/ accepted' = stager.backup)
        BY <2>7 DEF StageEndsDirty, Accept
      <3>2. stager' \in StagerType
        BY <3>1, StagerFacts DEF RestOK
      <3> QED BY <2>0, <3>1, <3>2 DEF RestOK
    <2> QED BY <2>1, <2>2, <2>3, <2>4, <2>5, <2>6, <2>7 DEF StagingStep
  <1> QED BY <1>1, <1>2, <1>3 DEF RestOK, CountsOK

\* A start keeps what a request works with.
LEMMA StartRest ==
  ASSUME RestOK, SwapOK, StartStep
  PROVE  /\ RestOK' /\ UNCHANGED <<stager, accepted, interruptions>>
         /\ discarded \subseteq discarded' /\ phase # "up"
         /\ faults' # faults => faults' # 0
         /\ rejections' # rejections => rejections' # 0
  <1>1. UNCHANGED <<stager, accepted, interruptions>> /\ phase # "up"
    BY DEF StartStep, BeginStart, Look, LookFails, LookFrame, Preserve, RemoveLog, InstallPending,
           SyncDataDirectory, StartFails, ReturnKept, Open, Reject, Commit, CommitFails, Undo, Return,
           UndoFrame, UndoEnds, StartFrame
  <1>2. /\ CountsOK' /\ discarded \subseteq discarded'
        /\ faults' # faults => faults' # 0
        /\ rejections' # rejections => rejections' # 0
    <2>1. CASE Reject
      BY <1>1, <2>1, MishapsAssumption DEF RestOK, Reject, NoFault, MayFail, CountsOK
    <2>2. CASE UNCHANGED rejections
      <3>1. \/ NoFault \/ Fault({}) \/ Fault({"unlog"}) \/ Fault({"return"})
            \/ discarded' = discarded \cup {"return"} /\ UNCHANGED faults
        BY <1>1, <2>2 DEF StartStep, BeginStart, Look, LookFails, Preserve, RemoveLog,
               InstallPending, SyncDataDirectory, StartFails, ReturnKept, Open, Reject, Commit,
               CommitFails, Undo, Return, UndoEnds
      <3>2. /\ {} \in SUBSET Unnoticed /\ {"unlog"} \in SUBSET Unnoticed
            /\ {"return"} \in SUBSET Unnoticed
        BY DEF Unnoticed
      <3>3. CASE discarded' = discarded \cup {"return"} /\ UNCHANGED faults
        BY <1>1, <2>2, <3>2, <3>3 DEF RestOK, CountsOK
      <3> QED BY <1>1, <2>2, <3>1, <3>2, <3>3, NoFaultFacts, FaultFacts
    <2>3. Reject \/ UNCHANGED rejections
      BY DEF StartStep, BeginStart, Look, LookFails, LookFrame, Preserve, RemoveLog, InstallPending,
             SyncDataDirectory, StartFails, ReturnKept, Open, Commit, CommitFails, Undo, Return,
             UndoFrame, UndoEnds
    <2> QED BY <2>1, <2>2, <2>3
  <1>3. phase' \in Phases
    BY DEF StartStep, BeginStart, Look, LookFails, Pass, Preserve, RemoveLog, InstallPending,
           SyncDataDirectory, StartFails, ReturnKept, Open, Reject, Commit, CommitFails, Undo, Return,
           UndoEnds, Phases
  <1>4. log' \in Origins
    BY NamesDiffer DEF RestOK, StartStep, BeginStart, Look, LookFails, LookFrame, Preserve, RemoveLog,
           InstallPending, SyncDataDirectory, StartFails, ReturnKept, Open, Reject, Commit, CommitFails,
           Undo, Return, UndoFrame, UndoEnds, files
  <1>5. /\ live' \in [Components -> Origins] /\ pending' \in [Components -> Origins]
        /\ previous' \in [Components -> Origins] /\ ran' \in [Components -> Origins]
    <2>1. CASE Look \/ LookFails \/ Preserve \/ InstallPending \/ ReturnKept
      <3>1. Current \in Components
        BY <2>1, CurrentFacts DEF Look, LookFails, Preserve, InstallPending, ReturnKept, AtHand, Looking
      <3>2. /\ live[Current] \in Origins /\ pending[Current] \in Origins
            /\ previous[Current] \in Origins
        BY <3>1 DEF RestOK
      <3> QED BY <2>1, <3>1, <3>2, NamesDiffer
              DEF RestOK, Look, LookFails, LookFrame, Preserve, InstallPending, ReturnKept
    <2>2. CASE Commit
      BY <2>2, TailFacts, NamesDiffer DEF RestOK, SwapOK, SwapType, Commit
    <2>3. CASE Undo \/ Return
      <3>1. Last(swap.done) \in Components
        BY <2>3, FrontFacts DEF SwapOK, SwapType, Undo, Return
      <3>2. previous[Last(swap.done)] \in Origins
        BY <3>1 DEF RestOK
      <3> QED BY <2>3, <3>1, <3>2, NamesDiffer DEF RestOK, Undo, Return, UndoFrame
    <2>4. CASE Open
      BY <2>4, NamesDiffer DEF RestOK, Open
    <2>5. CASE \/ BeginStart \/ RemoveLog \/ SyncDataDirectory \/ StartFails
               \/ Reject \/ CommitFails \/ UndoEnds
      BY <2>5 DEF RestOK, BeginStart, RemoveLog, SyncDataDirectory, StartFails, Reject, CommitFails,
                  UndoEnds, files
    <2> QED BY <2>1, <2>2, <2>3, <2>4, <2>5 DEF StartStep
  <1> QED BY <1>1, <1>2, <1>3, <1>4, <1>5 DEF RestOK, CountsOK

\* The end of the process leaves the files and forgets the rest.
LEMMA ExitRest ==
  ASSUME RestOK, ExitGracefully \/ Interrupt
  PROVE  /\ RestOK' /\ stager' = Idle /\ swap' = NoSwap /\ phase' = "down"
         /\ UNCHANGED <<live, pending, previous, ran, accepted, discarded, faults, rejections>>
         /\ ExitGracefully => UNCHANGED <<log, interruptions>> /\ phase = "up" /\ stager = Idle
         /\ Interrupt => /\ interruptions' # 0
                         /\ \/ log' = log
                            \/ phase \in {"opening", "committing", "up"} /\ log' = live["db"]
  <1>1. /\ UNCHANGED <<live, pending, previous, ran, accepted, discarded, faults, rejections>>
        /\ stager' = Idle /\ swap' = NoSwap /\ phase' = "down"
        /\ ExitGracefully => UNCHANGED <<log, interruptions>> /\ phase = "up" /\ stager = Idle
        /\ Interrupt => \/ log' = log
                        \/ phase \in {"opening", "committing", "up"} /\ log' = live["db"]
    BY DEF ExitGracefully, Interrupt, EndProcess
  <1>2. CountsOK' /\ (Interrupt => interruptions' # 0)
    BY <1>1, MishapsAssumption DEF RestOK, CountsOK, ExitGracefully, Interrupt, MayFail
  <1>3. log' \in Origins
    BY <1>1 DEF RestOK, Components
  <1> QED BY <1>1, <1>2, <1>3, StagerFacts DEF RestOK, CountsOK, Phases, StagerType, Idle

LEMMA RestStep == RestOK /\ SwapOK /\ RestoreNext => RestOK'
  BY Steps, StagingRest, StartRest, ExitRest

-----------------------------------------------------------------------------

\* What an unpacked archive leaves, step by step.
LEMMA UnpackedFacts ==
  ASSUME NEW b \in Backups, NEW c \in Components
  PROVE  /\ Unpacked(b, 6, c) = IF c = "assets" THEN Incomplete ELSE Absent
         /\ \A n \in 6 .. 9 : Unpacked(b, n + 1, c) =
              IF c \in Delivered(b) /\ c = ArchiveOrder[n - 5] THEN b ELSE Unpacked(b, n, c)
         /\ b \notin Databases =>
              Unpacked(b, 10, c) = IF c \in Delivered(b) THEN b ELSE Absent
         /\ \A n \in 6 .. 10 : Unpacked(b, n, c) \in {b, Incomplete, Absent}
  <1>1. Unpacked(b, 6, c) = IF c = "assets" THEN Incomplete ELSE Absent
    BY DEF Unpacked
  <1>2. ASSUME NEW n \in 6 .. 9
        PROVE  Unpacked(b, n + 1, c) =
                 IF c \in Delivered(b) /\ c = ArchiveOrder[n - 5] THEN b ELSE Unpacked(b, n, c)
    <2>1. \A i : i \in 6 .. (n + 1) - 1 <=> i \in 6 .. n - 1 \/ i = n
      OBVIOUS
    <2> QED BY <2>1 DEF Unpacked
  <1>3. ASSUME b \notin Databases
        PROVE  Unpacked(b, 10, c) = IF c \in Delivered(b) THEN b ELSE Absent
    <2>1. /\ ArchiveOrder[6 - 5] = "db" /\ ArchiveOrder[7 - 5] = "master"
          /\ ArchiveOrder[8 - 5] = "analytics" /\ ArchiveOrder[9 - 5] = "assets"
      BY Orders
    <2>2. \E i \in 6 .. 10 - 1 : ArchiveOrder[i - 5] = c
      <3>1. 6 \in 6 .. 10 - 1 /\ 7 \in 6 .. 10 - 1 /\ 8 \in 6 .. 10 - 1 /\ 9 \in 6 .. 10 - 1
        OBVIOUS
      <3> QED BY <2>1, <3>1 DEF Components
    <2>3. "assets" \in Delivered(b)
      BY <1>3, DeliveredFacts
    <2> QED BY <2>2, <2>3 DEF Unpacked
  <1> QED BY <1>1, <1>2, <1>3 DEF Unpacked

\* What every step of a request finds.
LEMMA StagingFacts ==
  ASSUME RestOK, StagingOK, NEW m \in 0 .. 12, NEW n \in 0 .. 12, Staging(m, n)
  PROVE  /\ stager.at \in m .. n /\ stager.at \in 1 .. 12 /\ phase = "up"
         /\ stager.backup \in Backups /\ stager.backup # None /\ stager.failed \in BOOLEAN
         /\ stager.failed => stager.at <= 4
         /\ stager.backup \in Databases => stager.failed \/ stager.at >= 10
         /\ stager.at \in 11 .. 12 => stager.backup \in Databases
  <1>1. stager.at \in 0 .. 12 /\ stager.backup \in Backups \cup {None} /\ stager.failed \in BOOLEAN
    BY DEF RestOK, StagerType
  <1> QED BY <1>1, NamesDiffer DEF Staging, StagingOK

LEMMA StagingKept ==
  ASSUME StagedInv, StagingStep
  PROVE  StagingOK' /\ PendingOrigins' /\ PendingOfOneArchive'
  <1> USE DEF StagedInv
  <1>0. phase' = phase /\ phase = "up" /\ RestOK'
    BY StagingRest
  <1>1. ASSUME NEW b \in Backups, StageRestore(b)
        PROVE  StagingOK' /\ PendingOrigins' /\ PendingOfOneArchive'
    <2>1. /\ stager' = [backup |-> b, at |-> IF b \in Databases THEN 11 ELSE 1, failed |-> FALSE]
          /\ pending' = pending /\ discarded' = discarded /\ b # None
      BY <1>1, NamesDiffer DEF StageRestore, NoFault
    <2>2. /\ stager'.backup = b /\ stager'.failed = FALSE
          /\ stager'.at = IF b \in Databases THEN 11 ELSE 1
      BY <2>1
    <2> QED BY <1>0, <2>1, <2>2 DEF StagingOK, PendingOrigins, PendingOfOneArchive
  <1>2. CASE ClearPending
    <2>1. /\ stager.at \in 1 .. 4 /\ stager.backup \in Backups /\ stager.backup # None
          /\ stager.failed \in BOOLEAN
          /\ stager.backup \in Databases => stager.failed
      <3>1. Staging(1, 4) /\ 1 \in 0 .. 12 /\ 4 \in 0 .. 12
        BY <1>2 DEF ClearPending
      <3> QED BY <3>1, StagingFacts
    <2>2. /\ pending' = [pending EXCEPT ![StartOrder[stager.at]] = Absent]
          /\ stager' = IF stager.at = 4 /\ stager.failed THEN Idle
                       ELSE [stager EXCEPT !.at = @ + 1]
          /\ discarded' = discarded
      BY <1>2 DEF ClearPending, Cleared, NoFault
    <2>3. \A c \in Components :
            pending'[c] = IF c = StartOrder[stager.at] THEN Absent ELSE pending[c]
      BY <2>1, <2>2, StartOrderFacts DEF RestOK
    <2>4. PendingOrigins'
      BY <2>3 DEF PendingOrigins
    <2>5. PendingOfOneArchive'
      BY <2>2, <2>3, NamesDiffer DEF PendingOfOneArchive
    <2>6. "clear" \notin discarded' => \A i \in 1 .. stager.at : pending'[StartOrder[i]] = Absent
      <3>1. \A i \in 1 .. stager.at :
              i \in 1 .. 4 /\ (i \in 1 .. stager.at - 1 \/ i = stager.at)
        BY <2>1
      <3> QED BY <2>1, <2>2, <2>3, <3>1, StartOrderFacts DEF StagingOK
    <2>7. CASE stager.at = 4 /\ stager.failed
      BY <2>2, <2>4, <2>5, <2>7 DEF StagingOK, Idle
    <2>8. CASE ~(stager.at = 4 /\ stager.failed)
      <3>1. stager' = [stager EXCEPT !.at = @ + 1]
        BY <2>2, <2>8
      <3>2. /\ stager'.backup = stager.backup /\ stager'.at = stager.at + 1
            /\ stager'.failed = stager.failed
        BY <3>1 DEF RestOK, StagerType
      <3>3. stager'.at - 1 = stager.at /\ stager'.at >= 1 /\ stager'.at <= 5
        BY <2>1, <3>2
      <3>4. stager'.failed => stager'.at <= 4
        BY <2>1, <2>8, <3>2
      <3> QED BY <1>0, <2>1, <2>4, <2>5, <2>6, <3>2, <3>3, <3>4 DEF StagingOK
    <2> QED BY <2>7, <2>8
  <1>3. CASE ClearFails
    <2>1. /\ stager.at \in 1 .. 4 /\ stager.backup \in Backups /\ stager.backup # None
          /\ stager.failed \in BOOLEAN
          /\ stager.backup \in Databases => stager.failed
      <3>1. Staging(1, 4) /\ 1 \in 0 .. 12 /\ 4 \in 0 .. 12
        BY <1>3 DEF ClearFails
      <3> QED BY <3>1, StagingFacts
    <2>2. /\ pending' = pending \/ pending' = [pending EXCEPT !["assets"] = Incomplete]
          /\ stager' = IF stager.at = 4 /\ stager.failed THEN Idle
                       ELSE [stager EXCEPT !.at = @ + 1]
          /\ "clear" \in discarded'
      BY <1>3 DEF ClearFails, Cleared, Fault
    <2>3. PendingOrigins'
      BY <2>2 DEF PendingOrigins, RestOK
    <2>4. PendingOfOneArchive'
      BY <2>2 DEF PendingOfOneArchive
    <2>5. CASE stager.at = 4 /\ stager.failed
      BY <2>2, <2>3, <2>4, <2>5 DEF StagingOK, Idle
    <2>6. CASE ~(stager.at = 4 /\ stager.failed)
      <3>1. stager' = [stager EXCEPT !.at = @ + 1]
        BY <2>2, <2>6
      <3>2. /\ stager'.backup = stager.backup /\ stager'.at = stager.at + 1
            /\ stager'.failed = stager.failed
        BY <3>1 DEF RestOK, StagerType
      <3>3. stager'.at >= 1 /\ stager'.at <= 5
        BY <2>1, <3>2
      <3>4. stager'.failed => stager'.at <= 4
        BY <2>1, <2>6, <3>2
      <3> QED BY <1>0, <2>1, <2>2, <2>3, <2>4, <3>2, <3>3, <3>4 DEF StagingOK
    <2> QED BY <2>5, <2>6
  <1>4. CASE MakeAssets
    <2>1. /\ stager.at = 5 /\ stager.backup \in Backups /\ ~stager.failed
          /\ stager.backup # None /\ stager.backup \notin Databases
      <3>1. Staging(5, 5) /\ 5 \in 0 .. 12
        BY <1>4 DEF MakeAssets
      <3> QED BY <3>1, StagingFacts
    <2>2. /\ pending' = [pending EXCEPT !["assets"] = IF @ = Absent THEN Incomplete ELSE Mixed]
          /\ stager' = [stager EXCEPT !.at = 6] /\ discarded' = discarded
      BY <1>4 DEF MakeAssets, StageOn, NoFault
    <2>3. stager'.at = 6 /\ stager'.backup = stager.backup /\ stager'.failed = stager.failed
      BY <2>2 DEF RestOK, StagerType
    <2>4. \A c \in Components :
            pending'[c] = IF c = "assets" THEN IF pending[c] = Absent THEN Incomplete ELSE Mixed
                          ELSE pending[c]
      BY <2>2 DEF RestOK
    <2>5. PendingOrigins'
      BY <2>4 DEF PendingOrigins
    <2>6. PendingOfOneArchive'
      BY <2>2, <2>4, NamesDiffer DEF PendingOfOneArchive
    <2>7. ASSUME "clear" \notin discarded, NEW c \in Components
          PROVE  pending'[c] = Unpacked(stager'.backup, 6, c)
      <3>1. PICK i \in 1 .. 4 : StartOrder[i] = c
        BY StartOrderFacts
      <3>2. i \in 1 .. stager.at - 1
        BY <2>1
      <3>3. pending[c] = Absent
        BY <2>1, <2>7, <3>1, <3>2 DEF StagingOK
      <3> QED BY <2>1, <2>3, <2>4, <3>3, UnpackedFacts
    <2> QED BY <1>0, <2>1, <2>2, <2>3, <2>5, <2>6, <2>7 DEF StagingOK
  <1>5. CASE Unpack
    <2>1. /\ stager.at \in 6 .. 9 /\ stager.backup \in Backups /\ ~stager.failed
          /\ stager.backup # None /\ stager.backup \notin Databases
      <3>1. Staging(6, 9) /\ 6 \in 0 .. 12 /\ 9 \in 0 .. 12
        BY <1>5 DEF Unpack
      <3> QED BY <3>1, StagingFacts
    <2>2. PICK d : d = ArchiveOrder[stager.at - 5]
      OBVIOUS
    <2>3. /\ pending' = IF d \in Delivered(stager.backup) /\ pending[d] # Mixed
                          THEN [pending EXCEPT ![d] = stager.backup] ELSE pending
          /\ stager' = [stager EXCEPT !.at = stager.at + 1] /\ discarded' = discarded
      BY <1>5, <2>2 DEF Unpack, StageOn, NoFault
    <2>4. stager'.at = stager.at + 1 /\ stager'.backup = stager.backup
          /\ stager'.failed = stager.failed
      BY <2>3 DEF RestOK, StagerType
    <2>5. \A c \in Components :
            pending'[c] = IF c = d /\ c \in Delivered(stager.backup) /\ pending[c] # Mixed
                          THEN stager.backup ELSE pending[c]
      BY <2>1, <2>3, DeliveredFacts DEF RestOK
    <2>6. PendingOrigins'
      BY <2>1, <2>5 DEF PendingOrigins
    <2>7. ASSUME "clear" \notin discarded, NEW c \in Components
          PROVE  /\ pending'[c] = Unpacked(stager.backup, stager.at + 1, c)
                 /\ pending'[c] \in {stager.backup, Incomplete, Absent}
      <3>1. pending[c] = Unpacked(stager.backup, stager.at, c)
        <4>1. stager.at \in 6 .. 10
          BY <2>1
        <4> QED BY <2>1, <2>7, <4>1 DEF StagingOK
      <3>2. stager.at \in 6 .. 10 /\ stager.at + 1 \in 6 .. 10
        BY <2>1
      <3>3. pending[c] # Mixed
        BY <2>1, <3>1, <3>2, UnpackedFacts, NamesDiffer
      <3> QED BY <2>1, <2>2, <2>5, <3>1, <3>2, <3>3, UnpackedFacts
    <2>8. PendingOfOneArchive'
      BY <2>3, <2>7, NamesDiffer DEF PendingOfOneArchive
    <2>9. stager'.at \in 7 .. 10
      BY <2>1, <2>4
    <2> QED BY <1>0, <2>1, <2>3, <2>4, <2>6, <2>7, <2>8, <2>9 DEF StagingOK
  <1>6. CASE RemovePendingDatabase \/ CopyDatabase
    <2>1. /\ stager.at \in 11 .. 12 /\ stager.backup \in Databases /\ ~stager.failed
          /\ stager.backup # None /\ stager.backup \in Backups
      <3>1. (Staging(11, 11) \/ Staging(12, 12)) /\ 11 \in 0 .. 12 /\ 12 \in 0 .. 12
        BY <1>6 DEF RemovePendingDatabase, CopyDatabase
      <3> QED BY <3>1, StagingFacts
    <2>2. PICK o : o = IF RemovePendingDatabase THEN Absent ELSE stager.backup
      OBVIOUS
    <2>3. PICK n : n = IF RemovePendingDatabase THEN 12 ELSE 10
      OBVIOUS
    <2>4. /\ pending' = [pending EXCEPT !["db"] = o] /\ stager' = [stager EXCEPT !.at = n]
          /\ discarded' = discarded
      BY <1>6, <2>2, <2>3 DEF RemovePendingDatabase, CopyDatabase, StageOn, NoFault
    <2>5. stager'.at = n /\ stager'.backup = stager.backup /\ stager'.failed = stager.failed
      BY <2>4 DEF RestOK, StagerType
    <2>6. \A c \in Components : pending'[c] = IF c = "db" THEN o ELSE pending[c]
      BY <2>4 DEF RestOK
    <2>7. o \in Databases \cup {Absent} /\ (n = 10 => o = stager.backup) /\ n \in {10, 12}
      BY <2>1, <2>2, <2>3
    <2>8. PendingOrigins'
      BY <2>1, <2>6, <2>7, BundleAssumption DEF PendingOrigins
    <2>9. PendingOfOneArchive'
      BY <2>4, <2>6, <2>7, NamesDiffer DEF PendingOfOneArchive
    <2>10. "db" \in Components
      BY DEF Components
    <2> QED BY <1>0, <2>1, <2>5, <2>6, <2>7, <2>8, <2>9, <2>10 DEF StagingOK
  <1>7. CASE StageFails
    <2>1. /\ stager.at \in 5 .. 10 /\ stager.backup \in Backups /\ stager.backup # None
      <3>1. Staging(5, 10) /\ 5 \in 0 .. 12 /\ 10 \in 0 .. 12
        BY <1>7 DEF StageFails
      <3> QED BY <3>1, StagingFacts
    <2>2. /\ stager' = [backup |-> stager.backup, at |-> 1, failed |-> TRUE]
          /\ pending' = pending /\ discarded' = discarded
      BY <1>7 DEF StageFails, NoFault
    <2>3. stager'.at = 1 /\ stager'.backup = stager.backup /\ stager'.failed = TRUE
      BY <2>2
    <2> QED BY <1>0, <2>1, <2>2, <2>3 DEF StagingOK, PendingOrigins, PendingOfOneArchive
  <1>8. CASE StageEndsDirty \/ Accept
    <2>1. stager' = Idle /\ pending' = pending /\ discarded \subseteq discarded'
      BY <1>8, StagingRest DEF StageEndsDirty, Accept
    <2> QED BY <2>1 DEF StagingOK, Idle, PendingOrigins, PendingOfOneArchive
  <1> QED BY <1>1, <1>2, <1>3, <1>4, <1>5, <1>6, <1>7, <1>8 DEF StagingStep

\* A start only takes pending files away, and no request is staging then.
LEMMA StartPending ==
  ASSUME RestOK, SwapOK, StagingOK, StartStep
  PROVE  /\ \A c \in Components : pending'[c] = pending[c] \/ pending'[c] = Absent
         /\ ~InstallPending => pending' = pending
         /\ stager = Idle
  <1>1. stager = Idle
    BY StartRest DEF StagingOK
  <1>2. ~InstallPending => pending' = pending
    BY DEF StartStep, BeginStart, Look, LookFails, LookFrame, Preserve, RemoveLog, SyncDataDirectory,
           StartFails, ReturnKept, Open, Reject, Commit, CommitFails, Undo, Return, UndoFrame, UndoEnds,
           files
  <1>3. InstallPending =>
          \A c \in Components : pending'[c] = pending[c] \/ pending'[c] = Absent
    BY DEF InstallPending, RestOK
  <1> QED BY <1>1, <1>2, <1>3

-----------------------------------------------------------------------------
(* The components a start has swapped *)

LEMMA SwapFacts ==
  ASSUME SwapOK
  PROVE  /\ swap \in SwapType /\ IsInjective(swap.done) /\ swap.done \in Seq(Components)
         /\ Len(swap.done) \in Nat /\ swap.at \in 1 .. 5 /\ Len(swap.done) < swap.at
  BY DEF SwapOK, SwapType

\* How the swapped components change: none forgotten but by rolling back.
LEMMA PassSwap ==
  ASSUME SwapOK, AtHand, NEW done, Pass(done),
         done \in Seq(Components), IsInjective(done), Len(done) <= swap.at,
         Range(done) \subseteq Swapped \cup {Current}
  PROVE  /\ SwapOK' /\ Swapped' = Range(done) /\ swap'.done = done
         /\ swap'.kept = swap.kept /\ swap'.at = swap.at + 1
         /\ phase' \in {"looking", "syncing", "opening"}
  <1>1. /\ swap' = [swap EXCEPT !.at = @ + 1, !.done = done]
        /\ phase' = CASE swap.at < 4 -> "looking"
                      [] swap.at = 4 /\ done # <<>> -> "syncing"
                      [] OTHER -> "opening"
    BY DEF Pass
  <1>2. swap.at \in 1 .. 4 /\ Current = StartOrder[swap.at]
    BY CurrentFacts
  <1>3. /\ swap' \in SwapType
        /\ swap'.at = swap.at + 1 /\ swap'.done = done /\ swap'.kept = swap.kept
    <2>1. swap.at + 1 \in 1 .. 5
      BY <1>2
    <2> QED BY <1>1, <2>1 DEF SwapOK, SwapType
  <1>4. /\ swap.at < 4 => phase' = "looking"
        /\ swap.at = 4 => phase' \in {"syncing", "opening"}
    BY <1>1, <1>2
  <1>5. swap.at < 4 \/ swap.at = 4
    BY <1>2
  <1>6. Len(swap'.done) < swap'.at
    BY <1>2, <1>3
  <1>7. /\ AtHand' => swap'.at <= 4
        /\ phase' \in {"syncing", "opening"} => swap'.at = 5
        /\ phase' # "returning"
    <2>1. swap.at < 4 => swap'.at <= 4
      BY <1>2, <1>3
    <2>2. swap.at = 4 => swap'.at = 5
      BY <1>3
    <2> QED BY <1>4, <1>5, <2>1, <2>2 DEF AtHand, Looking
  <1>8. \A c \in Range(done) : \E i \in 1 .. swap'.at - 1 : i <= 4 /\ StartOrder[i] = c
    <2>1. \A i \in 1 .. swap.at - 1 : i \in 1 .. swap'.at - 1
      BY <1>2, <1>3
    <2>2. swap.at \in 1 .. swap'.at - 1 /\ swap.at <= 4
      BY <1>2, <1>3
    <2> QED BY <1>2, <2>1, <2>2 DEF SwapOK
  <1>9. Swapped' = Range(done)
    BY <1>3 DEF Swapped
  <1>10. IsInjective(swap'.done)
    BY <1>3
  <1>11. SwapOK'
    BY <1>3, <1>6, <1>7, <1>8, <1>9, <1>10 DEF SwapOK
  <1>12. phase' \in {"looking", "syncing", "opening"}
    BY <1>4, <1>5
  <1> QED BY <1>3, <1>9, <1>11, <1>12

\* Taking one off, at either end, in the phases that undo or commit.
LEMMA FewerSwapped ==
  ASSUME SwapOK, NEW done \in Seq(Components), IsInjective(done),
         Len(done) <= Len(swap.done), Range(done) \subseteq Swapped,
         swap' = [swap EXCEPT !.done = done], phase' \in {"undoing", "committing"}
  PROVE  SwapOK' /\ Swapped' = Range(done) /\ swap'.kept = swap.kept
  <1>1. swap' \in SwapType /\ swap'.at = swap.at /\ swap'.done = done /\ swap'.kept = swap.kept
    BY DEF SwapOK, SwapType
  <1>2. Len(swap'.done) < swap'.at
    BY <1>1, SwapFacts
  <1>3. Swapped' = Range(done) /\ IsInjective(swap'.done)
    BY <1>1 DEF Swapped
  <1>4. ~AtHand' /\ phase' \notin {"syncing", "opening", "returning"}
    BY DEF AtHand, Looking
  <1> QED BY <1>1, <1>2, <1>3, <1>4 DEF SwapOK

LEMMA NoSwapOK ==
  ASSUME swap' = NoSwap, phase' \in {"down", "looking"}
  PROVE  SwapOK' /\ Swapped' = {} /\ swap'.done = <<>> /\ swap'.at = 1 /\ swap'.kept = {}
  <1>1. Range(<<>>) = {} /\ IsInjective(<<>>)
    BY DEF Range, IsInjective
  <1>2. swap'.done = <<>> /\ swap'.at = 1 /\ swap'.kept = {}
    BY DEF NoSwap
  <1>3. Swapped' = {}
    BY <1>1, <1>2 DEF Swapped
  <1> QED BY <1>1, <1>2, <1>3 DEF NoSwap, SwapOK, SwapType, AtHand, Looking

LEMMA SwapKept ==
  ASSUME SwapOK, swap'.done = swap.done, swap'.at = swap.at, swap' \in SwapType,
         AtHand' => AtHand,
         phase' \in {"syncing", "opening"} => phase \in {"syncing", "opening"},
         phase' = "returning" => swap.done # <<>>
  PROVE  SwapOK' /\ Swapped' = Swapped
  <1>1. Swapped' = Swapped
    BY DEF Swapped
  <1> QED BY <1>1 DEF SwapOK

\* Looking at a component with nothing pending passes it.
LEMMA LookFacts ==
  ASSUME RestOK, SwapOK, Look
  PROVE  /\ AtHand /\ phase = "looking" /\ SwapOK'
         /\ UNCHANGED <<live, pending, log, ran, rejections, accepted, faults, discarded>>
         /\ Swapped' = Swapped /\ swap'.kept = swap.kept /\ swap'.done = swap.done
         /\ \/ /\ pending[Current] = Absent /\ previous' = previous
               /\ swap'.at = swap.at + 1 /\ phase' \in {"looking", "syncing", "opening"}
            \/ /\ pending[Current] # Absent /\ swap' = swap /\ phase' = "preserving"
               /\ previous'[Current] = Absent
               /\ \A c \in Components \ {Current} : previous'[c] = previous[c]
  <1>1. /\ phase = "looking" /\ AtHand
        /\ UNCHANGED <<live, pending, log, ran, rejections, accepted, faults, discarded>>
    BY DEF Look, LookFrame, StartFrame, NoFault, AtHand, Looking
  <1>2. CASE pending[Current] = Absent /\ Pass(swap.done) /\ UNCHANGED previous
    <2>1. /\ swap.done \in Seq(Components) /\ IsInjective(swap.done) /\ Len(swap.done) <= swap.at
          /\ Range(swap.done) \subseteq Swapped \cup {Current} /\ Range(swap.done) = Swapped
      BY SwapFacts DEF Swapped
    <2>2. /\ SwapOK' /\ Swapped' = Range(swap.done) /\ swap'.done = swap.done
          /\ swap'.kept = swap.kept /\ swap'.at = swap.at + 1
          /\ phase' \in {"looking", "syncing", "opening"}
      BY <1>1, <1>2, <2>1, PassSwap
    <2> QED BY <1>1, <1>2, <2>1, <2>2
  <1>3. CASE /\ pending[Current] # Absent
             /\ previous' = [previous EXCEPT ![Current] = Absent]
             /\ phase' = "preserving" /\ swap' = swap
    <2>1. Current \in Components
      BY <1>1, CurrentFacts
    <2>2. SwapOK' /\ Swapped' = Swapped
      BY <1>1, <1>3, SwapKept, SwapFacts DEF AtHand, Looking
    <2> QED BY <1>1, <1>3, <2>1, <2>2 DEF RestOK
  <1> QED BY <1>1, <1>2, <1>3 DEF Look

LEMMA InstallFacts ==
  ASSUME RestOK, SwapOK, InstallPending
  PROVE  /\ AtHand /\ phase = "installing" /\ SwapOK' /\ Current \in Components
         /\ Current \notin Swapped
         /\ UNCHANGED <<previous, log, ran, rejections, accepted, faults, discarded>>
         /\ Swapped' = Swapped \cup {Current} /\ swap'.kept = swap.kept /\ swap'.at = swap.at + 1
         /\ phase' \in {"looking", "syncing", "opening"} /\ swap'.done # <<>>
         /\ \A c \in Components :
              /\ live'[c] = IF c = Current THEN pending[c] ELSE live[c]
              /\ pending'[c] = IF c = Current THEN Absent ELSE pending[c]
  <1>1. /\ AtHand /\ swap.at \in 1 .. 4 /\ Current \in Components /\ Current \notin Swapped
        /\ phase = "installing"
        /\ UNCHANGED <<previous, log, ran, rejections, accepted, faults, discarded>>
    BY CurrentFacts DEF InstallPending, StartFrame, NoFault, AtHand, Looking
  <1>2. /\ Append(swap.done, Current) \in Seq(Components)
        /\ IsInjective(Append(swap.done, Current))
        /\ Len(Append(swap.done, Current)) = Len(swap.done) + 1
        /\ Range(Append(swap.done, Current)) = Swapped \cup {Current}
    BY <1>1, SwapFacts, AppendFacts DEF Swapped
  <1>3. Len(Append(swap.done, Current)) <= swap.at
    BY <1>1, <1>2, SwapFacts
  <1>4. /\ SwapOK' /\ Swapped' = Swapped \cup {Current} /\ swap'.kept = swap.kept
        /\ swap'.at = swap.at + 1 /\ phase' \in {"looking", "syncing", "opening"}
        /\ swap'.done = Append(swap.done, Current)
    BY <1>1, <1>2, <1>3, PassSwap DEF InstallPending
  <1>5. swap'.done # <<>>
    <2>1. Len(swap'.done) # 0
      BY <1>2, <1>4, SwapFacts
    <2> QED BY <2>1
  <1>6. \A c \in Components :
          /\ live'[c] = IF c = Current THEN pending[c] ELSE live[c]
          /\ pending'[c] = IF c = Current THEN Absent ELSE pending[c]
    BY <1>1 DEF InstallPending, RestOK
  <1> QED BY <1>1, <1>4, <1>5, <1>6

LEMMA PreserveFacts ==
  ASSUME RestOK, SwapOK, Preserve
  PROVE  /\ AtHand /\ phase = "preserving" /\ SwapOK' /\ Current \in Components
         /\ UNCHANGED <<pending, log, ran, rejections, accepted, faults, discarded>>
         /\ Swapped' = Swapped /\ swap'.done = swap.done /\ swap'.at = swap.at
         /\ phase' = IF Current = "db" THEN "unlogging" ELSE "installing"
         /\ swap'.kept = IF live[Current] = Absent THEN swap.kept ELSE swap.kept \cup {Current}
         /\ live'[Current] = Absent
         /\ live[Current] # Absent => previous'[Current] = live[Current]
         /\ \A c \in Components \ {Current} : live'[c] = live[c] /\ previous'[c] = previous[c]
         /\ live[Current] = Absent => live' = live /\ previous' = previous
  <1>1. /\ AtHand /\ Current \in Components /\ phase = "preserving"
        /\ phase' = IF Current = "db" THEN "unlogging" ELSE "installing"
        /\ UNCHANGED <<pending, log, ran, rejections, accepted, faults, discarded>>
    BY CurrentFacts DEF Preserve, StartFrame, NoFault, AtHand, Looking
  <1>2. /\ swap' \in SwapType /\ swap'.done = swap.done /\ swap'.at = swap.at
        /\ swap'.kept = IF live[Current] = Absent THEN swap.kept ELSE swap.kept \cup {Current}
    <2>1. swap' = swap \/ swap' = [swap EXCEPT !.kept = @ \cup {Current}]
      BY DEF Preserve
    <2>2. swap' \in SwapType /\ swap'.done = swap.done /\ swap'.at = swap.at
      BY <1>1, <2>1, SwapFacts DEF SwapType
    <2>3. live[Current] # Absent => swap' = [swap EXCEPT !.kept = @ \cup {Current}]
      BY DEF Preserve
    <2>4. live[Current] = Absent => swap' = swap
      BY DEF Preserve
    <2> QED BY <2>2, <2>3, <2>4, SwapFacts DEF SwapType
  <1>3. SwapOK' /\ Swapped' = Swapped
    BY <1>1, <1>2, SwapKept DEF AtHand, Looking
  <1>4. /\ live'[Current] = Absent
        /\ live[Current] # Absent => previous'[Current] = live[Current]
        /\ \A c \in Components \ {Current} : live'[c] = live[c] /\ previous'[c] = previous[c]
        /\ live[Current] = Absent => live' = live /\ previous' = previous
    BY <1>1 DEF Preserve, RestOK
  <1> QED BY <1>1, <1>2, <1>3, <1>4

\* Moving one component back.
LEMMA ReturnFacts ==
  ASSUME RestOK, SwapOK, Return, NEW u, u = Last(swap.done)
  PROVE  /\ u \in Swapped /\ u \in Components /\ SwapOK' /\ Swapped' = Swapped \ {u}
         /\ swap'.kept = swap.kept /\ phase = "returning" /\ phase' = "undoing"
         /\ UNCHANGED <<pending, log, ran, rejections, accepted>>
         /\ \A c \in Components \ {u} : live'[c] = live[c] /\ previous'[c] = previous[c]
         /\ \/ u \notin swap.kept
            \/ live'[u] = previous[u] /\ faults' = faults /\ discarded' = discarded
            \/ "return" \in discarded' /\ faults' # 0
            \/ "return" \in discarded' /\ live[u] # Absent
         /\ discarded \subseteq discarded'
         /\ live'[u] # Absent \/ live'[u] = live[u] \/ live'[u] = previous[u]
  <1>1. /\ phase = "returning" /\ phase' = "undoing" /\ swap.done # <<>>
        /\ swap' = [swap EXCEPT !.done = Front(swap.done)]
        /\ UNCHANGED <<pending, log, ran, rejections, accepted>>
    BY DEF Return, UndoFrame, StartFrame, SwapOK
  <1>2. /\ Front(swap.done) \in Seq(Components) /\ IsInjective(Front(swap.done))
        /\ Len(Front(swap.done)) <= Len(swap.done) /\ Range(Front(swap.done)) = Swapped \ {u}
        /\ u \in Components /\ u \in Swapped
    BY <1>1, SwapFacts, FrontFacts DEF Swapped
  <1>3. SwapOK' /\ Swapped' = Swapped \ {u} /\ swap'.kept = swap.kept
    BY <1>1, <1>2, FewerSwapped
  <1>4. \A c \in Components \ {u} : live'[c] = live[c] /\ previous'[c] = previous[c]
    BY <1>2 DEF Return, RestOK
  <1>5. /\ \/ u \notin swap.kept
           \/ live'[u] = previous[u] /\ faults' = faults /\ discarded' = discarded
           \/ "return" \in discarded' /\ faults' # 0
           \/ "return" \in discarded' /\ live[u] # Absent
        /\ discarded \subseteq discarded'
        /\ live'[u] = live[u] \/ live'[u] = previous[u]
    BY <1>2 DEF Return, Fault, NoFault, RestOK
  <1> QED BY <1>1, <1>2, <1>3, <1>4, <1>5

\* Removing one that is to be moved back.
LEMMA UndoFacts ==
  ASSUME RestOK, SwapOK, Undo, NEW u, u = Last(swap.done)
  PROVE  /\ u \in Swapped /\ u \in Components /\ SwapOK' /\ swap' = swap /\ Swapped' = Swapped
         /\ phase = "undoing" /\ phase' = "returning"
         /\ UNCHANGED <<pending, previous, log, ran, rejections, accepted>>
         /\ \A c \in Components \ {u} : live'[c] = live[c]
         /\ \/ live'[u] = Absent /\ faults' = faults /\ discarded' = discarded
            \/ live' = live /\ faults' # 0 /\ discarded' = discarded
  <1>1. /\ phase = "undoing" /\ phase' = "returning" /\ swap.done # <<>> /\ swap' = swap
        /\ UNCHANGED <<pending, previous, log, ran, rejections, accepted>>
    BY DEF Undo, UndoFrame, StartFrame
  <1>2. u \in Components /\ u \in Swapped
    BY <1>1, SwapFacts, FrontFacts DEF Swapped
  <1>3. SwapOK' /\ Swapped' = Swapped
    BY <1>1, SwapKept, SwapFacts DEF AtHand, Looking
  <1>4. \/ live' = [live EXCEPT ![u] = Absent] /\ NoFault
        \/ live' = live /\ Fault({})
    BY DEF Undo
  <1>5. \A c \in Components \ {u} : live'[c] = live[c]
    BY <1>4 DEF RestOK
  <1>6. \/ live'[u] = Absent /\ faults' = faults /\ discarded' = discarded
        \/ live' = live /\ faults' # 0 /\ discarded' = discarded
    BY <1>2, <1>4 DEF RestOK, NoFault, Fault
  <1> QED BY <1>1, <1>2, <1>3, <1>5, <1>6

\* Steps of a start that leave the swap, or reset it.
LEMMA QuietFacts ==
  ASSUME RestOK, SwapOK,
         \/ LookFails \/ RemoveLog \/ SyncDataDirectory \/ StartFails \/ ReturnKept \/ Open \/ Reject
         \/ CommitFails \/ UndoEnds
  PROVE  swap' = swap /\ SwapOK' /\ Swapped' = Swapped /\ Current' = Current /\ pending' = pending
  <1>1. swap' = swap /\ pending' = pending
    BY DEF LookFails, LookFrame, RemoveLog, SyncDataDirectory, StartFails, ReturnKept, Open, Reject,
           CommitFails, UndoEnds, files
  <1>2. /\ AtHand' => AtHand
        /\ phase' \in {"syncing", "opening"} => phase \in {"syncing", "opening"}
        /\ phase' # "returning"
    BY DEF LookFails, LookFrame, RemoveLog, SyncDataDirectory, StartFails, ReturnKept, Open, Reject,
           CommitFails, UndoEnds, AtHand, Looking
  <1> QED BY <1>1, <1>2, SwapKept, SwapFacts DEF Swapped, Current

LEMMA CommitFacts ==
  ASSUME RestOK, SwapOK, Commit
  PROVE  /\ SwapOK' /\ phase = "committing" /\ phase' \in {"up", "committing"}
         /\ UNCHANGED <<live, pending, log, ran, rejections, accepted, faults, discarded>>
  <1>1. /\ phase = "committing" /\ phase' \in {"up", "committing"}
        /\ UNCHANGED <<live, pending, log, ran, rejections, accepted, faults, discarded>>
    BY DEF Commit, StartFrame, NoFault
  <1>2. CASE swap.done = <<>>
    BY <1>1, <1>2, SwapKept, SwapFacts DEF Commit, AtHand, Looking
  <1>3. CASE swap.done # <<>>
    <2>1. swap' = [swap EXCEPT !.done = Tail(swap.done)] /\ phase' = "committing"
      BY <1>1, <1>3 DEF Commit
    <2>2. /\ Tail(swap.done) \in Seq(Components) /\ IsInjective(Tail(swap.done))
          /\ Len(Tail(swap.done)) <= Len(swap.done) /\ Range(Tail(swap.done)) \subseteq Swapped
      BY <1>3, SwapFacts, TailFacts DEF Swapped
    <2>3. SwapOK'
      BY <2>1, <2>2, FewerSwapped
    <2> QED BY <1>1, <2>3
  <1> QED BY <1>2, <1>3

LEMMA BeginFacts ==
  ASSUME RestOK, SwapOK, BeginStart
  PROVE  /\ SwapOK' /\ Swapped' = {} /\ swap'.done = <<>> /\ swap'.at = 1 /\ swap'.kept = {}
         /\ phase = "down" /\ phase' = "looking"
         /\ UNCHANGED <<live, pending, previous, log, ran, rejections, accepted, faults, discarded>>
  <1>1. /\ swap' = NoSwap /\ phase = "down" /\ phase' = "looking"
        /\ UNCHANGED <<live, pending, previous, log, ran, rejections, accepted, faults, discarded>>
    BY DEF BeginStart, files, StartFrame, NoFault
  <1> QED BY <1>1, NoSwapOK

LEMMA SwapStep ==
  ASSUME RestOK, SwapOK, RestoreNext PROVE SwapOK'
  <1>1. CASE StagingStep
    BY <1>1, StagingRest, SwapKept, SwapFacts DEF AtHand, Looking
  <1>2. CASE ExitGracefully \/ Interrupt
    BY <1>2, ExitRest, NoSwapOK
  <1>3. CASE Undo
    BY <1>3, UndoFacts
  <1>4. CASE Return
    BY <1>4, ReturnFacts
  <1> QED BY <1>1, <1>2, <1>3, <1>4, Steps, BeginFacts, LookFacts, PreserveFacts, InstallFacts,
             QuietFacts, CommitFacts DEF StartStep

LEMMA HandStep ==
  ASSUME RestOK, SwapOK, HandOK, RestoreNext PROVE HandOK'
  <1>1. CASE StagingStep
    BY <1>1, StagingRest DEF HandOK, Swapping, Looking
  <1>2. CASE ExitGracefully \/ Interrupt
    BY <1>2, ExitRest DEF HandOK, Swapping, Looking
  <1>3. CASE BeginStart
    <2>1. phase' = "looking" /\ swap'.at - 1 = 0
      BY <1>3, BeginFacts
    <2>2. \A i \in 1 .. swap'.at - 1 : FALSE
      BY <2>1
    <2> QED BY <2>1, <2>2 DEF HandOK
  <1>4. CASE Look
    <2>1. CASE /\ pending[Current] = Absent
               /\ swap'.at = swap.at + 1 /\ phase' \in {"looking", "syncing", "opening"}
      <3>1. phase = "looking" /\ pending' = pending /\ swap.at \in 1 .. 4
            /\ Current = StartOrder[swap.at]
        BY <1>4, LookFacts, CurrentFacts
      <3>2. \A i \in 1 .. swap'.at - 1 : i \in 1 .. swap.at - 1 \/ i = swap.at
        BY <2>1, <3>1
      <3> QED BY <2>1, <3>1, <3>2 DEF HandOK, Swapping, Looking
    <2>2. CASE /\ pending[Current] # Absent /\ swap' = swap /\ phase' = "preserving"
               /\ previous'[Current] = Absent
      <3>1. phase = "looking" /\ pending' = pending /\ Current' = Current
        BY <1>4, <2>2, LookFacts DEF Current
      <3>2. previous'[Current'] = Absent
        BY <2>2, <3>1
      <3> QED BY <2>2, <3>1, <3>2 DEF HandOK, Swapping, Looking
    <2> QED BY <1>4, <2>1, <2>2, LookFacts
  <1>5. CASE Preserve
    <2>1. /\ phase = "preserving" /\ phase' \in {"unlogging", "installing"} /\ pending' = pending
          /\ swap'.at = swap.at /\ Current' = Current
      BY <1>5, PreserveFacts DEF Current
    <2> QED BY <2>1 DEF HandOK, Swapping, Looking
  <1>6. CASE InstallPending
    <2>1. /\ phase = "installing" /\ phase' \in {"looking", "syncing", "opening"}
          /\ swap'.at = swap.at + 1 /\ swap.at \in 1 .. 4 /\ Current = StartOrder[swap.at]
          /\ \A c \in Components : pending'[c] = IF c = Current THEN Absent ELSE pending[c]
      BY <1>6, InstallFacts, CurrentFacts
    <2>2. \A i \in 1 .. swap'.at - 1 : i \in 1 .. 4 /\ (i \in 1 .. swap.at - 1 \/ i = swap.at)
      BY <2>1
    <2>3. \A i \in 1 .. swap.at - 1 : pending[StartOrder[i]] = Absent
      BY <2>1 DEF HandOK, Swapping, Looking
    <2>4. \A i \in 1 .. swap'.at - 1 : pending'[StartOrder[i]] = Absent
      BY <2>1, <2>2, <2>3, StartOrderFacts
    <2> QED BY <2>1, <2>4 DEF HandOK
  <1>7. CASE LookFails
    <2>1. /\ phase = "looking" /\ phase' = "preserving" /\ pending[Current] # Absent /\ faults' # 0
      BY <1>7, MishapsAssumption DEF LookFails, Fault, RestOK
    <2> QED BY <1>7, <2>1, QuietFacts DEF HandOK, Swapping, Looking
  <1>8. CASE RemoveLog \/ SyncDataDirectory
    <2>1. \/ phase = "unlogging" /\ phase' = "installing"
          \/ phase = "syncing" /\ phase' = "opening"
      BY <1>8 DEF RemoveLog, SyncDataDirectory
    <2> QED BY <1>8, <2>1, QuietFacts DEF HandOK, Swapping, Looking
  <1>9. CASE \/ StartFails \/ ReturnKept \/ Open \/ Reject \/ Commit \/ CommitFails \/ Undo \/ Return
             \/ UndoEnds
    <2>1. phase' \in {"putting back", "undoing", "returning", "committing", "up", "down"}
      BY <1>9 DEF StartFails, ReturnKept, Open, Reject, Commit, CommitFails, Undo, Return, UndoEnds
    <2> QED BY <2>1 DEF HandOK, Swapping, Looking
  <1> QED BY <1>1, <1>2, <1>3, <1>4, <1>5, <1>6, <1>7, <1>8, <1>9, Steps DEF StartStep

LEMMA StagedStep == StagedInv /\ RestoreNext => StagedInv'
  <1> SUFFICES ASSUME StagedInv, RestoreNext PROVE StagedInv'
    OBVIOUS
  <1>1. RestOK' /\ SwapOK' /\ HandOK'
    BY RestStep, SwapStep, HandStep DEF StagedInv
  <1>2. CASE StagingStep
    BY <1>1, <1>2, StagingKept DEF StagedInv
  <1>3. CASE StartStep \/ ExitGracefully \/ Interrupt
    <2>1. /\ \A c \in Components : pending'[c] = pending[c] \/ pending'[c] = Absent
          /\ stager' = Idle /\ discarded \subseteq discarded'
      BY <1>3, StartPending, StartRest, ExitRest DEF StagedInv
    <2>2. StagingOK'
      BY <2>1 DEF StagingOK, Idle
    <2>3. PendingOrigins' /\ PendingOfOneArchive'
      BY <2>1, NamesDiffer DEF StagedInv, PendingOrigins, PendingOfOneArchive
    <2> QED BY <1>1, <2>2, <2>3 DEF StagedInv
  <1> QED BY <1>2, <1>3, Steps

-----------------------------------------------------------------------------
(* No file is lost without a kill and a failing way back *)

LEMMA HeldStep == StagedInv /\ HeldInv /\ RestoreNext => HeldInv'
  <1> SUFFICES ASSUME StagedInv, HeldInv, RestoreNext, Secure' PROVE HeldParts'
    BY DEF HeldInv
  <1> USE DEF StagedInv
  <1>0. Secure /\ ~Interrupt
    <2>1. discarded \subseteq discarded' /\ (interruptions' = interruptions \/ interruptions' # 0)
      BY Steps, StagingRest, StartRest, ExitRest
    <2> QED BY <2>1, ExitRest DEF Secure
  <1>1. /\ \A c \in Components : ran[c] # Absent
        /\ Serving => live = ran
        /\ ~Serving => \A c \in Components :
             IF Moved(c) THEN c \in swap.kept /\ previous[c] = ran[c] ELSE live[c] = ran[c]
    BY <1>0 DEF HeldInv, HeldParts
  <1>2. CASE StagingStep
    <2>1. live' = live /\ ran' = ran /\ phase' = "up" /\ phase = "up"
      BY <1>2, StagingRest
    <2> QED BY <1>1, <2>1 DEF HeldParts, Serving
  <1>3. CASE ExitGracefully
    <2>1. live' = live /\ ran' = ran /\ phase' = "down" /\ phase = "up"
      BY <1>3, ExitRest
    <2> QED BY <1>1, <2>1 DEF HeldParts, Serving
  <1>4. CASE BeginStart
    <2>1. /\ live' = live /\ ran' = ran /\ phase' = "looking" /\ phase = "down" /\ Swapped' = {}
      BY <1>4, BeginFacts
    <2> QED BY <1>1, <2>1 DEF HeldParts, Serving, Moved, Away
  <1>5. CASE Look
    <2>1. /\ live' = live /\ ran' = ran /\ phase = "looking" /\ Swapped' = Swapped
          /\ swap'.kept = swap.kept /\ phase' \in {"looking", "syncing", "opening", "preserving"}
          /\ \A c \in Components \ {Current} : previous'[c] = previous[c]
          /\ Current \notin Swapped
      BY <1>5, LookFacts, CurrentFacts
    <2>2. /\ \A c \in Components : (Moved(c) <=> c \in Swapped) /\ (Moved(c)' <=> c \in Swapped)
      BY <2>1 DEF Moved, Away
    <2> QED BY <1>1, <2>1, <2>2 DEF HeldParts, Serving
  <1>6. CASE Preserve
    <2>0. PICK u \in Components : u = Current
      BY <1>6, PreserveFacts
    <2>1. /\ ran' = ran /\ phase = "preserving" /\ Swapped' = Swapped
          /\ phase' \in {"unlogging", "installing"} /\ u \notin Swapped /\ Current' = u
          /\ swap'.kept = IF live[u] = Absent THEN swap.kept ELSE swap.kept \cup {u}
          /\ live[u] # Absent => previous'[u] = live[u]
          /\ \A c \in Components \ {u} : live'[c] = live[c] /\ previous'[c] = previous[c]
      BY <1>6, <2>0, PreserveFacts, CurrentFacts DEF Current
    <2>2. \A c \in Components : /\ Moved(c) <=> c \in Swapped
                                /\ Moved(c)' <=> c \in Swapped \/ c = u
      BY <2>1 DEF Moved, Away
    <2>3. live[u] = ran[u]
      BY <1>1, <2>1, <2>2 DEF Serving
    <2>4. u \in swap'.kept /\ previous'[u] = ran'[u]
      BY <1>1, <2>1, <2>3
    <2>5. \A c \in Components : IF Moved(c)' THEN c \in swap'.kept /\ previous'[c] = ran'[c]
                                ELSE live'[c] = ran'[c]
      BY <1>1, <2>1, <2>2, <2>4 DEF Serving
    <2> QED BY <1>1, <2>1, <2>5 DEF HeldParts, Serving
  <1>7. CASE InstallPending
    <2>0. PICK u \in Components : u = Current
      BY <1>7, InstallFacts
    <2>1. /\ ran' = ran /\ previous' = previous /\ phase = "installing"
          /\ Swapped' = Swapped \cup {u} /\ swap'.kept = swap.kept
          /\ phase' \in {"looking", "syncing", "opening"}
          /\ \A c \in Components \ {u} : live'[c] = live[c]
      BY <1>7, <2>0, InstallFacts
    <2>2. \A c \in Components : /\ Moved(c) <=> c \in Swapped \/ c = u
                                /\ Moved(c)' <=> c \in Swapped \/ c = u
      BY <2>0, <2>1 DEF Moved, Away
    <2>3. \A c \in Components : IF Moved(c)' THEN c \in swap'.kept /\ previous'[c] = ran'[c]
                                ELSE live'[c] = ran'[c]
      BY <1>1, <2>1, <2>2 DEF Serving
    <2> QED BY <1>1, <2>1, <2>3 DEF HeldParts, Serving
  <1>8. CASE LookFails \/ RemoveLog \/ SyncDataDirectory \/ Reject
    <2>1. /\ UNCHANGED <<live, previous, ran>>
          /\ \/ phase = "looking" /\ phase' = "preserving"
             \/ phase = "unlogging" /\ phase' = "installing"
             \/ phase = "syncing" /\ phase' = "opening"
             \/ phase = "opening" /\ phase' = "undoing"
      BY <1>8 DEF LookFails, LookFrame, RemoveLog, SyncDataDirectory, Reject, files
    <2>2. swap' = swap /\ \A c \in Components : Moved(c)' <=> Moved(c)
      BY <1>8, <2>1, QuietFacts DEF Moved, Away
    <2> QED BY <1>1, <2>1, <2>2 DEF HeldParts, Serving
  <1>9. CASE StartFails
    <2>1. /\ UNCHANGED <<live, previous, ran>> /\ swap' = swap /\ Swapped' = Swapped
          /\ phase \in {"looking", "preserving", "installing", "syncing"} /\ Current' = Current
          /\ phase' = IF phase = "installing" /\ Current \in swap.kept
                      THEN "putting back" ELSE "undoing"
      BY <1>9, QuietFacts DEF StartFails, files
    <2>2. phase = "installing" => Current \in swap.kept
      <3>1. phase = "installing" => Current \in Components /\ Moved(Current)
        BY CurrentFacts DEF AtHand, Looking, Moved, Away
      <3> QED BY <1>1, <3>1 DEF Serving
    <2>3. \A c \in Components : Moved(c)' <=> Moved(c)
      BY <2>1, <2>2 DEF Moved, Away
    <2> QED BY <1>1, <2>1, <2>3 DEF HeldParts, Serving
  <1>10. CASE ReturnKept
    <2>0. PICK u \in Components : u = Current
      BY <1>10, CurrentFacts DEF ReturnKept, AtHand
    <2>1. /\ ran' = ran /\ phase = "putting back" /\ phase' = "undoing" /\ swap' = swap
          /\ Swapped' = Swapped /\ u \notin Swapped
          /\ live' = [live EXCEPT ![u] = previous[u]]
          /\ previous' = [previous EXCEPT ![u] = Absent]
      BY <1>0, <1>10, <2>0, QuietFacts, CurrentFacts DEF ReturnKept, Secure, Fault, AtHand
    <2>2. \A c \in Components : /\ Moved(c) <=> c \in Swapped \/ c = u
                                /\ Moved(c)' <=> c \in Swapped
      BY <2>0, <2>1 DEF Moved, Away
    <2>3. /\ live'[u] = previous[u]
          /\ \A c \in Components \ {u} : live'[c] = live[c] /\ previous'[c] = previous[c]
      BY <2>1 DEF RestOK
    <2>4. \A c \in Components : IF Moved(c)' THEN c \in swap'.kept /\ previous'[c] = ran'[c]
                                ELSE live'[c] = ran'[c]
      BY <1>1, <2>1, <2>2, <2>3 DEF Serving
    <2> QED BY <1>1, <2>1, <2>4 DEF HeldParts, Serving
  <1>11. CASE Open
    <2>1. /\ live' = [c \in Components |-> IF live[c] = Absent THEN Fresh ELSE live[c]]
          /\ ran' = live' /\ phase' = "committing"
      BY <1>11 DEF Open
    <2>2. \A c \in Components : ran'[c] # Absent
      BY <2>1, NamesDiffer
    <2> QED BY <2>1, <2>2 DEF HeldParts, Serving
  <1>12. CASE Commit
    <2>1. live' = live /\ ran' = ran /\ phase = "committing" /\ phase' \in {"up", "committing"}
      BY <1>12, CommitFacts
    <2> QED BY <1>1, <2>1 DEF HeldParts, Serving
  <1>13. CASE CommitFails
    <2>1. live' = live /\ ran' = ran /\ phase = "committing" /\ phase' = "down"
      BY <1>13 DEF CommitFails, files
    <2> QED BY <1>1, <2>1 DEF HeldParts, Serving
  <1>14. CASE Undo
    <2>0. PICK u : u = Last(swap.done)
      OBVIOUS
    <2>1. /\ ran' = ran /\ previous' = previous /\ phase = "undoing" /\ phase' = "returning"
          /\ swap' = swap /\ Swapped' = Swapped /\ u \in Swapped
          /\ \A c \in Components \ {u} : live'[c] = live[c]
      BY <1>14, <2>0, UndoFacts
    <2>2. \A c \in Components : /\ Moved(c) <=> c \in Swapped
                                /\ Moved(c)' <=> c \in Swapped
      BY <2>1 DEF Moved, Away
    <2> QED BY <1>1, <2>1, <2>2 DEF HeldParts, Serving
  <1>15. CASE Return
    <2>0. PICK u : u = Last(swap.done)
      OBVIOUS
    <2>1. /\ ran' = ran /\ phase = "returning" /\ phase' = "undoing"
          /\ swap'.kept = swap.kept /\ Swapped' = Swapped \ {u} /\ u \in Swapped
          /\ \A c \in Components \ {u} : live'[c] = live[c] /\ previous'[c] = previous[c]
          /\ u \in Components /\ (u \notin swap.kept \/ live'[u] = previous[u])
      BY <1>0, <1>15, <2>0, ReturnFacts DEF Secure
    <2>2. \A c \in Components : /\ Moved(c) <=> c \in Swapped
                                /\ Moved(c)' <=> c \in Swapped \ {u}
      BY <2>1 DEF Moved, Away
    <2>3. \A c \in Components : IF Moved(c)' THEN c \in swap'.kept /\ previous'[c] = ran'[c]
                                ELSE live'[c] = ran'[c]
      BY <1>1, <2>1, <2>2 DEF Serving
    <2> QED BY <1>1, <2>1, <2>3 DEF HeldParts, Serving
  <1>16. CASE UndoEnds
    <2>1. live' = live /\ ran' = ran /\ phase = "undoing" /\ phase' = "down" /\ swap.done = <<>>
      BY <1>16 DEF UndoEnds, files
    <2>2. \A c \in Components : ~Moved(c)
      BY <2>1 DEF Moved, Away, Swapped, Range
    <2>3. live = ran
      BY <1>1, <2>1, <2>2 DEF RestOK, Serving
    <2> QED BY <1>1, <2>1, <2>3 DEF HeldParts, Serving
  <1> QED BY <1>0, <1>2, <1>3, <1>4, <1>5, <1>6, <1>7, <1>8, <1>9, <1>10, <1>11, <1>12, <1>13,
             <1>14, <1>15, <1>16, Steps DEF StartStep

-----------------------------------------------------------------------------
(* A database is opened with its own log *)

LEMMA LogStep == StagedInv /\ LogInv /\ RestoreNext => LogInv'
  <1> SUFFICES ASSUME StagedInv, LogInv, RestoreNext, "unlog" \notin discarded' PROVE LogParts'
    BY DEF LogInv
  <1> USE DEF StagedInv
  <1>0. "unlog" \notin discarded /\ LogParts
    <2>1. discarded \subseteq discarded'
      BY Steps, StagingRest, StartRest, ExitRest
    <2> QED BY <2>1 DEF LogInv
  <1>1. ASSUME log' = Absent PROVE LogParts'
    BY <1>1 DEF LogParts
  <1>2. CASE StagingStep
    <2>1. log' = log /\ phase = "up"
      BY <1>2, StagingRest
    <2> QED BY <1>0, <1>1, <2>1 DEF LogParts
  <1>3. CASE ExitGracefully \/ Interrupt
    <2>1. /\ phase' = "down" /\ live' = live /\ pending' = pending
          /\ log' = log \/ log' = live["db"]
      BY <1>3, ExitRest
    <2> QED BY <1>0, <2>1 DEF LogParts
  <1>4. CASE BeginStart
    <2>1. phase' = "looking" /\ Swapped' = {} /\ UNCHANGED <<live, pending, log>>
      BY <1>4, BeginFacts
    <2> QED BY <1>0, <2>1 DEF LogParts
  <1>5. CASE Look
    <2>1. /\ phase' \in {"looking", "syncing", "opening", "preserving"} /\ Swapped' = Swapped
          /\ UNCHANGED <<live, pending, log>> /\ phase = "looking"
      BY <1>5, LookFacts
    <2> QED BY <1>0, <2>1 DEF LogParts
  <1>6. CASE LookFails \/ SyncDataDirectory \/ Reject \/ StartFails \/ UndoEnds
    <2>1. /\ UNCHANGED <<live, pending, log>> /\ phase # "down"
          /\ phase' \notin {"up", "committing", "installing"}
          /\ phase' = "putting back" => phase = "installing"
      BY <1>6 DEF LookFails, LookFrame, SyncDataDirectory, Reject, StartFails, UndoEnds, files
    <2>2. Swapped' = Swapped /\ Current' = Current
      BY <1>6, QuietFacts
    <2> QED BY <1>0, <2>1, <2>2 DEF LogParts
  <1>7. CASE Preserve
    <2>0. PICK u \in Components : u = Current
      BY <1>7, PreserveFacts
    <2>1. /\ phase' = (IF u = "db" THEN "unlogging" ELSE "installing")
          /\ log' = log /\ pending' = pending /\ Swapped' = Swapped /\ Current' = u
          /\ phase = "preserving" /\ live'[u] = Absent
          /\ \A c \in Components \ {u} : live'[c] = live[c]
      BY <1>7, <2>0, PreserveFacts DEF Current
    <2>2. pending[u] # Absent
      BY <2>0, <2>1 DEF HandOK
    <2>3. CASE u = "db"
      BY <1>0, <2>1, <2>2, <2>3 DEF LogParts
    <2>4. CASE u # "db"
      <3>1. live'["db"] = live["db"]
        BY <2>1, <2>4 DEF Components
      <3> QED BY <1>0, <2>1, <2>4, <3>1 DEF LogParts
    <2> QED BY <2>3, <2>4
  <1>8. CASE RemoveLog
    <2>1. log' = Absent
      BY <1>8 DEF RemoveLog, Fault
    <2> QED BY <1>1, <2>1
  <1>9. CASE InstallPending
    <2>0. PICK u \in Components : u = Current
      BY <1>9, InstallFacts
    <2>1. /\ phase = "installing" /\ phase' \in {"looking", "syncing", "opening"} /\ log' = log
          /\ Swapped' = Swapped \cup {u}
          /\ \A c \in Components \ {u} : live'[c] = live[c] /\ pending'[c] = pending[c]
      BY <1>9, <2>0, InstallFacts
    <2>2. CASE u = "db"
      BY <1>0, <1>1, <2>0, <2>1, <2>2 DEF LogParts
    <2>3. CASE u # "db"
      <3>1. live'["db"] = live["db"] /\ pending'["db"] = pending["db"]
        BY <2>1, <2>3 DEF Components
      <3> QED BY <1>0, <2>1, <2>3, <3>1 DEF LogParts
    <2> QED BY <2>2, <2>3
  <1>10. CASE ReturnKept
    <2>0. PICK u \in Components : u = Current
      BY <1>10, CurrentFacts DEF ReturnKept, AtHand
    <2>1. /\ phase = "putting back" /\ phase' = "undoing" /\ log' = log /\ pending' = pending
          /\ live' = live \/ live' = [live EXCEPT ![u] = previous[u]]
      BY <1>10, <2>0 DEF ReturnKept
    <2>2. Swapped' = Swapped
      BY <1>10, QuietFacts
    <2>3. CASE u = "db"
      BY <1>0, <1>1, <2>0, <2>1, <2>3 DEF LogParts
    <2>4. CASE u # "db"
      <3>1. live'["db"] = live["db"]
        BY <2>1, <2>4 DEF RestOK, Components
      <3> QED BY <1>0, <2>1, <2>2, <3>1 DEF LogParts
    <2> QED BY <2>3, <2>4
  <1>11. CASE Open
    BY <1>1, <1>11 DEF Open
  <1>12. CASE Commit \/ CommitFails
    <2>1. log' = log /\ phase = "committing"
      BY <1>12, CommitFacts DEF CommitFails, files
    <2> QED BY <1>0, <1>1, <2>1 DEF LogParts
  <1>13. CASE Undo
    <2>0. PICK u : u = Last(swap.done)
      OBVIOUS
    <2>1. /\ phase = "undoing" /\ phase' = "returning" /\ log' = log /\ pending' = pending
          /\ u \in Swapped /\ Swapped' = Swapped
          /\ \A c \in Components \ {u} : live'[c] = live[c]
      BY <1>13, <2>0, UndoFacts
    <2>2. CASE u = "db"
      BY <1>0, <1>1, <2>1, <2>2 DEF LogParts
    <2>3. CASE u # "db"
      <3>1. live'["db"] = live["db"]
        BY <2>1, <2>3 DEF Components
      <3> QED BY <1>0, <2>1, <3>1 DEF LogParts
    <2> QED BY <2>2, <2>3
  <1>14. CASE Return
    <2>0. PICK u : u = Last(swap.done)
      OBVIOUS
    <2>1. /\ phase = "returning" /\ phase' = "undoing" /\ log' = log /\ pending' = pending
          /\ u \in Swapped /\ Swapped' = Swapped \ {u}
          /\ \A c \in Components \ {u} : live'[c] = live[c]
      BY <1>14, <2>0, ReturnFacts
    <2>2. CASE u = "db"
      BY <1>0, <1>1, <2>1, <2>2 DEF LogParts
    <2>3. CASE u # "db"
      <3>1. live'["db"] = live["db"]
        BY <2>1, <2>3 DEF Components
      <3> QED BY <1>0, <2>1, <3>1 DEF LogParts
    <2> QED BY <2>2, <2>3
  <1> QED BY <1>2, <1>3, <1>4, <1>5, <1>6, <1>7, <1>8, <1>9, <1>10, <1>11, <1>12, <1>13, <1>14,
             Steps DEF StartStep

-----------------------------------------------------------------------------
(* Kills alone begin no empty instance *)

LEMMA DatabaseStep == StagedInv /\ DatabaseInv /\ RestoreNext => DatabaseInv'
  <1> SUFFICES ASSUME StagedInv, DatabaseInv, RestoreNext, faults' = 0, rejections' = 0
               PROVE  DatabaseParts'
    BY DEF DatabaseInv
  <1> USE DEF StagedInv
  <1>0. faults = 0 /\ rejections = 0
    BY Steps, StagingRest, StartRest, ExitRest
  <1>1. DatabaseParts
    BY <1>0 DEF DatabaseInv
  <1>2. "db" \in Components /\ pending["db"] # Fresh
    BY NamesDiffer DEF Components, PendingOrigins
  <1>3. ~LookFails /\ ~Reject /\ ~CommitFails
    BY <1>0, MishapsAssumption DEF LookFails, Reject, CommitFails, Fault
  <1>4. ~StartFails
    <2>1. ~Fault({})
      BY <1>0 DEF Fault
    <2>2. StartFails => Obstructed
      BY <2>1 DEF StartFails
    <2>3. ~Obstructed
      BY <1>0 DEF Obstructed, HandOK
    <2> QED BY <2>2, <2>3
  <1>5. ~ReturnKept /\ ~Undo /\ ~Return /\ ~UndoEnds
    BY <1>1 DEF DatabaseParts, ReturnKept, Undo, Return, UndoEnds
  <1>6. CASE StagingStep
    <2>1. live' = live /\ ran' = ran /\ phase' = "up" /\ phase = "up"
      BY <1>6, StagingRest
    <2> QED BY <1>1, <2>1 DEF DatabaseParts, Looking
  <1>7. CASE ExitGracefully \/ Interrupt
    <2>1. live' = live /\ ran' = ran /\ pending' = pending /\ phase' = "down"
      BY <1>7, ExitRest
    <2> QED BY <1>1, <2>1 DEF DatabaseParts
  <1>8. CASE BeginStart
    <2>1. /\ live' = live /\ ran' = ran /\ pending' = pending /\ phase' = "looking"
          /\ phase = "down" /\ swap'.at = 1
      BY <1>8, BeginFacts
    <2> QED BY <1>1, <2>1 DEF DatabaseParts, Looking
  <1>9. CASE Look
    <2>1. /\ AtHand /\ phase = "looking" /\ (Current = "db" <=> swap.at = 1) /\ swap.at \in 1 .. 4
          /\ live' = live /\ pending' = pending /\ ran' = ran
      BY <1>9, LookFacts, CurrentFacts
    <2>2. CASE /\ pending[Current] = Absent
               /\ swap'.at = swap.at + 1 /\ phase' \in {"looking", "syncing", "opening"}
      <3>1. swap'.at # 1
        BY <2>1, <2>2
      <3> QED BY <1>1, <2>1, <2>2, <3>1 DEF DatabaseParts, Looking
    <2>3. CASE swap' = swap /\ phase' = "preserving"
      BY <1>1, <2>1, <2>3 DEF DatabaseParts, Looking
    <2> QED BY <1>9, <2>2, <2>3, LookFacts
  <1>10. CASE Preserve
    <2>0. PICK u \in Components : u = Current
      BY <1>10, PreserveFacts
    <2>1. /\ (u = "db" <=> swap.at = 1) /\ phase = "preserving" /\ swap'.at = swap.at
          /\ phase' \in {"unlogging", "installing"} /\ ran' = ran /\ pending' = pending
          /\ live'[u] = Absent /\ \A c \in Components \ {u} : live'[c] = live[c]
          /\ pending[u] # Absent
      BY <1>10, <2>0, PreserveFacts, CurrentFacts DEF HandOK
    <2>2. CASE u = "db"
      BY <1>1, <2>1, <2>2, NamesDiffer DEF DatabaseParts, Looking
    <2>3. CASE u # "db"
      <3>1. live'["db"] = live["db"]
        BY <1>2, <2>1, <2>3
      <3> QED BY <1>1, <2>1, <2>3, <3>1 DEF DatabaseParts, Looking
    <2> QED BY <2>2, <2>3
  <1>11. CASE RemoveLog
    <2>1. /\ UNCHANGED <<live, pending, ran>> /\ phase = "unlogging" /\ phase' = "installing"
          /\ swap' = swap
      BY <1>11 DEF RemoveLog
    <2> QED BY <1>1, <2>1 DEF DatabaseParts, Looking
  <1>12. CASE InstallPending
    <2>0. PICK u \in Components : u = Current
      BY <1>12, InstallFacts
    <2>1. /\ (u = "db" <=> swap.at = 1) /\ phase = "installing" /\ swap'.at = swap.at + 1
          /\ phase' \in {"looking", "syncing", "opening"} /\ ran' = ran /\ swap.at \in 1 .. 4
          /\ live'["db"] = IF u = "db" THEN pending["db"] ELSE live["db"]
          /\ pending[u] # Absent
      BY <1>2, <1>12, <2>0, InstallFacts, CurrentFacts DEF HandOK
    <2>2. swap'.at # 1
      BY <2>1
    <2> QED BY <1>1, <1>2, <2>1, <2>2 DEF DatabaseParts, Looking
  <1>13. CASE SyncDataDirectory
    <2>1. UNCHANGED <<live, pending, ran>> /\ phase = "syncing" /\ phase' = "opening"
      BY <1>13 DEF SyncDataDirectory, files
    <2> QED BY <1>1, <2>1 DEF DatabaseParts, Looking
  <1>14. CASE Open
    <2>1. /\ live' = [c \in Components |-> IF live[c] = Absent THEN Fresh ELSE live[c]]
          /\ ran' = live' /\ phase' = "committing" /\ phase = "opening"
      BY <1>14 DEF Open
    <2>2. live["db"] # Absent /\ live'["db"] = live["db"] /\ ran'["db"] = live["db"]
      BY <1>1, <1>2, <2>1 DEF DatabaseParts, Looking
    <2> QED BY <1>1, <2>1, <2>2 DEF DatabaseParts, Looking
  <1>15. CASE Commit
    <2>1. /\ UNCHANGED <<live, pending, ran>> /\ phase = "committing"
          /\ phase' \in {"up", "committing"}
      BY <1>15, CommitFacts
    <2> QED BY <1>1, <2>1 DEF DatabaseParts, Looking
  <1> QED BY <1>3, <1>4, <1>5, <1>6, <1>7, <1>8, <1>9, <1>10, <1>11, <1>12, <1>13, <1>14, <1>15,
             Steps DEF StartStep

-----------------------------------------------------------------------------
(* What serves is whole without faults *)

LEMMA ContentsFacts ==
  /\ "db" \in Components /\ \A o : Contents(o) \subseteq Components /\ "db" \in Contents(o)
  /\ \A b \in Backups : Contents(b) = Delivered(b)
  BY DeliveredFacts DEF Contents, Components

LEMMA WholeStaging ==
  ASSUME StagedInv, WholeParts, StagingStep, faults' = 0 PROVE WholeParts'
  <1> USE DEF StagedInv
  <1>1. ran' = ran /\ phase' = "up" /\ phase = "up" /\ discarded' = discarded /\ discarded = {}
    BY StagingRest DEF WholeParts
  <1>2. ~StageEndsDirty /\ ~ClearFails
    BY MishapsAssumption DEF StageEndsDirty, ClearFails, Fault, RestOK
  <1>3. ASSUME stager' = Idle PROVE Waiting'
    <2>1. stager'.backup = None
      BY <1>3 DEF Idle
    <2>2. CASE ClearPending
      <3>1. /\ Staging(1, 4) /\ 1 \in 0 .. 12 /\ 4 \in 0 .. 12
            /\ stager' = IF stager.at = 4 /\ stager.failed THEN Idle ELSE [stager EXCEPT !.at = @ + 1]
            /\ pending' = [pending EXCEPT ![StartOrder[stager.at]] = Absent]
        BY <2>2 DEF ClearPending, Cleared
      <3>2. stager.at \in 1 .. 4 /\ stager.backup # None
        BY <3>1, StagingFacts
      <3>3. stager.at = 4
        BY <2>1, <3>1, <3>2 DEF RestOK, StagerType
      <3>4. \A i \in 1 .. 3 : pending[StartOrder[i]] = Absent
        BY <1>1, <3>2, <3>3 DEF StagingOK
      <3>5. \A i \in 1 .. 4 : i \in 1 .. 3 \/ i = 4
        OBVIOUS
      <3>6. \A c \in Components : pending'[c] = Absent
        BY <3>1, <3>3, <3>4, <3>5, StartOrderFacts DEF RestOK
      <3> QED BY <3>6 DEF Waiting, AllMissing
    <2>3. CASE Accept
      <3>1. Staging(10, 10) /\ 10 \in 0 .. 12 /\ accepted' = stager.backup /\ pending' = pending
        BY <2>3 DEF Accept
      <3>2. stager.at = 10 /\ stager.backup \in Backups /\ stager.backup # None
        BY <3>1, StagingFacts
      <3>3. CASE stager.backup \in Databases
        <4>1. pending["db"] = stager.backup /\ Delivered(stager.backup) = {"db"}
          BY <3>2, <3>3, DeliveredFacts DEF StagingOK
        <4> QED BY <3>1, <3>2, <3>3, <4>1 DEF Waiting
      <3>4. CASE stager.backup \notin Databases
        <4>1. \A c \in Components : pending[c] = Unpacked(stager.backup, 10, c)
          BY <1>1, <3>2, <3>4 DEF StagingOK
        <4>2. \A c \in Components :
                pending[c] = IF c \in Delivered(stager.backup) THEN stager.backup ELSE Absent
          BY <3>2, <3>4, <4>1, UnpackedFacts
        <4>3. Delivered(stager.backup) \subseteq Components
          BY <3>2, DeliveredFacts
        <4> QED BY <3>1, <3>2, <4>2, <4>3 DEF Waiting
      <3> QED BY <3>3, <3>4
    <2>4. ASSUME ~ClearPending, ~Accept PROVE stager'.backup # None
      <3>1. ASSUME NEW b \in Backups, StageRestore(b) PROVE stager'.backup # None
        BY <3>1, NamesDiffer DEF StageRestore
      <3>2. CASE \/ MakeAssets \/ Unpack \/ RemovePendingDatabase \/ CopyDatabase \/ StageFails
        <4>1. stager.backup # None
          BY <3>2 DEF MakeAssets, Unpack, RemovePendingDatabase, CopyDatabase, StageFails, Staging
        <4>2. stager'.backup = stager.backup
          BY <3>2 DEF MakeAssets, Unpack, RemovePendingDatabase, CopyDatabase, StageFails, StageOn,
                      RestOK, StagerType
        <4> QED BY <4>1, <4>2
      <3> QED BY <1>2, <2>4, <3>1, <3>2 DEF StagingStep
    <2> QED BY <2>1, <2>2, <2>3, <2>4
  <1> QED BY <1>1, <1>3 DEF WholeParts, Swapping, Looking

\* With all of the archive swapped or nothing, what would be opened is whole.
LEMMA OpenWhole ==
  ASSUME StagedInv, HeldParts, WholeParts, Open
  PROVE  AllMissing /\ \A c \in Contents(live'["db"]) : live'[c] = live'["db"]
  <1> USE DEF StagedInv
  <1>1. /\ phase = "opening"
        /\ live' = [c \in Components |-> IF live[c] = Absent THEN Fresh ELSE live[c]]
    BY DEF Open
  <1>2. AllMissing
    <2>1. swap.at - 1 = 4 /\ \A i \in 1 .. swap.at - 1 : pending[StartOrder[i]] = Absent
      BY <1>1 DEF SwapOK, HandOK, Swapping
    <2> QED BY <2>1, StartOrderFacts DEF AllMissing
  <1>3. /\ \A c \in Components : ran[c] # Absent /\ (c \notin Swapped => live[c] = ran[c])
        /\ \A c \in Contents(ran["db"]) : ran[c] = ran["db"]
        /\ Swap
    BY <1>1 DEF HeldParts, WholeParts, Swapping, Serving, Moved, Away
  <1>4. CASE AllMissing /\ swap.done = <<>>
    <2>1. Swapped = {}
      BY <1>4 DEF Swapped, Range
    <2>2. \A c \in Components : live'[c] = ran[c]
      BY <1>1, <1>3, <2>1
    <2> QED BY <1>2, <1>3, <2>2, ContentsFacts
  <1>5. CASE /\ accepted \in Backups
             /\ \A c \in Delivered(accepted) :
                  IF c \in Swapped THEN live[c] = accepted ELSE pending[c] = accepted
    <2>1. \A c \in Delivered(accepted) : live'[c] = accepted
      BY <1>1, <1>2, <1>5, DeliveredFacts, NamesDiffer DEF AllMissing
    <2> QED BY <1>2, <1>5, <2>1, DeliveredFacts, ContentsFacts
  <1> QED BY <1>3, <1>4, <1>5 DEF Swap

LEMMA WholeInstall ==
  ASSUME StagedInv, WholeParts, InstallPending PROVE Swap'
  <1> USE DEF StagedInv
  <1>0. PICK u \in Components : u = Current
    BY InstallFacts
  <1>1. /\ phase = "installing" /\ accepted' = accepted /\ u \notin Swapped
        /\ Swapped' = Swapped \cup {u} /\ pending[u] # Absent
        /\ \A c \in Components :
             /\ live'[c] = IF c = u THEN pending[c] ELSE live[c]
             /\ pending'[c] = IF c = u THEN Absent ELSE pending[c]
    BY <1>0, InstallFacts DEF HandOK
  <1>2. /\ accepted \in Backups
        /\ \A c \in Delivered(accepted) :
             IF c \in Swapped THEN live[c] = accepted ELSE pending[c] = accepted
        /\ accepted \notin Databases =>
             \A c \in Components \ Delivered(accepted) : pending[c] = Absent
    BY <1>1 DEF WholeParts, Swapping, Looking, Swap, AllMissing
  <1>3. ASSUME NEW c \in Delivered(accepted)
        PROVE  IF c \in Swapped' THEN live'[c] = accepted ELSE pending'[c] = accepted
    BY <1>1, <1>2, DeliveredFacts
  <1>4. accepted \notin Databases =>
          \A c \in Components \ Delivered(accepted) : pending'[c] = Absent
    BY <1>1, <1>2
  <1> QED BY <1>1, <1>2, <1>3, <1>4 DEF Swap

LEMMA WholeStep == StagedInv /\ HeldInv /\ WholeInv /\ RestoreNext => WholeInv'
  <1> SUFFICES ASSUME StagedInv, HeldInv, WholeInv, RestoreNext, Faultless' PROVE WholeParts'
    BY DEF WholeInv
  <1> USE DEF StagedInv
  <1>0. /\ Faultless /\ ~Interrupt
        /\ (StartStep \/ ExitGracefully => accepted' = accepted /\ stager' = stager)
    <2>1. /\ interruptions' = interruptions \/ interruptions' # 0
          /\ faults' = faults \/ faults' # 0
      BY Steps, StagingRest, StartRest, ExitRest
    <2> QED BY <2>1, StartRest, ExitRest DEF Faultless
  <1>1. WholeParts /\ HeldParts
    BY <1>0 DEF WholeInv, HeldInv, Secure, Faultless, WholeParts
  <1>2. ~LookFails /\ ~StartFails /\ ~ReturnKept /\ ~CommitFails
    <2>1. \A ignored : ~Fault(ignored)
      BY <1>0 DEF Fault, Faultless
    <2>2. ~Obstructed
      BY <1>0 DEF Obstructed, HandOK, Faultless
    <2> QED BY <1>1, <2>1, <2>2 DEF LookFails, StartFails, ReturnKept, CommitFails, WholeParts
  <1>3. CASE StagingStep
    BY <1>1, <1>3, WholeStaging DEF Faultless
  <1>4. CASE ExitGracefully
    <2>1. /\ phase = "up" /\ stager = Idle /\ phase' = "down"
          /\ UNCHANGED <<live, pending, ran, accepted, discarded>>
      BY <1>4, ExitRest
    <2> QED BY <1>1, <2>1 DEF WholeParts, Swapping, Looking, Waiting, AllMissing
  <1>5. CASE BeginStart
    <2>1. /\ Swapped' = {} /\ swap'.done = <<>> /\ phase = "down" /\ phase' = "looking"
          /\ UNCHANGED <<live, pending, ran, accepted, discarded>>
      BY <1>5, BeginFacts
    <2>2. Swap'
      BY <1>1, <2>1 DEF WholeParts, Waiting, Swap, AllMissing
    <2> QED BY <1>1, <2>1, <2>2 DEF WholeParts, Swapping
  <1>6. CASE Look
    <2>1. /\ phase = "looking" /\ phase' \in {"looking", "syncing", "opening", "preserving"}
          /\ UNCHANGED <<live, pending, ran, accepted, discarded>>
          /\ Swapped' = Swapped /\ swap'.done = swap.done
      BY <1>6, LookFacts
    <2>2. Swap'
      BY <1>1, <2>1 DEF WholeParts, Swapping, Looking, Swap, AllMissing
    <2> QED BY <1>1, <2>1, <2>2 DEF WholeParts, Swapping
  <1>7. CASE Preserve
    <2>0. PICK u \in Components : u = Current
      BY <1>7, PreserveFacts
    <2>1. /\ phase = "preserving" /\ phase' \in {"unlogging", "installing"}
          /\ UNCHANGED <<pending, ran, accepted, discarded>>
          /\ Swapped' = Swapped /\ swap'.done = swap.done /\ u \notin Swapped
          /\ \A c \in Components \ {u} : live'[c] = live[c]
      BY <1>7, <2>0, PreserveFacts, CurrentFacts
    <2>2. Swap
      BY <1>1, <2>1 DEF WholeParts, Swapping, Looking
    <2>3. Swap'
      BY <2>1, <2>2, DeliveredFacts DEF Swap, AllMissing
    <2> QED BY <1>1, <2>1, <2>3 DEF WholeParts, Swapping
  <1>8. CASE RemoveLog \/ SyncDataDirectory \/ Reject
    <2>1. /\ \/ phase = "unlogging" /\ phase' = "installing"
             \/ phase = "syncing" /\ phase' = "opening"
             \/ phase = "opening" /\ phase' = "undoing"
          /\ UNCHANGED <<live, pending, ran>> /\ swap' = swap /\ Swapped' = Swapped
      BY <1>8, QuietFacts DEF RemoveLog, SyncDataDirectory, Reject, files
    <2>2. discarded' = discarded
      BY <1>0, <1>8 DEF RemoveLog, SyncDataDirectory, Reject, NoFault, Fault, Faultless
    <2>3. accepted' = accepted
      BY <1>0, <1>8 DEF StartStep
    <2>4. Swap'
      BY <1>1, <2>1, <2>3 DEF WholeParts, Swapping, Looking, Swap, AllMissing
    <2>5. phase = "opening" => AllMissing'
      <3>1. phase = "opening" =>
              swap.at - 1 = 4 /\ \A i \in 1 .. swap.at - 1 : pending[StartOrder[i]] = Absent
        BY DEF SwapOK, HandOK, Swapping
      <3> QED BY <2>1, <3>1, StartOrderFacts DEF AllMissing
    <2> QED BY <1>1, <2>1, <2>2, <2>4, <2>5 DEF WholeParts
  <1>9. CASE InstallPending
    <2>1. phase' \in {"looking", "syncing", "opening"} /\ ran' = ran /\ discarded' = discarded
      BY <1>9, InstallFacts
    <2> QED BY <1>1, <1>9, <2>1, WholeInstall DEF WholeParts
  <1>10. CASE Open
    <2>1. ran' = live' /\ phase' = "committing" /\ pending' = pending /\ discarded' = discarded
      BY <1>10 DEF Open, NoFault
    <2>2. AllMissing' /\ \A c \in Contents(ran'["db"]) : ran'[c] = ran'["db"]
      BY <1>1, <1>10, <2>1, OpenWhole DEF AllMissing
    <2> QED BY <1>1, <2>1, <2>2 DEF WholeParts, Swapping, Looking
  <1>11. CASE Commit
    <2>1. /\ phase = "committing" /\ phase' \in {"up", "committing"}
          /\ UNCHANGED <<live, pending, ran, discarded>>
      BY <1>11, CommitFacts
    <2>2. AllMissing'
      BY <1>1, <2>1 DEF WholeParts, AllMissing
    <2> QED BY <1>1, <2>1, <2>2 DEF WholeParts, Swapping, Looking, Waiting
  <1>12. CASE Undo
    <2>0. PICK u : u = Last(swap.done)
      OBVIOUS
    <2>1. /\ phase = "undoing" /\ phase' = "returning" /\ UNCHANGED <<pending, ran, discarded>>
          /\ swap' = swap /\ live'[u] = Absent
      BY <1>0, <1>12, <2>0, UndoFacts DEF Faultless
    <2>2. AllMissing'
      BY <1>1, <2>1 DEF WholeParts, AllMissing
    <2>3. live'[Last(swap'.done)] = Absent
      BY <2>0, <2>1
    <2> QED BY <1>1, <2>1, <2>2, <2>3 DEF WholeParts, Swapping, Looking
  <1>13. CASE Return
    <2>0. PICK u : u = Last(swap.done)
      OBVIOUS
    <2>1. /\ phase = "returning" /\ phase' = "undoing" /\ UNCHANGED <<pending, ran>>
          /\ u \in Swapped
      BY <1>13, <2>0, ReturnFacts
    <2>2. live[u] = Absent
      BY <1>1, <2>0, <2>1 DEF WholeParts
    <2>3. discarded' = discarded
      BY <1>0, <1>13, <2>0, <2>2 DEF Return, Fault, NoFault, Faultless
    <2>4. AllMissing'
      BY <1>1, <2>1 DEF WholeParts, AllMissing
    <2> QED BY <1>1, <2>1, <2>3, <2>4 DEF WholeParts, Swapping, Looking
  <1>14. CASE UndoEnds
    <2>1. /\ phase = "undoing" /\ phase' = "down" /\ UNCHANGED <<pending, ran, discarded>>
      BY <1>14 DEF UndoEnds, files, NoFault
    <2>2. AllMissing'
      BY <1>1, <2>1 DEF WholeParts, AllMissing
    <2> QED BY <1>1, <2>1, <2>2 DEF WholeParts, Swapping, Looking, Waiting
  <1> QED BY <1>0, <1>2, <1>3, <1>4, <1>5, <1>6, <1>7, <1>8, <1>9, <1>10, <1>11, <1>12, <1>13,
             <1>14, Steps DEF StartStep

-----------------------------------------------------------------------------
(* The theorems *)

\* All that the properties need, at the start and after every step.
RestoreIInv == StagedInv /\ HeldInv /\ LogInv /\ DatabaseInv /\ WholeInv

LEMMA InitHolds == RestoreInit => RestoreIInv
  <1> SUFFICES ASSUME RestoreInit PROVE RestoreIInv
    OBVIOUS
  <1>1. StagedInv
    BY InitStaged
  <1>2. HeldInv
    BY NamesDiffer DEF RestoreInit, HeldInv, HeldParts, Serving
  <1>3. LogInv
    BY DEF RestoreInit, LogInv, LogParts
  <1>4. DatabaseInv
    BY NamesDiffer DEF RestoreInit, DatabaseInv, DatabaseParts, Looking, Components
  <1>5. WholeInv
    BY ContentsFacts DEF RestoreInit, WholeInv, WholeParts, Swapping, Looking, Waiting, AllMissing
  <1> QED BY <1>1, <1>2, <1>3, <1>4, <1>5 DEF RestoreIInv

LEMMA UnchangedHolds == RestoreIInv /\ UNCHANGED restoreVars => RestoreIInv'
  <1> SUFFICES ASSUME RestoreIInv, UNCHANGED restoreVars PROVE RestoreIInv'
    OBVIOUS
  <1>1. /\ UNCHANGED <<live, pending, previous, log, phase, stager, swap, accepted, ran>>
        /\ UNCHANGED <<discarded, interruptions, faults, rejections>>
    BY DEF restoreVars
  <1>2. Swapped' = Swapped /\ Current' = Current
    BY <1>1 DEF Swapped, Current
  <1>3. StagedInv'
    BY <1>1, <1>2 DEF RestoreIInv, StagedInv, RestOK, SwapOK, AtHand, Looking, Swapping, HandOK,
                      StagingOK, PendingOrigins, PendingOfOneArchive
  <1>4. HeldInv'
    BY <1>1, <1>2 DEF RestoreIInv, HeldInv, HeldParts, Moved, Away, Serving, Secure
  <1>5. LogInv'
    BY <1>1, <1>2 DEF RestoreIInv, LogInv, LogParts
  <1>6. DatabaseInv'
    BY <1>1, <1>2 DEF RestoreIInv, DatabaseInv, DatabaseParts, Looking
  <1>7. WholeInv'
    BY <1>1, <1>2 DEF RestoreIInv, WholeInv, WholeParts, Swapping, Looking, Waiting, Swap,
                      AllMissing, Faultless
  <1> QED BY <1>3, <1>4, <1>5, <1>6, <1>7 DEF RestoreIInv

LEMMA StepHolds == RestoreIInv /\ [RestoreNext]_restoreVars => RestoreIInv'
  BY StagedStep, HeldStep, LogStep, DatabaseStep, WholeStep, UnchangedHolds DEF RestoreIInv

LEMMA Invariant == RestoreSpec => []RestoreIInv
  BY InitHolds, StepHolds, PTL DEF RestoreSpec

LEMMA NothingLost == RestoreIInv => NothingIsLost
  <1> SUFFICES ASSUME RestoreIInv PROVE NothingIsLost
    OBVIOUS
  <1>1. WholeWithoutFaults
    <2> SUFFICES ASSUME interruptions = 0, faults = 0, phase = "up"
                 PROVE  \A c \in Contents(live["db"]) : live[c] = live["db"]
      BY DEF WholeWithoutFaults, WholeInstance
    <2>1. WholeParts
      BY DEF RestoreIInv, WholeInv, Faultless
    <2>2. HeldParts
      BY <2>1 DEF RestoreIInv, HeldInv, Secure, WholeParts
    <2> QED BY <2>1, <2>2 DEF WholeParts, HeldParts, Serving
  <1>2. SurvivesWithReturns
    <2> SUFFICES ASSUME interruptions = 0, "return" \notin discarded, NEW c \in Components
                 PROVE  ran[c] \in {live[c], previous[c]}
      BY DEF SurvivesWithReturns, PreRestoreSurvives
    <2>1. HeldParts
      BY DEF RestoreIInv, HeldInv, Secure
    <2> QED BY <2>1 DEF HeldParts
  <1>3. LogIsItsOwn
    <2> SUFFICES ASSUME "unlog" \notin discarded, phase = "opening"
                 PROVE  log \in {Absent, live["db"]}
      BY DEF LogIsItsOwn
    <2>1. LogParts
      BY DEF RestoreIInv, LogInv
    <2>2. pending["db"] = Absent
      <3>1. swap.at - 1 = 4 /\ \A i \in 1 .. swap.at - 1 : pending[StartOrder[i]] = Absent
        BY DEF RestoreIInv, StagedInv, SwapOK, HandOK, Swapping
      <3> QED BY <3>1, StartOrderFacts, ContentsFacts
    <2> QED BY <2>1, <2>2 DEF LogParts
  <1> QED BY <1>1, <1>2, <1>3 DEF NothingIsLost

LEMMA PendingSound == RestoreIInv => PendingIsSound
  <1> SUFFICES ASSUME RestoreIInv PROVE PendingIsSound
    OBVIOUS
  <1>1. ASSUME interruptions = 0, faults = 0, stager = Idle, NEW c \in Components
        PROVE  pending[c] \in {Absent, accepted} \/ (c # "db" /\ accepted \in Databases)
    <2>1. WholeParts /\ phase \in Phases
      BY <1>1 DEF RestoreIInv, StagedInv, RestOK, WholeInv, Faultless
    <2>2. Waiting \/ (Swapping /\ Swap) \/ AllMissing
      BY <1>1, <2>1 DEF WholeParts, Phases, Swapping, Looking
    <2>3. CASE Waiting
      BY <2>3, DeliveredFacts DEF Waiting, AllMissing
    <2>4. CASE Swapping /\ Swap
      <3>1. c \in Swapped => pending[c] = Absent
        BY <2>4 DEF RestoreIInv, StagedInv, SwapOK, HandOK
      <3> QED BY <2>4, <3>1, DeliveredFacts DEF Swap, AllMissing
    <2> QED BY <2>2, <2>3, <2>4 DEF AllMissing
  <1> QED BY <1>1 DEF RestoreIInv, StagedInv, PendingIsSound, PendingIsAccepted

\* Every value of every variable of Restore has its type.
THEOREM RestoreTypeCorrect == RestoreSpec => []RestoreTypeOK
  <1>1. RestoreIInv => RestoreTypeOK
    BY TypesHold DEF RestoreIInv, StagedInv
  <1> QED BY <1>1, Invariant, PTL

\* Without faults and kills, what serves is one backup or the instance as it was;
\* without kills and with every way back succeeding, every file of what ran last
\* is in place or beside it; and a database is opened with its own log.
THEOREM RestoreLosesNothing == RestoreSpec => []NothingIsLost
  BY Invariant, NothingLost, PTL

\* Kills alone, in any number and with no operation failing and no database
\* rejected, never make a start come up with an empty database.
THEOREM KillsBeginNothingEmpty == RestoreSpec => []NeverStartsEmpty
  <1>1. RestoreIInv => NeverStartsEmpty
    BY DEF RestoreIInv, DatabaseInv, DatabaseParts, NeverStartsEmpty
  <1> QED BY <1>1, Invariant, PTL

\* Unless a removal failed, no two archives wait for the next start together;
\* without faults and kills, what waits is of the backup accepted last, or a
\* plain database with files that waited before it.
THEOREM OneBackupWaits == RestoreSpec => []PendingIsSound
  BY Invariant, PendingSound, PTL
=============================================================================
