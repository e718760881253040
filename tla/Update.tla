------------------------------- MODULE Update -------------------------------
(***************************************************************************)
(* Self-update of a binary deployment (internal/maintenance/update.go and  *)
(* update_supervisor.go, internal/httpapi/update.go): the update_state row,*)
(* the executable and its rollback copy on disk, the process that runs, and*)
(* the administrators and the supervisor that check and apply updates.     *)
(*                                                                         *)
(* Apply is a sequence of database writes and file operations that a crash,*)
(* a failing operation or a cancelled context may cut anywhere.  The policy*)
(* (automatic check and apply, maintenance window) only decides when the   *)
(* supervisor acts; here it may act at any time.                           *)
(***************************************************************************)
EXTENDS Integers

CONSTANTS
  Admins,       \* administrators' browser sessions
  MaxVersion,   \* bound: versions 1 .. MaxVersion are ever released
  MaxChecks,    \* bound: checks that wait for the manifest at once
  MaxCrashes    \* bound: crashes the model explores

ASSUME BoundAssumption ==
  MaxVersion \in Nat \ {0} /\ MaxChecks \in Nat \ {0} /\ MaxCrashes \in Nat

VARIABLES
  latest,     \* update_state.latest_version, 0 for NULL
  status,     \* update_state.status
  checks,     \* number of Checks that wait for the manifest
  up,         \* the process runs
  stopping,   \* the process was asked to restart
  running,    \* version of the process, also of the last one when it is down
  exe,        \* version of the executable file, Missing if there is none
  rollback,   \* rollback[v]: version of the file <executable>.rollback-v
  applier,    \* applier[a]: progress of a's call of Apply
  crashes     \* number of crashes so far

state == <<latest, status>>
disk == <<exe, rollback>>
process == <<up, stopping, running, crashes>>
vars == <<latest, status, checks, up, stopping, running, exe,
          rollback, applier, crashes>>

-----------------------------------------------------------------------------

Supervisor == "supervisor"
Appliers == Admins \cup {Supervisor}
Versions == 1 .. MaxVersion
Missing == 0

Statuses == {"idle", "checking", "available", "downloading", "applying",
             "restart-required", "failed"}

Busy == {"downloading", "applying"}

\* Stages that hold applyMu, in their order, and those that do not.
Holding == {"verified", "downloading", "downloaded", "saved", "applying",
            "cleared", "moved", "installed", "unsynced", "synced", "marked"}
Stages == Holding \cup {"idle", "called", "accepted", "done", "error"}

\* A call of Apply: its stage, the version it was asked for, whether its
\* context is alive, and whether the state it answered with was
\* restart-required.
Call(stage, v) == [at |-> stage, wanted |-> v, present |-> TRUE, restart |-> FALSE]

NoCall == Call("idle", 0)

Calls == [at : Stages, wanted : 0 .. MaxVersion, present : BOOLEAN, restart : BOOLEAN]

Init ==
  /\ latest = 0
  /\ status = "idle"
  /\ checks = 0
  /\ up = TRUE
  /\ stopping = FALSE
  /\ running = 1
  /\ exe = 1
  /\ rollback = [v \in Versions |-> Missing]
  /\ applier = [a \in Appliers |-> NoCall]
  /\ crashes = 0

\* The supervisor works in the context of the process, which a restart
\* cancels; an administrator's request in that of its connection.
Present(a) == IF a = Supervisor THEN ~stopping ELSE applier[a].present

At(a, stage) == up /\ applier[a].at = stage
Goto(a, stage) == applier' = [applier EXCEPT ![a].at = stage]

\* The call is over; its outcome is all that is kept of it.
End(a, outcome) == applier' = [applier EXCEPT ![a] = Call(outcome, 0)]

FailureStatus == "failed"

\* recordUpdateFailure, in the context of what failed; its own failure is
\* ignored.
Fail(a) ==
  /\ \/ Present(a) /\ status' = FailureStatus
     \/ UNCHANGED status
  /\ End(a, "error")

\* A stage that begins with a write of the status, in the context of the call.
Mark(a, from, to, value) ==
  /\ At(a, from)
  /\ \/ Present(a) /\ status' = value /\ Goto(a, to)
     \/ UNCHANGED status /\ End(a, "error")
  /\ UNCHANGED <<latest, checks, process, disk>>

-----------------------------------------------------------------------------
(* Checking *)

\* Mutant: no check while an update is applied.
CheckBeginUnlessBusy ==
  /\ up /\ checks < MaxChecks /\ status \notin Busy
  /\ checks' = checks + 1
  /\ status' = "checking"
  /\ UNCHANGED <<latest, process, disk, applier>>

CheckBegin ==
  /\ up /\ checks < MaxChecks
  /\ checks' = checks + 1
  /\ status' = "checking"
  /\ UNCHANGED <<latest, process, disk, applier>>

\* The manifest arrives, with whichever version the server offers by now; or
\* it cannot be had, or nobody waits for it any more.
CheckEnd ==
  /\ up /\ checks > 0
  /\ checks' = checks - 1
  /\ \/ \E released \in Versions :
          /\ latest' = released
          /\ status' = IF released > running THEN "available" ELSE "idle"
     \/ status' = FailureStatus /\ UNCHANGED latest
     \/ UNCHANGED state
  /\ UNCHANGED <<process, disk, applier>>

-----------------------------------------------------------------------------
(* Applying: before the executable is touched *)

Resting(a) == up /\ applier[a].at \in {"idle", "done", "error"}

\* An administrator asks for a version the server has offered.
Request(a, v) ==
  /\ a \in Admins /\ Resting(a)
  /\ applier' = [applier EXCEPT ![a] = Call("called", v)]
  /\ UNCHANGED <<state, checks, process, disk>>

\* The supervisor's tick reads the state and finds an update.
Tick ==
  /\ Resting(Supervisor) /\ ~stopping
  /\ status = "available"
  /\ applier' = [applier EXCEPT ![Supervisor] = Call("called", latest)]
  /\ UNCHANGED <<state, checks, process, disk>>

\* Mutant: the versions are not compared.
ApplicableAny(v) == status \notin Busy /\ v = latest /\ v # 0

\* The state row admits the version; nothing is said of restart-required.
Applicable(v) == status \notin Busy /\ v = latest /\ v > running

\* TryLock, then the checks against the state row.
Enter(a) ==
  /\ At(a, "called")
  /\ IF (\A b \in Appliers : applier[b].at \notin Holding) /\ Applicable(applier[a].wanted)
       THEN Goto(a, "verified")
       ELSE End(a, "error")
  /\ UNCHANGED <<state, checks, process, disk>>

MarkDownloading(a) == Mark(a, "verified", "downloading", "downloading")

\* The executable is found, the asset downloaded and verified, then the data
\* is backed up; each may fail, and does when the context is cancelled.
Prepare(a, from, to) ==
  /\ At(a, from)
  /\ \/ Present(a) /\ exe # Missing /\ Goto(a, to) /\ UNCHANGED status
     \/ Fail(a)
  /\ UNCHANGED <<latest, checks, process, disk>>

Download(a) == Prepare(a, "downloading", "downloaded")
Backup(a) == Prepare(a, "downloaded", "saved")

MarkApplying(a) == Mark(a, "saved", "applying", "applying")

-----------------------------------------------------------------------------
(* Applying: the executable is replaced *)

ClearRollback(a) ==
  /\ At(a, "applying")
  /\ rollback' = [rollback EXCEPT ![running] = Missing]
  /\ Goto(a, "cleared")
  /\ UNCHANGED <<state, checks, process, exe>>

\* Mutant: the old rollback copy is removed after the move.
MoveAwayThenClear(a) ==
  /\ At(a, "cleared")
  /\ \/ /\ exe' = Missing
        /\ Goto(a, "moved")
        /\ UNCHANGED <<rollback, status>>
     \/ Fail(a) /\ UNCHANGED disk
  /\ UNCHANGED <<latest, checks, process>>

MoveAway(a) ==
  /\ At(a, "cleared")
  /\ \/ /\ rollback' = [rollback EXCEPT ![running] = exe]
        /\ exe' = Missing
        /\ Goto(a, "moved")
        /\ UNCHANGED status
     \/ Fail(a) /\ UNCHANGED disk
  /\ UNCHANGED <<latest, checks, process>>

\* The rollback copy goes back to its place, if that rename succeeds.
PutBack ==
  \/ /\ exe' = rollback[running]
     /\ rollback' = [rollback EXCEPT ![running] = Missing]
  \/ UNCHANGED disk

Install(a) ==
  /\ At(a, "moved")
  /\ \/ /\ exe' = applier[a].wanted
        /\ Goto(a, "installed")
        /\ UNCHANGED <<rollback, status>>
     \/ PutBack /\ Fail(a)
  /\ UNCHANGED <<latest, checks, process>>

\* A directory that cannot be synced: the new executable is removed first.
SyncDirectory(a) ==
  /\ At(a, "installed")
  /\ \/ Goto(a, "synced") /\ UNCHANGED exe
     \/ /\ exe' = Missing
        /\ Goto(a, "unsynced")
  /\ UNCHANGED <<state, checks, process, rollback>>

Revert(a) ==
  /\ At(a, "unsynced")
  /\ PutBack
  /\ Fail(a)
  /\ UNCHANGED <<latest, checks, process>>

-----------------------------------------------------------------------------
(* Applying: the outcome is recorded *)

MarkRestart(a) == Mark(a, "synced", "marked", "restart-required")

\* Apply answers with the state it reads back, whatever that has become.
ReadState(a) ==
  /\ At(a, "marked")
  /\ \/ /\ Present(a)
        /\ applier' = [applier EXCEPT ![a].at = "accepted", ![a].restart = (status = "restart-required")]
     \/ End(a, "error")
  /\ UNCHANGED <<state, checks, process, disk>>

RequestRestart(a) ==
  /\ At(a, "accepted")
  /\ stopping' = (stopping \/ applier[a].restart)
  /\ End(a, "done")
  /\ UNCHANGED <<state, checks, up, running, crashes, disk>>

-----------------------------------------------------------------------------
(* The environment *)

Disconnect(a) ==
  /\ a \in Admins /\ up
  /\ applier[a].at \in Holding \cup {"called"}
  /\ applier[a].present
  /\ applier' = [applier EXCEPT ![a].present = FALSE]
  /\ UNCHANGED <<state, checks, process, disk>>

Exit ==
  /\ up' = FALSE
  /\ stopping' = FALSE
  /\ checks' = 0
  /\ applier' = [a \in Appliers |-> NoCall]
  /\ UNCHANGED <<state, running, disk>>

\* Graceful shutdown waits a while for requests, then exits regardless.
Shutdown == up /\ stopping /\ Exit /\ UNCHANGED crashes

Crash == up /\ crashes < MaxCrashes /\ Exit /\ crashes' = crashes + 1

\* systemd starts the executable again.  Initialize keeps the status.
Start ==
  /\ ~up /\ exe # Missing
  /\ up' = TRUE
  /\ running' = exe
  /\ UNCHANGED <<state, checks, stopping, crashes, disk, applier>>

-----------------------------------------------------------------------------

Apply(a) ==
  \/ Enter(a) \/ MarkDownloading(a) \/ Download(a) \/ Backup(a) \/ MarkApplying(a)
  \/ ClearRollback(a) \/ MoveAway(a) \/ Install(a) \/ SyncDirectory(a) \/ Revert(a)
  \/ MarkRestart(a) \/ ReadState(a) \/ RequestRestart(a)

Next ==
  \/ CheckBegin \/ CheckEnd \/ Tick
  \/ \E a \in Admins : (\E v \in Versions : Request(a, v)) \/ Disconnect(a)
  \/ \E a \in Appliers : Apply(a)
  \/ Shutdown \/ Crash \/ Start

\* The supervisor checks every six hours, between its own calls of Apply,
\* until it is asked to stop.
SupervisorCheck == Resting(Supervisor) /\ ~stopping /\ CheckBegin

\* With automatic checks on (the default), the supervisor's loop runs; every
\* call of it ends, the HTTP client by its timeout of 15 seconds; a shutdown
\* ends by its own timeout, and systemd starts the process again.
Fairness ==
  /\ WF_vars(SupervisorCheck) /\ WF_vars(CheckEnd)
  /\ WF_vars(Apply(Supervisor))
  /\ WF_vars(Shutdown) /\ WF_vars(Start)

Spec == Init /\ [][Next]_vars /\ Fairness

-----------------------------------------------------------------------------
(* Properties *)

TypeOK ==
  /\ latest \in 0 .. MaxVersion
  /\ status \in Statuses
  /\ checks \in 0 .. MaxChecks /\ up \in BOOLEAN /\ stopping \in BOOLEAN
  /\ running \in Versions
  /\ exe \in 0 .. MaxVersion
  /\ rollback \in [Versions -> 0 .. MaxVersion]
  /\ applier \in [Appliers -> Calls]
  /\ crashes \in 0 .. MaxCrashes

\* Whatever fails, and wherever the process dies, a program is left on disk:
\* under the executable's name or under that of the rollback copy, from where
\* an operator can put it back (update.go Apply).
SomeBinarySurvives == exe # Missing \/ rollback[running] # Missing

\* No update, and no update that is reverted, puts an executable older than
\* the process in place, so that no restart brings an older program, also when
\* the server withdraws a release or updates follow each other without a
\* restart.  A version that was installed and not yet started has no such
\* protection: Apply compares with the version that runs, and an older release
\* may replace it (update.go:241-250).
NoDowngrade == [][running' >= running /\ (exe' = Missing \/ exe' >= running)]_vars

\* A crash or a lost connection leaves the status at downloading or applying,
\* which blocks every later Apply; the next check clears it, unless there is
\* no executable left to start.
BusyStatusClears == status \in Busy ~> (status \notin Busy \/ exe = Missing)

\* "never Abort (replay would re-replace binaries) and always request restart"
\* (httpapi/update.go apply): Apply fails only if nothing was installed.
ErrorMeansNotInstalled ==
  [][\A a \in Admins : applier[a].at \in {"synced", "marked"} => applier'[a].at # "error"]_vars
=============================================================================
