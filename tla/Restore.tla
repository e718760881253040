------------------------------ MODULE Restore ------------------------------
(***************************************************************************)
(* Restoring an instance from a backup (internal/maintenance/backup.go and *)
(* the start of internal/app/run.go).  A request unpacks the archive into  *)
(* .restore-pending files beside the live ones; the next start of the      *)
(* process moves the live files to .pre-restore, the pending ones into     *)
(* their place, opens the database, and then either removes the old files  *)
(* or moves them back.                                                     *)
(*                                                                         *)
(* Each action is one file operation; each may fail, and the process may be*)
(* killed between any two.  Of a file only its origin is kept: the instance*)
(* as it was, a backup, an unfinished copy, a mixture of several, or a file*)
(* made anew.  The token of a restore and the digest of a backup only      *)
(* decide whether staging begins.                                          *)
(***************************************************************************)
EXTENDS Integers, SequencesExt

CONSTANTS
  Backups,     \* backups an administrator can restore
  Databases,   \* those of them that are a plain database, not an archive
  Bundle(_),   \* the components a backup contains
  MaxMishaps   \* bound: kills, failing operations and rejected instances in all

Components == {"db", "assets", "master", "analytics"}

ASSUME BundleAssumption ==
  /\ \A b \in Backups : Bundle(b) \subseteq Components /\ "db" \in Bundle(b)
  /\ Databases \subseteq Backups /\ \A b \in Databases : Bundle(b) = {"db"}

ASSUME BackupsAssumption ==
  Backups \cap {"missing", "original", "incomplete", "mixed", "fresh", "none"} = {}

ASSUME MishapsAssumption == MaxMishaps \in Nat

VARIABLES
  live,      \* live[c]: origin of the file or directory in use
  pending,   \* pending[c]: origin of its .restore-pending sibling
  previous,  \* previous[c]: origin of its .pre-restore sibling
  log,       \* the database the -wal file beside the live one belongs to
  phase,     \* what the process is doing
  stager,    \* the StageRestore that holds restoreMu
  swap,      \* RestoreSwap: the component at hand and those already swapped
  accepted,  \* history: the backup last accepted for restore
  ran,       \* history: ran[c] is the origin the last opened instance ran with
  discarded, \* history: operations that failed and whose error was discarded
  interruptions, faults, rejections   \* how often each happened

files == <<live, pending, previous, log>>
restoreVars == <<live, pending, previous, log, phase, stager, swap, accepted, ran,
                 discarded, interruptions, faults, rejections>>

-----------------------------------------------------------------------------

Absent == "missing"
Original == "original"
Incomplete == "incomplete"
Mixed == "mixed"
Fresh == "fresh"
None == "none"

Origins == Backups \cup {Absent, Original, Incomplete, Mixed, Fresh}

\* The order in which a start takes the components, and that of an archive.
StartOrder == <<"db", "assets", "master", "analytics">>
ArchiveOrder == <<"db", "master", "analytics", "assets">>

Phases == {"up", "down", "looking", "preserving", "unlogging", "installing", "syncing",
           "opening", "committing", "putting back", "undoing", "returning"}

\* Operations whose failure goes unnoticed: removing a pending file or a log,
\* moving a kept file back.
Unnoticed == {"clear", "unlog", "return"}

Idle == [backup |-> None, at |-> 0, failed |-> FALSE]
NoSwap == [at |-> 1, done |-> <<>>, kept |-> {}]

RestoreInit ==
  /\ live = [c \in Components |-> Original]
  /\ pending = [c \in Components |-> Absent]
  /\ previous = [c \in Components |-> Absent]
  /\ log = Absent
  /\ phase = "up"
  /\ stager = Idle
  /\ swap = NoSwap
  /\ accepted = None
  /\ ran = live
  /\ discarded = {}
  /\ interruptions = 0
  /\ faults = 0
  /\ rejections = 0

\* An operation fails; an error that is discarded is remembered.
MayFail == interruptions + faults + rejections < MaxMishaps

Fault(ignored) ==
  /\ MayFail
  /\ faults' = faults + 1
  /\ discarded' = discarded \cup ignored

NoFault == UNCHANGED <<faults, discarded>>

-----------------------------------------------------------------------------
(* Staging an archive: steps 1 to 4 clear old pending files, 5 makes the    *)
(* directory of assets, 6 to 9 unpack.  Staging a database: step 11 removes *)
(* the pending one, 12 moves the copy there.  Step 10 ends both: an archive *)
(* is validated, the directory is synced and the token spent.               *)

Staging(first, last) == phase = "up" /\ stager.backup # None /\ stager.at \in first .. last

StageFrame == UNCHANGED <<live, previous, log, phase, swap, ran, interruptions, rejections>>

StageOn(next) == stager' = [stager EXCEPT !.at = next] /\ UNCHANGED accepted /\ StageFrame

StageRestore(b) ==
  /\ phase = "up" /\ stager = Idle
  /\ stager' = [backup |-> b, at |-> IF b \in Databases THEN 11 ELSE 1, failed |-> FALSE]
  /\ UNCHANGED <<pending, accepted>> /\ StageFrame /\ NoFault

\* removePendingRestore, at the beginning and when staging failed.
Cleared ==
  /\ stager' = IF stager.at = 4 /\ stager.failed THEN Idle ELSE [stager EXCEPT !.at = @ + 1]
  /\ UNCHANGED accepted /\ StageFrame

\* Mutant: only the pending database is removed.
ClearPendingDatabase ==
  /\ Staging(1, 4)
  /\ pending' = [pending EXCEPT !["db"] = Absent]
  /\ Cleared /\ NoFault

ClearPending ==
  /\ Staging(1, 4)
  /\ pending' = [pending EXCEPT ![StartOrder[stager.at]] = Absent]
  /\ Cleared /\ NoFault

\* A removal fails, and may leave a part of the assets; staging goes on.
ClearFails ==
  /\ Staging(1, 4)
  /\ pending[StartOrder[stager.at]] # Absent
  /\ \/ UNCHANGED pending
     \/ stager.at = 2 /\ pending' = [pending EXCEPT !["assets"] = Incomplete]
  /\ Cleared /\ Fault({"clear"})

\* A directory that is still there is taken as it is.
MakeAssets ==
  /\ Staging(5, 5)
  /\ pending' = [pending EXCEPT !["assets"] = IF @ = Absent THEN Incomplete ELSE Mixed]
  /\ StageOn(6) /\ NoFault

\* What staging b delivers: of an archive always a directory of assets.
Delivered(b) == Bundle(b) \cup IF b \in Databases THEN {} ELSE {"assets"}

Unpack ==
  /\ Staging(6, 9)
  /\ LET c == ArchiveOrder[stager.at - 5] IN
       pending' = IF c \in Delivered(stager.backup) /\ pending[c] # Mixed
                    THEN [pending EXCEPT ![c] = stager.backup] ELSE pending
  /\ StageOn(stager.at + 1) /\ NoFault

\* copyFileAtomic, which leaves the other pending files alone.
RemovePendingDatabase ==
  /\ Staging(11, 11)
  /\ pending' = [pending EXCEPT !["db"] = Absent]
  /\ StageOn(12) /\ NoFault

CopyDatabase ==
  /\ Staging(12, 12)
  /\ pending' = [pending EXCEPT !["db"] = stager.backup]
  /\ StageOn(10) /\ NoFault

\* An entry that cannot be written, an invalid database, a token that cannot
\* be spent.
StageFails ==
  /\ Staging(5, 10)
  /\ stager' = [backup |-> stager.backup, at |-> 1, failed |-> TRUE]
  /\ UNCHANGED <<pending, accepted>> /\ StageFrame /\ NoFault

\* The copy of a database cannot be moved, or the directory not be synced: the
\* request fails, and what is pending stays.
StageEndsDirty ==
  /\ Staging(10, 10) \/ Staging(12, 12)
  /\ stager' = Idle
  /\ UNCHANGED <<pending, accepted>> /\ StageFrame /\ Fault({})

\* The token is spent and the request is answered.
Accept ==
  /\ Staging(10, 10)
  /\ accepted' = stager.backup
  /\ stager' = Idle
  /\ UNCHANGED pending /\ StageFrame /\ NoFault

-----------------------------------------------------------------------------
(* Starting: ApplyPendingRestore *)

StartFrame == UNCHANGED <<stager, accepted, interruptions>>

BeginStart ==
  /\ phase = "down"
  /\ phase' = "looking"
  /\ swap' = NoSwap
  /\ UNCHANGED <<files, ran, rejections>> /\ StartFrame /\ NoFault

Current == StartOrder[swap.at]

\* All components are handled when the last one is passed; the directory is
\* synced only if something was swapped.
Pass(done) ==
  /\ swap' = [swap EXCEPT !.at = @ + 1, !.done = done]
  /\ phase' = CASE swap.at < 4 -> "looking"
                [] swap.at = 4 /\ done # <<>> -> "syncing"
                [] OTHER -> "opening"

LookFrame == UNCHANGED <<live, pending, log, ran, rejections>> /\ StartFrame

\* Mutant: a component without a live file is passed over.
LookForLive ==
  /\ phase = "looking"
  /\ \/ Absent \in {live[Current], pending[Current]} /\ Pass(swap.done) /\ UNCHANGED previous
     \/ /\ Absent \notin {live[Current], pending[Current]}
        /\ previous' = [previous EXCEPT ![Current] = Absent]
        /\ phase' = "preserving"
        /\ UNCHANGED swap
  /\ LookFrame /\ NoFault

\* A .pre-restore file left from an earlier start is removed first.
Look ==
  /\ phase = "looking"
  /\ \/ pending[Current] = Absent /\ Pass(swap.done) /\ UNCHANGED previous
     \/ /\ pending[Current] # Absent
        /\ previous' = [previous EXCEPT ![Current] = Absent]
        /\ phase' = "preserving"
        /\ UNCHANGED swap
  /\ LookFrame /\ NoFault

\* That removal fails; the start goes on.
LookFails ==
  /\ phase = "looking" /\ pending[Current] # Absent /\ previous[Current] # Absent
  /\ phase' = "preserving"
  /\ UNCHANGED <<previous, swap>> /\ LookFrame /\ Fault({})

\* A rename replaces a file and no directory.
Obstructed == phase = "preserving" /\ Current = "assets" /\ previous["assets"] # Absent

Preserve ==
  /\ phase = "preserving"
  /\ phase' = IF Current = "db" THEN "unlogging" ELSE "installing"
  /\ IF live[Current] = Absent
       THEN UNCHANGED <<live, previous, swap>>
       ELSE /\ ~Obstructed
            /\ previous' = [previous EXCEPT ![Current] = live[Current]]
            /\ live' = [live EXCEPT ![Current] = Absent]
            /\ swap' = [swap EXCEPT !.kept = @ \cup {Current}]
  /\ UNCHANGED <<pending, log, ran, rejections>> /\ StartFrame /\ NoFault

\* The log of the database that was moved away.
RemoveLog ==
  /\ phase = "unlogging"
  /\ phase' = "installing"
  /\ \/ log' = Absent /\ NoFault
     \/ log # Absent /\ UNCHANGED log /\ Fault({"unlog"})
  /\ UNCHANGED <<live, pending, previous, swap, ran, rejections>> /\ StartFrame

InstallPending ==
  /\ phase = "installing"
  /\ live' = [live EXCEPT ![Current] = pending[Current]]
  /\ pending' = [pending EXCEPT ![Current] = Absent]
  /\ Pass(Append(swap.done, Current))
  /\ UNCHANGED <<previous, log, ran, rejections>> /\ StartFrame /\ NoFault

SyncDataDirectory ==
  /\ phase = "syncing"
  /\ phase' = "opening"
  /\ UNCHANGED <<files, swap, ran, rejections>> /\ StartFrame /\ NoFault

\* A file cannot be looked at or renamed, or the directory not be synced: the
\* component at hand goes back if it was moved away, then the swapped ones do.
StartFails ==
  /\ phase \in {"looking", "preserving", "installing", "syncing"}
  /\ phase' = IF phase = "installing" /\ Current \in swap.kept THEN "putting back" ELSE "undoing"
  /\ \/ Fault({})
     \/ Obstructed /\ NoFault
  /\ UNCHANGED <<files, swap, ran, rejections>> /\ StartFrame

\* The kept file returns, or stays where it is.
ReturnKept ==
  /\ phase = "putting back"
  /\ phase' = "undoing"
  /\ \/ /\ live' = [live EXCEPT ![Current] = previous[Current]]
        /\ previous' = [previous EXCEPT ![Current] = Absent]
        /\ NoFault
     \/ UNCHANGED <<live, previous>> /\ Fault({"return"})
  /\ UNCHANGED <<pending, log, swap, ran, rejections>> /\ StartFrame

-----------------------------------------------------------------------------
(* Starting: the database is opened and migrated, the swap is committed *)

\* What is missing is created, the way a first start does.
Open ==
  /\ phase = "opening"
  /\ phase' = "committing"
  /\ live' = [c \in Components |-> IF live[c] = Absent THEN Fresh ELSE live[c]]
  /\ log' = Absent
  /\ ran' = live'
  /\ UNCHANGED <<pending, previous, swap, rejections>> /\ StartFrame /\ NoFault

\* The restored key cannot be read, or the database not be migrated.
Reject ==
  /\ phase = "opening" /\ MayFail
  /\ phase' = "undoing"
  /\ rejections' = rejections + 1
  /\ UNCHANGED <<files, swap, ran>> /\ StartFrame /\ NoFault

Commit ==
  /\ phase = "committing"
  /\ IF swap.done = <<>>
       THEN phase' = "up" /\ UNCHANGED <<previous, swap>>
       ELSE /\ previous' = [previous EXCEPT ![Head(swap.done)] = Absent]
            /\ swap' = [swap EXCEPT !.done = Tail(@)]
            /\ UNCHANGED phase
  /\ UNCHANGED <<live, pending, log, ran, rejections>> /\ StartFrame /\ NoFault

\* A file that cannot be removed ends the start, with the restore in place.
CommitFails ==
  /\ phase = "committing" /\ swap.done # <<>>
  /\ phase' = "down"
  /\ UNCHANGED <<files, swap, ran, rejections>> /\ StartFrame /\ Fault({})

\* Rollback takes the components in reverse: it removes the new file, then
\* moves back the one that was kept.
UndoFrame == UNCHANGED <<pending, log, ran, rejections>> /\ StartFrame

\* Mutant: what was kept is removed, too.
UndoLosingKept ==
  /\ phase = "undoing" /\ swap.done # <<>>
  /\ phase' = "returning"
  /\ live' = [live EXCEPT ![Last(swap.done)] = Absent]
  /\ previous' = [previous EXCEPT ![Last(swap.done)] = Absent]
  /\ UNCHANGED swap /\ UndoFrame /\ NoFault

Undo ==
  /\ phase = "undoing" /\ swap.done # <<>>
  /\ phase' = "returning"
  /\ \/ live' = [live EXCEPT ![Last(swap.done)] = Absent] /\ NoFault
     \/ UNCHANGED live /\ Fault({})
  /\ UNCHANGED <<previous, swap>> /\ UndoFrame

\* Its rename may fail, as it does when a directory is in its place; the others
\* are undone all the same.
Return ==
  /\ phase = "returning"
  /\ phase' = "undoing"
  /\ swap' = [swap EXCEPT !.done = Front(@)]
  /\ LET c == Last(swap.done)
         blocked == c = "assets" /\ live[c] # Absent IN
       \/ c \notin swap.kept /\ UNCHANGED <<live, previous>> /\ NoFault
       \/ /\ c \in swap.kept /\ ~blocked
          /\ live' = [live EXCEPT ![c] = previous[c]]
          /\ previous' = [previous EXCEPT ![c] = Absent]
          /\ NoFault
       \/ /\ c \in swap.kept
          /\ UNCHANGED <<live, previous>>
          /\ \/ Fault({"return"})
             \/ blocked /\ discarded' = discarded \cup {"return"} /\ UNCHANGED faults
  /\ UndoFrame

UndoEnds ==
  /\ phase = "undoing" /\ swap.done = <<>>
  /\ phase' = "down"
  /\ UNCHANGED <<files, swap, ran, rejections>> /\ StartFrame /\ NoFault

-----------------------------------------------------------------------------
(* The end of the process *)

EndProcess ==
  /\ phase' = "down"
  /\ stager' = Idle
  /\ swap' = NoSwap
  /\ UNCHANGED <<live, pending, previous, accepted, ran, discarded, faults, rejections>>

\* The database is closed and leaves no log.
ExitGracefully ==
  phase = "up" /\ stager = Idle /\ EndProcess /\ UNCHANGED <<log, interruptions>>

\* A crash, or a shutdown whose timeout ends before an unpacking archive.  A
\* database that was open may leave its log.
Interrupt ==
  /\ MayFail
  /\ phase # "down"
  /\ \/ UNCHANGED log
     \/ phase \in {"opening", "committing", "up"} /\ log' = live["db"]
  /\ EndProcess
  /\ interruptions' = interruptions + 1

-----------------------------------------------------------------------------

RestoreNext ==
  \/ \E b \in Backups : StageRestore(b)
  \/ ClearPending \/ ClearFails \/ MakeAssets \/ Unpack
  \/ RemovePendingDatabase \/ CopyDatabase
  \/ StageFails \/ StageEndsDirty \/ Accept
  \/ BeginStart \/ Look \/ LookFails \/ Preserve \/ RemoveLog \/ InstallPending
  \/ SyncDataDirectory \/ StartFails \/ ReturnKept
  \/ Open \/ Reject \/ Commit \/ CommitFails \/ Undo \/ Return \/ UndoEnds
  \/ ExitGracefully \/ Interrupt

RestoreSpec == RestoreInit /\ [][RestoreNext]_restoreVars

-----------------------------------------------------------------------------
(* Properties *)

RestoreTypeOK ==
  /\ {live, pending, previous, ran} \subseteq [Components -> Origins]
  /\ log \in Origins
  /\ phase \in Phases
  /\ stager \in [backup : Backups \cup {None}, at : 0 .. 12, failed : BOOLEAN]
  /\ swap \in [at : 1 .. 5, done : SeqOf(Components, 4), kept : SUBSET Components]
  /\ accepted \in Backups \cup {None}
  /\ discarded \subseteq Unnoticed
  /\ {interruptions, faults, rejections} \subseteq 0 .. MaxMishaps

\* What belongs to a database: a backup's components, or all there were.
Contents(origin) == IF origin \in Backups THEN Delivered(origin) ELSE Components

\* An instance that serves runs on one piece: with its database come the files
\* that belong to it, of the same backup or all as they were.  To a plain
\* database belongs none: it serves with whatever is there.
WholeInstance ==
  phase = "up" => \A c \in Contents(live["db"]) : live[c] = live["db"]

\* "Call Commit after migrations succeed, or Rollback if startup validation
\* fails" (backup.go ApplyPendingRestore): until the restored instance opens,
\* every file of the one that ran before is in place or beside it.
PreRestoreSurvives == \A c \in Components : ran[c] \in {live[c], previous[c]}

\* A kill between two renames breaks PreRestoreSurvives; kills and failed
\* operations break WholeInstance.  The next properties say what is left of both.

\* However often a restore is staged, fails in its archive, is rejected at the
\* start and is staged again: what serves is whole.
WholeWithoutFaults == interruptions = 0 /\ faults = 0 => WholeInstance

\* Failing operations, in the swap, its rollback or its commit, and rejected
\* databases, in any order, lose no file as long as nothing kills the program
\* and whatever was moved away can be moved back.  Where it cannot, the start
\* that follows removes it (backup.go:290) or begins without it.
SurvivesWithReturns ==
  interruptions = 0 /\ "return" \notin discarded => PreRestoreSurvives

\* However starts are killed and take over from each other, a database is never
\* opened beside the log of another one that could be removed.
LogIsItsOwn ==
  "unlog" \notin discarded /\ phase = "opening" => log \in {Absent, live["db"]}

\* No restore loses or mixes anything by itself: it takes a fault to mix an
\* instance, a kill or a failing way back to lose a file, and a failing removal
\* to leave a log.
NothingIsLost == WholeWithoutFaults /\ SurvivesWithReturns /\ LogIsItsOwn

\* Kills alone, however they follow each other, never make a start come up
\* without a database and begin an empty instance.  (A kill between the two
\* renames followed by one failed operation or rejected database does.)
NeverStartsEmpty == faults = 0 /\ rejections = 0 => ran["db"] # Fresh

\* Staging one archive over what is left of another backup, after kills and
\* failed starts of any kind, never leaves files of two archives for the next
\* start, unless a removal failed.
PendingOfOneArchive ==
  "clear" \notin discarded =>
    \A c, d \in Components :
      {pending[c], pending[d]} \subseteq Backups \ Databases => pending[c] = pending[d]

\* Archives that fail to unpack or to validate, and databases rejected at the
\* start, leave nothing behind that another start would apply.  A plain
\* database replaces only the pending database (backup.go:238-243): the other
\* files of an archive accepted before it wait on and are applied with it.
PendingIsAccepted ==
  interruptions = 0 /\ faults = 0 /\ stager = Idle =>
    \A c \in Components :
      pending[c] \in {Absent, accepted} \/ (c # "db" /\ accepted \in Databases)

\* What waits for the next start is of one archive, and unless something failed
\* or was killed its database is the accepted one's and so is, with an archive,
\* everything else.
PendingIsSound == PendingOfOneArchive /\ PendingIsAccepted
=============================================================================
