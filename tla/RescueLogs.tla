----------------------------- MODULE RescueLogs -----------------------------
(***************************************************************************)
(* The failure reports of crates/rescue-tui/src/failure_log.rs: written    *)
(* under AEGIS_ISOS, or spooled on tmpfs when that fails, moved from the   *)
(* spool when it works again, and rotated.  rescue-tui may die between any *)
(* two file operations; init then starts it again over the same tmpfs.     *)
(*                                                                         *)
(* A report is named by the second of the clock and the hash of its text;  *)
(* where nothing is mounted at AEGIS_ISOS its directory is memory too.     *)
(***************************************************************************)
EXTENDS TornFiles, Naturals, FiniteSets

CONSTANTS
  Seconds,      \* the clock's readings in this model; 0 when `date' fails
  Text,         \* hashes of error texts
  MaxRetained,  \* MAX_RETAINED_LOGS
  MaxReports    \* bound: failures recorded

ASSUME RescueLogsAssumption ==
  /\ Seconds \subseteq Nat /\ MaxRetained \in Nat \ {0} /\ MaxReports \in Nat
  /\ "whole" \notin {None, Torn}

VARIABLES
  spool, aegis,  \* the two directories: report name -> "whole", Torn or None
  onStick,       \* is the stick mounted at AEGIS_ISOS in this boot?
  doing,         \* "idle", "write", "fallback", "migrate", "copied", "rotate"
  report,        \* the name being written or moved
  moving,        \* the names in the spool's listing still to move
  unsynced,      \* reports under AEGIS_ISOS the kernel has not written back
  doomed,        \* the names rotate has still to delete
  reports,       \* counter behind its bound
  repeated       \* history: the names recorded, and those recorded twice

logVars == <<spool, aegis, onStick, doing, report, moving, unsynced, doomed,
            reports, repeated>>

ReportName == Seconds \X Text
NoReports == [n \in ReportName |-> None]
Names(dir) == {n \in ReportName : dir[n] # None}
Whole(dir) == {n \in ReportName : dir[n] = "whole"}

LogTypeOK ==
  /\ spool \in [ReportName -> {"whole", Torn, None}]
  /\ aegis \in [ReportName -> {"whole", Torn, None}]
  /\ onStick \in BOOLEAN
  /\ doing \in {"idle", "write", "fallback", "migrate", "copied", "rotate"}
  /\ report \in ReportName \cup {None}
  /\ moving \subseteq ReportName /\ doomed \subseteq ReportName /\ unsynced \subseteq ReportName

LogInit ==
  /\ spool = NoReports /\ aegis = NoReports /\ onStick \in BOOLEAN
  /\ doing = "idle" /\ report = None /\ moving = {} /\ doomed = {} /\ reports = 0
  /\ unsynced = {}
  /\ repeated = [n \in ReportName |-> 0]

-----------------------------------------------------------------------------
(* record_failure, at whatever the clock says. *)
RecordFailure ==
  /\ doing = "idle" /\ reports < MaxReports
  /\ report' \in ReportName /\ doing' = "write" /\ reports' = reports + 1
  /\ repeated' = [repeated EXCEPT ![report'] = IF @ = 2 THEN 2 ELSE @ + 1]
  /\ UNCHANGED <<unsynced, spool, aegis, onStick, moving, doomed>>

(* write_to_preferred_dir: fs::write truncates before it writes. *)
WriteReport ==
  /\ doing = "write" /\ aegis' = [aegis EXCEPT ![report] = "whole"]
  /\ doing' = "migrate" /\ moving' = Names(spool)
  /\ unsynced' = unsynced \cup {report}
  /\ UNCHANGED <<spool, onStick, report, doomed, reports, repeated>>

WriteReportFails ==
  /\ doing = "write"
  /\ aegis' \in {aegis, [aegis EXCEPT ![report] = Torn]}
  /\ doing' = "fallback"
  /\ unsynced' = unsynced \cup {n \in {report} : aegis'[n] # aegis[n]}
  /\ UNCHANGED <<spool, onStick, report, moving, doomed, reports, repeated>>

SpoolReport ==
  /\ doing = "fallback"
  /\ spool' \in {[spool EXCEPT ![report] = "whole"], [spool EXCEPT ![report] = Torn], spool}
  /\ doing' = "migrate" /\ moving' = Names(spool')
  /\ UNCHANGED <<unsynced, aegis, onStick, report, doomed, reports, repeated>>

(* A faulty variant: the report is removed whether or not it was copied. *)
CopyReportUnchecked ==
  /\ doing = "migrate"
  /\ \E n \in moving :
       /\ aegis' \in {aegis, [aegis EXCEPT ![n] = Torn]} /\ moving' = moving \ {n}
       /\ spool' = [spool EXCEPT ![n] = None]
  /\ unsynced' = unsynced \cup {n \in moving : aegis'[n] # aegis[n]}
  /\ UNCHANGED <<onStick, doing, report, doomed, reports, repeated>>

(* migrate_between: each report is copied, then removed from the spool. *)
CopyReport ==
  /\ doing = "migrate"
  /\ \E n \in moving :
       aegis' = [aegis EXCEPT ![n] = spool[n]] /\ report' = n /\ moving' = moving \ {n}
  /\ doing' = "copied"
  /\ unsynced' = unsynced \cup {report'}
  /\ UNCHANGED <<spool, onStick, doomed, reports, repeated>>

CopyReportFails ==
  /\ doing = "migrate"
  /\ \E n \in moving :
       aegis' \in {aegis, [aegis EXCEPT ![n] = Torn]} /\ moving' = moving \ {n}
  /\ unsynced' = unsynced \cup {n \in moving : aegis'[n] # aegis[n]}
  /\ UNCHANGED <<spool, onStick, doing, report, doomed, reports, repeated>>

RemoveSpooled ==
  /\ doing = "copied"
  /\ spool' \in {spool, [spool EXCEPT ![report] = None]}
  /\ doing' = "migrate"
  /\ UNCHANGED <<unsynced, aegis, onStick, report, moving, doomed, reports, repeated>>

(* rotate_dir: all but the MaxRetained last names, torn ones counted; names *)
(* sort as the clock does. *)
StartRotation ==
  /\ doing = "migrate" /\ moving = {}
  /\ \E d \in SUBSET Names(aegis) :
       /\ Cardinality(d) = IF Cardinality(Names(aegis)) > MaxRetained
                           THEN Cardinality(Names(aegis)) - MaxRetained ELSE 0
       /\ \A n \in d : \A m \in Names(aegis) \ d : n[1] <= m[1]
       /\ doomed' = d
  /\ doing' = "rotate"
  /\ UNCHANGED <<unsynced, spool, aegis, onStick, report, moving, reports, repeated>>

DeleteOldest ==
  /\ doing = "rotate"
  /\ \E n \in doomed :
       doomed' = doomed \ {n} /\ aegis' \in {aegis, [aegis EXCEPT ![n] = None]}
  /\ UNCHANGED <<unsynced, spool, onStick, doing, report, moving, reports, repeated>>

RecordEnds ==
  /\ doing = "rotate" /\ doomed = {} /\ doing' = "idle" /\ report' = None
  /\ UNCHANGED <<unsynced, spool, aegis, onStick, moving, doomed, reports, repeated>>

NoWork == doing' = "idle" /\ report' = None /\ moving' = {} /\ doomed' = {}

(* Inside fs::write or fs::copy the target is torn. *)
RecorderDies ==
  /\ doing # "idle" /\ NoWork
  /\ \/ UNCHANGED <<spool, aegis, unsynced>>
     \/ /\ doing = "fallback" /\ spool' = [spool EXCEPT ![report] = Torn]
        /\ UNCHANGED <<aegis, unsynced>>
     \/ \E n \in IF doing = "write" THEN {report} ELSE IF doing = "migrate" THEN moving ELSE {} :
          /\ aegis' = [aegis EXCEPT ![n] = Torn] /\ unsynced' = unsynced \cup {n}
          /\ UNCHANGED spool
  /\ UNCHANGED <<onStick, reports, repeated>>

(* Nothing here syncs: the kernel writes back in its own time. *)
KernelWritesBack ==
  /\ unsynced # {} /\ unsynced' = {}
  /\ UNCHANGED <<spool, aegis, onStick, doing, report, moving, doomed, reports, repeated>>

(* The machine boots again: memory is gone, what was not written back may  *)
(* be torn, and the clock may be anywhere. *)
PowerCycle ==
  /\ NoWork /\ spool' = NoReports /\ unsynced' = {}
  /\ \E lost \in SUBSET unsynced :
       aegis' = IF onStick THEN [n \in ReportName |-> IF n \in lost THEN Torn ELSE aegis[n]]
                ELSE NoReports
  /\ UNCHANGED <<onStick, reports, repeated>>

LogNext ==
  \/ RecordFailure \/ WriteReport \/ WriteReportFails \/ SpoolReport
  \/ CopyReport \/ CopyReportFails \/ RemoveSpooled
  \/ StartRotation \/ DeleteOldest \/ RecordEnds \/ RecorderDies
  \/ KernelWritesBack \/ PowerCycle

-----------------------------------------------------------------------------
(* What may become of a whole report n in a step. *)
Kept(n) ==
  \/ n \in Whole(spool') \cup Whole(aegis')
  \/ Cardinality({m \in Names(aegis') : m[1] >= n[1]}) >= MaxRetained
  \/ PowerCycle /\ (~onStick \/ n \notin Whole(aegis) \/ n \in unsynced)
  \/ repeated[n] = 2

(* A report that is whole in one of the directories stays so, through      *)
(* copies that fail, deaths in the middle of a file and rotations, until   *)
(* MaxRetained reports that are not older are on the stick.  A power cut   *)
(* takes those in memory and those not yet written back, and failures of   *)
(* one text within a second are one report (record_failure). *)
ReportsKept == [][ \A n \in Whole(spool) \cup Whole(aegis) : Kept(n) ]_logVars
=============================================================================
