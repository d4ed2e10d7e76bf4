------------------------------ MODULE WorkerRoster ------------------------------
(***************************************************************************)
(* The worker roster of DatabaseService.ts, the wizard of                  *)
(* EnrollmentScreen.tsx that fills it, and the scan of AttendanceScreen.tsx*)
(* that picks a worker from it and copies the name into a log.             *)
(*                                                                         *)
(* Of a log only the worker and the name are kept here (its way to the     *)
(* cloud is SyncService.tla); name stands for name and department, which   *)
(* the wizard treats alike.  Alerts come with a delay, and hold the user   *)
(* up only once they are shown.                                            *)
(*                                                                         *)
(* A scan reads the active workers when the button is pressed, picks one,  *)
(* and has logAttendance look the name up among the workers active then;   *)
(* between these steps the roster may change and the screen may be left.   *)
(***************************************************************************)
EXTENDS Naturals, FiniteSetsExt, Functions

CONSTANTS
  Text,                 \* what a name can say
  MaxWorkers,           \* bound: how many workers are ever enrolled
  MaxVisits,            \* bound: how often the wizard is opened
  MaxCrashes,           \* bound: how often the process dies
  Scans                 \* bound: how many scans are under way at once

ASSUME RosterAssumption ==
  /\ {MaxWorkers, MaxVisits, MaxCrashes} \subseteq Nat
  /\ {"", "Unknown"} \cap Text = {}

VARIABLES
  workers,              \* db_workers: worker_id -> record
  logs,                 \* db_attendance_logs: what they say of a worker
  top,                  \* the screen on top; Home lies under the others
  wizard,               \* the state of the Enrollment screen
  isScanning,           \* of the Attendance screen
  scan,                 \* the handlers of the scan button
  due, shown,           \* alerts that will be shown, and that are
  job,                  \* the call that is between two of its writes
  enrolled,             \* history: name and visit of all workers ever enrolled
  visit,                \* history: how often the wizard was opened
  left,                 \* history: workers that left the roster during a scan
  crashes

store == <<workers, logs, job, enrolled, left>>
screens == <<top, wizard, isScanning, scan, due, shown>>
rosterVars == <<store, screens, visit, crashes>>

WorkerId == 1 .. MaxWorkers
Name == Text \cup {""}
Alerts == {"enrolled", "enrollFailed", "logged", "noWorkers"}

\* What is typed into a field: a text, and whether blanks stand around it.
Typed == [text : Name, blanks : BOOLEAN]
IsEmpty(typed) == typed.text = "" /\ ~typed.blanks
Trim(typed) == typed.text

None == [id \in {} |-> ""]
NewWizard == [step |-> 1, name |-> [text |-> "", blanks |-> FALSE],
              isEnrolling |-> FALSE]

\* pc:      the await at which the handler is
\* mounted: its instance of the Attendance screen is still there
\* read:    the workers that were active when the button was pressed
\* worker, name: the match, and what the lookup found for it
NoScan == [pc |-> "none", mounted |-> FALSE, read |-> {}, worker |-> 0, name |-> ""]

ScanState ==
  [pc : {"none", "workers", "name"}, mounted : BOOLEAN, read : SUBSET WorkerId,
   worker : 0 .. MaxWorkers, name : Name \cup {"Unknown"}]

RosterInit ==
  /\ workers = None /\ logs = {}
  /\ top = "home"
  /\ wizard = NewWizard /\ isScanning = TRUE
  /\ scan = [s \in Scans |-> NoScan]
  /\ due = {} /\ shown = {}
  /\ job = "none"
  /\ enrolled = None /\ visit = 0 /\ left = {}
  /\ crashes = 0

\* The user can reach the screen below.
Reachable == job = "none" /\ shown = {}

-------------------------------------------------------------------------------
(* The database.                                                           *)

Active == {id \in DOMAIN workers : workers[id].is_active}

EnrollWorker(name) ==
  LET id == Cardinality(DOMAIN enrolled) + 1
  IN  /\ id \in WorkerId
      /\ workers' = [x \in DOMAIN workers \cup {id} |->
                       IF x = id THEN [name |-> name, is_active |-> TRUE]
                       ELSE workers[x]]
      /\ enrolled' = [x \in DOMAIN enrolled \cup {id} |->
                        IF x = id THEN [name |-> name, visit |-> visit]
                        ELSE enrolled[x]]

\* Mutant: the first active worker is taken, whatever the id.
NameOfFirst(id) ==
  IF Active # {} /\ workers[Min(Active)].name # ""
  THEN workers[Min(Active)].name ELSE "Unknown"

\* Mutant: the name is taken as it is.
NoFallback(id) == IF id \in Active THEN workers[id].name ELSE "Unknown"

\* worker?.name || 'Unknown'
WorkerName(id) ==
  IF id \in Active /\ workers[id].name # "" THEN workers[id].name ELSE "Unknown"

\* Of some workers, those that a scan has read and not yet looked up.
InScan(ids) == {id \in ids : \E s \in Scans : scan[s].pc = "workers" /\ id \in scan[s].read}

DeactivateWorker ==
  /\ job = "none"
  /\ \E id \in Active : /\ workers' = [workers EXCEPT ![id].is_active = FALSE]
                        /\ left' = left \cup InScan({id})
  /\ UNCHANGED <<logs, job, enrolled, screens, visit, crashes>>

\* clearAllData deletes the workers first, then the logs.
ClearWorkers ==
  /\ job = "none"
  /\ workers' = None
  /\ left' = left \cup InScan(Active)
  /\ job' = "clearAllData"
  /\ UNCHANGED <<logs, enrolled, screens, visit, crashes>>

ClearLogs ==
  /\ job = "clearAllData"
  /\ logs' = {}
  /\ job' = "none"
  /\ UNCHANGED <<workers, enrolled, left, screens, visit, crashes>>

-------------------------------------------------------------------------------
(* The wizard.  A PIN that is wrong, or a field left empty, changes nothing.*)

OpenEnrollment ==
  /\ Reachable
  /\ top = "home"
  /\ visit < MaxVisits
  /\ top' = "enrollment"
  /\ wizard' = NewWizard
  /\ visit' = visit + 1
  /\ UNCHANGED <<store, isScanning, scan, due, shown, crashes>>

PinSubmit ==
  /\ Reachable
  /\ top = "enrollment" /\ wizard.step = 1
  /\ wizard' = [wizard EXCEPT !.step = 2]
  /\ UNCHANGED <<store, top, isScanning, scan, due, shown, visit, crashes>>

\* The check is on what was typed, the trimming comes with the enrollment.
DetailsSubmit ==
  /\ Reachable
  /\ top = "enrollment" /\ wizard.step = 2
  /\ \E typed \in Typed :
       /\ ~IsEmpty(typed)
       /\ wizard' = [wizard EXCEPT !.step = 3, !.name = typed]
  /\ UNCHANGED <<store, top, isScanning, scan, due, shown, visit, crashes>>

\* Mutant: a finally gives the button back when the handler ends.
CaptureRepeats ==
  /\ Reachable
  /\ top = "enrollment" /\ wizard.step = 3
  /\ EnrollWorker(Trim(wizard.name))
  /\ due' = due \cup {"enrolled"}
  /\ UNCHANGED <<logs, job, left, top, wizard, isScanning, scan, shown, visit, crashes>>

\* The button stays locked when the enrollment succeeds.
CaptureFace ==
  /\ Reachable
  /\ top = "enrollment" /\ wizard.step = 3
  /\ ~wizard.isEnrolling
  /\ EnrollWorker(Trim(wizard.name))
  /\ wizard' = [wizard EXCEPT !.isEnrolling = TRUE]
  /\ due' = due \cup {"enrolled"}
  /\ UNCHANGED <<logs, job, left, top, isScanning, scan, shown, visit, crashes>>

\* The one write of the enrollment throws: the catch gives the button back.
CaptureFails ==
  /\ Reachable
  /\ top = "enrollment" /\ wizard.step = 3
  /\ ~wizard.isEnrolling
  /\ due' = due \cup {"enrollFailed"}
  /\ UNCHANGED <<store, top, wizard, isScanning, scan, shown, visit, crashes>>

-------------------------------------------------------------------------------
(* The scan.                                                               *)

OpenAttendance ==
  /\ Reachable
  /\ top = "home"
  /\ top' = "attendance"
  /\ isScanning' = TRUE
  /\ UNCHANGED <<store, wizard, scan, due, shown, visit, crashes>>

\* The button is locked, and getAllWorkers reads.
PressScan(s) ==
  /\ Reachable
  /\ top = "attendance" /\ isScanning
  /\ scan[s] = NoScan
  /\ isScanning' = FALSE
  /\ scan' = [scan EXCEPT ![s] = [NoScan EXCEPT !.pc = "workers", !.mounted = TRUE,
                                               !.read = Active]]
  /\ UNCHANGED <<store, top, wizard, due, shown, visit, crashes>>

\* Any worker that was active may be the match; logAttendance begins, and
\* getWorkerById reads.
ScanMatches(s) ==
  /\ job = "none"
  /\ scan[s].pc = "workers"
  /\ \E id \in scan[s].read :
       scan' = [scan EXCEPT ![s] = [NoScan EXCEPT !.pc = "name", !.worker = id,
                                                 !.name = WorkerName(id)]]
  /\ UNCHANGED <<store, top, wizard, isScanning, due, shown, visit, crashes>>

\* Nobody was active.  For a screen that is gone the alert has no effect.
ScanFindsNobody(s) ==
  /\ job = "none"
  /\ scan[s].pc = "workers" /\ scan[s].read = {}
  /\ scan' = [scan EXCEPT ![s] = NoScan]
  /\ due' = IF scan[s].mounted THEN due \cup {"noWorkers"} ELSE due
  /\ UNCHANGED <<store, top, wizard, isScanning, shown, visit, crashes>>

LogOf(s) == [worker |-> scan[s].worker, worker_name |-> scan[s].name]

ScanLogs(s) ==
  /\ job = "none"
  /\ scan[s].pc = "name"
  /\ logs' = logs \cup {LogOf(s)}
  /\ scan' = [scan EXCEPT ![s] = NoScan]
  /\ due' = due \cup {"logged"}
  /\ UNCHANGED <<workers, job, enrolled, left, top, wizard, isScanning, shown, visit, crashes>>

\* A read or the first write of the scan throws, or the second write when the
\* log is already stored: the screen stays locked and no alert comes.
ScanThrows(s) ==
  /\ job = "none"
  /\ scan[s].pc # "none"
  /\ \/ UNCHANGED logs
     \/ scan[s].pc = "name" /\ logs' = logs \cup {LogOf(s)}
  /\ scan' = [scan EXCEPT ![s] = NoScan]
  /\ UNCHANGED <<workers, job, enrolled, left, top, wizard, isScanning, due, shown,
                 visit, crashes>>

-------------------------------------------------------------------------------
(* Alerts and navigation.                                                  *)

ShowAlert ==
  /\ job = "none"
  /\ \E a \in due : shown' = shown \cup {a} /\ due' = due \ {a}
  /\ UNCHANGED <<store, top, wizard, isScanning, scan, visit, crashes>>

\* navigation.goBack(): whatever is on top goes, with its state; a scan goes
\* on.  The alert for an empty roster has no effect on a later visit.
GoBack ==
  /\ top' = "home"
  /\ due' = due \ {"noWorkers"}
  /\ scan' = [s \in Scans |-> [scan[s] EXCEPT !.mounted = FALSE]]
  /\ UNCHANGED <<wizard, isScanning>>

\* OK is pressed on an alert.
PressOk ==
  /\ job = "none"
  /\ \E a \in shown :
       /\ shown' = shown \ {a}
       /\ CASE a = "noWorkers" -> isScanning' = TRUE /\ UNCHANGED <<top, wizard, scan, due>>
            [] a = "enrollFailed" -> UNCHANGED <<top, wizard, scan, due, isScanning>>
            [] OTHER -> GoBack
  /\ UNCHANGED <<store, visit, crashes>>

Back ==
  /\ Reachable
  /\ top # "home"
  /\ GoBack
  /\ UNCHANGED <<store, shown, visit, crashes>>

\* The process dies and starts again; the stored keys survive.
Crash ==
  /\ crashes < MaxCrashes
  /\ crashes' = crashes + 1
  /\ top' = "home"
  /\ wizard' = NewWizard /\ isScanning' = TRUE
  /\ scan' = [s \in Scans |-> NoScan]
  /\ due' = {} /\ shown' = {}
  /\ job' = "none"
  /\ UNCHANGED <<workers, logs, enrolled, visit, left>>

RosterNext ==
  \/ DeactivateWorker \/ ClearWorkers \/ ClearLogs
  \/ OpenEnrollment \/ PinSubmit \/ DetailsSubmit \/ CaptureFace \/ CaptureFails
  \/ OpenAttendance
  \/ \E s \in Scans :
       PressScan(s) \/ ScanMatches(s) \/ ScanFindsNobody(s) \/ ScanLogs(s) \/ ScanThrows(s)
  \/ ShowAlert \/ PressOk \/ Back \/ Crash

RosterSpec == RosterInit /\ [][RosterNext]_rosterVars

-------------------------------------------------------------------------------
(* Properties.                                                             *)

\* Type invariant of the roster and its screens.
RosterTypeOK ==
  /\ DOMAIN workers \subseteq DOMAIN enrolled
  /\ workers \in [DOMAIN workers -> [name : Name, is_active : BOOLEAN]]
  /\ logs \subseteq [worker : WorkerId, worker_name : Text \cup {"Unknown"}]
  /\ top \in {"home", "enrollment", "attendance"}
  /\ wizard \in [step : 1 .. 3, name : Typed, isEnrolling : BOOLEAN]
  /\ isScanning \in BOOLEAN
  /\ scan \in [Scans -> ScanState]
  /\ due \subseteq Alerts /\ shown \subseteq Alerts
  /\ job \in {"none", "clearAllData"}
  /\ enrolled \in [DOMAIN enrolled -> [name : Name, visit : 1 .. MaxVisits]]
  /\ visit \in 0 .. MaxVisits
  /\ left \subseteq WorkerId
  /\ crashes \in 0 .. MaxCrashes

\* What the log of a worker reads.
EnrolledName(id) == IF enrolled[id].name = "" THEN "Unknown" ELSE enrolled[id].name

\* AttendanceScreen.tsx:50-58, DatabaseService.ts:105-107: a log names the
\* matched worker as that worker was enrolled, and keeps the name when the
\* worker is deactivated later or a factory reset is cut short.  "Unknown"
\* stands for a blank name, or for a worker that was deactivated or deleted
\* while the scan was between its two looks at the roster; no log ever has
\* the name of another worker.
LogsNameTheirWorker ==
  \A log \in logs :
    /\ log.worker \in DOMAIN enrolled
    /\ \/ log.worker_name = EnrolledName(log.worker)
       \/ log.worker_name = "Unknown" /\ log.worker \in left

\* EnrollmentScreen.tsx:57-71: however taps, the delayed alert, the alert of
\* an earlier scan and Back follow each other, one visit of the wizard
\* enrolls one worker at most.
OneWorkerPerVisit ==
  \A a, b \in DOMAIN enrolled : enrolled[a].visit = enrolled[b].visit => a = b
===============================================================================
