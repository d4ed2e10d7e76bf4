------------------------------ MODULE SyncScreens ------------------------------
(***************************************************************************)
(* The screens over the engine: the dashboard (HomeScreen.tsx) with its    *)
(* badge, the Sync Status screen (SyncStatusScreen.tsx) with its manual    *)
(* sync, and the scan of the Attendance screen as the source of records.   *)
(* Home lies under every other screen of the navigation stack.             *)
(*                                                                         *)
(* A handler of a screen goes on after the screen is left: a visit is one  *)
(* mounted instance of the Sync Status screen with its handler, and ends   *)
(* when both are gone; a scan goes on as well.  The count of a screen is   *)
(* read some time after the screen got the focus, and shown some time      *)
(* after it was read.  No screen purges or clears the database.            *)
(***************************************************************************)
EXTENDS SyncProperties, Sequences

CONSTANTS
  Visits,               \* bound: how many visits overlap
  Followed,             \* the screens whose count is followed, of "home" and "syncStatus"
  MaxLoads              \* bound: how many loads of Home overlap

ASSUME ScreenAssumption ==
  /\ Followed \subseteq {"home", "syncStatus"}
  /\ MaxLoads \in Nat \ {0}

VARIABLES
  top,                  \* the screen on top, "none" while the app is dead
  stats,                \* the pending count of the two screens that show it
  missed,               \* history: the records that the count on top need not have
  scans,                \* the scans between the press and their first write
  visit                 \* the visits of the Sync Status screen

screenVars == <<top, stats, missed, scans, visit>>
allVars == <<vars, screenVars>>

\* A count stands as the set of the records it counted.
\* shown:   what the screen shows
\* reading: how many calls of getStats have not read the queue yet
\* read:    what the others have read, in the order of the calls
NoStats == [shown |-> {}, reading |-> 0, read |-> <<>>]

Stats == [shown : SUBSET Id, reading : Nat, read : Seq(SUBSET Id)]

\* pc:     the await at which handleManualSync is ("dead" if it threw)
\* awaits: the activation of forceSync it waits for
\* synced, failed: the result of that activation
NoVisit == [pc |-> "none", mounted |-> FALSE, isSyncing |-> FALSE,
            awaits |-> {}, synced |-> {}, failed |-> {}]

VisitState ==
  [pc : {"none", "ready", "check", "online", "offline", "await", "result", "load", "dead"},
   mounted : BOOLEAN, isSyncing : BOOLEAN, awaits : SUBSET Runs,
   synced : SUBSET Id, failed : SUBSET Id]

ScreenInit ==
  /\ Init
  /\ top = "none"
  /\ stats = [s \in Followed |-> NoStats]
  /\ missed = {}
  /\ scans = 0
  /\ visit = [v \in Visits |-> NoVisit]

-------------------------------------------------------------------------------
(* The statistics.  The calls of a screen go through the same awaits, so   *)
(* they do not overtake each other.                                        *)

\* Mutant: the records at the retry limit are no longer counted as pending.
CountRetryable == Retryable

\* getStats().pending_sync
PendingSync == DOMAIN queue

Load(st) == [st EXCEPT !.reading = @ + 1]

Loads(s) == stats[s].reading + Len(stats[s].read)

\* getStats reads the queue.
StatsRead(s) ==
  /\ JsFree
  /\ stats[s].reading > 0
  /\ stats' = [stats EXCEPT ![s].reading = @ - 1,
                            ![s].read = Append(@, PendingSync)]
  /\ UNCHANGED <<vars, top, missed, scans, visit>>

\* getStats returns, and the screen shows what it read.
StatsShown(s) ==
  /\ JsFree
  /\ stats[s].read # <<>>
  /\ stats' = [stats EXCEPT ![s].shown = Head(stats[s].read), ![s].read = Tail(@)]
  /\ UNCHANGED <<vars, top, missed, scans, visit>>

-------------------------------------------------------------------------------
(* Navigation.                                                             *)

\* Mutant: Home reads its statistics when it mounts and not on focus.
HomeKeepsStats ==
  /\ top' = "home"
  /\ missed' = {}
  /\ stats' = [s \in Followed |-> IF s = "home" THEN stats[s] ELSE NoStats]

\* Home gets the focus with what it showed last, and begins to load; a screen
\* above it is gone.
FocusHome ==
  /\ top' = "home"
  /\ missed' = {}
  /\ \A s \in Followed \cap {"home"} : Loads(s) < MaxLoads
  /\ stats' = [s \in Followed |-> IF s = "home" THEN Load(stats[s]) ELSE NoStats]

\* Home mounts; until its first load is there it shows "All Synced".
SplashEnds ==
  /\ JsFree
  /\ top = "splash"
  /\ FocusHome
  /\ UNCHANGED <<vars, scans, visit>>

OpenAttendance ==
  /\ JsFree
  /\ top = "home"
  /\ top' = "attendance"
  /\ missed' = {}
  /\ UNCHANGED <<vars, stats, scans, visit>>

\* The screen mounts with a count of 0 and begins to load.
OpenSyncStatus(v) ==
  /\ JsFree
  /\ top = "home"
  /\ visit[v] = NoVisit
  /\ top' = "syncStatus"
  /\ missed' = {}
  /\ stats' = [s \in Followed |-> IF s = "syncStatus" THEN Load(NoStats) ELSE stats[s]]
  /\ visit' = [visit EXCEPT ![v].pc = "ready", ![v].mounted = TRUE]
  /\ UNCHANGED <<vars, scans>>

\* The user, or the delayed alert of a scan, goes back: the top screen is
\* unmounted, its handlers go on.
Back ==
  /\ JsFree
  /\ top \in {"attendance", "scanned", "syncStatus"}
  /\ FocusHome
  /\ visit' = [v \in Visits |->
                 IF visit[v].pc \in {"ready", "dead"} THEN NoVisit
                 ELSE [visit[v] EXCEPT !.mounted = FALSE]]
  /\ UNCHANGED <<vars, scans>>

-------------------------------------------------------------------------------
(* The scan, once per visit of the Attendance screen.                      *)

PressScan ==
  /\ JsFree
  /\ top = "attendance"
  /\ created + scans < MaxLogs
  /\ top' = "scanned"
  /\ scans' = scans + 1
  /\ UNCHANGED <<vars, stats, missed, visit>>

\* The roster and the name are read; logAttendance up to its first write.
ScanLogs ==
  /\ JsFree
  /\ scans > 0
  /\ scans' = scans - 1
  /\ LogAttendance
  /\ UNCHANGED <<syncVars, top, stats, missed, visit>>

\* Nobody is enrolled, or the first write throws.
ScanThrows ==
  /\ JsFree
  /\ scans > 0
  /\ scans' = scans - 1
  /\ UNCHANGED <<vars, top, stats, missed, visit>>

ScanEnqueues ==
  /\ EnqueueLog
  /\ missed' = IF top \in Followed THEN missed \cup {created} ELSE missed
  /\ UNCHANGED <<syncVars, top, stats, scans, visit>>

EnqueueThrows ==
  /\ SecondWriteThrows
  /\ UNCHANGED screenVars

-------------------------------------------------------------------------------
(* handleManualSync.                                                       *)

ManualSync(v) ==
  /\ JsFree
  /\ visit[v].mounted /\ ~visit[v].isSyncing
  /\ visit' = [visit EXCEPT ![v].pc = "check", ![v].isSyncing = TRUE]
  /\ UNCHANGED <<vars, top, stats, missed, scans>>

VisitNetwork(v) ==
  /\ visit[v].pc = "check"
  /\ visit' = [visit EXCEPT ![v].pc = IF net THEN "online" ELSE "offline"]
  /\ UNCHANGED <<vars, top, stats, missed, scans>>

\* The handler throws: a mounted instance keeps its state, with isSyncing set.
HandlerThrows(v) ==
  IF visit[v].mounted
  THEN [visit[v] EXCEPT !.pc = "dead", !.awaits = {}]
  ELSE NoVisit

\* NetInfo.fetch rejects and nothing catches it.
VisitThrows(v) ==
  /\ JsFree
  /\ visit[v].pc = "check"
  /\ visit' = [visit EXCEPT ![v] = HandlerThrows(v)]
  /\ UNCHANGED <<vars, top, stats, missed, scans>>

\* Mutant: the handler returns without setIsSyncing(false).
KeepsSpinning(v) ==
  IF visit[v].mounted
  THEN [NoVisit EXCEPT !.pc = "ready", !.mounted = TRUE, !.isSyncing = TRUE]
  ELSE NoVisit

\* The handler returns with isSyncing false.
HandlerEnds(v) ==
  IF visit[v].mounted THEN [NoVisit EXCEPT !.pc = "ready", !.mounted = TRUE]
  ELSE NoVisit

VisitOffline(v) ==
  /\ JsFree
  /\ visit[v].pc = "offline"
  /\ visit' = [visit EXCEPT ![v] = HandlerEnds(v)]
  /\ UNCHANGED <<vars, top, stats, missed, scans>>

VisitForces(v) ==
  /\ visit[v].pc = "online"
  /\ \E r \in Runs :
       /\ ForceSync(r)
       /\ visit' = [visit EXCEPT ![v].pc = "await", ![v].awaits = {r}]
  /\ UNCHANGED <<top, stats, missed, scans>>

\* Mutant: the screen takes what it was told for everything and clears the
\* queue itself.
ReportsAndClears(v) ==
  /\ JsFree
  /\ visit[v].pc = "result"
  /\ queue' = Empty
  /\ visit' = [visit EXCEPT ![v].pc = "load"]
  /\ UNCHANGED <<logs, created, wiped, job, syncVars, top, stats, missed, scans>>

\* The totals are shown, and the statistics loaded again.
VisitReports(v) ==
  /\ JsFree
  /\ visit[v].pc = "result"
  /\ visit' = [visit EXCEPT ![v].pc = "load"]
  /\ stats' = [s \in Followed |->
                 IF s = "syncStatus" /\ visit[v].mounted THEN Load(stats[s]) ELSE stats[s]]
  /\ UNCHANGED <<vars, top, missed, scans>>

\* The load of the handler, the last one of its screen, is shown.
VisitEnds(v) ==
  /\ JsFree
  /\ visit[v].pc = "load"
  /\ visit[v].mounted => \A s \in Followed \cap {"syncStatus"} : Loads(s) = 0
  /\ visit' = [visit EXCEPT ![v] = HandlerEnds(v)]
  /\ UNCHANGED <<vars, top, stats, missed, scans>>

\* getStats rejects: Home catches it and shows what it did before, as the
\* Sync Status screen does; the handler that waits for it dies.
StatsFail(s) ==
  /\ JsFree
  /\ stats[s].reading > 0
  /\ stats' = [stats EXCEPT ![s].reading = @ - 1]
  /\ LET last == s = top /\ stats[s].reading = 1
     IN  /\ missed' = IF last THEN DOMAIN queue ELSE missed
         /\ visit' = [v \in Visits |->
              IF last /\ visit[v].mounted /\ visit[v].pc = "load" THEN HandlerThrows(v)
              ELSE visit[v]]
  /\ UNCHANGED <<vars, top, scans>>

\* Mutant: a run that is over leaves its totals to every waiting handler.
AwakenAll ==
  LET over == {r \in Runs : run[r].pc # "idle" /\ run'[r].pc = "idle"}
  IN  visit' = [v \in Visits |->
        IF over = {} \/ visit[v].pc # "await" THEN visit[v]
        ELSE [visit[v] EXCEPT !.pc = "result", !.awaits = {},
                !.synced = UNION {run[r].synced : r \in over},
                !.failed = UNION {run[r].failed : r \in over}]]

\* A handler that waits for an activation gets its totals when it returns.
Awaken ==
  visit' = [v \in Visits |->
    LET over == {r \in visit[v].awaits : run'[r].pc = "idle"}
    IN  IF over = {} THEN visit[v]
        ELSE [visit[v] EXCEPT !.pc = "result", !.awaits = {},
                !.synced = UNION {run[r].synced : r \in over},
                !.failed = UNION {run[r].failed : r \in over}]]

\* forceSync throws in the handler that waits for it, and nothing catches it.
VisitForceThrows(r) ==
  /\ ForceThrows(r)
  /\ visit' = [v \in Visits |->
       IF r \in visit[v].awaits THEN HandlerThrows(v) ELSE visit[v]]
  /\ UNCHANGED <<top, stats, missed, scans>>

-------------------------------------------------------------------------------
(* The engine under the screens.                                           *)

EngineStep ==
  /\ \/ \E r \in Runs : SyncStep(r) \/ ForceOne(r) \/ ForcedSync(r)
     \/ ~subscribed /\ StartAutoSync
     \/ NetworkEvent
  /\ Awaken
  /\ UNCHANGED <<top, stats, missed, scans>>

LaunchScreens ==
  /\ Launch
  /\ top' = "splash"
  /\ UNCHANGED <<stats, missed, scans, visit>>

\* Mutant: the navigation stack is restored after process death.
CrashKeepsScreens ==
  /\ Crash
  /\ scans' = 0
  /\ visit' = [v \in Visits |-> NoVisit]
  /\ UNCHANGED <<top, stats, missed>>

CrashScreens ==
  /\ Crash
  /\ top' = "none"
  /\ stats' = [s \in Followed |-> NoStats]
  /\ missed' = {}
  /\ scans' = 0
  /\ visit' = [v \in Visits |-> NoVisit]

VisitStep(v) ==
  \/ VisitNetwork(v) \/ VisitThrows(v) \/ VisitOffline(v)
  \/ VisitForces(v) \/ VisitReports(v) \/ VisitEnds(v)

\* Everything but a press of the button, which may come without end.
ScreenProceed ==
  \/ EngineStep \/ LaunchScreens \/ CrashScreens
  \/ \E r \in Runs : VisitForceThrows(r)
  \/ SplashEnds \/ OpenAttendance \/ Back
  \/ PressScan \/ ScanLogs \/ ScanThrows \/ ScanEnqueues \/ EnqueueThrows
  \/ \E s \in Followed : StatsRead(s) \/ StatsShown(s) \/ StatsFail(s)
  \/ \E v \in Visits : OpenSyncStatus(v) \/ VisitStep(v)

ScreenNext == ScreenProceed \/ \E v \in Visits : ManualSync(v)

ScreenSpec == ScreenInit /\ [][ScreenNext]_allVars

-------------------------------------------------------------------------------
(* Properties.                                                             *)

\* Type invariant of the screens.
ScreenTypeOK ==
  /\ top \in {"none", "splash", "home", "attendance", "scanned", "syncStatus"}
  /\ stats \in [Followed -> Stats]
  /\ missed \subseteq Id
  /\ scans \in 0 .. MaxLogs
  /\ visit \in [Visits -> VisitState]
  /\ top = "none" <=> ~up

\* SyncStatusScreen.tsx:53: the records that a visit reports as synchronized
\* to the cloud are there, although the totals were counted by a run that
\* other runs, new records and process death overlapped.
ReportedReachedCloud == \A v \in Visits : visit[v].synced \subseteq cloud

\* Once the loads of the screen on top have landed, its count leaves out none
\* of the records that wait, unless a scan that the user had left enqueued it
\* only after the screen got the focus, or getStats rejected: no load of an
\* earlier focus, no late handler and no sync beside them makes the count look
\* better than it is.  Before that, and for such a scan, it may
\* (HomeScreen.tsx:14-37, 49, SyncStatusScreen.tsx:10, 19-30, 58).
CountCatchesUp ==
  \A s \in Followed :
    top = s /\ Loads(s) = 0 => DOMAIN queue \subseteq stats[s].shown \cup missed

\* SyncStatusScreen.tsx:50-54, SyncService.ts:59-62: no record is in the
\* totals of two overlapping visits; a visit that comes while sync() runs is
\* told 0, and does not count again what that run delivers.
ReportedOnce ==
  \A v, w \in Visits : v # w => visit[v].synced \cap visit[w].synced = {}

\* The screens use the engine as it is meant to be used: every step of a
\* screen, of its late handlers and of the scan is a step of the engine or
\* leaves it alone, so what holds of the engine holds under the screens.
ImplementsEngine == Spec

-------------------------------------------------------------------------------
(* Liveness.                                                               *)

VisitContinues(v) ==
  VisitOffline(v) \/ VisitForces(v) \/ VisitReports(v) \/ VisitEnds(v)

\* The Fairness of the engine, and the same for the handlers of the screens.
ScreenFairness ==
  /\ Fairness
  /\ \A v \in Visits :
       SF_allVars(VisitNetwork(v)) /\ SF_allVars(VisitContinues(v))
  /\ \A s \in Followed : SF_allVars(StatsRead(s) \/ StatsShown(s))

FairScreenSpec == ScreenSpec /\ ScreenFairness

\* The button of the Sync Status screen comes back (its isSyncing, line 12,
\* is cleared on every path), unless the network check, forceSync or
\* getStats threw.
ButtonComesBack ==
  \A v \in Visits :
    visit[v].isSyncing ~> ~visit[v].isSyncing \/ visit[v].pc = "dead"

\* A user who presses the button again and again over a lasting network gets
\* every record delivered, or to the retry limit, although visits are left,
\* handlers die, other runs are in the way and calls of sync() return at once.
PressingDelivers ==
  <>[]net /\ []<>(\E v \in Visits : visit[v].pc = "check") =>
    \A id \in Id : id \in Owed ~> id \notin Owed

\* README.md:54, "The dashboard will update to show `All Synced` once the
\* data successfully reaches the main server": with Home in view and nothing
\* left to send, the badge gets there.
DashboardUpdates ==
  \A s \in Followed \cap {"home"} :
    top = s /\ AllSyncedShown ~> stats[s].shown = {} \/ top # s
===============================================================================
