----------------------------- MODULE ScreenProofs -----------------------------
(***************************************************************************)
(* The screens over the engine, for any number of records, activations,    *)
(* overlapping visits and faults: the composition implements the engine,   *)
(* and what the user reads is true.                                        *)
(***************************************************************************)
EXTENDS SyncScreens, SyncRunProofs, SyncRefinementProofs

-------------------------------------------------------------------------------
(* The composition implements the engine.                                  *)

LEMMA EngineUnder == [ScreenNext]_allVars => [Next]_vars
<1> SUFFICES ASSUME [ScreenNext]_allVars
             PROVE  Next \/ UNCHANGED vars
  OBVIOUS
<1>1. CASE EngineStep
  BY <1>1 DEF EngineStep, Next, Proceed, ForceStep, AppStep
<1>2. CASE LaunchScreens \/ CrashScreens
  BY <1>2 DEF LaunchScreens, CrashScreens, Next, Proceed, AppStep
<1>3. CASE \E r \in Runs : VisitForceThrows(r)
  BY <1>3 DEF VisitForceThrows, Next, Proceed, ForceStep
<1>4. CASE ScanLogs \/ ScanEnqueues \/ EnqueueThrows
  BY <1>4 DEF ScanLogs, ScanEnqueues, EnqueueThrows, Next, Proceed, DatabaseCall
<1>5. CASE SplashEnds \/ OpenAttendance \/ Back \/ PressScan \/ ScanThrows
  BY <1>5 DEF SplashEnds, OpenAttendance, Back, PressScan, ScanThrows
<1>8. ASSUME NEW s \in Followed, StatsRead(s) \/ StatsShown(s) \/ StatsFail(s)
      PROVE  Next \/ UNCHANGED vars
  BY <1>8 DEF StatsRead, StatsShown, StatsFail
<1>6. ASSUME NEW v \in Visits, OpenSyncStatus(v) \/ VisitStep(v) \/ ManualSync(v)
      PROVE  Next \/ UNCHANGED vars
  <2>1. CASE VisitForces(v)
    BY <2>1 DEF VisitForces, Next
  <2> QED
    BY <1>6, <2>1 DEF OpenSyncStatus, ManualSync, VisitStep, VisitNetwork, VisitThrows,
       VisitOffline, VisitReports, VisitEnds
<1>7. CASE UNCHANGED allVars
  BY <1>7 DEF allVars
<1> QED
  BY <1>1, <1>2, <1>3, <1>4, <1>5, <1>6, <1>7, <1>8 DEF ScreenNext, ScreenProceed

\* Every step of a screen, of its late handlers and of the scan is a step of
\* the engine or leaves it alone (SyncStatusScreen.tsx, AttendanceScreen.tsx,
\* HomeScreen.tsx over SyncService.ts).
THEOREM ScreensUseEngine == ScreenSpec => ImplementsEngine
<1>1. ScreenInit => Init
  BY DEF ScreenInit
<1> QED
  BY <1>1, EngineUnder, PTL DEF ScreenSpec, Spec, ImplementsEngine

\* From the user's finger to the cloud: the screens over the engine over the
\* store keep the promise of the ledger.
THEOREM ScreensKeepLedger == ScreenSpec => ImplementsLedger
  BY ScreensUseEngine, RefinesLedger DEF ImplementsEngine

\* What holds of the engine holds under the screens.
LEMMA EngineInvariants ==
  ScreenSpec => [](LimitInv /\ StoreInv /\ Limits)
<1>1. Spec => []Limits
  BY InitLimits, LimitStep, RunsInvariant, PTL DEF Spec
<1> QED
  BY <1>1, RunsInvariant, ScreensUseEngine, PTL DEF ImplementsEngine

-------------------------------------------------------------------------------
(* What the user reads.                                                    *)

\* The newest count a screen has, shown or on its way.
Newest(st) == IF st.read = <<>> THEN st.shown ELSE st.read[Len(st.read)]

\* What makes CountCatchesUp inductive: the newest count leaves out nothing
\* that is not missed, or a call is still to read the queue.
CountComes(s) ==
  stats[s].reading > 0 \/ DOMAIN queue \subseteq Newest(stats[s]) \cup missed

CountsCome ==
  /\ stats \in [Followed -> Stats]
  /\ missed \subseteq Id
  /\ \A s \in Followed : top = s => CountComes(s)

ScreenInv ==
  /\ ScreenTypeOK
  /\ created + scans <= MaxLogs
  /\ CountsCome
  /\ ReportedReachedCloud

LEMMA QueueTyped == TypeOK => PendingSync \in SUBSET Id
  BY MaxLogsAssumption DEF TypeOK, Recorded, Id, PendingSync

LEMMA NoStatsTyped == NoStats \in Stats
  BY DEF NoStats, Stats

LEMMA LoadTyped ==
  ASSUME NEW st \in Stats
  PROVE  Load(st) \in Stats /\ Load(st).reading > 0
  BY DEF Load, Stats

-------------------------------------------------------------------------------
(* The visits.                                                             *)

\* A visit keeps what it knows, or forgets it.
Calm ==
  /\ visit' \in [Visits -> VisitState]
  /\ \A v \in Visits : /\ visit'[v].synced \subseteq visit[v].synced
                       /\ visit'[v].awaits \subseteq visit[v].awaits

LEMMA NoVisitTyped == NoVisit \in VisitState /\ NoVisit.synced = {} /\ NoVisit.awaits = {}
  BY DEF NoVisit, VisitState

LEMMA ReadyRecord ==
  ASSUME NEW a, a = [pc |-> "ready", mounted |-> TRUE, isSyncing |-> FALSE,
                     awaits |-> {}, synced |-> {}, failed |-> {}]
  PROVE  a \in VisitState /\ a.synced = {} /\ a.awaits = {}
  BY DEF VisitState

LEMMA ReadyTyped ==
  ASSUME NEW a, a = [NoVisit EXCEPT !.pc = "ready", !.mounted = TRUE]
  PROVE  a \in VisitState /\ a.synced = {} /\ a.awaits = {}
<1>1. a = [pc |-> "ready", mounted |-> TRUE, isSyncing |-> FALSE,
           awaits |-> {}, synced |-> {}, failed |-> {}]
  BY DEF NoVisit
<1> QED
  BY <1>1, ReadyRecord

LEMMA HandlerThrowsCalm ==
  ASSUME NEW v \in Visits, visit[v] \in VisitState
  PROVE  /\ HandlerThrows(v) \in VisitState
         /\ HandlerThrows(v).synced \subseteq visit[v].synced
         /\ HandlerThrows(v).awaits = {}
<1>1. CASE visit[v].mounted
  BY <1>1 DEF HandlerThrows, VisitState
<1>2. CASE ~ visit[v].mounted
  BY <1>2, NoVisitTyped DEF HandlerThrows
<1> QED
  BY <1>1, <1>2

LEMMA HandlerEndsCalm ==
  ASSUME NEW v \in Visits
  PROVE  /\ HandlerEnds(v) \in VisitState
         /\ HandlerEnds(v).synced = {} /\ HandlerEnds(v).awaits = {}
<1>1. CASE visit[v].mounted
  <2>1. HandlerEnds(v) = [NoVisit EXCEPT !.pc = "ready", !.mounted = TRUE]
    BY <1>1 DEF HandlerEnds
  <2> QED
    BY <2>1, ReadyTyped
<1>2. CASE ~ visit[v].mounted
  BY <1>2, NoVisitTyped DEF HandlerEnds
<1> QED
  BY <1>1, <1>2

\* Replacing one visit by a calm one.
LEMMA CalmFrame ==
  ASSUME ScreenTypeOK, NEW v \in Visits, NEW a \in VisitState,
         visit' = [visit EXCEPT ![v] = a],
         a.synced \subseteq visit[v].synced, a.awaits \subseteq visit[v].awaits
  PROVE  Calm
  BY DEF ScreenTypeOK, Calm

LEMMA VisitCalm ==
  ASSUME ScreenTypeOK, NEW v \in Visits,
         \/ VisitNetwork(v) \/ VisitThrows(v) \/ VisitOffline(v) \/ VisitReports(v)
         \/ VisitEnds(v) \/ ManualSync(v) \/ OpenSyncStatus(v)
  PROVE  Calm
<1>0. visit \in [Visits -> VisitState] /\ visit[v] \in VisitState
  BY DEF ScreenTypeOK
<1>1. ASSUME NEW pc \in {"online", "offline", "check", "load"}, NEW syncing \in BOOLEAN,
             visit' = [visit EXCEPT ![v] = [visit[v] EXCEPT !.pc = pc, !.isSyncing = syncing]]
      PROVE  Calm
  <2> DEFINE a == [visit[v] EXCEPT !.pc = pc, !.isSyncing = syncing]
  <2>1. a \in VisitState /\ a.synced = visit[v].synced /\ a.awaits = visit[v].awaits
    BY <1>0 DEF VisitState
  <2>2. visit' = [visit EXCEPT ![v] = a]
    BY <1>1
  <2> HIDE DEF a
  <2> QED
    BY <2>1, <2>2, CalmFrame
<1>2. CASE VisitNetwork(v) \/ VisitReports(v)
  <2>1. PICK pc \in {"online", "offline", "load"} : visit' = [visit EXCEPT ![v].pc = pc]
    BY <1>2 DEF VisitNetwork, VisitReports
  <2> DEFINE a == [visit[v] EXCEPT !.pc = pc]
  <2>2. a \in VisitState /\ a.synced = visit[v].synced /\ a.awaits = visit[v].awaits
    BY <1>0 DEF VisitState
  <2>3. visit' = [visit EXCEPT ![v] = a]
    BY <1>0, <2>1
  <2> HIDE DEF a
  <2> QED
    BY <2>2, <2>3, CalmFrame
<1>3. CASE ManualSync(v)
  <2>1. visit' = [visit EXCEPT ![v] = [visit[v] EXCEPT !.pc = "check", !.isSyncing = TRUE]]
    BY <1>0, <1>3 DEF ManualSync
  <2> QED
    BY <1>1, <2>1
<1>4. CASE VisitThrows(v)
  <2>1. visit' = [visit EXCEPT ![v] = HandlerThrows(v)]
    BY <1>4 DEF VisitThrows
  <2> QED
    BY <1>0, <2>1, CalmFrame, HandlerThrowsCalm
<1>5. CASE VisitOffline(v) \/ VisitEnds(v)
  <2>1. visit' = [visit EXCEPT ![v] = HandlerEnds(v)]
    BY <1>5 DEF VisitOffline, VisitEnds
  <2> QED
    BY <1>0, <2>1, CalmFrame, HandlerEndsCalm
<1>6. CASE OpenSyncStatus(v)
  <2> DEFINE a == [NoVisit EXCEPT !.pc = "ready", !.mounted = TRUE]
  <2>1. a \in VisitState /\ a.synced = {} /\ a.awaits = {}
    BY ReadyTyped
  <2>2. visit[v] = NoVisit
    BY <1>6 DEF OpenSyncStatus
  <2>3. visit' = [visit EXCEPT ![v] = a]
    BY <1>0, <1>6, <2>2 DEF OpenSyncStatus
  <2> HIDE DEF a
  <2> QED
    BY <2>1, <2>3, CalmFrame
<1> QED
  BY <1>2, <1>3, <1>4, <1>5, <1>6

LEMMA BackCalm ==
  ASSUME ScreenTypeOK, Back
  PROVE  Calm
<1> SUFFICES ASSUME NEW v \in Visits
             PROVE  /\ visit'[v] \in VisitState
                    /\ visit'[v].synced \subseteq visit[v].synced
                    /\ visit'[v].awaits \subseteq visit[v].awaits
  BY DEF Back, Calm
<1>0. visit[v] \in VisitState
  BY DEF ScreenTypeOK
<1>1. CASE visit[v].pc \in {"ready", "dead"}
  <2>1. visit'[v] = NoVisit
    BY <1>1 DEF Back
  <2> QED
    BY <2>1, NoVisitTyped
<1>2. CASE visit[v].pc \notin {"ready", "dead"}
  <2>1. visit'[v] = [visit[v] EXCEPT !.mounted = FALSE]
    BY <1>2 DEF Back
  <2> QED
    BY <1>0, <2>1 DEF VisitState
<1> QED
  BY <1>1, <1>2

LEMMA ForceThrowsCalm ==
  ASSUME ScreenTypeOK, NEW r \in Runs, VisitForceThrows(r)
  PROVE  Calm /\ \A v \in Visits : r \notin visit'[v].awaits
<1> SUFFICES ASSUME NEW v \in Visits
             PROVE  /\ visit'[v] \in VisitState
                    /\ visit'[v].synced \subseteq visit[v].synced
                    /\ visit'[v].awaits \subseteq visit[v].awaits
                    /\ r \notin visit'[v].awaits
  BY DEF VisitForceThrows, Calm
<1>0. visit[v] \in VisitState
  BY DEF ScreenTypeOK
<1>1. CASE r \in visit[v].awaits
  BY <1>0, <1>1, HandlerThrowsCalm DEF VisitForceThrows
<1>2. CASE r \notin visit[v].awaits
  BY <1>0, <1>2 DEF VisitForceThrows
<1> QED
  BY <1>1, <1>2

\* A load that fails may take the handler with it that waits for it.
LEMMA StatsCalm ==
  ASSUME ScreenTypeOK, NEW s \in Followed, StatsRead(s) \/ StatsShown(s) \/ StatsFail(s)
  PROVE  Calm
<1>1. CASE StatsRead(s) \/ StatsShown(s)
  BY <1>1 DEF StatsRead, StatsShown, ScreenTypeOK, Calm
<1>2. CASE StatsFail(s)
  <2>1. PICK last \in BOOLEAN :
          visit' = [v \in Visits |->
            IF last /\ visit[v].mounted /\ visit[v].pc = "load" THEN HandlerThrows(v)
            ELSE visit[v]]
    BY <1>2 DEF StatsFail
  <2>2. ASSUME NEW v \in Visits
        PROVE  /\ visit'[v] \in VisitState
               /\ visit'[v].synced \subseteq visit[v].synced
               /\ visit'[v].awaits \subseteq visit[v].awaits
    <3>1. visit[v] \in VisitState /\ visit'[v] \in {HandlerThrows(v), visit[v]}
      BY <2>1 DEF ScreenTypeOK
    <3> QED
      BY <3>1, HandlerThrowsCalm
  <2> QED
    BY <2>1, <2>2 DEF Calm
<1> QED
  BY <1>1, <1>2

\* The totals of an activation that is over are those of its run.
LEMMA AwakenTyped ==
  ASSUME TypeOK, ScreenTypeOK, Awaken
  PROVE  /\ visit' \in [Visits -> VisitState]
         /\ \A v \in Visits :
              /\ visit'[v].awaits \subseteq visit[v].awaits
              /\ \A r \in visit'[v].awaits : run'[r].pc # "idle"
              /\ \A id \in visit'[v].synced \ visit[v].synced :
                   \E r \in visit[v].awaits : run'[r].pc = "idle" /\ id \in run[r].synced
<1> SUFFICES ASSUME NEW v \in Visits
             PROVE  /\ visit'[v] \in VisitState
                    /\ visit'[v].awaits \subseteq visit[v].awaits
                    /\ \A r \in visit'[v].awaits : run'[r].pc # "idle"
                    /\ \A id \in visit'[v].synced \ visit[v].synced :
                         \E r \in visit[v].awaits :
                           run'[r].pc = "idle" /\ id \in run[r].synced
  BY DEF Awaken
<1> DEFINE over   == {r \in visit[v].awaits : run'[r].pc = "idle"}
           synced == UNION {run[r].synced : r \in over}
           failed == UNION {run[r].failed : r \in over}
<1>0. visit[v] \in VisitState
  BY DEF ScreenTypeOK
<1>1. over \subseteq Runs
  BY <1>0 DEF VisitState
<1>2. synced \in SUBSET Id /\ failed \in SUBSET Id
  BY <1>1 DEF TypeOK, RunState
<1>3. /\ \A id \in synced :
           \E r \in visit[v].awaits : run'[r].pc = "idle" /\ id \in run[r].synced
      /\ over = {} => \A r \in visit[v].awaits : run'[r].pc # "idle"
  OBVIOUS
<1>4. visit'[v] = IF over = {} THEN visit[v]
                  ELSE [visit[v] EXCEPT !.pc = "result", !.awaits = {},
                                        !.synced = synced, !.failed = failed]
  BY DEF Awaken
<1> HIDE DEF over, synced, failed
<1>5. CASE over = {}
  BY <1>0, <1>3, <1>4, <1>5
<1>6. CASE over # {}
  <2>1. visit'[v] =
          [pc |-> "result", mounted |-> visit[v].mounted,
           isSyncing |-> visit[v].isSyncing,
           awaits |-> {}, synced |-> synced, failed |-> failed]
    BY <1>0, <1>4, <1>6 DEF VisitState
  <2>2. visit'[v] \in VisitState
    BY <1>0, <1>2, <2>1 DEF VisitState
  <2> QED
    BY <1>3, <2>1, <2>2
<1> QED
  BY <1>5, <1>6

-------------------------------------------------------------------------------
(* The counts.                                                             *)

\* The queue gets shorter or stays, under the same screen or under one that
\* shows no count.
LEMMA CountsStay ==
  ASSUME CountsCome, UNCHANGED <<stats, missed>>, DOMAIN queue' \subseteq DOMAIN queue,
         top' = top \/ top' \notin Followed
  PROVE  CountsCome'
  BY DEF CountsCome, CountComes, Newest

\* A screen gets the focus: it begins to load.
LEMMA FocusCounts ==
  ASSUME CountsCome, NEW s, top' = s, missed' = {}, stats' \in [Followed -> Stats],
         s \in Followed => stats'[s].reading > 0
  PROVE  CountsCome'
  BY DEF CountsCome, CountComes

LEMMA HomeCounts ==
  ASSUME CountsCome, FocusHome
  PROVE  CountsCome'
<1>1. stats' \in [Followed -> Stats]
  <2>1. ASSUME NEW s \in Followed
        PROVE  (IF s = "home" THEN Load(stats[s]) ELSE NoStats) \in Stats
    BY LoadTyped, NoStatsTyped DEF CountsCome
  <2> QED
    BY <2>1 DEF FocusHome
<1>2. "home" \in Followed => stats'["home"].reading > 0
  BY LoadTyped DEF FocusHome, CountsCome
<1> QED
  BY <1>1, <1>2, FocusCounts DEF FocusHome

LEMMA OpenCounts ==
  ASSUME CountsCome, NEW v \in Visits, OpenSyncStatus(v)
  PROVE  CountsCome'
<1>1. stats' \in [Followed -> Stats]
  <2>1. ASSUME NEW s \in Followed
        PROVE  (IF s = "syncStatus" THEN Load(NoStats) ELSE stats[s]) \in Stats
    BY LoadTyped, NoStatsTyped DEF CountsCome
  <2> QED
    BY <2>1 DEF OpenSyncStatus
<1>2. "syncStatus" \in Followed => stats'["syncStatus"].reading > 0
  BY LoadTyped, NoStatsTyped DEF OpenSyncStatus
<1> QED
  BY <1>1, <1>2, FocusCounts DEF OpenSyncStatus

\* The handler of a visit loads once more.
LEMMA ReportCounts ==
  ASSUME CountsCome, NEW v \in Visits, VisitReports(v)
  PROVE  CountsCome'
<1>1. UNCHANGED <<queue, top, missed>>
  BY DEF VisitReports, vars, dbVars
<1>2. ASSUME NEW s \in Followed
      PROVE  /\ stats'[s] \in Stats
             /\ stats'[s].reading > 0 \/ stats'[s] = stats[s]
  <2>1. stats'[s] \in {Load(stats[s]), stats[s]} /\ stats[s] \in Stats
    BY DEF VisitReports, CountsCome
  <2> QED
    BY <2>1, LoadTyped
<1>3. stats' \in [Followed -> Stats]
  BY <1>2 DEF VisitReports
<1>4. ASSUME NEW s \in Followed, top' = s
      PROVE  CountComes(s)'
  BY <1>1, <1>2, <1>4 DEF CountsCome, CountComes
<1> QED
  BY <1>1, <1>3, <1>4 DEF CountsCome

\* The load of one screen goes on.
LEMMA LoadCounts ==
  ASSUME CountsCome, NEW s \in Followed, NEW new \in Stats,
         stats' = [stats EXCEPT ![s] = new], UNCHANGED <<queue, top>>,
         missed' \in SUBSET Id, missed \subseteq missed',
         top = s => new.reading > 0 \/ DOMAIN queue \subseteq Newest(new) \cup missed'
  PROVE  CountsCome'
<1>1. /\ stats' \in [Followed -> Stats] /\ stats'[s] = new
      /\ \A t \in Followed \ {s} : stats'[t] = stats[t]
  BY DEF CountsCome
<1>2. ASSUME NEW t \in Followed, top' = t
      PROVE  CountComes(t)'
  <2>1. CASE t = s
    BY <1>1, <1>2, <2>1 DEF CountComes
  <2>2. CASE t # s
    <3>1. CountComes(t) /\ stats'[t] = stats[t]
      BY <1>1, <1>2, <2>2 DEF CountsCome
    <3> QED
      BY <3>1 DEF CountComes
  <2> QED
    BY <2>1, <2>2
<1> QED
  BY <1>1, <1>2 DEF CountsCome

LEMMA ReadForm ==
  ASSUME NEW st \in Stats, NEW n, NEW r
  PROVE  [st EXCEPT !.reading = n, !.read = r] = [shown |-> st.shown, reading |-> n, read |-> r]
<1> DEFINE a == [st EXCEPT !.reading = n, !.read = r]
<1>1. DOMAIN st = {"shown", "reading", "read"}
  BY DEF Stats
<1>2. a = [f \in {"shown", "reading", "read"} |-> a[f]]
  BY <1>1
<1>3. a.shown = st.shown /\ a.reading = n /\ a.read = r
  BY <1>1
<1> HIDE DEF a
<1>4. a = [shown |-> st.shown, reading |-> n, read |-> r]
  BY <1>2, <1>3
<1> QED
  BY <1>4 DEF a

\* The last element of a sequence, by its tail.
LEMMA LastOfTail ==
  ASSUME NEW S, NEW q \in Seq(S), q # <<>>
  PROVE  /\ Tail(q) = <<>> => Head(q) = q[Len(q)]
         /\ Tail(q) # <<>> => Tail(q)[Len(Tail(q))] = q[Len(q)]
<1>1. /\ Len(q) \in Nat /\ Len(q) # 0 /\ Tail(q) \in Seq(S)
      /\ Len(Tail(q)) = Len(q) - 1 /\ Head(q) = q[1]
      /\ \A i \in 1 .. Len(q) - 1 : Tail(q)[i] = q[i + 1]
  OBVIOUS
<1>2. CASE Tail(q) = <<>>
  <2>0. Len(<<>>) = 0
    OBVIOUS
  <2>1. Len(Tail(q)) = 0
    BY <1>2, <2>0, Zenon
  <2>2. ASSUME NEW n \in Nat, NEW m, m = n - 1, m = 0
        PROVE  n = 1
    BY <2>2
  <2>3. Len(q) = 1
    BY <1>1, <2>1, <2>2, Zenon
  <2> QED
    BY <1>1, <1>2, <2>3
<1>3. CASE Tail(q) # <<>>
  <2>1. Len(q) # 1
    BY <1>1, <1>3
  <2> QED
    BY <1>1, <1>3, <2>1
<1> QED
  BY <1>2, <1>3

LEMMA ReadCounts ==
  ASSUME TypeOK, CountsCome, NEW s \in Followed, StatsRead(s)
  PROVE  CountsCome'
<1> DEFINE st == stats[s]
<1>0. st \in Stats /\ st.reading > 0 /\ PendingSync \in SUBSET Id
  BY QueueTyped DEF CountsCome, StatsRead
<1>1. UNCHANGED <<queue, top, missed>> /\ missed \in SUBSET Id
  BY DEF StatsRead, vars, dbVars, CountsCome
<1>2. PICK new : new = [shown |-> st.shown, reading |-> st.reading - 1,
                        read |-> Append(st.read, PendingSync)]
  OBVIOUS
<1>3. new \in Stats
  BY <1>0, <1>2 DEF Stats
<1>4. stats' = [stats EXCEPT ![s] = new]
  <2>1. new = [st EXCEPT !.reading = @ - 1, !.read = Append(@, PendingSync)]
    BY <1>0, <1>2, ReadForm
  <2>2. stats' = [stats EXCEPT ![s] =
                    [st EXCEPT !.reading = @ - 1, !.read = Append(@, PendingSync)]]
    BY DEF StatsRead, CountsCome
  <2> QED
    BY <2>1, <2>2
<1>5. Newest(new) = PendingSync
  <2>1. st.read \in Seq(SUBSET Id) /\ new.read = Append(st.read, PendingSync)
    BY <1>0, <1>2 DEF Stats
  <2>2. new.read # <<>> /\ new.read[Len(new.read)] = PendingSync
    BY <1>0, <2>1
  <2> QED
    BY <2>2 DEF Newest
<1>6. DOMAIN queue \subseteq Newest(new) \cup missed'
  BY <1>5 DEF PendingSync
<1> QED
  BY <1>1, <1>3, <1>4, <1>6, LoadCounts

LEMMA ShownCounts ==
  ASSUME CountsCome, NEW s \in Followed, StatsShown(s)
  PROVE  CountsCome'
<1> DEFINE st == stats[s]
<1>0. st \in Stats /\ st.read # <<>>
  BY DEF CountsCome, StatsShown
<1>1. UNCHANGED <<queue, top, missed>> /\ missed \in SUBSET Id
  BY DEF StatsShown, vars, dbVars, CountsCome
<1>2. PICK new : new = [shown |-> Head(st.read), reading |-> st.reading,
                        read |-> Tail(st.read)]
  OBVIOUS
<1>3. st.read \in Seq(SUBSET Id) /\ st.read # <<>>
  BY <1>0 DEF Stats
<1>4. new \in Stats
  BY <1>0, <1>2, <1>3 DEF Stats
<1>5. stats' = [stats EXCEPT ![s] = new]
  BY <1>0, <1>2 DEF StatsShown, Stats, CountsCome
<1>6. Newest(new) = Newest(st)
  <2>1. CASE Tail(st.read) = <<>>
    BY <1>2, <1>3, <2>1, LastOfTail DEF Newest
  <2>2. CASE Tail(st.read) # <<>>
    BY <1>2, <1>3, <2>2, LastOfTail DEF Newest
  <2> QED
    BY <2>1, <2>2
<1>7. top = s => new.reading > 0 \/ DOMAIN queue \subseteq Newest(new) \cup missed'
  BY <1>1, <1>2, <1>6 DEF CountsCome, CountComes
<1> QED
  BY <1>1, <1>4, <1>5, <1>7, LoadCounts

\* The last load of the screen on top is lost: all that waits is missed.
LEMMA FailedCounts ==
  ASSUME CountsCome, UNCHANGED <<queue, top>>, DOMAIN queue \in SUBSET Id,
         stats' \in [Followed -> Stats], missed' = DOMAIN queue
  PROVE  CountsCome'
  BY DEF CountsCome, CountComes

LEMMA FailCounts ==
  ASSUME TypeOK, CountsCome, NEW s \in Followed, StatsFail(s)
  PROVE  CountsCome'
<1> DEFINE st == stats[s]
<1>0. st \in Stats /\ st.reading > 0 /\ DOMAIN queue \in SUBSET Id
  BY QueueTyped DEF CountsCome, StatsFail, PendingSync
<1>1. UNCHANGED <<queue, top>>
  BY DEF StatsFail, vars, dbVars
<1>2. PICK new : new = [shown |-> st.shown, reading |-> st.reading - 1, read |-> st.read]
  OBVIOUS
<1>3. new \in Stats /\ stats' = [stats EXCEPT ![s] = new]
  <2>1. new \in Stats
    BY <1>0, <1>2 DEF Stats
  <2>2. new = [st EXCEPT !.reading = @ - 1]
    BY <1>0, <1>2 DEF Stats
  <2>3. stats' = [stats EXCEPT ![s] = [st EXCEPT !.reading = @ - 1]]
    BY DEF StatsFail
  <2> QED
    BY <2>1, <2>2, <2>3
<1>4. CASE s = top /\ st.reading = 1
  <2>1. missed' = DOMAIN queue
    BY <1>4 DEF StatsFail
  <2>2. stats' \in [Followed -> Stats]
    BY <1>3 DEF CountsCome
  <2> QED
    BY <1>0, <1>1, <2>1, <2>2, FailedCounts
<1>5. CASE ~ (s = top /\ st.reading = 1)
  <2>1. missed' = missed /\ (top = s => new.reading > 0)
    BY <1>0, <1>2, <1>5 DEF StatsFail, Stats
  <2> QED
    BY <1>1, <1>3, <2>1, LoadCounts DEF CountsCome
<1> QED
  BY <1>4, <1>5

-------------------------------------------------------------------------------
(* The invariant.                                                          *)

LEMMA InitScreens == ScreenInit => ScreenInv
<1> SUFFICES ASSUME ScreenInit
             PROVE  ScreenInv
  OBVIOUS
<1>1. /\ ~ up /\ created = 0 /\ scans = 0 /\ top = "none" /\ missed = {}
      /\ \A v \in Visits : visit[v] = NoVisit
      /\ visit \in [Visits -> VisitState] /\ stats \in [Followed -> Stats]
  BY NoVisitTyped, NoStatsTyped DEF ScreenInit, Init, DbInit
<1>2. ScreenTypeOK /\ created + scans <= MaxLogs
  BY <1>1, MaxLogsAssumption DEF ScreenTypeOK
<1>3. CountsCome
  BY <1>1, ScreenAssumption DEF CountsCome
<1>4. ReportedReachedCloud
  BY <1>1, NoVisitTyped DEF ReportedReachedCloud
<1> QED
  BY <1>2, <1>3, <1>4 DEF ScreenInv

\* A step of the screens, part by part.
LEMMA ScreensKeep ==
  ASSUME TypeOK', visit' \in [Visits -> VisitState], ReportedReachedCloud', CountsCome',
         top' \in {"none", "splash", "home", "attendance", "scanned", "syncStatus"},
         top' = "none" <=> ~up',
         scans' \in Nat, created' + scans' <= MaxLogs
  PROVE  ScreenInv'
<1>1. scans' \in 0 .. MaxLogs
  BY MaxLogsAssumption DEF TypeOK
<1> QED
  BY <1>1 DEF ScreenInv, ScreenTypeOK, CountsCome

LEMMA CalmReports ==
  ASSUME ScreenInv, Calm, cloud \subseteq cloud'
  PROVE  visit' \in [Visits -> VisitState] /\ ReportedReachedCloud'
  BY DEF ScreenInv, ReportedReachedCloud, Calm

\* No screen clears the database.
LEMMA NothingWiped == ScreenSpec => [](wiped = {})
<1>1. ScreenInit => wiped = {}
  BY DEF ScreenInit, Init, DbInit
<1>2. wiped = {} /\ [ScreenNext]_allVars => (wiped = {})'
  <2> SUFFICES ASSUME wiped = {}, [ScreenNext]_allVars
               PROVE  wiped' = {}
    OBVIOUS
  <2>1. CASE EngineStep
    <3>1. ASSUME NEW r \in Runs, SyncStep(r) \/ ForceOne(r) \/ ForcedSync(r)
          PROVE  UNCHANGED wiped
      BY <3>1 DEF SyncStep, CheckNetwork, CheckFails, Offline, ReadQueue, StartUpload,
         Complete, CloudAccepts, UploadSucceeds, DequeueSynced, DequeueThrows,
         UploadFails, CountFailure, CountThrows, ForceOne, ForcedSync, dbVars
    <3> QED
      BY <2>1, <3>1 DEF EngineStep, StartAutoSync, NetworkEvent, dbVars
  <2>2. CASE \/ LaunchScreens \/ CrashScreens \/ ScanLogs \/ ScanEnqueues \/ EnqueueThrows
             \/ \E r \in Runs : VisitForceThrows(r)
    BY <2>2 DEF LaunchScreens, Launch, CrashScreens, Crash, ScanLogs, LogAttendance,
       ScanEnqueues, EnqueueLog, EnqueueThrows, SecondWriteThrows, VisitForceThrows,
       ForceThrows, dbVars
  <2>3. CASE \/ SplashEnds \/ OpenAttendance \/ Back \/ PressScan \/ ScanThrows
             \/ \E s \in Followed : StatsRead(s) \/ StatsShown(s) \/ StatsFail(s)
             \/ UNCHANGED allVars
    BY <2>3 DEF SplashEnds, OpenAttendance, Back, PressScan, ScanThrows, StatsRead,
       StatsShown, StatsFail, allVars, vars, dbVars
  <2>4. CASE \E v \in Visits : \/ OpenSyncStatus(v) \/ VisitStep(v) \/ ManualSync(v)
    BY <2>4 DEF OpenSyncStatus, VisitStep, VisitNetwork, VisitThrows, VisitOffline,
       VisitForces, ForceSync, VisitReports, VisitEnds, ManualSync, vars, dbVars
  <2> QED
    BY <2>1, <2>2, <2>3, <2>4 DEF ScreenNext, ScreenProceed
<1> QED
  BY <1>1, <1>2, PTL DEF ScreenSpec

\* What an engine step leaves alone, and how the others go.
LEMMA EngineKeeps ==
  ASSUME EngineStep
  PROVE  /\ UNCHANGED <<up, created, top, stats, missed, scans>>
         /\ DOMAIN queue' \subseteq DOMAIN queue
         /\ cloud \subseteq cloud'
<1>1. ASSUME NEW r \in Runs, SyncStep(r) \/ ForceOne(r) \/ ForcedSync(r)
      PROVE  /\ UNCHANGED <<up, created>>
             /\ DOMAIN queue' \subseteq DOMAIN queue
             /\ cloud \subseteq cloud'
  BY <1>1 DEF SyncStep, CheckNetwork, CheckFails, Offline, ReadQueue, StartUpload,
     Complete, CloudAccepts, UploadSucceeds, DequeueSynced, DequeueThrows, UploadFails,
     CountFailure, CountThrows, ForceOne, ForcedSync, IncrementRetryCount,
     RemoveFromQueue, Restrict, dbVars
<1>2. ASSUME StartAutoSync \/ NetworkEvent
      PROVE  /\ UNCHANGED <<up, created>>
             /\ DOMAIN queue' \subseteq DOMAIN queue
             /\ cloud \subseteq cloud'
  BY <1>2 DEF StartAutoSync, NetworkEvent, dbVars
<1> QED
  BY <1>1, <1>2 DEF EngineStep

LEMMA EngineScreens ==
  ASSUME StoreInv, TypeOK', ScreenInv, wiped = {}, EngineStep
  PROVE  ScreenInv'
<1>0. TypeOK /\ ScreenTypeOK /\ CountsCome /\ Awaken /\ created + scans <= MaxLogs
  BY DEF StoreInv, ScreenInv, EngineStep
<1>1. visit' \in [Visits -> VisitState]
  BY <1>0, AwakenTyped
<1>2. ReportedReachedCloud'
  <2>1. ASSUME NEW v \in Visits, NEW id \in visit'[v].synced
        PROVE  id \in cloud'
    <3>1. CASE id \in visit[v].synced
      BY <3>1, EngineKeeps DEF ScreenInv, ReportedReachedCloud
    <3>2. CASE id \notin visit[v].synced
      <4>1. PICK r \in visit[v].awaits : id \in run[r].synced
        BY <1>0, <2>1, <3>2, AwakenTyped
      <4>2. r \in Runs
        BY <1>0 DEF ScreenTypeOK, VisitState
      <4> QED
        BY <4>1, <4>2, EngineKeeps DEF StoreInv, RunsSound, RunSound
    <3> QED
      BY <3>1, <3>2
  <2> QED
    BY <2>1 DEF ReportedReachedCloud
<1>3. CountsCome'
  BY <1>0, EngineKeeps, CountsStay
<1>4. /\ top' \in {"none", "splash", "home", "attendance", "scanned", "syncStatus"}
      /\ top' = "none" <=> ~up'
      /\ scans' \in Nat /\ created' + scans' <= MaxLogs
  BY <1>0, EngineKeeps DEF ScreenTypeOK
<1> QED
  BY <1>1, <1>2, <1>3, <1>4, ScreensKeep

LEMMA StepScreens ==
  StoreInv /\ TypeOK' /\ ScreenInv /\ wiped = {} /\ [ScreenNext]_allVars => ScreenInv'
<1> SUFFICES ASSUME StoreInv, TypeOK', ScreenInv, wiped = {}, [ScreenNext]_allVars
             PROVE  ScreenInv'
  OBVIOUS
<1> DEFINE Tops == {"none", "splash", "home", "attendance", "scanned", "syncStatus"}
<1>0. /\ TypeOK /\ ScreenTypeOK /\ CountsCome
      /\ scans \in Nat /\ created \in Nat /\ created + scans <= MaxLogs
      /\ top \in Tops /\ (top = "none" <=> ~up)
  BY DEF StoreInv, ScreenInv, ScreenTypeOK, TypeOK
<1>a. UNCHANGED visit => Calm
  BY <1>0 DEF ScreenTypeOK, Calm
<1>b. {"attendance", "scanned", "splash", "none"} \cap Followed = {}
  BY ScreenAssumption
<1>1. CASE EngineStep
  BY <1>1, EngineScreens
<1>2. CASE LaunchScreens
  <2>1. /\ UNCHANGED <<queue, created, cloud, stats, missed, scans, visit>>
        /\ up' /\ top' = "splash"
    BY <1>2 DEF LaunchScreens, Launch, dbVars
  <2> QED
    BY <1>0, <1>a, <1>b, <2>1, CountsStay, CalmReports, ScreensKeep
<1>3. CASE CrashScreens
  <2>1. /\ visit' \in [Visits -> VisitState] /\ \A v \in Visits : visit'[v] = NoVisit
        /\ stats' \in [Followed -> Stats] /\ missed' = {}
    BY <1>3, NoVisitTyped, NoStatsTyped DEF CrashScreens
  <2>2. top' = "none" /\ ~up' /\ scans' = 0 /\ created' = created
    BY <1>3 DEF CrashScreens, Crash
  <2>3. ReportedReachedCloud'
    BY <2>1, NoVisitTyped DEF ReportedReachedCloud
  <2>4. CountsCome'
    BY <1>b, <2>1, <2>2 DEF CountsCome
  <2>5. top' \in Tops /\ (top' = "none" <=> ~up')
    BY <2>2
  <2>7. scans' \in Nat /\ created' + scans' <= MaxLogs
    BY <1>0, <2>2, MaxLogsAssumption
  <2>6. visit' \in [Visits -> VisitState]
    BY <2>1
  <2> QED
    BY <2>3, <2>4, <2>5, <2>6, <2>7, ScreensKeep
<1>4. ASSUME NEW r \in Runs, VisitForceThrows(r)
      PROVE  ScreenInv'
  <2>1. Calm
    BY <1>0, <1>4, ForceThrowsCalm
  <2>2. UNCHANGED <<queue, created, cloud, up, top, stats, missed, scans>>
    BY <1>4 DEF VisitForceThrows, ForceThrows, dbVars
  <2> QED
    BY <1>0, <2>1, <2>2, CountsStay, CalmReports, ScreensKeep
<1>5. CASE SplashEnds \/ Back
  <2>1. Calm
    BY <1>0, <1>5, <1>a, BackCalm DEF SplashEnds
  <2>2. UNCHANGED <<vars, scans>> /\ FocusHome /\ JsFree
    BY <1>5 DEF SplashEnds, Back
  <2>3. up' /\ top' = "home" /\ UNCHANGED <<created, cloud, scans>>
    BY <2>2 DEF FocusHome, JsFree, vars, dbVars, syncVars
  <2> QED
    BY <1>0, <2>1, <2>2, <2>3, HomeCounts, CalmReports, ScreensKeep
<1>6. CASE OpenAttendance \/ PressScan
  <2>1. /\ UNCHANGED <<queue, created, cloud, up, stats, visit>> /\ up
        /\ top' \in {"attendance", "scanned"}
    BY <1>6 DEF OpenAttendance, PressScan, JsFree, vars, dbVars, syncVars
  <2>2. missed' \in {missed, {}} /\ scans' \in {scans, scans + 1}
        /\ created + scans' <= MaxLogs
    BY <1>0, <1>6, MaxLogsAssumption DEF OpenAttendance, PressScan
  <2>3. CountsCome'
    BY <1>0, <1>b, <2>1, <2>2 DEF CountsCome
  <2> QED
    BY <1>0, <1>a, <2>1, <2>2, <2>3, CalmReports, ScreensKeep
<1>7. CASE ScanThrows
  <2>1. /\ UNCHANGED <<queue, created, cloud, up, top, stats, missed, visit>>
        /\ scans > 0 /\ scans' = scans - 1
    BY <1>7 DEF ScanThrows, vars, dbVars, syncVars
  <2> QED
    BY <1>0, <1>a, <2>1, MaxLogsAssumption, CountsStay, CalmReports, ScreensKeep
<1>8. CASE ScanLogs
  <2>1. /\ UNCHANGED <<queue, cloud, up, top, stats, missed, visit>>
        /\ scans > 0 /\ scans' = scans - 1 /\ created' = created + 1
    BY <1>8 DEF ScanLogs, LogAttendance, syncVars
  <2>2. scans' \in Nat /\ created' + scans' <= MaxLogs
    BY <1>0, <2>1, MaxLogsAssumption
  <2> QED
    BY <1>0, <1>a, <2>1, <2>2, CountsStay, CalmReports, ScreensKeep
<1>9. CASE ScanEnqueues
  <2>1. /\ UNCHANGED <<created, cloud, up, top, stats, scans, visit>>
        /\ queue' = QueueItem(created)
        /\ missed' = IF top \in Followed THEN missed \cup {created} ELSE missed
    BY <1>9 DEF ScanEnqueues, EnqueueLog, syncVars
  <2>2. DOMAIN queue' = DOMAIN queue \cup {created}
    BY <2>1 DEF QueueItem, Put
  <2>3. created \in Id
    BY <1>0, <2>1, <2>2, MaxLogsAssumption DEF TypeOK, Recorded, Id
  <2>4. CountsCome'
    BY <1>0, <2>1, <2>2, <2>3 DEF CountsCome, CountComes
  <2> QED
    BY <1>0, <1>a, <2>1, <2>4, CalmReports, ScreensKeep
<1>10. CASE EnqueueThrows \/ UNCHANGED allVars
  <2>1. UNCHANGED <<queue, created, cloud, up, top, stats, missed, scans, visit>>
    BY <1>10 DEF EnqueueThrows, SecondWriteThrows, allVars, screenVars, vars, dbVars,
       syncVars
  <2> QED
    BY <1>0, <1>a, <2>1, CountsStay, CalmReports, ScreensKeep
<1>11. ASSUME NEW v \in Visits,
              \/ VisitNetwork(v) \/ VisitThrows(v) \/ VisitOffline(v) \/ VisitEnds(v)
              \/ ManualSync(v)
       PROVE  ScreenInv'
  <2>1. Calm
    BY <1>0, <1>11, VisitCalm
  <2>2. UNCHANGED <<queue, created, cloud, up, top, stats, missed, scans>>
    BY <1>11 DEF VisitNetwork, VisitThrows, VisitOffline, VisitEnds, ManualSync, vars,
       dbVars, syncVars
  <2> QED
    BY <1>0, <2>1, <2>2, CountsStay, CalmReports, ScreensKeep
<1>12. ASSUME NEW v \in Visits, VisitReports(v) \/ OpenSyncStatus(v)
       PROVE  ScreenInv'
  <2>1. Calm /\ CountsCome'
    BY <1>0, <1>12, VisitCalm, ReportCounts, OpenCounts
  <2>2. /\ UNCHANGED <<created, cloud, up, scans>> /\ up
        /\ top' \in {top, "syncStatus"} 
    BY <1>12 DEF VisitReports, OpenSyncStatus, JsFree, vars, dbVars, syncVars
  <2> QED
    BY <1>0, <2>1, <2>2, CalmReports, ScreensKeep
<1>13. ASSUME NEW v \in Visits, VisitForces(v)
       PROVE  ScreenInv'
  <2>1. PICK r \in Runs : ForceSync(r) /\ visit' = [visit EXCEPT ![v].pc = "await", ![v].awaits = {r}]
    BY <1>13 DEF VisitForces
  <2> DEFINE a == [visit[v] EXCEPT !.pc = "await", !.awaits = {r}]
  <2>2. visit[v] \in VisitState
    BY <1>0 DEF ScreenTypeOK
  <2>3. a \in VisitState /\ a.synced = visit[v].synced
    BY <2>2 DEF VisitState
  <2>4. visit' = [visit EXCEPT ![v] = a]
    BY <1>0, <2>1 DEF ScreenTypeOK
  <2> HIDE DEF a
  <2>5. /\ visit' \in [Visits -> VisitState]
        /\ \A w \in Visits : visit'[w].synced = visit[w].synced
    BY <1>0, <2>3, <2>4 DEF ScreenTypeOK
  <2>6. UNCHANGED <<queue, created, cloud, up, top, stats, missed, scans>>
    BY <1>13, <2>1 DEF VisitForces, ForceSync, dbVars
  <2>7. ReportedReachedCloud'
    BY <2>5, <2>6 DEF ScreenInv, ReportedReachedCloud
  <2> QED
    BY <1>0, <2>5, <2>6, <2>7, CountsStay, ScreensKeep
<1>14. ASSUME NEW s \in Followed, StatsRead(s) \/ StatsShown(s) \/ StatsFail(s)
       PROVE  ScreenInv'
  <2>1. Calm /\ CountsCome'
    BY <1>0, <1>14, StatsCalm, ReadCounts, ShownCounts, FailCounts
  <2>2. UNCHANGED <<created, cloud, up, top, scans>>
    BY <1>14 DEF StatsRead, StatsShown, StatsFail, vars, dbVars, syncVars
  <2> QED
    BY <1>0, <2>1, <2>2, CalmReports, ScreensKeep
<1> QED
  BY <1>1, <1>2, <1>3, <1>4, <1>5, <1>6, <1>7, <1>8, <1>9, <1>10, <1>11, <1>12, <1>13, <1>14
  DEF ScreenNext, ScreenProceed, VisitStep

LEMMA ScreenInvariant == ScreenSpec => []ScreenInv
<1>1. StoreInv => TypeOK
  BY DEF StoreInv
<1> QED
  BY <1>1, InitScreens, StepScreens, NothingWiped, EngineInvariants, PTL DEF ScreenSpec

\* The screens keep their types, and a screen is there while the app runs.
THEOREM ScreenTypeCorrect == ScreenSpec => []ScreenTypeOK
<1>1. ScreenInv => ScreenTypeOK
  BY DEF ScreenInv
<1> QED
  BY <1>1, ScreenInvariant, PTL

\* What a visit reports as synchronized is in the cloud
\* (SyncStatusScreen.tsx:53).
THEOREM ReportsAreTrue == ScreenSpec => []ReportedReachedCloud
<1>1. ScreenInv => ReportedReachedCloud
  BY DEF ScreenInv
<1> QED
  BY <1>1, ScreenInvariant, PTL

\* Once its loads have landed, the count in view leaves out nothing but what a
\* late scan enqueued, or what getStats could not tell it (HomeScreen.tsx:20-37,
\* SyncStatusScreen.tsx:19-30, 58).
THEOREM CountsCatchUp == ScreenSpec => []CountCatchesUp
<1>1. ScreenInv => CountCatchesUp
  <2> SUFFICES ASSUME ScreenInv, NEW s \in Followed, top = s, Loads(s) = 0
               PROVE  DOMAIN queue \subseteq stats[s].shown \cup missed
    BY DEF CountCatchesUp
  <2>1. stats[s] \in Stats /\ CountComes(s)
    BY DEF ScreenInv, CountsCome
  <2>2. stats[s].reading \in Nat /\ stats[s].read \in Seq(SUBSET Id)
    BY <2>1 DEF Stats
  <2>3. stats[s].reading = 0 /\ Len(stats[s].read) = 0
    BY <2>2 DEF Loads
  <2>4. stats[s].read = <<>>
    BY <2>2, <2>3
  <2> QED
    BY <2>1, <2>3, <2>4 DEF CountComes, Newest
<1> QED
  BY <1>1, ScreenInvariant, PTL

\* README.md:54 for the user: when Home has read its statistics and shows
\* "All Synced", the cloud has every log but those that the count is known to
\* miss, unless a write threw or the process died before.
BadgeIsTrue ==
  /\ faults = 0 /\ JsFree
  /\ "home" \in Followed /\ top = "home" /\ Loads("home") = 0
  /\ stats["home"].shown = {}
  => DOMAIN logs \subseteq cloud \cup missed

\* Without a fault, "All Synced" that has been read speaks of every log that
\* no late scan has added.
THEOREM BadgeWithoutFaults == ScreenSpec => []BadgeIsTrue
<1>1. TypeOK /\ CountCatchesUp /\ QueueMirrorsPending /\ SyncedReachedCloud => BadgeIsTrue
  <2> SUFFICES ASSUME TypeOK, CountCatchesUp, QueueMirrorsPending, SyncedReachedCloud,
                      faults = 0, JsFree, "home" \in Followed, top = "home",
                      Loads("home") = 0, stats["home"].shown = {}
               PROVE  DOMAIN logs \subseteq cloud \cup missed
    BY DEF BadgeIsTrue
  <2>1. DOMAIN queue \subseteq missed
    BY DEF CountCatchesUp
  <2>2. Logged("PENDING") = DOMAIN queue
    BY DEF QueueMirrorsPending
  <2>3. DOMAIN logs \subseteq Logged("SYNCED") \cup Logged("PENDING")
    BY DEF Logged, TypeOK
  <2> QED
    BY <2>1, <2>2, <2>3 DEF SyncedReachedCloud
<1> QED
  BY <1>1, CountsCatchUp, QueueMirrors, SyncedLogsDelivered, TypeCorrect, ScreensUseEngine,
     PTL DEF ImplementsEngine

-------------------------------------------------------------------------------
(* No record is reported twice.                                            *)

\* The records that are in the queue or about to be.
Waiting == DOMAIN queue \cup Coming

\* What an activation has in hand.
Hand(r) == run[r].todo \cup run[r].batch \cup run[r].synced

\* What a run counted as synced has left the queue for good.
Delivered == \A r \in Runs : run[r].synced \cap Waiting = {}

\* What one activation does in a step, and what all others do not: nothing
\* joins the queue, what is synced has left it, and a run inside sync() takes
\* from the queue or from what it had.
Effect(r) ==
  /\ Waiting' \subseteq Waiting
  /\ \A s \in Runs \ {r} : run'[s] = run[s]
  /\ run'[r].synced \cap Waiting' = {}
  /\ run'[r].pc \notin {"idle", "force"} =>
       Hand(r)' \subseteq DOMAIN queue \cup (IF r \in Syncing THEN Hand(r) ELSE {})

LEMMA ResetEffect ==
  ASSUME TypeOK, NEW r \in Runs, NEW pc \in Starting,
         run' = [run EXCEPT ![r] = [IdleRun EXCEPT !.pc = pc]], UNCHANGED dbVars
  PROVE  Effect(r)
  BY DEF Effect, Waiting, Coming, Hand, TypeOK, IdleRun, dbVars

LEMMA FinishEffect ==
  ASSUME TypeOK, NEW r \in Runs, run' = [run EXCEPT ![r] = IdleRun], UNCHANGED dbVars
  PROVE  Effect(r)
  BY DEF Effect, Waiting, Coming, Hand, TypeOK, IdleRun, dbVars

LEMMA SyncEffect ==
  ASSUME LimitInv, Limits, Delivered, NEW r \in Runs, SyncStep(r)
  PROVE  Effect(r)
<1> DEFINE a == run[r]
<1>0. /\ TypeOK /\ a \in RunState /\ run \in [Runs -> RunState]
      /\ Attempt(r) /\ Limit(r) /\ a.synced \cap Waiting = {}
      /\ r \in Syncing
  BY DEF LimitInv, Limits, TypeOK, Attempts, Delivered, Syncing, At, SyncStep,
     CheckNetwork, CheckFails, Offline, ReadQueue, StartUpload, Complete, CloudAccepts,
     UploadSucceeds, DequeueSynced, DequeueThrows, UploadFails, CountFailure, CountThrows
<1>1. CASE CheckFails(r) \/ Offline(r) \/ Complete(r) \/ CountThrows(r)
  <2>1. run' = [run EXCEPT ![r] = IdleRun] /\ UNCHANGED dbVars
    BY <1>1 DEF CheckFails, Offline, Complete, CountThrows, Finish
  <2> QED
    BY <1>0, <2>1, FinishEffect
<1>2. CASE CheckNetwork(r) \/ UploadSucceeds(r) \/ UploadFails(r) \/ DequeueThrows(r)
  <2>1. /\ run'[r].batch = a.batch /\ run'[r].todo = a.todo /\ run'[r].synced = a.synced
        /\ \A s \in Runs \ {r} : run'[s] = run[s]
    BY <1>0, <1>2 DEF CheckNetwork, UploadSucceeds, UploadFails, DequeueThrows, RunState
  <2>2. UNCHANGED <<queue, Coming>>
    BY <1>2 DEF CheckNetwork, UploadSucceeds, UploadFails, DequeueThrows, dbVars, Coming
  <2> QED
    BY <1>0, <2>1, <2>2 DEF Effect, Waiting, Hand
<1>3. CASE CloudAccepts(r)
  BY <1>0, <1>3 DEF CloudAccepts, Effect, Waiting, Coming, Hand, dbVars
<1>4. CASE ReadQueue(r)
  <2>1. /\ run'[r].batch = a.batch /\ run'[r].todo = Retryable /\ run'[r].synced = a.synced
        /\ \A s \in Runs \ {r} : run'[s] = run[s]
    BY <1>0, <1>4 DEF ReadQueue, RunState
  <2>2. UNCHANGED <<queue, Coming>> /\ Retryable \subseteq DOMAIN queue
    BY <1>4 DEF ReadQueue, dbVars, Coming, Retryable
  <2> QED
    BY <1>0, <2>1, <2>2 DEF Effect, Waiting, Hand
<1>5. CASE StartUpload(r)
  <2> DEFINE batch == FirstBatch(a.todo)
             rest  == Rest(a.todo)
  <2>1. batch \subseteq a.todo /\ rest \subseteq a.todo
    BY BatchOfList
  <2>2. /\ run'[r].batch = batch /\ run'[r].todo = rest /\ run'[r].synced = a.synced
        /\ \A s \in Runs \ {r} : run'[s] = run[s]
    BY <1>0, <1>5 DEF StartUpload, RunState
  <2>3. UNCHANGED <<queue, Coming>>
    BY <1>5 DEF StartUpload, dbVars, Coming
  <2> HIDE DEF batch, rest
  <2> QED
    BY <1>0, <2>1, <2>2, <2>3 DEF Effect, Waiting, Hand
<1>6. CASE DequeueSynced(r)
  <2>1. /\ run'[r].batch = {} /\ run'[r].todo = a.todo
        /\ run'[r].synced = a.synced \cup a.batch
        /\ \A s \in Runs \ {r} : run'[s] = run[s]
    BY <1>0, <1>6 DEF DequeueSynced, RunState
  <2>2. DOMAIN queue' = DOMAIN queue \ a.batch /\ Coming' = Coming
    BY <1>6 DEF DequeueSynced, RemoveFromQueue, Restrict, Coming
  <2>3. a.batch \cap Coming = {}
    BY <1>0 DEF Limit
  <2> QED
    BY <1>0, <2>1, <2>2, <2>3 DEF Effect, Waiting, Hand
<1>7. CASE CountFailure(r)
  <2>1. /\ run'[r].batch \subseteq a.batch /\ run'[r].todo = a.todo
        /\ run'[r].synced = a.synced /\ \A s \in Runs \ {r} : run'[s] = run[s]
    BY <1>0, <1>7 DEF CountFailure, RunState
  <2>2. DOMAIN queue' = DOMAIN queue /\ Coming' = Coming
    BY <1>7 DEF CountFailure, IncrementRetryCount, Coming
  <2> QED
    BY <1>0, <2>1, <2>2 DEF Effect, Waiting, Hand
<1> QED
  BY <1>1, <1>2, <1>3, <1>4, <1>5, <1>6, <1>7 DEF SyncStep

LEMMA ForceEffect ==
  ASSUME LimitInv, Delivered, NEW r \in Runs, ForceStep(r) \/ ForceSync(r)
  PROVE  Effect(r)
<1>0. TypeOK /\ run[r] \in RunState /\ run[r].synced \cap Waiting = {}
  BY DEF LimitInv, TypeOK, Delivered
<1>1. CASE ForceSync(r) \/ ForceOne(r)
  <2>1. /\ run'[r].synced = run[r].synced /\ run'[r].pc = "force"
        /\ \A s \in Runs \ {r} : run'[s] = run[s]
    BY <1>0, <1>1 DEF ForceSync, ForceOne, TypeOK, RunState, At
  <2>2. DOMAIN queue' = DOMAIN queue /\ Coming' = Coming
    BY <1>1 DEF ForceSync, ForceOne, IncrementRetryCount, Coming, dbVars
  <2> QED
    BY <1>0, <2>1, <2>2 DEF Effect, Waiting
<1>2. CASE ForceThrows(r)
  BY <1>0, <1>2, FinishEffect DEF ForceThrows
<1>3. CASE ForcedSync(r)
  BY <1>0, <1>3, FinishEffect, ResetEffect DEF ForcedSync, StartRun, Starting
<1> QED
  BY <1>1, <1>2, <1>3 DEF ForceStep

\* A step of the engine under the screens is the doing of one activation, or
\* of none.
LEMMA EngineEffect ==
  ASSUME LimitInv, Limits, Delivered, EngineStep
  PROVE  \/ UNCHANGED <<run, dbVars>>
         \/ \E r \in Runs : Effect(r)
<1>1. CASE StartAutoSync \/ NetworkEvent
  <2>1. UNCHANGED dbVars /\ (AutoSync \/ UNCHANGED run)
    BY <1>1 DEF StartAutoSync, NetworkEvent
  <2>2. ASSUME NEW r \in Idle, StartRun(r)
        PROVE  Effect(r)
    BY <2>1, <2>2, ResetEffect DEF LimitInv, Idle, StartRun, Starting
  <2> QED
    BY <2>1, <2>2 DEF AutoSync, Idle
<1> QED
  BY <1>1, SyncEffect, ForceEffect DEF EngineStep, ForceStep

\* No two visits are told of one record: what a visit was told of is out of
\* the queue and not in the hands of a run, and no two visits wait for one
\* activation.
ReportInv ==
  /\ Delivered
  /\ \A v \in Visits : visit[v].synced \cap Waiting = {}
  /\ \A v \in Visits : \A r \in Syncing : Hand(r) \cap visit[v].synced = {}
  /\ \A v \in Visits : \A r \in visit[v].awaits : run[r].pc # "idle"
  /\ \A v, w \in Visits : v # w => visit[v].awaits \cap visit[w].awaits = {}
  /\ ReportedOnce

LEMMA ReportShrinks ==
  ASSUME ReportInv, UNCHANGED run, Waiting' \subseteq Waiting,
         \A v \in Visits : /\ visit'[v].synced \subseteq visit[v].synced
                           /\ visit'[v].awaits \subseteq visit[v].awaits
  PROVE  ReportInv'
<1>1. Delivered' /\ Syncing' = Syncing /\ \A r \in Runs : Hand(r)' = Hand(r)
  BY DEF ReportInv, Delivered, Syncing, Hand
<1>2. Syncing \subseteq Runs
  BY DEF Syncing
<1>3. \A v \in Visits : \A r \in Syncing' : Hand(r)' \cap visit'[v].synced = {}
  BY <1>1, <1>2 DEF ReportInv
<1> QED
  BY <1>1, <1>3 DEF ReportInv, ReportedOnce

\* One activation goes on; a visit is told of what it has synced only when
\* it is over, and if the visit has waited for it.
LEMMA ReportEffect ==
  ASSUME LimitInv, ReportInv, NEW r \in Runs, Effect(r),
         \A v \in Visits : \A id \in visit'[v].synced \ visit[v].synced :
           r \in visit[v].awaits /\ run'[r].pc = "idle" /\ id \in run[r].synced,
         \A v \in Visits : \A s \in visit'[v].awaits : run'[s].pc # "idle",
         \A v, w \in Visits : v # w => visit'[v].awaits \cap visit'[w].awaits = {}
  PROVE  ReportInv'
<1>1. Delivered'
  BY DEF ReportInv, Delivered, Effect
<1>2. \A v \in Visits : visit'[v].synced \cap Waiting' = {}
  BY DEF ReportInv, Delivered, Effect
<1>3. run[r].synced # {} => r \in Syncing
  BY DEF LimitInv, Attempts, Attempt, Starting, Syncing
<1>4. ASSUME NEW v \in Visits, NEW s \in Syncing', NEW id \in Hand(s)' \cap visit'[v].synced
      PROVE  FALSE
  <2>0. s \in Runs
    BY DEF Syncing
  <2>1. CASE s = r
    <3>1. run'[r].pc \notin {"idle", "force"}
      BY <2>1 DEF Syncing
    <3>2. id \in visit[v].synced
      BY <3>1
    <3>3. id \in DOMAIN queue \/ (r \in Syncing /\ id \in Hand(r))
      BY <2>1, <3>1 DEF Effect
    <3> QED
      BY <3>2, <3>3 DEF ReportInv, Waiting
  <2>2. CASE s # r
    <3>1. run'[s] = run[s] /\ s \in Syncing /\ id \in Hand(s)
      BY <2>0, <2>2 DEF Effect, Syncing, Hand
    <3>2. CASE id \in visit[v].synced
      BY <3>1, <3>2 DEF ReportInv
    <3>3. CASE id \notin visit[v].synced
      BY <1>3, <2>2, <3>1, <3>3 DEF LimitInv, SingleSyncRun
    <3> QED
      BY <3>2, <3>3
  <2> QED
    BY <2>1, <2>2
<1>5. ASSUME NEW v \in Visits, NEW w \in Visits, v # w,
             NEW id \in visit'[v].synced \cap visit'[w].synced
      PROVE  FALSE
  <2>1. ASSUME NEW x \in Visits, NEW y \in Visits, x # y,
               id \in visit'[x].synced \ visit[x].synced, id \in visit[y].synced
        PROVE  FALSE
    BY <1>3, <2>1 DEF ReportInv, Hand
  <2>2. CASE id \notin visit[v].synced /\ id \notin visit[w].synced
    BY <1>5, <2>2 DEF ReportInv
  <2>3. CASE id \in visit[v].synced /\ id \in visit[w].synced
    BY <1>5, <2>3 DEF ReportInv, ReportedOnce
  <2> QED
    BY <1>5, <2>1, <2>2, <2>3
<1> QED
  BY <1>1, <1>2, <1>4, <1>5 DEF ReportInv, ReportedOnce

LEMMA EngineReport ==
  ASSUME LimitInv, Limits, ScreenTypeOK, ReportInv, EngineStep
  PROVE  ReportInv'
<1>0. TypeOK /\ Awaken
  BY DEF LimitInv, EngineStep
<1>1. CASE UNCHANGED <<run, dbVars>>
  <2>1. \A v \in Visits : \A r \in visit[v].awaits : run'[r].pc # "idle"
    BY <1>1 DEF ReportInv
  <2>2. \A v \in Visits : /\ visit'[v].synced \subseteq visit[v].synced
                          /\ visit'[v].awaits \subseteq visit[v].awaits
    BY <1>0, <2>1, AwakenTyped
  <2>3. Waiting' = Waiting
    BY <1>1 DEF Waiting, Coming, dbVars
  <2> QED
    BY <1>1, <2>2, <2>3, ReportShrinks
<1>2. ASSUME NEW r \in Runs, Effect(r)
      PROVE  ReportInv'
  <2>1. ASSUME NEW v \in Visits, NEW id \in visit'[v].synced \ visit[v].synced
        PROVE  r \in visit[v].awaits /\ run'[r].pc = "idle" /\ id \in run[r].synced
    <3>1. PICK s \in visit[v].awaits : run'[s].pc = "idle" /\ id \in run[s].synced
      BY <1>0, <2>1, AwakenTyped
    <3>2. s \in Runs /\ run[s].pc # "idle"
      BY DEF ScreenTypeOK, VisitState, ReportInv
    <3>3. s = r
      BY <1>2, <3>1, <3>2 DEF Effect
    <3> QED
      BY <3>1, <3>3
  <2>2. \A v \in Visits : \A s \in visit'[v].awaits : run'[s].pc # "idle"
    BY <1>0, AwakenTyped
  <2>3. \A v \in Visits : visit'[v].awaits \subseteq visit[v].awaits
    BY <1>0, AwakenTyped
  <2>4. \A v, w \in Visits : v # w => visit'[v].awaits \cap visit'[w].awaits = {}
    BY <2>3 DEF ReportInv
  <2> QED
    BY <1>2, <2>1, <2>2, <2>4, ReportEffect
<1> QED
  BY <1>1, <1>2, EngineEffect DEF ReportInv

LEMMA StepReport ==
  LimitInv /\ StoreInv /\ Limits /\ ScreenInv /\ ReportInv /\ [ScreenNext]_allVars => ReportInv'
<1> SUFFICES ASSUME LimitInv, StoreInv, Limits, ScreenInv, ReportInv, [ScreenNext]_allVars
             PROVE  ReportInv'
  OBVIOUS
<1>0. TypeOK /\ ScreenTypeOK /\ visit \in [Visits -> VisitState]
  BY DEF LimitInv, ScreenInv, ScreenTypeOK
<1>1. CASE EngineStep
  BY <1>0, <1>1, EngineReport
<1>2. CASE CrashScreens
  <2>1. /\ \A r \in Runs : run'[r] = IdleRun
        /\ \A v \in Visits : visit'[v] = NoVisit
    BY <1>2 DEF CrashScreens, Crash
  <2>2. \A r \in Runs : run'[r].synced = {} /\ run'[r].pc = "idle"
    BY <2>1 DEF IdleRun
  <2>3. \A v \in Visits : visit'[v].synced = {} /\ visit'[v].awaits = {}
    BY <2>1 DEF NoVisit
  <2> QED
    BY <2>2, <2>3 DEF ReportInv, Delivered, ReportedOnce
<1>3. ASSUME NEW r \in Runs, VisitForceThrows(r)
      PROVE  ReportInv'
  <2>1. Effect(r) /\ Calm /\ \A v \in Visits : r \notin visit'[v].awaits
    BY <1>0, <1>3, ForceEffect, ForceThrowsCalm
    DEF VisitForceThrows, ForceStep, ReportInv
  <2>2. \A v \in Visits : \A s \in visit'[v].awaits :
          s \in visit[v].awaits /\ s \in Runs \ {r}
    BY <1>0, <2>1 DEF Calm, VisitState
  <2>3. \A v \in Visits : \A s \in visit'[v].awaits : run'[s].pc # "idle"
    BY <2>1, <2>2 DEF Effect, ReportInv
  <2>4. \A v, w \in Visits : v # w => visit'[v].awaits \cap visit'[w].awaits = {}
    BY <2>2 DEF ReportInv
  <2> QED
    BY <2>1, <2>3, <2>4, ReportEffect DEF Calm
<1>4. CASE ScanLogs
  <2>1. Coming = {} /\ Coming' = {created + 1} /\ UNCHANGED <<queue, run, visit>>
    BY <1>4 DEF ScanLogs, LogAttendance, JsFree, Coming, syncVars
  <2>2. created + 1 \notin Recorded
    BY <1>0, MaxLogsAssumption DEF TypeOK, Recorded
  <2>3. /\ \A r \in Runs : run[r].synced \subseteq Recorded
        /\ \A v \in Visits : visit[v].synced \subseteq Recorded
    BY <1>0 DEF StoreInv, RunsSound, RunSound, ScreenInv, ReportedReachedCloud, TypeOK
  <2>4. /\ \A r \in Runs : run'[r].synced \cap Waiting' = {}
        /\ \A v \in Visits : visit'[v].synced \cap Waiting' = {}
    BY <2>1, <2>2, <2>3 DEF ReportInv, Delivered, Waiting
  <2>5. Syncing' = Syncing /\ \A r \in Runs : Hand(r)' = Hand(r)
    BY <2>1 DEF Syncing, Hand
  <2>6. \A v \in Visits : \A r \in Syncing' : Hand(r)' \cap visit'[v].synced = {}
    BY <2>1, <2>5 DEF ReportInv, Syncing
  <2> QED
    BY <2>1, <2>4, <2>6 DEF ReportInv, Delivered, ReportedOnce
<1>5. CASE ScanEnqueues
  <2>1. Waiting' = Waiting /\ UNCHANGED <<run, visit>>
    BY <1>5 DEF ScanEnqueues, EnqueueLog, QueueItem, Put, Waiting, Coming, syncVars
  <2> QED
    BY <2>1, ReportShrinks
<1>6. CASE EnqueueThrows
  <2>1. Waiting' \subseteq Waiting /\ UNCHANGED <<run, visit>>
    BY <1>6 DEF EnqueueThrows, SecondWriteThrows, Waiting, Coming, screenVars
  <2> QED
    BY <2>1, ReportShrinks
<1>7. CASE LaunchScreens
  <2>1. Waiting' = Waiting /\ UNCHANGED <<run, visit>>
    BY <1>7 DEF LaunchScreens, Launch, Waiting, Coming, dbVars
  <2> QED
    BY <2>1, ReportShrinks
<1>8. ASSUME NEW v \in Visits, VisitForces(v)
      PROVE  ReportInv'
  <2>1. PICK r \in Runs :
          ForceSync(r) /\ visit' = [visit EXCEPT ![v].pc = "await", ![v].awaits = {r}]
    BY <1>8 DEF VisitForces
  <2>2. Effect(r)
    BY <2>1, ForceEffect DEF ReportInv
  <2>3. /\ \A w \in Visits : visit'[w].synced = visit[w].synced
        /\ \A w \in Visits \ {v} : visit'[w].awaits = visit[w].awaits
        /\ visit'[v].awaits = {r}
    BY <1>0, <2>1 DEF VisitState
  <2>4. run[r].pc = "idle" /\ run'[r].pc = "force"
    BY <1>0, <2>1 DEF ForceSync, Idle, At, TypeOK, RunState
  <2>5. \A w \in Visits : r \notin visit[w].awaits /\ visit[w].awaits \subseteq Runs
    BY <1>0, <2>4 DEF ReportInv, VisitState
  <2>6. \A w \in Visits : \A s \in visit'[w].awaits : run'[s].pc # "idle"
    BY <2>2, <2>3, <2>4, <2>5 DEF Effect, ReportInv
  <2>7. \A w, x \in Visits : w # x => visit'[w].awaits \cap visit'[x].awaits = {}
    BY <2>3, <2>5 DEF ReportInv
  <2> QED
    BY <2>2, <2>3, <2>6, <2>7, ReportEffect
<1>9. ASSUME NEW v \in Visits,
             \/ VisitNetwork(v) \/ VisitThrows(v) \/ VisitOffline(v) \/ VisitReports(v)
             \/ VisitEnds(v) \/ ManualSync(v) \/ OpenSyncStatus(v)
      PROVE  ReportInv'
  <2>1. Calm
    BY <1>0, <1>9, VisitCalm
  <2>2. UNCHANGED vars
    BY <1>9 DEF VisitNetwork, VisitThrows, VisitOffline, VisitReports, VisitEnds,
       ManualSync, OpenSyncStatus
  <2> QED
    BY <2>1, <2>2, ReportShrinks DEF Calm, Waiting, Coming, vars, dbVars, syncVars
<1>10. CASE Back
  <2>1. Calm /\ UNCHANGED vars
    BY <1>0, <1>10, BackCalm DEF Back
  <2> QED
    BY <2>1, ReportShrinks DEF Calm, Waiting, Coming, vars, dbVars, syncVars
<1>11. ASSUME NEW s \in Followed, StatsRead(s) \/ StatsShown(s) \/ StatsFail(s)
       PROVE  ReportInv'
  <2>1. Calm /\ UNCHANGED vars
    BY <1>0, <1>11, StatsCalm DEF StatsRead, StatsShown, StatsFail
  <2> QED
    BY <2>1, ReportShrinks DEF Calm, Waiting, Coming, vars, dbVars, syncVars
<1>12. CASE \/ SplashEnds \/ OpenAttendance \/ PressScan \/ ScanThrows
            \/ UNCHANGED allVars
  <2>1. UNCHANGED <<vars, visit>>
    BY <1>12 DEF SplashEnds, OpenAttendance, PressScan, ScanThrows, allVars, screenVars
  <2> QED
    BY <2>1, ReportShrinks DEF Waiting, Coming, vars, dbVars, syncVars
<1> QED
  BY <1>1, <1>2, <1>3, <1>4, <1>5, <1>6, <1>7, <1>8, <1>9, <1>10, <1>11, <1>12
  DEF ScreenNext, ScreenProceed, VisitStep

LEMMA InitReport == ScreenInit => ReportInv
<1> SUFFICES ASSUME ScreenInit
             PROVE  ReportInv
  OBVIOUS
<1>1. /\ \A r \in Runs : run[r] = IdleRun
      /\ \A v \in Visits : visit[v] = NoVisit
  BY DEF ScreenInit, Init
<1>2. \A r \in Runs : run[r].synced = {} /\ run[r].pc = "idle"
  BY <1>1 DEF IdleRun
<1>3. \A v \in Visits : visit[v].synced = {} /\ visit[v].awaits = {}
  BY <1>1 DEF NoVisit
<1> QED
  BY <1>2, <1>3 DEF ReportInv, Delivered, ReportedOnce

\* No record is in the totals of two overlapping visits
\* (SyncStatusScreen.tsx:50-54, SyncService.ts:59-62).
THEOREM NoDoubleReport == ScreenSpec => []ReportedOnce
<1>1. ReportInv => ReportedOnce
  BY DEF ReportInv
<1> QED
  BY <1>1, InitReport, StepReport, EngineInvariants, ScreenInvariant, PTL DEF ScreenSpec
===============================================================================
