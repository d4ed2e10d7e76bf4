--------------------------- MODULE SyncServiceProofs ---------------------------
(***************************************************************************)
(* Safety of the database and the synchronization engine for any number of *)
(* records, activations, faults and retries, and any batch size.          *)
(***************************************************************************)
EXTENDS SyncProperties, TLAPS

\* Half of logAttendance is done for a record that exists, and half of
\* clearAllData when no log is left.
HalfDone ==
  /\ job = "logAttendance" => created \in Recorded
  /\ job = "clearAllData" => DOMAIN logs = {}

\* What an activation works on was recorded.  While a batch is under way, a
\* log of it that is still there was there when the upload began.  Between
\* the two writes of markRecordsSynced the batch is in the cloud or wiped,
\* and so is what the activation counted as synced.
RunSound(r) ==
  /\ run[r].todo \cup run[r].batch \cup run[r].sent \subseteq Recorded
  /\ At(r, "upload") => run[r].batch \cap DOMAIN logs \subseteq run[r].sent
  /\ At(r, "mark") => run[r].batch \subseteq cloud \cup wiped
  /\ run[r].synced \subseteq cloud \cup wiped

RunsSound == \A r \in Runs : RunSound(r)

\* A wiped record never comes back.
WipedIsGone == wiped \cap DOMAIN logs = {}

StoreSound == HalfDone /\ WipedIsGone /\ SyncedReachedCloud /\ NothingLost

StoreInv == TypeOK /\ RunsSound /\ StoreSound

LEMMA BatchOfList ==
  ASSUME NEW list
  PROVE  /\ FirstBatch(list) \subseteq list
         /\ Rest(list) \subseteq list
  BY DEF FirstBatch, Rest

LEMMA InitStore == Init => StoreInv
<1> SUFFICES ASSUME Init
             PROVE  StoreInv
  OBVIOUS
<1> USE DEF Init, DbInit
<1>1. IdleRun \in RunState
  BY DEF IdleRun, RunState, Pc
<1>2. run \in [Runs -> RunState]
  BY <1>1
<1>3. /\ DOMAIN logs = {} /\ DOMAIN queue = {}
      /\ logs \in [DOMAIN logs -> {"PENDING", "SYNCED"}]
      /\ queue \in [DOMAIN queue -> Nat]
  BY DEF Empty
<1>4. created \in 0 .. MaxLogs /\ faults \in 0 .. MaxFaults
  BY MaxLogsAssumption, SyncAssumption
<1>5. TypeOK
  BY <1>2, <1>3, <1>4 DEF TypeOK
<1>6. RunsSound
  BY DEF RunsSound, RunSound, IdleRun, At
<1>7. StoreSound
  BY <1>3 DEF StoreSound, HalfDone, WipedIsGone, SyncedReachedCloud, NothingLost, Logged,
     Recorded
<1> QED
  BY <1>5, <1>6, <1>7 DEF StoreInv

LEMMA DatabaseStep ==
  ASSUME StoreInv, DatabaseCall
  PROVE  StoreInv'
<1> USE MaxLogsAssumption
    DEF StoreInv, TypeOK, RunsSound, RunSound, StoreSound, HalfDone, WipedIsGone,
        SyncedReachedCloud, NothingLost, Logged, Recorded, At, Id,
        syncVars
<1>1. CASE JsFree /\ LogAttendance /\ UNCHANGED syncVars
  BY <1>1 DEF JsFree, LogAttendance, Put
<1>2. CASE JsFree /\ PurgeOldSyncedLogs /\ UNCHANGED syncVars
  BY <1>2 DEF JsFree, PurgeOldSyncedLogs, Purgeable, Restrict
<1>3. CASE JsFree /\ ClearAllData /\ UNCHANGED syncVars
  BY <1>3 DEF JsFree, ClearAllData, Empty
<1>4. CASE EnqueueLog /\ UNCHANGED syncVars
  BY <1>4 DEF EnqueueLog, QueueItem, Put
<1>5. CASE ClearQueue /\ UNCHANGED syncVars
  BY <1>5 DEF ClearQueue, Empty
<1> QED
  BY <1>1, <1>2, <1>3, <1>4, <1>5 DEF DatabaseCall

\* A step that leaves the store and the cloud alone has to keep RunSound.
LEMMA StoreFrame ==
  ASSUME StoreInv, UNCHANGED <<dbVars, cloud>>, faults' \in 0 .. MaxFaults,
         up' \in BOOLEAN, subscribed' \in BOOLEAN, isSyncing' \in BOOLEAN,
         net' \in BOOLEAN, run' \in [Runs -> RunState], RunsSound'
  PROVE  StoreInv'
  BY DEF StoreInv, TypeOK, StoreSound, HalfDone, WipedIsGone, SyncedReachedCloud,
     NothingLost, Logged, Recorded, dbVars

\* Replacing one activation by another one.
LEMMA RunFrame ==
  ASSUME run \in [Runs -> RunState], NEW r \in Runs, NEW a \in RunState,
         run' = [run EXCEPT ![r] = a]
  PROVE  /\ run' \in [Runs -> RunState]
         /\ run'[r] = a
         /\ \A s \in Runs \ {r} : run'[s] = run[s]
  OBVIOUS

\* A fault is one of those that are allowed for.
LEMMA FaultCounted ==
  ASSUME TypeOK, faults' = faults \/ Fault
  PROVE  faults' \in 0 .. MaxFaults
  BY SyncAssumption DEF TypeOK, Fault

LEMMA FinishStep ==
  ASSUME StoreInv, NEW r \in Runs, Finish(r), faults' \in 0 .. MaxFaults,
         UNCHANGED <<dbVars, up, subscribed, net, cloud>>
  PROVE  StoreInv'
<1>1. IdleRun \in RunState
  BY DEF IdleRun, RunState, Pc
<1>2. run' \in [Runs -> RunState]
  BY <1>1 DEF Finish, StoreInv, TypeOK
<1>3. RunsSound'
  BY DEF Finish, StoreInv, TypeOK, RunsSound, RunSound, At, IdleRun,
     Recorded, dbVars
<1> QED
  BY <1>2, <1>3, StoreFrame DEF StoreInv, TypeOK, Finish

LEMMA StartRunStep ==
  ASSUME StoreInv, NEW r \in Runs, StartRun(r),
         UNCHANGED <<dbVars, up, cloud, faults>>,
         subscribed' \in BOOLEAN, net' \in BOOLEAN
  PROVE  StoreInv'
<1>1. [IdleRun EXCEPT !.pc = "check"] \in RunState
  BY DEF IdleRun, RunState, Pc
<1>2. run' \in [Runs -> RunState]
  BY <1>1 DEF StartRun, StoreInv, TypeOK
<1>3. RunsSound'
  BY DEF StartRun, StoreInv, TypeOK, RunsSound, RunSound, At, IdleRun,
     Recorded, dbVars
<1> QED
  BY <1>2, <1>3, StoreFrame DEF StoreInv, TypeOK, StartRun

LEMMA SyncServiceStep ==
  ASSUME StoreInv, NEW r \in Runs, SyncStep(r)
  PROVE  StoreInv'
<1> DEFINE a == run[r]
<1>0. /\ TypeOK /\ RunsSound /\ StoreSound
      /\ a \in RunState /\ RunSound(r)
  BY DEF StoreInv, TypeOK, RunsSound
<1>1. CASE CheckNetwork(r)
  <2> USE <1>0, <1>1 DEF CheckNetwork, TypeOK, dbVars
  <2>1. run' \in [Runs -> RunState]
    BY DEF RunState, Pc, Id, Recorded
  <2>2. ASSUME NEW s \in Runs
        PROVE  RunSound(s)'
    BY DEF RunsSound, RunSound, At, Recorded
  <2> QED
    BY <2>1, <2>2, StoreFrame DEF RunsSound, StoreInv
<1>2. CASE CheckFails(r)
  BY <1>0, <1>2, FinishStep, FaultCounted DEF CheckFails
<1>3. CASE Offline(r)
  BY <1>0, <1>3, FinishStep, FaultCounted DEF Offline
<1>4. CASE ReadQueue(r)
  <2> USE <1>0, <1>4 DEF ReadQueue, TypeOK, dbVars
  <2>0. Retryable \subseteq Recorded /\ Recorded \subseteq Id
    BY MaxLogsAssumption DEF Retryable, Recorded, Id
  <2>1. run' \in [Runs -> RunState]
    <3>1. [a EXCEPT !.pc = "next", !.todo = Retryable] \in RunState
      BY <2>0 DEF RunState, Pc
    <3> QED
      BY <3>1
  <2>2. ASSUME NEW s \in Runs
        PROVE  RunSound(s)'
    BY <2>0 DEF RunsSound, RunSound, At, Recorded
  <2> QED
    BY <2>1, <2>2, StoreFrame DEF RunsSound, StoreInv
<1>5. CASE StartUpload(r)
  <2> USE <1>0, <1>5 DEF StartUpload, TypeOK, dbVars
  <2> DEFINE batch == FirstBatch(a.todo)
             rest  == Rest(a.todo)
  <2>0. batch \subseteq a.todo /\ rest \subseteq a.todo
    BY BatchOfList
  <2>1. run' \in [Runs -> RunState]
    <3>1. a.todo \in SUBSET Id
      BY DEF RunState
    <3>2. [a EXCEPT !.pc = "upload", !.batch = batch,
                    !.sent = batch \cap DOMAIN logs, !.todo = rest] \in RunState
      BY <2>0, <3>1 DEF RunState, Pc
    <3>3. run' = [run EXCEPT ![r] =
                    [a EXCEPT !.pc = "upload", !.batch = batch,
                              !.sent = batch \cap DOMAIN logs, !.todo = rest]]
      OBVIOUS
    <3> QED
      BY <3>2, <3>3, RunFrame
  <2>2. ASSUME NEW s \in Runs
        PROVE  RunSound(s)'
    BY <2>0 DEF RunsSound, RunSound, At, Recorded
  <2> QED
    BY <2>1, <2>2, StoreFrame DEF RunsSound, StoreInv
<1>6. CASE Complete(r)
  BY <1>0, <1>6, FinishStep, FaultCounted DEF Complete
<1>7. CASE CloudAccepts(r)
  BY <1>0, <1>7
  DEF CloudAccepts, StoreInv, TypeOK, RunsSound, RunSound, StoreSound,
      HalfDone, WipedIsGone, SyncedReachedCloud, NothingLost, Logged, At, Recorded, dbVars
<1>8. CASE UploadSucceeds(r)
  <2> USE <1>0, <1>8 DEF UploadSucceeds, MarkSynced, TypeOK
  <2>1. run' \in [Runs -> RunState]
    BY DEF RunState, Pc
  <2>2. /\ DOMAIN logs' = DOMAIN logs
        /\ logs' \in [DOMAIN logs' -> {"PENDING", "SYNCED"}]
    OBVIOUS
  <2>3. TypeOK'
    BY <2>1, <2>2 DEF Recorded
  <2>4. a.batch \subseteq cloud \cup wiped
    BY DEF RunSound, StoreSound, NothingLost, At
  <2>5. ASSUME NEW s \in Runs
        PROVE  RunSound(s)'
    BY <2>2, <2>4 DEF RunsSound, RunSound, At, Recorded
  <2>6. SyncedReachedCloud'
    BY DEF SyncedReachedCloud, StoreSound, Logged, RunSound, At
  <2>7. HalfDone' /\ WipedIsGone' /\ NothingLost'
    BY <2>2 DEF HalfDone, WipedIsGone, NothingLost, StoreSound, Recorded
  <2> QED
    BY <2>3, <2>5, <2>6, <2>7 DEF StoreInv, StoreSound, RunsSound
<1>9. CASE DequeueSynced(r)
  <2> USE <1>0, <1>9 DEF DequeueSynced, RemoveFromQueue, Restrict, TypeOK
  <2>1. run' \in [Runs -> RunState]
    BY DEF RunState, Pc
  <2>2. TypeOK'
    BY <2>1 DEF Recorded
  <2>3. ASSUME NEW s \in Runs
        PROVE  RunSound(s)'
    BY DEF RunsSound, RunSound, At, Recorded
  <2>4. StoreSound'
    BY DEF StoreSound, HalfDone, WipedIsGone, SyncedReachedCloud, NothingLost, Logged, Recorded
  <2> QED
    BY <2>2, <2>3, <2>4 DEF StoreInv, RunsSound
<1>10. CASE UploadFails(r)
  <2> USE <1>0, <1>10 DEF UploadFails, TypeOK, dbVars
  <2>1. run' \in [Runs -> RunState]
    BY DEF RunState, Pc, Id, Recorded
  <2>2. ASSUME NEW s \in Runs
        PROVE  RunSound(s)'
    BY DEF RunsSound, RunSound, At, Recorded
  <2> QED
    BY <2>1, <2>2, StoreFrame DEF RunsSound, StoreInv
<1>11. CASE CountFailure(r)
  <2> USE <1>0, <1>11 DEF CountFailure, IncrementRetryCount, TypeOK
  <2>1. run' \in [Runs -> RunState]
    BY DEF RunState, Pc
  <2>2. TypeOK'
    BY <2>1 DEF Recorded
  <2>3. ASSUME NEW s \in Runs
        PROVE  RunSound(s)'
    BY DEF RunsSound, RunSound, At, Recorded
  <2>4. StoreSound'
    BY DEF StoreSound, HalfDone, WipedIsGone, SyncedReachedCloud, NothingLost, Logged, Recorded
  <2> QED
    BY <2>2, <2>3, <2>4 DEF StoreInv, RunsSound
<1>12. CASE DequeueThrows(r)
  <2> USE <1>0, <1>12 DEF DequeueThrows, TypeOK, dbVars
  <2>1. run' \in [Runs -> RunState]
    BY DEF RunState, Pc, Id, Recorded
  <2>2. ASSUME NEW s \in Runs
        PROVE  RunSound(s)'
    BY DEF RunsSound, RunSound, At, Recorded
  <2>3. faults' \in 0 .. MaxFaults
    BY FaultCounted
  <2> QED
    BY <2>1, <2>2, <2>3, StoreFrame DEF RunsSound, StoreInv
<1>13. CASE CountThrows(r)
  BY <1>0, <1>13, FinishStep, FaultCounted DEF CountThrows
<1> QED
  BY <1>1, <1>2, <1>3, <1>4, <1>5, <1>6, <1>7, <1>8, <1>9, <1>10, <1>11, <1>12, <1>13
  DEF SyncStep

LEMMA ForceCallStep ==
  ASSUME StoreInv, NEW r \in Runs, ForceSync(r)
  PROVE  StoreInv'
<1> DEFINE a    == run[r]
           dead == DOMAIN queue \ Retryable
<1>0. TypeOK /\ RunsSound /\ a \in RunState
  BY DEF StoreInv, TypeOK
<1> USE <1>0 DEF ForceSync, TypeOK, dbVars
<1>1. dead \subseteq Recorded /\ Recorded \subseteq Id
  BY MaxLogsAssumption DEF Recorded, Id
<1>2. run' \in [Runs -> RunState]
  <2>1. [a EXCEPT !.pc = "force", !.batch = dead] \in RunState
    BY <1>1 DEF RunState, Pc
  <2> QED
    BY <2>1
<1>3. ASSUME NEW s \in Runs
      PROVE  RunSound(s)'
  BY <1>1 DEF RunsSound, RunSound, At, Recorded
<1> QED
  BY <1>2, <1>3, StoreFrame DEF RunsSound, StoreInv

\* An activation that ends, while nothing else changes but the fault count.
LEMMA IdleStep ==
  ASSUME StoreInv, NEW r \in Runs, run' = [run EXCEPT ![r] = IdleRun],
         faults' \in 0 .. MaxFaults,
         UNCHANGED <<dbVars, up, subscribed, isSyncing, net, cloud>>
  PROVE  StoreInv'
<1>1. IdleRun \in RunState
  BY DEF IdleRun, RunState, Pc
<1>2. run' \in [Runs -> RunState]
  BY <1>1 DEF StoreInv, TypeOK
<1>3. RunsSound'
  BY DEF StoreInv, TypeOK, RunsSound, RunSound, At, IdleRun, Recorded, dbVars
<1> QED
  BY <1>2, <1>3, StoreFrame DEF StoreInv, TypeOK

LEMMA ForceSyncStep ==
  ASSUME StoreInv, NEW r \in Runs, ForceStep(r)
  PROVE  StoreInv'
<1> DEFINE a == run[r]
<1>0. /\ TypeOK /\ RunsSound /\ StoreSound
      /\ a \in RunState /\ RunSound(r)
  BY DEF StoreInv, TypeOK, RunsSound
<1>1. CASE ForceThrows(r)
  BY <1>0, <1>1, IdleStep, FaultCounted DEF ForceThrows
<1>2. CASE ForceOne(r)
  <2> USE <1>0, <1>2 DEF ForceOne, IncrementRetryCount, TypeOK
  <2>1. run' \in [Runs -> RunState]
    BY DEF RunState, Pc
  <2>2. TypeOK'
    BY <2>1 DEF Recorded
  <2>3. ASSUME NEW s \in Runs
        PROVE  RunSound(s)'
    BY DEF RunsSound, RunSound, At, Recorded
  <2>4. StoreSound'
    BY DEF StoreSound, HalfDone, WipedIsGone, SyncedReachedCloud, NothingLost, Logged,
       Recorded
  <2> QED
    BY <2>2, <2>3, <2>4 DEF StoreInv, RunsSound
<1>3. CASE ForcedSync(r)
  <2>1. CASE StartRun(r)
    BY <1>0, <1>3, <2>1, StartRunStep DEF ForcedSync, dbVars, TypeOK
  <2>2. CASE isSyncing /\ run' = [run EXCEPT ![r] = IdleRun] /\ UNCHANGED isSyncing
    BY <1>0, <1>3, <2>2, IdleStep, FaultCounted DEF ForcedSync
  <2> QED
    BY <1>3, <2>1, <2>2 DEF ForcedSync
<1> QED
  BY <1>1, <1>2, <1>3 DEF ForceStep

\* The listener's call of sync(), or no call, while nothing else happens to
\* the store.
LEMMA AutoSyncStep ==
  ASSUME StoreInv, AutoSync \/ UNCHANGED <<isSyncing, run>>,
         UNCHANGED <<dbVars, up, cloud, faults>>,
         subscribed' \in BOOLEAN, net' \in BOOLEAN
  PROVE  StoreInv'
<1>1. CASE UNCHANGED <<isSyncing, run>>
  <2>1. RunsSound'
    BY <1>1 DEF StoreInv, RunsSound, RunSound, At, Recorded, dbVars
  <2> QED
    BY <1>1, <2>1, StoreFrame DEF StoreInv, TypeOK
<1>2. CASE \E r \in Idle : StartRun(r)
  BY <1>2, StartRunStep DEF Idle
<1> QED
  BY <1>1, <1>2 DEF AutoSync

LEMMA AppLifeStep ==
  ASSUME StoreInv, AppStep
  PROVE  StoreInv'
<1> USE DEF StoreInv
<1>1. CASE Launch
  BY <1>1 DEF Launch, TypeOK, RunsSound, RunSound, StoreSound, HalfDone, WipedIsGone,
     SyncedReachedCloud, NothingLost, Logged, At, Recorded, dbVars
<1>2. CASE StartAutoSync
  BY <1>2, AutoSyncStep DEF StartAutoSync, TypeOK
<1>3. CASE StopAutoSync
  BY <1>3, AutoSyncStep DEF StopAutoSync, TypeOK, dbVars
<1>4. CASE NetworkEvent
  BY <1>4, AutoSyncStep DEF NetworkEvent, TypeOK, dbVars
<1>5. CASE Crash
  <2> USE <1>5 DEF Crash
  <2>1. run' \in [Runs -> RunState]
    <3>1. IdleRun \in RunState
      BY DEF IdleRun, RunState, Pc
    <3> QED
      BY <3>1
  <2>2. faults' \in 0 .. MaxFaults
    BY FaultCounted
  <2>3. TypeOK'
    BY <2>1, <2>2 DEF TypeOK, Recorded
  <2>4. RunsSound'
    BY DEF RunsSound, RunSound, At, IdleRun
  <2>5. StoreSound'
    BY DEF StoreSound, HalfDone, WipedIsGone, SyncedReachedCloud, NothingLost, Logged,
       Recorded
  <2> QED
    BY <2>3, <2>4, <2>5
<1> QED
  BY <1>1, <1>2, <1>3, <1>4, <1>5 DEF AppStep

LEMMA ThrowStep ==
  ASSUME StoreInv, SecondWriteThrows
  PROVE  StoreInv'
<1>1. faults' \in 0 .. MaxFaults
  BY FaultCounted DEF SecondWriteThrows, StoreInv
<1> QED
  BY <1>1 DEF SecondWriteThrows, StoreInv, TypeOK, RunsSound, RunSound, StoreSound,
     HalfDone, WipedIsGone, SyncedReachedCloud, NothingLost, Logged, At, Recorded

LEMMA StepStore == StoreInv /\ [Next]_vars => StoreInv'
<1> SUFFICES ASSUME StoreInv, [Next]_vars
             PROVE  StoreInv'
  OBVIOUS
<1>1. CASE DatabaseCall
  BY <1>1, DatabaseStep
<1>2. ASSUME NEW r \in Runs, SyncStep(r) \/ ForceStep(r) \/ ForceSync(r)
      PROVE  StoreInv'
  BY <1>2, SyncServiceStep, ForceSyncStep, ForceCallStep
<1>3. CASE AppStep \/ SecondWriteThrows
  BY <1>3, AppLifeStep, ThrowStep
<1>4. CASE UNCHANGED vars
  BY <1>4 DEF vars, syncVars, dbVars, StoreInv, TypeOK, RunsSound, RunSound,
     StoreSound, HalfDone, WipedIsGone, SyncedReachedCloud, NothingLost, Logged, At,
     Recorded
<1> QED
  BY <1>1, <1>2, <1>3, <1>4 DEF Next, Proceed

LEMMA StoreInvariant == Spec => []StoreInv
  BY InitStore, StepStore, PTL DEF Spec

-------------------------------------------------------------------------------

\* Every variable keeps its type in every behaviour of the engine.
THEOREM TypeCorrect == Spec => []TypeOK
<1>1. StoreInv => TypeOK
  BY DEF StoreInv
<1> QED
  BY <1>1, StoreInvariant, PTL

\* A log that the device shows as SYNCED is in the cloud.
THEOREM SyncedLogsDelivered == Spec => []SyncedReachedCloud
<1>1. StoreInv => SyncedReachedCloud
  BY DEF StoreInv, StoreSound
<1> QED
  BY <1>1, StoreInvariant, PTL

\* No record is lost, whatever fails, purges or dies.
THEOREM NoRecordLost == Spec => []NothingLost
<1>1. StoreInv => NothingLost
  BY DEF StoreInv, StoreSound
<1> QED
  BY <1>1, StoreInvariant, PTL

\* Nothing leaves the sync queue unless the cloud has it or it was wiped.
THEOREM DequeueIsSafe == Spec => DequeuedOnlyWhenDelivered
<1> DEFINE Safe == (DOMAIN queue \ DOMAIN queue') \subseteq cloud \cup wiped
<1>1. StoreInv /\ [Next]_vars => [Safe]_vars
  <2> SUFFICES ASSUME StoreInv, Next
               PROVE  Safe
    OBVIOUS
  <2>1. CASE DatabaseCall
    <3>1. CASE EnqueueLog
      BY <3>1 DEF EnqueueLog, QueueItem, Put
    <3>2. CASE ClearQueue
      BY <3>2 DEF ClearQueue, Empty, StoreInv, TypeOK, StoreSound, HalfDone,
         NothingLost, Recorded
    <3> QED
      BY <2>1, <3>1, <3>2 DEF DatabaseCall, LogAttendance,
         PurgeOldSyncedLogs, ClearAllData
  <2>2. ASSUME NEW r \in Runs, SyncStep(r)
        PROVE  Safe
    <3>1. CASE DequeueSynced(r)
      BY <3>1 DEF DequeueSynced, RemoveFromQueue, Restrict, StoreInv,
         RunsSound, RunSound
    <3>2. CASE CountFailure(r)
      BY <3>2 DEF CountFailure, IncrementRetryCount
    <3> QED
      BY <2>2, <3>1, <3>2 DEF SyncStep, CheckNetwork, CheckFails, Offline,
         ReadQueue, StartUpload, Complete, CloudAccepts, UploadSucceeds,
         UploadFails, DequeueThrows, CountThrows, dbVars
  <2>3. ASSUME NEW r \in Runs, ForceStep(r) \/ ForceSync(r)
        PROVE  Safe
    BY <2>3 DEF ForceStep, ForceSync, ForceOne, ForcedSync, ForceThrows,
       IncrementRetryCount, dbVars
  <2>4. CASE AppStep \/ SecondWriteThrows
    BY <2>4 DEF AppStep, Launch, StartAutoSync, StopAutoSync, NetworkEvent, Crash,
       SecondWriteThrows, dbVars
  <2> QED
    BY <2>1, <2>2, <2>3, <2>4 DEF Next, Proceed
<1> QED
  BY <1>1, StoreInvariant, PTL DEF Spec, DequeuedOnlyWhenDelivered

-------------------------------------------------------------------------------
(* Mutual exclusion of the runs of sync().                                 *)

LEMMA GuardStep ==
  ASSUME TypeOK, SingleSyncRun, [Next]_vars
  PROVE  SingleSyncRun'
<1> USE DEF SingleSyncRun, Syncing, At, TypeOK
<1>1. CASE DatabaseCall \/ SecondWriteThrows \/ UNCHANGED vars
  BY <1>1 DEF DatabaseCall, SecondWriteThrows, syncVars, vars
<1>2. ASSUME NEW r \in Runs, SyncStep(r)
      PROVE  SingleSyncRun'
  <2>1. CASE CheckFails(r) \/ Offline(r) \/ Complete(r) \/ CountThrows(r)
    <3>1. run' = [run EXCEPT ![r] = IdleRun] /\ isSyncing' = FALSE
      BY <2>1 DEF CheckFails, Offline, Complete, CountThrows, Finish
    <3>2. Syncing \subseteq {r}
      BY <2>1 DEF CheckFails, Offline, Complete, CountThrows
    <3>3. Syncing' = {}
      BY <3>1, <3>2 DEF IdleRun
    <3> QED
      BY <3>1, <3>3
  <2>2. CASE ~ (CheckFails(r) \/ Offline(r) \/ Complete(r) \/ CountThrows(r))
    <3>1. isSyncing' = isSyncing
      BY <1>2, <2>2 DEF SyncStep, CheckNetwork, ReadQueue, StartUpload,
         CloudAccepts, UploadSucceeds, DequeueSynced, DequeueThrows,
         UploadFails, CountFailure
    <3>2. \A s \in Runs \ {r} : run'[s].pc = run[s].pc
      BY <1>2, <2>2 DEF SyncStep, CheckNetwork, ReadQueue, StartUpload,
         CloudAccepts, UploadSucceeds, DequeueSynced, DequeueThrows,
         UploadFails, CountFailure
    <3>3. r \in Syncing /\ r \in Syncing'
      BY <1>2, <2>2 DEF SyncStep, CheckNetwork, ReadQueue, StartUpload,
         CloudAccepts, UploadSucceeds, DequeueSynced, DequeueThrows,
         UploadFails, CountFailure, RunState
    <3> QED
      BY <3>1, <3>2, <3>3
  <2> QED
    BY <2>1, <2>2
<1>3. ASSUME NEW r \in Runs, StartRun(r)
      PROVE  SingleSyncRun'
  <2>1. Syncing = {}
    BY <1>3 DEF StartRun
  <2>2. run' = [run EXCEPT ![r] = [IdleRun EXCEPT !.pc = "check"]]
    BY <1>3 DEF StartRun
  <2>3. Syncing' = {r}
    BY <2>1, <2>2 DEF IdleRun
  <2> QED
    BY <1>3, <2>3 DEF StartRun
<1>4. ASSUME NEW r \in Runs, ForceStep(r) \/ ForceSync(r)
      PROVE  SingleSyncRun'
  <2>1. CASE ForceSync(r) \/ ForceOne(r)
    BY <2>1 DEF ForceSync, ForceOne, Idle, RunState
  <2>3. CASE ForceThrows(r)
    BY <2>3 DEF ForceThrows, IdleRun
  <2>2. CASE ForcedSync(r)
    BY <2>2, <1>3 DEF ForcedSync, IdleRun
  <2> QED
    BY <1>4, <2>1, <2>2, <2>3 DEF ForceStep
<1>5. CASE Launch \/ StartAutoSync \/ StopAutoSync \/ NetworkEvent
  BY <1>3, <1>5 DEF Launch, StartAutoSync, StopAutoSync, NetworkEvent,
     AutoSync, Idle
<1>6. CASE Crash
  BY <1>6 DEF Crash, IdleRun
<1> QED
  BY <1>1, <1>2, <1>4, <1>5, <1>6 DEF Next, Proceed, AppStep

\* The flag isSyncing excludes a second run at every await, and is set
\* exactly while a run exists.
THEOREM OneRunAtATime == Spec => []SingleSyncRun
<1>1. Init => SingleSyncRun
  <2> SUFFICES ASSUME Init
               PROVE  SingleSyncRun
    OBVIOUS
  <2>1. Syncing = {}
    BY DEF Init, Syncing, IdleRun
  <2> QED
    BY <2>1 DEF Init, SingleSyncRun
<1>2. TypeOK /\ SingleSyncRun /\ [Next]_vars => SingleSyncRun'
  BY GuardStep
<1> QED
  BY <1>1, <1>2, TypeCorrect, PTL DEF Spec
===============================================================================
