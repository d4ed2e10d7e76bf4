---------------------------- MODULE SyncRunProofs ----------------------------
(***************************************************************************)
(* What the runs of sync() do to the queue, for any number of records,     *)
(* activations, faults and retries, and any batch size: each record of a   *)
(* snapshot is attempted once, none at the retry limit is uploaded, and    *)
(* the queue mirrors the PENDING logs.                                     *)
(***************************************************************************)
EXTENDS SyncServiceProofs, OrderLemmas

-------------------------------------------------------------------------------
(* Sets of records.                                                        *)

\* Lists are finite.
LEMMA ListsAreFinite ==
  ASSUME NEW list \in SUBSET Id
  PROVE  IsFiniteSet(list) /\ Cardinality(list) \in Nat
<1>1. IsFiniteSet(Id)
  BY FS_Interval, MaxLogsAssumption DEF Id
<1> QED
  BY <1>1, FS_Subset, FS_CardinalityType

\* The loop over the batches gets on: no batch is empty.
LEMMA BatchNotEmpty ==
  ASSUME NEW list \in SUBSET Id, list # {}
  PROVE  FirstBatch(list) # {}
<1>1. list \in SUBSET Nat
  BY MaxLogsAssumption DEF Id
<1>2. Min(list) \in list /\ {x \in list : x < Min(list)} = {}
  <2>1. Min(list) \in list /\ \A x \in list : Min(list) <= x
    BY <1>1, MinExists
  <2>2. \A x \in list : ~ (x < Min(list))
    <3> TAKE x \in list
    <3>1. Min(list) \in Nat /\ x \in Nat /\ Min(list) <= x
      BY <1>1, <2>1
    <3> QED
      BY <3>1
  <2> QED
    BY <2>1, <2>2
<1>3. Cardinality({x \in list : x < Min(list)}) < BATCH_SIZE
  BY <1>2, FS_EmptySet, BatchAssumption
<1> QED
  BY <1>2, <1>3 DEF FirstBatch

\* The loop over a failed batch: it takes a record off, and ends with the
\* last one.
LEMMA TakeFirst ==
  ASSUME NEW list \in SUBSET Id, list # {}
  PROVE  /\ Min(list) \in list
         /\ Cardinality(list) = 1 <=> list \ {Min(list)} = {}
<1>1. list \in SUBSET Nat
  BY MaxLogsAssumption DEF Id
<1>2. Min(list) \in list
  BY <1>1, MinExists
<1>3. Cardinality(list) = 1 <=> \E x : list = {x}
  BY ListsAreFinite, FS_Singleton
<1> QED
  BY <1>2, <1>3

-------------------------------------------------------------------------------
(* Each record is attempted once.                                          *)

Starting == {"idle", "force", "check", "online", "offline"}

\* The loops over batches and over failed records leave nothing behind that
\* a later turn, or a later run in the same activation, would find.
Attempt(r) ==
  /\ run[r].todo \cap (run[r].batch \cup run[r].synced \cup run[r].failed) = {}
  /\ run[r].synced \cap (run[r].batch \cup run[r].failed) = {}
  /\ ~At(r, "fail") => run[r].batch \cap run[r].failed = {}
  /\ run[r].pc \in Starting =>
       run[r].todo = {} /\ run[r].synced = {} /\ run[r].failed = {}
  /\ run[r].pc \in (Starting \ {"force"}) \cup {"next"} => run[r].batch = {}
  /\ run[r].pc \in {"upload", "mark", "fail"} => run[r].batch # {}

Attempts == \A r \in Runs : Attempt(r)

\* An activation that starts over, or one that ends, has nothing to do.
LEMMA ResetAttempt ==
  ASSUME TypeOK, Attempts, NEW r \in Runs, NEW pc \in Starting,
         run' = [run EXCEPT ![r] = [IdleRun EXCEPT !.pc = pc]]
  PROVE  Attempts'
  BY DEF TypeOK, Attempts, Attempt, At, IdleRun, Starting

LEMMA FinishAttempt ==
  ASSUME TypeOK, Attempts, NEW r \in Runs, run' = [run EXCEPT ![r] = IdleRun]
  PROVE  Attempts'
  BY DEF TypeOK, Attempts, Attempt, At, IdleRun, Starting

LEMMA AutoSyncAttempt ==
  ASSUME TypeOK, Attempts, AutoSync \/ UNCHANGED <<isSyncing, run>>
  PROVE  Attempts'
<1>1. CASE UNCHANGED run
  BY <1>1 DEF Attempts, Attempt, At
<1>2. CASE \E r \in Idle : StartRun(r)
  BY <1>2, ResetAttempt DEF Idle, StartRun, Starting
<1> QED
  BY <1>1, <1>2 DEF AutoSync

LEMMA SyncAttempt ==
  ASSUME TypeOK, Attempts, NEW r \in Runs, SyncStep(r)
  PROVE  Attempts'
<1> DEFINE a == run[r]
<1>0. /\ a \in RunState /\ run \in [Runs -> RunState] /\ Attempt(r)
      /\ a.todo \in SUBSET Id /\ a.batch \in SUBSET Id
  BY DEF TypeOK, Attempts, RunState
<1> USE DEF Attempts, Attempt, At, Starting
<1>1. CASE CheckNetwork(r)
  BY <1>0, <1>1 DEF CheckNetwork
<1>2. CASE CheckFails(r) \/ Offline(r) \/ Complete(r) \/ CountThrows(r)
  BY <1>2, FinishAttempt DEF CheckFails, Offline, Complete, CountThrows, Finish
<1>3. CASE ReadQueue(r)
  BY <1>0, <1>3 DEF ReadQueue
<1>4. CASE StartUpload(r)
  <2> DEFINE batch == FirstBatch(a.todo)
             rest  == Rest(a.todo)
  <2>1. batch # {}
    BY <1>0, <1>4, BatchNotEmpty DEF StartUpload
  <2>2. batch \subseteq a.todo /\ rest \subseteq a.todo /\ batch \cap rest = {}
    BY BatchOfList DEF Rest
  <2>3. /\ run'[r].pc = "upload" /\ run'[r].batch = batch /\ run'[r].todo = rest
        /\ run'[r].synced = a.synced /\ run'[r].failed = a.failed
        /\ \A s \in Runs \ {r} : run'[s] = run[s]
    BY <1>0, <1>4 DEF StartUpload, RunState
  <2> HIDE DEF batch, rest
  <2> QED
    BY <1>0, <2>1, <2>2, <2>3
<1>5. CASE CloudAccepts(r)
  BY <1>5 DEF CloudAccepts
<1>6. CASE UploadSucceeds(r)
  BY <1>0, <1>6 DEF UploadSucceeds
<1>7. CASE DequeueSynced(r)
  BY <1>0, <1>7 DEF DequeueSynced
<1>8. CASE UploadFails(r) \/ DequeueThrows(r)
  <2>1. /\ a.pc \in {"upload", "mark"}
        /\ run'[r].pc = "fail" /\ run'[r].batch = a.batch /\ run'[r].todo = a.todo
        /\ run'[r].synced = a.synced /\ run'[r].failed = a.failed \cup a.batch
        /\ \A s \in Runs \ {r} : run'[s] = run[s]
    BY <1>0, <1>8 DEF UploadFails, DequeueThrows, RunState
  <2> QED
    BY <1>0, <2>1
<1>9. CASE CountFailure(r)
  <2>1. Cardinality(a.batch) = 1 <=> a.batch \ {Min(a.batch)} = {}
    BY <1>0, <1>9, TakeFirst DEF CountFailure
  <2>2. /\ run'[r].pc = IF Cardinality(a.batch) = 1 THEN "next" ELSE "fail"
        /\ run'[r].batch = a.batch \ {Min(a.batch)} /\ run'[r].todo = a.todo
        /\ run'[r].synced = a.synced /\ run'[r].failed = a.failed
        /\ \A s \in Runs \ {r} : run'[s] = run[s]
    BY <1>0, <1>9 DEF CountFailure, RunState
  <2> QED
    BY <1>0, <1>9, <2>1, <2>2 DEF CountFailure
<1> QED
  BY <1>1, <1>2, <1>3, <1>4, <1>5, <1>6, <1>7, <1>8, <1>9 DEF SyncStep

LEMMA AttemptStep == TypeOK /\ Attempts /\ [Next]_vars => Attempts'
<1> SUFFICES ASSUME TypeOK, Attempts, [Next]_vars
             PROVE  Attempts'
  OBVIOUS
<1>1. CASE DatabaseCall \/ SecondWriteThrows \/ Launch \/ StopAutoSync \/ UNCHANGED vars
  BY <1>1 DEF DatabaseCall, SecondWriteThrows, Launch, StopAutoSync, vars, syncVars,
     Attempts, Attempt, At
<1>2. ASSUME NEW r \in Runs, SyncStep(r)
      PROVE  Attempts'
  BY <1>2, SyncAttempt
<1>3. ASSUME NEW r \in Runs, ForceStep(r) \/ ForceSync(r)
      PROVE  Attempts'
  <2>1. CASE ForceSync(r) \/ ForceOne(r)
    BY <2>1 DEF ForceSync, ForceOne, Idle, TypeOK, RunState, Attempts, Attempt, At, Starting
  <2>2. CASE ForceThrows(r)
    BY <2>2, FinishAttempt DEF ForceThrows
  <2>3. CASE ForcedSync(r)
    BY <2>3, FinishAttempt, ResetAttempt DEF ForcedSync, StartRun, Starting
  <2> QED
    BY <1>3, <2>1, <2>2, <2>3 DEF ForceStep
<1>4. CASE StartAutoSync \/ NetworkEvent
  BY <1>4, AutoSyncAttempt DEF StartAutoSync, NetworkEvent
<1>5. CASE Crash
  BY <1>5 DEF Crash, IdleRun, Attempts, Attempt, At, Starting
<1> QED
  BY <1>1, <1>2, <1>3, <1>4, <1>5 DEF Next, Proceed, AppStep

LEMMA InitAttempts == Init => Attempts
  BY DEF Init, IdleRun, Attempts, Attempt, At, Starting

\* Each record of a snapshot is attempted once (SyncService.ts:94-121).
THEOREM EachAttemptedOnce == Spec => []AttemptedOnce
<1>1. Attempts => AttemptedOnce
  BY DEF Attempts, Attempt, AttemptedOnce, Syncing
<1> QED
  BY <1>1, InitAttempts, AttemptStep, TypeCorrect, PTL DEF Spec

-------------------------------------------------------------------------------
(* The retry limit.                                                        *)

\* The record that is in the logs and not yet in the queue.
Coming == IF job = "logAttendance" THEN {created} ELSE {}

Below(ids) == \A id \in ids \cap DOMAIN queue : queue[id] < MAX_RETRIES

\* What a run has read stays below the limit until it was tried, what
\* forceSync has read stays at it, and neither has heard of a record that is
\* just being made, whose count starts at 0.
Limit(r) ==
  /\ (run[r].todo \cup run[r].batch) \cap Coming = {}
  /\ Below(run[r].todo)
  /\ At(r, "upload") => Below(run[r].batch)
  /\ At(r, "force") => \A id \in run[r].batch \cap DOMAIN queue : queue[id] >= MAX_RETRIES

LimitInv == TypeOK /\ RunsSound /\ HalfDone /\ SingleSyncRun /\ Attempts
Limits == \A r \in Runs : Limit(r)

LEMMA LimitFrame ==
  ASSUME Limits, DOMAIN queue' \subseteq DOMAIN queue, Coming' \subseteq Coming,
         \A id \in DOMAIN queue' : queue'[id] = queue[id],
         \A r \in Runs : run'[r] = run[r]
  PROVE  Limits'
  BY DEF Limits, Limit, Below, At

LEMMA ResetLimit ==
  ASSUME TypeOK, Limits, NEW r \in Runs, NEW pc \in Starting \ {"force"},
         run' = [run EXCEPT ![r] = [IdleRun EXCEPT !.pc = pc]],
         UNCHANGED <<queue, created, job>>
  PROVE  Limits'
  BY DEF TypeOK, Limits, Limit, Below, At, Coming, IdleRun, Starting

LEMMA FinishLimit ==
  ASSUME TypeOK, Limits, NEW r \in Runs, run' = [run EXCEPT ![r] = IdleRun],
         UNCHANGED <<queue, created, job>>
  PROVE  Limits'
  BY DEF TypeOK, Limits, Limit, Below, At, Coming, IdleRun, Starting

LEMMA DatabaseLimit ==
  ASSUME LimitInv, Limits, DatabaseCall
  PROVE  Limits'
<1> USE DEF syncVars
<1>1. CASE JsFree /\ LogAttendance /\ UNCHANGED syncVars
  <2>1. created + 1 \notin Recorded
    BY MaxLogsAssumption DEF LimitInv, TypeOK, Recorded
  <2>2. Coming' = {created + 1} /\ UNCHANGED <<queue, run>>
    BY <1>1 DEF LogAttendance, Coming
  <2>3. \A r \in Runs : run[r].todo \cup run[r].batch \subseteq Recorded
    BY DEF LimitInv, RunsSound, RunSound
  <2> QED
    BY <2>1, <2>2, <2>3 DEF Limits, Limit, Below, At
<1>2. CASE JsFree /\ (PurgeOldSyncedLogs \/ ClearAllData) /\ UNCHANGED syncVars
  BY <1>2, LimitFrame DEF PurgeOldSyncedLogs, ClearAllData, Coming
<1>3. CASE EnqueueLog /\ UNCHANGED syncVars
  <2>1. Coming = {created} /\ Coming' = {}
    BY <1>3 DEF EnqueueLog, Coming
  <2>2. /\ DOMAIN queue' \subseteq DOMAIN queue \cup {created}
        /\ \A id \in DOMAIN queue' \ {created} : queue'[id] = queue[id]
        /\ UNCHANGED run
    BY <1>3 DEF EnqueueLog, QueueItem, Put
  <2> QED
    BY <2>1, <2>2 DEF Limits, Limit, Below, At
<1>4. CASE ClearQueue /\ UNCHANGED syncVars
  BY <1>4 DEF ClearQueue, Empty, Coming, Limits, Limit, Below, At
<1> QED
  BY <1>1, <1>2, <1>3, <1>4 DEF DatabaseCall

\* A count that goes up is that of a record nobody else has in hand.
LEMMA IncrementLimit ==
  ASSUME LimitInv, Limits, NEW r \in Runs, NEW id \in run[r].batch,
         At(r, "fail") \/ At(r, "force"),
         queue' = IncrementRetryCount(id),
         UNCHANGED <<created, job>>,
         \A s \in Runs \ {r} : run'[s] = run[s],
         run'[r].pc \in {run[r].pc, "next"},
         run'[r].todo = run[r].todo, run'[r].batch \subseteq run[r].batch
  PROVE  Limits'
<1>1. /\ DOMAIN queue' = DOMAIN queue
      /\ \A x \in DOMAIN queue : /\ queue[x] \in Nat /\ queue'[x] \in Nat
                                 /\ queue'[x] >= queue[x]
                                 /\ x # id => queue'[x] = queue[x]
  BY DEF IncrementRetryCount, LimitInv, TypeOK
<1>2. Coming' = Coming
  BY DEF Coming
<1> SUFFICES ASSUME NEW s \in Runs
             PROVE  Limit(s)'
  BY DEF Limits
<1>3. /\ run'[s].todo = run[s].todo /\ run'[s].batch \subseteq run[s].batch
      /\ Limit(s) /\ Limit(r) /\ Attempt(r)
  BY DEF Limits, LimitInv, Attempts
<1>4. run[s].todo \cap DOMAIN queue \cap {id} = {}
  <2>1. CASE At(r, "force")
    BY <1>3, <2>1, SyncAssumption DEF Limit, Below, LimitInv, TypeOK
  <2>2. CASE At(r, "fail") /\ s = r
    BY <1>3, <2>2 DEF Attempt
  <2>3. CASE At(r, "fail") /\ s # r
    <3>1. s \notin Syncing
      BY <2>3 DEF LimitInv, SingleSyncRun, Syncing, At
    <3>2. run[s].todo = {}
      BY <3>1 DEF Syncing, LimitInv, Attempts, Attempt, Starting
    <3> QED
      BY <3>2
  <2> QED
    BY <2>1, <2>2, <2>3
<1>5. Below(run[s].todo)'
  BY <1>1, <1>3, <1>4 DEF Limit, Below
<1>6. CASE s = r
  BY <1>1, <1>2, <1>3, <1>5, <1>6, SyncAssumption DEF Limit, At
<1>7. CASE s # r
  <2>1. At(s, "upload") => At(r, "force")
    BY <1>7 DEF LimitInv, SingleSyncRun, Syncing, At
  <2>2. At(s, "upload") => run[s].batch \cap DOMAIN queue \cap {id} = {}
    BY <1>3, <2>1, SyncAssumption DEF Limit, Below, LimitInv, TypeOK
  <2> QED
    BY <1>1, <1>2, <1>3, <1>5, <1>7, <2>2, SyncAssumption DEF Limit, Below, At
<1> QED
  BY <1>6, <1>7

LEMMA SyncLimit ==
  ASSUME LimitInv, Limits, NEW r \in Runs, SyncStep(r)
  PROVE  Limits'
<1> DEFINE a == run[r]
<1>0. /\ TypeOK /\ a \in RunState /\ run \in [Runs -> RunState]
      /\ Attempt(r) /\ Limit(r)
      /\ a.todo \in SUBSET Id /\ a.batch \in SUBSET Id
  BY DEF LimitInv, Limits, TypeOK, Attempts, RunState
<1>1. CASE CheckNetwork(r) \/ UploadSucceeds(r)
  <2>1. /\ run'[r].batch = a.batch /\ run'[r].todo = a.todo
        /\ run'[r].pc \in {"online", "offline", "mark"}
        /\ \A s \in Runs \ {r} : run'[s] = run[s]
        /\ UNCHANGED <<queue, Coming>>
    BY <1>0, <1>1 DEF CheckNetwork, UploadSucceeds, RunState, dbVars, Coming
  <2> QED
    BY <1>0, <2>1 DEF Limits, Limit, Below, At
<1>2. CASE CheckFails(r) \/ Offline(r) \/ Complete(r) \/ CountThrows(r)
  BY <1>0, <1>2, FinishLimit DEF CheckFails, Offline, Complete, CountThrows, Finish, dbVars
<1>3. CASE ReadQueue(r)
  <2>1. Coming = {} /\ Coming' = {}
    BY <1>3 DEF ReadQueue, JsFree, Coming, dbVars
  <2>2. /\ run'[r].todo = Retryable /\ run'[r].batch = {} /\ run'[r].pc = "next"
        /\ \A s \in Runs \ {r} : run'[s] = run[s]
        /\ UNCHANGED queue
    BY <1>0, <1>3 DEF ReadQueue, RunState, Attempt, Starting, At, dbVars
  <2> QED
    BY <2>1, <2>2 DEF Limits, Limit, Below, At, Retryable
<1>4. CASE StartUpload(r)
  <2> DEFINE batch == FirstBatch(a.todo)
             rest  == Rest(a.todo)
  <2>1. batch \subseteq a.todo /\ rest \subseteq a.todo
    BY BatchOfList
  <2>2. /\ run'[r].batch = batch /\ run'[r].todo = rest /\ run'[r].pc = "upload"
        /\ \A s \in Runs \ {r} : run'[s] = run[s]
    BY <1>0, <1>4 DEF StartUpload, RunState
  <2>3. UNCHANGED <<queue, Coming>>
    BY <1>4 DEF StartUpload, dbVars, Coming
  <2> HIDE DEF batch, rest
  <2> QED
    BY <1>0, <2>1, <2>2, <2>3 DEF Limits, Limit, Below, At
<1>5. CASE CloudAccepts(r)
  BY <1>5, LimitFrame DEF CloudAccepts, dbVars, Coming
<1>6. CASE DequeueSynced(r)
  <2>1. /\ run'[r].batch = {} /\ run'[r].todo = a.todo /\ run'[r].pc = "next"
        /\ \A s \in Runs \ {r} : run'[s] = run[s]
    BY <1>0, <1>6 DEF DequeueSynced, RunState
  <2>2. /\ DOMAIN queue' \subseteq DOMAIN queue
        /\ \A id \in DOMAIN queue' : queue'[id] = queue[id]
        /\ Coming' = Coming
    BY <1>6 DEF DequeueSynced, RemoveFromQueue, Restrict, Coming
  <2> QED
    BY <1>0, <2>1, <2>2 DEF Limits, Limit, Below, At
<1>7. CASE UploadFails(r) \/ DequeueThrows(r)
  <2>1. /\ run'[r].batch = a.batch /\ run'[r].todo = a.todo /\ run'[r].pc = "fail"
        /\ \A s \in Runs \ {r} : run'[s] = run[s]
        /\ UNCHANGED <<queue, Coming>>
    BY <1>0, <1>7 DEF UploadFails, DequeueThrows, RunState, dbVars, Coming
  <2> QED
    BY <1>0, <2>1 DEF Limits, Limit, Below, At
<1>8. CASE CountFailure(r)
  <2>1. At(r, "fail") /\ a.batch # {}
    BY <1>0, <1>8 DEF CountFailure, Attempt, At
  <2>2. Min(a.batch) \in a.batch
    BY <1>0, <2>1, TakeFirst
  <2>3. /\ run'[r].batch \subseteq a.batch /\ run'[r].todo = a.todo
        /\ run'[r].pc \in {a.pc, "next"}
        /\ \A s \in Runs \ {r} : run'[s] = run[s]
        /\ UNCHANGED <<created, job>> /\ queue' = IncrementRetryCount(Min(a.batch))
    BY <1>0, <1>8 DEF CountFailure, RunState, At
  <2> QED
    BY <2>1, <2>2, <2>3, IncrementLimit
<1> QED
  BY <1>1, <1>2, <1>3, <1>4, <1>5, <1>6, <1>7, <1>8 DEF SyncStep

LEMMA ForceLimit ==
  ASSUME LimitInv, Limits, NEW r \in Runs, ForceStep(r) \/ ForceSync(r)
  PROVE  Limits'
<1> DEFINE a == run[r]
<1>0. /\ TypeOK /\ a \in RunState /\ Limit(r) /\ Attempt(r) /\ a.batch \in SUBSET Id
  BY DEF LimitInv, Limits, TypeOK, Attempts, RunState
<1>1. CASE ForceSync(r)
  <2>1. Coming = {} /\ Coming' = {}
    BY <1>1 DEF ForceSync, JsFree, Coming, dbVars
  <2>2. /\ run'[r].todo = {} /\ run'[r].batch = DOMAIN queue \ Retryable
        /\ run'[r].pc = "force" /\ UNCHANGED queue
        /\ \A s \in Runs \ {r} : run'[s] = run[s]
    BY <1>0, <1>1 DEF ForceSync, Idle, TypeOK, RunState, Attempt, Starting, At, dbVars
  <2>3. \A id \in DOMAIN queue \ Retryable : queue[id] >= MAX_RETRIES
    BY <1>0, SyncAssumption DEF Retryable, TypeOK
  <2> QED
    BY <2>1, <2>2, <2>3 DEF Limits, Limit, Below, At
<1>2. CASE ForceOne(r)
  <2>1. Min(a.batch) \in a.batch
    BY <1>0, <1>2, TakeFirst DEF ForceOne
  <2>2. /\ run'[r].batch \subseteq a.batch /\ run'[r].todo = a.todo
        /\ run'[r].pc \in {a.pc, "next"}
        /\ \A s \in Runs \ {r} : run'[s] = run[s]
        /\ UNCHANGED <<created, job>> /\ queue' = IncrementRetryCount(Min(a.batch))
    BY <1>0, <1>2 DEF ForceOne, TypeOK, RunState
  <2> QED
    BY <1>2, <2>1, <2>2, IncrementLimit DEF ForceOne
<1>3. CASE ForceThrows(r)
  BY <1>0, <1>3, FinishLimit DEF ForceThrows, dbVars
<1>4. CASE ForcedSync(r)
  BY <1>0, <1>4, FinishLimit, ResetLimit DEF ForcedSync, StartRun, Starting, dbVars
<1> QED
  BY <1>1, <1>2, <1>3, <1>4 DEF ForceStep

LEMMA LimitStep == LimitInv /\ Limits /\ [Next]_vars => Limits'
<1> SUFFICES ASSUME LimitInv, Limits, [Next]_vars
             PROVE  Limits'
  OBVIOUS
<1>1. CASE DatabaseCall
  BY <1>1, DatabaseLimit
<1>2. ASSUME NEW r \in Runs, SyncStep(r) \/ ForceStep(r) \/ ForceSync(r)
      PROVE  Limits'
  BY <1>2, SyncLimit, ForceLimit
<1>3. CASE SecondWriteThrows \/ Launch \/ StopAutoSync \/ UNCHANGED vars
  BY <1>3, LimitFrame
  DEF SecondWriteThrows, Launch, StopAutoSync, vars, syncVars, dbVars, Coming
<1>4. CASE StartAutoSync \/ NetworkEvent
  <2>1. UNCHANGED dbVars /\ (AutoSync \/ UNCHANGED <<isSyncing, run>>)
    BY <1>4 DEF StartAutoSync, NetworkEvent
  <2>2. CASE UNCHANGED run
    BY <2>1, <2>2, LimitFrame DEF dbVars, Coming
  <2>3. CASE \E r \in Idle : StartRun(r)
    BY <2>1, <2>3, ResetLimit DEF LimitInv, Idle, StartRun, Starting, dbVars
  <2> QED
    BY <2>1, <2>2, <2>3 DEF AutoSync
<1>5. CASE Crash
  BY <1>5 DEF Crash, IdleRun, Limits, Limit, Below, At, Coming
<1> QED
  BY <1>1, <1>2, <1>3, <1>4, <1>5 DEF Next, Proceed, AppStep

LEMMA InitLimits == Init => Limits
  BY DEF Init, DbInit, IdleRun, Limits, Limit, Below, At, Coming

\* What the proofs below, and those of the limit, stand on.
LEMMA RunsInvariant == Spec => [](LimitInv /\ StoreInv)
<1>1. StoreInv => TypeOK /\ RunsSound /\ HalfDone
  BY DEF StoreInv, StoreSound
<1> QED
  BY <1>1, StoreInvariant, OneRunAtATime, InitAttempts, AttemptStep, TypeCorrect, PTL
  DEF Spec, LimitInv

\* No record at the retry limit is uploaded (SyncService.ts:86-87), although
\* the filter is applied to a snapshot.
THEOREM LimitRespected == Spec => []NoDeadUpload
<1>1. LimitInv /\ Limits => NoDeadUpload
  BY DEF LimitInv, Attempts, Attempt, Limits, Limit, Below, NoDeadUpload, At, Starting
<1> QED
  BY <1>1, InitLimits, LimitStep, RunsInvariant, PTL DEF Spec

-------------------------------------------------------------------------------
(* The queue and the PENDING logs.                                         *)

\* The orphans there will be once the log being made is in the queue.
Lost == Orphans \ Coming

\* Each fault has made one orphan at most.
LossesCounted == Cardinality(Lost) <= faults

\* Without a fault a queued record is PENDING, unless its batch or the whole
\* database is half-way out of the queue.
QueuedIsPending ==
  faults = 0 =>
    \A id \in DOMAIN queue : \/ id \in Logged("PENDING")
                             \/ \E r \in Runs : At(r, "mark") /\ id \in run[r].batch
                             \/ job = "clearAllData"

\* Without a fault no log of a snapshot turns SYNCED before its own upload.
SnapshotPending(r) ==
  /\ At(r, "upload") => run[r].sent \subseteq run[r].batch
  /\ faults = 0 =>
       /\ run[r].todo \cap Logged("SYNCED") = {}
       /\ At(r, "upload") => run[r].batch \cap Logged("SYNCED") = {}

MirrorInv ==
  /\ Coming \subseteq Logged("PENDING")
  /\ \A r \in Runs : At(r, "mark") => run[r].batch \cap Logged("PENDING") = {}
  /\ LossesCounted
  /\ QueuedIsPending
  /\ \A r \in Runs : SnapshotPending(r)

LEMMA LostIsFinite ==
  ASSUME TypeOK
  PROVE  IsFiniteSet(Lost) /\ Cardinality(Lost) \in Nat /\ faults \in Nat
<1>1. Lost \subseteq Id
  BY MaxLogsAssumption DEF Lost, Orphans, Logged, TypeOK, Recorded, Id
<1> QED
  BY <1>1, ListsAreFinite, SyncAssumption DEF TypeOK

\* No record is lost more.
LEMMA LossesKeep ==
  ASSUME TypeOK, LossesCounted, Lost' \subseteq Lost, faults' = faults
  PROVE  LossesCounted'
<1>1. Cardinality(Lost') <= Cardinality(Lost) /\ Cardinality(Lost') \in Nat
  BY LostIsFinite, FS_Subset, FS_CardinalityType
<1> QED
  BY <1>1, LostIsFinite DEF LossesCounted

\* A fault loses the record that was being made, if any.
LEMMA LossesFault ==
  ASSUME TypeOK, LossesCounted, Lost' \subseteq Lost \cup Coming, Fault
  PROVE  LossesCounted'
<1> DEFINE more == Lost \cup {created}
<1>1. /\ IsFiniteSet(more) /\ Cardinality(more) \in Nat
      /\ Cardinality(more) <= Cardinality(Lost) + 1
  BY LostIsFinite, FS_AddElement, FS_CardinalityType
<1>2. Lost' \subseteq more
  BY DEF Coming
<1> HIDE DEF more
<1>3. Cardinality(Lost') <= Cardinality(more) /\ Cardinality(Lost') \in Nat
  BY <1>1, <1>2, FS_Subset, FS_CardinalityType
<1> QED
  BY <1>1, <1>3, LostIsFinite DEF LossesCounted, Fault

LEMMA DatabaseMirror ==
  ASSUME LimitInv, Limits, MirrorInv, DatabaseCall
  PROVE  MirrorInv'
<1>0. /\ TypeOK /\ UNCHANGED <<run, faults>> /\ LossesCounted
      /\ \A r \in Runs : Limit(r) /\ SnapshotPending(r)
  BY DEF LimitInv, Limits, MirrorInv, DatabaseCall, syncVars
<1>1. CASE JsFree /\ LogAttendance
  <2> DEFINE new == created + 1
  <2>1. /\ new \notin Recorded /\ new \notin DOMAIN logs /\ new \notin DOMAIN queue
        /\ job = "none"
    BY <1>0, <1>1, MaxLogsAssumption DEF TypeOK, Recorded, JsFree
  <2>2. /\ Coming' = {new} /\ Coming = {} /\ UNCHANGED queue
        /\ Logged("PENDING")' = Logged("PENDING") \cup {new}
        /\ Logged("SYNCED")' = Logged("SYNCED")
    BY <1>1, <2>1 DEF LogAttendance, Put, Logged, Coming
  <2>3. Lost' \subseteq Lost
    BY <2>1, <2>2 DEF Lost, Orphans
  <2>4. \A r \in Runs : ~ At(r, "mark")
    BY <1>1 DEF JsFree
  <2> HIDE DEF new
  <2>5. QueuedIsPending'
    BY <1>0, <2>1, <2>2, <2>4 DEF MirrorInv, QueuedIsPending, At
  <2> QED
    BY <1>0, <2>2, <2>3, <2>4, <2>5, LossesKeep DEF MirrorInv, SnapshotPending, At
<1>2. CASE JsFree /\ PurgeOldSyncedLogs
  <2>1. /\ Logged("PENDING")' = Logged("PENDING")
        /\ Logged("SYNCED")' \subseteq Logged("SYNCED")
        /\ UNCHANGED <<queue, created, job>>
    BY <1>0, <1>2 DEF PurgeOldSyncedLogs, Purgeable, Restrict, Logged, TypeOK
  <2>2. Coming' = Coming /\ Lost' = Lost
    BY <2>1 DEF Coming, Lost, Orphans
  <2> QED
    BY <1>0, <2>1, <2>2, LossesKeep DEF MirrorInv, QueuedIsPending, SnapshotPending, At
<1>3. CASE JsFree /\ ClearAllData
  <2>1. /\ Logged("PENDING")' = {} /\ Logged("SYNCED")' = {}
        /\ Coming' = {} /\ job' = "clearAllData"
        /\ \A r \in Runs : ~ At(r, "mark")
    BY <1>3 DEF ClearAllData, Empty, Logged, Coming, JsFree
  <2>2. Lost' \subseteq Lost
    BY <2>1 DEF Lost, Orphans
  <2> QED
    BY <1>0, <2>1, <2>2, LossesKeep DEF MirrorInv, QueuedIsPending, SnapshotPending, At
<1>4. CASE EnqueueLog
  <2>1. /\ Coming = {created} /\ Coming' = {} /\ UNCHANGED logs
        /\ DOMAIN queue' = DOMAIN queue \cup {created}
        /\ job = "logAttendance"
    BY <1>4 DEF EnqueueLog, QueueItem, Put, Coming
  <2>2. Lost' = Lost /\ Logged("PENDING")' = Logged("PENDING")
        /\ Logged("SYNCED")' = Logged("SYNCED")
    BY <2>1 DEF Lost, Orphans, Logged
  <2> QED
    BY <1>0, <2>1, <2>2, LossesKeep DEF MirrorInv, QueuedIsPending, SnapshotPending, At
<1>5. CASE ClearQueue
  <2>1. /\ Logged("PENDING") = {} /\ UNCHANGED logs /\ Coming' = {}
        /\ DOMAIN queue' = {}
    BY <1>5 DEF ClearQueue, Empty, Coming, LimitInv, HalfDone, Logged
  <2>2. Lost' = {} /\ Logged("PENDING")' = {} /\ Logged("SYNCED")' = Logged("SYNCED")
    BY <2>1 DEF Lost, Orphans, Logged
  <2> QED
    BY <1>0, <2>1, <2>2, LossesKeep DEF MirrorInv, QueuedIsPending, SnapshotPending, At
<1> QED
  BY <1>1, <1>2, <1>3, <1>4, <1>5 DEF DatabaseCall

\* A step that leaves the store alone and one activation with no more to do.
LEMMA MirrorFrame ==
  ASSUME TypeOK, MirrorInv, UNCHANGED dbVars, NEW r \in Runs,
         \A s \in Runs \ {r} : run'[s] = run[s],
         ~ At(r, "mark"), run'[r].pc \notin {"upload", "mark"},
         run'[r].todo \subseteq run[r].todo,
         faults' = faults \/ Fault
  PROVE  MirrorInv'
<1>1. UNCHANGED <<Lost, Coming>> /\ \A st : Logged(st)' = Logged(st)
  BY DEF Lost, Orphans, Coming, Logged, dbVars
<1>2. LossesCounted'
  BY <1>1, LossesKeep, LossesFault DEF MirrorInv
<1>3. faults' = 0 => faults = 0
  BY SyncAssumption DEF Fault, TypeOK
<1>4. QueuedIsPending'
  BY <1>1, <1>3 DEF MirrorInv, QueuedIsPending, At, dbVars
<1>5. ASSUME NEW s \in Runs
      PROVE  SnapshotPending(s)'
  BY <1>1, <1>3 DEF MirrorInv, SnapshotPending, At
<1>6. ASSUME NEW s \in Runs, At(s, "mark")'
      PROVE  run'[s].batch \cap Logged("PENDING")' = {}
  BY <1>1, <1>6 DEF MirrorInv, At
<1> QED
  BY <1>1, <1>2, <1>4, <1>5, <1>6 DEF MirrorInv

\* Nothing changes for the store and the activations.
LEMMA MirrorStutter ==
  ASSUME MirrorInv, UNCHANGED <<dbVars, run, faults>>
  PROVE  MirrorInv'
  BY DEF MirrorInv, LossesCounted, Lost, Orphans, Coming, Logged, QueuedIsPending,
     SnapshotPending, At, dbVars

LEMMA ResetMirror ==
  ASSUME TypeOK, MirrorInv, UNCHANGED dbVars, NEW r \in Runs,
         NEW pc \in Starting, run' = [run EXCEPT ![r] = [IdleRun EXCEPT !.pc = pc]],
         ~ At(r, "mark"), faults' = faults \/ Fault
  PROVE  MirrorInv'
<1>1. /\ \A s \in Runs \ {r} : run'[s] = run[s]
      /\ run'[r].pc \notin {"upload", "mark"} /\ run'[r].todo = {}
  BY DEF TypeOK, IdleRun, Starting
<1> QED
  BY <1>1, MirrorFrame

LEMMA FinishMirror ==
  ASSUME TypeOK, MirrorInv, UNCHANGED dbVars, NEW r \in Runs,
         run' = [run EXCEPT ![r] = IdleRun],
         ~ At(r, "mark"), faults' = faults \/ Fault
  PROVE  MirrorInv'
<1>1. /\ \A s \in Runs \ {r} : run'[s] = run[s]
      /\ run'[r].pc \notin {"upload", "mark"} /\ run'[r].todo = {}
  BY DEF TypeOK, IdleRun
<1> QED
  BY <1>1, MirrorFrame

LEMMA SyncMirror ==
  ASSUME LimitInv, MirrorInv, NEW r \in Runs, SyncStep(r)
  PROVE  MirrorInv'
<1> DEFINE a == run[r]
<1>0. /\ TypeOK /\ a \in RunState /\ run \in [Runs -> RunState]
      /\ Attempt(r) /\ SnapshotPending(r)
      /\ a.todo \in SUBSET Id /\ a.batch \in SUBSET Id
  BY DEF LimitInv, MirrorInv, TypeOK, Attempts, RunState
<1>1. CASE CheckNetwork(r)
  <2>1. /\ run'[r].todo = a.todo /\ run'[r].pc \in {"online", "offline"}
        /\ \A s \in Runs \ {r} : run'[s] = run[s]
    BY <1>0, <1>1 DEF CheckNetwork, RunState
  <2> QED
    BY <1>0, <1>1, <2>1, MirrorFrame DEF CheckNetwork, At
<1>2. CASE CheckFails(r) \/ Offline(r) \/ Complete(r) \/ CountThrows(r)
  <2>1. run' = [run EXCEPT ![r] = IdleRun] /\ UNCHANGED dbVars /\ ~ At(r, "mark")
    BY <1>2 DEF CheckFails, Offline, Complete, CountThrows, Finish, At
  <2>2. faults' = faults \/ Fault
    BY <1>2 DEF CheckFails, Offline, Complete, CountThrows
  <2> QED
    BY <1>0, <2>1, <2>2, FinishMirror
<1>3. CASE ReadQueue(r)
  <2>1. /\ job = "none" /\ \A s \in Runs : ~ At(s, "mark")
        /\ UNCHANGED <<dbVars, faults>>
    BY <1>3 DEF ReadQueue, JsFree
  <2>2. /\ run'[r].todo = Retryable /\ run'[r].pc = "next"
        /\ \A s \in Runs \ {r} : run'[s] = run[s]
    BY <1>0, <1>3 DEF ReadQueue, RunState
  <2>3. faults = 0 => Retryable \cap Logged("SYNCED") = {}
    BY <2>1 DEF MirrorInv, QueuedIsPending, Retryable, Logged
  <2>4. UNCHANGED <<Lost, Coming, queue, job>> /\ \A st : Logged(st)' = Logged(st)
    BY <2>1 DEF Lost, Orphans, Coming, Logged, dbVars
  <2> QED
    BY <2>1, <2>2, <2>3, <2>4 DEF MirrorInv, LossesCounted, QueuedIsPending,
       SnapshotPending, At
<1>4. CASE StartUpload(r)
  <2> DEFINE batch == FirstBatch(a.todo)
             rest  == Rest(a.todo)
  <2>1. batch \subseteq a.todo /\ rest \subseteq a.todo
    BY BatchOfList
  <2>2. /\ run'[r].batch = batch /\ run'[r].todo = rest /\ run'[r].pc = "upload"
        /\ run'[r].sent = batch \cap DOMAIN logs
        /\ \A s \in Runs \ {r} : run'[s] = run[s]
    BY <1>0, <1>4 DEF StartUpload, RunState
  <2>3. UNCHANGED <<dbVars, faults>> /\ At(r, "next")
    BY <1>4 DEF StartUpload
  <2>4. UNCHANGED <<Lost, Coming, queue, job>> /\ \A st : Logged(st)' = Logged(st)
    BY <2>3 DEF Lost, Orphans, Coming, Logged, dbVars
  <2> HIDE DEF batch, rest
  <2> QED
    BY <1>0, <2>1, <2>2, <2>3, <2>4 DEF MirrorInv, LossesCounted, QueuedIsPending,
       SnapshotPending, At
<1>5. CASE CloudAccepts(r)
  BY <1>5, MirrorStutter DEF CloudAccepts
<1>6. CASE UploadSucceeds(r)
  <2>1. /\ \A s \in Runs : ~ At(s, "mark")
        /\ \A s \in Runs : At(s, "upload") => s = r
    BY <1>6 DEF UploadSucceeds, JsFree, LimitInv, SingleSyncRun, Syncing, At
  <2>2. /\ run'[r].todo = a.todo /\ run'[r].batch = a.batch /\ run'[r].pc = "mark"
        /\ \A s \in Runs \ {r} : run'[s] = run[s]
        /\ UNCHANGED <<queue, created, job, faults>> /\ job = "none"
    BY <1>0, <1>6 DEF UploadSucceeds, RunState, JsFree
  <2>3. /\ Logged("PENDING")' = Logged("PENDING") \ a.batch
        /\ Logged("SYNCED")' \subseteq Logged("SYNCED") \cup a.batch
    BY <1>0, <1>6 DEF UploadSucceeds, MarkSynced, Logged
  <2>4. Coming' = {} /\ Coming = {} /\ Lost' \subseteq Lost
    BY <2>2, <2>3 DEF Coming, Lost, Orphans
  <2>5. QueuedIsPending'
    BY <2>1, <2>2, <2>3 DEF MirrorInv, QueuedIsPending, At
  <2>6. ASSUME NEW s \in Runs
        PROVE  SnapshotPending(s)'
    <3>1. run'[s].todo = run[s].todo /\ SnapshotPending(s)
      BY <2>2 DEF MirrorInv
    <3>2. ~ At(s, "upload")'
      BY <2>1, <2>2 DEF At
    <3>3. run[s].todo \cap a.batch = {}
      <4>1. CASE s = r
        BY <1>0, <4>1 DEF Attempt
      <4>2. CASE s # r
        BY <1>6, <4>2
        DEF UploadSucceeds, LimitInv, SingleSyncRun, Syncing, At, Attempts, Attempt, Starting
      <4> QED
        BY <4>1, <4>2
    <3> QED
      BY <2>2, <2>3, <3>1, <3>2, <3>3 DEF SnapshotPending
  <2>7. LossesCounted'
    BY <1>0, <2>2, <2>4, LossesKeep DEF MirrorInv
  <2> QED
    BY <2>1, <2>2, <2>3, <2>4, <2>5, <2>6, <2>7 DEF MirrorInv, At
<1>7. CASE DequeueSynced(r)
  <2>1. /\ run'[r].todo = a.todo /\ run'[r].batch = {} /\ run'[r].pc = "next"
        /\ \A s \in Runs \ {r} : run'[s] = run[s]
        /\ UNCHANGED <<logs, created, job, faults>>
    BY <1>0, <1>7 DEF DequeueSynced, RunState
  <2>2. DOMAIN queue' = DOMAIN queue \ a.batch
    BY <1>7 DEF DequeueSynced, RemoveFromQueue, Restrict
  <2>3. UNCHANGED Coming /\ \A st : Logged(st)' = Logged(st)
    BY <2>1 DEF Coming, Logged
  <2>4. a.batch \cap Logged("PENDING") = {}
    BY <1>7 DEF DequeueSynced, MirrorInv
  <2>5. Lost' \subseteq Lost
    BY <2>2, <2>3, <2>4 DEF Lost, Orphans
  <2>6. LossesCounted'
    BY <1>0, <2>1, <2>5, LossesKeep DEF MirrorInv
  <2>7. QueuedIsPending'
    BY <2>1, <2>2, <2>3 DEF MirrorInv, QueuedIsPending, At
  <2>8. ASSUME NEW s \in Runs
        PROVE  SnapshotPending(s)'
    BY <2>1, <2>3 DEF MirrorInv, SnapshotPending, At
  <2> QED
    BY <2>1, <2>3, <2>6, <2>7, <2>8 DEF MirrorInv, At
<1>8. CASE UploadFails(r) \/ CountFailure(r)
  <2>1. /\ run'[r].todo = a.todo /\ run'[r].pc \in {"fail", "next"}
        /\ \A s \in Runs \ {r} : run'[s] = run[s]
        /\ ~ At(r, "mark") /\ UNCHANGED <<logs, created, job, faults>>
    BY <1>0, <1>8 DEF UploadFails, CountFailure, RunState, At, dbVars
  <2>2. DOMAIN queue' = DOMAIN queue
    BY <1>8 DEF UploadFails, CountFailure, IncrementRetryCount, dbVars
  <2>3. UNCHANGED <<Lost, Coming>> /\ \A st : Logged(st)' = Logged(st)
    BY <2>1, <2>2 DEF Lost, Orphans, Coming, Logged
  <2>4. QueuedIsPending'
    BY <2>1, <2>2, <2>3 DEF MirrorInv, QueuedIsPending, At
  <2>5. ASSUME NEW s \in Runs
        PROVE  SnapshotPending(s)'
    BY <2>1, <2>3 DEF MirrorInv, SnapshotPending, At
  <2> QED
    BY <2>1, <2>3, <2>4, <2>5 DEF MirrorInv, LossesCounted, At
<1>9. CASE DequeueThrows(r)
  <2>1. /\ run'[r].pc = "fail" /\ \A s \in Runs \ {r} : run'[s] = run[s]
        /\ UNCHANGED dbVars /\ Fault
    BY <1>0, <1>9 DEF DequeueThrows, RunState
  <2>2. UNCHANGED <<Lost, Coming>> /\ \A st : Logged(st)' = Logged(st)
    BY <2>1 DEF Lost, Orphans, Coming, Logged, dbVars
  <2>3. LossesCounted' /\ faults' # 0
    BY <1>0, <2>1, <2>2, LossesFault, SyncAssumption DEF MirrorInv, Fault, TypeOK
  <2> QED
    BY <2>1, <2>2, <2>3 DEF MirrorInv, QueuedIsPending, SnapshotPending, At
<1> QED
  BY <1>1, <1>2, <1>3, <1>4, <1>5, <1>6, <1>7, <1>8, <1>9 DEF SyncStep

LEMMA ForceMirror ==
  ASSUME LimitInv, MirrorInv, NEW r \in Runs, ForceStep(r) \/ ForceSync(r)
  PROVE  MirrorInv'
<1>0. TypeOK /\ run[r] \in RunState /\ Attempt(r)
  BY DEF LimitInv, TypeOK, Attempts
<1>1. CASE ForceSync(r)
  <2>1. /\ run'[r].todo = run[r].todo /\ run'[r].pc = "force"
        /\ \A s \in Runs \ {r} : run'[s] = run[s]
    BY <1>0, <1>1 DEF ForceSync, TypeOK, RunState
  <2> QED
    BY <1>0, <1>1, <2>1, MirrorFrame DEF ForceSync, Idle, At
<1>2. CASE ForceOne(r)
  <2>1. /\ run'[r].todo = run[r].todo /\ run'[r].pc = "force" /\ At(r, "force")
        /\ \A s \in Runs \ {r} : run'[s] = run[s]
        /\ UNCHANGED <<logs, created, job, faults>>
    BY <1>0, <1>2 DEF ForceOne, TypeOK, RunState, At
  <2>2. DOMAIN queue' = DOMAIN queue
    BY <1>2 DEF ForceOne, IncrementRetryCount
  <2>3. UNCHANGED <<Lost, Coming>> /\ \A st : Logged(st)' = Logged(st)
    BY <2>1, <2>2 DEF Lost, Orphans, Coming, Logged
  <2>4. QueuedIsPending'
    BY <2>1, <2>2, <2>3 DEF MirrorInv, QueuedIsPending, At
  <2>5. ASSUME NEW s \in Runs
        PROVE  SnapshotPending(s)'
    BY <2>1, <2>3 DEF MirrorInv, SnapshotPending, At
  <2> QED
    BY <2>1, <2>3, <2>4, <2>5 DEF MirrorInv, LossesCounted, At
<1>3. CASE ForceThrows(r)
  BY <1>0, <1>3, FinishMirror DEF ForceThrows, At
<1>4. CASE ForcedSync(r)
  BY <1>0, <1>4, FinishMirror, ResetMirror DEF ForcedSync, StartRun, Starting, At
<1> QED
  BY <1>1, <1>2, <1>3, <1>4 DEF ForceStep

LEMMA AppMirror ==
  ASSUME LimitInv, MirrorInv, AppStep \/ SecondWriteThrows
  PROVE  MirrorInv'
<1>0. TypeOK
  BY DEF LimitInv
<1>1. CASE Launch \/ StopAutoSync
  BY <1>1, MirrorStutter DEF Launch, StopAutoSync
<1>2. CASE StartAutoSync \/ NetworkEvent
  <2>1. UNCHANGED <<dbVars, faults>> /\ (AutoSync \/ UNCHANGED <<isSyncing, run>>)
    BY <1>2 DEF StartAutoSync, NetworkEvent
  <2>2. CASE UNCHANGED run
    BY <2>1, <2>2, MirrorStutter
  <2>3. CASE \E r \in Idle : StartRun(r)
    BY <1>0, <2>1, <2>3, ResetMirror DEF Idle, StartRun, Starting, At
  <2> QED
    BY <2>1, <2>2, <2>3 DEF AutoSync
<1>3. CASE Crash \/ SecondWriteThrows
  <2>1. UNCHANGED <<logs, queue, created>> /\ Fault /\ job' = "none"
    BY <1>3 DEF Crash, SecondWriteThrows
  <2>2. /\ Coming' = {} /\ Lost' \subseteq Lost \cup Coming
        /\ \A st : Logged(st)' = Logged(st)
    BY <2>1 DEF Coming, Lost, Orphans, Logged
  <2>3. LossesCounted' /\ faults' # 0
    BY <1>0, <2>1, <2>2, LossesFault, SyncAssumption DEF MirrorInv, Fault, TypeOK
  <2>4. \A r \in Runs : (~ At(r, "upload")' /\ ~ At(r, "mark")') \/ run'[r] = run[r]
    BY <1>3 DEF Crash, SecondWriteThrows, IdleRun, At
  <2> QED
    BY <2>2, <2>3, <2>4 DEF MirrorInv, QueuedIsPending, SnapshotPending, At
<1> QED
  BY <1>1, <1>2, <1>3 DEF AppStep

LEMMA MirrorStep == LimitInv /\ Limits /\ MirrorInv /\ [Next]_vars => MirrorInv'
<1> SUFFICES ASSUME LimitInv, Limits, MirrorInv, [Next]_vars
             PROVE  MirrorInv'
  OBVIOUS
<1>1. ASSUME NEW r \in Runs, SyncStep(r) \/ ForceStep(r) \/ ForceSync(r)
      PROVE  MirrorInv'
  BY <1>1, SyncMirror, ForceMirror
<1>2. CASE UNCHANGED vars
  BY <1>2, MirrorStutter DEF vars, syncVars
<1> QED
  BY <1>1, <1>2, DatabaseMirror, AppMirror DEF Next, Proceed

LEMMA InitMirror == Init => MirrorInv
<1> SUFFICES ASSUME Init
             PROVE  MirrorInv
  OBVIOUS
<1>1. Coming = {} /\ Lost = {} /\ DOMAIN queue = {} /\ faults = 0
  BY DEF Init, DbInit, Coming, Lost, Orphans, Logged, Empty
<1>2. LossesCounted
  BY <1>1, FS_EmptySet DEF LossesCounted
<1> QED
  BY <1>1, <1>2 DEF Init, MirrorInv, QueuedIsPending, SnapshotPending, At, IdleRun

LEMMA MirrorInvariant == Spec => []MirrorInv
  BY InitLimits, LimitStep, InitMirror, MirrorStep, RunsInvariant, PTL DEF Spec

\* The two keys agree whenever a handler may run, and each fault costs one
\* record at most (DatabaseService.ts:128-138, 200-217).
THEOREM QueueMirrors == Spec => []QueueMirrorsPending
<1>1. TypeOK /\ HalfDone /\ MirrorInv => QueueMirrorsPending
  <2> SUFFICES ASSUME TypeOK, HalfDone, MirrorInv, JsFree
               PROVE  /\ Cardinality(Orphans) <= faults
                      /\ faults = 0 => DOMAIN queue = Logged("PENDING")
    BY DEF QueueMirrorsPending
  <2>1. job = "none" /\ Lost = Orphans
    BY DEF JsFree, Lost, Coming
  <2>2. Cardinality(Orphans) <= faults
    BY <2>1 DEF MirrorInv, LossesCounted
  <2>3. ASSUME faults = 0
        PROVE  Orphans = {}
    BY <2>1, <2>2, <2>3, LostIsFinite, FS_EmptySet
  <2>4. ASSUME faults = 0
        PROVE  DOMAIN queue \subseteq Logged("PENDING")
    BY <2>1, <2>4 DEF MirrorInv, QueuedIsPending, JsFree
  <2> QED
    BY <2>2, <2>3, <2>4 DEF Orphans
<1> QED
  BY <1>1, MirrorInvariant, RunsInvariant, PTL DEF LimitInv

\* What was acknowledged is not uploaded again (SyncService.ts:76-107).
THEOREM SentOnce == Spec => []NothingSentTwice
<1>1. MirrorInv => NothingSentTwice
  BY DEF MirrorInv, SnapshotPending, NothingSentTwice
<1> QED
  BY <1>1, MirrorInvariant, PTL

\* Until a write throws or the process dies, "All Synced" on the dashboard
\* means what README.md:54 says: one fault is all that the run that refutes
\* AllSyncedIsDelivered needs, and without one it cannot be refuted.
THEOREM AllSyncedWithoutFaults == Spec => [](faults = 0 => AllSyncedIsDelivered)
<1>1. TypeOK /\ QueueMirrorsPending /\ SyncedReachedCloud =>
        (faults = 0 => AllSyncedIsDelivered)
  <2> SUFFICES ASSUME TypeOK, QueueMirrorsPending, SyncedReachedCloud,
                      faults = 0, JsFree, DOMAIN queue = {}
               PROVE  DOMAIN logs \subseteq cloud
    BY DEF AllSyncedIsDelivered, AllSyncedShown
  <2>1. Logged("PENDING") = {}
    BY DEF QueueMirrorsPending
  <2>2. DOMAIN logs \subseteq Logged("SYNCED")
    BY <2>1 DEF Logged, TypeOK
  <2> QED
    BY <2>2 DEF SyncedReachedCloud
<1> QED
  BY <1>1, TypeCorrect, QueueMirrors, SyncedLogsDelivered, PTL

-------------------------------------------------------------------------------
(* Retry counts.                                                           *)

\* A log that is being made has no queue item yet.
NewIsNotQueued == Coming \cap DOMAIN queue = {}

CountsKeep ==
  \A id \in DOMAIN queue \cap DOMAIN queue' : queue'[id] \in {queue[id], queue[id] + 1}

LEMMA SameQueue ==
  ASSUME NewIsNotQueued, UNCHANGED queue, job' = job \/ job' = "none", UNCHANGED created
  PROVE  CountsKeep /\ NewIsNotQueued'
  BY DEF CountsKeep, NewIsNotQueued, Coming

LEMMA CountUp ==
  ASSUME NewIsNotQueued, NEW id, queue' = IncrementRetryCount(id), UNCHANGED <<created, job>>
  PROVE  CountsKeep /\ NewIsNotQueued'
  BY DEF CountsKeep, NewIsNotQueued, Coming, IncrementRetryCount

LEMMA DatabaseCounts ==
  ASSUME TypeOK, NewIsNotQueued, DatabaseCall
  PROVE  CountsKeep /\ NewIsNotQueued'
<1>1. CASE LogAttendance
  <2>1. created + 1 \notin DOMAIN queue
    BY MaxLogsAssumption DEF TypeOK, Recorded
  <2> QED
    BY <1>1, <2>1 DEF LogAttendance, CountsKeep, NewIsNotQueued, Coming
<1>2. CASE PurgeOldSyncedLogs \/ ClearAllData
  BY <1>2 DEF PurgeOldSyncedLogs, ClearAllData, CountsKeep, NewIsNotQueued, Coming
<1>3. CASE EnqueueLog
  BY <1>3 DEF EnqueueLog, QueueItem, Put, CountsKeep, NewIsNotQueued, Coming
<1>4. CASE ClearQueue
  BY <1>4 DEF ClearQueue, Empty, CountsKeep, NewIsNotQueued, Coming
<1> QED
  BY <1>1, <1>2, <1>3, <1>4 DEF DatabaseCall

LEMMA SyncCounts ==
  ASSUME TypeOK, NewIsNotQueued, NEW r \in Runs, SyncStep(r)
  PROVE  CountsKeep /\ NewIsNotQueued'
<1>1. CASE \/ CheckNetwork(r) \/ CheckFails(r) \/ Offline(r) \/ ReadQueue(r)
           \/ StartUpload(r) \/ Complete(r) \/ CloudAccepts(r) \/ UploadSucceeds(r)
           \/ UploadFails(r) \/ DequeueThrows(r) \/ CountThrows(r)
  <2>1. UNCHANGED <<queue, created, job>>
    BY <1>1 DEF CheckNetwork, CheckFails, Offline, ReadQueue, StartUpload, Complete,
       CloudAccepts, UploadSucceeds, UploadFails, DequeueThrows, CountThrows, dbVars
  <2> QED
    BY <2>1, SameQueue
<1>2. CASE DequeueSynced(r)
  BY <1>2 DEF DequeueSynced, RemoveFromQueue, Restrict, CountsKeep, NewIsNotQueued, Coming
<1>3. CASE CountFailure(r)
  <2>1. PICK id : queue' = IncrementRetryCount(id)
    BY <1>3 DEF CountFailure
  <2> QED
    BY <1>3, <2>1, CountUp DEF CountFailure
<1> QED
  BY <1>1, <1>2, <1>3 DEF SyncStep

LEMMA ForceCounts ==
  ASSUME TypeOK, NewIsNotQueued, NEW r \in Runs, ForceStep(r) \/ ForceSync(r)
  PROVE  CountsKeep /\ NewIsNotQueued'
<1>1. CASE ForceOne(r)
  <2>1. PICK id : queue' = IncrementRetryCount(id)
    BY <1>1 DEF ForceOne
  <2> QED
    BY <1>1, <2>1, CountUp DEF ForceOne
<1>2. CASE ForcedSync(r) \/ ForceThrows(r) \/ ForceSync(r)
  BY <1>2, SameQueue DEF ForcedSync, ForceThrows, ForceSync, dbVars
<1> QED
  BY <1>1, <1>2 DEF ForceStep

LEMMA AppCounts ==
  ASSUME NewIsNotQueued, AppStep \/ SecondWriteThrows \/ UNCHANGED vars
  PROVE  CountsKeep /\ NewIsNotQueued'
<1>1. UNCHANGED <<queue, created>> /\ (job' = job \/ job' = "none")
  BY DEF AppStep, Launch, StartAutoSync, StopAutoSync, NetworkEvent, Crash,
     SecondWriteThrows, vars, dbVars
<1> QED
  BY <1>1, SameQueue

LEMMA CountsStep == TypeOK /\ NewIsNotQueued /\ [Next]_vars => CountsKeep /\ NewIsNotQueued'
<1> SUFFICES ASSUME TypeOK, NewIsNotQueued, [Next]_vars
             PROVE  CountsKeep /\ NewIsNotQueued'
  OBVIOUS
<1>1. ASSUME NEW r \in Runs, SyncStep(r) \/ ForceStep(r) \/ ForceSync(r)
      PROVE  CountsKeep /\ NewIsNotQueued'
  BY <1>1, SyncCounts, ForceCounts
<1> QED
  BY <1>1, DatabaseCounts, AppCounts DEF Next, Proceed

\* No step lowers a retry count, forceSync least of all: a record at the
\* limit stays at it for as long as it is queued, and no run uploads it
\* (LimitRespected).  The reset that SyncService.ts:160 speaks of takes place
\* for no number of records and no limit.
THEOREM CountsNeverFall == Spec => [][CountsKeep]_vars
<1>1. Init => NewIsNotQueued
  BY DEF Init, DbInit, NewIsNotQueued, Coming
<1>2. TypeOK /\ NewIsNotQueued /\ [Next]_vars => [CountsKeep]_vars
  BY CountsStep
<1> QED
  BY <1>1, <1>2, CountsStep, TypeCorrect, PTL DEF Spec
===============================================================================
