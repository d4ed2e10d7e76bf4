------------------------------ MODULE SyncService ------------------------------
(***************************************************************************)
(* The synchronization engine (SyncService.ts) over the local database:    *)
(* network events, manual syncs, batches, retries, process death and       *)
(* restarts, and writes of the local store that throw.                     *)
(*                                                                         *)
(* The app has one JavaScript thread.  Every await in sync() and           *)
(* forceSync() is a point where another handler may run, and a program     *)
(* counter names it; two writes of one synchronous stretch ("mark",        *)
(* job # "none") can be separated by process death only, or the second of  *)
(* them throws and the code goes on in whatever catches it.                *)
(***************************************************************************)
EXTENDS DatabaseService, Batches, FiniteSetsExt

CONSTANTS
  Runs,                 \* activations of sync() and forceSync(); their number bounds how many exist at once
  MAX_RETRIES,
  MaxFaults             \* bound: how often the process dies or a write throws

ASSUME SyncAssumption ==
  /\ MAX_RETRIES \in Nat \ {0}
  /\ MaxFaults \in Nat

VARIABLES
  up,                   \* the app process is alive
  subscribed,           \* this.unsubscribe is set
  isSyncing,            \* this.isSyncing
  run,                  \* the local variables of each activation
  net,                  \* connected and internet reachable
  cloud,                \* the records the cloud has accepted
  faults                \* history: how often the process died or a write threw

syncVars == <<up, subscribed, isSyncing, run, net, cloud, faults>>
vars == <<dbVars, syncVars>>

\* todo:   retryable records of the snapshot not yet in a batch
\* batch:  the records of the current batch, or those forceSync must update
\* sent:   the records of the batch whose logs were found and uploaded
\* synced, failed: the records counted in totalSynced and totalFailed
IdleRun == [pc |-> "idle", todo |-> {}, batch |-> {}, sent |-> {},
            synced |-> {}, failed |-> {}]

Pc == {"idle", "force", "check", "online", "offline", "next", "upload",
       "mark", "fail"}

RunState == [pc : Pc, todo : SUBSET Id, batch : SUBSET Id, sent : SUBSET Id,
             synced : SUBSET Id, failed : SUBSET Id]

At(r, pc) == run[r].pc = pc

Idle == {r \in Runs : At(r, "idle")}

\* The activations inside sync().
Syncing == {r \in Runs : run[r].pc \notin {"idle", "force"}}

JsFree ==
  /\ up
  /\ job = "none"
  /\ \A r \in Runs : ~At(r, "mark")

Init ==
  /\ DbInit
  /\ up = FALSE
  /\ subscribed = FALSE
  /\ isSyncing = FALSE
  /\ run = [r \in Runs |-> IdleRun]
  /\ net \in BOOLEAN
  /\ cloud = {}
  /\ faults = 0

\* A write of the local store throws, or the process dies.
Fault ==
  /\ faults < MaxFaults
  /\ faults' = faults + 1

-------------------------------------------------------------------------------
(* Entering and leaving sync().                                            *)

\* Mutant: the guard on isSyncing is gone.
UnguardedStart(r) ==
  /\ isSyncing' = TRUE
  /\ run' = [run EXCEPT ![r] = [IdleRun EXCEPT !.pc = "check"]]

\* A call of sync() that gets past the guard, up to the await of the network.
StartRun(r) ==
  /\ ~isSyncing
  /\ isSyncing' = TRUE
  /\ run' = [run EXCEPT ![r] = [IdleRun EXCEPT !.pc = "check"]]

\* The listener calls sync(); a call that finds isSyncing set returns.
AutoSync ==
  \/ isSyncing /\ UNCHANGED <<isSyncing, run>>
  \/ \E r \in Idle : StartRun(r)

\* Mutant: an offline run returns without the finally.
FinishKeepsFlag(r) ==
  /\ run' = [run EXCEPT ![r] = IdleRun]
  /\ isSyncing' = At(r, "offline")

\* return, whatever the reason, and the finally.
Finish(r) ==
  /\ run' = [run EXCEPT ![r] = IdleRun]
  /\ isSyncing' = FALSE

-------------------------------------------------------------------------------
(* The lists a run works on.                                               *)

\* Mutant: a record at the limit is uploaded once more.
RetryableAtLimit == {id \in DOMAIN queue : queue[id] <= MAX_RETRIES}
\* Mutant: the last retry is never made.
RetryableTooFew == {id \in DOMAIN queue : queue[id] + 1 < MAX_RETRIES}
Retryable == {id \in DOMAIN queue : queue[id] < MAX_RETRIES}

-------------------------------------------------------------------------------
(* One run of sync(), from one await to the next.                          *)

\* NetInfo.fetch settles with the state of this moment.
CheckNetwork(r) ==
  /\ At(r, "check")
  /\ run' = [run EXCEPT ![r].pc = IF net THEN "online" ELSE "offline"]
  /\ UNCHANGED <<dbVars, up, subscribed, isSyncing, net, cloud, faults>>

\* NetInfo.fetch rejects: the outer catch.
CheckFails(r) ==
  /\ JsFree
  /\ At(r, "check")
  /\ Finish(r)
  /\ UNCHANGED <<dbVars, up, subscribed, net, cloud, faults>>

Offline(r) ==
  /\ JsFree
  /\ At(r, "offline")
  /\ Finish(r)
  /\ UNCHANGED <<dbVars, up, subscribed, net, cloud, faults>>

\* The queue is read once for the whole run.
ReadQueue(r) ==
  /\ JsFree
  /\ At(r, "online")
  /\ run' = [run EXCEPT ![r].pc = "next", ![r].todo = Retryable]
  /\ UNCHANGED <<dbVars, up, subscribed, isSyncing, net, cloud, faults>>

\* The next batch: its logs are read and the upload starts.
StartUpload(r) ==
  /\ JsFree
  /\ At(r, "next")
  /\ run[r].todo # {}
  /\ run' = [run EXCEPT ![r].pc = "upload",
                        ![r].batch = FirstBatch(run[r].todo),
                        ![r].sent = FirstBatch(run[r].todo) \cap DOMAIN logs,
                        ![r].todo = Rest(@)]
  /\ UNCHANGED <<dbVars, up, subscribed, isSyncing, net, cloud, faults>>

\* There is no batch left.
Complete(r) ==
  /\ JsFree
  /\ At(r, "next")
  /\ run[r].todo = {}
  /\ Finish(r)
  /\ UNCHANGED <<dbVars, up, subscribed, net, cloud, faults>>

\* The service accepts the batch; its answer is still on the way.
CloudAccepts(r) ==
  /\ At(r, "upload")
  /\ ~ (run[r].sent \subseteq cloud)
  /\ cloud' = cloud \cup run[r].sent
  /\ UNCHANGED <<dbVars, up, subscribed, isSyncing, run, net, faults>>

\* Mutant: uploadBatch is called without await.
UploadNotAwaited(r) ==
  /\ JsFree
  /\ At(r, "upload")
  /\ logs' = MarkSynced(run[r].batch)
  /\ run' = [run EXCEPT ![r].pc = "mark"]
  /\ UNCHANGED <<queue, created, wiped, job>>
  /\ UNCHANGED <<up, subscribed, isSyncing, net, cloud, faults>>

\* The upload resolves; markRecordsSynced up to its first write.
UploadSucceeds(r) ==
  /\ JsFree
  /\ At(r, "upload")
  /\ run[r].sent \subseteq cloud
  /\ logs' = MarkSynced(run[r].batch)
  /\ run' = [run EXCEPT ![r].pc = "mark"]
  /\ UNCHANGED <<queue, created, wiped, job>>
  /\ UNCHANGED <<up, subscribed, isSyncing, net, cloud, faults>>

\* The second write of markRecordsSynced.
DequeueSynced(r) ==
  /\ At(r, "mark")
  /\ queue' = RemoveFromQueue(run[r].batch)
  /\ run' = [run EXCEPT ![r].pc = "next",
                        ![r].synced = @ \cup run[r].batch,
                        ![r].batch = {},
                        ![r].sent = {}]
  /\ UNCHANGED <<logs, created, wiped, job>>
  /\ UNCHANGED <<up, subscribed, isSyncing, net, cloud, faults>>

\* The second write of markRecordsSynced throws: the catch for the upload has
\* the batch for failed, although its logs are SYNCED.
DequeueThrows(r) ==
  /\ At(r, "mark")
  /\ Fault
  /\ run' = [run EXCEPT ![r].pc = "fail",
                        ![r].failed = @ \cup run[r].batch,
                        ![r].sent = {}]
  /\ UNCHANGED <<dbVars, up, subscribed, isSyncing, net, cloud>>

\* The upload rejects, whether or not the service accepted the batch; or the
\* first write of markRecordsSynced throws.
UploadFails(r) ==
  /\ JsFree
  /\ At(r, "upload")
  /\ run' = [run EXCEPT ![r].pc = "fail",
                        ![r].failed = @ \cup run[r].batch,
                        ![r].sent = {}]
  /\ UNCHANGED <<dbVars, up, subscribed, isSyncing, net, cloud, faults>>

\* One turn of the loop over the failed batch: one write per record.
CountFailure(r) ==
  /\ JsFree
  /\ At(r, "fail")
  /\ queue' = IncrementRetryCount(Min(run[r].batch))
  /\ run' = [run EXCEPT ![r].batch = @ \ {Min(@)},
                        ![r].pc = IF Cardinality(run[r].batch) = 1
                                  THEN "next" ELSE "fail"]
  /\ UNCHANGED <<logs, created, wiped, job>>
  /\ UNCHANGED <<up, subscribed, isSyncing, net, cloud, faults>>

\* Mutant: the outer catch returns without the finally.
ThrowKeepsFlag(r) ==
  /\ JsFree
  /\ At(r, "fail")
  /\ Fault
  /\ run' = [run EXCEPT ![r] = IdleRun]
  /\ UNCHANGED <<dbVars, up, subscribed, isSyncing, net, cloud>>

\* A write inside the catch throws: the outer catch, with the rest of the
\* batch uncounted and the later batches untried.
CountThrows(r) ==
  /\ JsFree
  /\ At(r, "fail")
  /\ Fault
  /\ Finish(r)
  /\ UNCHANGED <<dbVars, up, subscribed, net, cloud>>

-------------------------------------------------------------------------------
(* forceSync().                                                            *)

\* The queue is read; what is at the limit is "reset" before the sync.
ForceSync(r) ==
  /\ JsFree
  /\ r \in Idle
  /\ run' = [run EXCEPT ![r].pc = "force",
                        ![r].batch = DOMAIN queue \ Retryable]
  /\ UNCHANGED <<dbVars, up, subscribed, isSyncing, net, cloud, faults>>

\* One turn of the loop over the records at the limit.
ForceOne(r) ==
  /\ JsFree
  /\ At(r, "force")
  /\ run[r].batch # {}
  /\ queue' = IncrementRetryCount(Min(run[r].batch))
  /\ run' = [run EXCEPT ![r].batch = @ \ {Min(@)}]
  /\ UNCHANGED <<logs, created, wiped, job>>
  /\ UNCHANGED <<up, subscribed, isSyncing, net, cloud, faults>>

\* A write of that loop throws, and so does forceSync.
ForceThrows(r) ==
  /\ JsFree
  /\ At(r, "force")
  /\ run[r].batch # {}
  /\ Fault
  /\ run' = [run EXCEPT ![r] = IdleRun]
  /\ UNCHANGED <<dbVars, up, subscribed, isSyncing, net, cloud>>

\* The call of sync() that follows.
ForcedSync(r) ==
  /\ JsFree
  /\ At(r, "force")
  /\ run[r].batch = {}
  /\ \/ StartRun(r)
     \/ /\ isSyncing
        /\ run' = [run EXCEPT ![r] = IdleRun]
        /\ UNCHANGED isSyncing
  /\ UNCHANGED <<dbVars, up, subscribed, net, cloud, faults>>

-------------------------------------------------------------------------------
(* The app's life and the network.                                         *)

Launch ==
  /\ ~up
  /\ up' = TRUE
  /\ UNCHANGED <<dbVars, subscribed, isSyncing, run, net, cloud, faults>>

\* The App component mounts.  NetInfo reports the current state to the new
\* listener, at once or later as an event.
StartAutoSync ==
  /\ JsFree
  /\ subscribed' = TRUE
  /\ \/ net /\ AutoSync
     \/ UNCHANGED <<isSyncing, run>>
  /\ UNCHANGED <<dbVars, up, net, cloud, faults>>

StopAutoSync ==
  /\ JsFree
  /\ subscribed
  /\ subscribed' = FALSE
  /\ UNCHANGED <<dbVars, up, isSyncing, run, net, cloud, faults>>

\* NetInfo reports a state, new or not, to the listener if there is one.
NetworkEvent ==
  /\ JsFree \/ ~up
  /\ net' \in BOOLEAN
  /\ IF subscribed /\ net' THEN AutoSync ELSE UNCHANGED <<isSyncing, run>>
  /\ UNCHANGED <<dbVars, up, subscribed, cloud, faults>>

\* The process dies: memory is lost, the MMKV keys stay as they are.
Crash ==
  /\ up
  /\ Fault
  /\ up' = FALSE
  /\ subscribed' = FALSE
  /\ isSyncing' = FALSE
  /\ run' = [r \in Runs |-> IdleRun]
  /\ job' = "none"
  /\ UNCHANGED <<logs, queue, created, wiped, net, cloud>>

\* The second write of logAttendance or clearAllData throws; what the first
\* one did stays.
SecondWriteThrows ==
  /\ job # "none"
  /\ Fault
  /\ job' = "none"
  /\ UNCHANGED <<logs, queue, created, wiped>>
  /\ UNCHANGED <<up, subscribed, isSyncing, run, net, cloud>>

DatabaseCall ==
  /\ \/ JsFree /\ (LogAttendance \/ PurgeOldSyncedLogs \/ ClearAllData)
     \/ EnqueueLog
     \/ ClearQueue
  /\ UNCHANGED syncVars

SyncStep(r) ==
  \/ CheckNetwork(r) \/ CheckFails(r) \/ Offline(r) \/ ReadQueue(r)
  \/ StartUpload(r) \/ Complete(r)
  \/ CloudAccepts(r) \/ UploadSucceeds(r) \/ DequeueSynced(r)
  \/ UploadFails(r) \/ CountFailure(r)
  \/ DequeueThrows(r) \/ CountThrows(r)

ForceStep(r) == ForceOne(r) \/ ForcedSync(r) \/ ForceThrows(r)

AppStep ==
  Launch \/ StartAutoSync \/ StopAutoSync \/ NetworkEvent \/ Crash

\* Everything but a call of forceSync, which may come without end.
Proceed ==
  \/ DatabaseCall \/ SecondWriteThrows
  \/ \E r \in Runs : SyncStep(r) \/ ForceStep(r)
  \/ AppStep

Next == Proceed \/ \E r \in Runs : ForceSync(r)

Spec == Init /\ [][Next]_vars
===============================================================================
