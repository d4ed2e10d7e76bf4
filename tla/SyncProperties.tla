---------------------------- MODULE SyncProperties ----------------------------
(***************************************************************************)
(* What the database and the synchronization engine must guarantee         *)
(* together, what the repository's documents say of them, and the          *)
(* refinement mapping to the ledger.                                       *)
(***************************************************************************)
EXTENDS SyncService

Recorded == 1 .. created

\* Type invariant: every variable holds a value of the kind the code stores
\* in it; names come from the records made so far.
TypeOK ==
  /\ created \in 0 .. MaxLogs
  /\ DOMAIN logs \subseteq Recorded
  /\ logs \in [DOMAIN logs -> {"PENDING", "SYNCED"}]
  /\ DOMAIN queue \subseteq Recorded
  /\ queue \in [DOMAIN queue -> Nat]
  /\ wiped \subseteq Recorded
  /\ job \in {"none", "logAttendance", "clearAllData"}
  /\ up \in BOOLEAN
  /\ subscribed \in BOOLEAN
  /\ isSyncing \in BOOLEAN
  /\ run \in [Runs -> RunState]
  /\ net \in BOOLEAN
  /\ cloud \subseteq Recorded
  /\ faults \in 0 .. MaxFaults

-------------------------------------------------------------------------------
(* Safety.                                                                 *)

\* A log the device shows as SYNCED is one the cloud holds, whatever crash,
\* purge, reset or new record came between the upload and the two writes of
\* markRecordsSynced (SyncService.ts:94-108).
SyncedReachedCloud == Logged("SYNCED") \subseteq cloud

\* A record is never lost: it is on the device, or in the cloud, or was
\* dropped by a factory reset.  purgeOldSyncedLogs must not remove what a
\* failed or half-done sync has left behind.
NothingLost == Recorded \subseteq DOMAIN logs \cup cloud \cup wiped

\* A record leaves the sync queue only when it was delivered or wiped:
\* neither a record appended during an upload nor a failed one is dropped
\* by the write-back of the queue (DatabaseService.ts:212-214, 222-228).
DequeuedOnlyWhenDelivered ==
  [][(DOMAIN queue \ DOMAIN queue') \subseteq cloud \cup wiped]_vars

\* The logs that wait for a sync that will never look at them.
Orphans == Logged("PENDING") \ DOMAIN queue

\* Whenever a handler may run, the queue holds exactly the PENDING logs,
\* although the two keys are written one after the other by three operations
\* and nothing else ties them together; and when writes throw or the process
\* dies, each time one record at most drops out of the queue.
QueueMirrorsPending ==
  JsFree => /\ Cardinality(Orphans) <= faults
            /\ faults = 0 => DOMAIN queue = Logged("PENDING")

\* What was acknowledged is not uploaded again by a later batch, another run
\* or a retry, until a fault leaves an acknowledged record in the queue: an
\* upload whose answer is awaited holds no SYNCED log (SyncService.ts:76-107
\* works on a snapshot of the queue and never looks at sync_status).
NothingSentTwice ==
  faults = 0 => \A r \in Runs :
    At(r, "upload") => run[r].sent \cap Logged("SYNCED") = {}

\* At most one activation is inside sync(), and isSyncing says so: the
\* guard and the finally hold for the listener, for forceSync and for a
\* call that arrives during any await.
SingleSyncRun ==
  /\ \A r, s \in Syncing : r = s
  /\ isSyncing = (Syncing # {})

\* A run attempts each record of its snapshot once: what it still has to
\* do, what it is doing, what it counted as synced and what it counted as
\* failed do not overlap (the slices of SyncService.ts:94-95).
AttemptedOnce ==
  \A r \in Syncing :
    LET a == run[r]
    IN  /\ a.todo \cap (a.batch \cup a.synced \cup a.failed) = {}
        /\ a.synced \cap (a.batch \cup a.failed) = {}
        /\ ~At(r, "fail") => a.batch \cap a.failed = {}

\* No record at the retry limit is uploaded: the filter is applied to the
\* snapshot, and while the run works through it neither an earlier batch
\* nor a concurrent forceSync moves a record of it to the limit.
NoDeadUpload ==
  \A r \in Runs :
    At(r, "next") \/ At(r, "upload") =>
      \A id \in (run[r].todo \cup run[r].batch) \cap DOMAIN queue :
        queue[id] < MAX_RETRIES

-------------------------------------------------------------------------------
(* Liveness.                                                               *)

\* What an activation does next once what it awaits has settled.
Continue(r) ==
  \/ Offline(r) \/ ReadQueue(r) \/ StartUpload(r) \/ Complete(r)
  \/ UploadSucceeds(r) \/ DequeueSynced(r) \/ UploadFails(r)
  \/ CountFailure(r) \/ ForceOne(r) \/ ForcedSync(r)

\* The event loop runs every settled continuation, although other handlers
\* keep coming; the upload's timer fires; NetInfo.fetch answers and does not
\* reject forever; a synchronous stretch is not left half-way.  Nothing is
\* assumed of the user, the network, the launch of the app or its death.
Fairness ==
  /\ \A r \in Runs : SF_vars(CheckNetwork(r)) /\ SF_vars(Continue(r))
  /\ WF_vars(DatabaseCall /\ (EnqueueLog \/ ClearQueue))

FairSpec == Spec /\ Fairness

\* sync() always ends and releases isSyncing, so the flag can never block
\* all later syncs.
SyncReleases == isSyncing ~> ~isSyncing

\* The records the engine still has to deliver.
Owed == {id \in DOMAIN queue : queue[id] < MAX_RETRIES}

\* If the network stays and sync() is called again and again, every queued
\* record is delivered or reaches the retry limit: none is starved by
\* records before it, by failures or by new records.
QueueDrains ==
  <>[]net /\ []<>isSyncing => \A id \in Id : id \in Owed ~> id \notin Owed

-------------------------------------------------------------------------------
(* What the documents say.                                                 *)

\* SyncService.ts:157, "Force sync all records (ignoring retry limits)",
\* and :160, "Reset all retry counts first": when forceSync calls sync(),
\* no queued record is at the limit that sync() filters by.
ForceIgnoresLimit ==
  [][\A r \in Runs : ForcedSync(r) => DOMAIN queue = Retryable]_vars

\* The Home screen counts the sync queue, and an empty one reads
\* "All Synced" (HomeScreen.tsx:49, DatabaseService.ts:240-249).
AllSyncedShown == DOMAIN queue = {}

\* README.md:54, "The dashboard will update to show `All Synced` once the
\* data successfully reaches the main server": whenever a handler may run,
\* also after a restart, "All Synced" means that the cloud has every log.
AllSyncedIsDelivered == JsFree /\ AllSyncedShown => DOMAIN logs \subseteq cloud

\* ARCHITECTURE.md:24, "F -- No --> I[Retry with Backoff]": while the app
\* listens and the network stays, a record whose upload failed is tried
\* again until it is delivered or reaches the limit.
FailedIsRetried ==
  <>[](net /\ subscribed) =>
    \A id \in Id : id \in Owed /\ queue[id] > 0 ~> id \notin Owed

\* SECURITY.md:16, logs are "aggressively purged after receiving an
\* HTTP 200 OK": a synced log eventually leaves the device.
SyncedIsPurged == \A id \in Id : id \in Logged("SYNCED") ~> id \notin DOMAIN logs

-------------------------------------------------------------------------------
(* The store and the engine implement the ledger.                          *)

StatusOf(id) ==
  CASE id \in Logged("PENDING") -> "pending"
    [] id \in Logged("SYNCED") -> "synced"
    [] id \in wiped \ DOMAIN logs -> "wiped"
    [] id > created -> "unrecorded"
    [] OTHER -> "purged"

Ledger == INSTANCE AttendanceLedger
            WITH status <- [id \in Id |-> StatusOf(id)], delivered <- cloud

\* Every step of the code is a step of the ledger or changes nothing in it:
\* a record goes from pending to synced only after its delivery, from synced
\* to purged only by a purge, and never back.
ImplementsLedger == Ledger!LedgerSpec
===============================================================================
