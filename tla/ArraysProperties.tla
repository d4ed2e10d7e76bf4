---------------------------- MODULE ArraysProperties ----------------------------
(***************************************************************************)
(* That the arrays are what DatabaseService.tla takes them for, and what   *)
(* the statistics and the purge promise.                                   *)
(***************************************************************************)
EXTENDS DatabaseArrays

\* Type invariant of the arrays.
ArraysTypeOK ==
  /\ attendance \in Seq([log_id : 1 .. created, timestamp : Time,
                         sync_status : {"PENDING", "SYNCED"},
                         synced_at : Time \cup {null}])
  /\ syncQueue \in Seq([log_id : 1 .. created, retry_count : 0 .. MaxRetryCount])
  /\ Len(attendance) <= created /\ Len(syncQueue) <= created
  /\ clock \in Time
  /\ created \in 0 .. MaxLogs
  /\ wiped \subseteq 1 .. created
  /\ job.op \in {"none", "logAttendance", "markRecordsSynced", "clearAllData"}
  /\ job.ids \subseteq 1 .. created

Sorted(array) ==
  \A i, j \in DOMAIN array : i < j => array[i].log_id < array[j].log_id

\* Both arrays stay in order of creation, each record at most once, through
\* every filter and map of a long history of calls.  sync() and forceSync()
\* go by the order of the queue.
InCreationOrder == Sorted(attendance) /\ Sorted(syncQueue)

\* SyncService.ts:94-96: the slices of the loop are, one after the other,
\* the batches FirstBatch takes from what is left, whatever the length of
\* the list and of the last slice.
SlicesAreBatches ==
  LET list == RetryableArray
  IN  \A i \in {i \in 0 .. Len(list) - 1 : i % BATCH_SIZE = 0} :
        Names(Slice(list, i)) =
          FirstBatch(Names(SubSeq(list, i + 1, Len(list))))

-------------------------------------------------------------------------------
(* Refinement: DatabaseService.tla.                                        *)

Item(array, id) == CHOOSE item \in ToSet(array) : item.log_id = id

LogsOf == [id \in Names(attendance) |-> Item(attendance, id).sync_status]
QueueOf == [id \in Names(syncQueue) |-> Item(syncQueue, id).retry_count]
JobOf == IF job.op = "markRecordsSynced" THEN "none" ELSE job.op

Store == INSTANCE DatabaseService
           WITH logs <- LogsOf, queue <- QueueOf, job <- JobOf

\* What the engine's steps do to the store.
StoreMark ==
  /\ LogsOf' = Store!MarkSynced(job'.ids)
  /\ UNCHANGED <<QueueOf, created, wiped, JobOf>>
StoreDequeue ==
  /\ QueueOf' = Store!RemoveFromQueue(job.ids)
  /\ UNCHANGED <<LogsOf, created, wiped, JobOf>>
StoreCount(id) ==
  /\ QueueOf' = Store!IncrementRetryCount(id)
  /\ UNCHANGED <<LogsOf, created, wiped, JobOf>>
StoreCrash ==
  /\ JobOf' = "none"
  /\ UNCHANGED <<LogsOf, QueueOf, created, wiped>>

StoreNext ==
  \/ Store!LogAttendance \/ Store!EnqueueLog
  \/ Store!PurgeOldSyncedLogs
  \/ Store!ClearAllData \/ Store!ClearQueue
  \/ StoreMark \/ StoreDequeue \/ StoreCrash
  \/ \E id \in Id : StoreCount(id)

\* Every write of an array is the step that DatabaseService.tla and
\* SyncService.tla take for it.
ImplementsStore ==
  Store!DbInit /\ [][StoreNext]_<<LogsOf, QueueOf, created, wiped, JobOf>>

-------------------------------------------------------------------------------
(* Statistics and purge.                                                   *)

\* DatabaseService.ts:242-244, shown as the last sync on the Sync Status
\* screen: the time of the last markRecordsSynced that marked a log, as long
\* as a log of that batch is stored, also when a record is marked twice, old
\* logs are purged or a crash cuts a call short.  (As long as the clock is
\* not set back.)
LastSyncShown ==
  ~setBack /\ lastMark.ids \cap Names(attendance) # {} => LastSyncAt = lastMark.at

\* DatabaseService.ts:261-271 and 163-168: a purge takes nothing from
\* today's attendance, wherever the clock was when a log was made or synced.
PurgeKeepsToday ==
  [][clock' = clock /\ job' = job /\ Len(attendance') < Len(attendance)
       => TodayAttendance(attendance') = TodayAttendance(attendance)]_arrayVars
===============================================================================
