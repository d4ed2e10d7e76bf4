---------------------------- MODULE DatabaseService ----------------------------
(***************************************************************************)
(* The local database (DatabaseService.ts over StorageService.ts): two     *)
(* JSON arrays under two MMKV keys, the attendance logs and the sync       *)
(* queue.  Each write of a key is atomic and survives process death; an    *)
(* operation that writes two keys does so in two steps, and the process    *)
(* may die between them.                                                   *)
(*                                                                         *)
(* A record is named by the order in which it was appended, so an array is *)
(* a function from the names it holds and array order is numeric order.    *)
(***************************************************************************)
EXTENDS Naturals, Functions

CONSTANT MaxLogs        \* bound: how many attendance records are ever made

ASSUME MaxLogsAssumption == MaxLogs \in Nat

VARIABLES
  logs,                 \* db_attendance_logs: record -> sync_status
  queue,                \* db_sync_queue: record -> retry_count
  created,              \* how many records were ever made (the last name)
  wiped,                \* history: records dropped by a factory reset
  job                   \* the call that is between two of its writes

dbVars == <<logs, queue, created, wiped, job>>

Id == 1 .. MaxLogs

Empty == [id \in {} |-> 0]

Put(f, id, value) ==
  [x \in DOMAIN f \cup {id} |-> IF x = id THEN value ELSE f[x]]

Logged(st) == {id \in DOMAIN logs : logs[id] = st}

DbInit ==
  /\ logs = Empty
  /\ queue = Empty
  /\ created = 0
  /\ wiped = {}
  /\ job = "none"

-------------------------------------------------------------------------------
(* Array updates: what the code computes before it writes the key back.    *)

\* Mutant: the queue item carries a name of its own, not the log's.
QueueItemFreshId(id) == Put(queue, id + 1, 0)
QueueItem(id) == Put(queue, id, 0)

\* Mutant: every stored log is marked, not only those of the batch.
MarkAllSynced(ids) == [id \in DOMAIN logs |-> "SYNCED"]
MarkSynced(ids) ==
  [id \in DOMAIN logs |-> IF id \in ids THEN "SYNCED" ELSE logs[id]]

\* Mutant: the queue is emptied, with what was appended during the upload.
EmptyTheQueue(ids) == Empty
RemoveFromQueue(ids) == Restrict(queue, DOMAIN queue \ ids)

\* Mutant: a failed item is dropped from the queue.
DropFailed(id) == Restrict(queue, DOMAIN queue \ {id})
IncrementRetryCount(id) ==
  [x \in DOMAIN queue |-> IF x = id THEN queue[x] + 1 ELSE queue[x]]

\* Mutant: the purge looks at the age of a log and not at its status.
PurgeAllOld(old) == old
Purgeable(old) == old \cap Logged("SYNCED")

-------------------------------------------------------------------------------
(* Operations.                                                             *)

\* logAttendance, up to its first write.
LogAttendance ==
  /\ created < MaxLogs
  /\ created' = created + 1
  /\ logs' = Put(logs, created + 1, "PENDING")
  /\ job' = "logAttendance"
  /\ UNCHANGED <<queue, wiped>>

\* logAttendance, its second write.
EnqueueLog ==
  /\ job = "logAttendance"
  /\ queue' = QueueItem(created)
  /\ job' = "none"
  /\ UNCHANGED <<logs, created, wiped>>

\* purgeOldSyncedLogs; "old" is the set of logs past the 30 day limit.
PurgeOldSyncedLogs ==
  /\ \E old \in SUBSET DOMAIN logs :
       logs' = Restrict(logs, DOMAIN logs \ Purgeable(old))
  /\ UNCHANGED <<queue, created, wiped, job>>

\* clearAllData, up to the deletion of the logs.
ClearAllData ==
  /\ logs' = Empty
  /\ wiped' = wiped \cup DOMAIN logs
  /\ job' = "clearAllData"
  /\ UNCHANGED <<queue, created>>

\* clearAllData, the deletion of the queue.
ClearQueue ==
  /\ job = "clearAllData"
  /\ queue' = Empty
  /\ job' = "none"
  /\ UNCHANGED <<logs, created, wiped>>
===============================================================================
