----------------------------- MODULE DatabaseArrays -----------------------------
(***************************************************************************)
(* The same database one level down: JSON arrays of records, as            *)
(* StorageService.ts reads and writes them, with the times that the purge  *)
(* and the statistics of DatabaseService.ts go by.                         *)
(*                                                                         *)
(* DatabaseService.tla, on which the engine is built, takes an array for   *)
(* a function from names and its order for the order of names; the         *)
(* properties here say that this is what the arrays are.                   *)
(***************************************************************************)
EXTENDS Integers, SequencesExt, Batches

CONSTANTS
  MaxLogs,              \* bound: how many attendance records are ever made
  MAX_RETRIES,
  MaxRetryCount,        \* bound: a retry count that grows no more
  DAY,                  \* the ticks of the clock in a day
  KEEP,                 \* the ticks a synced log is kept (30 days)
  MaxTime               \* bound: the last tick of the clock

ASSUME ArraysAssumption ==
  /\ {MaxLogs, MAX_RETRIES, MaxRetryCount} \subseteq Nat
  /\ {DAY, KEEP, MaxTime} \subseteq Nat \ {0} /\ DAY <= KEEP

VARIABLES
  attendance,           \* db_attendance_logs
  syncQueue,            \* db_sync_queue
  clock,                \* Date.now()
  created,              \* how many records were ever made (the last log_id)
  wiped,                \* history: records dropped by a factory reset
  job,                  \* the call that is between two of its writes
  lastMark,             \* history: the last markRecordsSynced that marked a log
  setBack               \* history: the clock was set back

arrays == <<attendance, syncQueue>>
history == <<created, wiped>>
arrayVars == <<arrays, history, clock, job, lastMark, setBack>>

Id == 1 .. MaxLogs
Time == 1 .. MaxTime
null == 0               \* no time, in synced_at

Call(op, ids) == [op |-> op, ids |-> ids]
NoCall == Call("none", {})

ArraysInit ==
  /\ attendance = <<>>
  /\ syncQueue = <<>>
  /\ clock = 1
  /\ created = 0
  /\ wiped = {}
  /\ job = NoCall
  /\ lastMark = [at |-> null, ids |-> {}]
  /\ setBack = FALSE

-------------------------------------------------------------------------------
(* StorageService.                                                         *)

Names(array) == {item.log_id : item \in ToSet(array)}

\* Some places of an array, from the first to the last.
InOrder(places) ==
  CHOOSE place \in [1 .. Cardinality(places) -> places] :
    \A m, n \in DOMAIN place : m < n => place[m] < place[n]

\* array.filter: what stands at the places that pass, in the same order.
Filter(array, places) ==
  LET place == InOrder(places)
  IN  [n \in 1 .. Cardinality(places) |-> array[place[n]]]

RemoveFromArray(array, ids) ==
  Filter(array, {i \in DOMAIN array : array[i].log_id \notin ids})

-------------------------------------------------------------------------------
(* What the statistics and the sync read.                                  *)

\* Mutant: the logs are sorted the other way round.
FirstSyncAt ==
  LET times == {log.synced_at : log \in ToSet(attendance)} \ {null}
  IN  IF times = {} THEN null ELSE Min(times)

\* getStats().last_sync_at
LastSyncAt ==
  LET times == {log.synced_at : log \in ToSet(attendance)} \ {null}
  IN  IF times = {} THEN null ELSE Max(times)

\* getTodayAttendance
TodayStart == (clock \div DAY) * DAY
TodayAttendance(array) ==
  Filter(array, {i \in DOMAIN array : array[i].timestamp >= TodayStart})

RetryableArray ==
  Filter(syncQueue, {i \in DOMAIN syncQueue : syncQueue[i].retry_count < MAX_RETRIES})

\* Mutant: the end of a slice is included in it.
SliceOverlaps(array, i) ==
  SubSeq(array, i + 1, Min({i + BATCH_SIZE + 1, Len(array)}))
\* array.slice(i, i + BATCH_SIZE)
Slice(array, i) == SubSeq(array, i + 1, Min({i + BATCH_SIZE, Len(array)}))

-------------------------------------------------------------------------------
(* Operations: one action per write of a key.  A call is under way between *)
(* its two writes, where only process death or a throw can come between.   *)

Idle == job = NoCall

\* The log_id and the timestamp are read off the clock and the log appended.
LogAttendance ==
  /\ Idle
  /\ created < MaxLogs
  /\ created' = created + 1
  /\ attendance' = Append(attendance,
       [log_id |-> created + 1, timestamp |-> clock,
        sync_status |-> "PENDING", synced_at |-> null])
  /\ job' = Call("logAttendance", {created + 1})
  /\ UNCHANGED <<syncQueue, clock, wiped, lastMark, setBack>>

\* Mutant: the queue item is given a name of its own.
EnqueueOther ==
  /\ job.op = "logAttendance"
  /\ syncQueue' = Append(syncQueue, [log_id |-> created + 1, retry_count |-> 0])
  /\ job' = NoCall
  /\ UNCHANGED <<attendance, clock, history, lastMark, setBack>>

EnqueueLog ==
  /\ job.op = "logAttendance"
  /\ syncQueue' = Append(syncQueue, [log_id |-> created, retry_count |-> 0])
  /\ job' = NoCall
  /\ UNCHANGED <<attendance, clock, history, lastMark, setBack>>

\* Called with the names of a batch, read from the queue some time ago.  The
\* clock is taken to stand still while one array is mapped.
MarkRecordsSynced(ids) ==
  /\ Idle
  /\ attendance' = [i \in DOMAIN attendance |->
       IF attendance[i].log_id \in ids
       THEN [attendance[i] EXCEPT !.sync_status = "SYNCED", !.synced_at = clock]
       ELSE attendance[i]]
  /\ job' = Call("markRecordsSynced", ids)
  /\ lastMark' = IF ids \cap Names(attendance) = {} THEN lastMark
                 ELSE [at |-> clock, ids |-> ids \cap Names(attendance)]
  /\ UNCHANGED <<syncQueue, clock, history, setBack>>

\* Mutant: the queue is filtered by the position of an item, not by log_id.
RemoveByPosition ==
  /\ job.op = "markRecordsSynced"
  /\ syncQueue' = Filter(syncQueue, DOMAIN syncQueue \ job.ids)
  /\ job' = NoCall
  /\ UNCHANGED <<attendance, clock, history, lastMark, setBack>>

RemoveSynced ==
  /\ job.op = "markRecordsSynced"
  /\ syncQueue' = RemoveFromArray(syncQueue, job.ids)
  /\ job' = NoCall
  /\ UNCHANGED <<attendance, clock, history, lastMark, setBack>>

\* Mutant: a failed item goes to the end of the queue.
Requeue(id) ==
  /\ Idle
  /\ \A i \in DOMAIN syncQueue : syncQueue[i].retry_count < MaxRetryCount
  /\ syncQueue' = RemoveFromArray(syncQueue, {id}) \o
       [i \in 1 .. Cardinality({id} \cap Names(syncQueue)) |->
          [log_id |-> id, retry_count |-> 1]]
  /\ UNCHANGED <<attendance, clock, history, job, lastMark, setBack>>

\* MaxRetryCount is a bound.
IncrementRetryCount(id) ==
  /\ Idle
  /\ \A i \in DOMAIN syncQueue : syncQueue[i].retry_count < MaxRetryCount
  /\ syncQueue' = [i \in DOMAIN syncQueue |->
       IF syncQueue[i].log_id = id
       THEN [syncQueue[i] EXCEPT !.retry_count = @ + 1]
       ELSE syncQueue[i]]
  /\ UNCHANGED <<attendance, clock, history, job, lastMark, setBack>>

\* Mutant: KEEP is in hours where the clock is in milliseconds.
LimitTooShort == clock
PurgeLimit == clock - KEEP

PurgeOldSyncedLogs ==
  /\ Idle
  /\ attendance' = Filter(attendance, {i \in DOMAIN attendance :
       attendance[i].sync_status # "SYNCED" \/ attendance[i].timestamp > PurgeLimit})
  /\ UNCHANGED <<syncQueue, clock, history, job, lastMark, setBack>>

ClearAllData ==
  /\ Idle
  /\ attendance' = <<>>
  /\ wiped' = wiped \cup Names(attendance)
  /\ job' = Call("clearAllData", {})
  /\ UNCHANGED <<syncQueue, clock, created, lastMark, setBack>>

ClearQueue ==
  /\ job.op = "clearAllData"
  /\ syncQueue' = <<>>
  /\ job' = NoCall
  /\ UNCHANGED <<attendance, clock, history, lastMark, setBack>>

\* The process dies, or a write throws: the second write of the call is
\* never made.
Crash ==
  /\ ~Idle
  /\ job' = NoCall
  /\ UNCHANGED <<arrays, history, clock, lastMark, setBack>>

\* Time passes, or the clock is set; the app may be closed meanwhile.
ClockMoves ==
  /\ clock' \in Time
  /\ setBack' = (setBack \/ clock' < clock)
  /\ UNCHANGED <<arrays, history, job, lastMark>>

ArraysNext ==
  \/ LogAttendance \/ EnqueueLog
  \/ \E ids \in SUBSET (1 .. created) :
       Cardinality(ids) \in 1 .. BATCH_SIZE /\ MarkRecordsSynced(ids)
  \/ RemoveSynced
  \/ \E id \in 1 .. created : IncrementRetryCount(id)
  \/ PurgeOldSyncedLogs
  \/ ClearAllData \/ ClearQueue
  \/ Crash \/ ClockMoves

ArraysSpec == ArraysInit /\ [][ArraysNext]_arrayVars
===============================================================================
