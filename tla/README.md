# FieldGuard AI: verification of the offline attendance store and its synchronization

FieldGuard AI is a React Native app that records worker attendance without a
network and uploads it when one appears.  This directory holds TLA+ models of
the code that must not lose or misreport a record, the TLC configurations that
check them on small instances, and proofs, checked by TLAPS, that hold for
every instance.  Paths below are relative to the repository.

## 1. Inventory

| Component | State | Operations | Talks to |
|---|---|---|---|
| `src/services/StorageService.ts` | MMKV keys, each a JSON text | get/set JSON, append, update, remove in an array, delete | everything below |
| `src/services/DatabaseService.ts` | `db_workers`, `db_attendance_logs`, `db_sync_queue` | enroll, deactivate, `logAttendance`, `markRecordsSynced`, `incrementRetryCount`, `purgeOldSyncedLogs`, `clearAllData`, statistics | StorageService |
| `src/services/SyncService.ts` | `isSyncing`, `unsubscribe` (memory only) | `startAutoSync`, `stopAutoSync`, `isOnline`, `sync`, `forceSync` | DatabaseService, NetInfo callbacks, cloud |
| `src/services/AuthService.ts` | `auth_session`, `auth_supervisor_pins` | `authenticate`, `getSession` (deletes an expired session), `logout` | StorageService; no caller |
| `src/App.tsx` | none | starts and stops the listener on mount and unmount | SyncService |
| `src/screens/SyncStatusScreen.tsx` | `isSyncing`, counters, per mounted instance | manual sync: network check, `forceSync`, report | SyncService, DatabaseService |
| `src/screens/HomeScreen.tsx` | statistics read on focus | badge "Sync Pending" / "All Synced" | DatabaseService |
| `src/screens/AttendanceScreen.tsx` | scan lock, result, timer | scan, log, delayed alert, go back | DatabaseService |
| `src/screens/EnrollmentScreen.tsx` | wizard step, fields, lock | PIN, details, capture | DatabaseService |
| `src/hooks/useFaceRecognition.ts` | one latch | detection callback | screens |
| `src/services/AIPipelineService.ts`, `LocationService.ts` | none | stubs, one OS request | - |
| `infrastructure/aws-cdk-stack.ts`, `AdminDashboard/` | none | resource declaration, static page | - |
| `android/`, `ios/` | - | generated shells and vendored code | - |

Behaviours that are hard, and what makes each component correct:

* **Database.**  Logs and queue are two keys.  Three operations write both,
  one after the other, and the process may die between the writes, or the
  second write throws.  Correct means: nothing recorded disappears before it
  was delivered; the two keys agree whenever a handler can look at them.
* **Synchronization engine.**  One JavaScript thread, but `sync()` and
  `forceSync()` give it up at every `await`.  While an upload is on its way
  records are logged, purged or wiped, other calls of `sync()` arrive, the
  network changes, the answer is lost, a write throws into one of two nested
  catches, the process dies.  The queue is read once and worked on for the whole
  run.  Correct means: one run at a time, no record uploaded twice in one run,
  after its acknowledgement or beyond its retry limit, SYNCED only what the
  cloud has, only delivered records leave the queue, a run always ends, and
  repeated runs drain the queue.
* **Arrays.**  Every call rewrites a whole JSON array.  Correct means: order and
  uniqueness survive every filter and map, the slices of the sync loop cover
  the list once, and the two cuts through the timestamps (midnight, 30 days)
  and the maximum that is shown as the last sync agree with what happened.
* **Screens.**  State captured before an `await` or a timer is used after it,
  in an instance that may be gone; an alert that comes late pops what is on
  top; a count is asked for on focus, read later and shown later still.
  Correct means: what the Sync Status screen reports is in the cloud and
  reported once, its button comes back and works in the end, a count catches
  up with the queue and then claims nothing too much that its screen could
  know, one visit of the wizard enrolls one worker; and whatever the screens
  and their late handlers do, the engine is used as it is meant to be.
* **Roster.**  A scan looks at the roster twice, with awaits between, and
  copies the name of a worker who may be deactivated or deleted in between or
  later.  Correct means: the copy is that worker's name and stays it, or is
  "Unknown" for a reason.
* **Authentication.**  Expiry against a device clock that can be changed.
  Correct means: what ended stays ended.

`PROJECT.json` lists each of these hazards at its line with the properties
that cover it.

## 2. Modules

| Module | What it is |
|---|---|
| `AttendanceLedger` | the abstract specification: what the offline store promises, without queue, batches, retries or process |
| `DatabaseService` | the two arrays and their operations |
| `SyncService` | the engine over the database; `Spec` |
| `SyncProperties` | invariants, action and liveness properties, fairness, the claims of the documents, the refinement mapping |
| `SyncServiceProofs` | types, delivery, loss and mutual exclusion: safety theorems of `Spec` |
| `SyncRunProofs` | what a run does to its snapshot and to the queue: more safety theorems of `Spec` |
| `SyncRefinementProofs` | `Spec` implements the ledger |
| `Batches` | the slices of the sync loop as sets, shared by the engine and the arrays |
| `DatabaseArrays`, `ArraysProperties` | the database one level down: sequences of records with times; the mapping to `DatabaseService` |
| `ArraysProofs` | order, slices, statistics and purge of the arrays, and that they implement the store |
| `OrderLemmas` | least, greatest and n-th members of sets of numbers, for the proofs |
| `SyncScreens` | Splash, Home, Attendance and Sync Status composed with the engine |
| `ScreenProofs` | the composition implements the engine; what the user reads is true |
| `WorkerRoster`, `RosterProofs` | roster, enrollment wizard, names in logs, delayed alerts |
| `AuthService`, `AuthProofs` | supervisor sessions |
| `MCSync`, `MCScreens`, `MCArrays`, `MCRoster`, `MCAuth` | instances for TLC; the `MC*.cfg` files give the constants |

`DatabaseArrays` implements `DatabaseService`, which with `SyncService`
implements `AttendanceLedger`; `SyncScreens` runs `SyncService` under the
screens and is shown to implement its `Spec`.  `WorkerRoster` and `AuthService`
stand beside these levels and share no variable with them.

**State.**  `logs` and `queue` are the two MMKV arrays.  A record is named by
the order of its creation, which stands for the unique `LOG-...` id, so an
array is a function from the names it holds and array order is the order of
the numbers.  Of a log only `sync_status` is kept, of a queue item only
`retry_count`.  `isSyncing` and `subscribed` are the engine's two fields.
`run` holds the local variables of every activation of `sync()` and
`forceSync()`; its `pc` names the `await` at which the activation is:
`check`/`online`/`offline` (the network check), `next` (head of the loop over
batches), `upload`, `fail` (loop over the retry counts), `force` (loop of
`forceSync`), and `mark`, the point between the two writes of
`markRecordsSynced`.  `cloud` is what the service has accepted.  `created`,
`wiped` and `faults` are counters and history.

**Steps.**  A step is the code from one `await` to the next, or from one
durable write to the next inside a synchronous stretch.  Every `await` is a
point where any other handler may run (`JsFree`).  The three synchronous
stretches with two writes (`logAttendance`, `markRecordsSynced`,
`clearAllData`) are two steps each, and nothing but a fault may come between:
`job` and `pc = "mark"` say that such a stretch is half done.  A single MMKV
write is atomic and survives process death (`StorageService.ts:4-6`).

**Faults.**  A fault is a process death (`Crash`, anywhere) or a write of the
store that throws; `faults` counts them, up to `MaxFaults`.  What a throw does
is what the code around it does:

| Write that throws | What follows | Action |
|---|---|---|
| the second of `logAttendance` or `clearAllData` | the call rejects, half done | `SecondWriteThrows`, `EnqueueThrows` |
| the first of `markRecordsSynced` | the inner catch, as for a failed upload | `UploadFails` (no fault is counted) |
| the second of `markRecordsSynced` | the inner catch, with logs that are SYNCED | `DequeueThrows` |
| a retry count, inside the inner catch | the outer catch and the finally | `CountThrows` |
| a retry count in `forceSync` | `forceSync` rejects, and with it the handler that waits | `ForceThrows`, `VisitForceThrows` |
| a write of a scan, or a read | the handler rejects, the scan stays locked | `ScanThrows`, `EnqueueThrows` |
| a read of `getStats` | Home catches it; in the Sync Status screen `loadData` rejects, and with it the handler that waits; the screen shows what it did before | `StatsFail` (no fault is counted) |
| the write of an enrollment | the catch gives the button back | `CaptureFails` |

A write that throws where the code has changed nothing yet and nothing waits
for it (the first write of `logAttendance` in the engine's model, a purge) is a
step that changes nothing.

**Environment.**  `CloudAccepts` and the answer are separate: `UploadFails` is
possible before and after the service took the batch, so a lost answer is a
behaviour.  In this version `uploadBatch` simulates the call; the model
follows its commented-out request and treats the service as external.  The
network may change and NetInfo may report at any time, also the same state
again.  The order of creation of two records is the order of their ids, the
names are unique.  `purgeOldSyncedLogs` compares timestamps: the model lets any set of logs be the old ones.

**Screens.**  `SyncScreens` extends the engine: `top` is the screen on top of
Home, and `visit[v]` one mounted instance of the Sync Status screen with its
handler, which goes on after the screen is left, so two visits may overlap.  A
visit waits for its activation of `forceSync` (`awaits`) and gets the totals, as
sets of records, when that activation returns; it then reports and loads the
statistics once more before it gives the button back.  A handler that throws is
`dead`, and its instance keeps `isSyncing`.  `EngineStep` is a step of the engine
plus `Awaken`, the delivery of the totals.

The pending count of Home and of the Sync Status screen is `stats[s]`, for the
screens in `Followed`.  A screen comes to the front with the count it showed
last (Home) or 0 (a new instance), and begins to load (`Load`); the call reads
the queue some time later (`StatsRead`), or rejects (`StatsFail`), and what it
read is shown some time after that (`StatsShown`).  The calls of one screen take
the same awaits, so they land in the order they were made.  A count is kept as
the set of the records that were counted.  A scan is pressed (`PressScan`),
reaches its first write later (`ScanLogs`), whether its screen is still there or
not, or never (`ScanThrows`); `scans` counts those under way.  `missed` is history:
what was enqueued by a scan after the screen on top got the focus, or waited
when its last load was lost.  A scan is the only source of records here, and
nothing purges or clears, as in the program.

**Arrays.**  `attendance` and `syncQueue` are sequences; a record keeps
`log_id`, `timestamp`, `sync_status`, `synced_at` or `retry_count`.  `clock` is
`Date.now()` in ticks, `DAY` and `KEEP` are a day and the 30 days in ticks.
`LogsOf`, `QueueOf`, `JobOf` map to the variables of `DatabaseService`, and
`StoreNext` names for every write the operator that `SyncService` uses for it.
`Filter` is `array.filter`, stated by what it keeps and in which order
(`InOrder`), and not by recursion, so that it can be reasoned about; `MCArrays`
has TLC compare it with `SelectSeq` on every array of up to four items.

**Roster.**  `workers` maps ids to name and activity; a typed text is a text and
whether blanks stand around it, which is all that `!name` and `trim()` look at.
`CaptureFails` is the catch of the wizard.  `scan[s]` is one press of the scan
button: `PressScan` locks the button and reads the active workers; `ScanMatches`
chooses among those and, in `logAttendance`, looks the name up among the workers
active then; `ScanLogs` writes.  Deactivation, `clearAllData`, Back and other scans
may come between any two of them.  `left` is history: the workers that left the
roster while a scan was between its two looks.  An alert is `due`, then `shown`; only a shown alert keeps the user from the
screen, and its OK pops whatever screen is on top.  **Sessions.**  One stored
session, numbered so that two of the same tick differ; the clock moves at will.

**Public operations without a caller.**  In this version no screen calls
`purgeOldSyncedLogs` or `clearAllData`.  They are part of the database's
interface and the model allows them at any time, which makes the safety
results stronger.

## 3. Properties and runs

| Run | Instance | What it shows |
|---|---|---|
| `sync` | 3 records, batches of 2, 2 retries, 1 fault, 2 activations; 1.2 million states | `TypeOK`; `SyncedReachedCloud`; `NothingLost`; `DequeuedOnlyWhenDelivered`; `SingleSyncRun`; `AttemptedOnce`; `NoDeadUpload`; `QueueMirrorsPending`: the queue holds exactly the PENDING logs whenever a handler may run, and afterwards no more logs drop out of it than faults occurred; `NothingSentTwice`: without a fault no acknowledged record is sent again; `ImplementsLedger` |
| `sync_live` | 2 records, batches of 1, 1 activation, 1 fault | `SyncReleases`: `sync()` always ends, also through a throw inside its catch; `QueueDrains`: with a lasting network and repeated calls every record is delivered or reaches the limit.  Overlapping calls and a last batch that is shorter are in `sync` and `arrays` |
| `screens_safe` | 1 record, 2 activations, 2 visits, 1 fault, 2 overlapping loads of Home; 1.3 million states | `ReportedReachedCloud`: what a visit reports as synced is in the cloud; `ReportedOnce`: two overlapping visits never report the same record; `CountCatchesUp` for Home: once its loads have landed, its count leaves out no waiting record but those in `missed`; `ImplementsEngine`: every step of a screen is a step of the engine or leaves it alone |
| `screens_live` | 1 record, 2 activations, 1 visit, 1 fault | `CountCatchesUp` for the Sync Status screen; `ButtonComesBack`: the manual sync ends on every path that does not throw, the load at its end included; `PressingDelivers`: pressing again and again over a lasting network delivers every record or brings it to the limit, although presses are turned away by a run in progress and handlers die |
| `arrays` | 3 records, batches of 2, 3 ticks, days of 2 | `InCreationOrder`; `SlicesAreBatches`; `ImplementsStore`; `LastSyncShown`: while the clock runs forward, the last sync shown is the last sync; `PurgeKeepsToday`, with any clock |
| `roster` | 2 workers, 2 names, 2 visits, 2 scans under way, 1 process death, writes that throw at any time; 7 million states | `LogsNameTheirWorker`: a log has its worker's own name, or "Unknown" for a blank name or a worker that left the roster during a scan; `OneWorkerPerVisit`, also when a capture fails and is repeated |
| `auth_sessions` | 2 supervisors, 2 sessions, 4 ticks | `EndedStaysEnded` |
| `force_sync` | violation | `forceSync` says it resets the retry counts and ignores the limit; it increments them, and `sync()` filters the same records out again |
| `orphan_log` | violation | when the second write of `logAttendance` throws (a process death before it does the same), the log that the first one stored will never be uploaded, while the dashboard, whenever it reads the queue, reads "All Synced" |
| `stale_badge` | violation | with Home in view, the badge keeps reading "Sync Pending" after the listener has delivered everything |
| `no_backoff` | violation | the architecture's "Retry with Backoff": after a failure nothing schedules another attempt |
| `no_purge` | violation | the purge after a successful upload that SECURITY.md promises: nothing calls it |

Each passing run also checks the type invariant of its module.

**Bounds.**  Three records with batches of two give a full and a partial
batch, and a record that is logged while the others are on their way.  Two
retries separate "failed once" from "at the limit" (the code has 5 and 50).
`Spec` itself has no bound on a retry count; `BoundedSpec` of `MCSync` makes no
call of `forceSync`, and that of `MCScreens` no press of the button, once a
count has reached `MaxRetryCount`, which is above the limit: more calls only
raise the count further, and every comparison is with the limit.  Two activations are enough for a call that
arrives during a run and for two `forceSync` at once; a listener that finds a
run in progress needs no activation.  One fault reaches every half-done state
once, followed by every continuation; the proofs cover any number.
Activations, and visits, are symmetric in the safety runs; the liveness runs
use no symmetry.  Two visits and two activations are the least with an overlap;
a third forced sync meets nothing new, since all but one run of `sync()` are
turned away.  With the loads and scans under way the runs of the screens have
one record; batches and partial totals are the engine's, which `sync` checks with
three, `ImplementsEngine` carries over, and the theorems cover for any number.
Each of them follows the count of one screen (`Followed`): the two counts share
nothing but the queue.  Two loads of Home that overlap (`MaxLoads`) are the least
that could overtake each other or hide each other's loss; a third focus comes
once one of them has landed.  In `arrays`, three records give a full and a partial slice and
every gap a filter can leave; days of two ticks and three ticks of clock put
logs before and after midnight and the purge limit.  Two workers, two
names, two visits and two scans under way are the least that could be confused
with each other; names and scans are symmetric.  The model has no state in which the system must stop, so deadlock
is checked everywhere.

**Fairness** (`FairSpec`).  The event loop runs a settled continuation
eventually although other handlers keep coming, which is strong fairness of
each activation's own steps, since a step may be disabled again and again
while another handler is between two writes; the upload's timer fires;
`NetInfo.fetch` is answered and does not reject for ever; a synchronous
stretch is not left half-way.  Nothing is assumed of the user, the network,
the launch, or process death.  That is why `QueueDrains` has its premises (a
lasting network, calls of `sync()` again and again) and why `no_backoff` fails:
the code provides neither.  `ScreenFairness` is that fairness of the engine and the
same for the handlers of the screens, whose continuations wait for a network
check, an activation or its last load, and for the calls of `getStats`, which go on
to read and to return and do not reject for ever; presses, navigation and scans are not fair,
and `PressingDelivers` has the presses as its premise.

## 4. Proofs

The theorems about the engine hold for any number of records, activations,
faults and retries and any batch size, and about `Spec`, where retry counts are
unbounded; the assumptions are `MaxLogsAssumption`, `BatchAssumption` and
`SyncAssumption` (the bounds are naturals, the two limits positive).  Those of
the other modules are named below.

**The store** (`SyncServiceProofs`).  `SyncedReachedCloud` and `NothingLost` are
not inductive: that the write-back of a batch marks only delivered logs depends
on what happened since the upload began.  `StoreInv` adds

* `RunSound`: what an activation works on was recorded; during an upload a log
  of the batch that is still stored was stored when the upload began, so it
  was sent (ids are never used again); between the two writes of
  `markRecordsSynced` the whole batch is in the cloud or wiped;
* `HalfDone`: a half-done `logAttendance` is of a record that exists, a
  half-done `clearAllData` has left no log;
* `WipedIsGone`: a wiped record never comes back.

`InitStore` and `StepStore` show it inductive, with a lemma per group of
actions; `FinishStep`, `StartRunStep` and `StoreFrame` take the part that many
actions share.  `TypeCorrect`, `SyncedLogsDelivered`, `NoRecordLost` follow,
and `DequeueIsSafe` reads the action property off the same invariant.
`OneRunAtATime` needs only the types: `GuardStep` follows the set of
activations inside `sync()`.

**The ledger** (`SyncRefinementProofs`).  `RefinesLedger` maps `LogAttendance` to
`Record`, `CloudAccepts` to `Deliver`, the first write of `markRecordsSynced` to
`Acknowledge`, the purge to `Purge`, `clearAllData` to `FactoryReset`, and every
other step, faults among them, to a stutter.

**The runs** (`SyncRunProofs`), over the invariants above.

* `EachAttemptedOnce`: `Attempts` says at which `pc` an activation's sets are
  empty.  That the failed batch is empty exactly when its loop ends needs a
  least record of every batch (`MinExists`), and that an upload has something
  to upload needs a first batch that is not empty (`BatchNotEmpty`).
* `LimitRespected`: during the uploads of one run only `forceSync` can raise a
  count, and `Limits` says that it has in hand only what is at the limit, which
  no snapshot holds; it needs `OneRunAtATime`, for a second run could count a
  failure of a record of the first one's snapshot.
* `QueueMirrors` and `SentOnce`: `MirrorInv` ties the two keys at every point of
  a half-done call, not only when a handler may run.  `LossesCounted` compares
  the logs that dropped out of the queue with the faults: only a process death
  or a throw between the two writes of `logAttendance` makes one.
  `SnapshotPending` says that without a fault no log of a snapshot turns SYNCED
  before its own upload.

**The screens** (`ScreenProofs`).  `ScreensUseEngine` shows every step of the
composition to be a step of the engine or a stutter, so every theorem above
holds under the screens, and the other proofs use them there.  For
`CountsCatchUp`, `ScreenInv` holds that the newest count on its way to the screen
on top (`Newest`: the last one read, or the one shown when none is) leaves out
nothing but `missed`, or that a call is still to read (`CountComes`).  It is
inductive because calls land in their order, because the queue shrinks in every
other step, and because a scan that enqueues under a counted screen is one the
user had left.  `StatsFail` is the delicate case: a lost call matters only when
no later one follows.  `NoDoubleReport` needs `ReportInv`: what was counted as synced has left
the queue and the hands of every run for good, so that no later snapshot can
hold it, and no two visits wait for one activation.  `EngineEffect` says once
what a step of one activation can do to the queue and to the others.

**Roster and sessions.**  `LogsKeepNames` needs that ids are never used again
(`IdsInOrder`) and that roster and enrollment agree (`NamesAgree`), because a log
takes its name from a roster that can be deleted from under it.  A scan is
followed between its two looks: whom it has read was enrolled, and is active
still or in `left`; what it has looked up is already a name its log may have.
`OneEnrollment` needs `VisitsInOrder`: while the wizard is open and its button
is not locked, no worker was enrolled in this visit.  `EndedSessionsStayEnded`
needs `SessionFresh`: the stored session is the last one issued and not among
those that ended.  Their assumptions are `RosterAssumption` and `AuthAssumption`.

**The arrays** (`ArraysProofs`), for any number of records, batch size, retry
limit, length of a day, retention of a day and more, and clock
(`ArraysAssumption`, `BatchAssumption`).  What a filter returns is a statement
about every length, which would call for an induction.  Two facts stand in for
it: the naturals are well founded, so a set of numbers has a least member, and an
injection between finite sets of one size is onto.  From the first,
`RankReached` (`OrderLemmas`) finds in a set of n places one of each rank; from
both, `InOrderIsEnumeration` shows that `InOrder` lists every place once, and
`FilterKeeps`, `FilterIsSorted` and `FilterItems` say what a filter keeps.
`SortedSame` is the converse: what an array in order holds determines it.

* `ArraysTypeCorrect` and `CreationOrderKept`: `ArraysInv` adds `NextInQueue`, that
  the name which a half-done `logAttendance` is about to append comes after
  every name in the queue.  That an array has no more items than there are
  names is not a bound of the model but follows from the order
  (`SortedIsShort`).
* `SlicesAreTheBatches`: before the j-th item of a list cut off after the i-th
  there are j - i - 1 names (`NamesBefore`, a bijection), so the slice holds
  just the names that `FirstBatch` counts off.
* `ArraysImplementStore`: an array in order is a function of its names
  (`StatusAt`, `CountAt`), and two functions that agree at every item are one
  (`StatusIs`, `CountIs`).  With these each write is a step of the store: the
  purge removes the SYNCED logs among the late ones, which is one of the sets
  `DatabaseService` allows; a step of the clock changes nothing there.
* `LastSyncIsShown`: `MarkInv` says that no log was synced after the last mark
  and that the logs of the last mark still carry its time, as long as the clock
  was not set back; then its time is the greatest in the array.
* `PurgeSparesToday`: what is past the retention is older than today's midnight
  (`TodayIsRecent`), so the filter for today finds the same logs before and
  after a purge, and in order they are the same array.

**What the refuted claims leave true.**  `AllSyncedIsDelivered` is violated by a
write that throws; `AllSyncedWithoutFaults` shows that it takes a fault.
`BadgeWithoutFaults` says what the badge on Home is worth to its reader without
one: once the loads have landed, "All Synced" means that the cloud has every log,
but for the records of a scan that was left before it wrote and for a `getStats`
that rejected.
`ForceIgnoresLimit` is violated because counts are not reset;
`CountsNeverFall` shows that no step ever lowers one, so that with
`LimitRespected` a record at the limit is never uploaded again for any number of
forced syncs.  `ScreensKeepLedger` joins the levels: the screens over the engine
over the store keep the promise of `AttendanceLedger`.

**Model-checked only**: all liveness (`SyncReleases`, `QueueDrains`,
`ButtonComesBack`, `PressingDelivers`), which is out of TLAPS's reach.  Every
invariant, action property and refinement that a passing run checks is also a
theorem.

## 5. What the code gets wrong

The five violation runs are disagreements between the code and its own
comments and documents; `PROJECT.json` quotes the lines.  The first two are
defects of the program: a record that failed five times can never be uploaded
again, and a write that throws, or a crash, between the two writes of
`logAttendance` hides a record from the engine for good.  `NothingLost` still holds in both cases: the record stays on the device.

Also visible in the models, and promised otherwise by no document: Home and
the Sync Status screen come to the front with a count of 0, or the one of the
last focus, so "All Synced" may stand over waiting records until `getStats`
returns, and longer when it rejects (`HomeScreen.tsx:14-37`,
`SyncStatusScreen.tsx:10`, `19-30`); a scan whose screen is left before it wrote
adds a record that the count of the next screen does not have; a worker who is
deactivated or deleted during a scan is logged nevertheless, as "Unknown" when
that happens before the second look (`AttendanceScreen.tsx:50-58`,
`DatabaseService.ts:106`); a name of
blanks passes the wizard's check and is stored empty, so that its logs read
"Unknown" (`EnrollmentScreen.tsx:50`, `DatabaseService.ts:36`); a
`NetInfo.fetch` or a `forceSync` that rejects leaves the manual sync's button
disabled for the rest of the visit (`SyncStatusScreen.tsx:38`, `48`); when the
second write of `markRecordsSynced` throws, a delivered batch is counted as
failed, and sent again or left at the limit (`SyncService.ts:107-117`); the alert of a scan pops a wizard
that was opened meanwhile (`AttendanceScreen.tsx:69`); after the clock is set
back the last sync shown is an earlier one (`DatabaseService.ts:244`).

## 6. Not modelled

The program's own logic that keeps state is modelled.  What is left:

* **Vendored code.**  Nearly all lines of the repository are third-party sources
  (`ios/Pods`, with Boost) and generated native shells; against them the
  program, some two thousand lines of TypeScript, is a vanishing share.  They
  are not this program's logic, and the models treat what the program uses of
  them (MMKV, NetInfo, the JavaScript runtime) as environment.
* **Face-recognition hook**: one latch that only its caller resets; its frame
  processor is `undefined` in this version and no screen uses it.
* **AI pipeline**: a stub, a loading delay and a similarity that is always 0.
* **Location service**: one request to the operating system, no state, no caller.
* **Cloud service**: only what the client can see of it.  The stack declares
  resources with stub handlers; there is no server code to model.
* **Data models**: only the fields the properties tell apart.  The HMAC and the
  position of a log are payload: nothing in the app reads them again.
* **Remaining screens, admin dashboard**: placeholders, an animation, a static
  page.

Within the modelled parts, camera permission, animation, log messages and the
wording of alerts are left out.  Two behaviours are in the models and stated by
no property, for no document promises either way: a late alert that pops a
wizard (section 5), and totals that count logs which a purge or a reset removed
during the run.  The Enrollment screen is checked beside the scan in
`WorkerRoster`, not in `SyncScreens`: it shares no key with the engine.
