-------------------------- MODULE SyncRefinementProofs --------------------------
(***************************************************************************)
(* The database and the synchronization engine implement the attendance    *)
(* ledger, for every value of the constants.                               *)
(***************************************************************************)
EXTENDS SyncServiceProofs

LedgerStep == [Ledger!LedgerNext]_Ledger!ledgerVars

\* The cases of the mapping do not overlap and cover every record.
LEMMA StatusMeaning ==
  ASSUME TypeOK, NEW id \in Id
  PROVE  /\ StatusOf(id) = "pending" <=> id \in Logged("PENDING")
         /\ StatusOf(id) = "synced" <=> id \in Logged("SYNCED")
         /\ StatusOf(id) = "unrecorded" <=> id > created
         /\ id \in Recorded \ DOMAIN logs =>
              StatusOf(id) = IF id \in wiped THEN "wiped" ELSE "purged"
<1>1. CASE id \in Logged("PENDING")
  BY <1>1, MaxLogsAssumption DEF StatusOf, TypeOK, Logged, Recorded, Id
<1>2. CASE id \in Logged("SYNCED")
  BY <1>2, MaxLogsAssumption DEF StatusOf, TypeOK, Logged, Recorded, Id
<1>3. CASE id \notin DOMAIN logs
  BY <1>3, MaxLogsAssumption DEF StatusOf, TypeOK, Logged, Recorded, Id
<1> QED
  BY <1>1, <1>2, <1>3 DEF TypeOK, Logged

LEMMA RecordedBelow ==
  ASSUME TypeOK, NEW id \in Id
  PROVE  id \in DOMAIN logs \cup wiped => ~ (id > created)
  BY MaxLogsAssumption DEF TypeOK, Recorded, Id

LEMMA InitRefines == Init => Ledger!LedgerInit
<1> SUFFICES ASSUME Init
             PROVE  Ledger!LedgerInit
  OBVIOUS
<1>1. ASSUME NEW id \in Id
      PROVE  StatusOf(id) = "unrecorded"
  BY <1>1, StatusMeaning, InitStore, MaxLogsAssumption
  DEF StoreInv, Init, DbInit, Id
<1> QED
  BY <1>1 DEF Ledger!LedgerInit, Ledger!Id, Init, Id

\* A step that changes no log, no record and no delivery is a stutter.
LEMMA Stutter ==
  ASSUME UNCHANGED <<logs, created, wiped, cloud>>
  PROVE  LedgerStep
<1>1. \A id \in Id : StatusOf(id)' = StatusOf(id)
  BY DEF StatusOf, Logged
<1> QED
  BY <1>1 DEF LedgerStep, Ledger!ledgerVars

LEMMA RecordRefines ==
  ASSUME TypeOK, LogAttendance, UNCHANGED cloud
  PROVE  LedgerStep
<1> DEFINE new == created + 1
<1>1. new \in Id /\ new > created /\ created' = new
  BY MaxLogsAssumption DEF LogAttendance, TypeOK, Id
<1>2. StatusOf(new) = "unrecorded"
  BY <1>1, StatusMeaning
<1>3. ASSUME NEW id \in Id
      PROVE  StatusOf(id)' = IF id = new THEN "pending" ELSE StatusOf(id)
  BY <1>1, <1>3, MaxLogsAssumption
  DEF StatusOf, Logged, LogAttendance, Put, TypeOK, Recorded, Id
<1>4. Ledger!Record(new)
  BY <1>1, <1>2, <1>3 DEF Ledger!Record, Ledger!Become, Ledger!Id, Id
<1> QED
  BY <1>1, <1>4 DEF LedgerStep, Ledger!LedgerNext, Ledger!Id, Id

LEMMA DeliveryRefines ==
  ASSUME StoreInv, NEW r \in Runs, CloudAccepts(r)
  PROVE  LedgerStep
<1> DEFINE ids == run[r].sent
<1>1. ids \subseteq Recorded /\ Recorded \subseteq Id
  BY MaxLogsAssumption
  DEF StoreInv, RunsSound, RunSound, TypeOK, Recorded, Id
<1>2. ids \cap Ledger!With("unrecorded") = {}
  BY <1>1, StatusMeaning, MaxLogsAssumption
  DEF Ledger!With, Ledger!Id, StoreInv, TypeOK, Recorded, Id
<1>3. \A id \in Id : StatusOf(id)' = StatusOf(id)
  BY DEF StatusOf, Logged, CloudAccepts, dbVars
<1>4. Ledger!Deliver(ids)
  BY <1>2, <1>3 DEF Ledger!Deliver, CloudAccepts
<1>5. ids \in SUBSET Ledger!Id
  BY <1>1 DEF Ledger!Id, Id
<1> QED
  BY <1>4, <1>5 DEF LedgerStep, Ledger!LedgerNext

LEMMA AcknowledgeRefines ==
  ASSUME StoreInv, NEW r \in Runs, UploadSucceeds(r)
  PROVE  LedgerStep
<1> DEFINE ids == run[r].batch \cap Logged("PENDING")
<1>1. ids \subseteq Id
  BY MaxLogsAssumption DEF StoreInv, TypeOK, Logged, Recorded, Id
<1>2. ids \subseteq cloud
  BY DEF UploadSucceeds, StoreInv, RunsSound, RunSound, Logged, At
<1>3. \A id \in ids : StatusOf(id) = "pending"
  BY <1>1, StatusMeaning DEF StoreInv
<1>4. ASSUME NEW id \in Id
      PROVE  StatusOf(id)' = IF id \in ids THEN "synced" ELSE StatusOf(id)
  <2>1. /\ DOMAIN logs' = DOMAIN logs /\ wiped' = wiped /\ created' = created
        /\ id \in DOMAIN logs => logs'[id] = IF id \in ids THEN "SYNCED" ELSE logs[id]
    BY DEF UploadSucceeds, MarkSynced, StoreInv, TypeOK, Logged
  <2>2. CASE id \in ids
    BY <2>1, <2>2, RecordedBelow DEF StatusOf, Logged, StoreInv
  <2>3. CASE id \notin ids
    <3>1. (id \in Logged("PENDING"))' <=> id \in Logged("PENDING")
      BY <2>1, <2>3 DEF Logged
    <3>2. (id \in Logged("SYNCED"))' <=> id \in Logged("SYNCED")
      BY <2>1, <2>3 DEF Logged
    <3> QED
      BY <2>1, <3>1, <3>2, RecordedBelow DEF StatusOf, Logged, StoreInv
  <2> QED
    BY <2>2, <2>3
<1>5. Ledger!Acknowledge(ids)
  BY <1>1, <1>2, <1>3, <1>4
  DEF Ledger!Acknowledge, Ledger!With, Ledger!Become, Ledger!Id, Id,
      UploadSucceeds
<1>6. ids \in SUBSET Ledger!Id
  BY <1>1 DEF Ledger!Id, Id
<1> QED
  BY <1>5, <1>6 DEF LedgerStep, Ledger!LedgerNext

LEMMA PurgeRefines ==
  ASSUME StoreInv, PurgeOldSyncedLogs, UNCHANGED cloud
  PROVE  LedgerStep
<1>1. PICK old \in SUBSET DOMAIN logs :
        logs' = Restrict(logs, DOMAIN logs \ Purgeable(old))
  BY DEF PurgeOldSyncedLogs
<1> DEFINE ids == Purgeable(old)
<1>2. ids \subseteq Logged("SYNCED") /\ ids \subseteq Id
  BY MaxLogsAssumption DEF Purgeable, Logged, StoreInv, TypeOK, Recorded, Id
<1>3. \A id \in ids : StatusOf(id) = "synced"
  BY <1>2, StatusMeaning DEF StoreInv
<1>4. ASSUME NEW id \in Id
      PROVE  StatusOf(id)' = IF id \in ids THEN "purged" ELSE StatusOf(id)
  <2>1. /\ DOMAIN logs' = DOMAIN logs \ ids
        /\ \A x \in DOMAIN logs' : logs'[x] = logs[x]
        /\ wiped' = wiped /\ created' = created
    BY <1>1 DEF Restrict, PurgeOldSyncedLogs
  <2>2. CASE id \in ids
    BY <1>2, <2>1, <2>2
    DEF StatusOf, Logged, StoreInv, StoreSound, WipedIsGone, TypeOK, Recorded
  <2>3. CASE id \notin ids
    BY <2>1, <2>3 DEF StatusOf, Logged
  <2> QED
    BY <2>2, <2>3
<1>5. Ledger!Purge(ids)
  BY <1>2, <1>3, <1>4
  DEF Ledger!Purge, Ledger!With, Ledger!Become, Ledger!Id, Id
<1>6. ids \in SUBSET Ledger!Id
  BY <1>2 DEF Ledger!Id, Id
<1> QED
  BY <1>5, <1>6 DEF LedgerStep, Ledger!LedgerNext

LEMMA ResetRefines ==
  ASSUME StoreInv, ClearAllData, UNCHANGED cloud
  PROVE  LedgerStep
<1>1. DOMAIN logs \subseteq Id
  BY MaxLogsAssumption DEF StoreInv, TypeOK, Recorded, Id
<1>2. \A id \in Id : id \in DOMAIN logs <=> StatusOf(id) \in {"pending", "synced"}
  BY StatusMeaning DEF StoreInv, TypeOK, Logged
<1>3. ASSUME NEW id \in Id
      PROVE  StatusOf(id)' = IF id \in DOMAIN logs THEN "wiped" ELSE StatusOf(id)
  <2>1. /\ DOMAIN logs' = {} /\ wiped' = wiped \cup DOMAIN logs
        /\ created' = created
    BY DEF ClearAllData, Empty
  <2>2. StatusOf(id)' = IF id \in wiped' THEN "wiped"
                        ELSE IF id > created THEN "unrecorded" ELSE "purged"
    BY <2>1, RecordedBelow DEF StatusOf, Logged, StoreInv
  <2>3. CASE id \in DOMAIN logs
    BY <2>1, <2>2, <2>3
  <2>4. CASE id \notin DOMAIN logs
    BY <2>1, <2>2, <2>4 DEF StatusOf, Logged
  <2> QED
    BY <2>3, <2>4
<1>4. Ledger!FactoryReset
  BY <1>2, <1>3
  DEF Ledger!FactoryReset, Ledger!With, Ledger!Become, Ledger!Id, Id
<1> QED
  BY <1>4 DEF LedgerStep, Ledger!LedgerNext

LEMMA NextRefines == StoreInv /\ [Next]_vars => LedgerStep
<1> SUFFICES ASSUME StoreInv, [Next]_vars
             PROVE  LedgerStep
  OBVIOUS
<1>1. CASE DatabaseCall
  <2>1. TypeOK /\ UNCHANGED cloud
    BY <1>1 DEF StoreInv, DatabaseCall, syncVars
  <2> QED
    BY <1>1, <2>1, RecordRefines, PurgeRefines, ResetRefines, Stutter
    DEF DatabaseCall, EnqueueLog, ClearQueue
<1>2. ASSUME NEW r \in Runs, SyncStep(r)
      PROVE  LedgerStep
  BY <1>2, DeliveryRefines, AcknowledgeRefines, Stutter
  DEF SyncStep, CheckNetwork, CheckFails, Offline, ReadQueue, StartUpload,
      Complete, DequeueSynced, UploadFails, CountFailure, DequeueThrows,
      CountThrows, dbVars
<1>3. ASSUME NEW r \in Runs, ForceStep(r) \/ ForceSync(r)
      PROVE  LedgerStep
  BY <1>3, Stutter
  DEF ForceStep, ForceSync, ForceOne, ForcedSync, ForceThrows, dbVars
<1>4. CASE AppStep \/ SecondWriteThrows \/ UNCHANGED vars
  BY <1>4, Stutter DEF AppStep, Launch, StartAutoSync, StopAutoSync, NetworkEvent,
     Crash, SecondWriteThrows, vars, syncVars, dbVars
<1> QED
  BY <1>1, <1>2, <1>3, <1>4 DEF Next, Proceed

\* Every behaviour of the engine over the local store, with its crashes,
\* failing writes, lost answers and retries, is a behaviour of the ledger.
THEOREM RefinesLedger == Spec => ImplementsLedger
<1>1. Init => Ledger!LedgerInit
  BY InitRefines
<1>2. StoreInv /\ [Next]_vars => [Ledger!LedgerNext]_Ledger!ledgerVars
  BY NextRefines DEF LedgerStep
<1> QED
  BY <1>1, <1>2, StoreInvariant, PTL
  DEF Spec, ImplementsLedger, Ledger!LedgerSpec
===============================================================================
