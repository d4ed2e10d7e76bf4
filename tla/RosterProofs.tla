------------------------------ MODULE RosterProofs ------------------------------
(***************************************************************************)
(* The theorems about the names in the logs and about the visits of the    *)
(* wizard, for any number of workers, visits and crashes.                  *)
(***************************************************************************)
EXTENDS WorkerRoster, FiniteSetTheorems, TLAPS

Count == Cardinality(DOMAIN enrolled)

\* Ids are never used twice.
IdsInOrder ==
  /\ IsFiniteSet(DOMAIN enrolled) /\ Count \in Nat
  /\ DOMAIN enrolled \subseteq 1 .. Count /\ DOMAIN enrolled \subseteq WorkerId

\* The roster says of its workers what they were enrolled with.
WorkerRecords == workers \in [DOMAIN workers -> [name : Name, is_active : BOOLEAN]]
NamesAgree ==
  \A id \in DOMAIN workers :
    id \in DOMAIN enrolled /\ workers[id].name = enrolled[id].name

\* A scan has read workers that are still active or left meanwhile, and has
\* looked up what its log will say.
ScanAgrees(s) ==
  /\ scan[s].pc = "workers" =>
       \A id \in scan[s].read : id \in DOMAIN enrolled /\ (id \in Active \/ id \in left)
  /\ scan[s].pc = "name" =>
       /\ scan[s].worker \in DOMAIN enrolled
       /\ \/ scan[s].name = EnrolledName(scan[s].worker)
          \/ scan[s].name = "Unknown" /\ scan[s].worker \in left

\* What LogsNameTheirWorker needs to be inductive: a log takes its name from
\* the roster at one step of a scan, is written at a later one, and the
\* roster can be deleted from under both.
RosterInv ==
  /\ IdsInOrder
  /\ WorkerRecords
  /\ NamesAgree
  /\ scan \in [Scans -> ScanState]
  /\ \A s \in Scans : ScanAgrees(s)
  /\ LogsNameTheirWorker
  /\ wizard.name \in Typed

LEMMA Bounds == MaxWorkers \in Nat /\ MaxVisits \in Nat /\ MaxCrashes \in Nat
  BY RosterAssumption

LEMMA NoScanTyped == NoScan \in ScanState
<1>1. 0 \in 0 .. MaxWorkers /\ "" \in Name
  BY Bounds DEF Name
<1> QED BY <1>1 DEF NoScan, ScanState

LEMMA InitRoster == RosterInit => RosterInv
<1> SUFFICES ASSUME RosterInit
             PROVE  RosterInv
  OBVIOUS
<1> USE DEF RosterInit, None, NewWizard
<1>1. DOMAIN enrolled = {} /\ DOMAIN workers = {}
  OBVIOUS
<1>2. IdsInOrder
  <2>1. Count = 0
    BY <1>1, FS_EmptySet DEF Count
  <2>2. IsFiniteSet({})
    BY FS_EmptySet
  <2> QED BY <1>1, <2>1, <2>2 DEF IdsInOrder
<1>3. WorkerRecords /\ NamesAgree /\ LogsNameTheirWorker
  BY <1>1 DEF WorkerRecords, NamesAgree, LogsNameTheirWorker
<1>4. wizard.name \in Typed
  BY DEF Typed, Name
<1>5. scan \in [Scans -> ScanState] /\ \A s \in Scans : scan[s].pc = "none"
  BY NoScanTyped DEF NoScan
<1>6. \A s \in Scans : ScanAgrees(s)
  BY <1>5 DEF ScanAgrees
<1> QED BY <1>2, <1>3, <1>4, <1>5, <1>6 DEF RosterInv

\* Scans keep agreeing with a roster that kept its active workers, names and
\* history, or noted who left.
LEMMA ScansKeep ==
  ASSUME RosterInv, UNCHANGED scan,
         DOMAIN enrolled \subseteq DOMAIN enrolled',
         \A id \in DOMAIN enrolled : enrolled'[id].name = enrolled[id].name,
         left \subseteq left',
         InScan(Active \ Active') \subseteq left'
  PROVE  scan' \in [Scans -> ScanState] /\ \A s \in Scans : ScanAgrees(s)'
<1> SUFFICES ASSUME NEW s \in Scans
             PROVE  ScanAgrees(s)'
  BY DEF RosterInv
<1>0. ScanAgrees(s) /\ scan'[s] = scan[s]
  BY DEF RosterInv
<1>1. ASSUME scan[s].pc = "workers", NEW id \in scan[s].read
      PROVE  id \in DOMAIN enrolled' /\ (id \in Active' \/ id \in left')
  <2>1. id \in DOMAIN enrolled /\ (id \in Active \/ id \in left)
    BY <1>0, <1>1 DEF ScanAgrees
  <2>2. CASE id \in Active \ Active'
    <3>1. id \in InScan(Active \ Active')
      BY <1>1, <2>2 DEF InScan
    <3> QED BY <2>1, <3>1
  <2> QED BY <2>1, <2>2
<1>2. ASSUME NEW id \in DOMAIN enrolled
      PROVE  EnrolledName(id)' = EnrolledName(id)
  BY DEF EnrolledName
<1> QED BY <1>0, <1>1, <1>2 DEF ScanAgrees

\* What only moves screens and alerts keeps the invariant.
LEMMA ScreensKeep ==
  ASSUME RosterInv, UNCHANGED store, wizard' = wizard \/ wizard' = NewWizard,
         scan' \in [Scans -> ScanState],
         \A s \in Scans :
           \/ scan'[s].pc = "none"
           \/ /\ scan'[s].pc = scan[s].pc /\ scan'[s].read = scan[s].read
              /\ scan'[s].worker = scan[s].worker /\ scan'[s].name = scan[s].name
  PROVE  RosterInv'
<1>1. (wizard.name \in Typed)'
  <2>1. NewWizard.name \in Typed
    BY DEF NewWizard, Typed, Name
  <2> QED BY <2>1 DEF RosterInv
<1>2. UNCHANGED <<workers, logs, enrolled, left>>
  BY DEF store
<1>3. IdsInOrder' /\ WorkerRecords' /\ NamesAgree' /\ LogsNameTheirWorker'
  BY <1>2 DEF RosterInv, IdsInOrder, Count, WorkerRecords, NamesAgree, LogsNameTheirWorker,
              EnrolledName
<1>4. ASSUME NEW s \in Scans
      PROVE  ScanAgrees(s)'
  <2>1. ScanAgrees(s) /\ Active' = Active /\ \A id : EnrolledName(id)' = EnrolledName(id)
    BY <1>2 DEF RosterInv, Active, EnrolledName
  <2> QED BY <1>2, <2>1 DEF ScanAgrees
<1> QED BY <1>1, <1>3, <1>4 DEF RosterInv

\* The handlers stay, also of a screen that goes.
LEMMA GoBackKeeps ==
  ASSUME scan \in [Scans -> ScanState],
         \/ UNCHANGED scan
         \/ scan' = [s \in Scans |-> [scan[s] EXCEPT !.mounted = FALSE]]
  PROVE  /\ scan' \in [Scans -> ScanState]
         /\ \A s \in Scans :
              /\ scan'[s].pc = scan[s].pc /\ scan'[s].read = scan[s].read
              /\ scan'[s].worker = scan[s].worker /\ scan'[s].name = scan[s].name
<1>1. CASE UNCHANGED scan
  BY <1>1
<1>2. CASE scan' = [s \in Scans |-> [scan[s] EXCEPT !.mounted = FALSE]]
  <2> SUFFICES ASSUME NEW s \in Scans
               PROVE  /\ scan'[s] \in ScanState
                      /\ scan'[s].pc = scan[s].pc /\ scan'[s].read = scan[s].read
                      /\ scan'[s].worker = scan[s].worker /\ scan'[s].name = scan[s].name
    BY <1>2
  <2>1. scan[s] \in ScanState /\ scan'[s] = [scan[s] EXCEPT !.mounted = FALSE]
    BY <1>2
  <2> QED BY <2>1 DEF ScanState
<1> QED BY <1>1, <1>2

\* One handler is over.
LEMMA HandlerOver ==
  ASSUME scan \in [Scans -> ScanState], NEW s \in Scans,
         scan' = [scan EXCEPT ![s] = NoScan]
  PROVE  /\ scan' \in [Scans -> ScanState]
         /\ scan'[s].pc = "none"
         /\ \A t \in Scans \ {s} : scan'[t] = scan[t]
  BY NoScanTyped DEF NoScan

\* A new worker takes a new id, and the roster and the history agree on it.
LEMMA CaptureStep == RosterInv /\ CaptureFace => RosterInv'
<1> SUFFICES ASSUME RosterInv, CaptureFace
             PROVE  RosterInv'
  OBVIOUS
<1> DEFINE id   == Count + 1
           name == Trim(wizard.name)
<1>1. /\ workers' = [x \in DOMAIN workers \cup {id} |->
                       IF x = id THEN [name |-> name, is_active |-> TRUE] ELSE workers[x]]
      /\ enrolled' = [x \in DOMAIN enrolled \cup {id} |->
                        IF x = id THEN [name |-> name, visit |-> visit] ELSE enrolled[x]]
      /\ UNCHANGED <<logs, scan, left>>
  BY DEF CaptureFace, EnrollWorker, Count
<1>2. id \notin DOMAIN enrolled /\ Count \in Nat /\ id \in WorkerId
  BY DEF RosterInv, IdsInOrder, CaptureFace, EnrollWorker, Count
<1>3. name \in Name /\ wizard'.name = wizard.name
  BY DEF RosterInv, CaptureFace, Trim, Typed
<1> HIDE DEF name
<1>4. IdsInOrder'
  <2>1. DOMAIN enrolled' = DOMAIN enrolled \cup {id}
    BY <1>1
  <2>2. IsFiniteSet(DOMAIN enrolled') /\ Cardinality(DOMAIN enrolled') = id
    BY <1>2, <2>1, FS_AddElement DEF RosterInv, IdsInOrder, Count
  <2>3. DOMAIN enrolled' \subseteq 1 .. id /\ DOMAIN enrolled' \subseteq WorkerId
    BY <1>2, <2>1 DEF RosterInv, IdsInOrder
  <2> QED BY <2>2, <2>3, <1>2 DEF IdsInOrder, Count
<1>5. WorkerRecords'
  BY <1>1, <1>3 DEF RosterInv, WorkerRecords
<1>6. NamesAgree'
  BY <1>1, <1>2 DEF RosterInv, NamesAgree
<1>7. LogsNameTheirWorker'
  BY <1>1, <1>2 DEF RosterInv, LogsNameTheirWorker, EnrolledName
<1>8. Active \ Active' = {}
  BY <1>1, <1>2 DEF RosterInv, NamesAgree, Active
<1>9. DOMAIN enrolled \subseteq DOMAIN enrolled'
      /\ \A x \in DOMAIN enrolled : enrolled'[x].name = enrolled[x].name
  BY <1>1, <1>2
<1>10. scan' \in [Scans -> ScanState] /\ \A s \in Scans : ScanAgrees(s)'
  BY <1>1, <1>8, <1>9, ScansKeep DEF InScan
<1> QED BY <1>3, <1>4, <1>5, <1>6, <1>7, <1>10 DEF RosterInv

\* The button is pressed: the active workers are read.
LEMMA PressStep ==
  ASSUME RosterInv, NEW s \in Scans, PressScan(s)
  PROVE  RosterInv'
<1> DEFINE new == [NoScan EXCEPT !.pc = "workers", !.mounted = TRUE, !.read = Active]
<1>1. /\ UNCHANGED <<workers, logs, enrolled, left, wizard>>
      /\ scan' = [scan EXCEPT ![s] = new]
      /\ new = [NoScan EXCEPT !.pc = "workers", !.mounted = TRUE, !.read = Active]
  BY DEF PressScan, store
<1> HIDE DEF new
<1>2. new = [pc |-> "workers", mounted |-> TRUE, read |-> Active, worker |-> 0, name |-> ""]
  BY <1>1 DEF NoScan
<1>6. Active \subseteq DOMAIN enrolled /\ Active \subseteq WorkerId
  BY DEF RosterInv, NamesAgree, IdsInOrder, Active
<1>3. new \in ScanState /\ new.pc = "workers" /\ new.read = Active
  <2>1. 0 \in 0 .. MaxWorkers /\ "" \in Name
    BY Bounds DEF Name
  <2> QED BY <1>2, <1>6, <2>1 DEF ScanState
<1>4. scan' \in [Scans -> ScanState] /\ scan'[s] = new /\ \A t \in Scans \ {s} : scan'[t] = scan[t]
  BY <1>1, <1>3 DEF RosterInv
<1>5. /\ Active' = Active /\ \A id : EnrolledName(id)' = EnrolledName(id)
      /\ UNCHANGED <<enrolled, left>>
  BY <1>1 DEF Active, EnrolledName
<1>7. ASSUME NEW t \in Scans
      PROVE  ScanAgrees(t)'
  <2>1. CASE t = s
    BY <1>1, <1>3, <1>4, <1>5, <1>6, <2>1 DEF ScanAgrees
  <2>2. CASE t # s
    <3>1. ScanAgrees(t) /\ scan'[t] = scan[t]
      BY <1>4, <2>2 DEF RosterInv
    <3> QED BY <1>5, <3>1 DEF ScanAgrees
  <2> QED BY <2>1, <2>2
<1>8. IdsInOrder' /\ WorkerRecords' /\ NamesAgree' /\ LogsNameTheirWorker' /\ (wizard.name \in Typed)'
  BY <1>1, <1>5 DEF RosterInv, IdsInOrder, Count, WorkerRecords, NamesAgree, LogsNameTheirWorker
<1> QED BY <1>4, <1>7, <1>8 DEF RosterInv

\* A scan has looked up what its log will say.
LEMMA Looked ==
  ASSUME RosterInv, UNCHANGED <<workers, logs, enrolled, left, wizard>>,
         NEW s \in Scans, NEW new \in ScanState, scan' = [scan EXCEPT ![s] = new],
         new.pc = "name", new.worker \in DOMAIN enrolled,
         \/ new.name = EnrolledName(new.worker)
         \/ new.name = "Unknown" /\ new.worker \in left
  PROVE  RosterInv'
<1>1. /\ scan' \in [Scans -> ScanState] /\ scan'[s] = new
      /\ \A t \in Scans \ {s} : scan'[t] = scan[t]
  BY DEF RosterInv
<1>2. Active' = Active /\ \A id : EnrolledName(id)' = EnrolledName(id)
  BY DEF Active, EnrolledName
<1>3. ASSUME NEW t \in Scans
      PROVE  ScanAgrees(t)'
  <2>1. CASE t = s
    BY <1>1, <1>2, <2>1 DEF ScanAgrees
  <2>2. CASE t # s
    <3>1. ScanAgrees(t) /\ scan'[t] = scan[t]
      BY <1>1, <2>2 DEF RosterInv
    <3> QED BY <1>2, <3>1 DEF ScanAgrees
  <2> QED BY <2>1, <2>2
<1>4. IdsInOrder' /\ WorkerRecords' /\ NamesAgree' /\ LogsNameTheirWorker' /\ (wizard.name \in Typed)'
  BY <1>2 DEF RosterInv, IdsInOrder, Count, WorkerRecords, NamesAgree, LogsNameTheirWorker
<1> QED BY <1>1, <1>3, <1>4 DEF RosterInv

\* The second look at the roster: the name of the match, or nobody because
\* the match left meanwhile.
LEMMA MatchStep ==
  ASSUME RosterInv, NEW s \in Scans, ScanMatches(s)
  PROVE  RosterInv'
<1>0. PICK id \in scan[s].read :
        scan' = [scan EXCEPT ![s] = [NoScan EXCEPT !.pc = "name", !.worker = id,
                                                  !.name = WorkerName(id)]]
  BY DEF ScanMatches
<1> DEFINE new == [NoScan EXCEPT !.pc = "name", !.worker = id, !.name = WorkerName(id)]
<1>1. /\ scan' = [scan EXCEPT ![s] = new]
      /\ new = [NoScan EXCEPT !.pc = "name", !.worker = id, !.name = WorkerName(id)]
  BY <1>0
<1> HIDE DEF new
<1>2. UNCHANGED <<workers, logs, enrolled, left, wizard>> /\ scan[s].pc = "workers"
  BY DEF ScanMatches, store
<1>3. new = [pc |-> "name", mounted |-> FALSE, read |-> {}, worker |-> id,
             name |-> WorkerName(id)]
  BY <1>1 DEF NoScan
<1>4. /\ id \in DOMAIN enrolled
      /\ id \in Active \/ id \in left
      /\ id \in WorkerId
  BY <1>2 DEF RosterInv, ScanAgrees, IdsInOrder
<1>5. WorkerName(id) \in Name \cup {"Unknown"}
  BY DEF WorkerName, RosterInv, WorkerRecords, Active
<1>6. /\ new \in ScanState /\ new.pc = "name" /\ new.worker = id
      /\ new.name = WorkerName(id)
  <2>1. id \in 0 .. MaxWorkers
    BY <1>4, Bounds DEF WorkerId
  <2> QED BY <1>3, <1>5, <2>1 DEF ScanState
<1>7. CASE id \in Active
  <2>1. WorkerName(id) = EnrolledName(id)
    BY <1>7 DEF WorkerName, EnrolledName, Active, RosterInv, NamesAgree
  <2> QED BY <1>1, <1>2, <1>4, <1>6, <2>1, Looked
<1>8. CASE id \notin Active
  <2>1. WorkerName(id) = "Unknown" /\ id \in left
    BY <1>4, <1>8 DEF WorkerName
  <2> QED BY <1>1, <1>2, <1>4, <1>6, <2>1, Looked
<1> QED BY <1>7, <1>8

\* A log is written, with what was looked up.
LEMMA LogStep ==
  ASSUME RosterInv, NEW s \in Scans, scan[s].pc = "name",
         UNCHANGED <<workers, enrolled, left, wizard>>,
         scan' = [scan EXCEPT ![s] = NoScan],
         logs' = logs \cup {LogOf(s)}
  PROVE  RosterInv'
<1>1. /\ scan' \in [Scans -> ScanState]
      /\ scan'[s].pc = "none"
      /\ \A t \in Scans \ {s} : scan'[t] = scan[t]
  BY HandlerOver DEF RosterInv
<1>2. Active' = Active /\ \A id : EnrolledName(id)' = EnrolledName(id)
  BY DEF Active, EnrolledName
<1>3. ASSUME NEW t \in Scans
      PROVE  ScanAgrees(t)'
  <2>1. CASE t = s
    BY <1>1, <2>1 DEF ScanAgrees
  <2>2. CASE t # s
    <3>1. ScanAgrees(t) /\ scan'[t] = scan[t]
      BY <1>1, <2>2 DEF RosterInv
    <3> QED BY <1>2, <3>1 DEF ScanAgrees
  <2> QED BY <2>1, <2>2
<1>4. /\ LogOf(s).worker = scan[s].worker
      /\ LogOf(s).worker_name = scan[s].name
  BY DEF LogOf
<1>5. ScanAgrees(s)
  BY DEF RosterInv
<1>6. LogsNameTheirWorker'
  BY <1>2, <1>4, <1>5 DEF RosterInv, LogsNameTheirWorker, ScanAgrees
<1>7. IdsInOrder' /\ WorkerRecords' /\ NamesAgree' /\ (wizard.name \in Typed)'
  BY DEF RosterInv, IdsInOrder, Count, WorkerRecords, NamesAgree
<1> QED BY <1>1, <1>3, <1>6, <1>7 DEF RosterInv

LEMMA DeactivateStep == RosterInv /\ DeactivateWorker => RosterInv'
<1> SUFFICES ASSUME RosterInv, DeactivateWorker
             PROVE  RosterInv'
  OBVIOUS
<1>1. PICK id \in Active : /\ workers' = [workers EXCEPT ![id].is_active = FALSE]
                           /\ left' = left \cup InScan({id})
  BY DEF DeactivateWorker
<1>2. UNCHANGED <<logs, enrolled, wizard, scan>>
  BY DEF DeactivateWorker, screens
<1>3. /\ DOMAIN workers' = DOMAIN workers
      /\ \A x \in DOMAIN workers : workers'[x].name = workers[x].name
      /\ \A x \in DOMAIN workers \ {id} : workers'[x] = workers[x]
      /\ WorkerRecords'
  BY <1>1 DEF RosterInv, WorkerRecords, Active
<1>4. NamesAgree' /\ IdsInOrder' /\ LogsNameTheirWorker' /\ (wizard.name \in Typed)'
  BY <1>1, <1>2, <1>3
  DEF RosterInv, NamesAgree, IdsInOrder, Count, LogsNameTheirWorker, EnrolledName
<1>5. Active \ Active' \subseteq {id}
  BY <1>3 DEF Active
<1>6. left \subseteq left' /\ InScan(Active \ Active') \subseteq left'
  BY <1>1, <1>5 DEF InScan
<1>7. scan' \in [Scans -> ScanState] /\ \A s \in Scans : ScanAgrees(s)'
  BY <1>2, <1>6, ScansKeep
<1> QED BY <1>3, <1>4, <1>7 DEF RosterInv

LEMMA ClearStep == RosterInv /\ ClearWorkers => RosterInv'
<1> SUFFICES ASSUME RosterInv, ClearWorkers
             PROVE  RosterInv'
  OBVIOUS
<1>1. /\ DOMAIN workers' = {} /\ left' = left \cup InScan(Active)
      /\ UNCHANGED <<logs, enrolled, wizard, scan>>
  BY DEF ClearWorkers, None, screens
<1>2. WorkerRecords' /\ NamesAgree' /\ IdsInOrder' /\ LogsNameTheirWorker' /\ (wizard.name \in Typed)'
  <2>1. WorkerRecords'
    BY DEF ClearWorkers, None, WorkerRecords
  <2> QED BY <1>1, <2>1
          DEF RosterInv, NamesAgree, IdsInOrder, Count, LogsNameTheirWorker, EnrolledName
<1>3. left \subseteq left' /\ InScan(Active \ Active') \subseteq left'
  BY <1>1 DEF InScan
<1>4. scan' \in [Scans -> ScanState] /\ \A s \in Scans : ScanAgrees(s)'
  BY <1>1, <1>3, ScansKeep
<1> QED BY <1>2, <1>4 DEF RosterInv

LEMMA StepRoster == RosterInv /\ [RosterNext]_rosterVars => RosterInv'
<1> SUFFICES ASSUME RosterInv, [RosterNext]_rosterVars
             PROVE  RosterInv'
  OBVIOUS
<1>0. scan \in [Scans -> ScanState]
  BY DEF RosterInv
<1>1. CASE DeactivateWorker
  BY <1>1, DeactivateStep
<1>2. CASE ClearWorkers
  BY <1>2, ClearStep
<1>3. CASE ClearLogs
  <2>1. logs' = {} /\ UNCHANGED <<workers, enrolled, left, wizard, scan>>
    BY <1>3 DEF ClearLogs, screens
  <2>2. scan' \in [Scans -> ScanState] /\ \A s \in Scans : ScanAgrees(s)'
    BY <2>1, ScansKeep DEF InScan, Active
  <2> QED BY <2>1, <2>2 DEF RosterInv, IdsInOrder, Count, WorkerRecords, NamesAgree,
                            LogsNameTheirWorker
<1>4. CASE PinSubmit \/ DetailsSubmit
  <2>0. UNCHANGED <<workers, logs, enrolled, left, scan>>
    BY <1>4 DEF PinSubmit, DetailsSubmit, store
  <2>1. (wizard.name \in Typed)'
    <3>1. CASE PinSubmit
      <4>1. wizard'.name = wizard.name
        BY <3>1 DEF PinSubmit
      <4> QED BY <4>1 DEF RosterInv
    <3>2. CASE DetailsSubmit
      BY <3>2 DEF DetailsSubmit, RosterInv
    <3> QED BY <1>4, <3>1, <3>2
  <2>2. scan' \in [Scans -> ScanState] /\ \A s \in Scans : ScanAgrees(s)'
    BY <2>0, ScansKeep DEF InScan, Active
  <2> QED BY <2>0, <2>1, <2>2 DEF RosterInv, IdsInOrder, Count, WorkerRecords, NamesAgree,
                                  LogsNameTheirWorker, EnrolledName
<1>5. CASE CaptureFace
  BY <1>5, CaptureStep
<1>6. ASSUME NEW s \in Scans, PressScan(s) \/ ScanMatches(s)
      PROVE  RosterInv'
  BY <1>6, PressStep, MatchStep
<1>7. ASSUME NEW s \in Scans, ScanFindsNobody(s) \/ (ScanThrows(s) /\ UNCHANGED logs)
      PROVE  RosterInv'
  <2>1. UNCHANGED <<store, wizard>> /\ scan' = [scan EXCEPT ![s] = NoScan]
    BY <1>7 DEF ScanFindsNobody, ScanThrows, store
  <2> QED BY <1>0, <2>1, HandlerOver, ScreensKeep
<1>8. ASSUME NEW s \in Scans, ScanLogs(s) \/ ScanThrows(s), logs' = logs \cup {LogOf(s)},
             scan[s].pc = "name"
      PROVE  RosterInv'
  BY <1>8, LogStep DEF ScanLogs, ScanThrows
<1>9. CASE OpenEnrollment \/ CaptureFails \/ OpenAttendance \/ ShowAlert \/ PressOk \/ Back
  <2>1. UNCHANGED store /\ (wizard' = wizard \/ wizard' = NewWizard)
    BY <1>9 DEF OpenEnrollment, CaptureFails, OpenAttendance, ShowAlert, PressOk, Back, GoBack
  <2>2. \/ UNCHANGED scan
        \/ scan' = [s \in Scans |-> [scan[s] EXCEPT !.mounted = FALSE]]
    BY <1>9 DEF OpenEnrollment, CaptureFails, OpenAttendance, ShowAlert, PressOk, Back, GoBack
  <2> QED BY <1>0, <2>1, <2>2, GoBackKeeps, ScreensKeep
<1>10. CASE Crash
  <2>2. /\ UNCHANGED <<workers, logs, enrolled, left>> /\ wizard' = NewWizard
        /\ scan' = [s \in Scans |-> NoScan]
    BY <1>10 DEF Crash
  <2>3. (wizard.name \in Typed)'
    BY <2>2 DEF NewWizard, Typed, Name
  <2>4. scan' \in [Scans -> ScanState] /\ \A s \in Scans : scan'[s].pc = "none"
    BY <2>2, NoScanTyped DEF NoScan
  <2>5. \A s \in Scans : ScanAgrees(s)'
    BY <2>4 DEF ScanAgrees
  <2> QED BY <2>2, <2>3, <2>4, <2>5 DEF RosterInv, IdsInOrder, Count, WorkerRecords,
                                        NamesAgree, LogsNameTheirWorker, EnrolledName
<1>11. CASE UNCHANGED rosterVars
  BY <1>0, <1>11, ScreensKeep DEF rosterVars, screens
<1> QED
  BY <1>1, <1>2, <1>3, <1>4, <1>5, <1>6, <1>7, <1>8, <1>9, <1>10, <1>11
  DEF RosterNext, ScanLogs, ScanThrows

-------------------------------------------------------------------------------
(* The visits of the wizard.                                               *)

\* No worker was enrolled in a visit to come, and none in this one while the
\* wizard is open and its button not locked.
VisitsInOrder ==
  /\ \A id \in DOMAIN enrolled : enrolled[id].visit <= visit
  /\ top = "enrollment" => visit >= 1
  /\ top = "enrollment" /\ ~wizard.isEnrolling =>
       \A id \in DOMAIN enrolled : enrolled[id].visit < visit

VisitInv ==
  /\ RosterTypeOK
  /\ OneWorkerPerVisit
  /\ VisitsInOrder

LEMMA NewWizardTyped == NewWizard \in [step : 1 .. 3, name : Typed, isEnrolling : BOOLEAN]
  BY DEF NewWizard, Typed, Name

LEMMA InitVisits == RosterInit => VisitInv
<1> SUFFICES ASSUME RosterInit
             PROVE  VisitInv
  OBVIOUS
<1> USE DEF RosterInit, None
<1>1. DOMAIN enrolled = {} /\ DOMAIN workers = {}
  OBVIOUS
<1>2. wizard \in [step : 1 .. 3, name : Typed, isEnrolling : BOOLEAN]
  BY NewWizardTyped
<1>3. /\ workers \in [DOMAIN workers -> [name : Name, is_active : BOOLEAN]]
      /\ enrolled \in [DOMAIN enrolled -> [name : Name, visit : 1 .. MaxVisits]]
  BY <1>1
<1>4. visit \in 0 .. MaxVisits /\ crashes \in 0 .. MaxCrashes
  BY Bounds
<1>5. RosterTypeOK
  BY <1>1, <1>2, <1>3, <1>4, NoScanTyped DEF RosterTypeOK
<1>6. OneWorkerPerVisit /\ VisitsInOrder
  BY <1>1 DEF OneWorkerPerVisit, VisitsInOrder
<1> QED BY <1>5, <1>6 DEF VisitInv

\* The worker of this visit is the only one.
LEMMA CaptureOnce ==
  ASSUME VisitInv, CaptureFace
  PROVE  VisitInv'
<1> DEFINE id   == Cardinality(DOMAIN enrolled) + 1
           name == Trim(wizard.name)
           new  == [name |-> name, visit |-> visit]
<1>1. /\ id \in WorkerId
      /\ workers' = [x \in DOMAIN workers \cup {id} |->
                       IF x = id THEN [name |-> name, is_active |-> TRUE] ELSE workers[x]]
      /\ enrolled' = [x \in DOMAIN enrolled \cup {id} |->
                        IF x = id THEN new ELSE enrolled[x]]
  BY DEF CaptureFace, EnrollWorker
<1>2. /\ top = "enrollment" /\ ~wizard.isEnrolling
      /\ wizard' = [wizard EXCEPT !.isEnrolling = TRUE]
      /\ due' = due \cup {"enrolled"}
      /\ UNCHANGED <<logs, job, left, top, isScanning, scan, shown, visit, crashes>>
  BY DEF CaptureFace
<1>3. name \in Name
  BY DEF VisitInv, RosterTypeOK, Trim, Typed
<1>4. visit \in 1 .. MaxVisits
  BY <1>2, Bounds DEF VisitInv, RosterTypeOK, VisitsInOrder
<1>5. new \in [name : Name, visit : 1 .. MaxVisits]
  BY <1>3, <1>4
<1> HIDE DEF id, name, new
<1>6. enrolled' \in [DOMAIN enrolled' -> [name : Name, visit : 1 .. MaxVisits]]
  BY <1>1, <1>5 DEF VisitInv, RosterTypeOK
<1>7. workers' \in [DOMAIN workers' -> [name : Name, is_active : BOOLEAN]]
  BY <1>1, <1>3 DEF VisitInv, RosterTypeOK
<1>8. DOMAIN workers' \subseteq DOMAIN enrolled'
  BY <1>1 DEF VisitInv, RosterTypeOK
<1>9. wizard' \in [step : 1 .. 3, name : Typed, isEnrolling : BOOLEAN]
  BY <1>2 DEF VisitInv, RosterTypeOK
<1>10. RosterTypeOK'
  BY <1>2, <1>6, <1>7, <1>8, <1>9 DEF VisitInv, RosterTypeOK, Alerts
<1>11. /\ enrolled'[id].visit = visit
       /\ \A x \in DOMAIN enrolled' \ {id} :
            x \in DOMAIN enrolled /\ enrolled'[x] = enrolled[x]
  BY <1>1 DEF new
<1>12. \A x \in DOMAIN enrolled : enrolled[x].visit < visit /\ enrolled[x].visit # visit
  BY <1>2, <1>4 DEF VisitInv, VisitsInOrder, RosterTypeOK
<1>13. OneWorkerPerVisit'
  BY <1>11, <1>12 DEF VisitInv, OneWorkerPerVisit
<1>14. wizard'.isEnrolling
  BY <1>2 DEF VisitInv, RosterTypeOK
<1>15. VisitsInOrder'
  BY <1>2, <1>4, <1>11, <1>12, <1>14 DEF VisitInv, VisitsInOrder
<1> QED BY <1>10, <1>13, <1>15 DEF VisitInv

\* A log is made of an id and a name.
LEMMA LogTyped ==
  ASSUME RosterInv, RosterTypeOK, NEW s \in Scans, scan[s].pc = "name"
  PROVE  LogOf(s) \in [worker : WorkerId, worker_name : Text \cup {"Unknown"}]
<1>1. ScanAgrees(s)
  BY DEF RosterInv
<1>2. scan[s].worker \in WorkerId
  BY <1>1 DEF ScanAgrees, RosterInv, IdsInOrder
<1>3. scan[s].name \in Text \cup {"Unknown"}
  BY <1>1 DEF ScanAgrees, EnrolledName, RosterTypeOK, Name
<1> QED BY <1>2, <1>3 DEF LogOf

\* Who leaves is a worker.
LEMMA LeftTyped ==
  ASSUME RosterInv, NEW ids \in SUBSET Active
  PROVE  InScan(ids) \subseteq WorkerId
  BY DEF InScan, Active, RosterInv, NamesAgree, IdsInOrder

\* What enrolls nobody and opens no wizard keeps the order of the visits.
LEMMA VisitsKeep ==
  ASSUME VisitInv, RosterTypeOK', UNCHANGED <<enrolled, visit>>,
         top' = "enrollment" => top = "enrollment" /\ wizard'.isEnrolling = wizard.isEnrolling
  PROVE  VisitInv'
  BY DEF VisitInv, OneWorkerPerVisit, VisitsInOrder

LEMMA VisitStep == RosterInv /\ VisitInv /\ [RosterNext]_rosterVars => VisitInv'
<1> SUFFICES ASSUME RosterInv, VisitInv, [RosterNext]_rosterVars
             PROVE  VisitInv'
  OBVIOUS
<1>0. RosterTypeOK /\ scan' \in [Scans -> ScanState]
  BY StepRoster DEF VisitInv, RosterInv
<1>1. CASE DeactivateWorker
  <2>1. workers' \in [DOMAIN workers' -> [name : Name, is_active : BOOLEAN]]
        /\ DOMAIN workers' = DOMAIN workers
    <3>1. PICK id \in Active : workers' = [workers EXCEPT ![id].is_active = FALSE]
      BY <1>1 DEF DeactivateWorker
    <3>2. workers \in [DOMAIN workers -> [name : Name, is_active : BOOLEAN]] /\ id \in DOMAIN workers
      BY <1>0 DEF RosterTypeOK, Active
    <3> QED BY <3>1, <3>2
  <2>2. left' \subseteq WorkerId
    BY <1>0, <1>1, LeftTyped DEF DeactivateWorker, RosterTypeOK
  <2>3. RosterTypeOK'
    BY <1>0, <1>1, <2>1, <2>2 DEF DeactivateWorker, RosterTypeOK, screens
  <2> QED BY <1>1, <2>3, VisitsKeep DEF DeactivateWorker, screens
<1>2. CASE ClearWorkers
  <2>1. left' \subseteq WorkerId
    BY <1>0, <1>2, LeftTyped DEF ClearWorkers, RosterTypeOK
  <2>2. RosterTypeOK'
    BY <1>0, <1>2, <2>1 DEF ClearWorkers, RosterTypeOK, None, screens
  <2> QED BY <1>2, <2>2, VisitsKeep DEF ClearWorkers, screens
<1>3. CASE ClearLogs
  <2>1. RosterTypeOK'
    BY <1>0, <1>3 DEF ClearLogs, RosterTypeOK, screens
  <2> QED BY <1>3, <2>1, VisitsKeep DEF ClearLogs, screens
<1>4. CASE OpenEnrollment
  <2>1. NewWizard \in [step : 1 .. 3, name : Typed, isEnrolling : BOOLEAN]
    BY NewWizardTyped
  <2>2. visit' = visit + 1 /\ visit' \in 0 .. MaxVisits /\ visit \in Nat
    BY <1>0, <1>4, Bounds DEF OpenEnrollment, RosterTypeOK
  <2>3. RosterTypeOK'
    BY <1>0, <1>4, <2>1, <2>2 DEF OpenEnrollment, RosterTypeOK, store
  <2>4. \A id \in DOMAIN enrolled : enrolled[id].visit \in Nat /\ enrolled[id].visit <= visit
    BY <1>0 DEF VisitInv, VisitsInOrder, RosterTypeOK
  <2>5. VisitsInOrder'
    BY <1>4, <2>2, <2>4 DEF OpenEnrollment, VisitsInOrder, store
  <2> QED BY <1>4, <2>3, <2>5 DEF VisitInv, OpenEnrollment, OneWorkerPerVisit, store
<1>5. CASE PinSubmit \/ DetailsSubmit
  <2>1. /\ wizard' \in [step : 1 .. 3, name : Typed, isEnrolling : BOOLEAN]
        /\ wizard'.isEnrolling = wizard.isEnrolling
    <3>1. wizard \in [step : 1 .. 3, name : Typed, isEnrolling : BOOLEAN]
      BY <1>0 DEF RosterTypeOK
    <3>2. CASE PinSubmit
      BY <3>1, <3>2 DEF PinSubmit
    <3>3. CASE DetailsSubmit
      <4>1. PICK typed \in Typed : wizard' = [wizard EXCEPT !.step = 3, !.name = typed]
        BY <3>3 DEF DetailsSubmit
      <4>2. wizard' = [step |-> 3, name |-> typed, isEnrolling |-> wizard.isEnrolling]
        BY <3>1, <4>1
      <4>3. wizard.isEnrolling \in BOOLEAN
        BY <3>1
      <4> QED BY <4>2, <4>3
    <3> QED BY <1>5, <3>2, <3>3
  <2>2. RosterTypeOK'
    BY <1>0, <1>5, <2>1 DEF PinSubmit, DetailsSubmit, RosterTypeOK, store
  <2> QED BY <1>5, <2>1, <2>2, VisitsKeep DEF PinSubmit, DetailsSubmit, store
<1>6. CASE CaptureFace
  BY <1>6, CaptureOnce
<1>7. CASE CaptureFails \/ ShowAlert
  <2>1. RosterTypeOK'
    BY <1>0, <1>7 DEF CaptureFails, ShowAlert, RosterTypeOK, Alerts, store
  <2> QED BY <1>7, <2>1, VisitsKeep DEF CaptureFails, ShowAlert, store
<1>8. CASE OpenAttendance
  <2>1. RosterTypeOK'
    BY <1>0, <1>8 DEF OpenAttendance, RosterTypeOK, store
  <2> QED BY <1>8, <2>1, VisitsKeep DEF OpenAttendance, store
<1>9. ASSUME NEW s \in Scans, PressScan(s) \/ ScanMatches(s) \/ ScanFindsNobody(s)
      PROVE  VisitInv'
  <2>1. RosterTypeOK'
    BY <1>0, <1>9 DEF PressScan, ScanMatches, ScanFindsNobody, RosterTypeOK, Alerts, store
  <2> QED BY <1>9, <2>1, VisitsKeep DEF PressScan, ScanMatches, ScanFindsNobody, store
<1>13. ASSUME NEW s \in Scans, ScanLogs(s) \/ ScanThrows(s)
       PROVE  VisitInv'
  <2>1. logs' \subseteq [worker : WorkerId, worker_name : Text \cup {"Unknown"}]
    BY <1>0, <1>13, LogTyped DEF ScanLogs, ScanThrows, RosterTypeOK
  <2>2. RosterTypeOK'
    BY <1>0, <1>13, <2>1 DEF ScanLogs, ScanThrows, RosterTypeOK, Alerts
  <2> QED BY <1>13, <2>2, VisitsKeep DEF ScanLogs, ScanThrows
<1>10. CASE PressOk \/ Back
  <2>1. RosterTypeOK'
    BY <1>0, <1>10 DEF PressOk, Back, GoBack, RosterTypeOK, store
  <2> QED BY <1>10, <2>1, VisitsKeep DEF PressOk, Back, GoBack, store
<1>11. CASE Crash
  <2>1. NewWizard \in [step : 1 .. 3, name : Typed, isEnrolling : BOOLEAN]
    BY NewWizardTyped
  <2>2. RosterTypeOK'
    BY <1>0, <1>11, <2>1, Bounds DEF Crash, RosterTypeOK
  <2> QED BY <1>11, <2>2, VisitsKeep DEF Crash
<1>12. CASE UNCHANGED rosterVars
  BY <1>12 DEF rosterVars, store, screens, VisitInv, RosterTypeOK, OneWorkerPerVisit,
                    VisitsInOrder
<1> QED BY <1>1, <1>2, <1>3, <1>4, <1>5, <1>6, <1>7, <1>8, <1>9, <1>10, <1>11, <1>12,
           <1>13 DEF RosterNext

LEMMA VisitInvariant == RosterSpec => []VisitInv
  BY InitRoster, StepRoster, InitVisits, VisitStep, PTL DEF RosterSpec

-------------------------------------------------------------------------------
(* The theorems.                                                           *)

\* A log names its worker as that worker was enrolled, whatever happens to
\* the roster afterwards, or is "Unknown" because the worker left it during
\* the scan (AttendanceScreen.tsx:50-58, DatabaseService.ts:105-107).
THEOREM LogsKeepNames == RosterSpec => []LogsNameTheirWorker
<1>1. RosterInv => LogsNameTheirWorker
  BY DEF RosterInv
<1> QED BY <1>1, InitRoster, StepRoster, PTL DEF RosterSpec

\* The roster, the logs and the screens keep their types.
THEOREM RosterTypeCorrect == RosterSpec => []RosterTypeOK
<1>1. VisitInv => RosterTypeOK
  BY DEF VisitInv
<1> QED BY <1>1, VisitInvariant, PTL

\* One visit of the wizard enrolls one worker at most, for any order of taps,
\* late alerts and failed attempts (EnrollmentScreen.tsx:57-76).
THEOREM OneEnrollment == RosterSpec => []OneWorkerPerVisit
<1>1. VisitInv => OneWorkerPerVisit
  BY DEF VisitInv
<1> QED BY <1>1, VisitInvariant, PTL
===============================================================================
