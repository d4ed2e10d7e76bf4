----------------------------- MODULE ArraysProofs -----------------------------
(***************************************************************************)
(* The arrays of the database, for any number of records, batch size,      *)
(* retry limit, clock and length of a day: filters and maps keep them in   *)
(* order of creation, they are the functions and sets that the engine's    *)
(* model takes them for, and the statistics and the purge keep their word. *)
(***************************************************************************)
EXTENDS ArraysProperties, OrderLemmas, SequenceTheorems

-------------------------------------------------------------------------------
(* Filters.                                                                *)

LEMMA InOrderIsEnumeration ==
  ASSUME NEW len \in Nat, NEW places \in SUBSET (1 .. len)
  PROVE  LET place == InOrder(places)
             size == Cardinality(places)
         IN  /\ size \in Nat /\ size <= len
             /\ place \in [1 .. size -> places]
             /\ \A m, n \in 1 .. size : m < n => place[m] < place[n]
             /\ \A k \in places : \E n \in 1 .. size : place[n] = k
<1> DEFINE size == Cardinality(places)
           byRank == [n \in 1 .. size |-> CHOOSE k \in places : UpTo(places, k) = n]
           Orders(place) == \A m, n \in DOMAIN place : m < n => place[m] < place[n]
<1>0. \A k \in places : k \in Int
  OBVIOUS
<1>1. IsFiniteSet(places) /\ size \in Nat /\ size <= len
  <2>1. IsFiniteSet(1 .. len) /\ Cardinality(1 .. len) = len
    BY FS_Interval
  <2> QED
    BY <2>1, FS_Subset, FS_CardinalityType
<1> HIDE DEF size
<1>2. \A n \in 1 .. size : byRank[n] \in places /\ UpTo(places, byRank[n]) = n
  BY RankReached DEF size
<1>3. byRank \in [1 .. size -> places]
  BY <1>2
<1>4. ASSUME NEW m \in 1 .. size, NEW n \in 1 .. size, m < n
      PROVE  byRank[m] < byRank[n]
  <2>1. byRank[m] \in Int /\ byRank[n] \in Int
    BY <1>0, <1>2
  <2> DEFINE low == {j \in places : j <= byRank[n]}
             high == {j \in places : j <= byRank[m]}
  <2>2. SUFFICES ASSUME byRank[n] <= byRank[m]
                 PROVE  FALSE
    BY <2>1
  <2>3. \A j \in places : j <= byRank[n] => j <= byRank[m]
    BY <1>0, <2>1, <2>2
  <2>4. low \in SUBSET high /\ high \in SUBSET places
    BY <2>3
  <2>5. Cardinality(low) <= Cardinality(high)
    BY <1>1, <2>4, FS_Subset
  <2>6. Cardinality(low) = n /\ Cardinality(high) = m
    BY <1>2 DEF UpTo
  <2> QED
    BY <1>4, <2>5, <2>6
<1>5. Orders(byRank)
  BY <1>3, <1>4
<1> HIDE DEF byRank
<1>6. InOrder(places) \in [1 .. size -> places] /\ Orders(InOrder(places))
  <2>1. InOrder(places) = CHOOSE place \in [1 .. size -> places] : Orders(place)
    BY DEF InOrder, size
  <2> HIDE DEF Orders
  <2> QED
    BY <1>3, <1>5, <2>1
<1> DEFINE place == InOrder(places)
<1>7. \A m, n \in 1 .. size : m < n => place[m] < place[n]
  BY <1>6
<1>8. \A k \in places : \E n \in 1 .. size : place[n] = k
  <2>1. \A m, n \in 1 .. size : place[m] = place[n] => m = n
    <3> TAKE m, n \in 1 .. size
    <3>1. place[m] \in Int /\ place[n] \in Int
      BY <1>0, <1>6
    <3>2. m < n => place[m] < place[n]
      BY <1>7
    <3>3. n < m => place[n] < place[m]
      BY <1>7
    <3> HIDE DEF place
    <3> QED
      BY <3>1, <3>2, <3>3
  <2>2. place \in Injection(1 .. size, places)
    BY <1>6, <2>1 DEF Injection, IsInjective
  <2>3. Cardinality(1 .. size) = size
    BY <1>1, FS_Interval
  <2>4. place \in Surjection(1 .. size, places)
    BY <1>1, <2>2, <2>3, FS_Injection DEF size
  <2> QED
    BY <2>4 DEF Surjection
<1> QED
  BY <1>1, <1>6, <1>7, <1>8 DEF size

\* A filter keeps what stands at its places, in the same order.
LEMMA FilterKeeps ==
  ASSUME NEW S, NEW array \in Seq(S), NEW places \in SUBSET DOMAIN array
  PROVE  LET kept == Filter(array, places)
         IN  /\ kept \in Seq(S)
             /\ Len(kept) <= Len(array)
             /\ \A n \in 1 .. Len(kept) : \E k \in places : kept[n] = array[k]
             /\ \A k \in places : \E n \in 1 .. Len(kept) : kept[n] = array[k]
             /\ \A m, n \in 1 .. Len(kept) : m < n =>
                  \E j, k \in places : j < k /\ kept[m] = array[j] /\ kept[n] = array[k]
<1> DEFINE size == Cardinality(places)
           place == InOrder(places)
           kept == Filter(array, places)
<1>1. Len(array) \in Nat /\ DOMAIN array = 1 .. Len(array) /\ \A k \in DOMAIN array : array[k] \in S
  OBVIOUS
<1>2. places \in SUBSET (1 .. Len(array))
  BY <1>1
<1>3. /\ size \in Nat /\ size <= Len(array)
      /\ place \in [1 .. size -> places]
      /\ \A m, n \in 1 .. size : m < n => place[m] < place[n]
      /\ \A k \in places : \E n \in 1 .. size : place[n] = k
  BY <1>1, <1>2, InOrderIsEnumeration
<1>4. kept = [n \in 1 .. size |-> array[place[n]]]
  BY DEF Filter
<1> HIDE DEF size, place, kept
<1>5. \A n \in 1 .. size : place[n] \in places /\ kept[n] = array[place[n]] /\ kept[n] \in S
  BY <1>1, <1>3, <1>4
<1>6. kept \in Seq(S) /\ Len(kept) = size
  BY <1>3, <1>4, <1>5
<1>7. \A n \in 1 .. size : \E k \in places : kept[n] = array[k]
  BY <1>5
<1>8. \A k \in places : \E n \in 1 .. size : kept[n] = array[k]
  BY <1>3, <1>5
<1>9. \A m, n \in 1 .. size : m < n =>
        \E j, k \in places : j < k /\ kept[m] = array[j] /\ kept[n] = array[k]
  BY <1>3, <1>5
<1>10. Len(kept) <= Len(array)
  BY <1>3, <1>6
<1> QED
  BY <1>6, <1>7, <1>8, <1>9, <1>10, Zenon DEF kept

LEMMA FilterIsSorted ==
  ASSUME NEW S, NEW array \in Seq(S), NEW places \in SUBSET DOMAIN array, Sorted(array)
  PROVE  Sorted(Filter(array, places))
<1> DEFINE kept == Filter(array, places)
<1>1. /\ kept \in Seq(S)
      /\ \A m, n \in 1 .. Len(kept) : m < n =>
           \E j, k \in places : j < k /\ kept[m] = array[j] /\ kept[n] = array[k]
  BY FilterKeeps
<1> HIDE DEF kept
<1>2. ASSUME NEW m \in DOMAIN kept, NEW n \in DOMAIN kept, m < n
      PROVE  kept[m].log_id < kept[n].log_id
  <2>1. PICK j \in places, k \in places : j < k /\ kept[m] = array[j] /\ kept[n] = array[k]
    BY <1>1, <1>2
  <2>2. array[j].log_id < array[k].log_id
    BY <2>1 DEF Sorted
  <2> QED
    BY <2>1, <2>2
<1> QED
  BY <1>2 DEF Sorted, kept

LEMMA FilterItems ==
  ASSUME NEW S, NEW array \in Seq(S), NEW places \in SUBSET DOMAIN array
  PROVE  /\ ToSet(Filter(array, places)) = {array[k] : k \in places}
         /\ Names(Filter(array, places)) = {array[k].log_id : k \in places}
<1> DEFINE kept == Filter(array, places)
<1>1. /\ kept \in Seq(S)
      /\ \A n \in 1 .. Len(kept) : \E k \in places : kept[n] = array[k]
      /\ \A k \in places : \E n \in 1 .. Len(kept) : kept[n] = array[k]
  BY FilterKeeps
<1> HIDE DEF kept
<1>2. ToSet(kept) = {array[k] : k \in places}
  BY <1>1 DEF ToSet
<1>3. Names(kept) = {array[k].log_id : k \in places}
  BY <1>2 DEF Names
<1> QED
  BY <1>2, <1>3 DEF kept

-------------------------------------------------------------------------------
(* Arrays in order of creation.                                            *)

\* An array has no more items than there are names.
LEMMA SortedIsShort ==
  ASSUME NEW S, NEW array \in Seq(S), NEW n \in Nat,
         \A item \in S : item.log_id \in 1 .. n, Sorted(array)
  PROVE  Len(array) <= n
<1> DEFINE name == [i \in 1 .. Len(array) |-> array[i].log_id]
<1>1. \A i \in 1 .. Len(array) : array[i] \in S /\ name[i] = array[i].log_id /\ name[i] \in 1 .. n
  OBVIOUS
<1>2. Len(array) \in Nat /\ DOMAIN array = 1 .. Len(array)
  OBVIOUS
<1>3. ASSUME NEW i \in 1 .. Len(array), NEW j \in 1 .. Len(array), name[i] = name[j]
      PROVE  i = j
  <2>1. i < j => array[i].log_id < array[j].log_id
    BY <1>2 DEF Sorted
  <2>2. j < i => array[j].log_id < array[i].log_id
    BY <1>2 DEF Sorted
  <2>3. array[i].log_id = array[j].log_id /\ array[i].log_id \in Int
    BY <1>1, <1>3
  <2> QED
    BY <2>1, <2>2, <2>3
<1>4. name \in Injection(1 .. Len(array), 1 .. n)
  <2>1. name \in [1 .. Len(array) -> 1 .. n]
    BY <1>1
  <2> HIDE DEF name
  <2> QED
    BY <1>3, <2>1 DEF Injection, IsInjective
<1>5. IsFiniteSet(1 .. n) /\ Cardinality(1 .. n) = n
  BY FS_Interval
<1>6. Cardinality(1 .. Len(array)) = Len(array)
  <2>1. \A k \in Nat : Cardinality(1 .. k) = k
    BY FS_Interval
  <2> QED
    BY <1>2, <2>1
<1> HIDE DEF name
<1> QED
  BY <1>4, <1>5, <1>6, FS_Injection

\* Two arrays in order that hold the same items agree as far as both go, and
\* neither ends first.
LEMMA SortedAgree ==
  ASSUME NEW S, NEW a \in Seq(S), NEW b \in Seq(S), \A item \in S : item.log_id \in Nat,
         Sorted(a), Sorted(b), ToSet(a) = ToSet(b)
  PROVE  \A n \in 1 .. Len(a) : n \in 1 .. Len(b) /\ b[n] = a[n]
<1> DEFINE bad == {n \in 1 .. Len(a) : ~ (n \in 1 .. Len(b) /\ b[n] = a[n])}
<1>1. /\ Len(a) \in Nat /\ DOMAIN a = 1 .. Len(a) /\ \A i \in DOMAIN a : a[i] \in S
      /\ Len(b) \in Nat /\ DOMAIN b = 1 .. Len(b) /\ \A i \in DOMAIN b : b[i] \in S
  OBVIOUS
<1>2. SUFFICES ASSUME bad # {}
               PROVE  FALSE
  OBVIOUS
<1>3. PICK n \in bad : \A i \in bad : n <= i
  <2>1. bad \in SUBSET Nat
    BY <1>1
  <2> QED
    BY <1>2, <2>1, MinExists
<1>4. n \in 1 .. Len(a) /\ ~ (n \in 1 .. Len(b) /\ b[n] = a[n])
  OBVIOUS
<1>5. \A i \in 1 .. Len(a) : i < n => i \in 1 .. Len(b) /\ b[i] = a[i]
  <2> TAKE i \in 1 .. Len(a)
  <2>1. i \in Int /\ n \in Int
    BY <1>1, <1>4
  <2>2. i \in bad => n <= i
    BY <1>3
  <2> QED
    BY <2>1, <2>2
<1> HIDE DEF bad
<1>6. PICK k \in DOMAIN b : b[k] = a[n]
  BY <1>1, <1>4 DEF ToSet
<1>7. n <= k
  <2>1. SUFFICES ASSUME k < n
                 PROVE  FALSE
    BY <1>1, <1>4, <1>6
  <2>2. k \in 1 .. Len(a) /\ n \in 1 .. Len(a)
    BY <1>1, <1>4, <1>6, <2>1
  <2>3. a[k] = a[n]
    BY <1>5, <1>6, <2>1, <2>2
  <2>4. a[k].log_id < a[n].log_id
    BY <1>1, <2>1, <2>2 DEF Sorted
  <2>5. a[n].log_id \in Nat
    BY <1>1, <2>2
  <2> QED
    BY <2>3, <2>4, <2>5
<1>8. n \in DOMAIN b /\ n < k
  BY <1>1, <1>4, <1>6, <1>7
<1>9. PICK j \in DOMAIN a : a[j] = b[n]
  BY <1>8 DEF ToSet
<1>10. n <= j
  <2>1. SUFFICES ASSUME j < n
                 PROVE  FALSE
    BY <1>1, <1>4, <1>9
  <2>2. j \in DOMAIN b /\ b[j] = b[n]
    BY <1>1, <1>5, <1>9, <2>1
  <2>3. b[j].log_id < b[n].log_id
    BY <1>8, <2>1, <2>2 DEF Sorted
  <2>4. b[n].log_id \in Nat
    BY <1>1, <1>8
  <2> QED
    BY <2>2, <2>3, <2>4
<1>11. b[n].log_id < a[n].log_id
  BY <1>6, <1>8 DEF Sorted
<1>12. a[n].log_id < a[j].log_id \/ n = j
  <2>1. n \in DOMAIN a /\ n \in Int /\ j \in Int
    BY <1>1, <1>4, <1>9
  <2>2. n < j => a[n].log_id < a[j].log_id
    BY <1>9, <2>1 DEF Sorted
  <2> QED
    BY <1>10, <2>1, <2>2
<1>13. a[n].log_id \in Nat /\ b[n].log_id \in Nat
  BY <1>1, <1>4, <1>8
<1> QED
  BY <1>9, <1>11, <1>12, <1>13

\* What an array in order holds determines it.
LEMMA SortedSame ==
  ASSUME NEW S, NEW a \in Seq(S), NEW b \in Seq(S), \A item \in S : item.log_id \in Nat,
         Sorted(a), Sorted(b), ToSet(a) = ToSet(b)
  PROVE  a = b
<1>1. \A n \in 1 .. Len(a) : n \in 1 .. Len(b) /\ b[n] = a[n]
  BY SortedAgree
<1>2. \A n \in 1 .. Len(b) : n \in 1 .. Len(a) /\ a[n] = b[n]
  BY SortedAgree
<1>3. Len(a) \in Nat /\ Len(b) \in Nat
  OBVIOUS
<1>4. Len(a) = Len(b)
  <2>1. Len(a) # 0 => Len(a) <= Len(b)
    BY <1>1, <1>3
  <2>2. Len(b) # 0 => Len(b) <= Len(a)
    BY <1>2, <1>3
  <2> QED
    BY <1>3, <2>1, <2>2
<1> QED
  BY <1>1, <1>4, SeqEqual

\* A name stands for one item.
LEMMA ItemIsUnique ==
  ASSUME NEW S, NEW array \in Seq(S), \A item \in S : item.log_id \in Nat,
         Sorted(array), NEW i \in DOMAIN array
  PROVE  /\ array[i].log_id \in Names(array)
         /\ Item(array, array[i].log_id) = array[i]
<1>1. \A j \in DOMAIN array : array[j] \in S /\ j \in Int
  OBVIOUS
<1>2. \A j \in DOMAIN array : array[j].log_id = array[i].log_id => j = i
  <2> TAKE j \in DOMAIN array
  <2>1. i < j => array[i].log_id < array[j].log_id
    BY DEF Sorted
  <2>2. j < i => array[j].log_id < array[i].log_id
    BY DEF Sorted
  <2>3. i \in Int /\ j \in Int /\ array[i].log_id \in Nat /\ array[j].log_id \in Nat
    BY <1>1
  <2> QED
    BY <2>1, <2>2, <2>3
<1>3. array[i] \in ToSet(array)
  BY DEF ToSet
<1>4. \A item \in ToSet(array) : item.log_id = array[i].log_id => item = array[i]
  BY <1>2 DEF ToSet
<1> QED
  BY <1>3, <1>4 DEF Names, Item

-------------------------------------------------------------------------------
(* Types and order.                                                        *)

LogRecords(n) ==
  [log_id : 1 .. n, timestamp : Time, sync_status : {"PENDING", "SYNCED"},
   synced_at : Time \cup {null}]

QueueRecords(n) == [log_id : 1 .. n, retry_count : 0 .. MaxRetryCount]

\* The name that logAttendance is about to append comes after all others.
NextInQueue ==
  job.op = "logAttendance" =>
    created \in Id /\ \A i \in DOMAIN syncQueue : syncQueue[i].log_id < created

ArraysInv == ArraysTypeOK /\ InCreationOrder /\ NextInQueue

LEMMA Constants ==
  /\ MaxLogs \in Nat /\ MaxRetryCount \in Nat /\ MaxTime \in Nat \ {0}
  /\ DAY \in Nat \ {0} /\ KEEP \in Nat \ {0} /\ DAY <= KEEP
  BY ArraysAssumption

LEMMA NamesGrow ==
  ASSUME NEW m \in Nat, NEW n \in Nat, m <= n
  PROVE  /\ \A array \in Seq(LogRecords(m)) : array \in Seq(LogRecords(n))
         /\ \A array \in Seq(QueueRecords(m)) : array \in Seq(QueueRecords(n))
<1>1. 1 .. m \subseteq 1 .. n
  OBVIOUS
<1>2. LogRecords(m) \subseteq LogRecords(n)
  BY <1>1 DEF LogRecords
<1>3. QueueRecords(m) \subseteq QueueRecords(n)
  BY <1>1 DEF QueueRecords
<1> QED
  BY <1>2, <1>3, SeqMonotonic

\* A map is an array of the same length.
LEMMA MapIsArray ==
  ASSUME NEW S, NEW array \in Seq(S), NEW T, NEW map \in [DOMAIN array -> T]
  PROVE  map \in Seq(T) /\ Len(map) = Len(array) /\ DOMAIN map = DOMAIN array
<1>1. Len(array) \in Nat /\ DOMAIN array = 1 .. Len(array)
  OBVIOUS
<1> QED
  BY <1>1

\* What the lemmas about arrays ask of the two that are stored.
LEMMA StoredArrays ==
  ASSUME ArraysInv
  PROVE  /\ created \in Nat /\ created <= MaxLogs
         /\ attendance \in Seq(LogRecords(created)) /\ Sorted(attendance)
         /\ syncQueue \in Seq(QueueRecords(created)) /\ Sorted(syncQueue)
         /\ \A item \in LogRecords(created) \cup QueueRecords(created) :
              item.log_id \in 1 .. created /\ item.log_id \in Nat
<1>1. created \in Nat /\ created <= MaxLogs
  BY Constants DEF ArraysInv, ArraysTypeOK
<1>2. \A item \in LogRecords(created) \cup QueueRecords(created) : item.log_id \in 1 .. created
  BY DEF LogRecords, QueueRecords
<1> QED
  BY <1>1, <1>2 DEF ArraysInv, ArraysTypeOK, InCreationOrder, LogRecords, QueueRecords

\* What is left to show of a step that leaves the queue alone.
LEMMA AttendanceChanges ==
  ASSUME ArraysInv, created' \in created .. MaxLogs,
         attendance' \in Seq(LogRecords(created')), Sorted(attendance'),
         UNCHANGED syncQueue,
         clock' \in Time, wiped' \subseteq 1 .. created',
         job'.op \in {"none", "logAttendance", "markRecordsSynced", "clearAllData"},
         job'.ids \subseteq 1 .. created',
         job'.op = "logAttendance" => created' > created
  PROVE  ArraysInv'
<1>1. /\ created \in Nat /\ created' \in Nat /\ created <= created' /\ created' <= MaxLogs
      /\ syncQueue \in Seq(QueueRecords(created)) /\ Sorted(syncQueue)
  BY StoredArrays, Constants
<1>2. syncQueue \in Seq(QueueRecords(created'))
  BY <1>1, NamesGrow
<1>3. /\ \A item \in LogRecords(created') : item.log_id \in 1 .. created'
      /\ \A item \in QueueRecords(created') : item.log_id \in 1 .. created'
  BY DEF LogRecords, QueueRecords
<1>4. Len(attendance') <= created'
  BY <1>1, <1>3, SortedIsShort
<1>5. Len(syncQueue) <= created'
  BY <1>1, <1>2, <1>3, SortedIsShort
<1>6. ArraysTypeOK'
  BY <1>1, <1>2, <1>4, <1>5, Constants DEF ArraysTypeOK, LogRecords, QueueRecords
<1>7. InCreationOrder'
  BY <1>1 DEF InCreationOrder, Sorted
<1>8. NextInQueue'
  <2> SUFFICES ASSUME job'.op = "logAttendance", NEW i \in DOMAIN syncQueue
               PROVE  created' \in Id /\ syncQueue[i].log_id < created'
    BY <1>1, Constants DEF NextInQueue, Id
  <2>1. syncQueue[i] \in QueueRecords(created)
    BY <1>1
  <2>2. syncQueue[i].log_id \in 1 .. created
    BY <2>1 DEF QueueRecords
  <2> QED
    BY <1>1, <2>2 DEF Id
<1> QED
  BY <1>6, <1>7, <1>8 DEF ArraysInv

\* What is left to show of a step that leaves the logs alone.
LEMMA QueueChanges ==
  ASSUME ArraysInv, UNCHANGED <<attendance, created, clock, wiped>>,
         syncQueue' \in Seq(QueueRecords(created)), Sorted(syncQueue'),
         job' = NoCall \/ UNCHANGED job,
         job' # NoCall => job.op # "logAttendance" \/ UNCHANGED syncQueue
  PROVE  ArraysInv'
<1>1. created \in Nat /\ \A item \in QueueRecords(created) : item.log_id \in 1 .. created
  BY StoredArrays
<1>2. Len(syncQueue') <= created
  BY <1>1, SortedIsShort
<1>3. job'.op \in {"none", "logAttendance", "markRecordsSynced", "clearAllData"}
      /\ job'.ids \subseteq 1 .. created
  BY DEF ArraysInv, ArraysTypeOK, NoCall, Call
<1>4. ArraysTypeOK'
  BY <1>2, <1>3 DEF ArraysInv, ArraysTypeOK, QueueRecords
<1>5. InCreationOrder'
  BY DEF ArraysInv, InCreationOrder, Sorted
<1>6. NextInQueue'
  BY DEF ArraysInv, NextInQueue, NoCall, Call
<1> QED
  BY <1>4, <1>5, <1>6 DEF ArraysInv

LEMMA EmptyIsSorted == \A S : <<>> \in Seq(S) /\ Sorted(<<>>)
  BY DEF Sorted

LEMMA InitArrays == ArraysInit => ArraysInv
<1> SUFFICES ASSUME ArraysInit
             PROVE  ArraysInv
  OBVIOUS
<1>1. clock \in Time /\ created \in 0 .. MaxLogs /\ Len(<<>>) <= created
  BY Constants DEF ArraysInit, Time
<1>2. job.op = "none" /\ job.ids = {}
  BY DEF ArraysInit, NoCall, Call
<1>3. attendance = <<>> /\ syncQueue = <<>> /\ wiped = {}
  BY DEF ArraysInit
<1>4. ArraysTypeOK
  BY <1>1, <1>2, <1>3, EmptyIsSorted DEF ArraysTypeOK
<1>5. InCreationOrder
  BY <1>3, EmptyIsSorted DEF InCreationOrder
<1>6. NextInQueue
  BY <1>2 DEF NextInQueue
<1> QED
  BY <1>4, <1>5, <1>6 DEF ArraysInv

\* An item with a later name goes to the end.
LEMMA AppendIsSorted ==
  ASSUME NEW S, NEW array \in Seq(S), Sorted(array), NEW item \in S,
         \A i \in DOMAIN array : array[i].log_id < item.log_id
  PROVE  Append(array, item) \in Seq(S) /\ Sorted(Append(array, item))
<1> DEFINE longer == Append(array, item)
<1>1. /\ longer \in Seq(S) /\ Len(longer) = Len(array) + 1
      /\ \A i \in 1 .. Len(array) : longer[i] = array[i]
      /\ longer[Len(array) + 1] = item
  BY AppendProperties
<1>2. Len(array) \in Nat /\ DOMAIN array = 1 .. Len(array) /\ DOMAIN longer = 1 .. Len(array) + 1
  BY <1>1
<1> HIDE DEF longer
<1>3. ASSUME NEW i \in DOMAIN longer, NEW j \in DOMAIN longer, i < j
      PROVE  longer[i].log_id < longer[j].log_id
  <2>1. i \in DOMAIN array
    BY <1>2, <1>3
  <2>2. j \in DOMAIN array \/ j = Len(array) + 1
    BY <1>2
  <2> QED
    BY <1>1, <1>2, <1>3, <2>1, <2>2 DEF Sorted
<1> QED
  BY <1>1, <1>3 DEF Sorted, longer

LEMMA LogAttendanceInv ==
  ASSUME ArraysInv, LogAttendance
  PROVE  ArraysInv'
<1> DEFINE log == [log_id |-> created + 1, timestamp |-> clock,
                   sync_status |-> "PENDING", synced_at |-> null]
<1>1. /\ created \in Nat /\ created + 1 \in created .. MaxLogs
      /\ attendance \in Seq(LogRecords(created)) /\ Sorted(attendance)
      /\ \A item \in LogRecords(created) : item.log_id \in 1 .. created
  BY StoredArrays, Constants DEF LogAttendance
<1>2. attendance \in Seq(LogRecords(created + 1))
  BY <1>1, NamesGrow
<1>3. log \in LogRecords(created + 1)
  BY <1>1 DEF LogRecords, ArraysInv, ArraysTypeOK
<1>4. \A i \in DOMAIN attendance : attendance[i].log_id < created + 1
  <2> TAKE i \in DOMAIN attendance
  <2>1. attendance[i] \in LogRecords(created)
    BY <1>1
  <2>2. attendance[i].log_id \in 1 .. created
    BY <1>1, <2>1
  <2> QED
    BY <1>1, <2>2
<1>5. Append(attendance, log) \in Seq(LogRecords(created + 1)) /\ Sorted(Append(attendance, log))
  BY <1>2, <1>3, <1>4, <1>1, AppendIsSorted
<1>6. attendance' = Append(attendance, log) /\ created' = created + 1
  BY DEF LogAttendance
<1>7. clock' \in Time /\ wiped' \subseteq 1 .. created' /\ job' = Call("logAttendance", {created'})
  BY <1>1, <1>6 DEF LogAttendance, ArraysInv, ArraysTypeOK
<1> QED
  BY <1>1, <1>5, <1>6, <1>7, AttendanceChanges DEF LogAttendance, Call

LEMMA EnqueueLogInv ==
  ASSUME ArraysInv, EnqueueLog
  PROVE  ArraysInv'
<1> DEFINE item == [log_id |-> created, retry_count |-> 0]
<1>1. created \in Id /\ \A i \in DOMAIN syncQueue : syncQueue[i].log_id < created
  BY DEF ArraysInv, NextInQueue, EnqueueLog
<1>2. item \in QueueRecords(created)
  BY <1>1, Constants DEF QueueRecords, Id
<1>3. Append(syncQueue, item) \in Seq(QueueRecords(created)) /\ Sorted(Append(syncQueue, item))
  BY <1>1, <1>2, StoredArrays, AppendIsSorted
<1> QED
  BY <1>3, QueueChanges DEF EnqueueLog, history

\* A map that leaves the names alone leaves the order alone.
LEMMA MapIsSorted ==
  ASSUME NEW S, NEW array \in Seq(S), Sorted(array), NEW T, NEW map \in [DOMAIN array -> T],
         \A i \in DOMAIN array : map[i].log_id = array[i].log_id
  PROVE  map \in Seq(T) /\ Sorted(map)
<1>1. map \in Seq(T) /\ DOMAIN map = DOMAIN array
  BY MapIsArray
<1> QED
  BY <1>1 DEF Sorted

LEMMA MarkRecordsSyncedInv ==
  ASSUME ArraysInv, NEW ids \in SUBSET (1 .. created), MarkRecordsSynced(ids)
  PROVE  ArraysInv'
<1>1. /\ created \in Nat /\ created <= MaxLogs
      /\ attendance \in Seq(LogRecords(created)) /\ Sorted(attendance)
  BY StoredArrays
<1>2. clock \in Time
  BY DEF ArraysInv, ArraysTypeOK
<1>3. \A i \in DOMAIN attendance : attendance[i] \in LogRecords(created)
  BY <1>1
<1>4. \A i \in DOMAIN attendance :
        /\ attendance'[i] \in LogRecords(created)
        /\ attendance'[i].log_id = attendance[i].log_id
  BY <1>2, <1>3 DEF MarkRecordsSynced, LogRecords
<1>5. attendance' \in [DOMAIN attendance -> LogRecords(created)]
  BY <1>4 DEF MarkRecordsSynced
<1>6. attendance' \in Seq(LogRecords(created)) /\ Sorted(attendance')
  BY <1>1, <1>4, <1>5, MapIsSorted
<1>7. created' = created /\ job'.op = "markRecordsSynced" /\ job'.ids = ids
  BY DEF MarkRecordsSynced, history, Call
<1>8. clock' \in Time /\ wiped' \subseteq 1 .. created' /\ UNCHANGED syncQueue
  BY <1>2 DEF MarkRecordsSynced, history, ArraysInv, ArraysTypeOK
<1>9. created' \in created .. MaxLogs
  BY <1>1, <1>7, Constants
<1> QED
  BY <1>6, <1>7, <1>8, <1>9, AttendanceChanges

LEMMA RemoveSyncedInv ==
  ASSUME ArraysInv, RemoveSynced
  PROVE  ArraysInv'
<1>1. syncQueue' \in Seq(QueueRecords(created)) /\ Sorted(syncQueue')
  BY StoredArrays, FilterKeeps, FilterIsSorted DEF RemoveSynced, RemoveFromArray
<1> QED
  BY <1>1, QueueChanges DEF RemoveSynced, history

LEMMA IncrementRetryCountInv ==
  ASSUME ArraysInv, NEW id, IncrementRetryCount(id)
  PROVE  ArraysInv'
<1>1. syncQueue \in Seq(QueueRecords(created)) /\ Sorted(syncQueue)
  BY StoredArrays
<1>2. \A i \in DOMAIN syncQueue :
        syncQueue[i] \in QueueRecords(created) /\ syncQueue[i].retry_count < MaxRetryCount
  BY <1>1 DEF IncrementRetryCount
<1>3. \A i \in DOMAIN syncQueue :
        /\ syncQueue'[i] \in QueueRecords(created)
        /\ syncQueue'[i].log_id = syncQueue[i].log_id
  BY <1>2, Constants DEF IncrementRetryCount, QueueRecords
<1>4. syncQueue' \in [DOMAIN syncQueue -> QueueRecords(created)]
  BY <1>3 DEF IncrementRetryCount
<1>5. syncQueue' \in Seq(QueueRecords(created)) /\ Sorted(syncQueue')
  BY <1>1, <1>3, <1>4, MapIsSorted
<1> QED
  BY <1>5, QueueChanges DEF IncrementRetryCount, history, Idle, NoCall, Call

LEMMA PurgeInv ==
  ASSUME ArraysInv, PurgeOldSyncedLogs
  PROVE  ArraysInv'
<1>1. attendance' \in Seq(LogRecords(created)) /\ Sorted(attendance')
  BY StoredArrays, FilterKeeps, FilterIsSorted DEF PurgeOldSyncedLogs
<1>2. created \in created .. MaxLogs
  BY StoredArrays, Constants
<1> QED
  BY <1>1, <1>2, AttendanceChanges
  DEF PurgeOldSyncedLogs, history, Idle, NoCall, Call, ArraysInv, ArraysTypeOK

LEMMA ClearAllDataInv ==
  ASSUME ArraysInv, ClearAllData
  PROVE  ArraysInv'
<1>1. created \in created .. MaxLogs
  BY StoredArrays, Constants
<1>2. \A i \in DOMAIN attendance : attendance[i] \in LogRecords(created)
  BY StoredArrays
<1>3. Names(attendance) \subseteq 1 .. created
  BY <1>2 DEF Names, ToSet, LogRecords
<1>4. attendance' \in Seq(LogRecords(created)) /\ Sorted(attendance')
  BY EmptyIsSorted DEF ClearAllData
<1> QED
  BY <1>1, <1>3, <1>4, AttendanceChanges DEF ClearAllData, Call, ArraysInv, ArraysTypeOK

LEMMA ClearQueueInv ==
  ASSUME ArraysInv, ClearQueue
  PROVE  ArraysInv'
<1>1. syncQueue' \in Seq(QueueRecords(created)) /\ Sorted(syncQueue')
  BY EmptyIsSorted DEF ClearQueue
<1> QED
  BY <1>1, QueueChanges DEF ClearQueue, history

LEMMA CrashInv ==
  ASSUME ArraysInv, Crash
  PROVE  ArraysInv'
  BY StoredArrays, QueueChanges DEF Crash, arrays, history

LEMMA ClockMovesInv ==
  ASSUME ArraysInv, clock' \in Time, UNCHANGED <<arrays, history, job>>
  PROVE  ArraysInv'
  BY DEF arrays, history, ArraysInv, ArraysTypeOK, InCreationOrder, NextInQueue

LEMMA StepArrays == ArraysInv /\ [ArraysNext]_arrayVars => ArraysInv'
<1> SUFFICES ASSUME ArraysInv, [ArraysNext]_arrayVars
             PROVE  ArraysInv'
  OBVIOUS
<1>1. CASE UNCHANGED arrayVars
  BY <1>1, ClockMovesInv DEF arrayVars, ArraysInv, ArraysTypeOK
<1>2. CASE ClockMoves
  BY <1>2, ClockMovesInv DEF ClockMoves
<1>3. ASSUME NEW ids \in SUBSET (1 .. created), MarkRecordsSynced(ids)
      PROVE  ArraysInv'
  BY <1>3, MarkRecordsSyncedInv
<1>4. ASSUME NEW id \in 1 .. created, IncrementRetryCount(id)
      PROVE  ArraysInv'
  BY <1>4, IncrementRetryCountInv
<1>5. CASE LogAttendance \/ EnqueueLog \/ RemoveSynced
  BY <1>5, LogAttendanceInv, EnqueueLogInv, RemoveSyncedInv
<1>6. CASE PurgeOldSyncedLogs \/ ClearAllData \/ ClearQueue \/ Crash
  BY <1>6, PurgeInv, ClearAllDataInv, ClearQueueInv, CrashInv
<1> QED
  BY <1>1, <1>2, <1>3, <1>4, <1>5, <1>6 DEF ArraysNext

LEMMA ArraysInvariant == ArraysSpec => []ArraysInv
  BY InitArrays, StepArrays, PTL DEF ArraysSpec

\* The arrays keep their types and never hold more records than were made,
\* however calls, deaths of the process and the clock follow each other.
THEOREM ArraysTypeCorrect == ArraysSpec => []ArraysTypeOK
<1>1. ArraysInv => ArraysTypeOK
  BY DEF ArraysInv
<1> QED
  BY <1>1, ArraysInvariant, PTL

\* Every filter and map of every call keeps both arrays in order of creation
\* and free of duplicates.
THEOREM CreationOrderKept == ArraysSpec => []InCreationOrder
<1>1. ArraysInv => InCreationOrder
  BY DEF ArraysInv
<1> QED
  BY <1>1, ArraysInvariant, PTL

-------------------------------------------------------------------------------
(* The last sync shown.                                                    *)

\* A log's time of sync is never after that of the last mark, as long as the
\* clock is not set back, and the logs of the last mark still carry its time.
MarkInv ==
  /\ lastMark.ids \subseteq 1 .. created
  /\ lastMark.at \in Time \cup {null}
  /\ lastMark.ids # {} => lastMark.at \in Time
  /\ setBack \in BOOLEAN
  /\ ~ setBack => lastMark.at <= clock
  /\ ~ setBack => \A i \in DOMAIN attendance : attendance[i].synced_at <= lastMark.at
  /\ \A i \in DOMAIN attendance :
       attendance[i].log_id \in lastMark.ids => attendance[i].synced_at = lastMark.at

LEMMA InitMark == ArraysInit => MarkInv
<1> SUFFICES ASSUME ArraysInit
             PROVE  MarkInv
  OBVIOUS
<1>1. clock = 1 /\ setBack = FALSE /\ lastMark.at = null /\ lastMark.ids = {}
  BY DEF ArraysInit
<1>2. DOMAIN attendance = {}
  BY DEF ArraysInit
<1>3. setBack \in BOOLEAN
  BY <1>1, Zenon
<1>4. lastMark.ids \subseteq 1 .. created /\ lastMark.at <= clock
  BY <1>1 DEF null
<1> QED
  BY <1>1, <1>2, <1>3, <1>4, Zenon DEF MarkInv

\* Steps that mark nothing keep, drop or append logs.
LEMMA MarkKept ==
  ASSUME ArraysInv, MarkInv, UNCHANGED <<clock, lastMark, setBack>>,
         created' \in {created, created + 1},
         \A i \in DOMAIN attendance' :
           \/ \E k \in DOMAIN attendance : attendance'[i] = attendance[k]
           \/ attendance'[i].log_id = created + 1 /\ attendance'[i].synced_at = null
  PROVE  MarkInv'
<1>1. created \in Nat /\ 1 .. created \subseteq 1 .. created'
  BY StoredArrays
<1>2. lastMark.at \in Nat /\ clock \in Nat
  BY DEF ArraysInv, ArraysTypeOK, MarkInv, Time, null
<1>3. ASSUME NEW i \in DOMAIN attendance'
      PROVE  /\ ~ setBack => attendance'[i].synced_at <= lastMark.at
             /\ attendance'[i].log_id \in lastMark.ids =>
                  attendance'[i].synced_at = lastMark.at
  <2>1. CASE \E k \in DOMAIN attendance : attendance'[i] = attendance[k]
    BY <2>1 DEF MarkInv
  <2>2. CASE attendance'[i].log_id = created + 1 /\ attendance'[i].synced_at = null
    <3>1. created + 1 \notin 1 .. created
      BY <1>1
    <3> QED
      BY <1>2, <2>2, <3>1 DEF MarkInv, null
  <2> QED
    BY <1>3, <2>1, <2>2
<1> QED
  BY <1>1, <1>3 DEF MarkInv

LEMMA LogAttendanceMark ==
  ASSUME ArraysInv, MarkInv, LogAttendance
  PROVE  MarkInv'
<1>1. attendance \in Seq(LogRecords(created)) /\ created \in Nat
  BY StoredArrays
<1> DEFINE log == [log_id |-> created + 1, timestamp |-> clock,
                   sync_status |-> "PENDING", synced_at |-> null]
           T == LogRecords(created) \cup {log}
<1>2. attendance \in Seq(T) /\ log \in T
  <2>1. LogRecords(created) \subseteq T
    OBVIOUS
  <2> QED
    BY <1>1, <2>1, SeqMonotonic
<1>3. attendance' = Append(attendance, log)
  BY DEF LogAttendance
<1>4. /\ Len(attendance') = Len(attendance) + 1
      /\ \A i \in 1 .. Len(attendance) : attendance'[i] = attendance[i]
      /\ attendance'[Len(attendance) + 1] = log
      /\ attendance' \in Seq(T)
  BY <1>2, <1>3, AppendProperties
<1>5. /\ Len(attendance) \in Nat /\ DOMAIN attendance = 1 .. Len(attendance)
      /\ DOMAIN attendance' = 1 .. Len(attendance')
  BY <1>2, <1>4
<1>6. log.log_id = created + 1 /\ log.synced_at = null
  OBVIOUS
<1> HIDE DEF log
<1>7. ASSUME NEW i \in DOMAIN attendance'
      PROVE  \/ \E k \in DOMAIN attendance : attendance'[i] = attendance[k]
             \/ attendance'[i].log_id = created + 1 /\ attendance'[i].synced_at = null
  <2>1. i \in 1 .. Len(attendance) \/ i = Len(attendance) + 1
    BY <1>4, <1>5
  <2> QED
    BY <1>4, <1>5, <1>6, <2>1
<1> QED
  BY <1>7, MarkKept DEF LogAttendance

LEMMA PurgeMark ==
  ASSUME ArraysInv, MarkInv, PurgeOldSyncedLogs
  PROVE  MarkInv'
<1>1. attendance \in Seq(LogRecords(created))
  BY StoredArrays
<1>2. PICK places \in SUBSET DOMAIN attendance : attendance' = Filter(attendance, places)
  BY DEF PurgeOldSyncedLogs
<1>3. /\ attendance' \in Seq(LogRecords(created))
      /\ \A n \in 1 .. Len(attendance') : \E k \in places : attendance'[n] = attendance[k]
  BY <1>1, <1>2, FilterKeeps
<1>4. \A n \in DOMAIN attendance' : \E k \in DOMAIN attendance : attendance'[n] = attendance[k]
  BY <1>3
<1> QED
  BY <1>4, MarkKept DEF PurgeOldSyncedLogs, history

LEMMA MarkRecordsSyncedMark ==
  ASSUME ArraysInv, MarkInv, NEW ids \in SUBSET (1 .. created), MarkRecordsSynced(ids)
  PROVE  MarkInv'
<1> DEFINE found == ids \cap Names(attendance)
<1>1. /\ DOMAIN attendance' = DOMAIN attendance
      /\ UNCHANGED <<clock, created, setBack>>
      /\ \A i \in DOMAIN attendance : attendance[i].log_id \notin ids =>
           attendance'[i] = attendance[i]
  BY DEF MarkRecordsSynced, history
<1>2. \A i \in DOMAIN attendance : attendance[i].log_id \in Names(attendance)
  BY DEF Names, ToSet
<1>3. CASE found = {}
  <2>1. \A i \in DOMAIN attendance' :
          \E k \in DOMAIN attendance : attendance'[i] = attendance[k]
    BY <1>1, <1>2, <1>3
  <2>2. UNCHANGED lastMark
    BY <1>3 DEF MarkRecordsSynced
  <2> QED
    BY <1>1, <2>1, <2>2, MarkKept
<1>4. CASE found # {}
  <2>1. lastMark'.at = clock /\ lastMark'.ids = found
    BY <1>4 DEF MarkRecordsSynced
  <2>2. clock \in Time /\ clock \in Int /\ lastMark.at \in Int
    BY DEF ArraysInv, ArraysTypeOK, MarkInv, Time, null
  <2>3. attendance \in Seq(LogRecords(created))
    BY StoredArrays
  <2>4. ASSUME NEW i \in DOMAIN attendance
        PROVE  /\ ~ setBack => attendance'[i].synced_at <= clock
               /\ attendance'[i].log_id \in found => attendance'[i].synced_at = clock
    <3>1. attendance[i] \in LogRecords(created)
      BY <2>3
    <3>2. attendance[i].synced_at \in Int
      BY <3>1 DEF LogRecords, Time, null
    <3>3. CASE attendance[i].log_id \in ids
      <4>1. attendance'[i] =
              [attendance[i] EXCEPT !.sync_status = "SYNCED", !.synced_at = clock]
        BY <3>3 DEF MarkRecordsSynced
      <4>2. attendance'[i].synced_at = clock
        BY <3>1, <4>1 DEF LogRecords
      <4> QED
        BY <2>2, <4>2
    <3>4. CASE attendance[i].log_id \notin ids
      <4>1. attendance'[i] = attendance[i]
        BY <1>1, <3>4
      <4>2. ~ setBack => attendance[i].synced_at <= lastMark.at /\ lastMark.at <= clock
        BY DEF MarkInv
      <4> QED
        BY <2>2, <3>2, <3>4, <4>1, <4>2
    <3> QED
      BY <3>3, <3>4
  <2>5. \A i \in DOMAIN attendance' :
          /\ ~ setBack' => attendance'[i].synced_at <= lastMark'.at
          /\ attendance'[i].log_id \in lastMark'.ids =>
               attendance'[i].synced_at = lastMark'.at
    BY <1>1, <2>1, <2>4
  <2>6. lastMark'.at <= clock'
    BY <1>1, <2>1, <2>2
  <2>7. found \subseteq 1 .. created'
    BY <1>1
  <2>8. setBack' \in BOOLEAN
    BY <1>1, Zenon DEF MarkInv
  <2> HIDE DEF found
  <2> QED
    BY <2>1, <2>2, <2>5, <2>6, <2>7, <2>8 DEF MarkInv
<1> QED
  BY <1>3, <1>4

LEMMA ClockMovesMark ==
  ASSUME ArraysInv, MarkInv, ClockMoves
  PROVE  MarkInv'
<1>1. clock \in Int /\ clock' \in Int /\ lastMark.at \in Int
  BY DEF ArraysInv, ArraysTypeOK, MarkInv, ClockMoves, Time, null
<1>2. UNCHANGED <<attendance, created, lastMark>> /\ setBack' = (setBack \/ clock' < clock)
  BY DEF ClockMoves, arrays, history
<1>3. setBack' \in BOOLEAN /\ (~ setBack' => ~ setBack /\ ~ (clock' < clock))
  BY <1>2, Zenon DEF MarkInv
<1>4. ~ setBack' => lastMark'.at <= clock'
  <2>1. ~ setBack' => lastMark.at <= clock /\ ~ (clock' < clock)
    BY <1>3, Zenon DEF MarkInv
  <2>2. lastMark.at <= clock /\ ~ (clock' < clock) => lastMark.at <= clock'
    BY <1>1
  <2> QED
    BY <1>2, <2>1, <2>2
<1> QED
  BY <1>2, <1>3, <1>4, Zenon DEF MarkInv

LEMMA StepMark == ArraysInv /\ MarkInv /\ [ArraysNext]_arrayVars => MarkInv'
<1> SUFFICES ASSUME ArraysInv, MarkInv, [ArraysNext]_arrayVars
             PROVE  MarkInv'
  OBVIOUS
<1>1. CASE LogAttendance \/ PurgeOldSyncedLogs \/ ClockMoves
  BY <1>1, LogAttendanceMark, PurgeMark, ClockMovesMark
<1>2. ASSUME NEW ids \in SUBSET (1 .. created), MarkRecordsSynced(ids)
      PROVE  MarkInv'
  BY <1>2, MarkRecordsSyncedMark
<1>3. CASE ClearAllData
  <2>1. DOMAIN attendance' = {}
    BY <1>3 DEF ClearAllData
  <2> QED
    BY <1>3, <2>1, MarkKept DEF ClearAllData
<1>4. CASE UNCHANGED <<attendance, created, clock, lastMark, setBack>>
  BY <1>4 DEF MarkInv
<1>5. ASSUME NEW id \in 1 .. created, IncrementRetryCount(id)
      PROVE  MarkInv'
  BY <1>4, <1>5 DEF IncrementRetryCount, history
<1>6. CASE EnqueueLog \/ RemoveSynced \/ ClearQueue \/ Crash \/ UNCHANGED arrayVars
  BY <1>4, <1>6 DEF EnqueueLog, RemoveSynced, ClearQueue, Crash, arrayVars, arrays, history
<1> QED
  BY <1>1, <1>2, <1>3, <1>5, <1>6 DEF ArraysNext

\* The greatest time of sync in the array is the last mark's.
LEMMA LastMarkIsShown == ArraysInv /\ MarkInv => LastSyncShown
<1> SUFFICES ASSUME ArraysInv, MarkInv, ~ setBack, lastMark.ids \cap Names(attendance) # {}
             PROVE  LastSyncAt = lastMark.at
  BY DEF LastSyncShown
<1> DEFINE times == {log.synced_at : log \in ToSet(attendance)} \ {null}
<1>1. attendance \in Seq(LogRecords(created))
  BY StoredArrays
<1>2. \A i \in DOMAIN attendance : attendance[i].synced_at \in Time \cup {null}
  <2>1. \A i \in DOMAIN attendance : attendance[i] \in LogRecords(created)
    BY <1>1
  <2> QED
    BY <2>1 DEF LogRecords
<1>3. \A time \in times : \E i \in DOMAIN attendance : time = attendance[i].synced_at
  BY DEF ToSet
<1>4. times \in SUBSET Nat
  BY <1>2, <1>3 DEF Time, null
<1>5. lastMark.at \in Nat /\ lastMark.at # null /\ \A time \in times : time <= lastMark.at
  BY <1>3 DEF MarkInv, Time, null
<1>6. lastMark.at \in times
  <2>1. PICK i \in DOMAIN attendance : attendance[i].log_id \in lastMark.ids
    BY DEF Names, ToSet
  <2>2. attendance[i].synced_at = lastMark.at /\ attendance[i] \in ToSet(attendance)
    BY <2>1 DEF MarkInv, ToSet
  <2> QED
    BY <1>5, <2>2
<1>7. LastSyncAt = IF times = {} THEN null ELSE Max(times)
  BY DEF LastSyncAt
<1> HIDE DEF times
<1>8. Max(times) \in times /\ \A time \in times : Max(times) >= time
  BY <1>4, <1>5, <1>6, MaxExists
<1>9. Max(times) = lastMark.at
  BY <1>4, <1>5, <1>6, <1>8
<1> QED
  BY <1>6, <1>7, <1>9

\* The last sync on the Sync Status screen is the last markRecordsSynced that
\* marked a log that is still stored.
THEOREM LastSyncIsShown == ArraysSpec => []LastSyncShown
  BY InitArrays, StepArrays, InitMark, StepMark, LastMarkIsShown, PTL DEF ArraysSpec

-------------------------------------------------------------------------------
(* The purge.                                                              *)

\* What is old enough for the purge is older than today.
LEMMA TodayIsRecent ==
  ASSUME clock \in Time
  PROVE  TodayStart \in Int /\ PurgeLimit \in Int /\ PurgeLimit < TodayStart
<1>1. clock \in Nat /\ DAY \in Nat \ {0} /\ KEEP \in Nat /\ DAY <= KEEP
  BY Constants DEF Time
<1>2. clock \div DAY \in Int
  BY <1>1
<1>3. (clock \div DAY) * DAY > clock - DAY
  BY <1>1, SMTT(30)
<1> QED
  BY <1>1, <1>2, <1>3 DEF TodayStart, PurgeLimit

LEMMA PurgeKeeps ==
  ASSUME ArraysInv, PurgeOldSyncedLogs
  PROVE  TodayAttendance(attendance') = TodayAttendance(attendance)
<1> DEFINE S == LogRecords(created)
           places == {i \in DOMAIN attendance :
             attendance[i].sync_status # "SYNCED" \/ attendance[i].timestamp > PurgeLimit}
           kept == Filter(attendance, places)
           today == {i \in DOMAIN attendance : attendance[i].timestamp >= TodayStart}
           todayKept == {i \in DOMAIN kept : kept[i].timestamp >= TodayStart}
<1>1. attendance \in Seq(S) /\ Sorted(attendance) /\ \A item \in S : item.log_id \in Nat
  BY StoredArrays
<1>2. \A i \in DOMAIN attendance : attendance[i].timestamp \in Int
  <2>1. \A i \in DOMAIN attendance : attendance[i] \in S
    BY <1>1
  <2> QED
    BY <2>1 DEF LogRecords, Time
<1>3. TodayStart \in Int /\ PurgeLimit \in Int /\ PurgeLimit < TodayStart
  BY TodayIsRecent DEF ArraysInv, ArraysTypeOK
<1>4. today \in SUBSET places
  BY <1>2, <1>3
<1>5. attendance' = kept
  BY DEF PurgeOldSyncedLogs
<1>6. places \in SUBSET DOMAIN attendance /\ today \in SUBSET DOMAIN attendance
  OBVIOUS
<1>7. todayKept \in SUBSET DOMAIN kept
  OBVIOUS
<1> HIDE DEF S, places
<1>8. /\ kept \in Seq(S) /\ Sorted(kept)
      /\ \A n \in 1 .. Len(kept) : \E k \in places : kept[n] = attendance[k]
      /\ \A k \in places : \E n \in 1 .. Len(kept) : kept[n] = attendance[k]
  BY <1>1, <1>6, FilterKeeps, FilterIsSorted
<1> HIDE DEF kept
<1>9. DOMAIN kept = 1 .. Len(kept)
  BY <1>8
<1>10. ASSUME NEW n \in todayKept
       PROVE  \E k \in today : attendance[k] = kept[n]
  <2>1. PICK k \in places : kept[n] = attendance[k]
    BY <1>8, <1>9
  <2>2. k \in today
    BY <1>6, <2>1
  <2> QED
    BY <2>1, <2>2
<1>11. ASSUME NEW k \in today
       PROVE  \E n \in todayKept : kept[n] = attendance[k]
  <2>1. PICK n \in 1 .. Len(kept) : kept[n] = attendance[k]
    BY <1>4, <1>8
  <2>2. n \in todayKept
    BY <1>9, <2>1
  <2> QED
    BY <2>1, <2>2
<1>12. TodayStart' = TodayStart
  BY DEF TodayStart, PurgeOldSyncedLogs
<1>13. /\ TodayAttendance(attendance') = Filter(kept, todayKept)
       /\ TodayAttendance(attendance) = Filter(attendance, today)
  BY <1>5 DEF TodayAttendance
<1> HIDE DEF today, todayKept
<1>14. {kept[n] : n \in todayKept} = {attendance[k] : k \in today}
  BY <1>10, <1>11
<1>15. /\ Filter(kept, todayKept) \in Seq(S) /\ Sorted(Filter(kept, todayKept))
       /\ ToSet(Filter(kept, todayKept)) = {kept[n] : n \in todayKept}
  BY <1>7, <1>8, FilterKeeps, FilterIsSorted, FilterItems
<1>16. /\ Filter(attendance, today) \in Seq(S) /\ Sorted(Filter(attendance, today))
       /\ ToSet(Filter(attendance, today)) = {attendance[k] : k \in today}
  BY <1>1, <1>6, FilterKeeps, FilterIsSorted, FilterItems
<1>17. Filter(kept, todayKept) = Filter(attendance, today)
  BY <1>1, <1>14, <1>15, <1>16, SortedSame
<1> QED
  BY <1>13, <1>17

\* Of the steps that make the array shorter, only the purge starts no call.
LEMMA StepPurge ==
  ArraysInv /\ [ArraysNext]_arrayVars =>
    (clock' = clock /\ job' = job /\ Len(attendance') < Len(attendance)
       => TodayAttendance(attendance') = TodayAttendance(attendance))
<1> SUFFICES ASSUME ArraysInv, [ArraysNext]_arrayVars, job' = job,
                    Len(attendance') < Len(attendance)
             PROVE  TodayAttendance(attendance') = TodayAttendance(attendance)
  OBVIOUS
<1>1. Len(attendance) \in Nat
  BY StoredArrays
<1>2. attendance' # attendance
  BY <1>1
<1>3. ~ LogAttendance /\ ~ ClearAllData
  BY DEF LogAttendance, ClearAllData, Idle, NoCall, Call
<1>4. ASSUME NEW ids \in SUBSET (1 .. created), MarkRecordsSynced(ids)
      PROVE  FALSE
  <2>1. job = NoCall /\ job' = Call("markRecordsSynced", ids)
    BY <1>4 DEF MarkRecordsSynced, Idle
  <2> QED
    BY <2>1 DEF NoCall, Call
<1>5. \A id \in 1 .. created : ~ IncrementRetryCount(id)
  BY <1>2 DEF IncrementRetryCount
<1>6. ~ EnqueueLog /\ ~ RemoveSynced /\ ~ ClearQueue /\ ~ Crash /\ ~ ClockMoves
  BY <1>2 DEF EnqueueLog, RemoveSynced, ClearQueue, Crash, ClockMoves, arrays
<1>7. ~ UNCHANGED arrayVars
  BY <1>2 DEF arrayVars, arrays
<1>8. PurgeOldSyncedLogs
  BY <1>3, <1>4, <1>5, <1>6, <1>7 DEF ArraysNext
<1> QED
  BY <1>8, PurgeKeeps

\* A purge takes nothing from today's attendance, for any retention of a day
\* and more and wherever the clock was set.
THEOREM PurgeSparesToday == ArraysSpec => PurgeKeepsToday
<1>1. ArraysInv /\ [ArraysNext]_arrayVars =>
        [clock' = clock /\ job' = job /\ Len(attendance') < Len(attendance)
           => TodayAttendance(attendance') = TodayAttendance(attendance)]_arrayVars
  BY StepPurge
<1> QED
  BY <1>1, ArraysInvariant, PTL DEF ArraysSpec, PurgeKeepsToday

-------------------------------------------------------------------------------
(* The arrays are the functions of DatabaseService.tla.                    *)

StatusOf(array) == [id \in Names(array) |-> Item(array, id).sync_status]
CountOf(array) == [id \in Names(array) |-> Item(array, id).retry_count]

LEMMA NamesAre == \A array : Names(array) = {array[i].log_id : i \in DOMAIN array}
  BY DEF Names, ToSet

LEMMA StatusAt ==
  ASSUME NEW n \in Nat, NEW array \in Seq(LogRecords(n)), Sorted(array)
  PROVE  /\ DOMAIN StatusOf(array) = Names(array)
         /\ \A i \in DOMAIN array :
              /\ array[i].log_id \in Names(array)
              /\ StatusOf(array)[array[i].log_id] = array[i].sync_status
<1>1. \A item \in LogRecords(n) : item.log_id \in Nat
  BY DEF LogRecords
<1>2. \A i \in DOMAIN array :
        array[i].log_id \in Names(array) /\ Item(array, array[i].log_id) = array[i]
  BY <1>1, ItemIsUnique
<1> QED
  BY <1>2 DEF StatusOf

LEMMA StatusIs ==
  ASSUME NEW n \in Nat, NEW array \in Seq(LogRecords(n)), Sorted(array),
         NEW f, f = [id \in Names(array) |-> f[id]],
         \A i \in DOMAIN array : f[array[i].log_id] = array[i].sync_status
  PROVE  StatusOf(array) = f
<1>1. \A id \in Names(array) : \E i \in DOMAIN array : array[i].log_id = id
  BY NamesAre
<1>2. \A i \in DOMAIN array : StatusOf(array)[array[i].log_id] = array[i].sync_status
  BY StatusAt
<1>3. \A id \in Names(array) : StatusOf(array)[id] = f[id]
  BY <1>1, <1>2
<1>4. StatusOf(array) = [id \in Names(array) |-> StatusOf(array)[id]]
  BY DEF StatusOf
<1> QED
  BY <1>3, <1>4

LEMMA CountAt ==
  ASSUME NEW n \in Nat, NEW array \in Seq(QueueRecords(n)), Sorted(array)
  PROVE  /\ DOMAIN CountOf(array) = Names(array)
         /\ \A i \in DOMAIN array :
              /\ array[i].log_id \in Names(array)
              /\ CountOf(array)[array[i].log_id] = array[i].retry_count
<1>1. \A item \in QueueRecords(n) : item.log_id \in Nat
  BY DEF QueueRecords
<1>2. \A i \in DOMAIN array :
        array[i].log_id \in Names(array) /\ Item(array, array[i].log_id) = array[i]
  BY <1>1, ItemIsUnique
<1> QED
  BY <1>2 DEF CountOf

LEMMA CountIs ==
  ASSUME NEW n \in Nat, NEW array \in Seq(QueueRecords(n)), Sorted(array),
         NEW f, f = [id \in Names(array) |-> f[id]],
         \A i \in DOMAIN array : f[array[i].log_id] = array[i].retry_count
  PROVE  CountOf(array) = f
<1>1. \A id \in Names(array) : \E i \in DOMAIN array : array[i].log_id = id
  BY NamesAre
<1>2. \A i \in DOMAIN array : CountOf(array)[array[i].log_id] = array[i].retry_count
  BY CountAt
<1>3. \A id \in Names(array) : CountOf(array)[id] = f[id]
  BY <1>1, <1>2
<1>4. CountOf(array) = [id \in Names(array) |-> CountOf(array)[id]]
  BY DEF CountOf
<1> QED
  BY <1>3, <1>4

\* An item at the end adds its name.
LEMMA AppendedItems ==
  ASSUME NEW S, NEW array \in Seq(S), NEW item \in S
  PROVE  LET longer == Append(array, item)
         IN  /\ Names(longer) = Names(array) \cup {item.log_id}
             /\ \A i \in DOMAIN longer :
                  longer[i] = item \/ (i \in DOMAIN array /\ longer[i] = array[i])
<1> DEFINE longer == Append(array, item)
<1>1. /\ longer \in Seq(S) /\ Len(longer) = Len(array) + 1
      /\ \A i \in 1 .. Len(array) : longer[i] = array[i]
      /\ longer[Len(array) + 1] = item
  BY AppendProperties
<1>2. Len(array) \in Nat /\ DOMAIN array = 1 .. Len(array)
  OBVIOUS
<1>3. DOMAIN longer = 1 .. Len(array) + 1
  BY <1>1
<1> HIDE DEF longer
<1>4. \A i \in DOMAIN longer : i \in DOMAIN array \/ i = Len(array) + 1
  BY <1>2, <1>3
<1>5. DOMAIN array \subseteq DOMAIN longer /\ Len(array) + 1 \in DOMAIN longer
  BY <1>2, <1>3
<1>6. \A i \in DOMAIN longer : longer[i] = item \/ (i \in DOMAIN array /\ longer[i] = array[i])
  BY <1>1, <1>2, <1>4
<1>7. {longer[i].log_id : i \in DOMAIN longer} =
        {array[i].log_id : i \in DOMAIN array} \cup {item.log_id}
  BY <1>1, <1>2, <1>4, <1>5
<1>8. Names(longer) = Names(array) \cup {item.log_id}
  BY <1>7, NamesAre
<1> QED
  BY <1>6, <1>8 DEF longer

\* A map that leaves the names alone stores the same names.
LEMMA MappedNames ==
  ASSUME NEW array, NEW map, DOMAIN map = DOMAIN array,
         \A i \in DOMAIN array : map[i].log_id = array[i].log_id
  PROVE  Names(map) = Names(array)
  BY NamesAre

LEMMA EmptyNames == Names(<<>>) = {}
  BY NamesAre

-------------------------------------------------------------------------------
(* Every write of an array is a step of the store.                         *)

storeVars == <<LogsOf, QueueOf, created, wiped, JobOf>>

LEMMA StoreFunctions ==
  /\ LogsOf = StatusOf(attendance) /\ LogsOf' = StatusOf(attendance')
  /\ QueueOf = CountOf(syncQueue) /\ QueueOf' = CountOf(syncQueue')
  BY DEF LogsOf, QueueOf, StatusOf, CountOf

LEMMA InitStore == ArraysInit => Store!DbInit
<1> SUFFICES ASSUME ArraysInit
             PROVE  Store!DbInit
  OBVIOUS
<1>1. attendance = <<>> /\ syncQueue = <<>> /\ created = 0 /\ wiped = {} /\ job.op = "none"
  BY DEF ArraysInit, NoCall, Call
<1>2. LogsOf = Store!Empty /\ QueueOf = Store!Empty
  BY <1>1, EmptyNames DEF LogsOf, QueueOf, Store!Empty
<1>3. JobOf = "none"
  BY <1>1 DEF JobOf
<1> QED
  BY <1>1, <1>2, <1>3 DEF Store!DbInit

LEMMA LogAttendanceStore ==
  ASSUME ArraysInv, ArraysInv', LogAttendance
  PROVE  Store!LogAttendance
<1> DEFINE log == [log_id |-> created + 1, timestamp |-> clock,
                   sync_status |-> "PENDING", synced_at |-> null]
           S == LogRecords(created)
           T == S \cup {log}
           f == Store!Put(LogsOf, created + 1, "PENDING")
<1>1. created \in Nat /\ attendance \in Seq(S) /\ Sorted(attendance)
  BY StoredArrays
<1>2. created' \in Nat /\ attendance' \in Seq(LogRecords(created')) /\ Sorted(attendance')
  BY DEF ArraysInv, ArraysTypeOK, InCreationOrder, LogRecords, Sorted
<1>3. attendance' = Append(attendance, log) /\ created' = created + 1
  BY DEF LogAttendance
<1>4. log.log_id = created + 1 /\ log.sync_status = "PENDING"
  OBVIOUS
<1>5. /\ Names(attendance') = Names(attendance) \cup {created + 1}
      /\ \A i \in DOMAIN attendance' :
           attendance'[i] = log \/ (i \in DOMAIN attendance /\ attendance'[i] = attendance[i])
  <2>1. S \subseteq T /\ log \in T
    OBVIOUS
  <2>2. attendance \in Seq(T)
    BY <1>1, <2>1, SeqMonotonic
  <2> HIDE DEF log, T
  <2> QED
    BY <1>3, <1>4, <2>1, <2>2, AppendedItems
<1> HIDE DEF log
<1>6. /\ DOMAIN LogsOf = Names(attendance)
      /\ \A i \in DOMAIN attendance :
           /\ attendance[i].log_id \in Names(attendance)
           /\ LogsOf[attendance[i].log_id] = attendance[i].sync_status
  BY <1>1, StatusAt, StoreFunctions
<1>7. \A i \in DOMAIN attendance : attendance[i].log_id # created + 1
  <2>1. \A i \in DOMAIN attendance : attendance[i].log_id \in 1 .. created
    BY <1>1, StoredArrays
  <2> QED
    BY <1>1, <2>1
<1>8. f = [id \in Names(attendance') |->
             IF id = created + 1 THEN "PENDING" ELSE LogsOf[id]]
  BY <1>5, <1>6 DEF Store!Put
<1> HIDE DEF f
<1>9. \A i \in DOMAIN attendance' : attendance'[i].log_id \in Names(attendance')
  BY NamesAre
<1>10. ASSUME NEW i \in DOMAIN attendance'
       PROVE  f[attendance'[i].log_id] = attendance'[i].sync_status
  BY <1>4, <1>5, <1>6, <1>7, <1>8, <1>9
<1>11. f = [id \in Names(attendance') |-> f[id]]
  BY <1>8
<1>12. LogsOf' = f
  BY <1>2, <1>10, <1>11, StatusIs, StoreFunctions
<1>13. UNCHANGED <<QueueOf, wiped>> /\ created < MaxLogs
  BY DEF LogAttendance, QueueOf
<1>14. JobOf' = "logAttendance"
  BY DEF LogAttendance, JobOf, Call
<1> QED
  BY <1>3, <1>12, <1>13, <1>14 DEF Store!LogAttendance, f

LEMMA EnqueueLogStore ==
  ASSUME ArraysInv, ArraysInv', EnqueueLog
  PROVE  Store!EnqueueLog
<1> DEFINE item == [log_id |-> created, retry_count |-> 0]
           f == Store!QueueItem(created)
<1>1. created \in Nat /\ syncQueue \in Seq(QueueRecords(created)) /\ Sorted(syncQueue)
  BY StoredArrays
<1>2. syncQueue' = Append(syncQueue, item) /\ UNCHANGED <<attendance, created, wiped>>
  BY DEF EnqueueLog, history
<1>3. syncQueue' \in Seq(QueueRecords(created)) /\ Sorted(syncQueue')
  BY <1>2 DEF ArraysInv, ArraysTypeOK, InCreationOrder, QueueRecords, Sorted
<1>4. item.log_id = created /\ item.retry_count = 0
  OBVIOUS
<1>5. item \in QueueRecords(created)
  BY Constants DEF ArraysInv, NextInQueue, EnqueueLog, QueueRecords, Id
<1> HIDE DEF item
<1>6. /\ Names(syncQueue') = Names(syncQueue) \cup {created}
      /\ \A i \in DOMAIN syncQueue' :
           syncQueue'[i] = item \/ (i \in DOMAIN syncQueue /\ syncQueue'[i] = syncQueue[i])
  BY <1>1, <1>2, <1>4, <1>5, AppendedItems
<1>7. /\ DOMAIN QueueOf = Names(syncQueue)
      /\ \A i \in DOMAIN syncQueue :
           /\ syncQueue[i].log_id \in Names(syncQueue)
           /\ QueueOf[syncQueue[i].log_id] = syncQueue[i].retry_count
  BY <1>1, CountAt, StoreFunctions
<1>8. \A i \in DOMAIN syncQueue : syncQueue[i].log_id # created
  <2>1. \A i \in DOMAIN syncQueue : syncQueue[i].log_id < created
    BY DEF ArraysInv, NextInQueue, EnqueueLog
  <2> QED
    BY <1>1, <2>1
<1>9. f = [id \in Names(syncQueue') |-> IF id = created THEN 0 ELSE QueueOf[id]]
  BY <1>6, <1>7 DEF Store!QueueItem, Store!Put
<1> HIDE DEF f
<1>10. \A i \in DOMAIN syncQueue' : syncQueue'[i].log_id \in Names(syncQueue')
  BY NamesAre
<1>11. ASSUME NEW i \in DOMAIN syncQueue'
       PROVE  f[syncQueue'[i].log_id] = syncQueue'[i].retry_count
  BY <1>4, <1>6, <1>7, <1>8, <1>9, <1>10
<1>12. f = [id \in Names(syncQueue') |-> f[id]]
  BY <1>9
<1>13. QueueOf' = f
  BY <1>1, <1>3, <1>11, <1>12, CountIs, StoreFunctions
<1>14. UNCHANGED LogsOf
  BY <1>2 DEF LogsOf
<1>15. JobOf = "logAttendance" /\ JobOf' = "none"
  BY DEF EnqueueLog, JobOf, NoCall, Call
<1> QED
  BY <1>2, <1>13, <1>14, <1>15 DEF Store!EnqueueLog, f

LEMMA MarkRecordsSyncedStore ==
  ASSUME ArraysInv, ArraysInv', NEW ids \in SUBSET (1 .. created), MarkRecordsSynced(ids)
  PROVE  StoreMark
<1> DEFINE f == Store!MarkSynced(ids)
<1>1. created \in Nat /\ attendance \in Seq(LogRecords(created)) /\ Sorted(attendance)
  BY StoredArrays
<1>2. UNCHANGED <<syncQueue, created, wiped>> /\ job = NoCall
      /\ job' = Call("markRecordsSynced", ids)
  BY DEF MarkRecordsSynced, history, Idle
<1>3. attendance' \in Seq(LogRecords(created)) /\ Sorted(attendance')
  BY <1>2 DEF ArraysInv, ArraysTypeOK, InCreationOrder, LogRecords, Sorted
<1>4. \A i \in DOMAIN attendance : attendance[i] \in LogRecords(created)
  BY <1>1
<1>5. /\ DOMAIN attendance' = DOMAIN attendance
      /\ \A i \in DOMAIN attendance :
           /\ attendance'[i].log_id = attendance[i].log_id
           /\ attendance'[i].sync_status =
                IF attendance[i].log_id \in ids THEN "SYNCED" ELSE attendance[i].sync_status
  BY <1>4 DEF MarkRecordsSynced, LogRecords
<1>6. Names(attendance') = Names(attendance)
  BY <1>5, MappedNames
<1>7. /\ DOMAIN LogsOf = Names(attendance)
      /\ \A i \in DOMAIN attendance :
           /\ attendance[i].log_id \in Names(attendance)
           /\ LogsOf[attendance[i].log_id] = attendance[i].sync_status
  BY <1>1, StatusAt, StoreFunctions
<1>8. f = [id \in Names(attendance) |-> IF id \in ids THEN "SYNCED" ELSE LogsOf[id]]
  BY <1>7 DEF Store!MarkSynced
<1> HIDE DEF f
<1>9. \A i \in DOMAIN attendance' : f[attendance'[i].log_id] = attendance'[i].sync_status
  BY <1>5, <1>7, <1>8
<1>10. f = [id \in Names(attendance') |-> f[id]]
  BY <1>6, <1>8
<1>11. LogsOf' = f
  BY <1>1, <1>3, <1>9, <1>10, StatusIs, StoreFunctions
<1>12. UNCHANGED QueueOf /\ job'.ids = ids /\ JobOf = "none" /\ JobOf' = "none"
  BY <1>2 DEF QueueOf, JobOf, NoCall, Call
<1> QED
  BY <1>2, <1>11, <1>12 DEF StoreMark, f

\* What an array holds after a filter by name.
LEMMA RemovedItems ==
  ASSUME NEW S, NEW array \in Seq(S), NEW ids
  PROVE  LET rest == RemoveFromArray(array, ids)
         IN  /\ Names(rest) = Names(array) \ ids
             /\ \A n \in DOMAIN rest : \E k \in DOMAIN array : rest[n] = array[k]
<1> DEFINE places == {i \in DOMAIN array : array[i].log_id \notin ids}
           rest == RemoveFromArray(array, ids)
<1>1. places \in SUBSET DOMAIN array
  OBVIOUS
<1>2. rest = Filter(array, places)
  BY DEF RemoveFromArray
<1>3. Names(rest) = {array[k].log_id : k \in places}
  BY <1>1, <1>2, FilterItems
<1>4. {array[k].log_id : k \in places} = {array[k].log_id : k \in DOMAIN array} \ ids
  OBVIOUS
<1> HIDE DEF rest, places
<1>5. rest \in Seq(S) /\ \A n \in 1 .. Len(rest) : \E k \in places : rest[n] = array[k]
  BY <1>1, <1>2, FilterKeeps
<1>6. \A n \in DOMAIN rest : \E k \in DOMAIN array : rest[n] = array[k]
  BY <1>1, <1>5
<1>7. Names(rest) = Names(array) \ ids
  BY <1>3, <1>4, NamesAre
<1> QED
  BY <1>6, <1>7 DEF rest

LEMMA RemoveSyncedStore ==
  ASSUME ArraysInv, ArraysInv', RemoveSynced
  PROVE  StoreDequeue
<1> DEFINE f == Store!RemoveFromQueue(job.ids)
<1>1. created \in Nat /\ syncQueue \in Seq(QueueRecords(created)) /\ Sorted(syncQueue)
  BY StoredArrays
<1>2. /\ syncQueue' = RemoveFromArray(syncQueue, job.ids)
      /\ job.op = "markRecordsSynced" /\ job' = NoCall
      /\ UNCHANGED <<attendance, created, wiped>>
  BY DEF RemoveSynced, history
<1>3. syncQueue' \in Seq(QueueRecords(created)) /\ Sorted(syncQueue')
  BY <1>2 DEF ArraysInv, ArraysTypeOK, InCreationOrder, QueueRecords, Sorted
<1>4. /\ Names(syncQueue') = Names(syncQueue) \ job.ids
      /\ \A n \in DOMAIN syncQueue' : \E k \in DOMAIN syncQueue : syncQueue'[n] = syncQueue[k]
  BY <1>1, <1>2, RemovedItems
<1>5. /\ DOMAIN QueueOf = Names(syncQueue)
      /\ \A i \in DOMAIN syncQueue :
           /\ syncQueue[i].log_id \in Names(syncQueue)
           /\ QueueOf[syncQueue[i].log_id] = syncQueue[i].retry_count
  BY <1>1, CountAt, StoreFunctions
<1>6. f = [id \in Names(syncQueue) \ job.ids |-> QueueOf[id]]
  BY <1>5 DEF Store!RemoveFromQueue, Store!Restrict
<1> HIDE DEF f
<1>7. \A n \in DOMAIN syncQueue' : syncQueue'[n].log_id \in Names(syncQueue')
  BY NamesAre
<1>8. ASSUME NEW n \in DOMAIN syncQueue'
      PROVE  f[syncQueue'[n].log_id] = syncQueue'[n].retry_count
  BY <1>4, <1>5, <1>6, <1>7
<1>9. f = [id \in Names(syncQueue') |-> f[id]]
  BY <1>4, <1>6
<1>10. QueueOf' = f
  BY <1>1, <1>3, <1>8, <1>9, CountIs, StoreFunctions
<1>11. UNCHANGED LogsOf /\ JobOf = "none" /\ JobOf' = "none"
  BY <1>2 DEF LogsOf, JobOf, NoCall, Call
<1> QED
  BY <1>2, <1>10, <1>11 DEF StoreDequeue, f

LEMMA IncrementRetryCountStore ==
  ASSUME ArraysInv, ArraysInv', NEW id \in 1 .. created, IncrementRetryCount(id)
  PROVE  StoreCount(id)
<1> DEFINE f == Store!IncrementRetryCount(id)
<1>1. created \in Nat /\ syncQueue \in Seq(QueueRecords(created)) /\ Sorted(syncQueue)
  BY StoredArrays
<1>2. UNCHANGED <<attendance, created, wiped, job>>
  BY DEF IncrementRetryCount, history
<1>3. syncQueue' \in Seq(QueueRecords(created)) /\ Sorted(syncQueue')
  BY <1>2 DEF ArraysInv, ArraysTypeOK, InCreationOrder, QueueRecords, Sorted
<1>4. \A i \in DOMAIN syncQueue : syncQueue[i] \in QueueRecords(created)
  BY <1>1
<1>5. /\ DOMAIN syncQueue' = DOMAIN syncQueue
      /\ \A i \in DOMAIN syncQueue :
           /\ syncQueue'[i].log_id = syncQueue[i].log_id
           /\ syncQueue'[i].retry_count =
                IF syncQueue[i].log_id = id THEN syncQueue[i].retry_count + 1
                ELSE syncQueue[i].retry_count
  BY <1>4 DEF IncrementRetryCount, QueueRecords
<1>6. Names(syncQueue') = Names(syncQueue)
  BY <1>5, MappedNames
<1>7. /\ DOMAIN QueueOf = Names(syncQueue)
      /\ \A i \in DOMAIN syncQueue :
           /\ syncQueue[i].log_id \in Names(syncQueue)
           /\ QueueOf[syncQueue[i].log_id] = syncQueue[i].retry_count
  BY <1>1, CountAt, StoreFunctions
<1>8. f = [x \in Names(syncQueue) |-> IF x = id THEN QueueOf[x] + 1 ELSE QueueOf[x]]
  BY <1>7 DEF Store!IncrementRetryCount
<1> HIDE DEF f
<1>9. \A i \in DOMAIN syncQueue' : f[syncQueue'[i].log_id] = syncQueue'[i].retry_count
  BY <1>5, <1>7, <1>8
<1>10. f = [x \in Names(syncQueue') |-> f[x]]
  BY <1>6, <1>8
<1>11. QueueOf' = f
  BY <1>1, <1>3, <1>9, <1>10, CountIs, StoreFunctions
<1>12. UNCHANGED LogsOf /\ UNCHANGED JobOf
  BY <1>2 DEF LogsOf, JobOf
<1> QED
  BY <1>2, <1>11, <1>12 DEF StoreCount, f

LEMMA PurgeStore ==
  ASSUME ArraysInv, ArraysInv', PurgeOldSyncedLogs
  PROVE  Store!PurgeOldSyncedLogs
<1> DEFINE late == {i \in DOMAIN attendance : attendance[i].timestamp <= PurgeLimit}
           old == {attendance[i].log_id : i \in late}
           places == {i \in DOMAIN attendance :
             attendance[i].sync_status # "SYNCED" \/ attendance[i].timestamp > PurgeLimit}
           f == Restrict(LogsOf, DOMAIN LogsOf \ Store!Purgeable(old))
<1>1. created \in Nat /\ attendance \in Seq(LogRecords(created)) /\ Sorted(attendance)
  BY StoredArrays
<1>2. attendance' = Filter(attendance, places) /\ UNCHANGED <<syncQueue, created, wiped, job>>
  BY DEF PurgeOldSyncedLogs, history
<1>3. attendance' \in Seq(LogRecords(created)) /\ Sorted(attendance')
  BY <1>2 DEF ArraysInv, ArraysTypeOK, InCreationOrder, LogRecords, Sorted
<1>4. PurgeLimit \in Int
  BY TodayIsRecent DEF ArraysInv, ArraysTypeOK
<1>5. \A i \in DOMAIN attendance : attendance[i].timestamp \in Int
  <2>1. \A i \in DOMAIN attendance : attendance[i] \in LogRecords(created)
    BY <1>1
  <2> QED
    BY <2>1 DEF LogRecords, Time
<1>6. places \in SUBSET DOMAIN attendance
  OBVIOUS
<1>7. \A i \in DOMAIN attendance :
        i \in places <=> ~ (i \in late /\ attendance[i].sync_status = "SYNCED")
  BY <1>4, <1>5
<1> HIDE DEF places
<1>8. /\ Names(attendance') = {attendance[k].log_id : k \in places}
      /\ \A n \in DOMAIN attendance' : \E k \in places : attendance'[n] = attendance[k]
  <2>1. Names(attendance') = {attendance[k].log_id : k \in places}
    BY <1>1, <1>2, <1>6, FilterItems
  <2>2. \A n \in 1 .. Len(attendance') : \E k \in places : attendance'[n] = attendance[k]
    BY <1>1, <1>2, <1>6, FilterKeeps
  <2> QED
    BY <1>3, <2>1, <2>2
<1>9. /\ DOMAIN LogsOf = Names(attendance)
      /\ \A i \in DOMAIN attendance :
           /\ attendance[i].log_id \in Names(attendance)
           /\ LogsOf[attendance[i].log_id] = attendance[i].sync_status
  BY <1>1, StatusAt, StoreFunctions
<1>10. Names(attendance) = {attendance[i].log_id : i \in DOMAIN attendance}
  BY NamesAre
<1>11. \A i, j \in DOMAIN attendance : attendance[i].log_id = attendance[j].log_id => i = j
  <2>1. \A i \in DOMAIN attendance : attendance[i].log_id \in Nat /\ i \in Int
    BY <1>1, StoredArrays
  <2> TAKE i, j \in DOMAIN attendance
  <2>2. i < j => attendance[i].log_id < attendance[j].log_id
    BY <1>1 DEF Sorted
  <2>3. j < i => attendance[j].log_id < attendance[i].log_id
    BY <1>1 DEF Sorted
  <2> QED
    BY <2>1, <2>2, <2>3
<1>12. Store!Purgeable(old) = {id \in old : LogsOf[id] = "SYNCED"}
  <2>1. old \subseteq DOMAIN LogsOf
    BY <1>9
  <2> QED
    BY <2>1 DEF Store!Purgeable, Store!Logged
<1>13. ASSUME NEW i \in DOMAIN attendance
       PROVE  attendance[i].log_id \in Store!Purgeable(old) <=> i \notin places
  <2>1. attendance[i].log_id \in old <=> i \in late
    BY <1>11
  <2> HIDE DEF old, late
  <2> QED
    BY <1>7, <1>9, <1>12, <2>1
<1>14. old \in SUBSET DOMAIN LogsOf
  BY <1>9
<1> HIDE DEF old, late
<1>15. \A id \in Names(attendance) :
         id \in Names(attendance') <=> id \notin Store!Purgeable(old)
  <2> TAKE id \in Names(attendance)
  <2>1. PICK i \in DOMAIN attendance : attendance[i].log_id = id
    BY <1>10
  <2>2. id \in Names(attendance') <=> i \in places
    BY <1>6, <1>8, <1>11, <2>1
  <2> QED
    BY <1>13, <2>1, <2>2
<1>16. Names(attendance') = Names(attendance) \ Store!Purgeable(old)
  <2>1. Names(attendance') \subseteq Names(attendance)
    BY <1>6, <1>8, <1>10
  <2> QED
    BY <1>15, <2>1
<1>17. f = [id \in Names(attendance') |-> LogsOf[id]]
  BY <1>9, <1>16 DEF Restrict
<1> HIDE DEF f
<1>18. \A n \in DOMAIN attendance' : attendance'[n].log_id \in Names(attendance')
  BY NamesAre
<1>19. ASSUME NEW n \in DOMAIN attendance'
       PROVE  f[attendance'[n].log_id] = attendance'[n].sync_status
  BY <1>6, <1>8, <1>9, <1>17, <1>18
<1>20. f = [id \in Names(attendance') |-> f[id]]
  BY <1>17
<1>21. LogsOf' = f
  BY <1>1, <1>3, <1>19, <1>20, StatusIs, StoreFunctions
<1>22. UNCHANGED <<QueueOf, created, wiped, JobOf>>
  BY <1>2 DEF QueueOf, JobOf
<1> QED
  BY <1>14, <1>21, <1>22 DEF Store!PurgeOldSyncedLogs, Store!Restrict, Restrict, f

LEMMA ClearAllDataStore == ArraysInv /\ ClearAllData => Store!ClearAllData
<1> SUFFICES ASSUME ArraysInv, ClearAllData
             PROVE  Store!ClearAllData
  OBVIOUS
<1>1. attendance' = <<>> /\ wiped' = wiped \cup Names(attendance)
      /\ UNCHANGED <<syncQueue, created>>
  BY DEF ClearAllData
<1>2. LogsOf' = Store!Empty /\ DOMAIN LogsOf = Names(attendance) /\ UNCHANGED QueueOf
  BY <1>1, EmptyNames DEF LogsOf, QueueOf, Store!Empty
<1>3. JobOf' = "clearAllData"
  BY DEF ClearAllData, JobOf, Call
<1> QED
  BY <1>1, <1>2, <1>3 DEF Store!ClearAllData

LEMMA ClearQueueStore == ClearQueue => Store!ClearQueue
<1> SUFFICES ASSUME ClearQueue
             PROVE  Store!ClearQueue
  OBVIOUS
<1>1. syncQueue' = <<>> /\ UNCHANGED <<attendance, created, wiped>>
  BY DEF ClearQueue, history
<1>2. QueueOf' = Store!Empty /\ UNCHANGED LogsOf
  BY <1>1, EmptyNames DEF LogsOf, QueueOf, Store!Empty
<1>3. JobOf = "clearAllData" /\ JobOf' = "none"
  BY DEF ClearQueue, JobOf, NoCall, Call
<1> QED
  BY <1>1, <1>2, <1>3 DEF Store!ClearQueue

LEMMA CrashStore == Crash => StoreCrash
  BY DEF Crash, StoreCrash, arrays, history, LogsOf, QueueOf, JobOf, NoCall, Call

LEMMA StepStore ==
  ArraysInv /\ ArraysInv' /\ [ArraysNext]_arrayVars => [StoreNext]_storeVars
<1> SUFFICES ASSUME ArraysInv, ArraysInv', [ArraysNext]_arrayVars
             PROVE  StoreNext \/ UNCHANGED storeVars
  OBVIOUS
<1>1. ASSUME NEW ids \in SUBSET (1 .. created), MarkRecordsSynced(ids)
      PROVE  StoreNext
  BY <1>1, MarkRecordsSyncedStore DEF StoreNext
<1>2. ASSUME NEW id \in 1 .. created, IncrementRetryCount(id)
      PROVE  StoreNext
  <2>1. id \in Id
    BY StoredArrays, Constants DEF Id
  <2>2. StoreCount(id)
    BY <1>2, IncrementRetryCountStore
  <2> QED
    BY <2>1, <2>2 DEF StoreNext
<1>3. CASE LogAttendance \/ EnqueueLog \/ RemoveSynced \/ PurgeOldSyncedLogs
  BY <1>3, LogAttendanceStore, EnqueueLogStore, RemoveSyncedStore, PurgeStore DEF StoreNext
<1>4. CASE ClearAllData \/ ClearQueue \/ Crash
  BY <1>4, ClearAllDataStore, ClearQueueStore, CrashStore DEF StoreNext
<1>5. CASE UNCHANGED <<attendance, syncQueue, created, wiped, job>>
  BY <1>5 DEF storeVars, LogsOf, QueueOf, JobOf
<1>6. CASE ClockMoves \/ UNCHANGED arrayVars
  BY <1>5, <1>6 DEF ClockMoves, arrayVars, arrays, history
<1> QED
  BY <1>1, <1>2, <1>3, <1>4, <1>6 DEF ArraysNext

\* Every write of an array is the step of DatabaseService.tla or SyncService.tla
\* that stands for it, for any number of records, batch size and clock.
THEOREM ArraysImplementStore == ArraysSpec => ImplementsStore
<1>1. ArraysInit => Store!DbInit
  BY InitStore
<1>2. ArraysInv /\ ArraysInv' /\ [ArraysNext]_arrayVars => [StoreNext]_storeVars
  BY StepStore
<1> QED
  BY <1>1, <1>2, ArraysInvariant, PTL DEF ArraysSpec, ImplementsStore, storeVars

-------------------------------------------------------------------------------
(* The slices of sync().                                                   *)

\* The names after the place "from", up to and with the place "last".
NamesBetween(array, from, last) == {array[k].log_id : k \in from + 1 .. last}

LEMMA PartOf ==
  ASSUME NEW S, NEW array \in Seq(S), NEW i \in Nat, NEW last \in Nat,
         i <= last, last <= Len(array)
  PROVE  Names(SubSeq(array, i + 1, last)) = NamesBetween(array, i, last)
<1> DEFINE part == SubSeq(array, i + 1, last)
<1>1. \A k \in i + 1 .. last : array[k] \in S
  OBVIOUS
<1>2. /\ part \in Seq(S)
      /\ Len(part) = (IF i + 1 <= last THEN last - (i + 1) + 1 ELSE 0)
      /\ \A k \in 1 .. last - (i + 1) + 1 : part[k] = array[i + 1 + k - 1]
  <2>1. i + 1 \in Int /\ last \in Int
    OBVIOUS
  <2> QED
    BY <1>1, <2>1, SubSeqProperties
<1> HIDE DEF part
<1>3. DOMAIN part = 1 .. last - i /\ \A k \in 1 .. last - i : part[k] = array[i + k]
  BY <1>2
<1>4. \A k \in i + 1 .. last : k - i \in 1 .. last - i /\ i + (k - i) = k
  OBVIOUS
<1>5. \A k \in 1 .. last - i : i + k \in i + 1 .. last
  OBVIOUS
<1>6. \A k \in DOMAIN part : part[k].log_id \in NamesBetween(array, i, last)
  BY <1>3, <1>5 DEF NamesBetween
<1>7. ASSUME NEW k \in i + 1 .. last
      PROVE  \E l \in DOMAIN part : part[l].log_id = array[k].log_id
  <2>1. k - i \in DOMAIN part /\ part[k - i] = array[k]
    BY <1>3, <1>4
  <2> QED
    BY <2>1
<1>8. \A id \in NamesBetween(array, i, last) : \E l \in DOMAIN part : part[l].log_id = id
  BY <1>7 DEF NamesBetween
<1>9. {part[k].log_id : k \in DOMAIN part} = NamesBetween(array, i, last)
  BY <1>6, <1>8
<1> QED
  BY <1>9, NamesAre DEF part

\* Before the j-th item of an array in order, and after the i-th, there are
\* j - i - 1 names.
LEMMA NamesBefore ==
  ASSUME NEW S, NEW array \in Seq(S), \A item \in S : item.log_id \in Nat, Sorted(array),
         NEW i \in Nat, NEW j \in i + 1 .. Len(array)
  PROVE  Cardinality({x \in NamesBetween(array, i, Len(array)) : x < array[j].log_id}) =
           j - i - 1
<1> DEFINE names == {array[k].log_id : k \in i + 1 .. Len(array)}
           before == {x \in names : x < array[j].log_id}
           name == [k \in i + 1 .. j - 1 |-> array[k].log_id]
<1>1. Len(array) \in Nat /\ DOMAIN array = 1 .. Len(array)
  OBVIOUS
<1>2. \A k \in DOMAIN array : array[k] \in S
  OBVIOUS
<1>3. \A k \in DOMAIN array : array[k].log_id \in Nat
  BY <1>2
<1>4. ASSUME NEW k \in i + 1 .. Len(array), NEW l \in i + 1 .. Len(array)
      PROVE  array[k].log_id < array[l].log_id <=> k < l
  <2>1. k \in DOMAIN array /\ l \in DOMAIN array /\ k \in Int /\ l \in Int
    BY <1>1
  <2>2. k < l => array[k].log_id < array[l].log_id
    BY <2>1 DEF Sorted
  <2>3. l < k => array[l].log_id < array[k].log_id
    BY <2>1 DEF Sorted
  <2>4. array[k].log_id \in Nat /\ array[l].log_id \in Nat
    BY <1>3, <2>1
  <2>5. k = l => array[k].log_id = array[l].log_id
    OBVIOUS
  <2> HIDE DEF names
  <2> QED
    BY <2>1, <2>2, <2>3, <2>4, <2>5
<1>5. \A k \in i + 1 .. j - 1 : k \in i + 1 .. Len(array) /\ k < j
  BY <1>1
<1>6. \A k \in i + 1 .. Len(array) : k < j => k \in i + 1 .. j - 1
  BY <1>1
<1>7. \A k \in i + 1 .. j - 1 : name[k] \in before
  BY <1>4, <1>5
<1>8. \A x \in before : \E k \in i + 1 .. j - 1 : name[k] = x
  <2> TAKE x \in before
  <2>1. PICK k \in i + 1 .. Len(array) : x = array[k].log_id
    OBVIOUS
  <2>2. k < j
    BY <1>4, <2>1
  <2> QED
    BY <1>6, <2>1, <2>2
<1>9. ASSUME NEW k \in i + 1 .. j - 1, NEW l \in i + 1 .. j - 1, name[k] = name[l]
      PROVE  k = l
  <2>1. array[k].log_id = array[l].log_id /\ array[k].log_id \in Nat
    BY <1>1, <1>3, <1>5, <1>9
  <2>2. ~ (array[k].log_id < array[l].log_id) /\ ~ (array[l].log_id < array[k].log_id)
    BY <2>1
  <2>3. ~ (k < l) /\ ~ (l < k)
    BY <1>4, <1>5, <2>2
  <2> QED
    BY <2>3
<1>10. DOMAIN name = i + 1 .. j - 1 /\ name = [k \in DOMAIN name |-> name[k]]
  OBVIOUS
<1> HIDE DEF before, name
<1>11. name \in Bijection(i + 1 .. j - 1, before)
  BY <1>7, <1>8, <1>9, <1>10 DEF Bijection, Injection, Surjection, IsInjective
<1>12. IsFiniteSet(i + 1 .. j - 1) /\ Cardinality(i + 1 .. j - 1) = j - i - 1
  <2>1. i + 1 \in Int /\ j - 1 \in Int
    OBVIOUS
  <2>2. IsFiniteSet(i + 1 .. j - 1)
    BY <2>1, FS_Interval
  <2>3. Cardinality(i + 1 .. j - 1) =
          IF i + 1 > j - 1 THEN 0 ELSE (j - 1) - (i + 1) + 1
    BY <2>1, FS_Interval
  <2> QED
    BY <2>2, <2>3
<1>13. Cardinality(before) = Cardinality(i + 1 .. j - 1)
  BY <1>11, <1>12, FS_Bijection DEF ExistsBijection
<1> QED
  BY <1>12, <1>13 DEF before, NamesBetween

LEMMA LesserOfTwo ==
  ASSUME NEW m \in Nat, NEW n \in Nat
  PROVE  Min({m, n}) = IF m <= n THEN m ELSE n
<1>1. {m, n} \in SUBSET Nat /\ {m, n} # {}
  OBVIOUS
<1>2. Min({m, n}) \in {m, n} /\ \A x \in {m, n} : Min({m, n}) <= x
  BY <1>1, MinExists
<1> QED
  BY <1>2

\* A slice of an array in order holds the names of FirstBatch.
LEMMA SliceIsFirstBatch ==
  ASSUME NEW S, NEW array \in Seq(S), \A item \in S : item.log_id \in Nat, Sorted(array),
         NEW i \in 0 .. Len(array) - 1
  PROVE  Names(Slice(array, i)) = FirstBatch(Names(SubSeq(array, i + 1, Len(array))))
<1> DEFINE len == Len(array)
           end == Min({i + BATCH_SIZE, len})
           names == NamesBetween(array, i, len)
<1>1. len \in Nat /\ i \in Nat /\ i < len /\ BATCH_SIZE \in Nat \ {0}
  BY BatchAssumption
<1>2. end = IF i + BATCH_SIZE <= len THEN i + BATCH_SIZE ELSE len
  BY <1>1, LesserOfTwo
<1>3. end \in Nat /\ i <= end /\ end <= len
  BY <1>1, <1>2
<1>4. Slice(array, i) = SubSeq(array, i + 1, end)
  BY DEF Slice
<1> HIDE DEF end
<1>5. Names(SubSeq(array, i + 1, end)) = NamesBetween(array, i, end)
  BY <1>1, <1>3, PartOf
<1>6. Names(SubSeq(array, i + 1, len)) = names
  <2>1. i <= len /\ len <= len
    BY <1>1
  <2> QED
    BY <1>1, <2>1, PartOf
<1>7. \A j \in i + 1 .. len :
        Cardinality({x \in names : x < array[j].log_id}) = j - i - 1
  BY <1>1, NamesBefore
<1>8. \A j \in i + 1 .. len : j - i - 1 < BATCH_SIZE <=> j \in i + 1 .. end
  BY <1>1, <1>2
<1>9. \A j \in i + 1 .. end : j \in i + 1 .. len
  BY <1>1, <1>3
<1>10. FirstBatch(names) =
         {id \in names : Cardinality({x \in names : x < id}) < BATCH_SIZE}
  BY DEF FirstBatch
<1>11. ASSUME NEW j \in i + 1 .. len
       PROVE  array[j].log_id \in FirstBatch(names) <=> j \in i + 1 .. end
  <2>1. array[j].log_id \in names
    BY DEF NamesBetween
  <2> HIDE DEF names
  <2>2. array[j].log_id \in FirstBatch(names) <=>
          Cardinality({x \in names : x < array[j].log_id}) < BATCH_SIZE
    BY <1>10, <2>1
  <2> QED
    BY <1>7, <1>8, <2>2
<1>12. \A id \in FirstBatch(names) : \E j \in i + 1 .. len : id = array[j].log_id
  BY <1>10 DEF NamesBetween
<1> HIDE DEF names, len
<1>13. FirstBatch(names) = NamesBetween(array, i, end)
  BY <1>9, <1>11, <1>12 DEF NamesBetween
<1> QED
  BY <1>4, <1>5, <1>6, <1>13 DEF len

LEMMA RetryableIsSorted ==
  ASSUME ArraysInv
  PROVE  RetryableArray \in Seq(QueueRecords(created)) /\ Sorted(RetryableArray)
  BY StoredArrays, FilterKeeps, FilterIsSorted DEF RetryableArray

\* Whatever the batch size and the length of the list, each slice of the loop
\* in sync() is the batch that the engine's model takes.
THEOREM SlicesAreTheBatches == ArraysSpec => []SlicesAreBatches
<1>1. ArraysInv => SlicesAreBatches
  <2> SUFFICES ASSUME ArraysInv, NEW i \in 0 .. Len(RetryableArray) - 1
               PROVE  Names(Slice(RetryableArray, i)) =
                        FirstBatch(Names(SubSeq(RetryableArray, i + 1, Len(RetryableArray))))
    BY DEF SlicesAreBatches
  <2>1. \A item \in QueueRecords(created) : item.log_id \in Nat
    BY DEF QueueRecords
  <2> QED
    BY <2>1, RetryableIsSorted, SliceIsFirstBatch
<1> QED
  BY <1>1, ArraysInvariant, PTL
===============================================================================
