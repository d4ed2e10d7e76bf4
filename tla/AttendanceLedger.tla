--------------------------- MODULE AttendanceLedger ---------------------------
(***************************************************************************)
(* What the offline attendance store promises to the supervisor, with no   *)
(* queue, no batches, no retries and no process.  Each record is           *)
(* recorded once, is delivered to the cloud, and only then acknowledged    *)
(* on the device; only an acknowledged record may be purged, and only a    *)
(* factory reset may drop a record that was not delivered.                 *)
(***************************************************************************)
EXTENDS Naturals

CONSTANT MaxLogs        \* how many attendance records are ever made

VARIABLES
  status,               \* where each record stands on the device
  delivered             \* the records the cloud holds

ledgerVars == <<status, delivered>>

Id == 1 .. MaxLogs

Status == {"unrecorded", "pending", "synced", "purged", "wiped"}

With(st) == {id \in Id : status[id] = st}

LedgerTypeOK ==
  /\ status \in [Id -> Status]
  /\ delivered \subseteq Id

Become(ids, st) == [id \in Id |-> IF id \in ids THEN st ELSE status[id]]

LedgerInit ==
  /\ status = [id \in Id |-> "unrecorded"]
  /\ delivered = {}

Record(id) ==
  /\ status[id] = "unrecorded"
  /\ status' = Become({id}, "pending")
  /\ UNCHANGED delivered

\* A record wiped while its upload is on the way may still arrive.
Deliver(ids) ==
  /\ ids \cap With("unrecorded") = {}
  /\ delivered' = delivered \cup ids
  /\ UNCHANGED status

Acknowledge(ids) ==
  /\ ids \subseteq With("pending") \cap delivered
  /\ status' = Become(ids, "synced")
  /\ UNCHANGED delivered

Purge(ids) ==
  /\ ids \subseteq With("synced")
  /\ status' = Become(ids, "purged")
  /\ UNCHANGED delivered

FactoryReset ==
  /\ status' = Become(With("pending") \cup With("synced"), "wiped")
  /\ UNCHANGED delivered

LedgerNext ==
  \/ \E id \in Id : Record(id)
  \/ \E ids \in SUBSET Id : Deliver(ids) \/ Acknowledge(ids) \/ Purge(ids)
  \/ FactoryReset

LedgerSpec == LedgerInit /\ [][LedgerNext]_ledgerVars
===============================================================================
