-------------------------------- MODULE Batches --------------------------------
(***************************************************************************)
(* How sync() cuts its list of records into batches (SyncService.ts:94-96).*)
(* A record is named by its place in the order of creation, which is also  *)
(* the order of the queue array, so a list is a set of names and its first *)
(* slice is the set of its smallest members.                               *)
(***************************************************************************)
EXTENDS Naturals, FiniteSets

CONSTANT BATCH_SIZE

ASSUME BatchAssumption == BATCH_SIZE \in Nat \ {0}

\* The first BATCH_SIZE records of a list, in array order.
FirstBatch(list) ==
  {id \in list : Cardinality({x \in list : x < id}) < BATCH_SIZE}

\* Mutant: the loop advances by one record less than it uploads.
RestOverlaps(list) ==
  list \ {id \in list : Cardinality({x \in list : x <= id}) < BATCH_SIZE}
Rest(list) == list \ FirstBatch(list)
===============================================================================
