-------------------------- MODULE MCDistributedLock --------------------------
(* Values for model-checking DistributedLock. *)
EXTENDS DistributedLock

CONSTANTS a, b, c, d, e, f   \* users

OwnValue == [u \in Users |-> u]         \* a uuid4, CONSUMER_NAME or doc_id each
BatchMerge == [u \in Users |-> "batch_merge"]   \* run_graphrag_for_kb's lock_value
=============================================================================
