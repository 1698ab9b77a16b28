------------------------------- MODULE CleanUp -------------------------------
(***************************************************************************)
(* How the clean-up job takes rows away: the LIMIT of one DELETE and the   *)
(* loop of drain in internal/cleanup/job.go.  The modules of the tables it *)
(* sweeps say which rows are old enough.                                   *)
(***************************************************************************)
EXTENDS Naturals, FiniteSets

CONSTANTS
    BatchSize,    \* batchSize, the LIMIT of one DELETE
    MaxBatches    \* maxBatchesPerSweep, the DELETEs of one kind of row in a sweep

ASSUME CleanUpAssumption == BatchSize \in Nat \ {0} /\ MaxBatches \in Nat \ {0}

(* The sets of rows one DELETE may take out of Old: all of them, or a full *)
(* batch - whichever rows its sub-select reaches first.                    *)
Batches(Old) ==
    {D \in SUBSET Old : /\ Cardinality(D) <= BatchSize
                        /\ D # Old => Cardinality(D) = BatchSize}

(* drain stops when a batch comes back short or is the last one allowed.   *)
Drained(D, batch) == Cardinality(D) < BatchSize \/ batch + 1 >= MaxBatches
=============================================================================
