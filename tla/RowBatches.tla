------------------------------ MODULE RowBatches ------------------------------
(***************************************************************************)
(* The batches in which a scan hands over its rows (stream_from_rows in    *)
(* adapters/_shared/arrow.py, and the streams of the adapters that batch   *)
(* rows themselves).                                                       *)
(***************************************************************************)
EXTENDS Integers, FiniteSets

CONSTANTS
  NoLimit,   \* pushed.limit is None
  BatchSize  \* batch_size

ASSUME NoLimitAssumption == NoLimit \notin Nat

ASSUME BatchSizeAssumption == BatchSize \in Nat \ {0}

VARIABLES
  buffer,  \* rows of the batch being filled
  output   \* rows of the batches handed over

(* Mutant of AppendRow: a full batch is not handed over.                   *)
KeepBuffering(row) == buffer' = buffer \cup {row} /\ UNCHANGED output

(* A row goes to the batch, and a batch that is full to the consumer.      *)
AppendRow(row) ==
  IF Cardinality(buffer) + 1 >= BatchSize
  THEN output' = output \cup buffer \cup {row} /\ buffer' = {}
  ELSE buffer' = buffer \cup {row} /\ UNCHANGED output

Produced == Cardinality(output) + Cardinality(buffer)

=============================================================================
