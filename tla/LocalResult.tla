----------------------------- MODULE LocalResult -----------------------------
(***************************************************************************)
(* LocalResult (adapters/duckdb_engine/result.py): a stream of Arrow       *)
(* record batches that the caller reads through iterators (batches()) or   *)
(* materialises (to_arrow(), which to_pandas, to_polars and rows call),    *)
(* and that releases its engine resources when it closes.  A batch is its  *)
(* number in the stream.  One caller drives a result, so a call runs to    *)
(* its end before the caller's next one; its close hooks run one by one.   *)
(***************************************************************************)
EXTENDS Naturals, Sequences

CONSTANTS
  Results,    \* results, named by the call that made them
  Iterators,  \* bound: names of the iterators a caller starts on a result
  BatchCount, \* bound: batches in a result
  MaxBatches  \* the materialisation limit (max_rows), in batches

ASSUME ResultBounds == BatchCount \in Nat /\ MaxBatches \in Nat

VARIABLES
  closed,   \* r -> _closed
  on_close, \* r -> _on_close
  hooks,    \* r -> close hooks still to run
  read,     \* r -> batches taken from the reader
  iterator, \* r -> i -> "absent", "fresh" (generator not started), "running",
            \*          "ended" or "failed"
  taken,    \* r -> i -> batches the iterator delivered
  table     \* r -> the batches of a materialised table

resultVars == <<closed, on_close, hooks, read, iterator, taken, table>>

IteratorStates == {"absent", "fresh", "running", "ended", "failed"}

NoTable == <<0>>  \* batches are numbered from 1

ResultInit ==
  /\ closed = [r \in Results |-> FALSE]
  /\ on_close = [r \in Results |-> <<>>]
  /\ hooks = [r \in Results |-> <<>>]
  /\ read = [r \in Results |-> 0]
  /\ iterator = [r \in Results |-> [i \in Iterators |-> "absent"]]
  /\ taken = [r \in Results |-> [i \in Iterators |-> <<>>]]
  /\ table = [r \in Results |-> NoTable]

SetIterator(r, i, state) == iterator' = [iterator EXCEPT ![r][i] = state]

(* Mutant of Close: every close() runs the hooks.                          *)
CloseAgain(r) ==
  /\ closed' = [closed EXCEPT ![r] = TRUE]
  /\ hooks' = [hooks EXCEPT ![r] = on_close[r]]

(* close() up to its first hook, once; the hooks follow, whatever each     *)
(* raises.                                                                 *)
Close(r) ==
  /\ closed' = [closed EXCEPT ![r] = TRUE]
  /\ hooks' = IF closed[r] THEN hooks ELSE [hooks EXCEPT ![r] = on_close[r]]

(* batches(): calling a generator function runs nothing of it.             *)
batches(r, i) ==
  /\ iterator[r][i] = "absent"
  /\ SetIterator(r, i, "fresh")
  /\ UNCHANGED <<closed, on_close, hooks, read, taken, table>>

(* The first next() on an iterator finds the result closed and raises.     *)
EnsureOpenRaises(r, i) ==
  /\ iterator[r][i] = "fresh" /\ closed[r]
  /\ SetIterator(r, i, "failed")
  /\ UNCHANGED <<closed, on_close, hooks, read, taken, table>>

Readable(r, i) ==
  iterator[r][i] = "running" \/ (iterator[r][i] = "fresh" /\ ~ closed[r])

(* Mutant of NextBatch: the end of the stream is not seen.                 *)
NextBatchPastEnd(r, i) ==
  /\ Readable(r, i) /\ ~ closed[r]
  /\ SetIterator(r, i, "running")
  /\ read' = [read EXCEPT ![r] = @ + 1]
  /\ taken' = [taken EXCEPT ![r][i] = Append(@, read'[r])]
  /\ UNCHANGED <<closed, on_close, hooks, table>>

(* next() that yields a batch.  Once the result is closed the reader's     *)
(* streams are gone (what pyarrow does then is external, see NextFails).   *)
NextBatch(r, i) ==
  /\ Readable(r, i) /\ ~ closed[r] /\ read[r] < BatchCount
  /\ SetIterator(r, i, "running")
  /\ read' = [read EXCEPT ![r] = @ + 1]
  /\ taken' = [taken EXCEPT ![r][i] = Append(@, read'[r])]
  /\ UNCHANGED <<closed, on_close, hooks, table>>

(* next() at the end of the stream: StopIteration, then finally: close().  *)
NextEnds(r, i) ==
  /\ Readable(r, i)
  /\ closed[r] \/ read[r] = BatchCount
  /\ SetIterator(r, i, "ended")
  /\ Close(r)
  /\ UNCHANGED <<on_close, read, taken, table>>

(* next() that raises from the reader, then finally: close().              *)
NextFails(r, i) ==
  /\ Readable(r, i)
  /\ SetIterator(r, i, "failed")
  /\ Close(r)
  /\ UNCHANGED <<on_close, read, taken, table>>

(* Dropping an iterator: a started generator runs its finally clause, one  *)
(* that was never started has none to run.                                 *)
Abandon(r, i) ==
  /\ iterator[r][i] \in {"fresh", "running"}
  /\ SetIterator(r, i, "ended")
  /\ IF iterator[r][i] = "running" THEN Close(r) ELSE UNCHANGED <<closed, hooks>>
  /\ UNCHANGED <<on_close, read, taken, table>>

Rest(r) == [k \in 1..(BatchCount - read[r]) |-> read[r] + k]

(* Mutant of to_arrow: a table longer than the limit is cut, not refused.  *)
TruncatingToArrow(r) ==
  /\ ~ closed[r]
  /\ table' = [table EXCEPT ![r] = SubSeq(Rest(r), 1, MaxBatches)]
  /\ read' = [read EXCEPT ![r] = BatchCount]
  /\ Close(r)
  /\ UNCHANGED <<on_close, iterator, taken>>

(* to_arrow() that returns a table.                                        *)
to_arrow(r) ==
  /\ ~ closed[r]
  /\ BatchCount - read[r] <= MaxBatches
  /\ table' = [table EXCEPT ![r] = Rest(r)]
  /\ read' = [read EXCEPT ![r] = BatchCount]
  /\ Close(r)
  /\ UNCHANGED <<on_close, iterator, taken>>

(* to_arrow() that raises: over the limit, after the batch that exceeded   *)
(* it was read, or because the reader fails at a later batch.              *)
to_arrow_raises(r) ==
  /\ ~ closed[r]
  /\ \E n \in read[r]..BatchCount :
       /\ n - read[r] <= MaxBatches + 1
       /\ read' = [read EXCEPT ![r] = n]
  /\ Close(r)
  /\ UNCHANGED <<on_close, iterator, taken, table>>

(* close() by the caller or by leaving a with block; idempotent.           *)
CloseResult(r) ==
  /\ ~ closed[r]
  /\ Close(r)
  /\ UNCHANGED <<on_close, read, iterator, taken, table>>

Consume(r) ==
  \/ \E i \in Iterators :
       \/ batches(r, i) \/ EnsureOpenRaises(r, i)
       \/ NextBatch(r, i) \/ NextEnds(r, i) \/ NextFails(r, i) \/ Abandon(r, i)
  \/ to_arrow(r) \/ to_arrow_raises(r) \/ CloseResult(r)

=============================================================================
