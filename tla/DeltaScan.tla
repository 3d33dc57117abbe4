------------------------------- MODULE DeltaScan -------------------------------
(***************************************************************************)
(* A scan of a Delta table (adapters/formats/delta.py): the whole          *)
(* predicate becomes one expression of the Arrow dataset, which has to     *)
(* keep SQL's three truth values itself, as nothing is rechecked.          *)
(***************************************************************************)
EXTENDS PredicateScan, TableFilters

VARIABLE columnTypes  \* column -> its Arrow type

vars == <<requestVars, readVars, columnTypes>>

PushedExpressions ==
  {"none", "column", "literal", "parameter", "comparison", "and", "or", "not", "is_null", "in"}

FullRow(d) == d

(* The expression of a whole tree.                                         *)
RECURSIVE Filter(_, _)
Filter(e, d) == NodeExpression(e, d, columnTypes, Filter)

-----------------------------------------------------------------------------
Init == ScanInit /\ wanted = Wanted(FullRow)

Scanner ==
  /\ pc = "start" /\ ParametersBound
  /\ pc' = "reading"
  /\ fetched' = pushed.projection
  /\ limit' = pushed.limit
  /\ cursor' = {d \in documents : Filter(BoundPredicate, d) = True}
  /\ UNCHANGED <<requestVars, local, buffer, output, columnTypes>>

(* _batches: batches pass, cut to what remains of a limit.                 *)
ReadBatch(batch) ==
  /\ pc = "reading" /\ batch # {} /\ limit # 0
  /\ cursor' = cursor \ batch
  /\ \E rows \in Answers(batch, limit) :
       /\ output' = output \cup rows
       /\ limit' = IF limit = NoLimit THEN NoLimit ELSE limit - Cardinality(rows)
  /\ UNCHANGED <<requestVars, pc, local, fetched, buffer, columnTypes>>

Next ==
  \/ RefuseScan /\ UNCHANGED columnTypes
  \/ Scanner
  \/ \E batch \in SUBSET cursor : ReadBatch(batch)
  \/ EnoughRows /\ UNCHANGED columnTypes
  \/ EndOfRows /\ UNCHANGED columnTypes
  \/ ReadFails /\ UNCHANGED columnTypes

Spec == Init /\ [][Next]_vars

=============================================================================
