------------------------------ MODULE IcebergScan ------------------------------
(***************************************************************************)
(* A scan of an Iceberg table (adapters/formats/iceberg.py): the row       *)
(* filter may keep too many rows, each batch is rechecked with Arrow, and  *)
(* the limit is pushed only with a filter that is exact.                   *)
(***************************************************************************)
EXTENDS PredicateScan, TableFilters

VARIABLE fieldTypes       \* column -> its Iceberg type

vars == <<requestVars, readVars, fieldTypes>>

PushedExpressions ==
  {"none", "column", "literal", "parameter", "comparison", "and", "or", "not", "is_null", "in"}

FullRow(d) == d

-----------------------------------------------------------------------------
(* The row filter, and the recheck, of whole trees.                        *)

Self == [schema |-> fieldTypes, parameters |-> parameters]

RECURSIVE Visit(_, _, _)
Visit(e, negated, self) == NodeFilter(e, negated, self, Visit)

RECURSIVE Matches(_, _, _)
Matches(filter, d, self) == NodeMatches(filter, d, self, Matches)

RECURSIVE Mask(_, _, _)
Mask(e, d, self) == NodeMask(e, d, self, Mask)

-----------------------------------------------------------------------------
Init == ScanInit /\ wanted = Wanted(FullRow)

OpenScan ==
  LET row_filter == Visit(pushed.predicate, FALSE, Self)
      matching == {d \in documents : Matches(row_filter.filter, d, Self)}
  IN /\ pc = "start" /\ ParametersBound
     /\ pc' = "reading"
     /\ fetched' = pushed.projection \cup referenced_columns(pushed.predicate)
     /\ limit' = pushed.limit
     /\ cursor' \in Answers(matching, IF row_filter.exact THEN pushed.limit ELSE NoLimit)
     /\ UNCHANGED <<requestVars, local, buffer, output, fieldTypes>>

(* _batches: a batch of any size is rechecked and cut to what remains.     *)
ReadBatch(batch) ==
  LET kept == {d \in batch : Mask(pushed.predicate, [c \in fetched |-> d[c]], Self) = True}
  IN /\ pc = "reading" /\ batch # {} /\ limit # 0
     /\ cursor' = cursor \ batch
     /\ \E rows \in Answers(kept, limit) :
          /\ output' = output \cup rows
          /\ limit' = IF limit = NoLimit THEN NoLimit ELSE limit - Cardinality(rows)
     /\ UNCHANGED <<requestVars, pc, local, fetched, buffer, fieldTypes>>

Next ==
  \/ RefuseScan /\ UNCHANGED fieldTypes
  \/ OpenScan
  \/ \E batch \in SUBSET cursor : ReadBatch(batch)
  \/ EnoughRows /\ UNCHANGED fieldTypes
  \/ EndOfRows /\ UNCHANGED fieldTypes
  \/ ReadFails /\ UNCHANGED fieldTypes

Spec == Init /\ [][Next]_vars

-----------------------------------------------------------------------------
(* The row filter never drops a row the predicate keeps, and where it is   *)
(* called exact it keeps no other: a limit pushed with it is safe.         *)
FilterIsSound ==
  ParametersBound =>
    LET row_filter == Visit(pushed.predicate, FALSE, Self)
    IN \A d \in documents :
         /\ Keeps(BoundPredicate, d) => Matches(row_filter.filter, d, Self)
         /\ row_filter.exact /\ Matches(row_filter.filter, d, Self) => Keeps(BoundPredicate, d)

=============================================================================
