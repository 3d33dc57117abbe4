------------------------------ MODULE ScanProofs ------------------------------
(***************************************************************************)
(* For every collection, predicate, limit and batch size, and whatever the *)
(* provider chooses to return: a scan hands over rows of the predicate     *)
(* only, never more than the limit, and in the end as many as it asks for. *)
(*                                                                         *)
(* For every predicate tree, row and parameters: what an Iceberg scan      *)
(* makes of a predicate, its row filter and its recheck, and the           *)
(* expression a Delta scan makes of it mean what the SQL text of the       *)
(* predicate means.  For whatever is stored: the types found of it, and    *)
(* the values converted to them.                                           *)
(*                                                                         *)
(* The recursive operators of Predicates and of the adapters' modules are, *)
(* node by node, the operators of PredicateNodes, TableFilters and         *)
(* DocumentTypes.  Here they are functions, on the trees of a set E or on  *)
(* a family V of sets of values: whatever functions compute each node from *)
(* its children in that way.                                               *)
(***************************************************************************)
EXTENDS PushedScan, TableFilters, DocumentTypes, FiniteSetTheorems, SequenceTheorems,
        WellFoundedInduction, TLAPS

-----------------------------------------------------------------------------
(* The inductive invariant.                                                *)

NoneLocal == ~ (pushed.limit = 0 /\ local # <<>>)

(* A row is in one place, and only rows of the predicate are kept.         *)
RowsApart ==
  /\ output \subseteq wanted /\ buffer \subseteq wanted
  /\ output \cap buffer = {}
  /\ cursor \cap output = {} /\ cursor \cap buffer = {}

NothingRead ==
  /\ limit = NoLimit
  /\ cursor = {} /\ buffer = {} /\ output = {}

Remaining == Cardinality(cursor \cap wanted)

(* A limit that is the provider's: what it has still to return is what is  *)
(* still asked for.                                                        *)
ProviderLimits == limit = NoLimit /\ Remaining + Produced = Asked

(* A limit that is counted in process, row by row or batch by batch: the   *)
(* cursor has enough, no more than the limit was kept, and what can still  *)
(* be read is still asked for.                                             *)
ProcessLimits ==
  /\ limit \in Nat /\ pushed.limit \in Nat
  /\ Remaining + Produced >= Asked
  /\ Produced <= pushed.limit
  /\ limit # 0 /\ cursor # {} => Produced < pushed.limit
  /\ limit = pushed.limit \/ (buffer = {} /\ limit = pushed.limit - Cardinality(output))

ScanInv ==
  /\ RequestOK
  /\ ScanTypeOK
  /\ RowsApart
  /\ pc = "start" => NothingRead
  /\ NoneLocal =>
       /\ Produced <= Asked
       /\ pc = "reading" => ProviderLimits \/ ProcessLimits
       /\ pc = "done" => Cardinality(output) = Asked

-----------------------------------------------------------------------------
(* Counting.                                                               *)

(* Parts of a finite collection are finite, and have a number.             *)
LEMMA PartsCount ==
  ASSUME IsFiniteSet(documents), NEW s, s \subseteq documents
  PROVE  IsFiniteSet(s) /\ Cardinality(s) \in Nat
BY FS_Subset, FS_CardinalityType

LEMMA DisjointCount ==
  ASSUME IsFiniteSet(documents), NEW s, NEW t, s \subseteq documents, t \subseteq documents,
         s \cap t = {}
  PROVE  Cardinality(s \cup t) = Cardinality(s) + Cardinality(t)
<1>1. IsFiniteSet(s) /\ IsFiniteSet(t) /\ Cardinality(s) \in Nat /\ Cardinality(t) \in Nat
  BY PartsCount
<1>2. Cardinality(s \cup t) = Cardinality(s) + Cardinality(t) - Cardinality(s \cap t)
  BY <1>1, FS_Union
<1>3. Cardinality(s \cap t) = 0
  BY FS_EmptySet
<1> QED BY <1>1, <1>2, <1>3

LEMMA SmallerCount ==
  ASSUME IsFiniteSet(documents), NEW s, NEW t, s \subseteq t, t \subseteq documents
  PROVE  Cardinality(s) <= Cardinality(t)
BY PartsCount, FS_Subset

(* What a provider answers: a part of what matches, no more than asked,    *)
(* and all of it if there is not more.                                     *)
LEMMA AnswersCount ==
  ASSUME IsFiniteSet(documents), NEW m, m \subseteq documents,
         NEW count \in LimitCount, NEW rows \in Answers(m, count)
  PROVE  /\ rows \subseteq m
         /\ count = NoLimit => rows = m
         /\ count # NoLimit => Cardinality(rows) <= count
         /\ rows = m \/ (count # NoLimit /\ Cardinality(rows) = count)
<1>1. Cardinality(m) \in Nat
  BY PartsCount
<1>2. CASE count = NoLimit
  BY <1>2 DEF Answers
<1>3. CASE count # NoLimit /\ count >= Cardinality(m)
  <2>1. rows = m
    BY <1>3 DEF Answers
  <2> QED BY <2>1, <1>3, <1>1 DEF LimitCount
<1>4. CASE count # NoLimit /\ ~ (count >= Cardinality(m))
  <2>1. rows \in SUBSET m /\ Cardinality(rows) = count
    BY <1>4 DEF Answers
  <2> QED BY <2>1, <1>4 DEF LimitCount
<1> QED BY <1>2, <1>3, <1>4

-----------------------------------------------------------------------------
(* What the invariant says of the numbers.                                 *)

LEMMA ScanNumbers ==
  ASSUME ScanInv
  PROVE  /\ IsFiniteSet(documents) /\ wanted \subseteq documents
         /\ Cardinality(wanted) \in Nat /\ Cardinality(output) \in Nat
         /\ Cardinality(buffer) \in Nat /\ Remaining \in Nat
         /\ Produced \in Nat /\ Asked \in Nat
         /\ Asked <= Cardinality(wanted)
         /\ pushed.limit # NoLimit => pushed.limit \in Nat /\ Asked <= pushed.limit
         /\ pushed.limit = NoLimit => Asked = Cardinality(wanted)
         /\ pushed.limit # NoLimit /\ pushed.limit <= Cardinality(wanted) => Asked = pushed.limit
<1>1. IsFiniteSet(documents) /\ wanted \subseteq documents /\ pushed.limit \in LimitCount
      /\ output \subseteq documents /\ buffer \subseteq documents /\ cursor \cap wanted \subseteq documents
  BY DEF ScanInv, RequestOK, ScanTypeOK
<1>2. Cardinality(wanted) \in Nat /\ Cardinality(output) \in Nat
      /\ Cardinality(buffer) \in Nat /\ Remaining \in Nat
  BY <1>1, PartsCount DEF Remaining
<1> QED BY <1>1, <1>2, NoLimitAssumption DEF Produced, Asked, LimitCount

(* What was kept are rows of the predicate: no more of them than it has.   *)
LEMMA ProducedRows ==
  ASSUME ScanInv
  PROVE  /\ Produced = Cardinality(output \cup buffer)
         /\ Produced <= Cardinality(wanted)
         /\ Remaining + Produced <= Cardinality(wanted)
<1>1. IsFiniteSet(documents) /\ wanted \subseteq documents
  BY DEF ScanInv, RequestOK
<1>2. output \subseteq wanted /\ buffer \subseteq wanted /\ output \cap buffer = {}
      /\ cursor \cap output = {} /\ cursor \cap buffer = {}
  BY DEF ScanInv, RowsApart
<1>3. Produced = Cardinality(output \cup buffer)
  BY <1>1, <1>2, DisjointCount DEF Produced
<1>4. Cardinality((cursor \cap wanted) \cup (output \cup buffer)) = Remaining + Produced
  <2>1. (cursor \cap wanted) \cap (output \cup buffer) = {}
    BY <1>2
  <2>2. cursor \cap wanted \subseteq documents /\ output \cup buffer \subseteq documents
    BY <1>1, <1>2
  <2> QED BY <2>1, <2>2, <1>1, <1>3, DisjointCount DEF Remaining
<1>5. Remaining + Produced <= Cardinality(wanted)
  <2>1. (cursor \cap wanted) \cup (output \cup buffer) \subseteq wanted
    BY <1>2
  <2> QED BY <2>1, <1>1, <1>4, SmallerCount
<1>6. Remaining \in Nat /\ Produced \in Nat /\ Cardinality(wanted) \in Nat
  BY ScanNumbers
<1> QED BY <1>3, <1>5, <1>6

-----------------------------------------------------------------------------
(* The steps.                                                              *)

LEMMA ScanInitInv ==
  ASSUME RequestOK, ScanInit
  PROVE  ScanInv
<1>1. RowsApart /\ NothingRead
  BY DEF ScanInit, RowsApart, NothingRead
<1>2. Cardinality({}) = 0
  BY FS_EmptySet
<1>3. ScanTypeOK
  BY <1>2, BatchSizeAssumption DEF RequestOK, ScanInit, ScanTypeOK, LimitCount
<1>4. Produced = 0
  BY <1>2 DEF Produced, ScanInit
<1>5. Cardinality(wanted) \in Nat /\ pushed.limit \in LimitCount
  BY PartsCount DEF RequestOK
<1>6. Produced <= Asked
  BY <1>4, <1>5, NoLimitAssumption DEF Asked, LimitCount
<1> QED BY <1>1, <1>3, <1>6 DEF ScanInv, ScanInit

LEMMA OpenFailsInv ==
  ASSUME ScanInv, OpenFails
  PROVE  ScanInv'
<1> USE DEF OpenFails, requestVars
<1>1. RequestOK' /\ ScanTypeOK' /\ RowsApart'
  BY DEF ScanInv, RequestOK, ScanTypeOK, RowsApart
<1>2. NoneLocal' => NoneLocal
  BY DEF NoneLocal
<1>3. Produced' = Produced /\ Asked' = Asked
  BY DEF Produced, Asked
<1> QED BY <1>1, <1>2, <1>3 DEF ScanInv

LEMMA ReadFailsInv ==
  ASSUME ScanInv, ReadFails
  PROVE  ScanInv'
<1> USE DEF ReadFails, requestVars
<1>1. RequestOK' /\ ScanTypeOK' /\ RowsApart'
  BY DEF ScanInv, RequestOK, ScanTypeOK, RowsApart
<1>2. NoneLocal' => NoneLocal
  BY DEF NoneLocal
<1>3. Produced' = Produced /\ Asked' = Asked
  BY DEF Produced, Asked
<1> QED BY <1>1, <1>2, <1>3 DEF ScanInv

LEMMA OpenNothingInv ==
  ASSUME ScanInv, OpenNothing
  PROVE  ScanInv'
<1> USE DEF OpenNothing, requestVars
<1>1. RequestOK' /\ ScanTypeOK' /\ RowsApart'
  BY DEF ScanInv, RequestOK, ScanTypeOK, RowsApart
<1>2. NothingRead
  BY DEF ScanInv
<1>3. Cardinality(output) = 0 /\ Produced = 0
  BY <1>2, FS_EmptySet DEF NothingRead, Produced
<1>4. Asked = 0
  BY ScanNumbers, NoLimitAssumption DEF Asked
<1>5. Produced' = Produced /\ Asked' = Asked
  BY DEF Produced, Asked
<1> QED BY <1>1, <1>3, <1>4, <1>5 DEF ScanInv

(* A provider that applies the limit returns as many as are asked for.     *)
LEMMA OpenFilteredInv ==
  ASSUME ScanInv, OpenFiltered
  PROVE  ScanInv'
<1> USE DEF OpenFiltered, requestVars
<1>1. IsFiniteSet(documents) /\ wanted \subseteq documents /\ pushed.limit \in LimitCount
  BY DEF ScanInv, RequestOK
<1>2. NothingRead
  BY DEF ScanInv
<1>3. /\ cursor' \subseteq wanted
      /\ pushed.limit = NoLimit => cursor' = wanted
      /\ pushed.limit # NoLimit => Cardinality(cursor') <= pushed.limit
      /\ cursor' = wanted \/ (pushed.limit # NoLimit /\ Cardinality(cursor') = pushed.limit)
  BY <1>1, AnswersCount
<1>4. RequestOK' /\ ScanTypeOK' /\ RowsApart'
  <2>1. RequestOK'
    BY DEF ScanInv, RequestOK
  <2>2. ScanTypeOK'
    BY <1>1, <1>3 DEF ScanInv, ScanTypeOK, LimitCount
  <2>3. RowsApart'
    BY <1>2 DEF RowsApart, NothingRead
  <2> QED BY <2>1, <2>2, <2>3
<1>5. Produced' = 0
  BY <1>2, FS_EmptySet DEF NothingRead, Produced
<1>6. Remaining' = Cardinality(cursor') /\ Cardinality(cursor') \in Nat
  <2>1. cursor' \cap wanted' = cursor'
    BY <1>3
  <2>2. cursor' \subseteq documents
    BY <1>1, <1>3
  <2> QED BY <2>1, <2>2, <1>1, PartsCount DEF Remaining
<1>7. Cardinality(cursor') <= Cardinality(wanted)
  BY <1>1, <1>3, SmallerCount
<1>8. Asked' = Asked /\ Cardinality(cursor') = Asked
  <2>1. Asked' = Asked
    BY DEF Asked
  <2>2. CASE cursor' = wanted
    BY <2>1, <2>2, <1>1, <1>3, <1>6, ScanNumbers, NoLimitAssumption DEF Asked, LimitCount
  <2>3. CASE pushed.limit # NoLimit /\ Cardinality(cursor') = pushed.limit
    BY <2>1, <2>3, <1>6, <1>7, ScanNumbers
  <2> QED BY <1>3, <2>1, <2>2, <2>3
<1>9. ProviderLimits' \/ ProcessLimits'
  <2>1. Remaining' + Produced' = Asked'
    BY <1>5, <1>6, <1>8
  <2>2. CASE limit' = NoLimit
    BY <2>1, <2>2 DEF ProviderLimits
  <2>3. CASE limit' # NoLimit
    <3>1. limit' = pushed.limit /\ pushed.limit \in Nat
      BY <2>3, <1>1 DEF LimitCount
    <3>2. Remaining' + Produced' >= Asked' /\ Produced' <= pushed.limit
      BY <2>1, <3>1, <1>5, <1>8, ScanNumbers
    <3>3. limit' # 0 => Produced' < pushed.limit
      BY <3>1, <1>5
    <3> QED BY <3>1, <3>2, <3>3 DEF ProcessLimits
  <2> QED BY <2>2, <2>3
<1> QED BY <1>4, <1>5, <1>8, <1>9, ScanNumbers DEF ScanInv

(* A provider that returns more returns at least all rows.                 *)
LEMMA OpenRelaxedInv ==
  ASSUME ScanInv, OpenRelaxed
  PROVE  ScanInv'
<1> USE DEF OpenRelaxed, requestVars
<1>1. IsFiniteSet(documents) /\ wanted \subseteq documents /\ pushed.limit \in LimitCount
  BY DEF ScanInv, RequestOK
<1>2. NothingRead
  BY DEF ScanInv
<1>3. RequestOK' /\ ScanTypeOK' /\ RowsApart'
  <2>1. RequestOK'
    BY DEF ScanInv, RequestOK
  <2>2. ScanTypeOK'
    BY <1>1 DEF ScanInv, ScanTypeOK
  <2>3. RowsApart'
    BY <1>2 DEF RowsApart, NothingRead
  <2> QED BY <2>1, <2>2, <2>3
<1>4. Produced' = 0
  BY <1>2, FS_EmptySet DEF NothingRead, Produced
<1>5. Remaining' = Cardinality(wanted)
  <2>1. cursor' \cap wanted' = wanted
    OBVIOUS
  <2> QED BY <2>1 DEF Remaining
<1>6. Asked' = Asked
  BY DEF Asked
<1>7. ProviderLimits' \/ ProcessLimits'
  <2>1. CASE pushed.limit = NoLimit
    BY <2>1, <1>4, <1>5, <1>6, ScanNumbers DEF ProviderLimits
  <2>2. CASE pushed.limit # NoLimit
    <3>1. limit' = pushed.limit /\ pushed.limit \in Nat
      BY <2>2, <1>1 DEF LimitCount
    <3>2. Remaining' + Produced' >= Asked' /\ Produced' <= pushed.limit
      BY <3>1, <1>4, <1>5, <1>6, ScanNumbers
    <3>3. limit' # 0 => Produced' < pushed.limit
      BY <3>1, <1>4
    <3> QED BY <3>1, <3>2, <3>3 DEF ProcessLimits
  <2> QED BY <2>1, <2>2
<1> QED BY <1>3, <1>4, <1>6, <1>7, ScanNumbers DEF ScanInv

(* A row that is left out is none that remains.                            *)
LEMMA LeaveOutInv ==
  ASSUME ScanInv, NEW d \in documents, LeaveOut(d)
  PROVE  ScanInv'
<1> USE DEF LeaveOut, requestVars
<1>1. RequestOK' /\ ScanTypeOK' /\ RowsApart'
  BY DEF ScanInv, RequestOK, ScanTypeOK, RowsApart
<1>2. cursor' \cap wanted' = cursor \cap wanted
  OBVIOUS
<1>3. Remaining' = Remaining /\ Produced' = Produced /\ Asked' = Asked /\ NoneLocal' = NoneLocal
  BY <1>2 DEF Remaining, Produced, Asked, NoneLocal
<1>4. ProviderLimits \/ ProcessLimits => ProviderLimits' \/ ProcessLimits'
  BY <1>3 DEF ProviderLimits, ProcessLimits
<1> QED BY <1>1, <1>3, <1>4 DEF ScanInv

(* A row goes from the cursor to the batch or, with the batch, to the      *)
(* consumer: one more row is produced.                                     *)
LEMMA AppendRowCounts ==
  ASSUME ScanInv, NEW d \in documents, d \in cursor, d \in wanted, AppendRow(d)
  PROVE  /\ output' \subseteq wanted /\ buffer' \subseteq wanted
         /\ output' \cap buffer' = {}
         /\ output' \cup buffer' = output \cup buffer \cup {d}
         /\ Cardinality(buffer') < BatchSize
         /\ Cardinality(output') + Cardinality(buffer') = Produced + 1
<1>1. IsFiniteSet(documents) /\ wanted \subseteq documents /\ output \subseteq wanted
      /\ buffer \subseteq wanted /\ output \cap buffer = {} /\ d \notin output /\ d \notin buffer
  BY DEF ScanInv, RequestOK, RowsApart
<1>2. Cardinality(output) \in Nat /\ Cardinality(buffer) \in Nat /\ BatchSize \in Nat \ {0}
  BY ScanNumbers, BatchSizeAssumption
<1>3. Cardinality(buffer \cup {d}) = Cardinality(buffer) + 1
  BY <1>1, <1>2, PartsCount, FS_AddElement
<1>4. Cardinality(output \cup buffer) = Produced
  BY <1>1, DisjointCount DEF Produced
<1>5. CASE Cardinality(buffer) + 1 >= BatchSize
  <2>1. output' = output \cup buffer \cup {d} /\ buffer' = {}
    BY <1>5 DEF AppendRow
  <2>2. Cardinality(output') = Produced + 1
    <3>1. IsFiniteSet(output \cup buffer)
      BY <1>1, PartsCount
    <3>2. Cardinality((output \cup buffer) \cup {d}) = Cardinality(output \cup buffer) + 1
      BY <3>1, <1>1, FS_AddElement
    <3> QED BY <3>2, <2>1, <1>4
  <2>3. Cardinality(buffer') = 0
    BY <2>1, FS_EmptySet
  <2>4. Produced \in Nat
    BY ScanNumbers
  <2> QED BY <1>1, <1>2, <2>1, <2>2, <2>3, <2>4
<1>6. CASE ~ (Cardinality(buffer) + 1 >= BatchSize)
  <2>1. buffer' = buffer \cup {d} /\ output' = output
    BY <1>6 DEF AppendRow
  <2>2. Cardinality(output') + Cardinality(buffer') = Produced + 1
    BY <2>1, <1>2, <1>3 DEF Produced
  <2> QED BY <1>1, <1>2, <1>3, <1>6, <2>1, <2>2
<1> QED BY <1>5, <1>6

(* One more row is produced and one remains less, unless it is the last    *)
(* that the limit lets through.                                            *)
LEMMA DeliverInv ==
  ASSUME ScanInv, NEW d \in documents, Deliver(d)
  PROVE  ScanInv'
<1> USE DEF Deliver, requestVars
<1>1. /\ output' \subseteq wanted /\ buffer' \subseteq wanted
      /\ output' \cap buffer' = {}
      /\ output' \cup buffer' = output \cup buffer \cup {d}
      /\ Cardinality(buffer') < BatchSize
      /\ Cardinality(output') + Cardinality(buffer') = Produced + 1
  BY AppendRowCounts
<1>2. cursor' \subseteq cursor \ {d}
  OBVIOUS
<1>3. RequestOK' /\ ScanTypeOK' /\ RowsApart'
  <2>1. RequestOK'
    BY DEF ScanInv, RequestOK
  <2>2. ScanTypeOK'
    BY <1>1, <1>2 DEF ScanInv, ScanTypeOK, RequestOK
  <2>3. cursor' \cap output' = {} /\ cursor' \cap buffer' = {}
    BY <1>1, <1>2 DEF ScanInv, RowsApart
  <2> QED BY <1>1, <2>1, <2>2, <2>3 DEF RowsApart
<1>4. Produced' = Produced + 1 /\ Asked' = Asked /\ NoneLocal' = NoneLocal
  BY <1>1 DEF Produced, Asked, NoneLocal
<1>5. SUFFICES ASSUME NoneLocal
               PROVE  Produced' <= Asked' /\ (ProviderLimits' \/ ProcessLimits')
  BY <1>3, <1>4 DEF ScanInv
<1>6. Cardinality((cursor \ {d}) \cap wanted) = Remaining - 1
  <2>1. IsFiniteSet(cursor \cap wanted) /\ d \in cursor \cap wanted
    BY PartsCount DEF ScanInv, RequestOK
  <2>2. (cursor \ {d}) \cap wanted = (cursor \cap wanted) \ {d}
    OBVIOUS
  <2> QED BY <2>1, <2>2, FS_RemoveElement DEF Remaining
<1>7. Remaining >= 1
  <2>1. IsFiniteSet(cursor \cap wanted) /\ d \in cursor \cap wanted
    BY PartsCount DEF ScanInv, RequestOK
  <2>2. Remaining # 0
    BY <2>1, FS_EmptySet DEF Remaining
  <2> QED BY <2>2, ScanNumbers
<1>8. CASE ProviderLimits
  <2>1. cursor' = cursor \ {d} /\ limit' = NoLimit
    BY <1>8 DEF ProviderLimits, LimitReached
  <2>2. Remaining' = Remaining - 1
    BY <2>1, <1>6 DEF Remaining
  <2>3. Remaining' + Produced' = Asked' /\ Produced' <= Asked'
    BY <2>2, <1>4, <1>7, <1>8, ScanNumbers DEF ProviderLimits
  <2> QED BY <2>1, <2>3 DEF ProviderLimits
<1>9. CASE ProcessLimits
  <2>1. limit = pushed.limit /\ limit \in Nat /\ limit # 0
    BY <1>5, <1>9, NoLimitAssumption DEF ProcessLimits, NoneLocal
  <2>2. limit # NoLimit
    BY <2>1, NoLimitAssumption
  <2>3. Remaining + Produced <= Cardinality(wanted)
    BY ProducedRows
  <2>4. Produced < pushed.limit
    BY <1>9, <2>1 DEF ProcessLimits
  <2>5. Produced + 1 <= Cardinality(wanted)
    BY <2>3, <1>7, ScanNumbers
  <2>6. Produced' <= Asked' /\ Produced' <= pushed.limit
    BY <1>4, <2>1, <2>4, <2>5, ScanNumbers DEF Asked
  <2>7. CASE LimitReached(Produced + 1)
    <3>1. cursor' = {} /\ Produced + 1 >= limit
      BY <2>7 DEF LimitReached
    <3>2. Remaining' = 0
      BY <3>1, FS_EmptySet DEF Remaining
    <3>3. Remaining' + Produced' >= Asked'
      BY <3>1, <3>2, <1>4, <2>1, ScanNumbers, NoLimitAssumption
    <3> QED BY <2>1, <2>6, <3>1, <3>3 DEF ProcessLimits
  <2>8. CASE ~ LimitReached(Produced + 1)
    <3>1. cursor' = cursor \ {d} /\ Produced + 1 < limit
      BY <2>1, <2>2, <2>8, ScanNumbers DEF LimitReached
    <3>2. Remaining' = Remaining - 1
      BY <3>1, <1>6 DEF Remaining
    <3>3. Remaining' + Produced' >= Asked'
      BY <3>2, <1>4, <1>9, ScanNumbers DEF ProcessLimits
    <3> QED BY <2>1, <2>6, <3>1, <3>3, <1>4 DEF ProcessLimits
  <2> QED BY <2>6, <2>7, <2>8
<1> QED BY <1>5, <1>8, <1>9 DEF ScanInv

(* What a batch keeps is as much as remains of the limit, or all of it.    *)
LEMMA DeliverBatchInv ==
  ASSUME ScanInv, NEW batch \in SUBSET cursor, DeliverBatch(batch)
  PROVE  ScanInv'
<1> DEFINE kept == batch \cap wanted
<1> USE DEF DeliverBatch, requestVars
<1>1. PICK rows \in Answers(kept, limit) :
        /\ output' = output \cup rows
        /\ limit' = IF limit = NoLimit THEN NoLimit ELSE limit - Cardinality(rows)
  OBVIOUS
<1>2. IsFiniteSet(documents) /\ wanted \subseteq documents /\ kept \subseteq documents
      /\ limit \in LimitCount /\ buffer = {} /\ cursor' = cursor \ batch
  BY DEF ScanInv, RequestOK, ScanTypeOK
<1>3. /\ rows \subseteq kept
      /\ limit = NoLimit => rows = kept
      /\ limit # NoLimit => Cardinality(rows) <= limit
      /\ rows = kept \/ (limit # NoLimit /\ Cardinality(rows) = limit)
  BY <1>1, <1>2, AnswersCount
<1>4. Cardinality(rows) \in Nat /\ Cardinality(kept) \in Nat /\ Cardinality(buffer) = 0
  BY <1>2, <1>3, PartsCount, FS_EmptySet
<1>5. RequestOK' /\ ScanTypeOK' /\ RowsApart'
  <2>1. RequestOK'
    BY DEF ScanInv, RequestOK
  <2>2. limit' \in LimitCount
    BY <1>1, <1>2, <1>3, <1>4, NoLimitAssumption DEF LimitCount
  <2>3. ScanTypeOK'
    BY <2>2, <1>1, <1>2, <1>3 DEF ScanInv, ScanTypeOK
  <2>4. RowsApart'
    BY <1>1, <1>2, <1>3 DEF ScanInv, RowsApart
  <2> QED BY <2>1, <2>3, <2>4
<1>6. Cardinality(output') = Cardinality(output) + Cardinality(rows)
  <2>1. output \cap rows = {} /\ output \subseteq documents /\ rows \subseteq documents
    BY <1>2, <1>3 DEF ScanInv, RowsApart, RequestOK
  <2> QED BY <2>1, <1>1, <1>2, DisjointCount
<1>7. Produced = Cardinality(output) /\ Produced' = Produced + Cardinality(rows)
      /\ Asked' = Asked /\ NoneLocal' = NoneLocal
  BY <1>2, <1>4, <1>6, ScanNumbers DEF Produced, Asked, NoneLocal
<1>8. Remaining' = Remaining - Cardinality(kept)
  <2>1. cursor \cap wanted = (cursor' \cap wanted) \cup kept /\ (cursor' \cap wanted) \cap kept = {}
    BY <1>2
  <2>2. Cardinality((cursor' \cap wanted) \cup kept) = Cardinality(cursor' \cap wanted) + Cardinality(kept)
    BY <2>1, <1>2, DisjointCount
  <2>3. Cardinality(cursor' \cap wanted) \in Nat
    BY <1>2, PartsCount
  <2>4. Remaining' = Cardinality(cursor' \cap wanted)
    BY DEF Remaining
  <2>5. Remaining = Cardinality((cursor' \cap wanted) \cup kept)
    BY <2>1 DEF Remaining
  <2> HIDE DEF kept
  <2> QED BY <2>2, <2>3, <2>4, <2>5, <1>4
<1>9. SUFFICES ASSUME NoneLocal
               PROVE  Produced' <= Asked' /\ (ProviderLimits' \/ ProcessLimits')
  BY <1>5, <1>7 DEF ScanInv
<1>10. CASE ProviderLimits
  <2>1. rows = kept /\ limit' = NoLimit
    BY <1>1, <1>3, <1>10 DEF ProviderLimits
  <2>2. Remaining' + Produced' = Asked'
    BY <2>1, <1>4, <1>7, <1>8, <1>10, ScanNumbers DEF ProviderLimits
  <2>3. Remaining' \in Nat
    BY <1>5, PartsCount DEF RequestOK, Remaining
  <2>4. Produced' <= Asked'
    BY <2>2, <2>3, <1>4, <1>7, ScanNumbers
  <2> QED BY <2>1, <2>2, <2>4 DEF ProviderLimits
<1>11. CASE ProcessLimits
  <2>1. limit \in Nat /\ limit # NoLimit /\ pushed.limit \in Nat /\ limit # 0
        /\ limit = pushed.limit - Cardinality(output)
    BY <1>11, NoLimitAssumption DEF ProcessLimits
  <2>2. limit' = pushed.limit - Cardinality(output') /\ limit' \in Nat
    BY <2>1, <1>1, <1>3, <1>4, <1>6, ScanNumbers
  <2>3. Produced' = Cardinality(output') /\ Produced' <= pushed.limit
    BY <2>1, <2>2, <1>4, <1>6, <1>7, ScanNumbers
  <2>4. Remaining' + Produced' >= Asked'
    <3>1. CASE rows = kept
      BY <3>1, <1>4, <1>7, <1>8, <1>11, ScanNumbers DEF ProcessLimits
    <3>2. CASE Cardinality(rows) = limit
      <4>1. Produced' = pushed.limit
        BY <3>2, <2>1, <1>7, ScanNumbers
      <4>2. Remaining' \in Nat
        BY <1>5, PartsCount DEF RequestOK, Remaining
      <4> QED BY <4>1, <4>2, <2>1, <1>7, ScanNumbers, NoLimitAssumption
    <3> QED BY <1>3, <3>1, <3>2
  <2>5. limit' # 0 => Produced' < pushed.limit
    BY <2>1, <2>2, <2>3, <1>4, <1>6, ScanNumbers
  <2>6. ProcessLimits'
    BY <2>1, <2>2, <2>3, <2>4, <2>5, <1>2 DEF ProcessLimits
  <2>7. Produced' <= Cardinality(wanted)
    <3>1. output' \subseteq wanted
      BY <1>5 DEF RowsApart
    <3> QED BY <3>1, <2>3, <1>2, SmallerCount
  <2>8. Produced' <= Asked'
    BY <2>1, <2>3, <2>7, <1>7, <1>4, ScanNumbers DEF Asked
  <2> QED BY <2>6, <2>8
<1> QED BY <1>9, <1>10, <1>11 DEF ScanInv

LEMMA EnoughRowsInv ==
  ASSUME ScanInv, EnoughRows
  PROVE  ScanInv'
<1> USE DEF EnoughRows, requestVars
<1>1. RequestOK' /\ ScanTypeOK' /\ RowsApart'
  BY DEF ScanInv, RequestOK, ScanTypeOK, RowsApart
<1>2. Produced' = Produced /\ Asked' = Asked /\ NoneLocal' = NoneLocal
  BY DEF Produced, Asked, NoneLocal
<1>3. SUFFICES ASSUME NoneLocal
               PROVE  Cardinality(output) = Asked
  BY <1>1, <1>2 DEF ScanInv
<1>4. ProcessLimits /\ Produced <= Asked
  BY <1>3, NoLimitAssumption DEF ScanInv, ProviderLimits
<1>5. pushed.limit \in Nat /\ pushed.limit # NoLimit
  BY <1>4, NoLimitAssumption DEF ProcessLimits
<1>6. CASE pushed.limit = 0
  BY <1>4, <1>5, <1>6, ScanNumbers DEF ProcessLimits, Produced
<1>7. CASE buffer = {} /\ limit = pushed.limit - Cardinality(output)
  <2>1. Cardinality(output) = pushed.limit
    BY <1>5, <1>7, ScanNumbers
  <2>2. Produced = Cardinality(output)
    BY <1>7, ScanNumbers, FS_EmptySet DEF Produced
  <2> QED BY <2>1, <2>2, <1>4, <1>5, ScanNumbers
<1> QED BY <1>4, <1>6, <1>7 DEF ProcessLimits

LEMMA EndOfRowsInv ==
  ASSUME ScanInv, EndOfRows
  PROVE  ScanInv'
<1> USE DEF EndOfRows, requestVars
<1>1. Cardinality({}) = 0
  BY FS_EmptySet
<1>2. RequestOK' /\ ScanTypeOK' /\ RowsApart'
  BY <1>1, BatchSizeAssumption DEF ScanInv, RequestOK, ScanTypeOK, RowsApart
<1>3. Cardinality(output') = Produced
  BY ProducedRows
<1>4. Produced' = Produced /\ Asked' = Asked /\ NoneLocal' = NoneLocal
  BY <1>1, <1>3, ScanNumbers DEF Produced, Asked, NoneLocal
<1>5. SUFFICES ASSUME NoneLocal
               PROVE  Produced = Asked
  BY <1>2, <1>3, <1>4 DEF ScanInv
<1>6. Remaining = 0
  BY <1>1 DEF Remaining
<1>7. Produced <= Asked /\ (ProviderLimits \/ ProcessLimits)
  BY <1>5 DEF ScanInv
<1> QED BY <1>6, <1>7, ScanNumbers DEF ProviderLimits, ProcessLimits

LEMMA ScanInvInductive ==
  ASSUME ScanInv, [ScanNext]_scanVars
  PROVE  ScanInv'
<1>1. CASE UNCHANGED scanVars
  BY <1>1 DEF scanVars, requestVars, readVars, ScanInv, RequestOK, ScanTypeOK, RowsApart,
              NothingRead, NoneLocal, Remaining, Produced, Asked, ProviderLimits, ProcessLimits
<1>2. CASE \E d \in documents : LeaveOut(d) \/ Deliver(d)
  BY <1>2, LeaveOutInv, DeliverInv
<1>3. CASE \E batch \in SUBSET cursor : DeliverBatch(batch)
  BY <1>3, DeliverBatchInv
<1> QED BY <1>1, <1>2, <1>3, OpenFailsInv, OpenNothingInv, OpenFilteredInv, OpenRelaxedInv,
           EnoughRowsInv, EndOfRowsInv, ReadFailsInv DEF ScanNext

LEMMA ScanInvariant == ScanSpec => []ScanInv
<1>1. RequestOK /\ ScanInit => ScanInv
  BY ScanInitInv
<1>2. ScanInv /\ [ScanNext]_scanVars => ScanInv'
  BY ScanInvInductive
<1> QED BY <1>1, <1>2, PTL DEF ScanSpec

-----------------------------------------------------------------------------
(* The theorems.                                                           *)

(* A scan reads nothing but documents of its provider, and a batch never   *)
(* grows beyond the batch size.                                            *)
THEOREM ScanTypeCorrect == ScanSpec => []ScanTypeOK
<1>1. ScanInv => ScanTypeOK
  BY DEF ScanInv
<1> QED BY <1>1, ScanInvariant, PTL

(* Whatever a provider returns and wherever rows are left out and counted, *)
(* a scan hands over rows of the predicate only, at no time more than the  *)
(* limit, and in the end as many as are asked for.                         *)
THEOREM ScanAnswersPredicate == ScanSpec => []ScanAnswers
<1>1. ScanInv => ScanAnswers
  <2> SUFFICES ASSUME ScanInv PROVE ScanAnswers
    OBVIOUS
  <2>1. output \subseteq wanted
    BY DEF ScanInv, RowsApart
  <2>2. NoneLocal => Cardinality(output) <= Asked /\ (pc = "done" => Cardinality(output) = Asked)
    BY ScanNumbers DEF ScanInv, Produced
  <2> QED BY <2>1, <2>2 DEF ScanAnswers, NoneLocal
<1> QED BY <1>1, ScanInvariant, PTL

-----------------------------------------------------------------------------
(* Induction over trees.                                                   *)

LessThan == {pair \in Nat \X Nat : pair[1] < pair[2]}

LEMMA LessThanWellFounded == IsWellFoundedOn(LessThan, Nat)
BY NatLessThanWellFounded, Zenon DEF OpToRel, LessThan

LEMMA LeastNatural ==
  ASSUME NEW T, T \subseteq Nat, T # {}
  PROVE  \E x \in T : \A y \in T : x <= y
<1>1. PICK x \in T : \A y \in T : ~ (<<y, x>> \in LessThan)
  BY LessThanWellFounded, WFMin, Zenon
<1>2. ASSUME NEW y \in T
      PROVE  x <= y
  <2>1. x \in Nat /\ y \in Nat
    OBVIOUS
  <2>2. <<y, x>> \notin LessThan
    BY <1>1
  <2>3. <<y, x>> \in Nat \X Nat /\ <<y, x>>[1] = y /\ <<y, x>>[2] = x
    BY <2>1
  <2>4. ~ (y < x)
    BY <2>2, <2>3, Zenon DEF LessThan
  <2> QED BY <2>1, <2>4
<1> QED BY <1>2

(* Trees of a set with a depth: if all that are less deep than a tree      *)
(* being in S puts it in S, they are all in S.                             *)
LEMMA TreeInduction ==
  ASSUME NEW E, NEW depth \in [E -> Nat], NEW S,
         \A e \in E : (\A c \in E : depth[c] < depth[e] => c \in S) => e \in S
  PROVE  E \subseteq S
<1> SUFFICES ASSUME ~ (E \subseteq S) PROVE FALSE
  OBVIOUS
<1> DEFINE T == {depth[e] : e \in E \ S}
<1>1. T \subseteq Nat /\ T # {}
  OBVIOUS
<1>2. PICK x \in T : \A y \in T : x <= y
  BY <1>1, LeastNatural
<1>3. PICK e \in E \ S : depth[e] = x
  OBVIOUS
<1>4. ASSUME NEW c \in E, depth[c] < depth[e]
      PROVE  c \in S
  <2>1. depth[c] \in Nat /\ x \in Nat /\ depth[c] < x
    BY <1>1, <1>3, <1>4
  <2>2. ~ (x <= depth[c])
    BY <2>1
  <2>3. c \notin S => depth[c] \in T
    OBVIOUS
  <2> QED BY <1>2, <2>2, <2>3, Zenon
<1> QED BY <1>3, <1>4

-----------------------------------------------------------------------------
(* Truth values.                                                           *)

Truths == {False, Unknown, True}

LEMMA AllOfTruths ==
  ASSUME NEW S, S \subseteq Truths
  PROVE  /\ AllOf(S) \in Truths
         /\ AllOf(S) = True <=> \A x \in S : x = True
         /\ AllOf(S) = False <=> False \in S
<1>1. \E m \in {True} \cup S : \A y \in {True} \cup S : m <= y
  <2>1. CASE False \in S
    BY <2>1 DEF Truths, False, Unknown, True
  <2>2. CASE False \notin S /\ Unknown \in S
    BY <2>2 DEF Truths, False, Unknown, True
  <2>3. CASE False \notin S /\ Unknown \notin S
    BY <2>3 DEF Truths, False, Unknown, True
  <2> QED BY <2>1, <2>2, <2>3
<1>2. AllOf(S) \in {True} \cup S /\ \A y \in {True} \cup S : AllOf(S) <= y
  BY <1>1 DEF AllOf, Min
<1>3. AllOf(S) \in Truths
  BY <1>2 DEF Truths
<1>4. AllOf(S) = True <=> \A x \in S : x = True
  BY <1>2, <1>3 DEF Truths, False, Unknown, True
<1>5. AllOf(S) = False <=> False \in S
  BY <1>2, <1>3 DEF Truths, False, Unknown, True
<1> QED BY <1>3, <1>4, <1>5

LEMMA AnyOfTruths ==
  ASSUME NEW S, S \subseteq Truths
  PROVE  /\ AnyOf(S) \in Truths
         /\ AnyOf(S) = False <=> \A x \in S : x = False
         /\ AnyOf(S) = True <=> True \in S
<1>1. \E m \in {False} \cup S : \A y \in {False} \cup S : m >= y
  <2>1. CASE True \in S
    BY <2>1 DEF Truths, False, Unknown, True
  <2>2. CASE True \notin S /\ Unknown \in S
    BY <2>2 DEF Truths, False, Unknown, True
  <2>3. CASE True \notin S /\ Unknown \notin S
    BY <2>3 DEF Truths, False, Unknown, True
  <2> QED BY <2>1, <2>2, <2>3
<1>2. AnyOf(S) \in {False} \cup S /\ \A y \in {False} \cup S : AnyOf(S) >= y
  BY <1>1 DEF AnyOf, Max
<1>3. AnyOf(S) \in Truths
  BY <1>2 DEF Truths
<1>4. AnyOf(S) = False <=> \A x \in S : x = False
  BY <1>2, <1>3 DEF Truths, False, Unknown, True
<1>5. AnyOf(S) = True <=> True \in S
  BY <1>2, <1>3 DEF Truths, False, Unknown, True
<1> QED BY <1>3, <1>4, <1>5

(* NOT exchanges the true and the false.                                   *)
LEMMA NegatedTruth ==
  ASSUME NEW t \in Truths, NEW negated \in BOOLEAN
  PROVE  /\ Negated(negated, t) \in Truths
         /\ Negated(negated, t) = True <=> t = (IF negated THEN False ELSE True)
         /\ Negated(negated, t) = False <=> t = (IF negated THEN True ELSE False)
BY DEF Negated, Truths, False, Unknown, True

LEMMA NegatedTwice ==
  ASSUME NEW t \in Truths, NEW negated \in BOOLEAN
  PROVE  Negated(negated, Negated(TRUE, t)) = Negated(~ negated, t)
BY DEF Negated, Truths, False, Unknown, True

LEMMA TruthTypes ==
  ASSUME NEW condition
  PROVE  /\ Truth(condition) \in Truths
         /\ Truth(condition) = True <=> condition
         /\ Truth(condition) = False <=> ~ condition
BY DEF Truth, Truths, False, Unknown, True

-----------------------------------------------------------------------------
(* Values and trees.                                                       *)

CONSTANTS Columns, Parameters

Kinds == {"integer", "float", "decimal", "string", "boolean", "binary", "date", "timestamp"}

(* A whole number has an even rank, and a number of 64 bits is one.        *)
Values ==
  {Null} \cup
  {v \in [kind : Kinds, rank : Int] :
     /\ v.kind = "integer" => v.rank % 2 = 0
     /\ v.kind = "float" => ToFloat(v.rank, ExactDouble) = v.rank}

Rows == [Columns -> Values]

Selves == [schema : [Columns -> STRING], parameters : [Parameters -> Values]]

(* The trees an Iceberg scan is given (_EXPRESSIONS), built from those of  *)
(* a set; IN has values, which are literals and parameters.                *)
BuiltFrom(e, Below) ==
  \/ \E c \in Columns : e = Column(c)
  \/ \E v \in Values : e = Literal(v)
  \/ \E p \in Parameters : e = Parameter(p)
  \/ \E op \in ComparisonOps, l \in Below, r \in Below : e = Comparison(op, l, r)
  \/ \E s \in Seq(Below) : e = And(s)
  \/ \E s \in Seq(Below) : e = Or(s)
  \/ \E x \in Below : e = Not(x)
  \/ \E x \in Below, negated \in BOOLEAN : e = IsNull(x, negated)
  \/ \E x \in Below, s \in Seq({v \in Below : IsValue(v)}) \ {<<>>}, negated \in BOOLEAN :
       e = In(x, s, negated)

Below(E, depth, e) == {c \in E : depth[c] < depth[e]}

Trees(E, depth) == depth \in [E -> Nat] /\ \A e \in E : BuiltFrom(e, Below(E, depth, e))

(* sub is substitute_parameters on the trees of E, into those of T.        *)
Substitution(sub, E, T, self) ==
  /\ sub \in [E -> T]
  /\ \A e \in E : sub[e] = NodeSubstituted(e, self.parameters, LAMBDA x, values : sub[x])

(* value and meaning are ValueOf and Meaning on the trees of T, for a row. *)
MeaningOf(value, meaning, T, row) ==
  /\ meaning \in [T -> Truths]
  /\ \A t \in T :
       /\ value[t] = NodeValue(t, row, LAMBDA x, r : value[x], LAMBDA x, r : meaning[x])
       /\ meaning[t] = NodeMeaning(t, row, LAMBDA x, r : value[x], LAMBDA x, r : meaning[x])

(* visit is Visit on the trees of E, into filters of F.                    *)
FilterOf(visit, E, F, self) ==
  /\ visit \in [E \X BOOLEAN -> [filter : F, exact : BOOLEAN]]
  /\ \A e \in E, negated \in BOOLEAN :
       visit[<<e, negated>>] = NodeFilter(e, negated, self, LAMBDA x, n, s : visit[<<x, n>>])

(* matches is Matches on the filters of F, for a row.                      *)
MatchesOf(matches, F, row, self) ==
  /\ matches \in [F -> BOOLEAN]
  /\ \A f \in F : matches[f] = NodeMatches(f, row, self, LAMBDA g, d, s : matches[g])

(* mask is Mask on the trees of E, for a row.                              *)
MaskOf(mask, E, row, self) ==
  /\ mask \in [E -> Truths]
  /\ \A e \in E : mask[e] = NodeMask(e, row, self, LAMBDA x, d, s : mask[x])

-----------------------------------------------------------------------------
(* Literals.                                                               *)

(* A literal that is made a value of the field type is not changed, and    *)
(* the column's own rounding does not change it either.                    *)
LEMMA ConvertedIsExact ==
  ASSUME NEW v \in Values, v # Null, NEW type, iceberg_value(v, type) # NotExact
  PROVE  iceberg_value(v, type) = v /\ Rounded(v, type) = v.rank
<1>1. v.kind \in Kinds /\ v.rank \in Int
      /\ (v.kind = "integer" => v.rank % 2 = 0)
      /\ (v.kind = "float" => ToFloat(v.rank, ExactDouble) = v.rank)
  BY DEF Values
<1>2. v.rank % 2 = 0 => 2 * (v.rank \div 2) = v.rank
  BY <1>1
<1>3. CASE v.kind = "integer"
  <2>1. iceberg_value(v, type) = IntegerValue(v, type)
    BY <1>3 DEF iceberg_value
  <2> QED BY <2>1, <1>1, <1>2, <1>3 DEF IntegerValue, Within, Rounded, ToFloat
<1>4. CASE v.kind = "float"
  <2>1. iceberg_value(v, type) = FloatValue(v, type)
    BY <1>4 DEF iceberg_value
  <2> QED BY <2>1, <1>1, <1>2, <1>4 DEF FloatValue, IntegerValue, Integral, Rounded
<1>5. CASE v.kind = "decimal"
  <2>1. iceberg_value(v, type) = DecimalValue(v, type)
    BY <1>5 DEF iceberg_value
  <2> QED BY <2>1, <1>1, <1>2, <1>5 DEF DecimalValue, IntegerValue, Integral, Rounded
<1>6. CASE v.kind \notin {"integer", "float", "decimal"}
  <2>1. type = v.kind /\ iceberg_value(v, type) = v
    BY <1>6 DEF iceberg_value
  <2> QED BY <2>1, <1>1, <1>6 DEF Rounded, Kinds
<1> QED BY <1>3, <1>4, <1>5, <1>6

LEMMA ValueTypes ==
  ASSUME NEW v \in Values
  PROVE  v.rank \in Int /\ v # NotExact
<1>1. CASE v = Null
  <2>1. v.kind = "null" /\ v.rank = 0
    BY <1>1 DEF Null
  <2>2. NotExact.kind = "not exact"
    BY DEF NotExact
  <2>3. v.kind # NotExact.kind
    BY <2>1, <2>2
  <2> QED BY <2>1, <2>3
<1>2. CASE v # Null
  <2>1. v.kind \in Kinds /\ v.rank \in Int
    BY <1>2 DEF Values
  <2>2. NotExact.kind \notin Kinds
    BY DEF NotExact, Kinds
  <2> QED BY <2>1, <2>2
<1> QED BY <1>1, <1>2

-----------------------------------------------------------------------------
(* The reference meaning, node by node.                                    *)

LEMMA BuiltNodes ==
  ASSUME NEW E, NEW depth, Trees(E, depth), NEW e \in E
  PROVE  /\ depth[e] \in Nat
         /\ e.node \in {"column", "literal", "parameter", "comparison", "and", "or", "not", "is_null", "in"}
         /\ e.node = "column" => e.name \in Columns
         /\ e.node = "literal" => e.value \in Values
         /\ e.node = "parameter" => e.name \in Parameters
         /\ e.node = "comparison" =>
              e.op \in ComparisonOps /\ e.left \in Below(E, depth, e) /\ e.right \in Below(E, depth, e)
         /\ e.node \in {"and", "or"} => e.operands \in Seq(Below(E, depth, e))
         /\ e.node \in {"not", "is_null", "in"} => e.operand \in Below(E, depth, e)
         /\ e.node \in {"is_null", "in"} => e.negated \in BOOLEAN
         /\ e.node = "in" =>
              e.values \in Seq({v \in Below(E, depth, e) : IsValue(v)}) /\ e.values # <<>>
<1>1. depth[e] \in Nat /\ BuiltFrom(e, Below(E, depth, e))
  BY DEF Trees
<1> DEFINE B == Below(E, depth, e)
<1> HIDE DEF B
<1>2. BuiltFrom(e, B)
  BY <1>1 DEF B
<1>4. CASE \E c \in Columns : e = Column(c)
  BY <1>1, <1>4 DEF Column
<1>5. CASE \E v \in Values : e = Literal(v)
  BY <1>1, <1>5 DEF Literal
<1>6. CASE \E p \in Parameters : e = Parameter(p)
  BY <1>1, <1>6 DEF Parameter
<1>7. CASE \E op \in ComparisonOps, l \in B, r \in B : e = Comparison(op, l, r)
  BY <1>1, <1>7 DEF Comparison, B
<1>8. CASE \E s \in Seq(B) : e = And(s)
  BY <1>1, <1>8 DEF And, B
<1>9. CASE \E s \in Seq(B) : e = Or(s)
  BY <1>1, <1>9 DEF Or, B
<1>10. CASE \E x \in B : e = Not(x)
  BY <1>1, <1>10 DEF Not, B
<1>11. CASE \E x \in B, negated \in BOOLEAN : e = IsNull(x, negated)
  BY <1>1, <1>11 DEF IsNull, B
<1>12. CASE \E x \in B, s \in Seq({v \in B : IsValue(v)}) \ {<<>>}, negated \in BOOLEAN : e = In(x, s, negated)
  BY <1>1, <1>12 DEF In, B
<1> QED BY <1>2, <1>4, <1>5, <1>6, <1>7, <1>8, <1>9, <1>10, <1>11, <1>12 DEF BuiltFrom

(* What a row says of the trees of E once their parameters are bound.      *)
Reading(E, T, depth, sub, value, meaning, row, self) ==
  /\ Trees(E, depth) /\ row \in Rows /\ self \in Selves
  /\ Substitution(sub, E, T, self)
  /\ MeaningOf(value, meaning, T, row)

LeavesMean(E, sub, value, meaning, row, self) ==
  \A e \in E :
    /\ e.node = "column" => value[sub[e]] = row[e.name]
    /\ IsValue(e) => value[sub[e]] = ValueIn(e, self)
    /\ e.node = "column" \/ IsValue(e) =>
         value[sub[e]] \in Values /\ meaning[sub[e]] = AsTruth(value[sub[e]])
    /\ ~ (e.node = "column" \/ IsValue(e)) => value[sub[e]] = AsValue(meaning[sub[e]])
    /\ meaning[sub[e]] \in Truths

LEMMA LeafMeaning ==
  ASSUME NEW E, NEW T, NEW depth, NEW sub, NEW value, NEW meaning, NEW row, NEW self,
         Reading(E, T, depth, sub, value, meaning, row, self)
  PROVE  LeavesMean(E, sub, value, meaning, row, self)
<1> SUFFICES ASSUME NEW e \in E
    PROVE  /\ e.node = "column" => value[sub[e]] = row[e.name]
           /\ IsValue(e) => value[sub[e]] = ValueIn(e, self)
           /\ e.node = "column" \/ IsValue(e) =>
                value[sub[e]] \in Values /\ meaning[sub[e]] = AsTruth(value[sub[e]])
           /\ ~ (e.node = "column" \/ IsValue(e)) => value[sub[e]] = AsValue(meaning[sub[e]])
           /\ meaning[sub[e]] \in Truths
  BY DEF LeavesMean
<1>1. sub[e] \in T /\ sub[e] = NodeSubstituted(e, self.parameters, LAMBDA x, values : sub[x])
  BY DEF Reading, Substitution
<1>2. /\ meaning[sub[e]] \in Truths
      /\ value[sub[e]] = NodeValue(sub[e], row, LAMBDA x, r : value[x], LAMBDA x, r : meaning[x])
      /\ meaning[sub[e]] = NodeMeaning(sub[e], row, LAMBDA x, r : value[x], LAMBDA x, r : meaning[x])
  BY <1>1 DEF Reading, MeaningOf
<1>4. CASE e.node = "column"
  <2>1. sub[e] = e
    BY <1>1, <1>4 DEF NodeSubstituted
  <2>2. value[sub[e]] = row[e.name] /\ meaning[sub[e]] = AsTruth(value[sub[e]])
    BY <1>2, <1>4, <2>1 DEF NodeMeaning, NodeValue
  <2>3. row[e.name] \in Values
    BY <1>4, BuiltNodes DEF Reading, Rows
  <2> QED BY <1>2, <1>4, <2>2, <2>3 DEF IsValue
<1>5. CASE IsValue(e)
  <2>1. ValueIn(e, self) \in Values
    BY <1>5, BuiltNodes DEF Reading, Selves, IsValue, ValueIn
  <2>2. sub[e].node = "literal" /\ sub[e].value = ValueIn(e, self)
    BY <1>1, <1>5 DEF NodeSubstituted, IsValue, ValueIn, Literal
  <2>3. value[sub[e]] = ValueIn(e, self) /\ meaning[sub[e]] = AsTruth(value[sub[e]])
    BY <1>2, <2>2 DEF NodeMeaning, NodeValue
  <2> QED BY <1>2, <1>5, <2>1, <2>3 DEF IsValue
<1>6. CASE e.node \in {"comparison", "and", "or", "not", "is_null", "in"}
  <2>1. sub[e].node = e.node
    BY <1>1, <1>6 DEF NodeSubstituted, Comparison, And, Or, Not, IsNull, In
  <2>2. value[sub[e]] = AsValue(meaning[sub[e]])
    BY <1>2, <1>6, <2>1 DEF NodeValue
  <2> QED BY <1>2, <1>6, <2>2 DEF IsValue
<1> QED BY <1>4, <1>5, <1>6, BuiltNodes DEF Reading, IsValue

NodesMean(E, sub, value, meaning) ==
  \A e \in E :
    /\ e.node = "comparison" =>
         meaning[sub[e]] = Compared(e.op, value[sub[e.left]], value[sub[e.right]])
    /\ e.node = "and" => meaning[sub[e]] = AllOf({meaning[sub[o]] : o \in ToSet(e.operands)})
    /\ e.node = "or" => meaning[sub[e]] = AnyOf({meaning[sub[o]] : o \in ToSet(e.operands)})
    /\ e.node = "not" => meaning[sub[e]] = Negated(TRUE, meaning[sub[e.operand]])
    /\ e.node = "is_null" => meaning[sub[e]] = Truth((value[sub[e.operand]] = Null) # e.negated)
    /\ e.node = "in" =>
         meaning[sub[e]] =
           Negated(e.negated, AnyOf({Compared("=", value[sub[e.operand]], value[sub[v]]) : v \in ToSet(e.values)}))

LEMMA TreeMeaning ==
  ASSUME NEW E, NEW T, NEW depth, NEW sub, NEW value, NEW meaning, NEW row, NEW self,
         Reading(E, T, depth, sub, value, meaning, row, self)
  PROVE  NodesMean(E, sub, value, meaning)
<1> SUFFICES ASSUME NEW e \in E
    PROVE  /\ e.node = "comparison" =>
                meaning[sub[e]] = Compared(e.op, value[sub[e.left]], value[sub[e.right]])
           /\ e.node = "and" => meaning[sub[e]] = AllOf({meaning[sub[o]] : o \in ToSet(e.operands)})
           /\ e.node = "or" => meaning[sub[e]] = AnyOf({meaning[sub[o]] : o \in ToSet(e.operands)})
           /\ e.node = "not" => meaning[sub[e]] = Negated(TRUE, meaning[sub[e.operand]])
           /\ e.node = "is_null" => meaning[sub[e]] = Truth((value[sub[e.operand]] = Null) # e.negated)
           /\ e.node = "in" =>
                meaning[sub[e]] =
                  Negated(e.negated,
                          AnyOf({Compared("=", value[sub[e.operand]], value[sub[v]]) : v \in ToSet(e.values)}))
  BY DEF NodesMean
<1>1. sub[e] \in T /\ sub[e] = NodeSubstituted(e, self.parameters, LAMBDA x, values : sub[x])
  BY DEF Reading, Substitution
<1>2. meaning[sub[e]] = NodeMeaning(sub[e], row, LAMBDA x, r : value[x], LAMBDA x, r : meaning[x])
  BY <1>1 DEF Reading, MeaningOf
<1>3. CASE e.node = "comparison"
  <2>1. sub[e] = Comparison(e.op, sub[e.left], sub[e.right])
    BY <1>1, <1>3 DEF NodeSubstituted
  <2> QED BY <1>2, <1>3, <2>1 DEF NodeMeaning, Comparison
<1>4. ASSUME e.node \in {"and", "or"}
      PROVE  {meaning[o] : o \in ToSet([i \in DOMAIN e.operands |-> sub[e.operands[i]]])}
               = {meaning[sub[o]] : o \in ToSet(e.operands)}
  BY DEF ToSet
<1>5. CASE e.node = "and"
  <2>1. sub[e] = And([i \in DOMAIN e.operands |-> sub[e.operands[i]]])
    BY <1>1, <1>5 DEF NodeSubstituted
  <2>2. sub[e].node = "and" /\ sub[e].operands = [i \in DOMAIN e.operands |-> sub[e.operands[i]]]
    BY <2>1 DEF And
  <2>3. meaning[sub[e]] = AllOf({meaning[o] : o \in ToSet(sub[e].operands)})
    BY <1>2, <2>2 DEF NodeMeaning
  <2> QED BY <1>4, <1>5, <2>2, <2>3
<1>6. CASE e.node = "or"
  <2>1. sub[e] = Or([i \in DOMAIN e.operands |-> sub[e.operands[i]]])
    BY <1>1, <1>6 DEF NodeSubstituted
  <2>2. sub[e].node = "or" /\ sub[e].operands = [i \in DOMAIN e.operands |-> sub[e.operands[i]]]
    BY <2>1 DEF Or
  <2>3. meaning[sub[e]] = AnyOf({meaning[o] : o \in ToSet(sub[e].operands)})
    BY <1>2, <2>2 DEF NodeMeaning
  <2> QED BY <1>4, <1>6, <2>2, <2>3
<1>7. CASE e.node = "not"
  <2>1. sub[e] = Not(sub[e.operand])
    BY <1>1, <1>7 DEF NodeSubstituted
  <2> QED BY <1>2, <1>7, <2>1 DEF NodeMeaning, Not
<1>8. CASE e.node = "is_null"
  <2>1. sub[e] = IsNull(sub[e.operand], e.negated)
    BY <1>1, <1>8 DEF NodeSubstituted
  <2>2. sub[e].node = "is_null" /\ sub[e].operand = sub[e.operand] /\ sub[e].negated = e.negated
    BY <2>1 DEF IsNull
  <2>3. meaning[sub[e]] = Truth((value[sub[e].operand] = Null) # sub[e].negated)
    BY <1>2, <2>2 DEF NodeMeaning
  <2> QED BY <1>8, <2>2, <2>3
<1>9. CASE e.node = "in"
  <2>1. sub[e] = In(sub[e.operand], [i \in DOMAIN e.values |-> sub[e.values[i]]], e.negated)
    BY <1>1, <1>9 DEF NodeSubstituted
  <2>2. /\ sub[e].node = "in" /\ sub[e].operand = sub[e.operand] /\ sub[e].negated = e.negated
        /\ sub[e].values = [i \in DOMAIN e.values |-> sub[e.values[i]]]
    BY <2>1 DEF In
  <2>3. meaning[sub[e]] =
          Negated(sub[e].negated,
                  AnyOf({Compared("=", value[sub[e].operand], value[v]) : v \in ToSet(sub[e].values)}))
    BY <1>2, <2>2 DEF NodeMeaning
  <2>4. {Compared("=", value[sub[e].operand], value[v]) : v \in ToSet(sub[e].values)}
          = {Compared("=", value[sub[e.operand]], value[sub[v]]) : v \in ToSet(e.values)}
    BY <2>2 DEF ToSet
  <2> QED BY <1>9, <2>2, <2>3, <2>4
<1> QED BY <1>3, <1>5, <1>6, <1>7, <1>8, <1>9

-----------------------------------------------------------------------------
(* The row filter.                                                         *)

(* What pyiceberg makes of the filters that are built.                     *)
LEMMA ConstantFilters ==
  ASSUME NEW F, NEW row, NEW self, NEW matches, MatchesOf(matches, F, row, self)
  PROVE  /\ AlwaysTrue \in F => matches[AlwaysTrue]
         /\ AlwaysFalse \in F => ~ matches[AlwaysFalse]
<1>1. \A f \in F : matches[f] = NodeMatches(f, row, self, LAMBDA g, d, s : matches[g])
  BY DEF MatchesOf
<1>2. AlwaysTrue.test = "true" /\ AlwaysFalse.test = "false"
  BY DEF AlwaysTrue, AlwaysFalse
<1> QED BY <1>1, <1>2 DEF NodeMatches

EachMatches(matches, filters) == \A i \in DOMAIN filters : matches[filters[i]]
SomeMatches(matches, filters) == \E i \in DOMAIN filters : matches[filters[i]]

LEMMA AllOfFilters ==
  ASSUME NEW F, NEW row, NEW self, NEW matches, MatchesOf(matches, F, row, self),
         NEW filters, AllFilters(filters) \in F
  PROVE  matches[AllFilters(filters)] <=> EachMatches(matches, filters)
<1> DEFINE f == AllFilters(filters)
<1>1. f.test = "all" /\ f.filters = filters
  BY DEF AllFilters
<1>2. matches[f] = NodeMatches(f, row, self, LAMBDA g, d, s : matches[g])
  BY DEF MatchesOf
<1> HIDE DEF f
<1>3. matches[f] <=> \A i \in DOMAIN filters : matches[filters[i]]
  BY <1>1, <1>2 DEF NodeMatches
<1> QED BY <1>3 DEF f, EachMatches

LEMMA AnyOfFilters ==
  ASSUME NEW F, NEW row, NEW self, NEW matches, MatchesOf(matches, F, row, self),
         NEW filters, AnyFilter(filters) \in F
  PROVE  matches[AnyFilter(filters)] <=> SomeMatches(matches, filters)
<1> DEFINE f == AnyFilter(filters)
<1>1. f.test = "any" /\ f.filters = filters
  BY DEF AnyFilter
<1>2. matches[f] = NodeMatches(f, row, self, LAMBDA g, d, s : matches[g])
  BY DEF MatchesOf
<1> HIDE DEF f
<1>3. matches[f] <=> \E i \in DOMAIN filters : matches[filters[i]]
  BY <1>1, <1>2 DEF NodeMatches
<1> QED BY <1>3 DEF f, SomeMatches

LEMMA NullTest ==
  ASSUME NEW F, NEW row, NEW self, NEW matches, MatchesOf(matches, F, row, self), NEW c, NEW v,
         Test("null", c, v) \in F
  PROVE  matches[Test("null", c, v)] <=> row[c] = Null
<1> DEFINE f == Test("null", c, v)
<1>1. f.test = "null" /\ f.column = c /\ f.value = v
  BY DEF Test
<1>2. matches[f] = NodeMatches(f, row, self, LAMBDA g, d, s : matches[g])
  BY DEF MatchesOf
<1> HIDE DEF f
<1>3. matches[f] <=> row[c] = Null
  BY <1>1, <1>2 DEF NodeMatches
<1> QED BY <1>3 DEF f

LEMMA NotNullTest ==
  ASSUME NEW F, NEW row, NEW self, NEW matches, MatchesOf(matches, F, row, self), NEW c, NEW v,
         Test("not null", c, v) \in F
  PROVE  matches[Test("not null", c, v)] <=> row[c] # Null
<1> DEFINE f == Test("not null", c, v)
<1>1. f.test = "not null" /\ f.column = c /\ f.value = v
  BY DEF Test
<1>2. matches[f] = NodeMatches(f, row, self, LAMBDA g, d, s : matches[g])
  BY DEF MatchesOf
<1> HIDE DEF f
<1>3. matches[f] <=> row[c] # Null
  BY <1>1, <1>2 DEF NodeMatches
<1> QED BY <1>3 DEF f

LEMMA ComparisonTest ==
  ASSUME NEW F, NEW row, NEW self, NEW matches, MatchesOf(matches, F, row, self), NEW c, NEW v,
         NEW test \in ComparisonOps, Test(test, c, v) \in F
  PROVE  matches[Test(test, c, v)] <=> row[c] # Null /\ Compare(test, row[c].rank, Rounded(v, self.schema[c]))
<1> DEFINE f == Test(test, c, v)
<1>1. f.test = test /\ f.column = c /\ f.value = v
  BY DEF Test
<1>2. matches[f] = NodeMatches(f, row, self, LAMBDA g, d, s : matches[g])
  BY DEF MatchesOf
<1> HIDE DEF f
<1>3. test \notin {"all", "any", "true", "false", "null", "not null", "in", "not in"}
  BY DEF ComparisonOps
<1>4. matches[f] <=> row[c] # Null /\ Compare(test, row[c].rank, Rounded(v, self.schema[c]))
  BY <1>1, <1>2, <1>3 DEF NodeMatches
<1> QED BY <1>4 DEF f

LEMMA CompareTypes ==
  ASSUME NEW op \in ComparisonOps, NEW x \in Int, NEW y \in Int
  PROVE  /\ Compare(op, x, y) \in BOOLEAN
         /\ _NEGATE[op] \in ComparisonOps /\ Compare(_NEGATE[op], x, y) = ~ Compare(op, x, y)
         /\ _MIRROR[op] \in ComparisonOps /\ Compare(_MIRROR[op], x, y) = Compare(op, y, x)
<1>1. op \in {"=", "<>", "<", "<=", ">", ">="}
  BY DEF ComparisonOps
<1>2. CASE op = "="
  BY <1>2 DEF Compare, _NEGATE, _MIRROR, ComparisonOps
<1>3. CASE op = "<>"
  BY <1>3 DEF Compare, _NEGATE, _MIRROR, ComparisonOps
<1>4. CASE op = "<"
  BY <1>4 DEF Compare, _NEGATE, _MIRROR, ComparisonOps
<1>5. CASE op = "<="
  BY <1>5 DEF Compare, _NEGATE, _MIRROR, ComparisonOps
<1>6. CASE op = ">"
  BY <1>6 DEF Compare, _NEGATE, _MIRROR, ComparisonOps
<1>7. CASE op = ">="
  BY <1>7 DEF Compare, _NEGATE, _MIRROR, ComparisonOps
<1> QED BY <1>1, <1>2, <1>3, <1>4, <1>5, <1>6, <1>7

LEMMA ComparedTypes ==
  ASSUME NEW op \in ComparisonOps, NEW x \in Values, NEW y \in Values
  PROVE  /\ Compared(op, x, y) \in Truths
         /\ Compared(op, x, y) = Unknown <=> x = Null \/ y = Null
         /\ Compared(op, x, y) = True <=> x # Null /\ y # Null /\ Compare(op, x.rank, y.rank)
         /\ Compared(op, x, y) = False <=> x # Null /\ y # Null /\ ~ Compare(op, x.rank, y.rank)
         /\ Compared(_MIRROR[op], x, y) = Compared(op, y, x)
<1>1. x.rank \in Int /\ y.rank \in Int
  BY ValueTypes
<1>2. CASE x = Null \/ y = Null
  BY <1>2 DEF Compared, Truths, Unknown, True, False
<1>3. CASE x # Null /\ y # Null
  <2>1. \A o : Compared(o, x, y) = Truth(Compare(o, x.rank, y.rank))
               /\ Compared(o, y, x) = Truth(Compare(o, y.rank, x.rank))
    BY <1>3 DEF Compared
  <2>2. Compare(_MIRROR[op], x.rank, y.rank) = Compare(op, y.rank, x.rank)
    BY <1>1, CompareTypes
  <2>3. Compare(op, x.rank, y.rank) \in BOOLEAN
    BY <1>1, CompareTypes
  <2> QED BY <1>3, <2>1, <2>2, <2>3, TruthTypes DEF Truth, Truths, Unknown, True, False
<1> QED BY <1>2, <1>3

(* The filter keeps at least the rows on which e, or NOT e, is TRUE, and   *)
(* no other where it is called exact.                                      *)
Sound(found, matches, negated, truth) ==
  /\ Negated(negated, truth) = True => matches[found.filter]
  /\ found.exact /\ matches[found.filter] => Negated(negated, truth) = True

LEMMA ExactIsSound ==
  ASSUME NEW f, NEW matches, NEW negated, NEW truth, matches[f] <=> Negated(negated, truth) = True
  PROVE  Sound(Exact(f), matches, negated, truth)
<1>1. Exact(f).filter = f
  BY DEF Exact
<1> QED BY <1>1 DEF Sound

LEMMA RelaxedIsSound ==
  ASSUME NEW F, NEW row, NEW self, NEW matches, MatchesOf(matches, F, row, self), Relaxed.filter \in F,
         NEW negated, NEW truth
  PROVE  Sound(Relaxed, matches, negated, truth)
<1>1. Relaxed.filter = AlwaysTrue /\ Relaxed.exact = FALSE
  BY DEF Relaxed
<1>2. AlwaysTrue \in F
  BY <1>1
<1>3. matches[AlwaysTrue]
  BY <1>2, ConstantFilters
<1> QED BY <1>1, <1>3 DEF Sound

(* column op operand: the filter is the comparison, or the opposite one.   *)
LEMMA ComparisonFilterSound ==
  ASSUME NEW F, NEW row \in Rows, NEW self \in Selves, NEW matches, MatchesOf(matches, F, row, self),
         NEW op \in ComparisonOps, NEW c \in Columns, NEW operand, NEW negated \in BOOLEAN,
         ValueIn(operand, self) \in Values,
         FilterComparison(op, c, operand, negated, self).filter \in F
  PROVE  Sound(FilterComparison(op, c, operand, negated, self), matches, negated,
               Compared(op, row[c], ValueIn(operand, self)))
<1> DEFINE found == FilterComparison(op, c, operand, negated, self)
           v == ValueIn(operand, self)
           converted == iceberg_value(v, self.schema[c])
           truth == Compared(op, row[c], v)
<1>1. row[c] \in Values /\ row[c].rank \in Int /\ v.rank \in Int /\ v \in Values
  BY ValueTypes DEF Rows
<1>2. /\ truth \in Truths
      /\ truth = Unknown <=> row[c] = Null \/ v = Null
      /\ truth = True <=> row[c] # Null /\ v # Null /\ Compare(op, row[c].rank, v.rank)
      /\ truth = False <=> row[c] # Null /\ v # Null /\ ~ Compare(op, row[c].rank, v.rank)
  BY <1>1, ComparedTypes
<1>3. /\ v = Null => found = Exact(AlwaysFalse)
      /\ v # Null /\ converted = NotExact => found = Relaxed
      /\ v # Null /\ converted # NotExact =>
           found = Exact(Test(IF negated THEN _NEGATE[op] ELSE op, c, converted))
  <2>1. CASE v = Null
    <3>1. found = Exact(AlwaysFalse)
      BY <2>1 DEF FilterComparison
    <3> QED BY <2>1, <3>1
  <2>2. CASE v # Null /\ converted = NotExact
    <3>1. found = Relaxed
      BY <2>2 DEF FilterComparison
    <3> QED BY <2>2, <3>1
  <2>3. CASE v # Null /\ converted # NotExact
    BY <2>3, Zenon DEF FilterComparison
  <2> QED BY <2>1, <2>2, <2>3
<1>4. \A f : Exact(f).filter = f
  BY DEF Exact
<1>5. v # Null /\ converted # NotExact => Rounded(converted, self.schema[c]) = v.rank
  BY <1>1, ConvertedIsExact
<1>6. found.filter \in F
  OBVIOUS
<1> HIDE DEF found, v, converted, truth
<1>7. Negated(negated, truth) = True <=> truth = (IF negated THEN False ELSE True)
  BY <1>2, NegatedTruth
<1>8. CASE v = Null
  <2>1. AlwaysFalse \in F
    BY <1>3, <1>4, <1>6, <1>8
  <2>3. ~ matches[AlwaysFalse]
    BY <2>1, ConstantFilters
  <2>2. Negated(negated, truth) # True
    BY <1>2, <1>7, <1>8 DEF Unknown, True, False
  <2> QED BY <1>3, <1>8, <2>3, <2>2, ExactIsSound DEF found, truth, v
<1>9. CASE v # Null /\ converted = NotExact
  <2>1. Relaxed.filter \in F
    BY <1>3, <1>6, <1>9
  <2> QED BY <1>3, <1>9, <2>1, RelaxedIsSound DEF found, truth, v
<1>10. CASE v # Null /\ converted # NotExact
  <2> DEFINE test == IF negated THEN _NEGATE[op] ELSE op
             f == Test(test, c, converted)
  <2>1. test \in ComparisonOps /\ (Compare(test, row[c].rank, v.rank) <=> (Compare(op, row[c].rank, v.rank) # negated))
    BY <1>1, CompareTypes
  <2>2. f \in F
    BY <1>3, <1>4, <1>6, <1>10
  <2>7. matches[f] <=> row[c] # Null /\ Compare(test, row[c].rank, Rounded(converted, self.schema[c]))
    <3> HIDE DEF test
    <3> QED BY <2>1, <2>2, ComparisonTest
  <2>3. matches[f] <=> row[c] # Null /\ Compare(test, row[c].rank, v.rank)
    BY <1>5, <1>10, <2>7
  <2>4. Compare(op, row[c].rank, v.rank) \in BOOLEAN
    BY <1>1, CompareTypes
  <2>5. Negated(negated, truth) = True <=> row[c] # Null /\ (Compare(op, row[c].rank, v.rank) # negated)
    BY <1>2, <1>7, <1>10, <2>4
  <2>6. matches[f] <=> Negated(negated, truth) = True
    BY <2>1, <2>3, <2>5
  <2> QED BY <1>3, <1>10, <2>6, ExactIsSound DEF found, truth, v
<1> QED BY <1>8, <1>9, <1>10

(* What a row says of an operand that is a column or a value.              *)
IsOperand(operand, e, row, self) ==
  /\ IsValue(e) => operand = ValueIn(e, self)
  /\ e.node = "column" => e.name \in Columns /\ operand = row[e.name]

LEMMA IsNullFilterSound ==
  ASSUME NEW F, NEW row \in Rows, NEW self \in Selves, NEW matches, MatchesOf(matches, F, row, self),
         NEW e, NEW negated \in BOOLEAN, e.negated \in BOOLEAN, NEW value, IsOperand(value, e.operand, row, self),
         FilterIsNull(e, negated, self).filter \in F
  PROVE  Sound(FilterIsNull(e, negated, self), matches, negated, Truth((value = Null) # e.negated))
<1> DEFINE found == FilterIsNull(e, negated, self)
           truth == Truth((value = Null) # e.negated)
           wantsNull == e.negated = negated
<1>1. truth \in Truths /\ (truth = True <=> ((value = Null) # e.negated))
      /\ (truth = False <=> ((value = Null) = e.negated))
  BY TruthTypes
<1>2. /\ IsValue(e.operand) => found = Exact(IF (value = Null) = wantsNull THEN AlwaysTrue ELSE AlwaysFalse)
      /\ ~ IsValue(e.operand) /\ e.operand.node = "column" =>
           found = Exact(Test(IF wantsNull THEN "null" ELSE "not null", e.operand.name, Null))
      /\ ~ IsValue(e.operand) /\ e.operand.node # "column" => found = Relaxed
  <2>1. CASE IsValue(e.operand)
    <3>1. found = Exact(IF (ValueIn(e.operand, self) = Null) = wantsNull THEN AlwaysTrue ELSE AlwaysFalse)
      <4>1. CASE (ValueIn(e.operand, self) = Null) = wantsNull
        BY <2>1, <4>1 DEF FilterIsNull, IsValue
      <4>2. CASE (ValueIn(e.operand, self) = Null) # wantsNull
        BY <2>1, <4>2 DEF FilterIsNull, IsValue
      <4> QED BY <4>1, <4>2
    <3> QED BY <2>1, <3>1 DEF IsOperand
  <2>2. CASE ~ IsValue(e.operand) /\ e.operand.node = "column"
    BY <2>2 DEF FilterIsNull
  <2>3. CASE ~ IsValue(e.operand) /\ e.operand.node # "column"
    BY <2>3 DEF FilterIsNull
  <2> QED BY <2>1, <2>2, <2>3
<1>3. \A f : Exact(f).filter = f
  BY DEF Exact
<1>4. found.filter \in F
  OBVIOUS
<1> HIDE DEF found, truth
<1>5. Negated(negated, truth) = True <=> truth = (IF negated THEN False ELSE True)
  BY <1>1, NegatedTruth
<1>6. Negated(negated, truth) = True <=> (value = Null) = wantsNull
  BY <1>1, <1>5
<1>7. CASE IsValue(e.operand)
  <2> DEFINE f == IF (value = Null) = wantsNull THEN AlwaysTrue ELSE AlwaysFalse
  <2>1. f \in F
    BY <1>2, <1>3, <1>4, <1>7
  <2>2. matches[f] <=> (value = Null) = wantsNull
    <3>1. CASE (value = Null) = wantsNull
      BY <2>1, <3>1, ConstantFilters
    <3>2. CASE (value = Null) # wantsNull
      BY <2>1, <3>2, ConstantFilters
    <3> QED BY <3>1, <3>2
  <2> QED BY <1>2, <1>6, <1>7, <2>2, ExactIsSound DEF found, truth
<1>8. CASE ~ IsValue(e.operand) /\ e.operand.node = "column"
  <2> DEFINE f == Test(IF wantsNull THEN "null" ELSE "not null", e.operand.name, Null)
  <2>1. f \in F
    BY <1>2, <1>3, <1>4, <1>8
  <2>2. matches[f] <=> (value = Null) = wantsNull
    <3> DEFINE test == IF wantsNull THEN "null" ELSE "not null"
               c == e.operand.name
    <3>1. matches[Test(test, c, Null)] <=> (row[c] = Null) = wantsNull
      <4>1. CASE wantsNull
        <5>1. Test("null", c, Null) \in F
          BY <2>1, <4>1
        <5>2. matches[Test("null", c, Null)] <=> row[c] = Null
          <6> HIDE DEF c
          <6> QED BY <5>1, NullTest
        <5> QED BY <4>1, <5>2
      <4>2. CASE ~ wantsNull
        <5>1. Test("not null", c, Null) \in F
          BY <2>1, <4>2
        <5>2. matches[Test("not null", c, Null)] <=> row[c] # Null
          <6> HIDE DEF c
          <6> QED BY <5>1, NotNullTest
        <5> QED BY <4>2, <5>2
      <4> QED BY <4>1, <4>2
    <3>2. row[c] = value
      BY <1>8 DEF IsOperand
    <3>3. f = Test(test, c, Null)
      OBVIOUS
    <3> HIDE DEF test, c, f
    <3> QED BY <3>1, <3>2, <3>3
  <2> QED BY <1>2, <1>6, <1>8, <2>2, ExactIsSound DEF found, truth
<1>9. CASE ~ IsValue(e.operand) /\ e.operand.node # "column"
  <2>1. Relaxed.filter \in F
    BY <1>2, <1>4, <1>9
  <2> QED BY <1>2, <1>9, <2>1, RelaxedIsSound DEF found, truth
<1> QED BY <1>7, <1>8, <1>9

(* IN over the values it compares with.                                    *)
LEMMA InMeaning ==
  ASSUME NEW x \in Values, NEW V, V \subseteq Values
  PROVE  LET any == AnyOf({Compared("=", x, v) : v \in V})
         IN  /\ any \in Truths
             /\ any = True <=> x # Null /\ \E v \in V : v # Null /\ x.rank = v.rank
             /\ any = False <=> \A v \in V : x # Null /\ v # Null /\ x.rank # v.rank
<1> DEFINE truths == {Compared("=", x, v) : v \in V}
           any == AnyOf(truths)
<1>1. \A v \in V : /\ Compared("=", x, v) \in Truths
                   /\ Compared("=", x, v) = True <=> x # Null /\ v # Null /\ x.rank = v.rank
                   /\ Compared("=", x, v) = False <=> x # Null /\ v # Null /\ x.rank # v.rank
  <2> TAKE v \in V
  <2>1. "=" \in ComparisonOps /\ v \in Values
    BY DEF ComparisonOps
  <2>2. Compare("=", x.rank, v.rank) <=> x.rank = v.rank
    BY DEF Compare
  <2> QED BY <2>1, <2>2, ComparedTypes
<1>2. truths \subseteq Truths
  BY <1>1
<1> HIDE DEF any
<1>3. any \in Truths /\ (any = False <=> \A t \in truths : t = False) /\ (any = True <=> True \in truths)
  <2> HIDE DEF truths
  <2> QED BY <1>2, AnyOfTruths DEF any
<1>4. True \in truths <=> \E v \in V : Compared("=", x, v) = True
  OBVIOUS
<1>5. (\A t \in truths : t = False) <=> \A v \in V : Compared("=", x, v) = False
  OBVIOUS
<1>6. any = True <=> x # Null /\ \E v \in V : v # Null /\ x.rank = v.rank
  BY <1>1, <1>3, <1>4
<1>7. any = False <=> \A v \in V : x # Null /\ v # Null /\ x.rank # v.rank
  BY <1>1, <1>3, <1>5
<1> QED BY <1>3, <1>6, <1>7 DEF any

Ranks(V) == {v.rank : v \in V}

(* The values of a set are what a column of a type makes of them.          *)
Fits(V, type) == \A v \in V : Rounded(v, type) = v.rank

LEMMA InTest ==
  ASSUME NEW F, NEW row, NEW self, NEW matches, MatchesOf(matches, F, row, self),
         NEW c, NEW V, Fits(V, self.schema[c]), Test("in", c, V) \in F
  PROVE  matches[Test("in", c, V)] <=> row[c] # Null /\ row[c].rank \in Ranks(V)
<1> DEFINE f == Test("in", c, V)
<1>1. f.test = "in" /\ f.column = c /\ f.value = V
  BY DEF Test
<1>2. matches[f] = NodeMatches(f, row, self, LAMBDA g, d, s : matches[g])
  BY DEF MatchesOf
<1> HIDE DEF f
<1>3. matches[f] <=> row[c] # Null /\ \E v \in V : row[c].rank = Rounded(v, self.schema[c])
  BY <1>1, <1>2 DEF NodeMatches
<1> QED BY <1>3 DEF f, Ranks, Fits

LEMMA NotInTest ==
  ASSUME NEW F, NEW row, NEW self, NEW matches, MatchesOf(matches, F, row, self),
         NEW c, NEW V, Fits(V, self.schema[c]), Test("not in", c, V) \in F
  PROVE  matches[Test("not in", c, V)] <=> row[c] # Null /\ row[c].rank \notin Ranks(V)
<1> DEFINE f == Test("not in", c, V)
<1>1. f.test = "not in" /\ f.column = c /\ f.value = V
  BY DEF Test
<1>2. matches[f] = NodeMatches(f, row, self, LAMBDA g, d, s : matches[g])
  BY DEF MatchesOf
<1> HIDE DEF f
<1>3. matches[f] <=> row[c] # Null /\ \A v \in V : row[c].rank # Rounded(v, self.schema[c])
  BY <1>1, <1>2 DEF NodeMatches
<1> QED BY <1>3 DEF f, Ranks, Fits

(* What IN says, and that it has values.                                   *)
InTruth(e, operand, self) ==
  Negated(e.negated, AnyOf({Compared("=", operand, ValueIn(v, self)) : v \in ToSet(e.values)}))

HasValues(e, self) == ToSet(e.values) # {} /\ \A v \in ToSet(e.values) : ValueIn(v, self) \in Values

(* IN over a column: values that are NULL decide NOT IN, and are left out  *)
(* of IN.                                                                  *)
LEMMA InFilterSound ==
  ASSUME NEW F, NEW row \in Rows, NEW self \in Selves, NEW matches, MatchesOf(matches, F, row, self),
         NEW e, NEW negated \in BOOLEAN, e.negated \in BOOLEAN, NEW operand,
         IsOperand(operand, e.operand, row, self), HasValues(e, self),
         FilterIn(e, negated, self).filter \in F
  PROVE  Sound(FilterIn(e, negated, self), matches, negated, InTruth(e, operand, self))
<1> DEFINE found == FilterIn(e, negated, self)
           column == e.operand.name
           excluded == e.negated # negated
           values == {ValueIn(v, self) : v \in ToSet(e.values)}
           converted == {iceberg_value(v, self.schema[column]) : v \in values \ {Null}}
           any == AnyOf({Compared("=", operand, v) : v \in values})
           truth == Negated(e.negated, any)
<1>1. InTruth(e, operand, self) = truth
  <2>1. {Compared("=", operand, ValueIn(v, self)) : v \in ToSet(e.values)} = {Compared("=", operand, v) : v \in values}
    OBVIOUS
  <2> QED BY <2>1 DEF InTruth
<1>2. values # {} /\ values \subseteq Values
  BY DEF HasValues
<1>3. \A f : Exact(f).filter = f
  BY DEF Exact
<1>4. found.filter \in F
  OBVIOUS
<1>5. CASE e.operand.node # "column"
  <2>1. found = Relaxed
    BY <1>5 DEF FilterIn
  <2> HIDE DEF found
  <2>2. Sound(found, matches, negated, truth)
    BY <1>4, <2>1, RelaxedIsSound
  <2> QED BY <1>1, <2>2 DEF found
<1>6. CASE e.operand.node = "column"
  <2>1. /\ excluded /\ Null \in values => found = Exact(AlwaysFalse)
        /\ ~ (excluded /\ Null \in values) /\ NotExact \in converted => found = Relaxed
        /\ excluded /\ Null \notin values /\ NotExact \notin converted =>
             found = Exact(Test("not in", column, converted))
        /\ ~ excluded /\ NotExact \notin converted /\ converted = {} => found = Exact(AlwaysFalse)
        /\ ~ excluded /\ NotExact \notin converted /\ converted # {} =>
             found = Exact(Test("in", column, converted))
    BY <1>6 DEF FilterIn
  <2>2. operand \in Values /\ operand = row[column] /\ column \in Columns
    BY <1>6 DEF Rows, IsOperand
  <2>3. ASSUME NotExact \notin converted
        PROVE  converted = values \ {Null} /\ Fits(converted, self.schema[column])
    <3>1. \A v \in values \ {Null} : iceberg_value(v, self.schema[column]) # NotExact =>
            iceberg_value(v, self.schema[column]) = v /\ Rounded(v, self.schema[column]) = v.rank
      <4> HIDE DEF values, column
      <4> QED BY <1>2, ConvertedIsExact
    <3> HIDE DEF values, column
    <3> QED BY <2>3, <3>1 DEF Fits
  <2> HIDE DEF found, column, values, converted, any
  <2>4. /\ any \in Truths
        /\ any = True <=> operand # Null /\ \E v \in values : v # Null /\ operand.rank = v.rank
        /\ any = False <=> \A v \in values : operand # Null /\ v # Null /\ operand.rank # v.rank
    BY <1>2, <2>2, InMeaning DEF any
  <2>5. Negated(negated, truth) = True <=> any = (IF excluded THEN False ELSE True)
    <3>1. Negated(e.negated, any) \in Truths
      BY <2>4, NegatedTruth
    <3>2. Negated(negated, truth) = True <=> Negated(e.negated, any) = (IF negated THEN False ELSE True)
      BY <3>1, NegatedTruth
    <3>3. /\ Negated(e.negated, any) = True <=> any = (IF e.negated THEN False ELSE True)
          /\ Negated(e.negated, any) = False <=> any = (IF e.negated THEN True ELSE False)
      BY <2>4, NegatedTruth
    <3>4. CASE e.negated
      BY <3>2, <3>3, <3>4
    <3>5. CASE ~ e.negated
      BY <3>2, <3>3, <3>5
    <3> QED BY <3>4, <3>5
  <2> HIDE DEF truth
  <2>6. CASE excluded /\ Null \in values
    <3>1. AlwaysFalse \in F
      BY <1>3, <1>4, <2>1, <2>6
    <3>2. ~ matches[AlwaysFalse]
      BY <3>1, ConstantFilters
    <3>3. Negated(negated, truth) # True
      BY <2>4, <2>5, <2>6
    <3>4. Sound(found, matches, negated, truth)
      BY <2>1, <2>6, <3>2, <3>3, ExactIsSound
    <3> QED BY <1>1, <3>4 DEF found, truth
  <2>7. CASE ~ (excluded /\ Null \in values) /\ NotExact \in converted
    <3>1. Sound(found, matches, negated, truth)
      BY <1>4, <2>1, <2>7, RelaxedIsSound
    <3> QED BY <1>1, <3>1 DEF found, truth
  <2>8. CASE excluded /\ Null \notin values /\ NotExact \notin converted
    <3> DEFINE f == Test("not in", column, converted)
    <3>1. f \in F
      BY <1>3, <1>4, <2>1, <2>8
    <3>2. matches[f] <=> operand # Null /\ operand.rank \notin Ranks(converted)
      <4>1. Fits(converted, self.schema[column])
        BY <2>3, <2>8
      <4> QED BY <2>2, <3>1, <4>1, NotInTest
    <3>3. matches[f] <=> operand # Null /\ \A v \in values : operand.rank # v.rank
      <4> HIDE DEF f
      <4> QED BY <2>3, <2>8, <3>2 DEF Ranks
    <3> HIDE DEF f
    <3>4. matches[f] <=> Negated(negated, truth) = True
      BY <1>2, <2>4, <2>5, <2>8, <3>3
    <3>5. Sound(found, matches, negated, truth)
      BY <2>1, <2>8, <3>4, ExactIsSound DEF f
    <3> QED BY <1>1, <3>5 DEF found, truth
  <2>9. CASE ~ excluded /\ NotExact \notin converted /\ converted = {}
    <3>1. AlwaysFalse \in F
      BY <1>3, <1>4, <2>1, <2>9
    <3>2. ~ matches[AlwaysFalse]
      BY <3>1, ConstantFilters
    <3>3. Negated(negated, truth) # True
      BY <2>3, <2>4, <2>5, <2>9
    <3>4. Sound(found, matches, negated, truth)
      BY <2>1, <2>9, <3>2, <3>3, ExactIsSound
    <3> QED BY <1>1, <3>4 DEF found, truth
  <2>10. CASE ~ excluded /\ NotExact \notin converted /\ converted # {}
    <3> DEFINE f == Test("in", column, converted)
    <3>1. f \in F
      BY <1>3, <1>4, <2>1, <2>10
    <3>2. matches[f] <=> operand # Null /\ operand.rank \in Ranks(converted)
      <4>1. Fits(converted, self.schema[column])
        BY <2>3, <2>10
      <4> QED BY <2>2, <3>1, <4>1, InTest
    <3>3. matches[f] <=> operand # Null /\ \E v \in values : v # Null /\ operand.rank = v.rank
      <4> HIDE DEF f
      <4> QED BY <2>3, <2>10, <3>2 DEF Ranks
    <3> HIDE DEF f
    <3>4. matches[f] <=> Negated(negated, truth) = True
      BY <2>4, <2>5, <2>10, <3>3
    <3>5. Sound(found, matches, negated, truth)
      BY <2>1, <2>10, <3>4, ExactIsSound DEF f
    <3> QED BY <1>1, <3>5 DEF found, truth
  <2> QED BY <2>6, <2>7, <2>8, <2>9, <2>10
<1> QED BY <1>5, <1>6

LEMMA Members ==
  ASSUME NEW B, NEW s \in Seq(B)
  PROVE  /\ ToSet(s) \subseteq B /\ \A i \in DOMAIN s : s[i] \in B /\ s[i] \in ToSet(s)
         /\ \A o \in ToSet(s) : \E i \in DOMAIN s : o = s[i]
         /\ s # <<>> => ToSet(s) # {}
<1>1. \A i \in DOMAIN s : s[i] \in B
  BY ElementOfSeq
<1>2. s # <<>> => 1 \in DOMAIN s
  OBVIOUS
<1> QED BY <1>1, <1>2 DEF ToSet

(* What AND and OR of operands say, and what NOT of them says.             *)
Conjunction(truth, s) == AllOf({truth[o] : o \in ToSet(s)})
Disjunction(truth, s) == AnyOf({truth[o] : o \in ToSet(s)})

EachIs(negated, truth, s) == \A i \in DOMAIN s : Negated(negated, truth[s[i]]) = True
SomeIs(negated, truth, s) == \E i \in DOMAIN s : Negated(negated, truth[s[i]]) = True

LEMMA ComposedMeaning ==
  ASSUME NEW B, NEW s \in Seq(B), NEW truth, \A o \in B : truth[o] \in Truths, NEW negated \in BOOLEAN
  PROVE  /\ Conjunction(truth, s) \in Truths
         /\ Disjunction(truth, s) \in Truths
         /\ Negated(negated, Conjunction(truth, s)) = True <=>
              IF negated THEN SomeIs(negated, truth, s) ELSE EachIs(negated, truth, s)
         /\ Negated(negated, Disjunction(truth, s)) = True <=>
              IF negated THEN EachIs(negated, truth, s) ELSE SomeIs(negated, truth, s)
<1> DEFINE truths == {truth[o] : o \in ToSet(s)}
           all == AllOf(truths)
           any == AnyOf(truths)
           decided == IF negated THEN False ELSE True
<1>1. truths \subseteq Truths
  BY Members
<1>2. /\ \A t : t \in truths <=> \E i \in DOMAIN s : t = truth[s[i]]
      /\ \A i \in DOMAIN s : truth[s[i]] \in Truths
  BY Members
<1> HIDE DEF truths
<1>3. /\ all \in Truths /\ (all = True <=> \A t \in truths : t = True) /\ (all = False <=> False \in truths)
      /\ any \in Truths /\ (any = False <=> \A t \in truths : t = False) /\ (any = True <=> True \in truths)
  BY <1>1, AllOfTruths, AnyOfTruths
<1> HIDE DEF all, any
<1>4. /\ Negated(negated, all) = True <=> all = decided
      /\ Negated(negated, any) = True <=> any = decided
      /\ \A i \in DOMAIN s : Negated(negated, truth[s[i]]) = True <=> truth[s[i]] = decided
  BY <1>2, <1>3, NegatedTruth
<1>5. Negated(negated, all) = True <=>
        IF ~ negated THEN \A i \in DOMAIN s : Negated(negated, truth[s[i]]) = True
        ELSE \E i \in DOMAIN s : Negated(negated, truth[s[i]]) = True
  BY <1>2, <1>3, <1>4
<1>6. Negated(negated, any) = True <=>
        IF negated THEN \A i \in DOMAIN s : Negated(negated, truth[s[i]]) = True
        ELSE \E i \in DOMAIN s : Negated(negated, truth[s[i]]) = True
  BY <1>2, <1>3, <1>4
<1> QED BY <1>3, <1>5, <1>6 DEF all, any, truths, Conjunction, Disjunction, EachIs, SomeIs

(* A tree, its filter and the rows it keeps.                               *)
Filtering(E, T, F, depth, sub, value, meaning, visit, matches, row, self) ==
  /\ Reading(E, T, depth, sub, value, meaning, row, self)
  /\ FilterOf(visit, E, F, self)
  /\ MatchesOf(matches, F, row, self)

NodesFilter(E, F, visit, self) ==
  \A e \in E, negated \in BOOLEAN :
    /\ visit[<<e, negated>>].filter \in F
    /\ e.node \in {"column", "literal", "parameter"} => visit[<<e, negated>>] = Relaxed
    /\ e.node = "not" => visit[<<e, negated>>] = visit[<<e.operand, ~ negated>>]
    /\ e.node = "is_null" => visit[<<e, negated>>] = FilterIsNull(e, negated, self)
    /\ e.node = "in" => visit[<<e, negated>>] = FilterIn(e, negated, self)

LEMMA FilterNodes ==
  ASSUME NEW E, NEW F, NEW self, NEW visit, FilterOf(visit, E, F, self)
  PROVE  NodesFilter(E, F, visit, self)
<1> SUFFICES ASSUME NEW e \in E, NEW negated \in BOOLEAN
    PROVE  /\ visit[<<e, negated>>].filter \in F
           /\ e.node \in {"column", "literal", "parameter"} => visit[<<e, negated>>] = Relaxed
           /\ e.node = "not" => visit[<<e, negated>>] = visit[<<e.operand, ~ negated>>]
           /\ e.node = "is_null" => visit[<<e, negated>>] = FilterIsNull(e, negated, self)
           /\ e.node = "in" => visit[<<e, negated>>] = FilterIn(e, negated, self)
  BY DEF NodesFilter
<1> DEFINE found == visit[<<e, negated>>]
<1>1. found \in [filter : F, exact : BOOLEAN]
  <2>1. <<e, negated>> \in E \X BOOLEAN
    OBVIOUS
  <2> QED BY <2>1 DEF FilterOf
<1>2. found = NodeFilter(e, negated, self, LAMBDA x, n, s : visit[<<x, n>>])
  BY DEF FilterOf
<1> HIDE DEF found
<1>4. e.node \in {"column", "literal", "parameter"} => found = Relaxed
  BY <1>2 DEF NodeFilter
<1>5. e.node = "not" => found = visit[<<e.operand, ~ negated>>]
  BY <1>2 DEF NodeFilter
<1>6. e.node = "is_null" => found = FilterIsNull(e, negated, self)
  BY <1>2 DEF NodeFilter
<1>7. e.node = "in" => found = FilterIn(e, negated, self)
  BY <1>2 DEF NodeFilter
<1> QED BY <1>1, <1>4, <1>5, <1>6, <1>7 DEF found

ComparisonsFilter(E, visit, self) ==
  \A e \in E, negated \in BOOLEAN : e.node = "comparison" =>
    /\ e.left.node = "column" /\ IsValue(e.right) =>
         visit[<<e, negated>>] = FilterComparison(e.op, e.left.name, e.right, negated, self)
    /\ e.right.node = "column" /\ IsValue(e.left) =>
         visit[<<e, negated>>] = FilterComparison(_MIRROR[e.op], e.right.name, e.left, negated, self)
    /\ ~ (e.left.node = "column" /\ IsValue(e.right)) /\ ~ (e.right.node = "column" /\ IsValue(e.left)) =>
         visit[<<e, negated>>] = Relaxed

LEMMA ComparisonNodes ==
  ASSUME NEW E, NEW F, NEW self, NEW visit, FilterOf(visit, E, F, self)
  PROVE  ComparisonsFilter(E, visit, self)
<1> SUFFICES ASSUME NEW e \in E, NEW negated \in BOOLEAN, e.node = "comparison"
    PROVE  /\ e.left.node = "column" /\ IsValue(e.right) =>
                visit[<<e, negated>>] = FilterComparison(e.op, e.left.name, e.right, negated, self)
           /\ e.right.node = "column" /\ IsValue(e.left) =>
                visit[<<e, negated>>] = FilterComparison(_MIRROR[e.op], e.right.name, e.left, negated, self)
           /\ ~ (e.left.node = "column" /\ IsValue(e.right)) /\ ~ (e.right.node = "column" /\ IsValue(e.left)) =>
                visit[<<e, negated>>] = Relaxed
  BY DEF ComparisonsFilter
<1> DEFINE found == visit[<<e, negated>>]
<1>1. found = NodeFilter(e, negated, self, LAMBDA x, n, s : visit[<<x, n>>])
  BY DEF FilterOf
<1> HIDE DEF found
<1>2. CASE e.left.node = "column" /\ IsValue(e.right)
  <2>1. found = FilterComparison(e.op, e.left.name, e.right, negated, self)
    BY <1>1, <1>2 DEF NodeFilter, IsValue
  <2> QED BY <1>2, <2>1 DEF found, IsValue
<1>3. CASE e.right.node = "column" /\ IsValue(e.left)
  <2>1. found = FilterComparison(_MIRROR[e.op], e.right.name, e.left, negated, self)
    BY <1>1, <1>3 DEF NodeFilter, IsValue
  <2> QED BY <1>3, <2>1 DEF found, IsValue
<1>4. CASE ~ (e.left.node = "column" /\ IsValue(e.right)) /\ ~ (e.right.node = "column" /\ IsValue(e.left))
  <2>1. found = Relaxed
    BY <1>1, <1>4 DEF NodeFilter
  <2> QED BY <1>4, <2>1 DEF found
<1> QED BY <1>2, <1>3, <1>4

ComposedFilter(e, negated, visit) ==
  LET parts == [i \in DOMAIN e.operands |-> visit[<<e.operands[i], negated>>]]
      filters == [i \in DOMAIN e.operands |-> parts[i].filter]
  IN  /\ visit[<<e, negated>>].filter =
           IF (e.node = "and") # negated THEN AllFilters(filters) ELSE AnyFilter(filters)
      /\ visit[<<e, negated>>].exact <=> \A i \in DOMAIN e.operands : parts[i].exact

LEMMA ComposedNodes ==
  ASSUME NEW E, NEW F, NEW self, NEW visit, FilterOf(visit, E, F, self), NEW e \in E, NEW negated \in BOOLEAN,
         e.node \in {"and", "or"}
  PROVE  ComposedFilter(e, negated, visit)
<1> DEFINE found == visit[<<e, negated>>]
           parts == [i \in DOMAIN e.operands |-> visit[<<e.operands[i], negated>>]]
           filters == [i \in DOMAIN parts |-> parts[i].filter]
<1>1. found = NodeFilter(e, negated, self, LAMBDA x, n, s : visit[<<x, n>>])
  BY DEF FilterOf
<1> HIDE DEF found
<1>2. found = [filter |-> IF (e.node = "and") # negated THEN AllFilters(filters) ELSE AnyFilter(filters),
               exact |-> \A i \in DOMAIN parts : parts[i].exact]
  BY <1>1 DEF NodeFilter
<1>3. DOMAIN parts = DOMAIN e.operands
  OBVIOUS
<1>4. filters = [i \in DOMAIN e.operands |-> parts[i].filter]
  BY <1>3
<1> HIDE DEF parts
<1>5. /\ found.filter = IF (e.node = "and") # negated THEN AllFilters(filters) ELSE AnyFilter(filters)
      /\ found.exact <=> \A i \in DOMAIN parts : parts[i].exact
  <2> HIDE DEF filters
  <2> QED BY <1>2
<1> QED BY <1>3, <1>4, <1>5 DEF found, parts, ComposedFilter

LEMMA FilteringMeans ==
  ASSUME NEW E, NEW T, NEW F, NEW depth, NEW sub, NEW value, NEW meaning, NEW visit, NEW matches, NEW row, NEW self,
         Filtering(E, T, F, depth, sub, value, meaning, visit, matches, row, self)
  PROVE  /\ Trees(E, depth) /\ row \in Rows /\ self \in Selves
         /\ FilterOf(visit, E, F, self) /\ MatchesOf(matches, F, row, self)
         /\ LeavesMean(E, sub, value, meaning, row, self) /\ NodesMean(E, sub, value, meaning)
         /\ NodesFilter(E, F, visit, self) /\ ComparisonsFilter(E, visit, self)
<1>1. /\ Reading(E, T, depth, sub, value, meaning, row, self)
      /\ FilterOf(visit, E, F, self) /\ MatchesOf(matches, F, row, self)
  BY DEF Filtering
<1>2. Trees(E, depth) /\ row \in Rows /\ self \in Selves
  BY <1>1 DEF Reading
<1>3. LeavesMean(E, sub, value, meaning, row, self) /\ NodesMean(E, sub, value, meaning)
  BY <1>1, LeafMeaning, TreeMeaning
<1>4. NodesFilter(E, F, visit, self) /\ ComparisonsFilter(E, visit, self)
  BY <1>1, FilterNodes, ComparisonNodes
<1> QED BY <1>1, <1>2, <1>3, <1>4

LEMMA LeafFilterSound ==
  ASSUME NEW E, NEW T, NEW F, NEW depth, NEW sub, NEW value, NEW meaning, NEW visit, NEW matches, NEW row, NEW self,
         Filtering(E, T, F, depth, sub, value, meaning, visit, matches, row, self),
         NEW e \in E, NEW negated \in BOOLEAN, e.node \in {"column", "literal", "parameter"}
  PROVE  Sound(visit[<<e, negated>>], matches, negated, meaning[sub[e]])
<1>1. /\ Trees(E, depth) /\ row \in Rows /\ self \in Selves
      /\ FilterOf(visit, E, F, self) /\ MatchesOf(matches, F, row, self)
      /\ LeavesMean(E, sub, value, meaning, row, self) /\ NodesMean(E, sub, value, meaning)
      /\ NodesFilter(E, F, visit, self) /\ ComparisonsFilter(E, visit, self)
  BY FilteringMeans
<1>2. visit[<<e, negated>>] = Relaxed /\ visit[<<e, negated>>].filter \in F
  BY <1>1 DEF NodesFilter
<1> QED BY <1>1, <1>2, RelaxedIsSound

LEMMA ComparisonSound ==
  ASSUME NEW E, NEW T, NEW F, NEW depth, NEW sub, NEW value, NEW meaning, NEW visit, NEW matches, NEW row, NEW self,
         Filtering(E, T, F, depth, sub, value, meaning, visit, matches, row, self),
         NEW e \in E, NEW negated \in BOOLEAN, e.node = "comparison"
  PROVE  Sound(visit[<<e, negated>>], matches, negated, meaning[sub[e]])
<1>1. /\ Trees(E, depth) /\ row \in Rows /\ self \in Selves
      /\ FilterOf(visit, E, F, self) /\ MatchesOf(matches, F, row, self)
      /\ LeavesMean(E, sub, value, meaning, row, self) /\ NodesMean(E, sub, value, meaning)
      /\ NodesFilter(E, F, visit, self) /\ ComparisonsFilter(E, visit, self)
  BY FilteringMeans
<1>2. visit[<<e, negated>>].filter \in F
  BY <1>1 DEF NodesFilter
<1>3. e.op \in ComparisonOps /\ e.left \in E /\ e.right \in E
  BY <1>1, BuiltNodes DEF Below
<1>4. meaning[sub[e]] = Compared(e.op, value[sub[e.left]], value[sub[e.right]])
  BY <1>1 DEF NodesMean
<1>5. CASE e.left.node = "column" /\ IsValue(e.right)
  <2>1. e.left.name \in Columns /\ value[sub[e.left]] = row[e.left.name]
        /\ value[sub[e.right]] = ValueIn(e.right, self) /\ ValueIn(e.right, self) \in Values
    BY <1>1, <1>3, <1>5, BuiltNodes DEF LeavesMean
  <2>2. visit[<<e, negated>>] = FilterComparison(e.op, e.left.name, e.right, negated, self)
    BY <1>1, <1>5 DEF ComparisonsFilter
  <2>3. FilterComparison(e.op, e.left.name, e.right, negated, self).filter \in F
    BY <1>2, <2>2
  <2> QED BY <1>1, <1>3, <1>4, <2>1, <2>2, <2>3, ComparisonFilterSound
<1>6. CASE e.right.node = "column" /\ IsValue(e.left)
  <2>1. e.right.name \in Columns /\ value[sub[e.right]] = row[e.right.name]
        /\ value[sub[e.left]] = ValueIn(e.left, self) /\ ValueIn(e.left, self) \in Values
    BY <1>1, <1>3, <1>6, BuiltNodes DEF LeavesMean
  <2>2. visit[<<e, negated>>] = FilterComparison(_MIRROR[e.op], e.right.name, e.left, negated, self)
    BY <1>1, <1>6 DEF ComparisonsFilter
  <2>3. FilterComparison(_MIRROR[e.op], e.right.name, e.left, negated, self).filter \in F
    BY <1>2, <2>2
  <2>4. _MIRROR[e.op] \in ComparisonOps
    BY <1>3, CompareTypes
  <2>5. row[e.right.name] \in Values
    BY <1>1, <2>1 DEF Rows
  <2>6. meaning[sub[e]] = Compared(_MIRROR[e.op], row[e.right.name], ValueIn(e.left, self))
    BY <1>3, <1>4, <2>1, <2>5, ComparedTypes
  <2> QED BY <1>1, <2>1, <2>2, <2>3, <2>4, <2>6, ComparisonFilterSound
<1>7. CASE ~ (e.left.node = "column" /\ IsValue(e.right)) /\ ~ (e.right.node = "column" /\ IsValue(e.left))
  <2>1. visit[<<e, negated>>] = Relaxed
    BY <1>1, <1>7 DEF ComparisonsFilter
  <2> QED BY <1>1, <1>2, <2>1, RelaxedIsSound
<1> QED BY <1>5, <1>6, <1>7

LEMMA NullTestSound ==
  ASSUME NEW E, NEW T, NEW F, NEW depth, NEW sub, NEW value, NEW meaning, NEW visit, NEW matches, NEW row, NEW self,
         Filtering(E, T, F, depth, sub, value, meaning, visit, matches, row, self),
         NEW e \in E, NEW negated \in BOOLEAN, e.node = "is_null"
  PROVE  Sound(visit[<<e, negated>>], matches, negated, meaning[sub[e]])
<1>1. /\ Trees(E, depth) /\ row \in Rows /\ self \in Selves
      /\ FilterOf(visit, E, F, self) /\ MatchesOf(matches, F, row, self)
      /\ LeavesMean(E, sub, value, meaning, row, self) /\ NodesMean(E, sub, value, meaning)
      /\ NodesFilter(E, F, visit, self) /\ ComparisonsFilter(E, visit, self)
  BY FilteringMeans
<1>2. visit[<<e, negated>>] = FilterIsNull(e, negated, self) /\ visit[<<e, negated>>].filter \in F
  BY <1>1 DEF NodesFilter
<1>3. e.operand \in E /\ e.negated \in BOOLEAN
  BY <1>1, BuiltNodes DEF Below
<1>4. meaning[sub[e]] = Truth((value[sub[e.operand]] = Null) # e.negated)
  BY <1>1 DEF NodesMean
<1>5. IsOperand(value[sub[e.operand]], e.operand, row, self)
  <2>1. e.operand.node = "column" => e.operand.name \in Columns
    BY <1>1, <1>3, BuiltNodes
  <2> QED BY <1>1, <1>3, <2>1 DEF LeavesMean, IsOperand
<1>6. FilterIsNull(e, negated, self).filter \in F
  BY <1>2
<1> DEFINE operand == value[sub[e.operand]]
<1>7. Sound(FilterIsNull(e, negated, self), matches, negated, Truth((operand = Null) # e.negated))
  <2> HIDE DEF operand
  <2> QED BY <1>1, <1>3, <1>5, <1>6, IsNullFilterSound DEF operand
<1> QED BY <1>2, <1>4, <1>7

LEMMA InSound ==
  ASSUME NEW E, NEW T, NEW F, NEW depth, NEW sub, NEW value, NEW meaning, NEW visit, NEW matches, NEW row, NEW self,
         Filtering(E, T, F, depth, sub, value, meaning, visit, matches, row, self),
         NEW e \in E, NEW negated \in BOOLEAN, e.node = "in"
  PROVE  Sound(visit[<<e, negated>>], matches, negated, meaning[sub[e]])
<1>1. /\ Trees(E, depth) /\ row \in Rows /\ self \in Selves
      /\ FilterOf(visit, E, F, self) /\ MatchesOf(matches, F, row, self)
      /\ LeavesMean(E, sub, value, meaning, row, self) /\ NodesMean(E, sub, value, meaning)
      /\ NodesFilter(E, F, visit, self) /\ ComparisonsFilter(E, visit, self)
  BY FilteringMeans
<1>2. visit[<<e, negated>>] = FilterIn(e, negated, self) /\ visit[<<e, negated>>].filter \in F
  BY <1>1 DEF NodesFilter
<1>3. e.operand \in E /\ e.negated \in BOOLEAN
  BY <1>1, BuiltNodes DEF Below
<1>4. ToSet(e.values) # {} /\ \A v \in ToSet(e.values) : v \in E /\ IsValue(v)
  <2> DEFINE B == {v \in Below(E, depth, e) : IsValue(v)}
  <2>1. e.values \in Seq(B) /\ e.values # <<>>
    BY <1>1, BuiltNodes
  <2>2. ToSet(e.values) \subseteq B /\ ToSet(e.values) # {}
    <3> HIDE DEF B
    <3> QED BY <2>1, Members
  <2> QED BY <2>2 DEF Below
<1>5. \A v \in ToSet(e.values) : value[sub[v]] = ValueIn(v, self) /\ ValueIn(v, self) \in Values
  BY <1>1, <1>4 DEF LeavesMean
<1>6. IsOperand(value[sub[e.operand]], e.operand, row, self)
  <2>1. e.operand.node = "column" => e.operand.name \in Columns
    BY <1>1, <1>3, BuiltNodes
  <2> QED BY <1>1, <1>3, <2>1 DEF LeavesMean, IsOperand
<1>7. HasValues(e, self)
  BY <1>4, <1>5 DEF HasValues
<1>8. meaning[sub[e]] = InTruth(e, value[sub[e.operand]], self)
  <2> DEFINE operand == value[sub[e.operand]]
  <2>1. meaning[sub[e]] =
          Negated(e.negated, AnyOf({Compared("=", operand, value[sub[v]]) : v \in ToSet(e.values)}))
    BY <1>1 DEF NodesMean
  <2>2. {Compared("=", operand, value[sub[v]]) : v \in ToSet(e.values)}
          = {Compared("=", operand, ValueIn(v, self)) : v \in ToSet(e.values)}
    BY <1>5
  <2> QED BY <2>1, <2>2 DEF InTruth
<1>9. FilterIn(e, negated, self).filter \in F
  BY <1>2
<1> QED BY <1>1, <1>2, <1>3, <1>6, <1>7, <1>8, <1>9, InFilterSound

SoundBelow(E, depth, e, sub, meaning, visit, matches, negated) ==
  \A o \in Below(E, depth, e) : Sound(visit[<<o, negated>>], matches, negated, meaning[sub[o]])

LEMMA ComposedSound ==
  ASSUME NEW E, NEW T, NEW F, NEW depth, NEW sub, NEW value, NEW meaning, NEW visit, NEW matches, NEW row, NEW self,
         Filtering(E, T, F, depth, sub, value, meaning, visit, matches, row, self),
         NEW e \in E, NEW negated \in BOOLEAN, e.node \in {"and", "or"},
         SoundBelow(E, depth, e, sub, meaning, visit, matches, negated)
  PROVE  Sound(visit[<<e, negated>>], matches, negated, meaning[sub[e]])
<1>1. /\ Trees(E, depth) /\ row \in Rows /\ self \in Selves
      /\ FilterOf(visit, E, F, self) /\ MatchesOf(matches, F, row, self)
      /\ LeavesMean(E, sub, value, meaning, row, self) /\ NodesMean(E, sub, value, meaning)
      /\ NodesFilter(E, F, visit, self) /\ ComparisonsFilter(E, visit, self)
  BY FilteringMeans
<1> DEFINE B == Below(E, depth, e)
           s == e.operands
           truth == [o \in E |-> meaning[sub[o]]]
           filters == [i \in DOMAIN s |-> visit[<<s[i], negated>>].filter]
           all == (e.node = "and") # negated
           found == visit[<<e, negated>>]
<1>2. s \in Seq(B) /\ B \subseteq E
  BY <1>1, BuiltNodes DEF Below
<1>3. ToSet(s) \subseteq B /\ \A i \in DOMAIN s : s[i] \in B /\ s[i] \in E
  <2> HIDE DEF B, s
  <2> QED BY <1>2, Members
<1>4. \A o \in B : truth[o] \in Truths
  BY <1>1, <1>2 DEF LeavesMean
<1>5. found.filter \in F
  BY <1>1 DEF NodesFilter
<1>6. /\ found.filter = IF all THEN AllFilters(filters) ELSE AnyFilter(filters)
      /\ found.exact <=> \A i \in DOMAIN s : visit[<<s[i], negated>>].exact
  <2>1. ComposedFilter(e, negated, visit)
    BY <1>1, ComposedNodes
  <2> DEFINE parts == [i \in DOMAIN s |-> visit[<<s[i], negated>>]]
  <2>2. /\ found.filter = IF all THEN AllFilters([i \in DOMAIN s |-> parts[i].filter])
                          ELSE AnyFilter([i \in DOMAIN s |-> parts[i].filter])
        /\ found.exact <=> \A i \in DOMAIN s : parts[i].exact
    BY <2>1 DEF ComposedFilter
  <2>3. [i \in DOMAIN s |-> parts[i].filter] = filters
    OBVIOUS
  <2>4. \A i \in DOMAIN s : parts[i].exact <=> visit[<<s[i], negated>>].exact
    OBVIOUS
  <2> HIDE DEF parts, filters, found, all, s
  <2> QED BY <2>2, <2>3, <2>4
<1>7. \A i \in DOMAIN s :
        /\ Negated(negated, truth[s[i]]) = True => matches[filters[i]]
        /\ visit[<<s[i], negated>>].exact /\ matches[filters[i]] => Negated(negated, truth[s[i]]) = True
  <2> TAKE i \in DOMAIN s
  <2>1. Sound(visit[<<s[i], negated>>], matches, negated, meaning[sub[s[i]]])
    BY <1>3 DEF SoundBelow
  <2>2. truth[s[i]] = meaning[sub[s[i]]] /\ filters[i] = visit[<<s[i], negated>>].filter
    BY <1>3
  <2> QED BY <2>1, <2>2 DEF Sound
<1>8. Negated(negated, meaning[sub[e]]) = True <=>
        IF all THEN EachIs(negated, truth, s) ELSE SomeIs(negated, truth, s)
  <2>1. {meaning[sub[o]] : o \in ToSet(s)} = {truth[o] : o \in ToSet(s)}
    BY <1>2, <1>3
  <2>2. /\ e.node = "and" => meaning[sub[e]] = Conjunction(truth, s)
        /\ e.node = "or" => meaning[sub[e]] = Disjunction(truth, s)
    <3>1. /\ e.node = "and" => meaning[sub[e]] = AllOf({meaning[sub[o]] : o \in ToSet(s)})
          /\ e.node = "or" => meaning[sub[e]] = AnyOf({meaning[sub[o]] : o \in ToSet(s)})
      BY <1>1 DEF NodesMean
    <3> HIDE DEF truth
    <3> QED BY <2>1, <3>1 DEF Conjunction, Disjunction
  <2> HIDE DEF truth, B, s
  <2>3. /\ Negated(negated, Conjunction(truth, s)) = True <=>
             IF negated THEN SomeIs(negated, truth, s) ELSE EachIs(negated, truth, s)
        /\ Negated(negated, Disjunction(truth, s)) = True <=>
             IF negated THEN EachIs(negated, truth, s) ELSE SomeIs(negated, truth, s)
    BY <1>2, <1>4, ComposedMeaning
  <2>4. CASE e.node = "and"
    BY <2>2, <2>3, <2>4
  <2>5. CASE e.node = "or"
    BY <2>2, <2>3, <2>5
  <2> QED BY <2>4, <2>5
<1>9. DOMAIN filters = DOMAIN s
  OBVIOUS
<1> HIDE DEF s, B, truth, filters, found
<1>10. CASE all
  <2>1. found.filter = AllFilters(filters) /\ AllFilters(filters) \in F
    BY <1>5, <1>6, <1>10
  <2>2. matches[found.filter] <=> EachMatches(matches, filters)
    BY <1>1, <2>1, AllOfFilters
  <2>3. matches[found.filter] <=> \A i \in DOMAIN s : matches[filters[i]]
    BY <1>9, <2>2 DEF EachMatches
  <2>4. Negated(negated, meaning[sub[e]]) = True <=> \A i \in DOMAIN s : Negated(negated, truth[s[i]]) = True
    BY <1>8, <1>10 DEF EachIs
  <2>5. Sound(found, matches, negated, meaning[sub[e]])
    BY <1>6, <1>7, <2>3, <2>4 DEF Sound
  <2> QED BY <2>5 DEF found
<1>11. CASE ~ all
  <2>1. found.filter = AnyFilter(filters) /\ AnyFilter(filters) \in F
    BY <1>5, <1>6, <1>11
  <2>2. matches[found.filter] <=> SomeMatches(matches, filters)
    BY <1>1, <2>1, AnyOfFilters
  <2>3. matches[found.filter] <=> \E i \in DOMAIN s : matches[filters[i]]
    BY <1>9, <2>2 DEF SomeMatches
  <2>4. Negated(negated, meaning[sub[e]]) = True <=> \E i \in DOMAIN s : Negated(negated, truth[s[i]]) = True
    BY <1>8, <1>11 DEF SomeIs
  <2>5. Sound(found, matches, negated, meaning[sub[e]])
    BY <1>6, <1>7, <2>3, <2>4 DEF Sound
  <2> QED BY <2>5 DEF found
<1> QED BY <1>10, <1>11

(* NOT e is e with the sense turned; what follows is what it says of rows. *)
LEMMA NotSound ==
  ASSUME NEW E, NEW T, NEW F, NEW depth, NEW sub, NEW value, NEW meaning, NEW visit, NEW matches, NEW row, NEW self,
         Filtering(E, T, F, depth, sub, value, meaning, visit, matches, row, self),
         NEW e \in E, NEW negated \in BOOLEAN, e.node = "not",
         Sound(visit[<<e.operand, ~ negated>>], matches, ~ negated, meaning[sub[e.operand]])
  PROVE  Sound(visit[<<e, negated>>], matches, negated, meaning[sub[e]])
<1>1. /\ Trees(E, depth) /\ row \in Rows /\ self \in Selves
      /\ FilterOf(visit, E, F, self) /\ MatchesOf(matches, F, row, self)
      /\ LeavesMean(E, sub, value, meaning, row, self) /\ NodesMean(E, sub, value, meaning)
      /\ NodesFilter(E, F, visit, self) /\ ComparisonsFilter(E, visit, self)
  BY FilteringMeans
<1>2. visit[<<e, negated>>] = visit[<<e.operand, ~ negated>>]
  BY <1>1 DEF NodesFilter
<1>3. e.operand \in E
  BY <1>1, BuiltNodes DEF Below
<1>4. meaning[sub[e.operand]] \in Truths /\ meaning[sub[e]] = Negated(TRUE, meaning[sub[e.operand]])
  BY <1>1, <1>3 DEF LeavesMean, NodesMean
<1>5. Negated(negated, meaning[sub[e]]) = Negated(~ negated, meaning[sub[e.operand]])
  BY <1>4, NegatedTwice
<1> QED BY <1>2, <1>5 DEF Sound

(* For every predicate, row and parameters: the row filter of a predicate  *)
(* keeps every row on which its SQL text is TRUE, and no other when it is  *)
(* called exact; turned by NOT, the same of the rows on which it is FALSE. *)
THEOREM IcebergFilterIsSound ==
  ASSUME NEW E, NEW T, NEW F, NEW depth, NEW sub, NEW value, NEW meaning, NEW visit, NEW matches, NEW row, NEW self,
         Filtering(E, T, F, depth, sub, value, meaning, visit, matches, row, self)
  PROVE  \A e \in E, negated \in BOOLEAN : Sound(visit[<<e, negated>>], matches, negated, meaning[sub[e]])
<1>1. Trees(E, depth)
  BY FilteringMeans
<1> DEFINE S == {e \in E : \A negated \in BOOLEAN : Sound(visit[<<e, negated>>], matches, negated, meaning[sub[e]])}
<1>2. ASSUME NEW e \in E, \A c \in E : depth[c] < depth[e] => c \in S
      PROVE  e \in S
  <2> SUFFICES ASSUME NEW negated \in BOOLEAN
      PROVE  Sound(visit[<<e, negated>>], matches, negated, meaning[sub[e]])
    OBVIOUS
  <2>1. \A c \in Below(E, depth, e), n \in BOOLEAN : Sound(visit[<<c, n>>], matches, n, meaning[sub[c]])
    BY <1>2 DEF Below
  <2>2. CASE e.node \in {"column", "literal", "parameter"}
    BY <2>2, LeafFilterSound
  <2>3. CASE e.node = "comparison"
    BY <2>3, ComparisonSound
  <2>4. CASE e.node = "is_null"
    BY <2>4, NullTestSound
  <2>5. CASE e.node = "in"
    BY <2>5, InSound
  <2>6. CASE e.node \in {"and", "or"}
    <3>1. SoundBelow(E, depth, e, sub, meaning, visit, matches, negated)
      BY <2>1 DEF SoundBelow
    <3> QED BY <2>6, <3>1, ComposedSound
  <2>7. CASE e.node = "not"
    <3>1. e.operand \in Below(E, depth, e)
      BY <1>1, <2>7, BuiltNodes
    <3>2. Sound(visit[<<e.operand, ~ negated>>], matches, ~ negated, meaning[sub[e.operand]])
      BY <2>1, <3>1
    <3> QED BY <2>7, <3>2, NotSound
  <2> QED BY <1>1, <2>2, <2>3, <2>4, <2>5, <2>6, <2>7, BuiltNodes
<1>3. depth \in [E -> Nat]
  BY <1>1 DEF Trees
<1>4. E \subseteq S
  <2> HIDE DEF S
  <2> QED BY <1>2, <1>3, TreeInduction
<1> QED BY <1>4

-----------------------------------------------------------------------------
(* The recheck.                                                            *)

ArrowOf(x, mask, row, self) == NodeArrow(x, row, self, LAMBDA y, d, s : mask[y])

MaskNodes(E, mask, row, self) ==
  \A e \in E :
    /\ e.node = "column" \/ IsValue(e) => mask[e] = AsTruth(ArrowOf(e, mask, row, self))
    /\ e.node = "comparison" =>
         mask[e] = ArrowCompare(e.op, ArrowOf(e.left, mask, row, self), ArrowOf(e.right, mask, row, self))
    /\ e.node = "and" => mask[e] = AllOf({mask[o] : o \in ToSet(e.operands)})
    /\ e.node = "or" => mask[e] = AnyOf({mask[o] : o \in ToSet(e.operands)})
    /\ e.node = "not" => mask[e] = Negated(TRUE, mask[e.operand])
    /\ e.node = "is_null" => mask[e] = Truth((ArrowOf(e.operand, mask, row, self) = Null) # e.negated)
    /\ e.node = "in" =>
         mask[e] = Negated(e.negated, AnyOf({ArrowCompare("=", ArrowOf(e.operand, mask, row, self),
                                                          ArrowOf(v, mask, row, self)) : v \in ToSet(e.values)}))

LEMMA MaskMeans ==
  ASSUME NEW E, NEW mask, NEW row, NEW self, MaskOf(mask, E, row, self)
  PROVE  MaskNodes(E, mask, row, self)
<1> SUFFICES ASSUME NEW e \in E
    PROVE  /\ e.node = "column" \/ IsValue(e) => mask[e] = AsTruth(ArrowOf(e, mask, row, self))
           /\ e.node = "comparison" =>
                mask[e] = ArrowCompare(e.op, ArrowOf(e.left, mask, row, self), ArrowOf(e.right, mask, row, self))
           /\ e.node = "and" => mask[e] = AllOf({mask[o] : o \in ToSet(e.operands)})
           /\ e.node = "or" => mask[e] = AnyOf({mask[o] : o \in ToSet(e.operands)})
           /\ e.node = "not" => mask[e] = Negated(TRUE, mask[e.operand])
           /\ e.node = "is_null" => mask[e] = Truth((ArrowOf(e.operand, mask, row, self) = Null) # e.negated)
           /\ e.node = "in" =>
                mask[e] = Negated(e.negated, AnyOf({ArrowCompare("=", ArrowOf(e.operand, mask, row, self),
                                                                 ArrowOf(v, mask, row, self)) : v \in ToSet(e.values)}))
  BY DEF MaskNodes
<1>1. mask[e] = NodeMask(e, row, self, LAMBDA x, d, s : mask[x])
  BY DEF MaskOf
<1>2. CASE e.node = "column" \/ IsValue(e)
  BY <1>1, <1>2 DEF NodeMask, ArrowOf, IsValue
<1>3. CASE e.node = "comparison"
  BY <1>1, <1>3 DEF NodeMask, ArrowOf, IsValue
<1>4. CASE e.node = "and"
  BY <1>1, <1>4 DEF NodeMask, IsValue
<1>5. CASE e.node = "or"
  BY <1>1, <1>5 DEF NodeMask, IsValue
<1>6. CASE e.node = "not"
  BY <1>1, <1>6 DEF NodeMask, IsValue
<1>7. CASE e.node = "is_null"
  BY <1>1, <1>7 DEF NodeMask, ArrowOf, IsValue
<1>8. CASE e.node = "in"
  BY <1>1, <1>8 DEF NodeMask, ArrowOf, IsValue
<1>9. CASE ~ (e.node = "column" \/ IsValue(e)) /\ e.node \notin {"comparison", "and", "or", "not", "is_null", "in"}
  BY <1>9
<1> QED BY <1>2, <1>3, <1>4, <1>5, <1>6, <1>7, <1>8, <1>9

(* Where the mask of a tree is what it means, so is its Arrow value.       *)
LEMMA ArrowMeans ==
  ASSUME NEW E, NEW sub, NEW value, NEW meaning, NEW mask, NEW row, NEW self,
         LeavesMean(E, sub, value, meaning, row, self), NEW e \in E, mask[e] = meaning[sub[e]]
  PROVE  ArrowOf(e, mask, row, self) = value[sub[e]]
<1>1. CASE e.node = "column"
  BY <1>1 DEF LeavesMean, ArrowOf, NodeArrow, IsValue
<1>2. CASE IsValue(e)
  BY <1>2 DEF LeavesMean, ArrowOf, NodeArrow, IsValue
<1>3. CASE ~ (e.node = "column" \/ IsValue(e))
  BY <1>3 DEF LeavesMean, ArrowOf, NodeArrow
<1> QED BY <1>1, <1>2, <1>3

(* For every predicate, row and parameters: the recheck of a row gives     *)
(* what the SQL text of the predicate means.                               *)
THEOREM IcebergRecheckAgrees ==
  ASSUME NEW E, NEW T, NEW depth, NEW sub, NEW value, NEW meaning, NEW mask, NEW row, NEW self,
         Reading(E, T, depth, sub, value, meaning, row, self), MaskOf(mask, E, row, self)
  PROVE  \A e \in E : mask[e] = meaning[sub[e]]
<1>1. /\ Trees(E, depth) /\ MaskNodes(E, mask, row, self)
      /\ LeavesMean(E, sub, value, meaning, row, self) /\ NodesMean(E, sub, value, meaning)
  BY LeafMeaning, TreeMeaning, MaskMeans DEF Reading
<1> DEFINE S == {e \in E : mask[e] = meaning[sub[e]]}
<1>2. ASSUME NEW e \in E, \A c \in E : depth[c] < depth[e] => c \in S
      PROVE  e \in S
  <2>1. \A c \in Below(E, depth, e) : c \in E /\ mask[c] = meaning[sub[c]]
    BY <1>2 DEF Below
  <2>2. \A c \in Below(E, depth, e) : ArrowOf(c, mask, row, self) = value[sub[c]]
    BY <1>1, <2>1, ArrowMeans
  <2>3. \A o, x, y : ArrowCompare(o, x, y) = Compared(o, x, y)
    BY DEF ArrowCompare, Compared
  <2>4. CASE e.node = "column" \/ IsValue(e)
    <3>1. ArrowOf(e, mask, row, self) = value[sub[e]]
      <4>1. CASE e.node = "column"
        BY <1>1, <4>1 DEF LeavesMean, ArrowOf, NodeArrow, IsValue
      <4>2. CASE IsValue(e)
        BY <1>1, <4>2 DEF LeavesMean, ArrowOf, NodeArrow, IsValue
      <4> QED BY <2>4, <4>1, <4>2
    <3>2. mask[e] = AsTruth(value[sub[e]])
      BY <1>1, <2>4, <3>1 DEF MaskNodes
    <3>3. meaning[sub[e]] = AsTruth(value[sub[e]])
      BY <1>1, <2>4 DEF LeavesMean
    <3> QED BY <3>2, <3>3
  <2>5. CASE e.node = "comparison"
    <3>1. e.left \in Below(E, depth, e) /\ e.right \in Below(E, depth, e)
      BY <1>1, <2>5, BuiltNodes
    <3>2. mask[e] = ArrowCompare(e.op, value[sub[e.left]], value[sub[e.right]])
      BY <1>1, <2>2, <2>5, <3>1 DEF MaskNodes
    <3>3. meaning[sub[e]] = Compared(e.op, value[sub[e.left]], value[sub[e.right]])
      BY <1>1, <2>5 DEF NodesMean
    <3> QED BY <2>3, <3>2, <3>3
  <2>6. CASE e.node \in {"and", "or"}
    <3>1. ToSet(e.operands) \subseteq Below(E, depth, e)
      <4>1. e.operands \in Seq(Below(E, depth, e))
        BY <1>1, <2>6, BuiltNodes
      <4> QED BY <4>1, Members
    <3>2. {mask[o] : o \in ToSet(e.operands)} = {meaning[sub[o]] : o \in ToSet(e.operands)}
      BY <2>1, <3>1
    <3>3. CASE e.node = "and"
      <4>1. mask[e] = AllOf({mask[o] : o \in ToSet(e.operands)})
        BY <1>1, <3>3 DEF MaskNodes
      <4>2. meaning[sub[e]] = AllOf({meaning[sub[o]] : o \in ToSet(e.operands)})
        BY <1>1, <3>3 DEF NodesMean
      <4> QED BY <3>2, <4>1, <4>2
    <3>4. CASE e.node = "or"
      <4>1. mask[e] = AnyOf({mask[o] : o \in ToSet(e.operands)})
        BY <1>1, <3>4 DEF MaskNodes
      <4>2. meaning[sub[e]] = AnyOf({meaning[sub[o]] : o \in ToSet(e.operands)})
        BY <1>1, <3>4 DEF NodesMean
      <4> QED BY <3>2, <4>1, <4>2
    <3> QED BY <2>6, <3>3, <3>4
  <2>7. CASE e.node = "not"
    <3>1. e.operand \in Below(E, depth, e)
      BY <1>1, <2>7, BuiltNodes
    <3>2. mask[e] = Negated(TRUE, mask[e.operand])
      BY <1>1, <2>7 DEF MaskNodes
    <3>3. meaning[sub[e]] = Negated(TRUE, meaning[sub[e.operand]])
      BY <1>1, <2>7 DEF NodesMean
    <3> QED BY <2>1, <3>1, <3>2, <3>3
  <2>8. CASE e.node = "is_null"
    <3>1. e.operand \in Below(E, depth, e)
      BY <1>1, <2>8, BuiltNodes
    <3>2. mask[e] = Truth((value[sub[e.operand]] = Null) # e.negated)
      BY <1>1, <2>2, <2>8, <3>1 DEF MaskNodes
    <3>3. meaning[sub[e]] = Truth((value[sub[e.operand]] = Null) # e.negated)
      BY <1>1, <2>8 DEF NodesMean
    <3> QED BY <3>2, <3>3
  <2>9. CASE e.node = "in"
    <3> DEFINE B == {v \in Below(E, depth, e) : IsValue(v)}
    <3>1. e.operand \in Below(E, depth, e) /\ e.values \in Seq(B)
      BY <1>1, <2>9, BuiltNodes
    <3>2. \A v \in ToSet(e.values) : v \in Below(E, depth, e)
      <4>1. ToSet(e.values) \subseteq B
        <5> HIDE DEF B
        <5> QED BY <3>1, Members
      <4> QED BY <4>1
    <3>3. {ArrowCompare("=", ArrowOf(e.operand, mask, row, self), ArrowOf(v, mask, row, self)) : v \in ToSet(e.values)}
            = {Compared("=", value[sub[e.operand]], value[sub[v]]) : v \in ToSet(e.values)}
      BY <2>2, <2>3, <3>1, <3>2
    <3>4. mask[e] = Negated(e.negated, AnyOf({ArrowCompare("=", ArrowOf(e.operand, mask, row, self),
                                                           ArrowOf(v, mask, row, self)) : v \in ToSet(e.values)}))
      BY <1>1, <2>9 DEF MaskNodes
    <3>5. meaning[sub[e]] =
            Negated(e.negated, AnyOf({Compared("=", value[sub[e.operand]], value[sub[v]]) : v \in ToSet(e.values)}))
      BY <1>1, <2>9 DEF NodesMean
    <3> QED BY <3>3, <3>4, <3>5
  <2> QED BY <1>1, <2>4, <2>5, <2>6, <2>7, <2>8, <2>9, BuiltNodes DEF IsValue
<1>3. depth \in [E -> Nat]
  BY <1>1 DEF Trees
<1>4. E \subseteq S
  <2> HIDE DEF S
  <2> QED BY <1>2, <1>3, TreeInduction
<1> QED BY <1>4

(* For every predicate, row and parameters: an Iceberg scan hands over a   *)
(* row that passes the filter and the recheck exactly if the predicate is  *)
(* TRUE on it; and where the filter is exact, so that a limit is pushed    *)
(* with it, the recheck drops nothing that passed.                         *)
THEOREM IcebergKeepsPredicate ==
  ASSUME NEW E, NEW T, NEW F, NEW depth, NEW sub, NEW value, NEW meaning, NEW visit, NEW matches, NEW mask,
         NEW row, NEW self,
         Filtering(E, T, F, depth, sub, value, meaning, visit, matches, row, self),
         MaskOf(mask, E, row, self)
  PROVE  \A e \in E :
           /\ matches[visit[<<e, FALSE>>].filter] /\ mask[e] = True <=> meaning[sub[e]] = True
           /\ visit[<<e, FALSE>>].exact => (matches[visit[<<e, FALSE>>].filter] <=> mask[e] = True)
<1> SUFFICES ASSUME NEW e \in E
    PROVE  /\ matches[visit[<<e, FALSE>>].filter] /\ mask[e] = True <=> meaning[sub[e]] = True
           /\ visit[<<e, FALSE>>].exact => (matches[visit[<<e, FALSE>>].filter] <=> mask[e] = True)
  OBVIOUS
<1>1. Sound(visit[<<e, FALSE>>], matches, FALSE, meaning[sub[e]])
  BY IcebergFilterIsSound
<1>2. mask[e] = meaning[sub[e]]
  BY IcebergRecheckAgrees DEF Filtering
<1>3. Negated(FALSE, meaning[sub[e]]) = meaning[sub[e]]
  BY DEF Negated
<1> QED BY <1>1, <1>2, <1>3 DEF Sound

-----------------------------------------------------------------------------
(* Delta.                                                                  *)

(* expression is DeltaScan's Filter on the trees of T, for a row.          *)
ExpressionOf(expression, T, row, types) ==
  /\ expression \in [T -> Truths]
  /\ \A t \in T : expression[t] = NodeExpression(t, row, types, LAMBDA x, r : expression[x])

(* The trees of T, their parameters bound, on a row.                       *)
Evaluating(T, depth, value, meaning, expression, row, types) ==
  /\ Trees(T, depth) /\ row \in Rows
  /\ \A t \in T : t.node # "parameter"
  /\ MeaningOf(value, meaning, T, row)
  /\ ExpressionOf(expression, T, row, types)

TermOf(t, expression, row) == NodeTerm(t, row, LAMBDA x, r : expression[x])

InOf(x, V) == AnyOf({Compared("=", x, v) : v \in V})

LEMMA InTruths ==
  ASSUME NEW x \in Values, NEW V, V \subseteq Values
  PROVE  /\ InOf(x, V) \in Truths
         /\ InOf(x, V) = True <=> x # Null /\ \E v \in V : v # Null /\ x.rank = v.rank
         /\ InOf(x, V) = False <=> \A v \in V : x # Null /\ v # Null /\ x.rank # v.rank
<1> DEFINE any == InOf(x, V)
<1> HIDE DEF any
<1>1. /\ any \in Truths
      /\ any = True <=> x # Null /\ \E v \in V : v # Null /\ x.rank = v.rank
      /\ any = False <=> \A v \in V : x # Null /\ v # Null /\ x.rank # v.rank
  BY InMeaning DEF any, InOf
<1> QED BY <1>1 DEF any

(* IN by a set of values, with or without a NULL among them, or by a chain *)
(* of equalities.                                                          *)
LEMMA MembershipMeans ==
  ASSUME NEW e, NEW operand \in Values, NEW target, NEW V, V \subseteq Values, V # {},
         V = {v.value : v \in ToSet(e.values)}
  PROVE  Membership(e, operand, target) = Negated(e.negated, InOf(operand, V))
<1> DEFINE any == InOf(operand, V)
           isin == \E v \in V \ {Null} : operand # Null /\ operand.rank = v.rank
           valueSet == HasValueSet(V \ {Null}, target)
           result == CASE ~ valueSet -> AnyOf({ArrowCompare("=", operand, v) : v \in V})
                       [] valueSet /\ Null \in V -> IfElse(isin, True, Unknown)
                       [] OTHER -> IfElse(operand # Null, Truth(isin), Unknown)
<1>1. /\ any \in Truths
      /\ any = True <=> operand # Null /\ \E v \in V : v # Null /\ operand.rank = v.rank
      /\ any = False <=> \A v \in V : operand # Null /\ v # Null /\ operand.rank # v.rank
  BY InTruths
<1>2. Membership(e, operand, target) = Negated(e.negated, result)
  BY DEF Membership
<1>3. {ArrowCompare("=", operand, v) : v \in V} = {Compared("=", operand, v) : v \in V}
  BY DEF ArrowCompare, Compared
<1>4. any = True <=> isin
  BY <1>1
<1> HIDE DEF any, valueSet
<1>5. CASE ~ valueSet
  BY <1>2, <1>3, <1>5 DEF any, InOf
<1>6. CASE valueSet /\ Null \in V
  <2>1. any # False
    BY <1>1, <1>6
  <2>2. result = IfElse(isin, True, Unknown)
    BY <1>6
  <2>3. result = any
    BY <1>1, <1>4, <2>1, <2>2 DEF IfElse, Truths
  <2> QED BY <1>2, <2>3 DEF any
<1>7. CASE valueSet /\ Null \notin V
  <2>1. result = IfElse(operand # Null, Truth(isin), Unknown)
    BY <1>7
  <2>2. CASE operand = Null
    <3>1. any # False /\ any # True
      BY <1>1, <2>2
    <3> QED BY <1>1, <1>2, <2>1, <2>2, <3>1 DEF IfElse, Truths, any
  <2>3. CASE operand # Null
    <3>1. any = False <=> ~ isin
      BY <1>1, <1>7, <2>3
    <3> QED BY <1>1, <1>2, <1>4, <2>1, <2>3, <3>1 DEF IfElse, Truth, Truths, any
  <2> QED BY <2>2, <2>3
<1> QED BY <1>5, <1>6, <1>7

(* Where the expression of a tree is what it means, so is its value.       *)
LEMMA TermMeans ==
  ASSUME NEW T, NEW depth, NEW value, NEW meaning, NEW expression, NEW row, NEW types,
         Evaluating(T, depth, value, meaning, expression, row, types),
         NEW t \in T, expression[t] = meaning[t]
  PROVE  TermOf(t, expression, row) = value[t] /\ value[t] \in Values
<1>1. /\ t.node \in {"column", "literal", "comparison", "and", "or", "not", "is_null", "in"}
      /\ t.node = "column" => t.name \in Columns
      /\ t.node = "literal" => t.value \in Values
  BY BuiltNodes DEF Evaluating
<1>2. value[t] = NodeValue(t, row, LAMBDA x, r : value[x], LAMBDA x, r : meaning[x])
      /\ meaning[t] \in Truths
  BY DEF Evaluating, MeaningOf
<1>3. CASE t.node = "column"
  <2>1. value[t] = row[t.name] /\ TermOf(t, expression, row) = row[t.name]
    BY <1>2, <1>3 DEF NodeValue, TermOf, NodeTerm
  <2> QED BY <1>1, <1>3, <2>1 DEF Evaluating, Rows
<1>4. CASE t.node = "literal"
  BY <1>1, <1>2, <1>4 DEF NodeValue, TermOf, NodeTerm
<1>5. CASE t.node \notin {"column", "literal"}
  <2>1. value[t] = AsValue(meaning[t]) /\ TermOf(t, expression, row) = AsValue(meaning[t])
    BY <1>1, <1>2, <1>5 DEF NodeValue, TermOf, NodeTerm
  <2>2. AsValue(meaning[t]) \in Values
    BY DEF AsValue, Boolean, Values, Kinds
  <2> QED BY <2>1, <2>2
<1> QED BY <1>3, <1>4, <1>5

(* For every predicate and row: the dataset expression of a predicate      *)
(* whose parameters are bound is, on the row, what its SQL text means:     *)
(* TRUE, FALSE or unknown, and so under any NOT.                           *)
THEOREM DeltaExpressionAgrees ==
  ASSUME NEW T, NEW depth, NEW value, NEW meaning, NEW expression, NEW row, NEW types,
         Evaluating(T, depth, value, meaning, expression, row, types)
  PROVE  \A t \in T : expression[t] = meaning[t]
<1> DEFINE S == {t \in T : expression[t] = meaning[t]}
<1>1. Trees(T, depth) /\ \A t \in T : t.node # "parameter"
  BY DEF Evaluating
<1>2. ASSUME NEW t \in T, \A c \in T : depth[c] < depth[t] => c \in S
      PROVE  t \in S
  <2> SUFFICES expression[t] = meaning[t]
    OBVIOUS
  <2>1. \A c \in Below(T, depth, t) : c \in T /\ expression[c] = meaning[c]
    BY <1>2 DEF Below
  <2>2. \A c \in Below(T, depth, t) : TermOf(c, expression, row) = value[c] /\ value[c] \in Values
    BY <2>1, TermMeans
  <2>3. expression[t] = NodeExpression(t, row, types, LAMBDA x, r : expression[x])
    BY DEF Evaluating, ExpressionOf
  <2>4. meaning[t] = NodeMeaning(t, row, LAMBDA x, r : value[x], LAMBDA x, r : meaning[x])
    BY DEF Evaluating, MeaningOf
  <2>5. CASE t.node \in {"column", "literal"}
    <3>1. expression[t] = AsTruth(TermOf(t, expression, row))
      BY <2>3, <2>5 DEF NodeExpression, TermOf
    <3>2. meaning[t] = AsTruth(value[t])
      BY <2>4, <2>5 DEF NodeMeaning
    <3>3. value[t] = NodeValue(t, row, LAMBDA x, r : value[x], LAMBDA x, r : meaning[x])
      BY DEF Evaluating, MeaningOf
    <3>4. TermOf(t, expression, row) = value[t]
      BY <2>5, <3>3 DEF NodeValue, TermOf, NodeTerm
    <3> QED BY <3>1, <3>2, <3>4
  <2>6. CASE t.node = "comparison"
    <3>1. t.left \in Below(T, depth, t) /\ t.right \in Below(T, depth, t)
      BY <1>1, <2>6, BuiltNodes
    <3>2. expression[t] = ArrowCompare(t.op, TermOf(t.left, expression, row), TermOf(t.right, expression, row))
      BY <2>3, <2>6 DEF NodeExpression, TermOf
    <3>3. meaning[t] = Compared(t.op, value[t.left], value[t.right])
      BY <2>4, <2>6 DEF NodeMeaning
    <3> QED BY <2>2, <3>1, <3>2, <3>3 DEF ArrowCompare, Compared
  <2>7. CASE t.node \in {"and", "or"}
    <3>1. ToSet(t.operands) \subseteq Below(T, depth, t)
      <4>1. t.operands \in Seq(Below(T, depth, t))
        BY <1>1, <2>7, BuiltNodes
      <4> QED BY <4>1, Members
    <3>2. {expression[o] : o \in ToSet(t.operands)} = {meaning[o] : o \in ToSet(t.operands)}
      BY <2>1, <3>1
    <3>3. CASE t.node = "and"
      <4>1. expression[t] = AllOf({expression[o] : o \in ToSet(t.operands)})
        BY <2>3, <3>3 DEF NodeExpression
      <4>2. meaning[t] = AllOf({meaning[o] : o \in ToSet(t.operands)})
        BY <2>4, <3>3 DEF NodeMeaning
      <4> QED BY <3>2, <4>1, <4>2
    <3>4. CASE t.node = "or"
      <4>1. expression[t] = AnyOf({expression[o] : o \in ToSet(t.operands)})
        BY <2>3, <3>4 DEF NodeExpression
      <4>2. meaning[t] = AnyOf({meaning[o] : o \in ToSet(t.operands)})
        BY <2>4, <3>4 DEF NodeMeaning
      <4> QED BY <3>2, <4>1, <4>2
    <3> QED BY <2>7, <3>3, <3>4
  <2>8. CASE t.node = "not"
    <3>1. t.operand \in Below(T, depth, t)
      BY <1>1, <2>8, BuiltNodes
    <3>2. expression[t] = Negated(TRUE, expression[t.operand])
      BY <2>3, <2>8 DEF NodeExpression
    <3>3. meaning[t] = Negated(TRUE, meaning[t.operand])
      BY <2>4, <2>8 DEF NodeMeaning
    <3> QED BY <2>1, <3>1, <3>2, <3>3
  <2>9. CASE t.node = "is_null"
    <3>1. t.operand \in Below(T, depth, t)
      BY <1>1, <2>9, BuiltNodes
    <3>2. expression[t] = Truth((TermOf(t.operand, expression, row) = Null) # t.negated)
      BY <2>3, <2>9 DEF NodeExpression, TermOf
    <3>3. meaning[t] = Truth((value[t.operand] = Null) # t.negated)
      BY <2>4, <2>9 DEF NodeMeaning
    <3> QED BY <2>2, <3>1, <3>2, <3>3
  <2>10. CASE t.node = "in"
    <3> DEFINE B == {v \in Below(T, depth, t) : IsValue(v)}
               V == {v.value : v \in ToSet(t.values)}
    <3>1. t.operand \in Below(T, depth, t) /\ t.values \in Seq(B) /\ t.values # <<>>
      BY <1>1, <2>10, BuiltNodes
    <3>2. ToSet(t.values) \subseteq B /\ ToSet(t.values) # {}
      <4> HIDE DEF B
      <4>1. ToSet(t.values) \subseteq B
        BY <3>1, Members
      <4>2. 1 \in DOMAIN t.values
        BY <3>1
      <4> QED BY <4>1, <4>2 DEF ToSet
    <3>3. \A v \in ToSet(t.values) : v \in T /\ v.node = "literal" /\ v.value \in Values /\ value[v] = v.value
      <4> SUFFICES ASSUME NEW v \in ToSet(t.values)
          PROVE  v \in T /\ v.node = "literal" /\ v.value \in Values /\ value[v] = v.value
        OBVIOUS
      <4>1. v \in T /\ v.node = "literal"
        BY <1>1, <2>1, <3>2 DEF IsValue
      <4>2. v.value \in Values
        BY <1>1, <4>1, BuiltNodes
      <4>3. value[v] = NodeValue(v, row, LAMBDA x, r : value[x], LAMBDA x, r : meaning[x])
        BY <4>1 DEF Evaluating, MeaningOf
      <4> QED BY <4>1, <4>2, <4>3 DEF NodeValue
    <3>4. \E target : expression[t] = Membership(t, TermOf(t.operand, expression, row), target)
      BY <2>3, <2>10 DEF NodeExpression, TermOf
    <3>5. V \subseteq Values /\ V # {}
      BY <3>2, <3>3
    <3>6. expression[t] = Negated(t.negated, InOf(value[t.operand], V))
      <4> HIDE DEF V
      <4>1. V = {v.value : v \in ToSet(t.values)}
        BY DEF V
      <4>2. PICK target : expression[t] = Membership(t, value[t.operand], target)
        BY <2>2, <3>1, <3>4
      <4>3. value[t.operand] \in Values
        BY <2>2, <3>1
      <4>4. Membership(t, value[t.operand], target) = Negated(t.negated, InOf(value[t.operand], V))
        BY <3>5, <4>1, <4>3, MembershipMeans
      <4> QED BY <4>2, <4>4
    <3>7. {Compared("=", value[t.operand], v) : v \in V}
            = {Compared("=", value[t.operand], value[v]) : v \in ToSet(t.values)}
      BY <3>3
    <3>8. meaning[t] = Negated(t.negated, AnyOf({Compared("=", value[t.operand], value[v]) : v \in ToSet(t.values)}))
      BY <2>4, <2>10 DEF NodeMeaning
    <3> QED BY <3>6, <3>7, <3>8 DEF InOf
  <2> QED BY <1>1, <2>5, <2>6, <2>7, <2>8, <2>9, <2>10, BuiltNodes
<1>3. depth \in [T -> Nat]
  BY <1>1 DEF Trees
<1>4. T \subseteq S
  <2> HIDE DEF S
  <2> QED BY <1>2, <1>3, TreeInduction
<1> QED BY <1>4

-----------------------------------------------------------------------------
(* The discoveries of the types of properties.                             *)

ReportedType(name) == IF name \in DOMAIN PROPERTY_TYPES THEN PROPERTY_TYPES[name] ELSE "string"

(* A stored kind by the name the procedure reports, and by itself: the     *)
(* same type, and the same need of a local predicate.                      *)
LEMMA KindsAgree ==
  ASSUME NEW v, v.kind \in PropertyKinds
  PROVE  /\ ReportedType(PropertyTypeName[v.kind]) = infer_value_type(v)
         /\ PropertyTypeName[v.kind] \notin DOMAIN PROPERTY_TYPES <=> value_needs_local_predicate(v)
<1>1. v.kind \in {"string", "integer", "float", "boolean"} \/ v.kind \in {"date", "zoned", "unzoned"}
        \/ v.kind \in {"duration", "list"}
  BY DEF PropertyKinds
<1>2. PropertyTypeName[v.kind] =
        CASE v.kind = "string" -> "String"
          [] v.kind = "integer" -> "Long"
          [] v.kind = "float" -> "Double"
          [] v.kind = "boolean" -> "Boolean"
          [] v.kind = "date" -> "Date"
          [] v.kind = "zoned" -> "DateTime"
          [] v.kind = "unzoned" -> "LocalDateTime"
          [] v.kind = "duration" -> "Duration"
          [] v.kind = "list" -> "StringArray"
  BY DEF PropertyTypeName
<1>3. CASE v.kind = "string"
  BY <1>2, <1>3 DEF ReportedType, PROPERTY_TYPES, infer_value_type, value_needs_local_predicate
<1>4. CASE v.kind = "integer"
  BY <1>2, <1>4 DEF ReportedType, PROPERTY_TYPES, infer_value_type, value_needs_local_predicate
<1>5. CASE v.kind = "float"
  BY <1>2, <1>5 DEF ReportedType, PROPERTY_TYPES, infer_value_type, value_needs_local_predicate
<1>6. CASE v.kind = "boolean"
  BY <1>2, <1>6 DEF ReportedType, PROPERTY_TYPES, infer_value_type, value_needs_local_predicate
<1>7. CASE v.kind = "date"
  BY <1>2, <1>7 DEF ReportedType, PROPERTY_TYPES, infer_value_type, value_needs_local_predicate
<1>8. CASE v.kind = "zoned"
  BY <1>2, <1>8 DEF ReportedType, PROPERTY_TYPES, infer_value_type, value_needs_local_predicate
<1>9. CASE v.kind = "unzoned"
  BY <1>2, <1>9 DEF ReportedType, PROPERTY_TYPES, infer_value_type, value_needs_local_predicate
<1>10. CASE v.kind = "duration"
  BY <1>2, <1>10 DEF ReportedType, PROPERTY_TYPES, infer_value_type, value_needs_local_predicate
<1>11. CASE v.kind = "list"
  BY <1>2, <1>11 DEF ReportedType, PROPERTY_TYPES, infer_value_type, value_needs_local_predicate
<1> QED BY <1>1, <1>3, <1>4, <1>5, <1>6, <1>7, <1>8, <1>9, <1>10, <1>11

LEMMA DiscoveredAlike ==
  ASSUME NEW values, \A v \in values : v.kind \in PropertyKinds
  PROVE  DiscoverFromProcedure(values) = DiscoverBySampling(values)
<1> DEFINE names == {PropertyTypeName[v.kind] : v \in values}
           types == {infer_value_type(v) : v \in values}
           reported == {ReportedType(name) : name \in names}
           mapped == {PROPERTY_TYPES[name] : name \in names}
<1>1. \A v \in values : /\ ReportedType(PropertyTypeName[v.kind]) = infer_value_type(v)
                        /\ PropertyTypeName[v.kind] \notin DOMAIN PROPERTY_TYPES
                             <=> value_needs_local_predicate(v)
  BY KindsAgree
<1>2. reported = types
  <2>1. reported = {ReportedType(PropertyTypeName[v.kind]) : v \in values}
    OBVIOUS
  <2> QED BY <1>1, <2>1
<1>3. ~ names \subseteq DOMAIN PROPERTY_TYPES <=> \E v \in values : value_needs_local_predicate(v)
  BY <1>1
<1>4. names \subseteq DOMAIN PROPERTY_TYPES => mapped = reported
  BY DEF ReportedType
<1>5. property_types_to_domain(names) = merge_domain_types(types)
  BY <1>2 DEF property_types_to_domain, ReportedType
<1>6. types_need_local_predicate(names)
        <=> \/ ~ names \subseteq DOMAIN PROPERTY_TYPES
            \/ Cardinality(mapped) > 1 /\ ~ IsNumericMix(mapped)
  BY DEF types_need_local_predicate
<1>7. types_need_local_predicate(names)
        <=> \/ \E v \in values : value_needs_local_predicate(v)
            \/ Cardinality(types) > 1 /\ ~ IsNumericMix(types)
  <2> HIDE DEF names, types, mapped, reported
  <2> QED BY <1>2, <1>3, <1>4, <1>6
<1>8. types_need_local_predicate(names)
        = (\/ \E v \in values : value_needs_local_predicate(v)
           \/ Cardinality(types) > 1 /\ ~ IsNumericMix(types))
  BY <1>7 DEF types_need_local_predicate
<1> QED BY <1>5, <1>8 DEF DiscoverFromProcedure, DiscoverBySampling

(* Of whatever nodes are stored, with however many kinds of values in a    *)
(* property, sampling finds the type that the procedure reports, and sends *)
(* predicates on it where the procedure's answer would send them.          *)
THEOREM DiscoveriesAlwaysAgree == ScanSpec => []DiscoveriesAgree
<1>1. DiscoveriesAgree
  BY DiscoveredAlike DEF DiscoveriesAgree
<1> QED BY <1>1, PTL

-----------------------------------------------------------------------------
(* The types inferred from documents, and the values converted to them.    *)

(* What is stored: nothing, a value of some kind that has a rank, an array *)
(* of values, a document.  The ranks of integers are even.                 *)
IsStored(v) ==
  \/ IsAbsent(v)
  \/ v.kind \in {"list", "struct"}
  \/ /\ v.kind \in ScalarKinds \cup {"objectid"}
     /\ v.rank \in Int
     /\ v.kind = "integer" => v.rank % 2 = 0

TypeBy(values, type) == NodeType(values, LAMBDA s : type[s])
ConvertedBy(t, v, convert) == NodeConverted(t, v, LAMBDA u, x : convert[<<u, x>>])
ConvertsBy(v, converts) == NodeConverts(v, LAMBDA x : converts[x])

(* Sets of stored values, with those of each of their fields and of their  *)
(* items, which are less deep; the types found of them, and what their     *)
(* values are converted to.                                                *)
Inferring(V, depth, type, convert, converts) ==
  /\ depth \in [V -> Nat]
  /\ \A values \in V :
       /\ type[values] = TypeBy(values, type)
       /\ \A v \in values :
            LET converted == convert[<<type[values], v>>]
            IN /\ IsStored(v)
               /\ converted = ConvertedBy(type[values], v, convert)
               /\ converts[converted] = ConvertsBy(converted, converts)
       /\ KindsSeen(values) = {"struct"} =>
            \A name \in FieldNames(values) :
              FieldValues(values, name) \in V /\ depth[FieldValues(values, name)] < depth[values]
       /\ KindsSeen(values) = {"list"} => ItemValues(values) \in V /\ depth[ItemValues(values)] < depth[values]

LEMMA TextIsConverted ==
  ASSUME NEW v, v.kind \in ScalarKinds \cup {"objectid", "list", "struct"}
  PROVE  TextOf(v).kind = "string"
BY DEF TextOf, HexText, Text, ScalarKinds

(* The type of a column of scalars, or of conflicting kinds, takes each.   *)
LEMMA ScalarConverts ==
  ASSUME NEW values, NEW v \in values, IsStored(v), ~ IsAbsent(v),
         NEW types, NEW convert,
         KindsSeen(values) # {"struct"}, KindsSeen(values) # {"list"}
  PROVE  ConvertedBy(TypeBy(values, types), v, convert).kind \in ScalarKinds
<1> DEFINE kinds == KindsSeen(values)
           type == TypeBy(values, types)
           converted == ConvertedBy(type, v, convert)
<1>1. v.kind \in kinds
  BY DEF KindsSeen, Present
<1>2. v.kind \in ScalarKinds \cup {"objectid", "list", "struct"}
  BY DEF IsStored
<1>3. CASE kinds \subseteq NumericKinds
  <2>1. type = [type |-> Widest(kinds)]
    BY <1>1, <1>3 DEF TypeBy, NodeType, NumericKinds
  <2>2. Widest(kinds) \in NumericKinds /\ (Widest(kinds) = "integer" => kinds \subseteq {"integer"})
    BY <1>3 DEF Widest, NumericKinds
  <2>3. converted = ConvertNumber(Widest(kinds), v)
    BY <2>1, <2>2 DEF ConvertedBy, NodeConverted, NumericKinds
  <2>4. IsNumber(v)
    BY <1>1, <1>3 DEF IsNumber, NumericKinds
  <2>5. Widest(kinds) = "integer" => v.rank % 2 = 0
    BY <1>1, <2>2 DEF IsStored, IsAbsent
  <2>6. converted = [kind |-> Widest(kinds), rank |-> v.rank]
    BY <2>3, <2>4, <2>5 DEF ConvertNumber
  <2> QED BY <2>2, <2>6 DEF NumericKinds, ScalarKinds
<1>4. CASE \E kind \in ScalarKinds \ NumericKinds : kinds = {kind}
  <2>1. PICK kind \in ScalarKinds \ NumericKinds : kinds = {kind}
    BY <1>4
  <2>2. v.kind = kind
    BY <1>1, <2>1
  <2>3. type = [type |-> CHOOSE k \in kinds : TRUE]
    BY <1>1, <1>4, <2>1 DEF TypeBy, NodeType, NumericKinds, ScalarKinds
  <2>4. (CHOOSE k \in kinds : TRUE) = kind
    BY <2>1
  <2>5. type.type = kind
    BY <2>3, <2>4
  <2>6. CASE kind = "string"
    BY <2>2, <2>5, <2>6, TextIsConverted DEF ConvertedBy, NodeConverted, ScalarKinds
  <2>7. CASE kind # "string"
    BY <2>2, <2>5, <2>7 DEF ConvertedBy, NodeConverted, ScalarKinds, NumericKinds, ConvertOther
  <2> QED BY <2>6, <2>7
<1>5. CASE ~ kinds \subseteq NumericKinds /\ ~ \E kind \in ScalarKinds \ NumericKinds : kinds = {kind}
  <2>1. type = [type |-> "string"]
    BY <1>1, <1>5 DEF TypeBy, NodeType
  <2>2. converted = TextOf(v)
    BY <2>1 DEF ConvertedBy, NodeConverted, NumericKinds
  <2> QED BY <1>2, <2>2, TextIsConverted DEF ScalarKinds
<1> QED BY <1>3, <1>4, <1>5

LEMMA StructConverts ==
  ASSUME NEW values, NEW v \in values, IsStored(v), ~ IsAbsent(v),
         NEW types, NEW convert,
         KindsSeen(values) = {"struct"}
  PROVE  ConvertedBy(TypeBy(values, types), v, convert)
           = Struct([name \in FieldNames(values) |->
                       convert[<<types[FieldValues(values, name)], Get(v.fields, name)>>]])
<1> DEFINE type == TypeBy(values, types)
<1>1. v.kind = "struct"
  BY DEF KindsSeen, Present
<1>2. type = [type |-> "struct", fields |-> [name \in FieldNames(values) |-> types[FieldValues(values, name)]]]
  BY DEF TypeBy, NodeType, NumericKinds, ScalarKinds
<1> DEFINE fields == [name \in FieldNames(values) |-> types[FieldValues(values, name)]]
<1>3. type.type = "struct" /\ type.fields = fields
  BY <1>2
<1>4. ConvertedBy(type, v, convert)
        = Struct([name \in DOMAIN type.fields |-> convert[<<type.fields[name], Get(v.fields, name)>>]])
  <2> HIDE DEF type
  <2> QED BY <1>1, <1>3 DEF ConvertedBy, NodeConverted, NumericKinds
<1>5. [name \in DOMAIN type.fields |-> convert[<<type.fields[name], Get(v.fields, name)>>]]
        = [name \in FieldNames(values) |-> convert[<<types[FieldValues(values, name)], Get(v.fields, name)>>]]
  <2> HIDE DEF type
  <2> QED BY <1>3
<1> QED BY <1>4, <1>5

LEMMA ListConverts ==
  ASSUME NEW values, NEW v \in values, IsStored(v), ~ IsAbsent(v),
         NEW types, NEW convert,
         KindsSeen(values) = {"list"}
  PROVE  ConvertedBy(TypeBy(values, types), v, convert)
           = List({convert[<<types[ItemValues(values)], item>>] : item \in v.items})
<1> DEFINE type == TypeBy(values, types)
<1>1. v.kind = "list"
  BY DEF KindsSeen, Present
<1>2. type = [type |-> "list", element |-> types[ItemValues(values)]]
  BY DEF TypeBy, NodeType, NumericKinds, ScalarKinds
<1> QED BY <1>1, <1>2 DEF ConvertedBy, NodeConverted, NumericKinds

(* Of whatever documents, nested to any depth and with any mix of kinds: a *)
(* value is converted to the type inferred from all of them, and so is     *)
(* each of its fields and items; no reading of a collection fails on a     *)
(* value that was seen when its type was found.                            *)
THEOREM InferredTypesConvert ==
  ASSUME NEW V, NEW depth, NEW type, NEW convert, NEW converts,
         Inferring(V, depth, type, convert, converts)
  PROVE  \A values \in V : \A v \in values : converts[convert[<<type[values], v>>]]
<1> DEFINE S == {values \in V : \A v \in values : converts[convert[<<type[values], v>>]]}
<1>1. depth \in [V -> Nat]
  BY DEF Inferring
<1>2. ASSUME NEW values \in V, \A c \in V : depth[c] < depth[values] => c \in S
      PROVE  values \in S
  <2> SUFFICES ASSUME NEW v \in values PROVE converts[convert[<<type[values], v>>]]
    OBVIOUS
  <2> DEFINE converted == convert[<<type[values], v>>]
  <2>1. /\ type[values] = TypeBy(values, type)
        /\ IsStored(v)
        /\ converted = ConvertedBy(type[values], v, convert)
        /\ converts[converted] = ConvertsBy(converted, converts)
    BY DEF Inferring
  <2>2. converted = ConvertedBy(TypeBy(values, type), v, convert)
    BY <2>1
  <2>3. CASE IsAbsent(v)
    <3>1. converted = Null
      BY <2>1, <2>3 DEF ConvertedBy, NodeConverted
    <3>2. ConvertsBy(Null, converts)
      BY DEF ConvertsBy, NodeConverts, Null, NotConvertible
    <3> QED BY <2>1, <3>1, <3>2
  <2>4. CASE ~ IsAbsent(v) /\ KindsSeen(values) = {"struct"}
    <3> DEFINE fields == [name \in FieldNames(values) |->
                            convert[<<type[FieldValues(values, name)], Get(v.fields, name)>>]]
    <3>1. converted = Struct(fields)
      BY <2>1, <2>2, <2>4, StructConverts
    <3>2. ASSUME NEW name \in FieldNames(values)
          PROVE  converts[fields[name]]
      <4>1. FieldValues(values, name) \in S
        BY <1>2, <2>4 DEF Inferring
      <4>2. Get(v.fields, name) \in FieldValues(values, name)
        BY <2>4 DEF FieldValues, Present
      <4> QED BY <4>1, <4>2
    <3>3. ConvertsBy(converted, converts) = \A name \in DOMAIN fields : converts[fields[name]]
      BY <3>1 DEF ConvertsBy, NodeConverts, Struct
    <3> QED BY <2>1, <3>2, <3>3
  <2>5. CASE ~ IsAbsent(v) /\ KindsSeen(values) = {"list"}
    <3> DEFINE items == {convert[<<type[ItemValues(values)], item>>] : item \in v.items}
    <3>1. converted = List(items)
      BY <2>1, <2>2, <2>5, ListConverts
    <3>2. ASSUME NEW item \in v.items
          PROVE  converts[convert[<<type[ItemValues(values)], item>>]]
      <4>1. ItemValues(values) \in S
        BY <1>2, <2>5 DEF Inferring
      <4>2. item \in ItemValues(values)
        BY <2>5 DEF ItemValues, Present
      <4> QED BY <4>1, <4>2
    <3>3. ConvertsBy(converted, converts) = \A item \in items : converts[item]
      BY <3>1 DEF ConvertsBy, NodeConverts, List
    <3> QED BY <2>1, <3>2, <3>3
  <2>6. CASE ~ IsAbsent(v) /\ KindsSeen(values) # {"struct"} /\ KindsSeen(values) # {"list"}
    <3>1. converted.kind \in ScalarKinds
      BY <2>1, <2>2, <2>6, ScalarConverts
    <3>2. ConvertsBy(converted, converts)
      BY <3>1 DEF ConvertsBy, NodeConverts, ScalarKinds, NotConvertible
    <3> QED BY <2>1, <3>2
  <2> QED BY <2>3, <2>4, <2>5, <2>6
<1>3. V \subseteq S
  <2> HIDE DEF S
  <2> QED BY <1>1, <1>2, TreeInduction
<1> QED BY <1>3

=============================================================================
