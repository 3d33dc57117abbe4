------------------------------ MODULE PushedScan ------------------------------
(***************************************************************************)
(* What every scan with pushed operations does (PushedOperations in        *)
(* domain/execution.py, the streams of the adapters): a provider returns   *)
(* documents from a cursor, rows the predicate does not keep are left out  *)
(* in process where the provider does not leave them out, a limit is the   *)
(* provider's or is counted in process, row by row or batch by batch, and  *)
(* rows are handed over in batches: a row by the document it comes from.   *)
(* ScanSpec is what the adapters have in common, whatever they push.       *)
(***************************************************************************)
EXTENDS RowBatches

VARIABLES
  documents,  \* what the provider stores
  pushed,     \* predicate, projection and limit of the scan
  parameters, \* the values bound to parameters
  wanted,     \* auxiliary: the documents on which the predicate is TRUE
  pc,         \* "start" | "reading" | "done" | "failed"
  local,      \* conjuncts evaluated in process
  fetched,    \* columns asked of the provider
  limit,      \* the limit counted in process
  cursor      \* documents the provider has still to return

requestVars == <<documents, pushed, parameters, wanted>>
readVars == <<pc, local, fetched, limit, cursor, buffer, output>>
scanVars == <<requestVars, readVars>>

LimitCount == Nat \cup {NoLimit}

ScanInit ==
  /\ pc = "start" /\ limit = NoLimit
  /\ local = <<>> /\ fetched = {} /\ cursor = {} /\ buffer = {} /\ output = {}

(* What a provider returns for a filter and a limit of its own: any of the *)
(* matching documents, in any order, as many as asked for.                 *)
Answers(matching, count) ==
  IF count = NoLimit \/ count >= Cardinality(matching) THEN {matching}
  ELSE {s \in SUBSET matching : Cardinality(s) = count}

LimitReached(produced) == limit # NoLimit /\ produced >= limit

(* The last batch.                                                         *)
EndOfRows ==
  /\ pc = "reading" /\ cursor = {}
  /\ pc' = "done" /\ output' = output \cup buffer /\ buffer' = {}
  /\ UNCHANGED <<requestVars, local, fetched, limit, cursor>>

(* The provider fails while it is read: the stream raises.                 *)
ReadFails ==
  /\ pc = "reading"
  /\ pc' = "failed"
  /\ UNCHANGED <<requestVars, local, fetched, limit, cursor, buffer, output>>

-----------------------------------------------------------------------------
(* The steps the adapters have in common.                                  *)

(* A scan is refused, or its provider does not answer.                     *)
OpenFails ==
  /\ pc = "start"
  /\ pc' = "failed"
  /\ UNCHANGED <<requestVars, local, fetched, limit, cursor, buffer, output>>

(* No provider is asked for no rows.                                       *)
OpenNothing ==
  /\ pc = "start" /\ pushed.limit = 0
  /\ pc' = "done"
  /\ UNCHANGED <<requestVars, local, fetched, limit, cursor, buffer, output>>

(* The provider leaves out what the predicate does not keep, and what is   *)
(* beyond the limit.                                                       *)
OpenFiltered ==
  /\ pc = "start"
  /\ pc' = "reading"
  /\ cursor' \in Answers(wanted, pushed.limit)
  /\ limit' \in {NoLimit, pushed.limit}
  /\ UNCHANGED <<requestVars, buffer, output>>

(* The provider may return more, and the limit is counted in process.      *)
OpenRelaxed ==
  /\ pc = "start"
  /\ pc' = "reading"
  /\ wanted \subseteq cursor' /\ cursor' \subseteq documents
  /\ limit' = pushed.limit
  /\ UNCHANGED <<requestVars, buffer, output>>

(* A row is left out.                                                      *)
LeaveOut(d) ==
  /\ pc = "reading" /\ d \in cursor \ wanted
  /\ cursor' = cursor \ {d}
  /\ UNCHANGED <<requestVars, pc, local, fetched, limit, buffer, output>>

(* A row is batched and counted: the limit stays what it was, and nothing  *)
(* is read after the row that reaches it.                                  *)
Deliver(d) ==
  /\ pc = "reading" /\ d \in cursor \cap wanted
  /\ limit \in {NoLimit, pushed.limit} /\ (limit = 0 => local # <<>>)
  /\ AppendRow(d)
  /\ cursor' = IF LimitReached(Produced + 1) THEN {} ELSE cursor \ {d}
  /\ UNCHANGED <<requestVars, pc, local, fetched, limit>>

(* A batch is rechecked, cut to what remains of the limit and handed over. *)
DeliverBatch(batch) ==
  /\ pc = "reading" /\ limit # 0 /\ buffer = {}
  /\ limit = NoLimit \/ limit = pushed.limit - Cardinality(output)
  /\ cursor' = cursor \ batch
  /\ \E rows \in Answers(batch \cap wanted, limit) :
       /\ output' = output \cup rows
       /\ limit' = IF limit = NoLimit THEN NoLimit ELSE limit - Cardinality(rows)
  /\ UNCHANGED <<requestVars, pc, local, fetched, buffer>>

(* Nothing remains of the limit: the rest is not read.                     *)
EnoughRows ==
  /\ pc = "reading" /\ limit = 0
  /\ pc' = "done"
  /\ UNCHANGED <<requestVars, local, fetched, limit, cursor, buffer, output>>

ScanNext ==
  \/ OpenFails \/ OpenNothing \/ OpenFiltered \/ OpenRelaxed
  \/ \E d \in documents : LeaveOut(d) \/ Deliver(d)
  \/ \E batch \in SUBSET cursor : DeliverBatch(batch)
  \/ EnoughRows \/ EndOfRows \/ ReadFails

(* A provider stores finitely many documents.                              *)
RequestOK ==
  /\ IsFiniteSet(documents) /\ wanted \subseteq documents
  /\ pushed.limit \in LimitCount

(* What MongoScan, Neo4jScan, IcebergScan, DeltaScan and SqlScan implement *)
(* with the tests, filters and masks of their own: whatever the provider   *)
(* decides and wherever the limit is counted, a row is handed over if the  *)
(* predicate keeps it, and left out if not.                                *)
ScanSpec == RequestOK /\ ScanInit /\ [][ScanNext]_scanVars

-----------------------------------------------------------------------------
ScanTypeOK ==
  /\ pc \in {"start", "reading", "done", "failed"}
  /\ limit \in LimitCount /\ pushed.limit \in LimitCount
  /\ cursor \subseteq documents /\ buffer \subseteq documents /\ output \subseteq documents
  /\ Cardinality(buffer) < BatchSize

(* The rows a scan is to return.                                           *)
Asked ==
  IF pushed.limit = NoLimit \/ pushed.limit > Cardinality(wanted)
  THEN Cardinality(wanted) ELSE pushed.limit

(* Whatever a source evaluates itself, in its server or in the process,    *)
(* with a limit or without: a consumer is never handed a row the predicate *)
(* does not keep, nor more rows than the limit, even of a scan that fails  *)
(* later; and of a scan that ends it has got all rows of the predicate, or *)
(* as many as the limit says.  Three things are excepted.  A limit of zero *)
(* that is counted after conjuncts evaluated in process is, in the second  *)
(* conjunct (run neo4j_limit_zero).  MySQL's zero dates and PostgreSQL's   *)
(* order of strings under a collation other than that of code points are,  *)
(* by the states the run starts from: SqlScan!Compensated (runs            *)
(* mysql_zero_dates and postgres_text_order).                              *)
ScanAnswers ==
  /\ output \subseteq wanted
  /\ ~ (pushed.limit = 0 /\ local # <<>>) =>
       /\ Cardinality(output) <= Asked
       /\ pc = "done" => Cardinality(output) = Asked

=============================================================================
