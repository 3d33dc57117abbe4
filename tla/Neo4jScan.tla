------------------------------- MODULE Neo4jScan -------------------------------
(***************************************************************************)
(* A scan of the nodes with one label (adapters/sources/neo4j.py): the     *)
(* column types a schema procedure reports or a sample shows, the values   *)
(* converted to them, the part of the predicate written as Cypher and the  *)
(* part evaluated on the stream.  The sample covers the label.             *)
(***************************************************************************)
EXTENDS PredicateScan, DocumentTypes

VARIABLE procedure  \* db.schema.nodeTypeProperties() is there and allowed

vars == <<requestVars, readVars, procedure>>

PushedExpressions ==
  {"none", "column", "literal", "parameter", "comparison", "and", "or", "not",
   "is_null", "in", "like"}

(* A property a node does not have reads as null.                          *)
Property(d, column) == d[column]

Discover(column) ==
  IF procedure THEN DiscoverFromProcedure(PropertyValues(column)) ELSE DiscoverBySampling(PropertyValues(column))

-----------------------------------------------------------------------------
(* converter_for, over to_python: durations, lists and, in a string        *)
(* column, every value become their text.                                  *)

PropertyText(value) == IF value.kind = "string" THEN value ELSE Text(60 + value.rank)

Convert(type, value) ==
  CASE value = Null -> Null
    [] type = "string" \/ value.kind \in {"duration", "list"} -> PropertyText(value)
    [] type \in {"zoned", "unzoned"} -> [value EXCEPT !.kind = type]
    [] OTHER -> value

Row(d, columns) ==
  [column \in columns |-> Convert(Discover(column).type, Property(d, column))]

FullRow(d) == Row(d, DOMAIN d)

-----------------------------------------------------------------------------
(* CypherGenerator, and what the server makes of the text (external):      *)
(* values of unlike types are unequal, and neither is the lesser.          *)

(* _coerce_to_column_type, by _operand: a value faces the column it is     *)
(* compared to, and takes on the zone of its timestamps.                   *)
Operand(e, other) ==
  IF e.node = "literal" /\ other.node = "column"
  THEN LET type == Discover(other.name).type
       IN IF e.value.kind \in {"zoned", "unzoned"} /\ type \in {"zoned", "unzoned"}
          THEN Literal([e.value EXCEPT !.kind = type]) ELSE e
  ELSE e

CypherValue(e, d) == IF e.node = "column" THEN Property(d, e.name) ELSE e.value

CypherCompare(op, x, y) ==
  IF Null \in {x, y} THEN Unknown
  ELSE IF SameClass(x, y) THEN Truth(Compare(op, x.rank, y.rank))
  ELSE CASE op = "=" -> False [] op = "<>" -> True [] OTHER -> Unknown

RECURSIVE Cypher(_, _)
Cypher(e, d) ==
  LET operands == {Cypher(o, d) : o \in ToSet(e.operands)}
      operand == CypherValue(e.operand, d)
  IN CASE e.node = "none" -> True
       [] e.node = "comparison" ->
            CypherCompare(e.op, CypherValue(Operand(e.left, e.right), d),
                          CypherValue(Operand(e.right, e.left), d))
       [] e.node = "and" -> AllOf(operands)
       [] e.node = "or" -> AnyOf(operands)
       [] e.node = "not" -> Negated(TRUE, Cypher(e.operand, d))
       [] e.node = "is_null" -> Truth((operand = Null) # e.negated)
       [] e.node = "in" ->
            Negated(e.negated, AnyOf({CypherCompare("=", operand, Operand(v, e.operand).value) :
                                        v \in ToSet(e.values)}))
       [] e.node = "like" ->
            IF Null \in {operand, e.pattern.value} \/ operand.kind # "string" THEN Unknown
            ELSE Negated(e.negated, Truth(operand.rank \in e.pattern.value.matches))

-----------------------------------------------------------------------------
(* _evaluate: the local conjuncts on a converted row, in Python.           *)

Scalar(e, row) ==
  IF e.node = "literal" THEN e.value ELSE IF e.name \in DOMAIN row THEN row[e.name] ELSE Null

PythonCompare(op, x, y) ==
  IF Null \in {x, y} THEN Unknown
  ELSE IF SameClass(x, y) THEN Truth(Compare(op, x.rank, y.rank))
  ELSE CASE op = "=" -> False [] op = "<>" -> True [] OTHER -> Unknown

RECURSIVE Evaluate(_, _)
Evaluate(e, row) ==
  LET operands == {Evaluate(o, row) : o \in ToSet(e.operands)}
      operand == Scalar(e.operand, row)
  IN CASE e.node = "and" -> AllOf(operands)
       [] e.node = "or" -> AnyOf(operands)
       [] e.node = "not" -> Negated(TRUE, Evaluate(e.operand, row))
       [] e.node = "is_null" -> Truth((operand = Null) # e.negated)
       [] e.node = "comparison" ->
            PythonCompare(e.op, Scalar(e.left, row), Scalar(e.right, row))
       [] e.node = "in" ->
            LET values == {Scalar(v, row) : v \in ToSet(e.values)}
            IN CASE operand = Null -> Unknown
                 [] \E v \in values : PythonCompare("=", operand, v) = True -> Truth(~ e.negated)
                 [] Null \in values -> Unknown
                 [] OTHER -> Truth(e.negated)
       [] e.node = "like" ->
            LET pattern == Scalar(e.pattern, row)
            IN IF Null \in {operand, pattern} THEN Unknown
               ELSE Truth((operand.rank \in pattern.matches) # e.negated)

-----------------------------------------------------------------------------
Init == ScanInit /\ procedure \in BOOLEAN /\ wanted = Wanted(FullRow)

(* Mutant of IsLocal: a conjunct is pushed when one column of it may be.   *)
AllColumnsLocal(e) ==
  referenced_columns(e) # {} /\ \A column \in referenced_columns(e) : Discover(column).local

IsLocal(e) == \E column \in referenced_columns(e) : Discover(column).local

Run ==
  LET parts == conjuncts(BoundPredicate)
      native == and_all(SelectSeq(parts, LAMBDA e : ~ IsLocal(e)))
      matching == {d \in documents : Cypher(native, d) = True}
  IN /\ pc = "start" /\ ParametersBound
     /\ pc' = "reading"
     /\ local' = SelectSeq(parts, IsLocal)
     /\ fetched' = pushed.projection \cup UNION {referenced_columns(e) : e \in ToSet(local')}
     /\ limit' = IF local' # <<>> THEN pushed.limit ELSE NoLimit
     /\ cursor' \in Answers(matching, IF local' = <<>> THEN pushed.limit ELSE NoLimit)
     /\ UNCHANGED <<requestVars, buffer, output, procedure>>

Passes(row) == \A e \in ToSet(local) : Evaluate(e, row) = True

(* _batches: the next record is converted, checked, batched and counted.   *)
ReadRecord(d) ==
  LET row == Row(d, fetched)
  IN /\ pc = "reading" /\ d \in cursor
     /\ IF Passes(row)
        THEN /\ AppendRow(d)
             /\ cursor' = IF LimitReached(Produced + 1) THEN {} ELSE cursor \ {d}
        ELSE cursor' = cursor \ {d} /\ UNCHANGED <<buffer, output>>
     /\ UNCHANGED <<requestVars, pc, local, fetched, limit, procedure>>

Next ==
  \/ RefuseScan /\ UNCHANGED procedure
  \/ Run
  \/ \E d \in documents : ReadRecord(d)
  \/ EndOfRows /\ UNCHANGED procedure
  \/ ReadFails /\ UNCHANGED procedure

Spec == Init /\ [][Next]_vars

-----------------------------------------------------------------------------
(* LIMIT 0 returns nothing.                                                *)
LimitZeroIsEmpty == pc = "done" /\ pushed.limit = 0 => output = {}

=============================================================================
