------------------------------- MODULE MongoScan -------------------------------
(***************************************************************************)
(* A scan of a MongoDB collection (adapters/sources/mongodb.py): the types *)
(* inferred from the documents, the values converted to them, the split of *)
(* the predicate into find() filters and conjuncts for _evaluate, and the  *)
(* reading of the cursor.  The sample covers the collection.               *)
(***************************************************************************)
EXTENDS PredicateScan, DocumentTypes

VARIABLE collation  \* _supports_find_collation: not a Cosmos DB endpoint

vars == <<requestVars, readVars, collation>>

(* What a planner may push: _PUSHED_EXPRESSIONS.                           *)
PushedExpressions ==
  {"none", "column", "literal", "parameter", "comparison", "and", "or", "is_null", "in", "like"}

-----------------------------------------------------------------------------
(* Types and conversions of whole values.                                  *)

RECURSIVE ResolvedType(_)
ResolvedType(values) == NodeType(values, ResolvedType)

RECURSIVE Convert(_, _)
Convert(type, value) == NodeConverted(type, value, Convert)

RECURSIVE Converts(_)
Converts(value) == NodeConverts(value, Converts)

ValuesOf(column) == {Get(d, column) : d \in documents}

TypeOf(column) == ResolvedType(ValuesOf(column))

(* _objectid_columns: string literals may denote ObjectIds.                *)
IsObjectIdColumn(column) == KindsSeen(ValuesOf(column)) = {"objectid"}

(* _local_columns: conflicting or other kinds, made strings.               *)
IsLocalColumn(column) ==
  LET kinds == KindsSeen(ValuesOf(column))
  IN TypeOf(column) = [type |-> "string"] /\ kinds \notin {{"string"}, {"objectid"}}

Row(d, columns) == [column \in columns |-> Convert(TypeOf(column), Get(d, column))]

FullRow(d) == Row(d, UNION {DOMAIN x : x \in documents})

-----------------------------------------------------------------------------
(* find() filters, and what the server returns for one (external).  The    *)
(* collation decides how it compares strings: "simple" keeps each apart,   *)
(* a collection's own may ignore case.                                     *)

Field(name, test, value) == [field |-> name, test |-> test, value |-> value]
EachOf(filters) == [all |-> filters]
OneOf(filters) == [any |-> filters]

Collated(value) ==
  IF value.kind = "string" /\ ~ collation /\ ~ IsHexText(value)
  THEN Text(value.rank \div 2) ELSE value

(* A filter looks at a stored value and, if it is an array, at its items.  *)
Seen(value) == {value} \cup (IF value.kind = "list" THEN value.items ELSE {})

TestOp == [t \in {"$lt", "$lte", "$gt", "$gte"} |->
  CASE t = "$lt" -> "<" [] t = "$lte" -> "<=" [] t = "$gt" -> ">" [] OTHER -> ">="]

Equals(stored, value) ==
  IF value = Null THEN \E x \in Seen(stored) : IsAbsent(x)
  ELSE \E x \in Seen(stored) : SameClass(x, value) /\ Collated(x).rank = Collated(value).rank

RECURSIVE Matches(_, _)
Matches(filter, d) ==
  IF "all" \in DOMAIN filter THEN \A i \in DOMAIN filter.all : Matches(filter.all[i], d)
  ELSE IF "any" \in DOMAIN filter THEN \E i \in DOMAIN filter.any : Matches(filter.any[i], d)
  ELSE LET stored == Get(d, filter.field)
           Likes(ranks) == \E x \in Seen(stored) : x.kind = "string" /\ x.rank \in ranks
       IN CASE filter.test = "$eq" -> Equals(stored, filter.value)
            [] filter.test = "$ne" -> ~ Equals(stored, filter.value)
            [] filter.test = "$in" -> \E v \in filter.value : Equals(stored, v)
            [] filter.test = "$nin" -> \A v \in filter.value : ~ Equals(stored, v)
            [] filter.test = "$regex" -> Likes(filter.value)
            [] filter.test = "$not" -> ~ Likes(filter.value)
            [] OTHER ->
                 \E x \in Seen(stored) :
                   /\ SameClass(x, filter.value)
                   /\ Compare(TestOp[filter.test], Collated(x).rank, Collated(filter.value).rank)

-----------------------------------------------------------------------------
(* _Translator: a conjunct as a filter, or NotNative.                      *)

NotNative == [test |-> "not native"]

_OPERATORS == [op \in ComparisonOps \ {"<>"} |->
  CASE op = "=" -> "$eq" [] op = "<" -> "$lt" [] op = "<=" -> "$lte" [] op = ">" -> "$gt" [] OTHER -> "$gte"]

_FLIPPED == [op \in ComparisonOps |->
  CASE op = "<" -> ">" [] op = "<=" -> ">=" [] op = ">" -> "<" [] op = ">=" -> "<=" [] OTHER -> op]

IsNative(e) == e.node = "column" /\ ~ IsLocalColumn(e.name)

(* Mutant of ForcedLocal: the server's own collation is trusted.           *)
TrustCollation(column, value) == FALSE

(* Strings are compared by the server only under the simple collation.     *)
ForcedLocal(column, value) ==
  value.kind = "string" /\ ~ collation /\ ~ IsObjectIdColumn(column)

NonNull(column) == Field(column, "$ne", Null)

BsonValue(column, value) ==
  IF IsObjectIdColumn(column) /\ IsHexText(value) THEN ObjectId(value.rank - 100) ELSE value

ComparisonFilter(e) ==
  LET column == e.left.name
      value == e.right.value
  IN IF e.left.node # "column" \/ e.right.node # "literal" THEN NotNative
     ELSE IF IsLocalColumn(column) \/ value = Null \/ ForcedLocal(column, value) THEN NotNative
     ELSE IF e.op = "<>"
     THEN EachOf(<<Field(column, "$ne", BsonValue(column, value)), NonNull(column)>>)
     ELSE Field(column, _OPERATORS[e.op], BsonValue(column, value))

InFilter(e) ==
  LET column == e.operand.name
      values == {v.value : v \in ToSet(e.values)}
      members == {BsonValue(column, v) : v \in values \ {Null}}
  IN IF \/ ~ IsNative(e.operand) \/ members = {}
        \/ (e.negated /\ Null \in values)
        \/ \E v \in values : ForcedLocal(column, v)
     THEN NotNative
     ELSE IF e.negated THEN EachOf(<<Field(column, "$nin", members), NonNull(column)>>)
     ELSE Field(column, "$in", members)

LikeFilter(e) ==
  LET column == e.operand.name
      pattern == e.pattern.value
  IN IF ~ IsNative(e.operand) \/ IsObjectIdColumn(column) \/ ~ collation \/ pattern = Null
     THEN NotNative
     ELSE IF e.negated
     THEN EachOf(<<Field(column, "$not", pattern.matches), NonNull(column)>>)
     ELSE Field(column, "$regex", pattern.matches)

RECURSIVE Translate(_)
Translate(e) ==
  LET parts == [i \in DOMAIN e.operands |-> Translate(e.operands[i])]
  IN CASE e.node \in {"and", "or"} ->
            IF \E i \in DOMAIN parts : parts[i] = NotNative THEN NotNative
            ELSE IF e.node = "and" THEN EachOf(parts) ELSE OneOf(parts)
       [] e.node = "comparison" ->
            ComparisonFilter(IF e.left.node = "literal" /\ e.right.node = "column"
                             THEN Comparison(_FLIPPED[e.op], e.right, e.left) ELSE e)
       [] e.node = "is_null" ->
            IF e.operand.node # "column" THEN NotNative
            ELSE Field(e.operand.name, IF e.negated THEN "$ne" ELSE "$eq", Null)
       [] e.node = "in" -> InFilter(e)
       [] e.node = "like" -> LikeFilter(e)
       [] OTHER -> NotNative

-----------------------------------------------------------------------------
(* _evaluate: a conjunct on a converted row, in Python.  Comparing the     *)
(* order of unlike values raises TypeError, which counts as unknown.       *)

Scalar(e, row) ==
  IF e.node = "literal" THEN e.value ELSE IF e.name \in DOMAIN row THEN row[e.name] ELSE Null

PythonCompare(op, x, y) ==
  IF Null \in {x, y} THEN Unknown
  ELSE IF SameClass(x, y) THEN Truth(Compare(op, x.rank, y.rank))
  ELSE CASE op = "=" -> False [] op = "<>" -> True [] OTHER -> Unknown

RECURSIVE Evaluate(_, _)
Evaluate(e, row) ==
  LET operands == {Evaluate(o, row) : o \in ToSet(e.operands)}
      operand == Scalar(e.operand, row)
  IN CASE e.node = "and" -> AllOf(operands)
       [] e.node = "or" -> AnyOf(operands)
       [] e.node = "not" -> Negated(TRUE, Evaluate(e.operand, row))
       [] e.node = "is_null" -> Truth((operand = Null) # e.negated)
       [] e.node = "comparison" ->
            PythonCompare(e.op, Scalar(e.left, row), Scalar(e.right, row))
       [] e.node = "in" ->
            LET values == {Scalar(v, row) : v \in ToSet(e.values)}
            IN CASE operand = Null -> Unknown
                 [] \E v \in values : PythonCompare("=", operand, v) = True -> Truth(~ e.negated)
                 [] Null \in values -> Unknown
                 [] OTHER -> Truth(e.negated)
       [] e.node = "like" ->
            LET pattern == Scalar(e.pattern, row)
            IN IF Null \in {operand, pattern} THEN Unknown
               ELSE Truth((operand.rank \in pattern.matches) # e.negated)

-----------------------------------------------------------------------------
(* scan(): refused, empty for limit 0, or a cursor of find().              *)

Init == ScanInit /\ collation \in BOOLEAN /\ wanted = Wanted(FullRow)

(* No rows are asked for: the parameters are not looked at.                *)
EmptyScan ==
  /\ pc = "start" /\ pushed.limit = 0
  /\ pc' = "done"
  /\ UNCHANGED <<requestVars, local, fetched, limit, cursor, buffer, output, collation>>

NativeConjuncts == SelectSeq(conjuncts(BoundPredicate), LAMBDA e : Translate(e) # NotNative)

LocalConjuncts == SelectSeq(conjuncts(BoundPredicate), LAMBDA e : Translate(e) = NotNative)

Find ==
  LET filter == EachOf([i \in DOMAIN NativeConjuncts |-> Translate(NativeConjuncts[i])])
      matching == {d \in documents : Matches(filter, d)}
  IN /\ pc = "start" /\ ParametersBound /\ pushed.limit # 0
     /\ pc' = "reading"
     /\ local' = LocalConjuncts
     /\ fetched' = pushed.projection \cup UNION {referenced_columns(e) : e \in ToSet(local')}
     /\ limit' = IF local' # <<>> THEN pushed.limit ELSE NoLimit
     /\ cursor' \in Answers(matching, IF local' = <<>> THEN pushed.limit ELSE NoLimit)
     /\ UNCHANGED <<requestVars, buffer, output, collation>>

(* Mutant of Passes: a row is kept unless a conjunct is FALSE.             *)
PassesUnlessFalse(row) == \A e \in ToSet(local) : Evaluate(e, row) # False

Passes(row) == \A e \in ToSet(local) : Evaluate(e, row) = True

(* _rows and _batches: the next document is converted, checked, counted.   *)
ReadDocument(d) ==
  LET row == Row(d, fetched)
  IN /\ pc = "reading" /\ d \in cursor
     /\ IF \E column \in fetched : ~ Converts(row[column])
        THEN pc' = "failed" /\ UNCHANGED <<cursor, buffer, output>>
        ELSE /\ UNCHANGED pc
             /\ cursor' = IF Passes(row) /\ LimitReached(Produced + 1) THEN {} ELSE cursor \ {d}
             /\ IF Passes(row) THEN AppendRow(d) ELSE UNCHANGED <<buffer, output>>
     /\ UNCHANGED <<requestVars, local, fetched, limit, collation>>

Next ==
  \/ pushed.limit # 0 /\ RefuseScan /\ UNCHANGED collation
  \/ EmptyScan
  \/ Find
  \/ \E d \in documents : ReadDocument(d)
  \/ EndOfRows /\ UNCHANGED collation
  \/ ReadFails /\ UNCHANGED collation

Spec == Init /\ [][Next]_vars

-----------------------------------------------------------------------------
(* What was inferred from the documents converts every one of them.        *)
ConvertsWhatItInferred ==
  \A d \in documents : \A column \in DOMAIN FullRow(d) : Converts(FullRow(d)[column])

=============================================================================
