---------------------------- MODULE PreparedQuery ----------------------------
(***************************************************************************)
(* A query from its text, or from the plan a caller built, to the plan     *)
(* that is executed: parsed once, inspected without values for its         *)
(* parameters (explain(), schema()), and bound with them when it is        *)
(* executed (application/service.py).                                      *)
(***************************************************************************)
EXTENDS SqlFrontend

-----------------------------------------------------------------------------
(* Arithmetic as the engines are told to run it: the casts that            *)
(* _DuckDBSqlGenerator (adapters/duckdb_engine/engine.py) and              *)
(* to_spark_column (adapters/spark_engine/engine.py) put around operands   *)
(* and result, from the types the binder gave them.                        *)

(* A query that fails, for a value that a cast or an operation cannot give *)
Failure == [kind |-> "failure", rank |-> 0]

Number(kind, rank) == [kind |-> kind, rank |-> rank]

Power(scale) == 10 ^ scale

FitsDecimal(rank, type) ==
  rank \in - Power(type.precision - type.scale) * Unit + 1 .. Power(type.precision - type.scale) * Unit - 1

(* A rank rounded to a number of digits after the point.                   *)
RoundedTo(rank, scale) ==
  LET step == IF Power(scale) >= Unit THEN 1 ELSE Unit \div Power(scale)
      Up(n) == ((n + step \div 2) \div step) * step
  IN IF rank < 0 THEN - Up(- rank) ELSE Up(rank)

(* CAST of a number by either engine; too large a one is a failure.        *)
CastTo(value, type) ==
  CASE value \in {Null, Failure} -> value
    [] type.kind = "decimal" /\ value \notin {Null, Failure} ->
         LET rank == RoundedTo(value.rank, type.scale)
         IN IF FitsDecimal(rank, type) THEN Number("decimal", rank) ELSE Failure
    [] type.kind = "float" /\ value \notin {Null, Failure} -> Number("float", value.rank)
    [] OTHER -> value

Operate(op, x, y, kind) ==
  IF Failure \in {x, y} THEN Failure ELSE IF Null \in {x, y} THEN Null
  ELSE Number(kind, CASE op = "+" -> x.rank + y.rank
                      [] op = "-" -> x.rank - y.rank
                      [] op = "*" -> (x.rank * y.rank) \div Unit)

DividedBy(x, y) ==
  IF Failure \in {x, y} THEN Failure
  ELSE IF x = Null \/ y = Null \/ y.rank = 0 THEN Null
  ELSE Number("float", Quotient(x.rank, y.rank))

(* HUGEINT, try_add and the like: NULL beyond 64 bits.                     *)
InBigint(value) ==
  IF value \in {Null, Failure} \/ value.rank \in - Int64 - Unit .. Int64 THEN value ELSE Null

-----------------------------------------------------------------------------
(* DuckDB.                                                                 *)

(* _decimal_scale *)
DecimalScale(type) == IF type.kind = "decimal" THEN type.scale ELSE 0

(* Mutant of OperandTypes: both operands with the scale of the left one.   *)
LeftScaleTwice(left, right, result) ==
  <<DecimalType(result.precision, DecimalScale(left)), DecimalType(result.precision, DecimalScale(left))>>

OperandTypes(left, right, result) ==
  <<DecimalType(result.precision, DecimalScale(left)), DecimalType(result.precision, DecimalScale(right))>>

RECURSIVE DuckDBValue(_, _, _)
DuckDBValue(e, schema, row) ==
  LET left == DuckDBValue(e.left, schema, row)
      right == DuckDBValue(e.right, schema, row)
      result == expression_type(e, schema)
      operands == OperandTypes(expression_type(e.left, schema), expression_type(e.right, schema), result)
  IN CASE e.node # "arithmetic" -> ValueOf(e, row)
       [] e.node = "arithmetic" /\ e.op = "/" -> DividedBy(CastTo(left, FloatType(64)), right)
       [] e.node = "arithmetic" /\ e.op # "/" ->
            CASE result.kind = "integer" -> InBigint(Operate(e.op, left, right, "integer"))
              [] result.kind = "float" ->
                   Operate(e.op, CastTo(left, result), CastTo(right, result), "float")
              [] result.kind = "decimal" ->
                   CastTo(Operate(e.op, CastTo(left, operands[1]), CastTo(right, operands[2]), "decimal"),
                          result)
              [] OTHER -> Operate(e.op, left, right, "null")

-----------------------------------------------------------------------------
(* Spark.                                                                  *)

(* _spark_decimal_operand_type *)
SparkOperandType(type, result) ==
  CASE type.kind = "decimal" -> type
    [] type.kind = "integer" -> DecimalType(IntegerDigits[type.bits], 0)
    [] OTHER -> result

(* Spark's own type of a decimal operation: digits behind the point are    *)
(* given up for a precision beyond 38, but for six of them.                *)
SparkResult(op, left, right) ==
  LET scale == ResultScale(left, right, op)
      integral == ResultIntegral(left, right, op)
      kept == Max({PortablePrecision - integral, Min({scale, 6})})
  IN IF integral + scale <= PortablePrecision THEN DecimalType(Max({integral + scale, 1}), scale)
     ELSE DecimalType(PortablePrecision, Min({kept, PortablePrecision}))

RECURSIVE SparkValue(_, _, _)
SparkValue(e, schema, row) ==
  LET left == SparkValue(e.left, schema, row)
      right == SparkValue(e.right, schema, row)
      result == expression_type(e, schema)
      leftType == SparkOperandType(expression_type(e.left, schema), result)
      rightType == SparkOperandType(expression_type(e.right, schema), result)
  IN CASE e.node # "arithmetic" -> ValueOf(e, row)
       [] e.node = "arithmetic" /\ e.op = "/" -> DividedBy(CastTo(left, FloatType(64)), right)
       [] e.node = "arithmetic" /\ e.op # "/" ->
            CASE result.kind = "integer" -> InBigint(Operate(e.op, left, right, "integer"))
              [] result.kind = "float" ->
                   Operate(e.op, CastTo(left, result), CastTo(right, result), "float")
              [] result.kind = "decimal" ->
                   CastTo(CastTo(Operate(e.op, CastTo(left, leftType), CastTo(right, rightType), "decimal"),
                                 SparkResult(e.op, leftType, rightType)),
                          result)
              [] OTHER -> Operate(e.op, left, right, "null")

-----------------------------------------------------------------------------

VARIABLE query  \* statement, schema, rows of the source, values supplied for
                \* parameters, stage, plan, and what binding it gave: inspected
                \* without and bound with those values

NoStatement == Select({}, NoFrom, <<>>, NoWhere, Null)

NotYet == [output |-> <<>>]

Asked(statement, schema, rows, supplied) ==
  [statement |-> statement, schema |-> schema, rows |-> rows, supplied |-> supplied,
   stage |-> "text", plan |-> RefusedPlan, inspected |-> NotYet, bound |-> NotYet]

Built(plan, schema, rows, supplied) ==
  [Asked(NoStatement, schema, rows, supplied) EXCEPT !.stage = "planned", !.plan = plan]

(* Query.sql, SqlFrontend.parse *)
Parse ==
  LET plan == translate(query.statement)
  IN /\ query.stage = "text"
     /\ query' = [query EXCEPT !.plan = plan,
                               !.stage = IF plan = RefusedPlan THEN "refused" ELSE "planned"]

(* QueryService.bind, execution_plan: types of parameters are unknown.     *)
Inspect ==
  /\ query.stage \in {"planned", "bound"} /\ query.inspected = NotYet
  /\ query' = [query EXCEPT !.inspected = bind_plan(query.plan, query.schema, NoParameters)]

(* QueryService.execute, compile *)
RefuseParameters ==
  /\ query.stage = "planned" /\ ~ AcceptsParameters(query.plan, query.supplied)
  /\ query' = [query EXCEPT !.stage = "refused"]

BindForExecution ==
  /\ query.stage = "planned" /\ AcceptsParameters(query.plan, query.supplied)
  /\ query' = [query EXCEPT !.stage = "bound",
                            !.bound = bind_plan(query.plan, query.schema, query.supplied)]

Next == Parse \/ Inspect \/ RefuseParameters \/ BindForExecution

-----------------------------------------------------------------------------
(* What is executed: the bound plan with its parameters' values.           *)
Runs == query.stage = "bound" /\ query.bound # NoPlan

Substituted(e) == substitute_parameters(e, query.supplied)
Executed(e) == Substituted(unalias(e))

ExecutedNodes ==
  UNION {walk(Executed(e)) : e \in Expressions(query.bound.plan)}

Alike(x, y) == x.kind = y.kind /\ x.rank = y.rank

(* SELECT * EXCEPT (...): the frontend takes it for SELECT *.              *)
ModifiesStar(items) == \E item \in ToSet(items) : item.sql = "star" /\ item.modified

(* The plan executed for a statement keeps the rows its WHERE clause is    *)
(* true of, shows the values its SELECT list says, under those names, and  *)
(* has its LIMIT.  Stars with modifiers are excepted: what those leave out *)
(* or rename is shown all the same (frontend.py:205).                      *)
FrontendKeepsMeaning ==
  LET statement == query.statement
      items == statement.expressions
      plan == query.bound.plan
      ItemValue(item, row) ==
        SqlValue(IF item.sql = "alias" THEN item.this ELSE item, row, query.schema, query.supplied)
  IN Runs /\ statement # NoStatement /\ ~ ModifiesStar(items) =>
       /\ \A row \in query.rows :
            /\ Meaning(Executed(plan.predicate), row)
                 = SqlTruth(statement.where, row, query.schema, query.supplied)
            /\ ~ IsStar(items) =>
                 /\ Len(plan.projection) = Len(items)
                 /\ \A i \in DOMAIN items :
                      Alike(ValueOf(Executed(plan.projection[i]), row), ItemValue(items[i], row))
       /\ [i \in DOMAIN query.bound.output |-> query.bound.output[i].name] =
            IF IsStar(items) THEN [i \in DOMAIN query.schema |-> query.schema[i].name]
            ELSE [i \in DOMAIN items |->
                    IF items[i].sql = "column" THEN resolve(query.schema, items[i].name).name
                    ELSE ProjectedName(items[i], i)]
       /\ plan.limit = IF statement.limit = Null THEN NoCount ELSE statement.limit.rank \div Unit

(* What inspection said of a query that then runs holds of the run: it was *)
(* not refused, and it has those output columns, of those types where they *)
(* were known.                                                             *)
InspectionAgrees ==
  Runs /\ query.inspected # NotYet =>
    /\ query.inspected # NoPlan
    /\ Len(query.inspected.output) = Len(query.bound.output)
    /\ \A i \in DOMAIN query.bound.output :
         /\ query.inspected.output[i].name = query.bound.output[i].name
         /\ Refines(query.bound.output[i].type, query.inspected.output[i].type)

(* A value is one of a type.                                               *)
HasType(value, type) ==
  CASE value = Null \/ type = UnknownType -> TRUE
    [] type.kind = "integer" ->
         value.kind = "integer" /\ value.rank % Unit = 0 /\ value.rank \in - Int64 - Unit .. Int64
    [] type.kind = "decimal" ->
         /\ value.kind = "decimal" /\ FitsDecimal(value.rank, type)
         /\ RoundedTo(value.rank, type.scale) = value.rank
    [] OTHER -> value.kind = type.kind

(* On every row, each value in an executed query is of the type the binder *)
(* gave it, and values are compared with values of their class only.       *)
WellTyped ==
  Runs => \A row \in query.rows : \A e \in ExecutedNodes :
    LET type == expression_type(e, query.schema)
        LikeWithLike(x, y) ==
          LET types == {expression_type(x, query.schema), expression_type(y, query.schema)}
              values == {ValueOf(x, row), ValueOf(y, row)}
          IN UnknownType \in types \/ Null \in values \/ SameClass(ValueOf(x, row), ValueOf(y, row))
    IN /\ e.node \in {"column", "literal", "arithmetic"} => HasType(ValueOf(e, row), type)
       /\ e.node = "comparison" => LikeWithLike(e.left, e.right)
       /\ e.node = "in" => \A v \in ToSet(e.values) : LikeWithLike(e.operand, v)

(* Both engines, told to cast as they are, compute the exact value of      *)
(* every arithmetic expression on columns of known types, and neither      *)
(* fails.                                                                  *)
EnginesComputeAlike ==
  LET Known(e) == \A n \in walk(e) : expression_type(n, query.schema) # UnknownType
      calculations == {e \in ExecutedNodes : e.node = "arithmetic" /\ Known(e)}
  IN Runs => \A row \in query.rows : \A e \in calculations :
    /\ Alike(DuckDBValue(e, query.schema, row), ValueOf(e, row))
    /\ Alike(SparkValue(e, query.schema, row), ValueOf(e, row))

=============================================================================
