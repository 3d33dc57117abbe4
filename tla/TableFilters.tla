----------------------------- MODULE TableFilters -----------------------------
(***************************************************************************)
(* How a predicate is evaluated for a table format, at one node of a tree. *)
(*                                                                         *)
(* Iceberg (adapters/formats/iceberg.py): it becomes a pyiceberg row       *)
(* filter that may keep too many rows, with a flag that says whether it is *)
(* exact (_IcebergPredicate), and batches are rechecked with Arrow         *)
(* (_ArrowPredicate); self is the schema and the parameters either was     *)
(* made with.  Delta (adapters/formats/delta.py): it becomes an expression *)
(* of an Arrow dataset, once its parameters are bound.                     *)
(*                                                                         *)
(* Numbers have ranks in halves: an odd rank is not integral.              *)
(***************************************************************************)
EXTENDS PredicateNodes, FiniteSets

CONSTANTS
  Int32,                  \* the greatest rank of an int
  ExactFloat, ExactDouble \* the greatest whole number either has exactly

Decimal(n) == [kind |-> "decimal", rank |-> n]

-----------------------------------------------------------------------------
(* Iceberg.  _iceberg_value: a literal as a value of a field type, unless  *)
(* that would change what it is compared to.                               *)

NotExact == [kind |-> "not exact", rank |-> 0]

(* Mutant of Integral: fractions are truncated.                            *)
Truncated(value) == TRUE

Integral(value) == value.rank % 2 = 0

Within(value, bound) == value.rank <= bound /\ - value.rank <= bound

(* Two's complement: there is one more negative number.                    *)
Representable(value, bound) == value.rank <= bound /\ - value.rank <= bound + Unit

(* What a float of 32 or 64 bits makes of a number: beyond the numbers it  *)
(* has all of, it has every other one.                                     *)
ToFloat(rank, bound) == IF rank <= bound /\ - rank <= bound THEN rank ELSE 4 * (rank \div 4)

IntegerValue(value, type) ==
  IF \/ type = "long" /\ Representable(value, Int64)
     \/ type = "int" /\ Representable(value, Int32)
     \/ type = "double" /\ Within(value, ExactDouble)
     \/ type = "float" /\ Within(value, ExactFloat)
     \/ type = "decimal"
  THEN value ELSE NotExact

FloatValue(value, type) ==
  CASE type = "double" -> value
    [] type = "float" -> IF ToFloat(value.rank, ExactFloat) = value.rank THEN value ELSE NotExact
    [] type \in {"long", "int"} -> IF Integral(value) THEN IntegerValue(value, type) ELSE NotExact
    [] OTHER -> NotExact

(* Decimal columns have no digits after the point.                         *)
DecimalValue(value, type) ==
  IF type \in {"decimal", "long", "int"} /\ Integral(value)
  THEN IntegerValue(value, type) ELSE NotExact

iceberg_value(value, type) ==
  CASE value.kind = "integer" -> IntegerValue(value, type)
    [] value.kind = "float" -> FloatValue(value, type)
    [] value.kind = "decimal" -> DecimalValue(value, type)
    [] OTHER -> IF type = value.kind THEN value ELSE NotExact

(* What a column of a type makes of a value compared to it (external): a   *)
(* number it cannot hold is rounded.                                       *)
Rounded(value, type) ==
  CASE type \in {"long", "int", "decimal"} -> 2 * (value.rank \div 2)
    [] type = "float" -> ToFloat(value.rank, ExactFloat)
    [] type = "double" -> ToFloat(value.rank, ExactDouble)
    [] OTHER -> value.rank

-----------------------------------------------------------------------------
(* _IcebergPredicate: NOT goes to the leaves; the filter and its exactness.*)

AlwaysTrue == [test |-> "true"]
AlwaysFalse == [test |-> "false"]
Test(test, column, value) == [test |-> test, column |-> column, value |-> value]
AllFilters(filters) == [test |-> "all", filters |-> filters]
AnyFilter(filters) == [test |-> "any", filters |-> filters]

(* Mutant of Relaxed: the flag is forgotten.                               *)
RelaxedSilently == [filter |-> AlwaysTrue, exact |-> TRUE]

Relaxed == [filter |-> AlwaysTrue, exact |-> FALSE]
Exact(filter) == [filter |-> filter, exact |-> TRUE]

_MIRROR == [op \in ComparisonOps |->
  CASE op = "<" -> ">" [] op = "<=" -> ">=" [] op = ">" -> "<" [] op = ">=" -> "<=" [] OTHER -> op]

_NEGATE == [op \in ComparisonOps |->
  CASE op = "=" -> "<>" [] op = "<>" -> "=" [] op = "<" -> ">="
    [] op = "<=" -> ">" [] op = ">" -> "<=" [] OTHER -> "<"]

(* _parameter_value: of a literal, or of a parameter what is bound to it.  *)
ValueIn(e, self) == IF e.node = "parameter" THEN self.parameters[e.name] ELSE e.value

IsValue(e) == e.node \in {"literal", "parameter"}

(* column op operand, as a filter.                                         *)
FilterComparison(op, column, operand, negated, self) ==
  LET value == ValueIn(operand, self)
      converted == iceberg_value(value, self.schema[column])
  IN IF value = Null THEN Exact(AlwaysFalse)
     ELSE IF converted = NotExact THEN Relaxed
     ELSE Exact(Test(IF negated THEN _NEGATE[op] ELSE op, column, converted))

FilterIsNull(e, negated, self) ==
  LET wantsNull == e.negated = negated
  IN CASE IsValue(e.operand) ->
            Exact(IF (ValueIn(e.operand, self) = Null) = wantsNull THEN AlwaysTrue ELSE AlwaysFalse)
       [] e.operand.node = "column" ->
            Exact(Test(IF wantsNull THEN "null" ELSE "not null", e.operand.name, Null))
       [] OTHER -> Relaxed

FilterIn(e, negated, self) ==
  LET column == e.operand.name
      excluded == e.negated # negated
      values == {ValueIn(v, self) : v \in ToSet(e.values)}
      converted == {iceberg_value(v, self.schema[column]) : v \in values \ {Null}}
  IN IF e.operand.node # "column" THEN Relaxed
     ELSE IF excluded /\ Null \in values THEN Exact(AlwaysFalse)
     ELSE IF NotExact \in converted THEN Relaxed
     ELSE IF excluded THEN Exact(Test("not in", column, converted))
     ELSE IF converted = {} THEN Exact(AlwaysFalse)
     ELSE Exact(Test("in", column, converted))

(* _visit and _compose.                                                    *)
NodeFilter(e, negated, self, Visit(_, _, _)) ==
  LET parts == [i \in DOMAIN e.operands |-> Visit(e.operands[i], negated, self)]
      filters == [i \in DOMAIN parts |-> parts[i].filter]
  IN CASE e.node = "none" -> Exact(AlwaysTrue)
       [] e.node \in {"and", "or"} ->
            [filter |-> IF (e.node = "and") # negated THEN AllFilters(filters) ELSE AnyFilter(filters),
             exact |-> \A i \in DOMAIN parts : parts[i].exact]
       [] e.node = "not" -> Visit(e.operand, ~ negated, self)
       [] e.node = "comparison" ->
            CASE e.left.node = "column" /\ IsValue(e.right) ->
                   FilterComparison(e.op, e.left.name, e.right, negated, self)
              [] e.right.node = "column" /\ IsValue(e.left) ->
                   FilterComparison(_MIRROR[e.op], e.right.name, e.left, negated, self)
              [] OTHER -> Relaxed
       [] e.node = "is_null" -> FilterIsNull(e, negated, self)
       [] e.node = "in" -> FilterIn(e, negated, self)
       [] OTHER -> Relaxed

(* The rows pyiceberg keeps (external): a test on null keeps nothing.      *)
NodeMatches(filter, d, self, Matches(_, _, _)) ==
  LET stored == d[filter.column]
      rank(v) == Rounded(v, self.schema[filter.column])
  IN CASE filter.test = "all" -> \A i \in DOMAIN filter.filters : Matches(filter.filters[i], d, self)
       [] filter.test = "any" -> \E i \in DOMAIN filter.filters : Matches(filter.filters[i], d, self)
       [] filter.test = "true" -> TRUE
       [] filter.test = "false" -> FALSE
       [] filter.test = "null" -> stored = Null
       [] filter.test = "not null" -> stored # Null
       [] filter.test = "in" -> stored # Null /\ \E v \in filter.value : stored.rank = rank(v)
       [] filter.test = "not in" -> stored # Null /\ \A v \in filter.value : stored.rank # rank(v)
       [] OTHER -> stored # Null /\ Compare(filter.test, stored.rank, rank(filter.value))

-----------------------------------------------------------------------------
(* _ArrowPredicate: the recheck of a batch, with Arrow's Kleene logic.     *)
(* Every node is an array or a scalar: masks are values too.               *)

ArrowCompare(op, x, y) ==
  IF Null \in {x, y} THEN Unknown ELSE Truth(Compare(op, x.rank, y.rank))

NodeArrow(e, d, self, Mask(_, _, _)) ==
  CASE e.node = "column" -> d[e.name]
    [] IsValue(e) -> ValueIn(e, self)
    [] OTHER -> AsValue(Mask(e, d, self))

NodeMask(e, d, self, Mask(_, _, _)) ==
  LET masks == {Mask(o, d, self) : o \in ToSet(e.operands)}
      Arrow(x) == NodeArrow(x, d, self, Mask)
  IN CASE e.node = "none" -> True
       [] e.node = "comparison" -> ArrowCompare(e.op, Arrow(e.left), Arrow(e.right))
       [] e.node = "and" -> AllOf(masks)
       [] e.node = "or" -> AnyOf(masks)
       [] e.node = "not" -> Negated(TRUE, Mask(e.operand, d, self))
       [] e.node = "is_null" -> Truth((Arrow(e.operand) = Null) # e.negated)
       [] e.node = "in" ->
            Negated(e.negated, AnyOf({ArrowCompare("=", Arrow(e.operand), Arrow(v)) : v \in ToSet(e.values)}))
       [] OTHER -> AsTruth(Arrow(e))

-----------------------------------------------------------------------------
(* Delta.  _scalar: the Arrow type of a literal that faces a column.       *)
(* Whole and decimal numbers take the type of a decimal column, a NULL     *)
(* that of any; there is no type where no column is faced.                 *)
ScalarType(value, target) ==
  IF value = Null \/ (value.kind \in {"integer", "decimal"} /\ target = "decimal")
  THEN target ELSE value.kind

(* _value_set: one array for the present values, if they are of one type.  *)
HasValueSet(present, target) ==
  Cardinality({ScalarType(v, target) : v \in present}) = 1

(* if_else(mask, then, otherwise) with a mask that is never null.          *)
IfElse(mask, then, otherwise) == IF mask THEN then ELSE otherwise

(* Mutant of Membership: it is true or false.                              *)
MembershipTwoValued(e, operand, target) ==
  Negated(e.negated, Truth(\E v \in ToSet(e.values) :
                             v.value # Null /\ operand.rank = v.value.rank))

(* _in: a column's values and a scalar of another numeric type are         *)
(* comparable, but a decimal and a scalar that is not decimal only by      *)
(* value, not as members of an array (external).                           *)
Membership(e, operand, target) ==
  LET values == {v.value : v \in ToSet(e.values)}
      present == values \ {Null}
      isin == \E v \in present : operand # Null /\ operand.rank = v.rank
      result ==
        CASE ~ HasValueSet(present, target) ->
               AnyOf({ArrowCompare("=", operand, v) : v \in values})
          [] HasValueSet(present, target) /\ Null \in values -> IfElse(isin, True, Unknown)
          [] OTHER -> IfElse(operand # Null, Truth(isin), Unknown)
  IN Negated(e.negated, result)

(* _FilterTranslator: what the dataset makes of an expression on a row.    *)
NodeTerm(e, d, Expression(_, _)) ==
  CASE e.node = "column" -> d[e.name]
    [] e.node = "literal" -> e.value
    [] OTHER -> AsValue(Expression(e, d))

NodeExpression(e, d, types, Expression(_, _)) ==
  LET operands == {Expression(o, d) : o \in ToSet(e.operands)}
      Term(x) == NodeTerm(x, d, Expression)
  IN CASE e.node = "none" -> True
       [] e.node = "comparison" -> ArrowCompare(e.op, Term(e.left), Term(e.right))
       [] e.node = "and" -> AllOf(operands)
       [] e.node = "or" -> AnyOf(operands)
       [] e.node = "not" -> Negated(TRUE, Expression(e.operand, d))
       [] e.node = "is_null" -> Truth((Term(e.operand) = Null) # e.negated)
       [] e.node = "in" ->
            Membership(e, Term(e.operand),
                       IF e.operand.node = "column" THEN types[e.operand.name] ELSE "none")
       [] OTHER -> AsTruth(Term(e))

=============================================================================
