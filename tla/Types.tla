-------------------------------- MODULE Types --------------------------------
(***************************************************************************)
(* Logical types (domain/types.py) and the type two of them have in        *)
(* common, in a column or as operands of an arithmetic operation; the type *)
(* of an expression (domain/expressions.py) and what the binder does       *)
(* (application/binding.py), at one of its nodes.                          *)
(***************************************************************************)
EXTENDS PredicateNodes, FiniteSets

CONSTANTS
  PortablePrecision,  \* PORTABLE_DECIMAL_PRECISION: 38 digits
  MaxPrecision,       \* of Arrow's decimal256: 76 digits
  IntegerDigits,      \* decimal digits of an integer, by its width in bits
  Lower               \* column name -> str.lower() of it

ASSUME PrecisionAssumption ==
  /\ PortablePrecision \in Nat \ {0} /\ MaxPrecision \in Nat
  /\ PortablePrecision <= MaxPrecision

ASSUME DigitsAssumption == IntegerDigits \in [{8, 16, 32, 64} -> Nat \ {0}]

UnknownType == [kind |-> "unknown"]
NullType == [kind |-> "null"]
BooleanType == [kind |-> "boolean"]
StringType == [kind |-> "string"]
DateType == [kind |-> "date"]
IntegerType(bits) == [kind |-> "integer", bits |-> bits]
FloatType(bits) == [kind |-> "float", bits |-> bits]
DecimalType(precision, scale) == [kind |-> "decimal", precision |-> precision, scale |-> scale]
TimestampType(timezone) == [kind |-> "timestamp", timezone |-> timezone]
ListType(element) == [kind |-> "list", element |-> element]

(* ValueError: no type of the portable range holds the result.             *)
OutOfRange == [kind |-> "error"]

PlainTypes == {UnknownType, NullType, BooleanType, StringType, DateType}
IntegerTypes == [kind : {"integer"}, bits : {8, 16, 32, 64}]
FloatTypes == [kind : {"float"}, bits : {32, 64}]
DecimalTypes ==
  {t \in [kind : {"decimal"}, precision : 1 .. MaxPrecision, scale : 0 .. MaxPrecision] :
     t.scale <= t.precision}

(* The types of scalars; those with a time zone are told apart by it.      *)
ScalarTypes(timezones) ==
  PlainTypes \cup IntegerTypes \cup FloatTypes \cup DecimalTypes
  \cup [kind : {"timestamp"}, timezone : timezones]

is_numeric(type) == type.kind \in {"integer", "float", "decimal"}

(* is_portable_type, of a scalar.                                          *)
IsPortable(type) == type.kind = "decimal" => type.precision <= PortablePrecision

(* The kinds of a value that may turn out to be of any type.               *)
Open(type) == type.kind \in {"null", "unknown"}

is_comparable(left, right) ==
  \/ Open(left) \/ Open(right)
  \/ is_numeric(left) /\ is_numeric(right)
  \/ left.kind = right.kind

-----------------------------------------------------------------------------
(* unify.  The operation is "none" for a column's type.                    *)

Greater(m, n) == IF m > n THEN m ELSE n

(* _as_decimal, by the digits before and after the point.                  *)
Integral(type) ==
  IF type.kind = "decimal" THEN type.precision - type.scale ELSE IntegerDigits[type.bits]

Scale(type) == IF type.kind = "decimal" THEN type.scale ELSE 0

(* _bounded_decimal: what does not fit is cut behind the point.            *)
BoundedDecimal(integral, scale, maximum) ==
  IF integral + scale <= maximum THEN DecimalType(Greater(integral + scale, 1), scale)
  ELSE DecimalType(maximum, maximum - integral)

(* Mutant of ResultIntegral: no digit for the carry of a sum.              *)
IntegralWithoutCarry(left, right, operation) ==
  IF operation = "*" THEN Integral(left) + Integral(right) + 1
  ELSE Greater(Integral(left), Integral(right))

ResultIntegral(left, right, operation) ==
  CASE operation = "*" -> Integral(left) + Integral(right) + 1
    [] operation \in {"+", "-"} -> Greater(Integral(left), Integral(right)) + 1
    [] operation = "none" -> Greater(Integral(left), Integral(right))

ResultScale(left, right, operation) ==
  IF operation = "*" THEN Scale(left) + Scale(right) ELSE Greater(Scale(left), Scale(right))

UnifyDecimals(left, right, operation) ==
  LET integral == ResultIntegral(left, right, operation)
      scale == ResultScale(left, right, operation)
      maximum == IF operation = "none" THEN MaxPrecision ELSE PortablePrecision
  IN IF integral > maximum \/ (operation # "none" /\ integral + scale > maximum) THEN OutOfRange
     ELSE BoundedDecimal(integral, scale, maximum)

UnifyNumbers(left, right, operation) ==
  IF left.kind = "float" \/ right.kind = "float"
  THEN FloatType(IF left.kind = right.kind THEN Greater(left.bits, right.bits) ELSE 64)
  ELSE IF left.kind = "integer" /\ right.kind = "integer"
  THEN IntegerType(IF operation = "none" THEN Greater(left.bits, right.bits) ELSE 64)
  ELSE UnifyDecimals(left, right, operation)

UnifyConcrete(left, right, operation) ==
  IF is_numeric(left) /\ is_numeric(right) THEN UnifyNumbers(left, right, operation)
  ELSE IF left = right THEN left ELSE UnknownType

(* Null and unknown are identities beside a concrete type.                 *)
UnifyOpen(left, right, operation) ==
  IF Open(left) /\ Open(right)
  THEN IF left.kind = "unknown" \/ right.kind = "unknown" THEN UnknownType ELSE NullType
  ELSE IF Open(left) THEN right
  ELSE IF Open(right) THEN left
  ELSE UnifyConcrete(left, right, operation)

(* Mutant of unify: unknown is an identity for operations too.             *)
unify_promising(left, right, operation) ==
  IF operation = "/" THEN FloatType(64) ELSE UnifyOpen(left, right, operation)

unify(left, right, operation) ==
  IF operation = "/" THEN FloatType(64)
  ELSE IF operation # "none" /\ (left.kind = "unknown" \/ right.kind = "unknown") THEN UnknownType
  ELSE UnifyOpen(left, right, operation)

-----------------------------------------------------------------------------
(* A type known at last where it was unknown before.                       *)
Refines(type, earlier) == earlier = UnknownType \/ type = earlier

-----------------------------------------------------------------------------
(* Schemas.  Schema.resolve: the name itself, else one that differs in     *)
(* case only.                                                              *)

Field(name, type) == [name |-> name, type |-> type]
NoField == Field("", UnknownType)

resolve(schema, name) ==
  LET exact == {f \in ToSet(schema) : f.name = name}
      matches == {f \in ToSet(schema) : Lower[f.name] = Lower[name]}
  IN IF exact # {} THEN CHOOSE f \in exact : TRUE
     ELSE IF Cardinality(matches) = 1 THEN CHOOSE f \in matches : TRUE
     ELSE NoField

-----------------------------------------------------------------------------
(* Literals.  A decimal value carries its digits and exponent.             *)

(* _decimal_shape *)
DecimalShape(value) ==
  LET scale == Greater(- value.exponent, 0)
  IN DecimalType(Greater(Greater(value.digits + Greater(value.exponent, 0), scale), 1), scale)

(* _validate_literal_value: kinds outside these are Python's other objects *)
(* and numbers that are not finite.                                        *)
IsLiteralValue(value) ==
  CASE value.kind = "integer" -> value.rank \in - Int64 - Unit .. Int64
    [] value.kind = "decimal" -> DecimalShape(value).precision <= MaxPrecision
    [] OTHER -> value.kind \in {"null", "boolean", "float", "string", "date", "timestamp"}

infer_literal_type(value) ==
  CASE value.kind = "null" -> NullType
    [] value.kind = "boolean" -> BooleanType
    [] value.kind = "integer" -> IntegerType(64)
    [] value.kind = "float" -> FloatType(64)
    [] value.kind = "decimal" -> DecimalShape(value)
    [] value.kind = "string" -> StringType
    [] value.kind = "date" -> DateType
    [] value.kind = "timestamp" -> TimestampType(value.timezone)

-----------------------------------------------------------------------------
(* A node of expression_type.                                              *)

Predications == {"comparison", "and", "or", "not", "is_null", "in", "like"}

NodeExpressionType(e, schema, Type(_, _)) ==
  CASE e.node = "column" -> resolve(schema, e.name).type
    [] e.node = "literal" -> infer_literal_type(e.value)
    [] e.node = "alias" -> Type(e.expression, schema)
    [] e.node \in Predications -> BooleanType
    [] e.node = "arithmetic" -> unify(Type(e.left, schema), Type(e.right, schema), e.op)
    [] OTHER -> UnknownType

(* A node of _Binder.bind.  Only the top of a projection may be an alias.  *)
(* An exception is a Refused node: it refuses the plan it is in.           *)

Refused == [node |-> "refused"]

Require(condition, e) == IF condition THEN e ELSE Refused

IsOfKind(type, kinds) == type.kind \in kinds \cup {"unknown", "null"}

NodeBound(e, schema, parameters, Bind(_, _, _), TypeOf(_, _, _), Portable(_)) ==
  LET Bound(x) == Bind(x, schema, parameters)
      Each(s) == [i \in DOMAIN s |-> Bound(s[i])]
      Of(x, kinds) == IsOfKind(TypeOf(x, schema, parameters), kinds)
      AllBoolean(s) == \A o \in ToSet(s) : Of(o, {"boolean"})
      Comparable(x, y) == is_comparable(TypeOf(x, schema, parameters), TypeOf(y, schema, parameters))
      Calculable(x) == Of(x, {"integer", "float", "decimal"})
  IN CASE e.node = "column" ->
            LET field == resolve(schema, e.name)
            IN Require(field # NoField /\ Portable(field.type), Column(field.name))
       [] e.node = "literal" -> Require(Portable(infer_literal_type(e.value)), e)
       [] e.node = "parameter" ->
            Require(e.name \in DOMAIN parameters => Portable(infer_literal_type(parameters[e.name])), e)
       [] e.node = "comparison" ->
            Require(Comparable(Bound(e.left), Bound(e.right)), Comparison(e.op, Bound(e.left), Bound(e.right)))
       [] e.node = "and" -> Require(AllBoolean(Each(e.operands)), And(Each(e.operands)))
       [] e.node = "or" -> Require(AllBoolean(Each(e.operands)), Or(Each(e.operands)))
       [] e.node = "not" -> Require(Of(Bound(e.operand), {"boolean"}), Not(Bound(e.operand)))
       [] e.node = "is_null" -> IsNull(Bound(e.operand), e.negated)
       [] e.node = "in" ->
            Require(\A v \in ToSet(Each(e.values)) : Comparable(Bound(e.operand), v),
                    In(Bound(e.operand), Each(e.values), e.negated))
       [] e.node = "like" ->
            Require(Of(Bound(e.operand), {"string"}) /\ Of(Bound(e.pattern), {"string"}),
                    Like(Bound(e.operand), Bound(e.pattern), e.negated))
       [] e.node = "arithmetic" ->
            LET bound == Arithmetic(e.op, Bound(e.left), Bound(e.right))
            IN Require(/\ Calculable(bound.left) /\ Calculable(bound.right)
                       /\ TypeOf(bound, schema, parameters) # OutOfRange, bound)
       [] OTHER -> Refused

=============================================================================
