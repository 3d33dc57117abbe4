----------------------------- MODULE TypesProofs -----------------------------
(***************************************************************************)
(* What the binder relies on in the types of operands: their order does    *)
(* not matter, and a parameter whose value becomes known makes no type     *)
(* that was known before another one.  And what follows for every          *)
(* expression: bound with the values of its parameters, if it is, it is    *)
(* what binding without them made of it.                                   *)
(*                                                                         *)
(* The recursive operators of Binding are, node by node, the operators of  *)
(* Types.  Here they are functions on the trees of a set E: whatever       *)
(* functions compute each node from its children in that way.              *)
(***************************************************************************)
EXTENDS Types, FiniteSetTheorems, SequenceTheorems, WellFoundedInduction, TLAPS

CONSTANT Timezones

Scalars == ScalarTypes(Timezones)

ArithmeticOperations == {"+", "-", "*", "/"}

Operations == ArithmeticOperations \cup {"none"}

(* The digits of a numeric type are natural numbers.                       *)
LEMMA DigitsAreNatural ==
  ASSUME NEW t \in Scalars, t.kind \in {"integer", "decimal"}
  PROVE  Integral(t) \in Nat /\ Scale(t) \in Nat
<1>1. CASE t \in IntegerTypes
  BY <1>1, DigitsAssumption DEF IntegerTypes, Integral, Scale
<1>2. CASE t \in DecimalTypes
  BY <1>2, PrecisionAssumption DEF DecimalTypes, Integral, Scale
<1> QED
  BY <1>1, <1>2 DEF Scalars, ScalarTypes, PlainTypes, FloatTypes, UnknownType, NullType,
                    BooleanType, StringType, DateType

(* The greater of two numbers does not depend on their order.              *)
LEMMA GreaterCommutes ==
  ASSUME NEW m \in Int, NEW n \in Int
  PROVE  Greater(m, n) = Greater(n, m)
BY DEF Greater

LEMMA DecimalsCommute ==
  ASSUME NEW l \in Scalars, NEW r \in Scalars, NEW op \in {"+", "-", "*", "none"},
         l.kind \in {"integer", "decimal"}, r.kind \in {"integer", "decimal"}
  PROVE  UnifyDecimals(l, r, op) = UnifyDecimals(r, l, op)
<1>1. Integral(l) \in Nat /\ Scale(l) \in Nat /\ Integral(r) \in Nat /\ Scale(r) \in Nat
  BY DigitsAreNatural
<1>2. ResultIntegral(l, r, op) = ResultIntegral(r, l, op)
  BY <1>1, GreaterCommutes DEF ResultIntegral
<1>3. ResultScale(l, r, op) = ResultScale(r, l, op)
  BY <1>1, GreaterCommutes DEF ResultScale
<1> QED
  BY <1>2, <1>3 DEF UnifyDecimals

LEMMA BitsAreNatural ==
  ASSUME NEW t \in Scalars, t.kind \in {"integer", "float"}
  PROVE  t.bits \in Nat
BY DEF Scalars, ScalarTypes, PlainTypes, IntegerTypes, FloatTypes, DecimalTypes, UnknownType,
       NullType, BooleanType, StringType, DateType

LEMMA NumbersCommute ==
  ASSUME NEW l \in Scalars, NEW r \in Scalars, NEW op \in {"+", "-", "*", "none"},
         is_numeric(l), is_numeric(r)
  PROVE  UnifyNumbers(l, r, op) = UnifyNumbers(r, l, op)
<1>1. CASE l.kind = "float" \/ r.kind = "float"
  <2>1. CASE l.kind = r.kind
    <3>1. Greater(l.bits, r.bits) = Greater(r.bits, l.bits)
      BY <1>1, <2>1, BitsAreNatural, GreaterCommutes
    <3> QED
      BY <1>1, <2>1, <3>1 DEF UnifyNumbers
  <2>2. CASE l.kind # r.kind
    BY <1>1, <2>2 DEF UnifyNumbers
  <2> QED
    BY <2>1, <2>2
<1>2. CASE l.kind = "integer" /\ r.kind = "integer"
  <2>1. Greater(l.bits, r.bits) = Greater(r.bits, l.bits)
    BY <1>2, BitsAreNatural, GreaterCommutes
  <2> QED
    BY <1>2, <2>1 DEF UnifyNumbers
<1>3. CASE l.kind # "float" /\ r.kind # "float" /\ ~ (l.kind = "integer" /\ r.kind = "integer")
  <2>1. l.kind \in {"integer", "decimal"} /\ r.kind \in {"integer", "decimal"}
    BY <1>3 DEF is_numeric
  <2>2. UnifyDecimals(l, r, op) = UnifyDecimals(r, l, op)
    BY <2>1, DecimalsCommute
  <2> QED
    BY <1>3, <2>2 DEF UnifyNumbers
<1> QED
  BY <1>1, <1>2, <1>3

(***************************************************************************)
(* unify() is symmetric, as its docstring says: the type of a column does  *)
(* not depend on the order of a sample, nor that of an expression on the   *)
(* side a literal stands on.                                               *)
(***************************************************************************)
THEOREM UnifySymmetric ==
  ASSUME NEW l \in Scalars, NEW r \in Scalars, NEW op \in Operations
  PROVE  unify(l, r, op) = unify(r, l, op)
<1>1. CASE op = "/"
  BY <1>1 DEF unify
<1>2. CASE op # "/"
  <2>1. op \in {"+", "-", "*", "none"}
    BY <1>2 DEF Operations, ArithmeticOperations
  <2>2. UnifyConcrete(l, r, op) = UnifyConcrete(r, l, op)
    <3>1. CASE is_numeric(l) /\ is_numeric(r)
      <4>1. UnifyNumbers(l, r, op) = UnifyNumbers(r, l, op)
        BY <2>1, <3>1, NumbersCommute
      <4> QED
        BY <3>1, <4>1 DEF UnifyConcrete
    <3>2. CASE ~ (is_numeric(l) /\ is_numeric(r))
      BY <3>2 DEF UnifyConcrete
    <3> QED
      BY <3>1, <3>2
  <2>3. UnifyOpen(l, r, op) = UnifyOpen(r, l, op)
    <3>1. CASE Open(l) /\ Open(r)
      BY <3>1 DEF UnifyOpen
    <3>2. CASE Open(l) /\ ~ Open(r)
      BY <3>2 DEF UnifyOpen
    <3>3. CASE ~ Open(l) /\ Open(r)
      BY <3>3 DEF UnifyOpen
    <3>4. CASE ~ Open(l) /\ ~ Open(r)
      BY <2>2, <3>4 DEF UnifyOpen
    <3> QED
      BY <3>1, <3>2, <3>3, <3>4
  <2> QED
    BY <1>2, <2>3 DEF unify
<1> QED
  BY <1>1, <1>2

LEMMA DecimalsClosed ==
  ASSUME NEW l \in Scalars, NEW r \in Scalars, NEW op \in {"+", "-", "*", "none"},
         l.kind \in {"integer", "decimal"}, r.kind \in {"integer", "decimal"},
         UnifyDecimals(l, r, op) # OutOfRange
  PROVE  /\ UnifyDecimals(l, r, op) \in DecimalTypes
         /\ op # "none" => IsPortable(UnifyDecimals(l, r, op))
<1> DEFINE integral == ResultIntegral(l, r, op)
           scale == ResultScale(l, r, op)
           maximum == IF op = "none" THEN MaxPrecision ELSE PortablePrecision
           precision == Greater(integral + scale, 1)
<1>1. Integral(l) \in Nat /\ Scale(l) \in Nat /\ Integral(r) \in Nat /\ Scale(r) \in Nat
  BY DigitsAreNatural
<1>2. integral \in Nat
  BY <1>1 DEF ResultIntegral, Greater
<1>3. scale \in Nat
  BY <1>1 DEF ResultScale, Greater
<1>4. maximum \in Nat \ {0} /\ maximum <= MaxPrecision
      /\ (op # "none" => maximum = PortablePrecision)
  BY PrecisionAssumption
<1>5. integral <= maximum /\ UnifyDecimals(l, r, op) = BoundedDecimal(integral, scale, maximum)
  BY <1>2, <1>4 DEF UnifyDecimals
<1> HIDE DEF integral, scale, maximum
<1>6. CASE integral + scale <= maximum
  <2>1. precision \in 1 .. maximum /\ scale <= precision
    BY <1>2, <1>3, <1>4, <1>6 DEF Greater
  <2>2. UnifyDecimals(l, r, op) = DecimalType(precision, scale)
    BY <1>5, <1>6 DEF BoundedDecimal
  <2> QED
    BY <1>3, <1>4, <2>1, <2>2, PrecisionAssumption DEF DecimalType, DecimalTypes, IsPortable
<1>7. CASE ~ (integral + scale <= maximum)
  <2>1. UnifyDecimals(l, r, op) = DecimalType(maximum, maximum - integral)
    BY <1>5, <1>7 DEF BoundedDecimal
  <2> QED
    BY <1>2, <1>4, <1>5, <2>1, PrecisionAssumption DEF DecimalType, DecimalTypes, IsPortable
<1> QED
  BY <1>6, <1>7

(***************************************************************************)
(* unify() gives a well-formed type or refuses: its decimals are ones that *)
(* DecimalType's own checks accept, and those of an operation on portable  *)
(* operands are portable.                                                  *)
(***************************************************************************)
THEOREM UnifyClosed ==
  ASSUME NEW l \in Scalars, NEW r \in Scalars, NEW op \in Operations,
         unify(l, r, op) # OutOfRange
  PROVE  /\ unify(l, r, op) \in Scalars
         /\ op # "none" /\ IsPortable(l) /\ IsPortable(r) => IsPortable(unify(l, r, op))
<1>1. FloatType(64) \in Scalars /\ IsPortable(FloatType(64))
      /\ UnknownType \in Scalars /\ IsPortable(UnknownType)
      /\ NullType \in Scalars /\ IsPortable(NullType)
  BY DEF Scalars, ScalarTypes, PlainTypes, FloatTypes, FloatType, IsPortable, UnknownType, NullType
<1>2. CASE op = "/" \/ (op # "none" /\ (l.kind = "unknown" \/ r.kind = "unknown"))
  BY <1>1, <1>2 DEF unify
<1>3. CASE op # "/" /\ ~ (op # "none" /\ (l.kind = "unknown" \/ r.kind = "unknown"))
  <2>1. unify(l, r, op) = UnifyOpen(l, r, op)
    BY <1>3 DEF unify
  <2>2. CASE Open(l) \/ Open(r)
    BY <1>1, <2>1, <2>2 DEF UnifyOpen
  <2>3. CASE ~ Open(l) /\ ~ Open(r)
    <3>1. unify(l, r, op) = UnifyConcrete(l, r, op)
      BY <2>1, <2>3 DEF UnifyOpen
    <3>2. CASE ~ (is_numeric(l) /\ is_numeric(r))
      BY <1>1, <3>1, <3>2 DEF UnifyConcrete
    <3>3. CASE is_numeric(l) /\ is_numeric(r)
      <4>1. unify(l, r, op) = UnifyNumbers(l, r, op)
        BY <3>1, <3>3 DEF UnifyConcrete
      <4>2. CASE l.kind = "float" \/ r.kind = "float"
        <5>1. (l.kind = "float" => l.bits \in {32, 64}) /\ (r.kind = "float" => r.bits \in {32, 64})
          BY DEF Scalars, ScalarTypes, PlainTypes, IntegerTypes, FloatTypes, DecimalTypes,
                 UnknownType, NullType, BooleanType, StringType, DateType
        <5>2. PICK bits \in {32, 64} : unify(l, r, op) = FloatType(bits)
          BY <4>1, <4>2, <5>1 DEF UnifyNumbers, Greater
        <5> QED
          BY <5>2 DEF FloatType, FloatTypes, Scalars, ScalarTypes, IsPortable
      <4>3. CASE l.kind = "integer" /\ r.kind = "integer"
        <5>1. l.bits \in {8, 16, 32, 64} /\ r.bits \in {8, 16, 32, 64}
          BY <4>3 DEF Scalars, ScalarTypes, PlainTypes, IntegerTypes, FloatTypes, DecimalTypes,
                      UnknownType, NullType, BooleanType, StringType, DateType
        <5>2. PICK bits \in {8, 16, 32, 64} : unify(l, r, op) = IntegerType(bits)
          BY <4>1, <4>3, <5>1 DEF UnifyNumbers, Greater
        <5> QED
          BY <5>2 DEF IntegerType, IntegerTypes, Scalars, ScalarTypes, IsPortable
      <4>4. CASE l.kind # "float" /\ r.kind # "float" /\ ~ (l.kind = "integer" /\ r.kind = "integer")
        <5>1. l.kind \in {"integer", "decimal"} /\ r.kind \in {"integer", "decimal"}
          BY <3>3, <4>4 DEF is_numeric
        <5>2. unify(l, r, op) = UnifyDecimals(l, r, op)
          BY <4>1, <4>4 DEF UnifyNumbers
        <5>3. op \in {"+", "-", "*", "none"}
          BY <1>3 DEF Operations, ArithmeticOperations
        <5> QED
          BY <5>1, <5>2, <5>3, DecimalsClosed DEF Scalars, ScalarTypes
      <4> QED
        BY <4>2, <4>3, <4>4
    <3> QED
      BY <3>2, <3>3
  <2> QED
    BY <2>2, <2>3
<1> QED
  BY <1>2, <1>3

(***************************************************************************)
(* The types an expression has when it is inspected, its parameters        *)
(* unknown, hold when it is executed: operands whose types are refined     *)
(* give a refined type.  So what inspection refuses, execution refuses.    *)
(***************************************************************************)
THEOREM UnifyRefines ==
  ASSUME NEW l \in Scalars, NEW r \in Scalars, NEW l0 \in Scalars, NEW r0 \in Scalars,
         NEW op \in ArithmeticOperations, Refines(l, l0), Refines(r, r0)
  PROVE  Refines(unify(l, r, op), unify(l0, r0, op))
<1>1. CASE op = "/"
  BY <1>1 DEF unify, Refines
<1>2. CASE op # "/" /\ (l0 = UnknownType \/ r0 = UnknownType)
  <2>1. op # "none"
    BY DEF ArithmeticOperations
  <2>2. l0.kind = "unknown" \/ r0.kind = "unknown"
    BY <1>2 DEF UnknownType
  <2>3. unify(l0, r0, op) = UnknownType
    BY <1>2, <2>1, <2>2 DEF unify
  <2> QED
    BY <2>3 DEF Refines
<1>3. CASE l0 # UnknownType /\ r0 # UnknownType
  BY <1>3 DEF Refines
<1> QED
  BY <1>1, <1>2, <1>3

(* Comparability only shrinks when types become known.                     *)
THEOREM ComparableWhenInspected ==
  ASSUME NEW l \in Scalars, NEW r \in Scalars, NEW l0 \in Scalars, NEW r0 \in Scalars,
         Refines(l, l0), Refines(r, r0), is_comparable(l, r)
  PROVE  is_comparable(l0, r0)
<1>1. CASE l0 = UnknownType \/ r0 = UnknownType
  BY <1>1 DEF is_comparable, Open, UnknownType
<1>2. CASE l0 = l /\ r0 = r
  BY <1>2
<1> QED
  BY <1>1, <1>2 DEF Refines

-----------------------------------------------------------------------------
(* Induction over trees.                                                   *)

LessThan == {pair \in Nat \X Nat : pair[1] < pair[2]}

LEMMA LessThanWellFounded == IsWellFoundedOn(LessThan, Nat)
BY NatLessThanWellFounded, Zenon DEF OpToRel, LessThan

LEMMA LeastNatural ==
  ASSUME NEW T, T \subseteq Nat, T # {}
  PROVE  \E x \in T : \A y \in T : x <= y
<1>1. PICK x \in T : \A y \in T : ~ (<<y, x>> \in LessThan)
  BY LessThanWellFounded, WFMin, Zenon
<1>2. ASSUME NEW y \in T
      PROVE  x <= y
  <2>1. x \in Nat /\ y \in Nat
    OBVIOUS
  <2>2. <<y, x>> \notin LessThan
    BY <1>1
  <2>3. <<y, x>> \in Nat \X Nat /\ <<y, x>>[1] = y /\ <<y, x>>[2] = x
    BY <2>1
  <2>4. ~ (y < x)
    BY <2>2, <2>3, Zenon DEF LessThan
  <2> QED BY <2>1, <2>4
<1> QED BY <1>2

(* Trees of a set with a depth: if all that are less deep than a tree      *)
(* being in S puts it in S, they are all in S.                             *)
LEMMA TreeInduction ==
  ASSUME NEW E, NEW depth \in [E -> Nat], NEW S,
         \A e \in E : (\A c \in E : depth[c] < depth[e] => c \in S) => e \in S
  PROVE  E \subseteq S
<1> SUFFICES ASSUME ~ (E \subseteq S) PROVE FALSE
  OBVIOUS
<1> DEFINE T == {depth[e] : e \in E \ S}
<1>1. T \subseteq Nat /\ T # {}
  OBVIOUS
<1>2. PICK x \in T : \A y \in T : x <= y
  BY <1>1, LeastNatural
<1>3. PICK e \in E \ S : depth[e] = x
  OBVIOUS
<1>4. ASSUME NEW c \in E, depth[c] < depth[e]
      PROVE  c \in S
  <2>1. depth[c] \in Nat /\ x \in Nat /\ depth[c] < x
    BY <1>1, <1>3, <1>4
  <2>2. ~ (x <= depth[c])
    BY <2>1
  <2>3. c \notin S => depth[c] \in T
    OBVIOUS
  <2> QED BY <1>2, <2>2, <2>3, Zenon
<1> QED BY <1>3, <1>4

-----------------------------------------------------------------------------
(* Binding without and with the values of parameters.                      *)

(* A type of a scalar, or one no operation takes.                          *)
IsType(t) == t \in Scalars \/ (~ is_numeric(t) /\ ~ Open(t))

TypesAgree(t, t0) == IsType(t) /\ IsType(t0) /\ Refines(t, t0)

IsValue(value) ==
  /\ IsLiteralValue(value)
  /\ value.kind = "decimal" => value.digits \in Nat /\ value.exponent \in Int
  /\ value.kind = "timestamp" => value.timezone \in Timezones

Below(E, depth, e) == {c \in E : depth[c] < depth[e]}

(* A tree a caller may ask to be bound: of any nodes, with sequences of    *)
(* operands and of values, and with values for its parameters.             *)
IsTree(e, E, depth, values) ==
  LET below == Below(E, depth, e)
  IN /\ e.node = "literal" => IsValue(e.value)
     /\ e.node = "parameter" => e.name \in DOMAIN values /\ IsValue(values[e.name])
     /\ e.node \in {"comparison", "arithmetic"} => e.left \in below /\ e.right \in below
     /\ e.node = "arithmetic" => e.op \in ArithmeticOperations
     /\ e.node \in {"and", "or"} => e.operands \in Seq(below)
     /\ e.node \in {"not", "is_null", "in", "like"} => e.operand \in below
     /\ e.node = "in" => e.values \in Seq(below)
     /\ e.node = "like" => e.pattern \in below

BoundBy(e, schema, values, bound, types, portable) ==
  NodeBound(e, schema, values, LAMBDA x, s, v : bound[x], LAMBDA x, s, v : types[x], LAMBDA t : portable[t])

TypeBy(b, schema, type) == NodeExpressionType(b, schema, LAMBDA x, s : type[x])
SubstitutedBy(b, values, sub) == NodeSubstituted(b, values, LAMBDA x, v : sub[x])

(* What is computed of a tree that was bound, node by node: its type, what *)
(* it is with the values of its parameters, and whether it is refused.     *)
Evaluated(b, schema, values, type, sub, refused) ==
  /\ type[b] = TypeBy(b, schema, type)
  /\ sub[b] = SubstitutedBy(b, values, sub)
  /\ type[sub[b]] = TypeBy(sub[b], schema, type)
  /\ refused[b] <=> b = Refused \/ \E c \in ToSet(children(b)) : refused[c]

(* Trees bound twice: as explain() and schema() do it, without values, and *)
(* as execute() does it, where types are those of trees with the values.   *)
BoundTwice(E, depth, schema, values, portable, type, typed, sub, refused, inspected, bound) ==
  /\ depth \in [E -> Nat]
  /\ \A f \in ToSet(schema) : IsType(f.type)
  /\ \A e \in E :
       /\ IsTree(e, E, depth, values)
       /\ inspected[e] = BoundBy(e, schema, [p \in {} |-> Null], inspected, type, portable)
       /\ bound[e] = BoundBy(e, schema, values, bound, typed, portable)
       /\ Evaluated(bound[e], schema, values, type, sub, refused)
       /\ typed[bound[e]] = type[sub[bound[e]]]

LEMMA ResolvedType ==
  ASSUME NEW schema, \A f \in ToSet(schema) : IsType(f.type), NEW name
  PROVE  IsType(resolve(schema, name).type)
<1>1. UnknownType \in Scalars
  BY DEF Scalars, ScalarTypes, PlainTypes
<1>2. IsType(NoField.type)
  BY <1>1 DEF NoField, Field, IsType
<1> DEFINE exact == {f \in ToSet(schema) : f.name = name}
           matches == {f \in ToSet(schema) : Lower[f.name] = Lower[name]}
<1>3. CASE exact # {}
  BY <1>3 DEF resolve
<1>4. CASE exact = {} /\ Cardinality(matches) = 1
  <2>1. CASE matches # {}
    BY <1>4, <2>1 DEF resolve
  <2>2. CASE matches = {}
    BY <1>4, <2>2, FS_EmptySet
  <2> QED BY <2>1, <2>2
<1>5. CASE exact = {} /\ Cardinality(matches) # 1
  BY <1>2, <1>5 DEF resolve
<1> QED BY <1>3, <1>4, <1>5

LEMMA LiteralType ==
  ASSUME NEW value, IsValue(value)
  PROVE  IsType(infer_literal_type(value))
<1>1. CASE value.kind = "decimal"
  <2>1. value.digits \in Nat /\ value.exponent \in Int /\ DecimalShape(value).precision <= MaxPrecision
    BY <1>1 DEF IsValue, IsLiteralValue
  <2> DEFINE scale == Greater(- value.exponent, 0)
             precision == Greater(Greater(value.digits + Greater(value.exponent, 0), scale), 1)
  <2>2. scale \in Nat /\ precision \in Nat \ {0} /\ scale <= precision
    BY <2>1 DEF Greater
  <2>3. DecimalShape(value) = DecimalType(precision, scale)
    BY DEF DecimalShape
  <2>4. precision <= MaxPrecision
    BY <2>1, <2>3 DEF DecimalType
  <2>5. DecimalType(precision, scale) \in DecimalTypes
    <3> HIDE DEF precision, scale
    <3> QED BY <2>2, <2>4, PrecisionAssumption DEF DecimalType, DecimalTypes
  <2>6. infer_literal_type(value) = DecimalType(precision, scale)
    BY <1>1, <2>3 DEF infer_literal_type
  <2> QED BY <2>5, <2>6 DEF IsType, Scalars, ScalarTypes
<1>2. CASE value.kind = "timestamp"
  BY <1>2 DEF IsValue, IsType, infer_literal_type, TimestampType, Scalars, ScalarTypes
<1>3. CASE value.kind \in {"null", "boolean", "string", "date"}
  BY <1>3 DEF IsType, infer_literal_type, Scalars, ScalarTypes, PlainTypes
<1>4. CASE value.kind \in {"integer", "float"}
  BY <1>4 DEF IsType, infer_literal_type, Scalars, ScalarTypes, IntegerTypes, FloatTypes, IntegerType,
              FloatType
<1>5. value.kind \in {"decimal", "integer", "null", "boolean", "float", "string", "date", "timestamp"}
  BY DEF IsValue, IsLiteralValue
<1> QED BY <1>1, <1>2, <1>3, <1>4, <1>5

LEMMA BooleanTypes == TypesAgree(BooleanType, BooleanType)
BY DEF TypesAgree, IsType, Refines, Scalars, ScalarTypes, PlainTypes

(* What a check accepts of a type it accepts of one not yet known.         *)
LEMMA KindsWhenInspected ==
  ASSUME NEW t, NEW t0, Refines(t, t0), NEW kinds, IsOfKind(t, kinds)
  PROVE  IsOfKind(t0, kinds)
BY DEF Refines, IsOfKind, UnknownType

LEMMA ComparableToo ==
  ASSUME NEW t, NEW t0, NEW u, NEW u0, Refines(t, t0), Refines(u, u0), is_comparable(t, u)
  PROVE  is_comparable(t0, u0)
BY DEF Refines, is_comparable, Open, UnknownType

LEMMA ArithmeticTypes ==
  ASSUME NEW t, NEW t0, NEW u, NEW u0, TypesAgree(t, t0), TypesAgree(u, u0),
         NEW op \in ArithmeticOperations,
         IsOfKind(t, {"integer", "float", "decimal"}), IsOfKind(u, {"integer", "float", "decimal"}),
         unify(t, u, op) # OutOfRange
  PROVE  TypesAgree(unify(t, u, op), unify(t0, u0, op)) /\ unify(t0, u0, op) # OutOfRange
<1>1. /\ IsOfKind(t0, {"integer", "float", "decimal"})
      /\ IsOfKind(u0, {"integer", "float", "decimal"})
  BY KindsWhenInspected DEF TypesAgree
<1>2. \A x : IsType(x) /\ IsOfKind(x, {"integer", "float", "decimal"}) => x \in Scalars
  BY DEF IsType, IsOfKind, is_numeric, Open
<1>3. t \in Scalars /\ t0 \in Scalars /\ u \in Scalars /\ u0 \in Scalars
  BY <1>1, <1>2 DEF TypesAgree
<1>4. Refines(unify(t, u, op), unify(t0, u0, op))
  BY <1>3, UnifyRefines DEF TypesAgree
<1>5. unify(t, u, op) \in Scalars
  BY <1>3, UnifyClosed DEF Operations
<1>6. UnknownType \in Scalars /\ UnknownType # OutOfRange
  BY DEF Scalars, ScalarTypes, PlainTypes, UnknownType, OutOfRange
<1>7. unify(t0, u0, op) \in Scalars /\ unify(t0, u0, op) # OutOfRange
  BY <1>4, <1>5, <1>6 DEF Refines
<1> QED BY <1>4, <1>5, <1>7 DEF TypesAgree, IsType

LEMMA TypeNodes ==
  ASSUME NEW b, NEW schema, NEW type
  PROVE  /\ b.node = "column" => TypeBy(b, schema, type) = resolve(schema, b.name).type
         /\ b.node = "literal" => TypeBy(b, schema, type) = infer_literal_type(b.value)
         /\ b.node = "parameter" => TypeBy(b, schema, type) = UnknownType
         /\ b.node \in Predications => TypeBy(b, schema, type) = BooleanType
         /\ b.node = "arithmetic" => TypeBy(b, schema, type) = unify(type[b.left], type[b.right], b.op)
BY DEF TypeBy, NodeExpressionType, Predications

LEMMA SubstitutedNodes ==
  ASSUME NEW b, NEW values, NEW sub
  PROVE  /\ b.node \in {"column", "literal"} => SubstitutedBy(b, values, sub) = b
         /\ b.node = "parameter" => SubstitutedBy(b, values, sub) = Literal(values[b.name])
         /\ b.node = "arithmetic" => SubstitutedBy(b, values, sub) = Arithmetic(b.op, sub[b.left], sub[b.right])
         /\ b.node \in Predications => SubstitutedBy(b, values, sub).node = b.node
<1>1. CASE b.node \in {"column", "literal"}
  BY <1>1 DEF SubstitutedBy, NodeSubstituted, Predications
<1>2. CASE b.node = "parameter"
  BY <1>2 DEF SubstitutedBy, NodeSubstituted, Predications
<1>3. CASE b.node = "arithmetic"
  BY <1>3 DEF SubstitutedBy, NodeSubstituted, Predications
<1>4. CASE b.node = "comparison"
  BY <1>4 DEF SubstitutedBy, NodeSubstituted, Comparison
<1>5. CASE b.node = "and"
  BY <1>5 DEF SubstitutedBy, NodeSubstituted, And
<1>6. CASE b.node = "or"
  BY <1>6 DEF SubstitutedBy, NodeSubstituted, Or
<1>7. CASE b.node = "not"
  BY <1>7 DEF SubstitutedBy, NodeSubstituted, Not
<1>8. CASE b.node = "is_null"
  BY <1>8 DEF SubstitutedBy, NodeSubstituted, IsNull
<1>9. CASE b.node = "in"
  BY <1>9 DEF SubstitutedBy, NodeSubstituted, In
<1>10. CASE b.node = "like"
  BY <1>10 DEF SubstitutedBy, NodeSubstituted, Like
<1> QED BY <1>1, <1>2, <1>3, <1>4, <1>5, <1>6, <1>7, <1>8, <1>9, <1>10 DEF Predications

(* A predicate is a boolean, with the values of its parameters too.        *)
LEMMA PredicationTypes ==
  ASSUME NEW b, NEW schema, NEW values, NEW type, NEW sub, NEW refused,
         Evaluated(b, schema, values, type, sub, refused), b.node \in Predications
  PROVE  TypesAgree(type[sub[b]], type[b])
<1>1. type[b] = BooleanType
  BY TypeNodes DEF Evaluated
<1>2. sub[b].node = b.node
  BY SubstitutedNodes DEF Evaluated
<1>3. type[sub[b]] = BooleanType
  BY <1>2, TypeNodes DEF Evaluated
<1> QED BY <1>1, <1>3, BooleanTypes

(* No part of a tree that is not refused is.                               *)
LEMMA PartsBound ==
  ASSUME NEW b, NEW schema, NEW values, NEW type, NEW sub, NEW refused,
         Evaluated(b, schema, values, type, sub, refused), ~ refused[b], NEW S
  PROVE  /\ b # Refused
         /\ b.node \in {"comparison", "arithmetic"} => ~ refused[b.left] /\ ~ refused[b.right]
         /\ b.node \in {"and", "or"} => \A i \in DOMAIN b.operands : ~ refused[b.operands[i]]
         /\ b.node \in {"not", "is_null", "like"} => ~ refused[b.operand]
         /\ b.node = "in" /\ b.values \in Seq(S) =>
              ~ refused[b.operand] /\ \A i \in DOMAIN b.values : ~ refused[b.values[i]]
         /\ b.node = "like" => ~ refused[b.pattern]
<1>1. b # Refused /\ \A i \in DOMAIN children(b) : ~ refused[children(b)[i]]
  BY DEF Evaluated, ToSet
<1>2. CASE b.node \in {"comparison", "arithmetic"}
  <2>1. children(b) = <<b.left, b.right>>
    BY <1>2 DEF children
  <2> QED BY <1>1, <1>2, <2>1
<1>3. CASE b.node \in {"and", "or"}
  <2>1. children(b) = b.operands
    BY <1>3 DEF children
  <2> QED BY <1>1, <1>3, <2>1
<1>4. CASE b.node \in {"not", "is_null"}
  <2>1. children(b) = <<b.operand>>
    BY <1>4 DEF children
  <2> QED BY <1>1, <1>4, <2>1
<1>5. CASE b.node = "like"
  <2>1. children(b) = <<b.operand, b.pattern>>
    BY <1>5 DEF children
  <2> QED BY <1>1, <1>5, <2>1
<1>6. CASE b.node = "in"
  <2>1. children(b) = <<b.operand>> \o b.values
    BY <1>6 DEF children
  <2>2. ASSUME b.values \in Seq(S)
        PROVE  ~ refused[b.operand] /\ \A i \in DOMAIN b.values : ~ refused[b.values[i]]
    <3> DEFINE T == S \cup {b.operand}
    <3>1. <<b.operand>> \in Seq(T) /\ b.values \in Seq(T)
      BY <2>2
    <3>2. /\ Len(children(b)) = 1 + Len(b.values)
          /\ \A i \in 1 .. Len(children(b)) :
               children(b)[i] = IF i <= 1 THEN <<b.operand>>[i] ELSE b.values[i - 1]
      BY <2>1, <3>1
    <3>3. DOMAIN children(b) = 1 .. Len(children(b)) /\ DOMAIN b.values = 1 .. Len(b.values)
      BY <2>1, <3>1
    <3>4. Len(b.values) \in Nat
      BY <3>1
    <3>5. ~ refused[b.operand]
      <4>1. 1 \in 1 .. Len(children(b)) /\ children(b)[1] = b.operand
        BY <3>2, <3>4
      <4> QED BY <1>1, <3>3, <4>1
    <3>6. ASSUME NEW i \in DOMAIN b.values
          PROVE  ~ refused[b.values[i]]
      <4>1. i \in Nat /\ i + 1 \in 1 .. Len(children(b)) /\ children(b)[i + 1] = b.values[i]
        BY <3>2, <3>3, <3>4
      <4> QED BY <1>1, <3>3, <4>1
    <3> QED BY <3>5, <3>6
  <2> QED BY <1>1, <1>6, <2>2
<1>7. CASE b.node \notin {"comparison", "arithmetic", "and", "or", "not", "is_null", "like", "in"}
  BY <1>1, <1>7
<1> QED BY <1>1, <1>2, <1>3, <1>4, <1>5, <1>6, <1>7

(* An expression that is bound with values is bound to the same without,   *)
(* and its type is then the same or unknown.                               *)
Agrees(e, type, sub, refused, inspected, bound) ==
  ~ refused[bound[e]] =>
    /\ inspected[e] = bound[e]
    /\ TypesAgree(type[sub[bound[e]]], type[bound[e]])

LEMMA LeavesAgree ==
  ASSUME NEW E, NEW depth, NEW schema, NEW values, NEW portable, NEW type, NEW typed, NEW sub, NEW refused,
         NEW inspected, NEW bound,
         BoundTwice(E, depth, schema, values, portable, type, typed, sub, refused, inspected, bound),
         NEW e \in E, e.node \in {"column", "literal", "parameter"}
  PROVE  Agrees(e, type, sub, refused, inspected, bound)
<1> DEFINE b == bound[e]
<1> SUFFICES ASSUME ~ refused[b]
    PROVE  inspected[e] = b /\ TypesAgree(type[sub[b]], type[b])
  BY DEF Agrees
<1>1. /\ b = BoundBy(e, schema, values, bound, typed, portable)
      /\ inspected[e] = BoundBy(e, schema, [p \in {} |-> Null], inspected, type, portable)
      /\ Evaluated(b, schema, values, type, sub, refused)
      /\ IsTree(e, E, depth, values)
      /\ \A f \in ToSet(schema) : IsType(f.type)
  BY DEF BoundTwice
<1>2. b # Refused
  BY <1>1, PartsBound
<1>3. CASE e.node = "column"
  <2> DEFINE field == resolve(schema, e.name)
  <2>1. b = Require(field # NoField /\ portable[field.type], Column(field.name))
        /\ inspected[e] = Require(field # NoField /\ portable[field.type], Column(field.name))
    BY <1>1, <1>3 DEF BoundBy, NodeBound
  <2>2. b = Column(field.name)
    BY <1>2, <2>1 DEF Require
  <2>3. sub[b] = b
    BY <1>1, <2>2, SubstitutedNodes DEF Evaluated, Column
  <2>4. type[b] = resolve(schema, field.name).type
    BY <1>1, <2>2, TypeNodes DEF Evaluated, Column
  <2> QED BY <1>1, <2>1, <2>3, <2>4, ResolvedType DEF TypesAgree, Refines
<1>4. CASE e.node = "literal"
  <2>1. b = Require(portable[infer_literal_type(e.value)], e)
        /\ inspected[e] = Require(portable[infer_literal_type(e.value)], e)
    BY <1>1, <1>4 DEF BoundBy, NodeBound
  <2>2. b = e
    BY <1>2, <2>1 DEF Require
  <2>3. sub[b] = b
    BY <1>1, <1>4, <2>2, SubstitutedNodes DEF Evaluated
  <2>4. type[b] = infer_literal_type(e.value)
    BY <1>1, <1>4, <2>2, TypeNodes DEF Evaluated
  <2>5. IsType(infer_literal_type(e.value))
    BY <1>1, <1>4, LiteralType DEF IsTree
  <2> QED BY <2>1, <2>3, <2>4, <2>5 DEF TypesAgree, Refines
<1>5. CASE e.node = "parameter"
  <2>1. /\ b = Require(e.name \in DOMAIN values => portable[infer_literal_type(values[e.name])], e)
        /\ inspected[e] = e
    BY <1>1, <1>5 DEF BoundBy, NodeBound, Require
  <2>2. b = e
    BY <1>2, <2>1 DEF Require
  <2>3. sub[b] = Literal(values[e.name])
    BY <1>1, <1>5, <2>2, SubstitutedNodes DEF Evaluated
  <2>4. type[b] = UnknownType
    BY <1>1, <1>5, <2>2, TypeNodes DEF Evaluated
  <2>5. type[sub[b]] = infer_literal_type(values[e.name])
    BY <1>1, <2>3, TypeNodes DEF Evaluated, Literal
  <2>6. IsType(infer_literal_type(values[e.name]))
    BY <1>1, <1>5, LiteralType DEF IsTree
  <2>7. IsType(UnknownType)
    BY DEF IsType, Scalars, ScalarTypes, PlainTypes
  <2> QED BY <2>1, <2>2, <2>4, <2>5, <2>6, <2>7 DEF TypesAgree, Refines
<1> QED BY <1>3, <1>4, <1>5

LEMMA PairsAgree ==
  ASSUME NEW E, NEW depth, NEW schema, NEW values, NEW portable, NEW type, NEW typed, NEW sub, NEW refused,
         NEW inspected, NEW bound,
         BoundTwice(E, depth, schema, values, portable, type, typed, sub, refused, inspected, bound),
         NEW e \in E, e.node \in {"comparison", "arithmetic"},
         \A c \in Below(E, depth, e) : Agrees(c, type, sub, refused, inspected, bound)
  PROVE  Agrees(e, type, sub, refused, inspected, bound)
<1> DEFINE b == bound[e]
           l == bound[e.left]
           r == bound[e.right]
<1> SUFFICES ASSUME ~ refused[b]
    PROVE  inspected[e] = b /\ TypesAgree(type[sub[b]], type[b])
  BY DEF Agrees
<1>1. /\ b = BoundBy(e, schema, values, bound, typed, portable)
      /\ inspected[e] = BoundBy(e, schema, [p \in {} |-> Null], inspected, type, portable)
      /\ Evaluated(b, schema, values, type, sub, refused)
      /\ IsTree(e, E, depth, values)
      /\ typed[b] = type[sub[b]]
  BY DEF BoundTwice
<1>2. e.left \in Below(E, depth, e) /\ e.right \in Below(E, depth, e)
  BY <1>1 DEF IsTree
<1>3. typed[l] = type[sub[l]] /\ typed[r] = type[sub[r]]
  BY <1>2 DEF BoundTwice, Below
<1>4. b # Refused
  BY <1>1, PartsBound
<1>5. ASSUME b.node \in {"comparison", "arithmetic"}, b.left = l, b.right = r
      PROVE  /\ inspected[e.left] = l /\ inspected[e.right] = r
             /\ TypesAgree(typed[l], type[l]) /\ TypesAgree(typed[r], type[r])
  <2>1. ~ refused[l] /\ ~ refused[r]
    BY <1>1, <1>5, PartsBound
  <2> QED BY <1>2, <1>3, <2>1 DEF Agrees
<1>6. CASE e.node = "comparison"
  <2>1. /\ b = Require(is_comparable(typed[l], typed[r]), Comparison(e.op, l, r))
        /\ inspected[e] = Require(is_comparable(type[inspected[e.left]], type[inspected[e.right]]),
                                  Comparison(e.op, inspected[e.left], inspected[e.right]))
    BY <1>1, <1>6 DEF BoundBy, NodeBound
  <2>2. is_comparable(typed[l], typed[r]) /\ b = Comparison(e.op, l, r)
    BY <1>4, <2>1 DEF Require
  <2>3. /\ inspected[e.left] = l /\ inspected[e.right] = r
        /\ TypesAgree(typed[l], type[l]) /\ TypesAgree(typed[r], type[r])
    BY <1>5, <2>2 DEF Comparison
  <2>4. is_comparable(type[l], type[r])
    BY <2>2, <2>3, ComparableToo DEF TypesAgree
  <2>5. inspected[e] = b
    BY <2>1, <2>2, <2>3, <2>4 DEF Require
  <2>6. TypesAgree(type[sub[b]], type[b])
    BY <1>1, <2>2, PredicationTypes DEF Comparison, Predications
  <2> QED BY <2>5, <2>6
<1>7. CASE e.node = "arithmetic"
  <2> DEFINE kinds == {"integer", "float", "decimal"}
             a == Arithmetic(e.op, l, r)
             a0 == Arithmetic(e.op, inspected[e.left], inspected[e.right])
  <2>1. /\ b = Require(/\ IsOfKind(typed[l], kinds) /\ IsOfKind(typed[r], kinds)
                       /\ typed[a] # OutOfRange, a)
        /\ inspected[e] = Require(/\ IsOfKind(type[inspected[e.left]], kinds)
                                  /\ IsOfKind(type[inspected[e.right]], kinds)
                                  /\ type[a0] # OutOfRange, a0)
    BY <1>1, <1>7 DEF BoundBy, NodeBound, Arithmetic
  <2>2. /\ IsOfKind(typed[l], kinds) /\ IsOfKind(typed[r], kinds)
        /\ typed[b] # OutOfRange /\ b = a
    BY <1>4, <2>1 DEF Require
  <2>3. /\ inspected[e.left] = l /\ inspected[e.right] = r
        /\ TypesAgree(typed[l], type[l]) /\ TypesAgree(typed[r], type[r])
    BY <1>5, <2>2 DEF Arithmetic
  <2>4. e.op \in ArithmeticOperations
    BY <1>1, <1>7 DEF IsTree
  <2>5. type[b] = unify(type[l], type[r], e.op)
    BY <1>1, <2>2, TypeNodes DEF Evaluated, Arithmetic
  <2>6. sub[b] = Arithmetic(e.op, sub[l], sub[r])
    BY <1>1, <2>2, SubstitutedNodes DEF Evaluated, Arithmetic
  <2>7. typed[b] = unify(typed[l], typed[r], e.op)
    BY <1>1, <1>3, <2>6, TypeNodes DEF Evaluated, Arithmetic
  <2>8. TypesAgree(typed[b], type[b]) /\ type[b] # OutOfRange
    BY <2>2, <2>3, <2>4, <2>5, <2>7, ArithmeticTypes
  <2>9. IsOfKind(type[l], kinds) /\ IsOfKind(type[r], kinds)
    BY <2>2, <2>3, KindsWhenInspected DEF TypesAgree
  <2>10. inspected[e] = b
    BY <2>1, <2>2, <2>3, <2>8, <2>9 DEF Require
  <2> QED BY <1>1, <2>8, <2>10
<1> QED BY <1>6, <1>7

LEMMA ListsAgree ==
  ASSUME NEW E, NEW depth, NEW schema, NEW values, NEW portable, NEW type, NEW typed, NEW sub, NEW refused,
         NEW inspected, NEW bound,
         BoundTwice(E, depth, schema, values, portable, type, typed, sub, refused, inspected, bound),
         NEW e \in E, e.node \in {"and", "or"},
         \A c \in Below(E, depth, e) : Agrees(c, type, sub, refused, inspected, bound)
  PROVE  Agrees(e, type, sub, refused, inspected, bound)
<1> DEFINE b == bound[e]
           parts == [i \in DOMAIN e.operands |-> bound[e.operands[i]]]
           parts0 == [i \in DOMAIN e.operands |-> inspected[e.operands[i]]]
           Whole(s) == IF e.node = "and" THEN And(s) ELSE Or(s)
           AreBoolean(s, types) == \A o \in ToSet(s) : IsOfKind(types[o], {"boolean"})
<1> SUFFICES ASSUME ~ refused[b]
    PROVE  inspected[e] = b /\ TypesAgree(type[sub[b]], type[b])
  BY DEF Agrees
<1>1. /\ b = BoundBy(e, schema, values, bound, typed, portable)
      /\ inspected[e] = BoundBy(e, schema, [p \in {} |-> Null], inspected, type, portable)
      /\ Evaluated(b, schema, values, type, sub, refused)
      /\ IsTree(e, E, depth, values)
  BY DEF BoundTwice
<1>2. \A i \in DOMAIN e.operands : e.operands[i] \in Below(E, depth, e)
  BY <1>1, ElementOfSeq DEF IsTree
<1>3. /\ b = Require(AreBoolean(parts, typed), Whole(parts))
      /\ inspected[e] = Require(AreBoolean(parts0, type), Whole(parts0))
  <2>1. CASE e.node = "and"
    BY <1>1, <2>1 DEF BoundBy, NodeBound
  <2>2. CASE e.node = "or"
    BY <1>1, <2>2 DEF BoundBy, NodeBound
  <2> QED BY <2>1, <2>2
<1>4. b # Refused
  BY <1>1, PartsBound
<1>5. AreBoolean(parts, typed) /\ b = Whole(parts)
  BY <1>3, <1>4 DEF Require
<1>6. b.node \in {"and", "or"} /\ b.operands = parts
  BY <1>5 DEF And, Or
<1>7. ASSUME NEW i \in DOMAIN e.operands
      PROVE  parts0[i] = parts[i] /\ TypesAgree(typed[parts[i]], type[parts[i]])
  <2>1. ~ refused[parts[i]]
    BY <1>1, <1>6, PartsBound
  <2>2. typed[parts[i]] = type[sub[parts[i]]]
    BY <1>2 DEF BoundTwice, Below
  <2> QED BY <1>2, <2>1, <2>2 DEF Agrees
<1>8. parts0 = parts
  BY <1>7
<1>9. AreBoolean(parts, type)
  <2> SUFFICES ASSUME NEW i \in DOMAIN e.operands PROVE IsOfKind(type[parts[i]], {"boolean"})
    BY DEF ToSet
  <2>1. IsOfKind(typed[parts[i]], {"boolean"})
    BY <1>5 DEF ToSet
  <2>2. Refines(typed[parts[i]], type[parts[i]])
    BY <1>7 DEF TypesAgree
  <2> QED BY <2>1, <2>2, KindsWhenInspected
<1>10. inspected[e] = b
  BY <1>3, <1>5, <1>8, <1>9 DEF Require
<1>11. TypesAgree(type[sub[b]], type[b])
  BY <1>1, <1>6, PredicationTypes DEF Predications
<1> QED BY <1>10, <1>11

LEMMA SinglesAgree ==
  ASSUME NEW E, NEW depth, NEW schema, NEW values, NEW portable, NEW type, NEW typed, NEW sub, NEW refused,
         NEW inspected, NEW bound,
         BoundTwice(E, depth, schema, values, portable, type, typed, sub, refused, inspected, bound),
         NEW e \in E, e.node \in {"not", "is_null", "like"},
         \A c \in Below(E, depth, e) : Agrees(c, type, sub, refused, inspected, bound)
  PROVE  Agrees(e, type, sub, refused, inspected, bound)
<1> DEFINE b == bound[e]
           o == bound[e.operand]
           o0 == inspected[e.operand]
<1> SUFFICES ASSUME ~ refused[b]
    PROVE  inspected[e] = b /\ TypesAgree(type[sub[b]], type[b])
  BY DEF Agrees
<1>1. /\ b = BoundBy(e, schema, values, bound, typed, portable)
      /\ inspected[e] = BoundBy(e, schema, [p \in {} |-> Null], inspected, type, portable)
      /\ Evaluated(b, schema, values, type, sub, refused)
      /\ IsTree(e, E, depth, values)
  BY DEF BoundTwice
<1>2. e.operand \in Below(E, depth, e)
  BY <1>1 DEF IsTree
<1>3. b # Refused
  BY <1>1, PartsBound
<1>4. ASSUME NEW x \in Below(E, depth, e), ~ refused[bound[x]]
      PROVE  inspected[x] = bound[x] /\ Refines(typed[bound[x]], type[bound[x]])
  <2>1. typed[bound[x]] = type[sub[bound[x]]]
    BY DEF BoundTwice, Below
  <2> QED BY <1>4, <2>1 DEF Agrees, TypesAgree
<1>5. CASE e.node = "not"
  <2>1. /\ b = Require(IsOfKind(typed[o], {"boolean"}), Not(o))
        /\ inspected[e] = Require(IsOfKind(type[o0], {"boolean"}), Not(o0))
    BY <1>1, <1>5 DEF BoundBy, NodeBound
  <2>2. IsOfKind(typed[o], {"boolean"}) /\ b = Not(o)
    BY <1>3, <2>1 DEF Require
  <2>3. ~ refused[o]
    BY <1>1, <2>2, PartsBound DEF Not
  <2>4. o0 = o /\ Refines(typed[o], type[o])
    BY <1>2, <1>4, <2>3
  <2>5. IsOfKind(type[o], {"boolean"})
    BY <2>2, <2>4, KindsWhenInspected
  <2>6. TypesAgree(type[sub[b]], type[b])
    BY <1>1, <2>2, PredicationTypes DEF Not, Predications
  <2> QED BY <2>1, <2>2, <2>4, <2>5, <2>6 DEF Require
<1>6. CASE e.node = "is_null"
  <2>1. b = IsNull(o, e.negated) /\ inspected[e] = IsNull(o0, e.negated)
    BY <1>1, <1>6 DEF BoundBy, NodeBound
  <2>2. ~ refused[o]
    BY <1>1, <2>1, PartsBound DEF IsNull
  <2>3. o0 = o
    BY <1>2, <1>4, <2>2
  <2>4. TypesAgree(type[sub[b]], type[b])
    BY <1>1, <2>1, PredicationTypes DEF IsNull, Predications
  <2> QED BY <2>1, <2>3, <2>4
<1>7. CASE e.node = "like"
  <2> DEFINE p == bound[e.pattern]
             p0 == inspected[e.pattern]
  <2>1. /\ b = Require(IsOfKind(typed[o], {"string"}) /\ IsOfKind(typed[p], {"string"}), Like(o, p, e.negated))
        /\ inspected[e] = Require(IsOfKind(type[o0], {"string"}) /\ IsOfKind(type[p0], {"string"}),
                                  Like(o0, p0, e.negated))
    BY <1>1, <1>7 DEF BoundBy, NodeBound
  <2>2. IsOfKind(typed[o], {"string"}) /\ IsOfKind(typed[p], {"string"}) /\ b = Like(o, p, e.negated)
    BY <1>3, <2>1 DEF Require
  <2>3. ~ refused[o] /\ ~ refused[p]
    BY <1>1, <2>2, PartsBound DEF Like
  <2>4. e.pattern \in Below(E, depth, e)
    BY <1>1, <1>7 DEF IsTree
  <2>5. o0 = o /\ p0 = p /\ Refines(typed[o], type[o]) /\ Refines(typed[p], type[p])
    BY <1>2, <1>4, <2>3, <2>4
  <2>6. IsOfKind(type[o], {"string"}) /\ IsOfKind(type[p], {"string"})
    BY <2>2, <2>5, KindsWhenInspected
  <2>7. TypesAgree(type[sub[b]], type[b])
    BY <1>1, <2>2, PredicationTypes DEF Like, Predications
  <2> QED BY <2>1, <2>2, <2>5, <2>6, <2>7 DEF Require
<1> QED BY <1>5, <1>6, <1>7

LEMMA MembershipsAgree ==
  ASSUME NEW E, NEW depth, NEW schema, NEW values, NEW portable, NEW type, NEW typed, NEW sub, NEW refused,
         NEW inspected, NEW bound,
         BoundTwice(E, depth, schema, values, portable, type, typed, sub, refused, inspected, bound),
         NEW e \in E, e.node = "in",
         \A c \in Below(E, depth, e) : Agrees(c, type, sub, refused, inspected, bound)
  PROVE  Agrees(e, type, sub, refused, inspected, bound)
<1> DEFINE b == bound[e]
           o == bound[e.operand]
           o0 == inspected[e.operand]
           parts == [i \in DOMAIN e.values |-> bound[e.values[i]]]
           parts0 == [i \in DOMAIN e.values |-> inspected[e.values[i]]]
           Parts == {bound[c] : c \in E}
           AllComparable(x, s, types) == \A v \in ToSet(s) : is_comparable(types[x], types[v])
<1> SUFFICES ASSUME ~ refused[b]
    PROVE  inspected[e] = b /\ TypesAgree(type[sub[b]], type[b])
  BY DEF Agrees
<1>1. /\ b = BoundBy(e, schema, values, bound, typed, portable)
      /\ inspected[e] = BoundBy(e, schema, [p \in {} |-> Null], inspected, type, portable)
      /\ Evaluated(b, schema, values, type, sub, refused)
      /\ IsTree(e, E, depth, values)
  BY DEF BoundTwice
<1>2. e.operand \in Below(E, depth, e) /\ e.values \in Seq(Below(E, depth, e))
  BY <1>1 DEF IsTree
<1>3. \A i \in DOMAIN e.values : e.values[i] \in Below(E, depth, e)
  BY <1>2, ElementOfSeq
<1>4. /\ b = Require(AllComparable(o, parts, typed), In(o, parts, e.negated))
      /\ inspected[e] = Require(AllComparable(o0, parts0, type), In(o0, parts0, e.negated))
  BY <1>1 DEF BoundBy, NodeBound
<1>5. b # Refused
  BY <1>1, PartsBound
<1>6. AllComparable(o, parts, typed) /\ b = In(o, parts, e.negated)
  BY <1>4, <1>5 DEF Require
<1>7. b.node = "in" /\ b.operand = o /\ b.values = parts
  BY <1>6 DEF In
<1>8. parts \in Seq(Parts)
  <2>1. DOMAIN e.values = 1 .. Len(e.values) /\ Len(e.values) \in Nat
    BY <1>2
  <2>2. \A i \in 1 .. Len(e.values) : bound[e.values[i]] \in Parts
    BY <1>3, <2>1 DEF Below
  <2> QED BY <2>1, <2>2
<1>9. ~ refused[o] /\ \A i \in DOMAIN parts : ~ refused[parts[i]]
  BY <1>1, <1>7, <1>8, PartsBound
<1>10. ASSUME NEW x \in Below(E, depth, e), ~ refused[bound[x]]
       PROVE  inspected[x] = bound[x] /\ Refines(typed[bound[x]], type[bound[x]])
  <2>1. typed[bound[x]] = type[sub[bound[x]]]
    BY DEF BoundTwice, Below
  <2> QED BY <1>10, <2>1 DEF Agrees, TypesAgree
<1>11. o0 = o /\ Refines(typed[o], type[o])
  BY <1>2, <1>9, <1>10
<1>12. \A i \in DOMAIN e.values : parts0[i] = parts[i] /\ Refines(typed[parts[i]], type[parts[i]])
  BY <1>3, <1>9, <1>10
<1>13. parts0 = parts
  BY <1>12
<1>14. AllComparable(o, parts, type)
  <2> SUFFICES ASSUME NEW i \in DOMAIN e.values PROVE is_comparable(type[o], type[parts[i]])
    BY DEF ToSet
  <2>1. is_comparable(typed[o], typed[parts[i]])
    BY <1>6 DEF ToSet
  <2> QED BY <1>11, <1>12, <2>1, ComparableToo
<1>15. inspected[e] = b
  BY <1>4, <1>6, <1>11, <1>13, <1>14 DEF Require
<1>16. TypesAgree(type[sub[b]], type[b])
  BY <1>1, <1>7, PredicationTypes DEF Predications
<1> QED BY <1>15, <1>16

LEMMA OthersRefused ==
  ASSUME NEW E, NEW depth, NEW schema, NEW values, NEW portable, NEW type, NEW typed, NEW sub, NEW refused,
         NEW inspected, NEW bound,
         BoundTwice(E, depth, schema, values, portable, type, typed, sub, refused, inspected, bound),
         NEW e \in E, e.node \notin {"column", "literal", "parameter", "arithmetic"} \cup Predications
  PROVE  Agrees(e, type, sub, refused, inspected, bound)
<1>1. bound[e] = BoundBy(e, schema, values, bound, typed, portable)
  BY DEF BoundTwice
<1>2. bound[e] = Refused
  BY <1>1 DEF BoundBy, NodeBound, Predications
<1>3. Evaluated(bound[e], schema, values, type, sub, refused)
  BY DEF BoundTwice
<1> QED BY <1>2, <1>3, PartsBound DEF Agrees

(* Of whatever expression, schema and values for parameters: what explain  *)
(* and schema() bind without the values is what execute() binds with them, *)
(* unless execute() refuses it, and it then has the type that was told,    *)
(* where one was.                                                          *)
THEOREM InspectedAsBound ==
  ASSUME NEW E, NEW depth, NEW schema, NEW values, NEW portable, NEW type, NEW typed, NEW sub, NEW refused,
         NEW inspected, NEW bound,
         BoundTwice(E, depth, schema, values, portable, type, typed, sub, refused, inspected, bound)
  PROVE  \A e \in E : ~ refused[bound[e]] =>
           inspected[e] = bound[e] /\ Refines(type[sub[bound[e]]], type[bound[e]])
<1> DEFINE S == {e \in E : Agrees(e, type, sub, refused, inspected, bound)}
<1>1. depth \in [E -> Nat]
  BY DEF BoundTwice
<1>2. ASSUME NEW e \in E, \A c \in E : depth[c] < depth[e] => c \in S
      PROVE  e \in S
  <2>1. \A c \in Below(E, depth, e) : Agrees(c, type, sub, refused, inspected, bound)
    BY <1>2 DEF Below
  <2>2. CASE e.node \in {"column", "literal", "parameter"}
    BY <2>2, LeavesAgree
  <2>3. CASE e.node \in {"comparison", "arithmetic"}
    BY <2>1, <2>3, PairsAgree
  <2>4. CASE e.node \in {"and", "or"}
    BY <2>1, <2>4, ListsAgree
  <2>5. CASE e.node \in {"not", "is_null", "like"}
    BY <2>1, <2>5, SinglesAgree
  <2>6. CASE e.node = "in"
    BY <2>1, <2>6, MembershipsAgree
  <2>7. CASE e.node \notin {"column", "literal", "parameter", "arithmetic"} \cup Predications
    BY <2>7, OthersRefused
  <2> QED BY <2>2, <2>3, <2>4, <2>5, <2>6, <2>7 DEF Predications
<1>3. E \subseteq S
  <2> HIDE DEF S
  <2> QED BY <1>1, <1>2, TreeInduction
<1> QED BY <1>3 DEF Agrees, TypesAgree

=============================================================================
