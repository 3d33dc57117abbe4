---------------------------- MODULE PredicateNodes ----------------------------
(***************************************************************************)
(* Portable predicate trees (domain/expressions.py) and what each of their *)
(* nodes means, given what its children mean.  A value has a kind and a    *)
(* rank in the order of its kind; the kinds of numbers share one order.  A *)
(* LIKE pattern is the set of ranks it matches.                            *)
(***************************************************************************)
EXTENDS Integers, SequencesExt

CONSTANTS
  Unit,  \* the rank of the number one
  Int64  \* the rank of the greatest integer of 64 bits

Null == [kind |-> "null", rank |-> 0]
Integer(n) == [kind |-> "integer", rank |-> n]
Float(n) == [kind |-> "float", rank |-> n]
Boolean(condition) == [kind |-> "boolean", rank |-> IF condition THEN 1 ELSE 0]
Text(n) == [kind |-> "string", rank |-> n]
Pattern(ranks) == [kind |-> "string", matches |-> ranks]

IsNumber(value) == value.kind \in {"integer", "float", "decimal"}

(* Values of one class are ordered among themselves.                       *)
SameClass(x, y) == x.kind = y.kind \/ (IsNumber(x) /\ IsNumber(y))

Column(name) == [node |-> "column", name |-> name]
Literal(value) == [node |-> "literal", value |-> value]
Parameter(name) == [node |-> "parameter", name |-> name]
Comparison(op, left, right) ==
  [node |-> "comparison", op |-> op, left |-> left, right |-> right]
And(operands) == [node |-> "and", operands |-> operands]
Or(operands) == [node |-> "or", operands |-> operands]
Not(operand) == [node |-> "not", operand |-> operand]
IsNull(operand, negated) == [node |-> "is_null", operand |-> operand, negated |-> negated]
In(operand, values, negated) ==
  [node |-> "in", operand |-> operand, values |-> values, negated |-> negated]
Like(operand, pattern, negated) ==
  [node |-> "like", operand |-> operand, pattern |-> pattern, negated |-> negated]
Arithmetic(op, left, right) ==
  [node |-> "arithmetic", op |-> op, left |-> left, right |-> right]
Alias(expression, name) == [node |-> "alias", expression |-> expression, name |-> name]

(* pushed.predicate is None.                                               *)
NoPredicate == [node |-> "none"]

ComparisonOps == {"=", "<>", "<", "<=", ">", ">="}

children(e) ==
  CASE e.node \in {"comparison", "arithmetic"} -> <<e.left, e.right>>
    [] e.node \in {"and", "or"} -> e.operands
    [] e.node \in {"not", "is_null"} -> <<e.operand>>
    [] e.node = "in" -> <<e.operand>> \o e.values
    [] e.node = "like" -> <<e.operand, e.pattern>>
    [] e.node = "alias" -> <<e.expression>>
    [] OTHER -> <<>>

-----------------------------------------------------------------------------
(* Truth values, in the order in which AND is the least and OR the         *)
(* greatest of its operands.                                               *)
False == 0
Unknown == 1
True == 2

Truth(condition) == IF condition THEN True ELSE False
Negated(negated, truth) == IF negated THEN True - truth ELSE truth
AllOf(truths) == Min({True} \cup truths)
AnyOf(truths) == Max({False} \cup truths)

Compare(op, x, y) ==
  CASE op = "=" -> x = y
    [] op = "<>" -> x # y
    [] op = "<" -> x < y
    [] op = "<=" -> x <= y
    [] op = ">" -> x > y
    [] op = ">=" -> x >= y

Compared(op, x, y) ==
  IF Null \in {x, y} THEN Unknown ELSE Truth(Compare(op, x.rank, y.rank))

Quotient(x, y) == IF y < 0 THEN (- x * Unit) \div (- y) ELSE (x * Unit) \div y

(* Arithmetic of the portable profile: it is exact; an integer that does   *)
(* not fit 64 bits, and a quotient by zero, are NULL.                      *)
Calculate(op, x, y) ==
  LET kind == CASE op = "/" \/ "float" \in {x.kind, y.kind} -> "float"
                [] OTHER -> IF x.kind = y.kind THEN x.kind ELSE "decimal"
      rank == CASE op = "+" -> x.rank + y.rank
                [] op = "-" -> x.rank - y.rank
                [] op = "*" -> (x.rank * y.rank) \div Unit
                [] op = "/" -> Quotient(x.rank, y.rank)
  IN IF Null \in {x, y} \/ (op = "/" /\ y.rank = 0) THEN Null
     ELSE IF kind = "integer" /\ rank \notin - Int64 - Unit .. Int64 THEN Null
     ELSE [kind |-> kind, rank |-> rank]

(* A truth as a value, and a value as a truth.                             *)
AsValue(truth) == IF truth = Unknown THEN Null ELSE Boolean(truth = True)

AsTruth(value) == IF value = Null THEN Unknown ELSE Truth(value = Boolean(TRUE))

-----------------------------------------------------------------------------
(* A node of what substitute_parameters returns.                           *)
NodeSubstituted(e, values, Sub(_, _)) ==
  LET Each(s) == [i \in DOMAIN s |-> Sub(s[i], values)]
  IN CASE e.node = "parameter" -> Literal(values[e.name])
       [] e.node = "comparison" -> Comparison(e.op, Sub(e.left, values), Sub(e.right, values))
       [] e.node = "arithmetic" -> Arithmetic(e.op, Sub(e.left, values), Sub(e.right, values))
       [] e.node = "and" -> And(Each(e.operands))
       [] e.node = "or" -> Or(Each(e.operands))
       [] e.node = "not" -> Not(Sub(e.operand, values))
       [] e.node = "is_null" -> IsNull(Sub(e.operand, values), e.negated)
       [] e.node = "in" -> In(Sub(e.operand, values), Each(e.values), e.negated)
       [] e.node = "like" -> Like(Sub(e.operand, values), Sub(e.pattern, values), e.negated)
       [] e.node = "alias" -> Alias(Sub(e.expression, values), e.name)
       [] OTHER -> e

(* What the SQL text of a node says of a row (SqlGenerator.expression):    *)
(* its value, and its truth.                                               *)
NodeValue(e, row, Value(_, _), Meaning(_, _)) ==
  CASE e.node = "column" -> row[e.name]
    [] e.node = "literal" -> e.value
    [] e.node = "arithmetic" -> Calculate(e.op, Value(e.left, row), Value(e.right, row))
    [] OTHER -> AsValue(Meaning(e, row))

NodeMeaning(e, row, Value(_, _), Meaning(_, _)) ==
  CASE e.node = "none" -> True
    [] e.node = "comparison" -> Compared(e.op, Value(e.left, row), Value(e.right, row))
    [] e.node = "and" -> AllOf({Meaning(o, row) : o \in ToSet(e.operands)})
    [] e.node = "or" -> AnyOf({Meaning(o, row) : o \in ToSet(e.operands)})
    [] e.node = "not" -> Negated(TRUE, Meaning(e.operand, row))
    [] e.node = "is_null" -> Truth((Value(e.operand, row) = Null) # e.negated)
    [] e.node = "in" ->
         Negated(e.negated,
                 AnyOf({Compared("=", Value(e.operand, row), Value(v, row)) : v \in ToSet(e.values)}))
    [] e.node = "like" ->
         LET operand == Value(e.operand, row)
             pattern == Value(e.pattern, row)
         IN IF Null \in {operand, pattern} THEN Unknown
            ELSE Negated(e.negated, Truth(operand.rank \in pattern.matches))
    [] OTHER -> AsTruth(Value(e, row))

=============================================================================
