----------------------------- MODULE SqlFrontend -----------------------------
(***************************************************************************)
(* The SQL frontend (adapters/sql/frontend.py): a parsed SELECT statement  *)
(* becomes a plan.  The parser is sqlglot's: the trees it makes of a text  *)
(* are the inputs here, and SqlTruth and SqlValue say what SQL means by    *)
(* them.  An SqlFrontendError is a Refused node (see Binding).             *)
(***************************************************************************)
EXTENDS Binding

(* sqlglot's expression nodes.                                             *)
Paren(this) == [sql |-> "paren", this |-> this]
SqlColumn(name, table) == [sql |-> "column", name |-> name, table |-> table]
Star(table, modified) == [sql |-> "star", table |-> table, modified |-> modified]
Constant(value) == [sql |-> "constant", value |-> value]
Placeholder(name) == [sql |-> "placeholder", name |-> name]
Neg(this) == [sql |-> "neg", this |-> this]
Binary(op, this, expression) ==
  [sql |-> "binary", op |-> op, this |-> this, expression |-> expression]
SqlNot(this) == [sql |-> "not", this |-> this]
Is(this, expression) == [sql |-> "is", this |-> this, expression |-> expression]
SqlIn(this, expressions) == [sql |-> "in", this |-> this, expressions |-> expressions]
SqlLike(this, expression, escape) ==
  [sql |-> "like", this |-> this, expression |-> expression, escape |-> escape]
Between(this, low, high) == [sql |-> "between", this |-> this, low |-> low, high |-> high]
Cast(text, to) == [sql |-> "cast", text |-> text, to |-> to]
Named(this, alias) == [sql |-> "alias", this |-> this, alias |-> alias]
OtherNode == [sql |-> "other"]

NoName == ""

(* A statement: the clauses that are refused wherever they stand (joins,   *)
(* subqueries, GROUP BY ...), the table of FROM, and the three allowed.    *)
Select(others, from, expressions, where, limit) ==
  [others |-> others, from |-> from, expressions |-> expressions, where |-> where, limit |-> limit]

From(table, alias) == [table |-> table, alias |-> alias]
NoFrom == From(NoName, NoName)
NoWhere == [sql |-> "none"]

ArithmeticOps == {"+", "-", "*", "/"}

-----------------------------------------------------------------------------
Qualifiers(statement) == {NoName, statement.from.table, statement.from.alias}

(* _column, _check_qualifier                                               *)
TranslateColumn(node, qualifiers) ==
  IF node.table \in qualifiers THEN Column(node.name) ELSE Refused

(* Literal.of, under the checks of a literal's value.                      *)
LiteralOf(value) == IF IsLiteralValue(value) THEN Literal(value) ELSE Refused

(* A text that says a date says a moment as well, the start of the day.    *)
SaysMoment(text) == text.kind \in {"date", "timestamp"}
MomentOf(text) ==
  IF text.kind = "timestamp" THEN text
  ELSE [kind |-> "timestamp", rank |-> text.rank, timezone |-> "none"]

(* _typed_literal: DATE, TIMESTAMP and TIMESTAMP WITH TIME ZONE of a text  *)
(* that says such a value; an aware value is no TIMESTAMP, and one without *)
(* a zone is in UTC.                                                       *)
TypedLiteral(text, to) ==
  CASE to = "date" /\ text.kind = "date" -> Literal(text)
    [] to = "timestamp" /\ SaysMoment(text) ->
         IF MomentOf(text).timezone = "none" THEN Literal(MomentOf(text)) ELSE Refused
    [] to = "timestamptz" /\ SaysMoment(text) -> Literal([MomentOf(text) EXCEPT !.timezone = "UTC"])
    [] OTHER -> Refused

RECURSIVE Unparenthesised(_)
Unparenthesised(node) == IF node.sql = "paren" THEN Unparenthesised(node.this) ELSE node

IsBinary(node, op) == node.sql = "binary" /\ node.op = op

(* Mutant of Operands: AND and OR are flattened into each other.           *)
RECURSIVE OperandsOfBoth(_, _)
OperandsOfBoth(node, op) ==
  LET Part(child) == IF \E o \in {"and", "or"} : IsBinary(Unparenthesised(child), o)
                     THEN OperandsOfBoth(Unparenthesised(child), op) ELSE <<child>>
  IN Part(node.this) \o Part(node.expression)

(* _flatten: the operands of a chain of one connective.                    *)
RECURSIVE Operands(_, _)
Operands(node, op) ==
  LET Part(child) == IF IsBinary(Unparenthesised(child), op)
                     THEN Operands(Unparenthesised(child), op) ELSE <<child>>
  IN Part(node.this) \o Part(node.expression)

IsPlain(e) == e.node \in {"literal", "parameter"}

(* A minus sign: part of a number, or a number negated, or zero minus what *)
(* follows.                                                                *)
Minus(value) == LiteralOf([value EXCEPT !.rank = - @])

Negative(node, inner) ==
  CASE node.sql = "constant" /\ IsNumber(node.value) -> Minus(node.value)
    [] node.sql # "constant" /\ inner.node = "literal" /\ IsNumber(inner.value) -> Minus(inner.value)
    [] OTHER -> Arithmetic("-", Literal(Integer(0)), inner)

RECURSIVE TranslateExpression(_, _)
TranslateExpression(node, qualifiers) ==
  LET T(x) == TranslateExpression(x, qualifiers)
      TIn(x, negated) ==
        LET values == [i \in DOMAIN x.expressions |-> T(x.expressions[i])]
        IN Require(values # <<>> /\ \A v \in ToSet(values) : IsPlain(v), In(T(x.this), values, negated))
      TLike(x, negated) ==
        Require(IsPlain(T(x.expression)) /\ ~ x.escape, Like(T(x.this), T(x.expression), negated))
      TIs(x, negated) == Require(x.expression = Constant(Null), IsNull(T(x.this), negated))
      TNot(x) == CASE x.sql = "is" /\ x.expression = Constant(Null) -> TIs(x, TRUE)
                   [] x.sql = "in" -> TIn(x, TRUE)
                   [] x.sql = "like" -> TLike(x, TRUE)
                   [] OTHER -> Not(T(x))
      Parts(op) == [i \in DOMAIN Operands(node, op) |-> T(Operands(node, op)[i])]
  IN CASE node.sql = "paren" -> T(node.this)
       [] node.sql = "column" -> TranslateColumn(node, qualifiers)
       [] node.sql = "constant" -> LiteralOf(node.value)
       [] node.sql = "placeholder" -> Require(node.name # NoName, Parameter(node.name))
       [] node.sql = "neg" -> Negative(node.this, T(node.this))
       [] node.sql = "binary" ->
            (CASE node.op = "and" -> And(Parts("and"))
               [] node.op = "or" -> Or(Parts("or"))
               [] node.op \in ComparisonOps -> Comparison(node.op, T(node.this), T(node.expression))
               [] node.op \in ArithmeticOps -> Arithmetic(node.op, T(node.this), T(node.expression)))
       [] node.sql = "not" -> TNot(Unparenthesised(node.this))
       [] node.sql = "is" -> TIs(node, FALSE)
       [] node.sql = "in" -> TIn(node, FALSE)
       [] node.sql = "like" -> TLike(node, FALSE)
       [] node.sql = "between" ->
            And(<<Comparison(">=", T(node.this), T(node.low)),
                  Comparison("<=", T(node.this), T(node.high))>>)
       [] node.sql = "cast" -> TypedLiteral(node.text, node.to)
       [] OTHER -> Refused

-----------------------------------------------------------------------------
(* _projection.  An expression without a name is named by its place.       *)

ColumnNames == <<"_col1", "_col2", "_col3">>

ProjectedName(item, i) == IF item.sql = "alias" THEN item.alias ELSE ColumnNames[i]

TranslateItem(item, i, qualifiers) ==
  CASE item.sql = "column" -> TranslateColumn(item, qualifiers)
    [] item.sql = "alias" -> Alias(TranslateExpression(item.this, qualifiers), item.alias)
    [] item.sql = "star" -> Refused
    [] OTHER -> Alias(TranslateExpression(item, qualifiers), ColumnNames[i])

(* EXCEPT, REPLACE and RENAME behind a star are not looked at.             *)
IsStar(items) == Len(items) = 1 /\ items[1].sql = "star"

(* _limit: a number, whole and not negative.                               *)
TranslateLimit(limit) ==
  IF limit.kind = "integer" /\ limit.rank >= 0 THEN limit.rank \div Unit ELSE NoCount

RefusedPlan == Plan(Refused, NoProjection, NoCount)

(* A plan is refused that Project does not accept: two outputs of a name.  *)
AcceptsProjection(projection) ==
  /\ ~ \E e \in ToSet(projection) : IsRefused(e)
  /\ DistinctNames(projection)

translate(statement) ==
  LET qualifiers == Qualifiers(statement)
      items == statement.expressions
      predicate == IF statement.where = NoWhere THEN NoPredicate
                   ELSE and_all(conjuncts(TranslateExpression(statement.where, qualifiers)))
      projection == IF IsStar(items) THEN NoProjection
                    ELSE [i \in DOMAIN items |-> TranslateItem(items[i], i, qualifiers)]
      count == IF statement.limit = Null THEN NoCount ELSE TranslateLimit(statement.limit)
  IN IF \/ statement.others # {} \/ statement.from = NoFrom
        \/ IsStar(items) /\ items[1].table \notin qualifiers
        \/ IsRefused(predicate) \/ ~ AcceptsProjection(projection)
        \/ statement.limit # Null /\ count = NoCount
     THEN RefusedPlan
     ELSE Plan(predicate, projection, count)

-----------------------------------------------------------------------------
(* What SQL means by an expression on a row, of which every column is      *)
(* found by its name.                                                      *)
RECURSIVE SqlValue(_, _, _, _), SqlTruth(_, _, _, _)
SqlValue(node, row, schema, parameters) ==
  LET V(x) == SqlValue(x, row, schema, parameters)
  IN CASE node.sql = "paren" -> V(node.this)
       [] node.sql = "column" -> row[resolve(schema, node.name).name]
       [] node.sql = "constant" -> node.value
       [] node.sql = "placeholder" -> parameters[node.name]
       [] node.sql = "neg" -> Calculate("-", Integer(0), V(node.this))
       [] node.sql = "cast" ->
            (CASE node.to = "date" -> node.text
               [] node.to = "timestamp" -> MomentOf(node.text)
               [] node.to = "timestamptz" -> [MomentOf(node.text) EXCEPT !.timezone = "UTC"])
       [] node.sql = "binary" /\ node.op \in ArithmeticOps ->
            Calculate(node.op, V(node.this), V(node.expression))
       [] OTHER -> LET truth == SqlTruth(node, row, schema, parameters)
                   IN IF truth = Unknown THEN Null ELSE Boolean(truth = True)

SqlTruth(node, row, schema, parameters) ==
  LET V(x) == SqlValue(x, row, schema, parameters)
      Truths(x, y) == {SqlTruth(x, row, schema, parameters), SqlTruth(y, row, schema, parameters)}
  IN CASE node.sql = "none" -> True
       [] node.sql = "binary" /\ node.op = "and" -> AllOf(Truths(node.this, node.expression))
       [] node.sql = "binary" /\ node.op = "or" -> AnyOf(Truths(node.this, node.expression))
       [] node.sql = "binary" /\ node.op \in ComparisonOps ->
            Compared(node.op, V(node.this), V(node.expression))
       [] node.sql = "not" -> True - SqlTruth(node.this, row, schema, parameters)
       [] node.sql = "is" -> Truth(V(node.this) = Null)
       [] node.sql = "in" -> AnyOf({Compared("=", V(node.this), V(x)) : x \in ToSet(node.expressions)})
       [] node.sql = "like" ->
            LET x == V(node.this)
                pattern == V(node.expression)
            IN IF Null \in {x, pattern} THEN Unknown ELSE Truth(x.rank \in pattern.matches)
       [] node.sql = "between" ->
            AllOf({Compared(">=", V(node.this), V(node.low)), Compared("<=", V(node.this), V(node.high))})
       [] OTHER -> LET value == V(node)
                   IN IF value = Null THEN Unknown ELSE Truth(value = Boolean(TRUE))

=============================================================================
