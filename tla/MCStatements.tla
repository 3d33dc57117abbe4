---------------------------- MODULE MCStatements ----------------------------
(***************************************************************************)
(* Small schemas, and the statements, plans and parameter values asked of  *)
(* them.  Numbers have up to two digits behind the point.                  *)
(***************************************************************************)
EXTENDS PreparedQuery

Str(n) == [kind |-> "string", rank |-> n, matches |-> {n}]
Wildcard == [kind |-> "string", rank |-> 9, matches |-> {1, 2}]
Whole(n) == Integer(n * Unit)
Tenths(n) == DecimalNumber(n, IF n > 9 THEN 2 ELSE 1, -1)
Moment(n, zone) == [kind |-> "timestamp", rank |-> n, timezone |-> zone]

-----------------------------------------------------------------------------
(* Schemas that name the first column in one case, the other, or both.     *)

Rest == <<Field("d", DecimalType(2, 1)), Field("f", FloatType(64)), Field("s", StringType),
          Field("b", BooleanType), Field("t", TimestampType("Paris"))>>

SmallSchemas ==
  {<<Field("id", IntegerType(64))>> \o Rest,
   <<Field("ID", IntegerType(64))>> \o Rest,
   <<Field("ID", StringType), Field("id", IntegerType(64))>> \o Rest,
   <<Field("id", IntegerType(64)), Field("d", DecimalType(MaxPrecision, 1)), Field("s", UnknownType)>>}

Least == Integer(- Int64 - Unit)

(* Values of each column that meet its bounds.                             *)
Tuples ==
  {<<id, b, Number("decimal", (99 * Unit) \div 10), Number("float", Unit \div 2), Str(1)>> :
     id \in {Whole(1), Integer(Int64), Least, Null}, b \in {Boolean(TRUE), Boolean(FALSE), Null}}
  \cup {<<Whole(2), Null, d, f, s>> :
          d \in {Number("decimal", - ((99 * Unit) \div 10)), Number("decimal", Unit \div 2), Null},
          f \in {Number("float", 0), Null}, s \in {Str(2), Null}}

RowOf(schema, tuple) ==
  LET Cell(field) ==
        CASE field.type.kind = "integer" -> tuple[1]
          [] field.name = "b" -> tuple[2]
          [] field.name = "d" -> tuple[3]
          [] field.name = "f" -> tuple[4]
          [] field.name = "t" -> Moment(1, "UTC")
          [] OTHER -> tuple[5]
  IN [name \in {f.name : f \in ToSet(schema)} |->
        Cell(CHOOSE f \in ToSet(schema) : f.name = name)]

RowsOf(schema) == {RowOf(schema, tuple) : tuple \in Tuples}

-----------------------------------------------------------------------------
Id == SqlColumn("id", NoName)
D == SqlColumn("d", NoName)
F == SqlColumn("f", NoName)
S == SqlColumn("s", NoName)
B == SqlColumn("b", NoName)
P == Placeholder("p")
One == Constant(Whole(1))
All == Star(NoName, FALSE)
Day == [kind |-> "date", rank |-> 1]

Tests ==
  { Binary("=", Id, One), Binary("<", P, Id), Binary(">=", Id, Neg(Constant(Whole(51)))), B,
    SqlIn(Id, <<One, Constant(Null)>>), SqlIn(Id, <<One, P>>), SqlIn(Id, <<Id>>), SqlIn(S, <<P, Constant(Str(2))>>),
    SqlLike(S, Constant(Wildcard), FALSE), SqlLike(S, P, FALSE), SqlLike(S, P, TRUE), SqlLike(Id, P, FALSE),
    Is(Id, Constant(Null)), Is(B, Constant(Boolean(TRUE))), Between(Id, Neg(One), P),
    Binary("<>", D, Constant(Tenths(5))), Binary("=", Paren(Binary("=", Id, One)), B),
    Binary("=", SqlColumn("t", NoName), Cast(Moment(1, "none"), "timestamptz")),
    Binary("=", SqlColumn("t", NoName), Cast(Moment(1, "UTC"), "timestamp")),
    Binary("=", SqlColumn("t", NoName), Cast(Day, "timestamptz")), Binary("<", Cast(Day, "timestamp"), P),
    Binary(">", Binary("+", Id, One), P), Binary("<", Neg(Paren(D)), F), Binary("=", Id, Constant(Str(1))),
    Binary("=", SqlColumn("Id", NoName), One), Binary("=", Id, OtherNode), Id, P, Constant(Null) }

(* Trees of them with the connectives, and the parentheses sqlglot keeps.  *)
Conditions ==
  LET y == Is(D, Constant(Null))
      z == Binary("=", B, Constant(Boolean(TRUE)))
  IN UNION {{x, SqlNot(x), SqlNot(Paren(Paren(x))), SqlNot(Paren(SqlNot(x))),
             Binary("and", x, Paren(Binary("or", y, z))), Binary("or", Binary("and", x, y), z),
             Binary("and", Paren(Binary("and", z, x)), y), SqlNot(Paren(Binary("or", x, SqlNot(z))))} :
             x \in Tests}

Calculations ==
  UNION {{Binary(op, Id, One), Binary(op, Id, Id), Binary(op, D, D), Binary(op, D, Id), Binary(op, F, D),
          Binary(op, Constant(Tenths(15)), D), Binary(op, D, P), Binary(op, Id, S),
          Binary(op, Paren(Binary(op, D, Id)), One)} : op \in ArithmeticOps}
  \cup {Neg(Id), Neg(D), Neg(S), Neg(Constant(Tenths(15))), Neg(Paren(One)), P,
        Binary("+", Paren(Binary("*", D, D)), Id), Binary("-", Neg(D), D), Binary("*", Neg(F), Id)}

Lists ==
  {<<Named(c, "x")>> : c \in Calculations}
  \cup {<<Id, c>> : c \in {Neg(Id), Constant(Null), Binary("=", Id, P), Binary("/", D, F)}}
  \cup {<<All>>, <<Star(NoName, TRUE)>>, <<Star("a", FALSE)>>, <<Star("b", FALSE)>>, <<All, Id>>, <<SqlColumn("id", "a")>>,
        <<SqlColumn("id", "b")>>, <<Id, SqlColumn("ID", NoName)>>, <<Id, Named(S, "ID")>>, <<Id, Id>>}

Limits == {Null, Whole(0), Whole(2), Number("decimal", Unit), Number("integer", - Unit)}

FromA == From("orders", "a")

Statements ==
  {Select({}, FromA, <<Id>>, where, Null) : where \in Conditions}
  \cup {Select({}, FromA, list, NoWhere, Null) : list \in Lists}
  \cup {Select({}, FromA, <<All>>, Binary("=", Id, P), limit) : limit \in Limits}
  \cup {Select({others}, FromA, <<Id>>, NoWhere, Null) : others \in {"joins", "group"}}
  \cup {Select({}, NoFrom, <<Id>>, NoWhere, Null)}

(* Plans only a caller can build.                                          *)
Plans ==
  LET id == Column("id")
      alias == Alias(id, "x")
  IN {Plan(alias, NoProjection, NoCount), Plan(Not(alias), NoProjection, 1),
      Plan(NoPredicate, <<Alias(Arithmetic("+", id, Literal(DecimalNumber(0, 1, - MaxPrecision))), "x")>>, NoCount),
      Plan(And(<<And(<<IsNull(id, TRUE), Parameter("p")>>), IsNull(id, TRUE)>>), <<id>>, 1)}

Supplied ==
  {NoParameters, [p |-> Whole(1), q |-> Null]}
  \cup {[p |-> value] : value \in {Whole(1), Null, Str(1), Boolean(TRUE), Tenths(15), Number("float", Unit),
                                   DecimalNumber(0, 1, -7), Number("object", 0)}}

-----------------------------------------------------------------------------
Init ==
  \E schema \in SmallSchemas, supplied \in Supplied :
    \/ \E statement \in Statements : query = Asked(statement, schema, RowsOf(schema), supplied)
    \/ \E plan \in Plans : query = Built(plan, schema, RowsOf(schema), supplied)

=============================================================================
