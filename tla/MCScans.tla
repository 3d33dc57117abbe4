------------------------------- MODULE MCScans -------------------------------
(***************************************************************************)
(* Everything that gives a predicate a meaning: the frontend and the       *)
(* binder, the engines' arithmetic, and the adapters that evaluate pushed  *)
(* predicates.  Small collections of every kind of column, and the         *)
(* requests a planner may make of them.  And the scan that evaluates none, *)
(* of XML documents (MCXmlScan).                                           *)
(***************************************************************************)
EXTENDS PredicateScan, DocumentTypes, Types

CONSTANTS Int32, ExactFloat, ExactDouble, SqlUnit, SqlInt64, SampleSize

VARIABLES
  kind, collation, procedure, fieldTypes, columnTypes, dialect, escapes, query,
  tree, xmlPushed, xmlPc, started, stack, row_depth, held, row, xmlBuffer, xmlOutput

SmallDigits == [bits \in {8, 16, 32, 64} |-> IF bits < 32 THEN 1 ELSE 2]

LowerNames ==
  [name \in {"id", "ID", "Id", "d", "f", "s", "b", "t"} |-> IF name \in {"ID", "Id"} THEN "id" ELSE name]

adapterVars == <<collation, procedure, fieldTypes, columnTypes, dialect, escapes>>
xmlVars == <<tree, xmlPushed, xmlPc, started, stack, row_depth, held, row, xmlBuffer, xmlOutput>>
vars == <<requestVars, readVars, kind, adapterVars, query, xmlVars>>

Mongo == INSTANCE MongoScan
Neo4j == INSTANCE Neo4jScan
Iceberg == INSTANCE IcebergScan
Delta == INSTANCE DeltaScan
Server == INSTANCE SqlScan
Sql == INSTANCE MCStatements WITH Unit <- SqlUnit, Int64 <- SqlInt64
Xml == INSTANCE MCXmlScan WITH
         pushed <- xmlPushed, pc <- xmlPc, buffer <- xmlBuffer, output <- xmlOutput

-----------------------------------------------------------------------------
(* Predicates on the columns "a" and "b".                                  *)

A == Column("a")

NullTests == {IsNull(A, negated) : negated \in BOOLEAN}

(* Comparisons with a column, an equality with NULL, one with a parameter, *)
(* and memberships with and without NULL.                                  *)
Leaves(values, ops) ==
  {Comparison(op, A, Literal(v)) : op \in ops, v \in values}
  \cup {Comparison(op, Literal(v), A) : op \in ops \cap {"<", ">=", "<>"}, v \in values}
  \cup {Comparison("=", A, Literal(Null)), Comparison("=", A, Parameter("p"))}
  \cup {In(A, <<Literal(v), Literal(w)>>, negated) :
          v \in values, w \in values \cup {Null}, negated \in BOOLEAN}
  \cup {In(A, <<Literal(Null)>>, negated) : negated \in BOOLEAN}
  \cup NullTests

Likes(patterns) == {Like(A, Literal(p), negated) : p \in patterns \cup {Null}, negated \in BOOLEAN}

OnB(v) == Comparison("=", Column("b"), Literal(v))

Trees(leaves, v) ==
  {NoPredicate} \cup leaves
  \cup {Not(leaf) : leaf \in leaves}
  \cup {And(<<leaf, OnB(v)>>) : leaf \in leaves}
  \cup {Or(<<OnB(v), leaf>>) : leaf \in leaves}
  \cup {Not(And(<<leaf, Not(OnB(v))>>)) : leaf \in leaves}

(* What a planner may push is within what the adapter declares.            *)
Pushable(expressions, trees) ==
  {t \in trees : \A e \in walk(t) : e.node \in expressions}

Bindings(value) == {[p \in {} |-> Null], [p |-> value], [p |-> Null]}

-----------------------------------------------------------------------------
(* Collections, with the predicates a binder lets through on them: every   *)
(* value is compared to values of its column's type.                       *)

Profile(docs, leaves, b, value) ==
  [documents |-> docs, leaves |-> leaves, b |-> b, value |-> value]

With(a, b) == [a |-> a, b |-> b]
Without(b) == [b |-> b]

Zero == Integer(0)
One == Integer(2)
Two == Integer(4)

Texts == {Text(2), Text(3)}

MongoProfiles ==
  { Profile({With(Text(2), Zero), With(Text(3), One), With(Null, One), Without(Zero)},
            Leaves(Texts, ComparisonOps) \cup Likes({Pattern({2}), Pattern({2, 3})}),
            One, Text(2)),
    Profile({With(Mongo!ObjectId(1), Zero), With(Mongo!ObjectId(2), One), Without(One)},
            Leaves({Mongo!HexText(1), Text(2)}, {"=", "<>"}) \cup Likes({Pattern({101})}),
            One, Mongo!HexText(2)),
    Profile({With(One, Zero), With(Text(2), One), With(Null, One), With(Text(3), Text(3))},
            Leaves({Text(2), Text(62)}, ComparisonOps) \cup Likes({Pattern({2, 62})}),
            Text(3), Text(62)),
    Profile({With(One, Zero), With(Float(3), One), Without(One), With(Iceberg!Decimal(0), One)},
            Leaves({One, Float(3)}, ComparisonOps), One, Float(3)),
    Profile({With(Mongo!List({Text(2), Text(3)}), Zero), With(Mongo!List({}), One), Without(One)},
            NullTests, One, Null),
    Profile({With(Mongo!Struct([x |-> One]), Zero), With(Mongo!Struct([y |-> Text(2)]), One),
             With(Mongo!Struct([x |-> Float(3)]), One), With(Null, Zero)},
            NullTests, One, Null),
    Profile({With(Mongo!List({One, Text(2)}), Zero), With(Mongo!List({Float(3)}), One),
             With(Text(3), One)},
            Leaves({Text(3), Text(80)}, {"=", "<>"}), One, Text(80)) }

Nodes(a1, a2) == {With(a1, Zero), With(a2, One), With(Null, One)}

Of(valueKind, n) == [kind |-> valueKind, rank |-> n]

Neo4jProfiles ==
  { Profile(Nodes(Text(2), Text(3)),
            Leaves(Texts, ComparisonOps) \cup Likes({Pattern({2})}), One, Text(2)),
    Profile(Nodes(One, Float(3)), Leaves({One, Float(3)}, ComparisonOps), One, Float(3)),
    Profile(Nodes(One, Text(3)),
            Leaves({Text(62), Text(3)}, ComparisonOps) \cup Likes({Pattern({62})}), One, Text(62)),
    Profile(Nodes(Of("list", 1), Of("list", 2)),
            Leaves({Text(61)}, {"=", "<>"}) \cup Likes({Pattern({61, 62})}), One, Text(62)),
    Profile(Nodes(Of("duration", 1), Text(3)), Leaves({Text(61)}, {"=", "<"}), One, Text(61)),
    Profile(Nodes(Of("zoned", 1), Of("zoned", 2)), Leaves({Of("unzoned", 1)}, ComparisonOps),
            One, Of("unzoned", 2)),
    Profile(Nodes(Of("zoned", 1), Of("unzoned", 2)), Leaves({Text(61)}, {"=", ">"}), One, Text(62)),
    Profile(Nodes(Of("date", 1), Of("boolean", 1)), NullTests, One, Null) }

(* Columns and literals of a format: literals that the type cannot hold,   *)
(* and whole numbers at and beyond its bounds.                             *)
Typed(type, stored, literals) ==
  [type |-> type, stored |-> stored, leaves |-> Leaves(literals, ComparisonOps),
   value |-> CHOOSE v \in literals : TRUE]

(* Predicates as operands, and a column that is itself a predicate.        *)
Nested ==
  LET operand == Comparison("=", A, Literal(Boolean(TRUE)))
  IN {A} \cup {IsNull(x, negated) : x \in {operand, Literal(Null), Parameter("p")}, negated \in BOOLEAN}
     \cup {In(operand, <<Literal(Boolean(FALSE)), Literal(v)>>, negated) :
             v \in {Null, Boolean(FALSE)}, negated \in BOOLEAN}

Truths == {Boolean(TRUE), Boolean(FALSE)}

BooleanColumn ==
  [type |-> "boolean", stored |-> Truths, leaves |-> Leaves(Truths, {"=", "<>"}) \cup Nested,
   value |-> Boolean(TRUE)]

IcebergColumns ==
  { Typed("long", {One, Integer(Int64)}, {Integer(Int64 + 2), Float(3), Iceberg!Decimal(2)}),
    Typed("int", {One, Integer(Int32)}, {One, Integer(Int32 + 2)}),
    Typed("float", {Float(3), Float(4 * (ExactFloat \div 4) + 4)},
          {Integer(ExactFloat + 2), Float(3), Float(ExactFloat + 1), Iceberg!Decimal(3)}),
    Typed("double", {Float(3), Float(2)}, {One, Integer(ExactDouble + 2)}),
    Typed("decimal", {Iceberg!Decimal(2), Iceberg!Decimal(4)}, {Iceberg!Decimal(3), One, Float(3)}),
    Typed("string", Texts, Texts), BooleanColumn }

DeltaColumns ==
  { Typed("integer", {Zero, One}, {One, Float(3)}),
    Typed("decimal", {Iceberg!Decimal(2), Iceberg!Decimal(3)}, {Iceberg!Decimal(3), One}),
    Typed("string", Texts, Texts), BooleanColumn }

(* Strings, with patterns of which a backslash is part; booleans that are  *)
(* other numbers in the server; dates, with and without a zero date.       *)
Escaped(ranks, others) == [kind |-> "string", matches |-> ranks, escaped |-> others]

TextLeaves ==
  Leaves(Texts, ComparisonOps) \cup Likes({Escaped({2}, {3}), Escaped({2, 3}, {}), Escaped({}, {2})})

Dates == {Server!Date(2), Server!Date(4)}

ServerColumn(type, stored, leaves, value) ==
  [type |-> type, stored |-> stored, leaves |-> leaves, value |-> value]

BooleanLeaves == {A} \cup Leaves(Truths, {"=", "<>", "<"})

ServerColumns ==
  [mysql |->
     { ServerColumn("varchar", Texts, TextLeaves, Text(2)),
       ServerColumn("time", {Server!Time(2), Server!Time(3)}, TextLeaves, Text(2)),
       ServerColumn("tinyint(1)", {Zero, One, Two}, BooleanLeaves, Boolean(TRUE)),
       ServerColumn("bit(1)", {Server!Bit(0), Server!Bit(1)}, BooleanLeaves, Boolean(TRUE)),
       ServerColumn("date", Dates, Leaves(Dates, ComparisonOps), Server!Date(2)),
       ServerColumn("date", {Server!ZeroDate, Server!Date(2)}, Leaves(Dates, {"<", ">"}), Server!Date(2)) },
   postgres |->
     { ServerColumn("text", Texts, TextLeaves, Text(2)),
       ServerColumn("bool", Truths, BooleanLeaves, Boolean(TRUE)) }]

Stored(column) == {With(v, IF v = Null THEN One ELSE Zero) : v \in column.stored \cup {Null}}

-----------------------------------------------------------------------------
Requested(profile, expressions) ==
  /\ documents = profile.documents
  /\ pushed \in Requests(Pushable(expressions, Trees(profile.leaves, profile.b)),
                         {{"b"}})
  /\ parameters \in Bindings(profile.value)
  /\ "p" \in referenced_parameters(pushed.predicate) \/ parameters = [p \in {} |-> Null]

NoQuery == query = <<>>
NoServer == dialect = "none" /\ escapes = FALSE

InitMongo ==
  /\ kind = "mongo"
  /\ \E profile \in MongoProfiles : Requested(profile, Mongo!PushedExpressions)
  /\ Mongo!Init
  /\ procedure = FALSE /\ fieldTypes = <<>> /\ columnTypes = <<>> /\ NoQuery /\ NoServer

InitNeo4j ==
  /\ kind = "neo4j"
  /\ \E profile \in Neo4jProfiles : Requested(profile, Neo4j!PushedExpressions)
  /\ Neo4j!Init
  /\ collation = FALSE /\ fieldTypes = <<>> /\ columnTypes = <<>> /\ NoQuery /\ NoServer

InitIceberg ==
  /\ kind = "iceberg"
  /\ \E column \in IcebergColumns :
       /\ Requested(Profile(Stored(column), column.leaves, One, column.value),
                    Iceberg!PushedExpressions)
       /\ fieldTypes = [a |-> column.type, b |-> "long"]
  /\ Iceberg!Init
  /\ collation = FALSE /\ procedure = FALSE /\ columnTypes = <<>> /\ NoQuery /\ NoServer

InitDelta ==
  /\ kind = "delta"
  /\ \E column \in DeltaColumns :
       /\ Requested(Profile(Stored(column), column.leaves, One, column.value),
                    Delta!PushedExpressions)
       /\ columnTypes = [a |-> column.type, b |-> "integer"]
  /\ Delta!Init
  /\ collation = FALSE /\ procedure = FALSE /\ fieldTypes = <<>> /\ NoQuery /\ NoServer

InitServer ==
  /\ kind = "server" /\ dialect \in DOMAIN ServerColumns
  /\ \E column \in ServerColumns[dialect] :
       /\ Requested(Profile(Stored(column), column.leaves, One, column.value),
                    Server!PushedExpressions)
       /\ columnTypes = [a |-> column.type, b |-> "bigint"]
  /\ Server!Init
  /\ procedure = FALSE /\ fieldTypes = <<>> /\ NoQuery

NoScan ==
  /\ ScanInit /\ documents = {} /\ wanted = {} /\ parameters = [p \in {} |-> Null]
  /\ pushed = [predicate |-> NoPredicate, projection |-> {}, limit |-> NoLimit]
  /\ collation = FALSE /\ procedure = FALSE /\ fieldTypes = <<>> /\ columnTypes = <<>> /\ NoServer

InitSql == kind = "sql" /\ Sql!Init /\ NoScan

InitXml == kind = "xml" /\ Xml!MCInit /\ NoScan /\ NoQuery

NoXml ==
  /\ tree = <<>> /\ xmlPushed = [predicate |-> FALSE, limit |-> NoLimit]
  /\ xmlPc = "start" /\ started = 0 /\ stack = <<>> /\ row_depth = 0 /\ held = {} /\ row = 0
  /\ xmlBuffer = {} /\ xmlOutput = {}

(* Of the servers, those that mean what the engine means.                  *)
Init ==
  \/ /\ \/ InitMongo \/ InitNeo4j \/ InitIceberg \/ InitDelta
        \/ InitServer /\ Server!Compensated
        \/ InitSql
     /\ NoXml
  \/ InitXml

NextScan ==
  \/ kind = "mongo" /\ Mongo!Next /\ UNCHANGED <<procedure, fieldTypes, columnTypes, dialect, escapes>>
  \/ kind = "neo4j" /\ Neo4j!Next /\ UNCHANGED <<collation, fieldTypes, columnTypes, dialect, escapes>>
  \/ kind = "iceberg" /\ Iceberg!Next /\ UNCHANGED <<collation, procedure, columnTypes, dialect, escapes>>
  \/ kind = "delta" /\ Delta!Next /\ UNCHANGED <<collation, procedure, fieldTypes, dialect, escapes>>
  \/ kind = "server" /\ Server!Next /\ UNCHANGED <<procedure, fieldTypes>>

Next ==
  \/ NextScan /\ UNCHANGED <<kind, query, xmlVars>>
  \/ kind = "sql" /\ Sql!Next /\ UNCHANGED <<requestVars, readVars, kind, adapterVars, xmlVars>>
  \/ kind = "xml" /\ Xml!Next /\ UNCHANGED <<requestVars, readVars, kind, adapterVars, query>>

Spec == Init /\ [][Next]_vars

(* All servers, with zero dates and any order of strings.                  *)
ServerSpec == InitServer /\ NoXml /\ [][Next]_vars

-----------------------------------------------------------------------------
(* A MongoDB schema converts every value it was inferred from.             *)
ConvertsWhatItInferred == kind = "mongo" /\ pc = "start" => Mongo!ConvertsWhatItInferred

(* A Neo4j scan with a limit of zero returns no row.                       *)
LimitZeroIsEmpty == kind = "neo4j" => Neo4j!LimitZeroIsEmpty

(* An Iceberg row filter drops no row that the predicate keeps.            *)
FilterIsSound == kind = "iceberg" /\ pc = "start" => Iceberg!FilterIsSound

(* The plan of a statement means what its text says.                       *)
FrontendKeepsMeaning == kind = "sql" => Sql!FrontendKeepsMeaning

(* What inspection promises is what execution gives.                       *)
InspectionAgrees == kind = "sql" => Sql!InspectionAgrees

(* A computed value has the type that its column was given.                *)
WellTyped == kind = "sql" => Sql!WellTyped

(* DuckDB and Spark compute the same, or fail together.                    *)
EnginesComputeAlike == kind = "sql" => Sql!EnginesComputeAlike

(* A MySQL scan drops rows on which a zero date makes it unknown.          *)
ZeroDatesAreNull == kind = "server" => Server!ZeroDatesAreNull

(* A PostgreSQL scan orders strings as the engine does.                    *)
TextOrderIsPortable == kind = "server" => Server!TextOrderIsPortable

(* The type invariant of the XML reader.                                   *)
TypeOK == kind = "xml" => Xml!TypeOK

(* XML rows are handed over in document order, as many as asked for.       *)
RowsInDocumentOrder == kind = "xml" => Xml!RowsInDocumentOrder

(* The XML parser holds one row and the path to its place.                 *)
OneRowInMemory == kind = "xml" => Xml!OneRowInMemory

(* No sampled XML value turns into NULL in the type inferred from it.      *)
SampledValuesFit == kind = "xml" => Xml!SampledValuesFit

=============================================================================
