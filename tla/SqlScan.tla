------------------------------- MODULE SqlScan -------------------------------
(***************************************************************************)
(* A scan of a MySQL or a PostgreSQL table (adapters/sources/mysql.py,     *)
(* postgres.py): the SQL text of the whole predicate is made to mean there *)
(* what it means in the engine (adapters/_shared/sqltext.py), although the *)
(* server has other strings, booleans and LIKE patterns.  Nothing is       *)
(* checked again in process.                                               *)
(***************************************************************************)
EXTENDS PredicateScan

VARIABLES
  dialect,     \* "mysql" | "postgres"
  columnTypes, \* column -> its type in the information schema
  escapes,     \* a backslash escapes in LIKE patterns (not NO_BACKSLASH_ESCAPES)
  collation    \* the database orders strings by code points

sqlVars == <<dialect, columnTypes, escapes, collation>>
vars == <<requestVars, readVars, sqlVars>>

(* What a planner may push: _PUSHED_EXPRESSIONS of either source.          *)
PushedExpressions ==
  {"none", "column", "literal", "parameter", "comparison", "and", "or", "not",
   "is_null", "in", "like"}

-----------------------------------------------------------------------------
(* The schema (map_column_type) and its converters.                        *)

Time(n) == [kind |-> "time", rank |-> n]
Bit(n) == [kind |-> "bit", rank |-> n]
Date(n) == [kind |-> "date", rank |-> n]

(* '0000-00-00': before every date to the server, NULL to the reader.      *)
ZeroDate == Date(0)

DomainKind(type) ==
  CASE type \in {"varchar", "time", "text"} -> "string"
    [] type \in {"tinyint(1)", "bit(1)", "bool"} -> "boolean"
    [] type = "date" -> "date"
    [] OTHER -> "integer"

Convert(type, value) ==
  CASE value \in {Null, ZeroDate} -> Null
    [] DomainKind(type) = "boolean" -> Boolean(value.rank # 0)
    [] DomainKind(type) = "string" -> Text(value.rank)
    [] OTHER -> value

FullRow(d) == [column \in DOMAIN columnTypes |-> Convert(columnTypes[column], d[column])]

-----------------------------------------------------------------------------
(* The SQL text: the nodes of the predicate, with what is wrapped around   *)
(* them.                                                                   *)

(* Mutant of EscapeClause: a MySQL LIKE is left to the server's default.    *)
PostgresEscapeClause == dialect = "postgres"

(* ESCAPE '' after a LIKE.  _prepare looks at the session's sql_mode, as a *)
(* MySQL server refuses the clause where no escape applies.                *)
EscapeClause == dialect = "postgres" \/ escapes

NonZero(sql) == [node |-> "nonzero", operand |-> sql]
Binary(sql) == [node |-> "binary", operand |-> sql]
LikeText(e, operand, pattern) ==
  [node |-> "like", operand |-> operand, pattern |-> pattern, negated |-> e.negated,
   exact |-> dialect = "mysql", clause |-> EscapeClause]

boolean_int(column) == dialect = "mysql" /\ columnTypes[column] = "tinyint(1)"

StringKind(e) ==
  LET kind == CASE e.node = "column" -> DomainKind(columnTypes[e.name])
                [] e.node = "literal" -> e.value.kind
                [] OTHER -> "other"
  IN CASE kind = "string" -> "string" [] kind = "null" -> "unknown" [] OTHER -> "other"

(* Mutant of WrapsOperands: a NULL among the operands counts as no string. *)
AllAreStrings(kinds) == dialect = "mysql" /\ kinds = {"string"}

(* Operands are compared as bytes if some are strings and none is known to *)
(* be anything else.                                                       *)
WrapsOperands(kinds) == dialect = "mysql" /\ "string" \in kinds /\ "other" \notin kinds

RECURSIVE Sql(_)
Sql(e) ==
  LET Operands(s) ==
        IF WrapsOperands({StringKind(o) : o \in ToSet(s)})
        THEN [i \in DOMAIN s |-> Binary(Sql(s[i]))] ELSE [i \in DOMAIN s |-> Sql(s[i])]
  IN CASE e.node = "column" -> IF boolean_int(e.name) THEN NonZero(e) ELSE e
       [] e.node = "comparison" ->
            LET sides == Operands(<<e.left, e.right>>) IN Comparison(e.op, sides[1], sides[2])
       [] e.node = "in" ->
            LET all == Operands(<<e.operand>> \o e.values) IN In(Head(all), Tail(all), e.negated)
       [] e.node = "like" ->
            LikeText(e, Sql(e.operand), Sql(e.pattern))
       [] e.node \in {"and", "or"} -> [e EXCEPT !.operands = [i \in DOMAIN @ |-> Sql(@[i])]]
       [] e.node \in {"not", "is_null"} -> [e EXCEPT !.operand = Sql(@)]
       [] OTHER -> e

-----------------------------------------------------------------------------
(* What the server makes of the text (external).  A MySQL server compares  *)
(* strings without case unless they are bytes; a PostgreSQL server tells   *)
(* them apart, and orders them as the database's collation says.           *)

Folded(rank) == rank \div 2

Collated(op, value) ==
  CASE value.kind # "string" -> value.rank
    [] dialect = "mysql" -> Folded(value.rank)
    [] OTHER -> IF op \in {"=", "<>"} \/ collation THEN value.rank ELSE - value.rank

ServerCompares(op, x, y) ==
  IF Null \in {x, y} THEN Unknown ELSE Truth(Compare(op, Collated(op, x), Collated(op, y)))

ServerMatches(sql, operand, pattern) ==
  LET ranks == IF escapes /\ ~ sql.clause THEN pattern.escaped ELSE pattern.matches
  IN IF sql.exact \/ dialect = "postgres" THEN operand.rank \in ranks
     ELSE Folded(operand.rank) \in {Folded(r) : r \in ranks}

RECURSIVE ServerValue(_, _), ServerTruth(_, _)
ServerValue(sql, d) ==
  CASE sql.node = "column" -> d[sql.name]
    [] sql.node = "literal" -> sql.value
    [] sql.node = "binary" ->
         LET value == ServerValue(sql.operand, d)
         IN IF value = Null THEN Null ELSE [kind |-> "binary", rank |-> value.rank]
    [] OTHER -> LET truth == ServerTruth(sql, d)
                IN IF truth = Unknown THEN Null ELSE Boolean(truth = True)

ServerTruth(sql, d) ==
  CASE sql.node = "none" -> True
    [] sql.node = "comparison" ->
         ServerCompares(sql.op, ServerValue(sql.left, d), ServerValue(sql.right, d))
    [] sql.node = "and" -> AllOf({ServerTruth(o, d) : o \in ToSet(sql.operands)})
    [] sql.node = "or" -> AnyOf({ServerTruth(o, d) : o \in ToSet(sql.operands)})
    [] sql.node = "not" -> Negated(TRUE, ServerTruth(sql.operand, d))
    [] sql.node = "is_null" -> Truth((ServerValue(sql.operand, d) = Null) # sql.negated)
    [] sql.node = "in" ->
         Negated(sql.negated,
                 AnyOf({ServerCompares("=", ServerValue(sql.operand, d), ServerValue(v, d)) :
                          v \in ToSet(sql.values)}))
    [] sql.node = "like" ->
         LET operand == ServerValue(sql.operand, d)
             pattern == ServerValue(sql.pattern, d)
         IN IF Null \in {operand, pattern} THEN Unknown
            ELSE Negated(sql.negated, Truth(ServerMatches(sql, operand, pattern)))
    [] OTHER ->
         LET value == ServerValue(IF sql.node = "nonzero" THEN sql.operand ELSE sql, d)
         IN IF value = Null THEN Unknown ELSE Truth(value.rank # 0)

-----------------------------------------------------------------------------
(* Two things the text does not make up for: the order of strings in a     *)
(* PostgreSQL database that does not use code points, and the zero dates   *)
(* of MySQL.  Where neither is met the rows are those of the portable      *)
(* predicate, and where one is they need not be: the last two properties.  *)
OrdersStrings(e) ==
  \E x \in walk(e) :
    x.node = "comparison" /\ x.op \notin {"=", "<>"} /\ "string" \in {StringKind(x.left), StringKind(x.right)}

Compensated ==
  ParametersBound =>
    /\ dialect = "postgres" => collation \/ ~ OrdersStrings(BoundPredicate)
    /\ \A d \in documents, column \in referenced_columns(BoundPredicate) : d[column] # ZeroDate

-----------------------------------------------------------------------------
(* The server keeps a row.                                                 *)
Kept(d) == ServerTruth(Sql(BoundPredicate), d) = True

Init ==
  /\ ScanInit
  /\ dialect \in {"mysql", "postgres"}
  /\ escapes \in BOOLEAN /\ collation \in BOOLEAN
  /\ dialect = "postgres" => escapes
  /\ wanted = Wanted(FullRow)

(* scan(): SELECT ... WHERE ... LIMIT on a cursor of its own.              *)
Execute ==
  /\ pc = "start" /\ ParametersBound
  /\ pc' = "reading"
  /\ fetched' = IF pushed.projection = {} THEN DOMAIN columnTypes ELSE pushed.projection
  /\ cursor' \in Answers({d \in documents : Kept(d)}, pushed.limit)
  /\ UNCHANGED <<requestVars, local, limit, buffer, output, sqlVars>>

ExecuteRaises ==
  /\ pc = "start"
  /\ pc' = "failed"
  /\ UNCHANGED <<requestVars, local, fetched, limit, cursor, buffer, output, sqlVars>>

(* The next row is converted and batched (stream_from_rows).               *)
ReadRow(d) ==
  /\ pc = "reading" /\ d \in cursor
  /\ cursor' = cursor \ {d}
  /\ AppendRow(d)
  /\ UNCHANGED <<requestVars, pc, local, fetched, limit, sqlVars>>

Next ==
  \/ (RefuseScan \/ EndOfRows \/ ReadFails) /\ UNCHANGED sqlVars
  \/ Execute
  \/ ExecuteRaises
  \/ \E d \in documents : ReadRow(d)

Spec == Init /\ [][Next]_vars

-----------------------------------------------------------------------------
(* "Zero dates read as NULL" (mysql.py:505) and "Three-valued NULL logic   *)
(* is native to MySQL" (mysql.py:513): a MySQL scan hands over no row on   *)
(* which the predicate is unknown, for the NULL that is read in it.        *)
ZeroDatesAreNull == dialect = "mysql" => output \subseteq wanted

(* "The pushed SELECT follows the portable profile", with columns declared *)
(* as text "for portable results" (postgres.py:199, 207), and the profile  *)
(* orders strings by code point (mysql.py:280): a PostgreSQL scan hands    *)
(* over only rows that the engine's order keeps.                           *)
TextOrderIsPortable == dialect = "postgres" => output \subseteq wanted

=============================================================================
