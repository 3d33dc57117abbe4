---------------------------- MODULE DatabaseSources ----------------------------
(***************************************************************************)
(* A database source of one of the four kinds: every behaviour is one of   *)
(* the kind it starts as.  What holds of all of them is stated here once.  *)
(***************************************************************************)
EXTENDS SourceStreams

VARIABLES
  kind,     \* "mysql" | "postgres" | "mongo" | "neo4j"
  prepared, \* of MySQLSource
  dropped,  \* of MySQLSource and ClientSource
  broken    \* of PostgresSource

vars == <<sourceVars, scanVars, closeVars, kind, prepared, dropped, broken>>

MySQL == INSTANCE MySQLSource
Postgres == INSTANCE PostgresSource
Mongo == INSTANCE MongoSource
Neo4j == INSTANCE Neo4jSource

Init ==
  \/ kind = "mysql" /\ MySQL!Init /\ broken = FALSE
  \/ kind = "postgres" /\ Postgres!Init /\ prepared = FALSE /\ dropped = None
  \/ kind = "mongo" /\ Mongo!Init /\ prepared = FALSE /\ broken = FALSE
  \/ kind = "neo4j" /\ Neo4j!Init /\ prepared = FALSE /\ broken = FALSE

Next ==
  \/ kind = "mysql" /\ MySQL!Next /\ UNCHANGED <<kind, broken>>
  \/ kind = "postgres" /\ Postgres!Next /\ UNCHANGED <<kind, prepared, dropped>>
  \/ kind = "mongo" /\ Mongo!Next /\ UNCHANGED <<kind, prepared, broken>>
  \/ kind = "neo4j" /\ Neo4j!Next /\ UNCHANGED <<kind, prepared, broken>>

Spec == Init /\ [][Next]_vars

-----------------------------------------------------------------------------
(* The state of the source's kind has its type.                            *)
TypeOK ==
  /\ kind \in {"mysql", "postgres", "mongo", "neo4j"}
  /\ kind = "mysql" => MySQL!TypeOK
  /\ kind = "postgres" => Postgres!TypeOK
  /\ kind = "mongo" => Mongo!TypeOK
  /\ kind = "neo4j" => Neo4j!TypeOK

(* The user's connection, client or driver is closed by no kind of source. *)
InjectedStaysOpen == IF kind = "postgres" THEN Postgres!InjectedStaysOpen ELSE Injected \in live

(* Every source but the MySQL one looks at _closed again before it         *)
(* registers a stream, so close() leaves none open.  (See mysql_close.)    *)
CloseLeavesNoStream == kind # "mysql" => CloseClosesEveryStream

=============================================================================
