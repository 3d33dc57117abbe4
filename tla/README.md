# InvariantQL in TLA+

TLA+ modules for the core of InvariantQL (`src/src/invariantql`): what a SQL text
means and what type its columns have, what the capability planner decides, what a
query therefore answers, whether every adapter that evaluates a pushed predicate
means by it what SQL means, how a context looks after its adapters, and what the
engine and the database sources do with cursors, mounts, streams and connections
when calls interleave and fail.  TLC checks small instances; TLAPS proves every safety
invariant of the planner, of query execution, of the scans with pushed operations, of the
local engine, of the four database sources, of the service and of the XML reader for every
value of the constants, and for trees and values nested to any depth that filters, type
inference and binding do at each node what they have to.

Contents: [the system](#the-system) ·
[modules](#modules-and-the-code-they-model) · [runs](#runs) ·
[bounds](#bounds) · [fairness](#fairness) · [proofs](#proofs) ·
[disagreements](#where-the-code-and-its-documentation-disagree) ·
[not modelled](#not-modelled) · [plan](#plan)

## The system

InvariantQL is a hexagonal Python library.  A caller registers sources,
storages and engines in a `Context`, builds an immutable logical plan with
`where`, `select` and `limit` (or SQL text), and executes it.  The planner
splits the plan between what the source's scan can do (its *pushdown
capabilities*) and what the engine does afterwards (the *residual* operations);
ADR-0003 demands that no logical operation is lost or weakened on the way.  Only
some parts keep state; the hard behaviour is in these.

| component | state | operations | interacts with | what is hard | what makes it correct |
|---|---|---|---|---|---|
| logical plan, expressions (`domain/plan.py`, `expressions.py`) | none (immutable) | `where`, `select`, `limit`, `conjuncts`, `referenced_columns`, `substitute_parameters` | planner, binder, adapters | repeated calls in any order | a query only narrows; every column read is named |
| SQL frontend (`adapters/sql/frontend.py`) | none | `parse` | sqlglot's trees in, plans out | regrouping of AND, OR, NOT, signs | a plan means what the text says, or the text is refused |
| types, binder, parameters (`domain/types.py`, `application/binding.py`, `parameters.py`) | none | `unify`, `bind_plan`, `bind_parameters` | service | plans are inspected without the values of parameters | inspection promises what execution gives; a type holds its values |
| planner (`application/planner.py`, `domain/execution.py`, `explain.py`) | locals of one call: pushed, residual, explain nodes | `plan`, `check_completeness` | capabilities in, execution plan out | decisions at one node bind later nodes | its assertion never fires; it refuses only the impossible; explain is true |
| service (`application/service.py`) | none | `plan`, `execute`, `explain`, `compile` | registry, planner, engines | looks the source up again after planning | a query is answered as its logic says, or refused |
| local engine (`adapters/duckdb_engine/engine.py`) | a connection, its lock | `execute`, `schema`, `close` | bridge, sources, results | failure at every step; threads | nothing leaks; release in reverse order |
| storage bridge (`fs_bridge.py`) | mount table, keyed by a digest of storage name and location | `mount`, `unmount`, `resolve` | engine calls on all threads | calls share keys, mounts are not counted | a mount lives as long as its holders |
| local result (`result.py`) | reader position, flags, close hooks | `batches`, `to_arrow`, `close` | engine's cleanup hooks | several iterators, abandonment, hooks that raise | batches neither lost nor repeated; hooks run once |
| streams (`adapters/_shared/arrow.py`) | a flag, close hooks | iterate, `close` | sources, engine | closed by two threads at once | what a stream holds is released |
| MySQL, PostgreSQL sources | connection(s), cached schema, set of streams, closed flag, lock | `schema`, `scan`, `close` | drivers, streams | `close()` between two locked blocks of `scan()`; owned and injected connections | no leak, no sharing, the user's connection stays open |
| MongoDB, Neo4j sources | client or driver, streams, closed flag | the same | drivers | the same; which conjuncts run in process | the same; rows and limits are those of SQL |
| registry, context (`application/registry.py`, `api/context.py`) | tables of adapters, factories | register, look up, `close` | everything | replacement, lazy factories, adapters whose close raises | every adapter is closed; none is used after it |
| SQL text for servers and DuckDB (`adapters/_shared/sqltext.py`, generators of the sources and the engine) | none | `select`, `expression` | servers | strings, booleans, patterns and arithmetic differ per server | a pushed predicate keeps the rows of the portable one |
| Delta, Iceberg handlers | none | `schema`, `scan` | storages, engine | predicate translation with nulls, casts of literals, limits | same rows as a local filter |
| XML handler | parser's stack, the row being read | `schema`, `scan` | storages, engine | nested row tags; memory | rows in document order, one in memory |
| Spark engine | session | `compile` | planner | casts of operands and results | computes what DuckDB computes |

Hazards are listed in `PROJECT.json` at the line where each bites, with the
property that watches it.

## Modules and the code they model

```
ExecutionPlan --- Planner ------- QueryExecution  ==implements==>  LogicalQuery
                     |                  |
               PlannerProofs --- QueryExecutionProofs

RowBatches --+-- PushedScan (in PredicateScan)
             +-- XmlReader --+-- XmlScan --- MCXmlScan (in MCScans)
                             +-- XmlReaderProofs

PushedScan -----+-- PredicateScan --+-- MongoScan, Neo4jScan ----+
                |                   +-- IcebergScan, DeltaScan --+----- MCScans
                |                   +-- SqlScan -----------------+        |
                |                   |                                     |
PredicateNodes -+-- Predicates -----+-- Binding -- SqlFrontend -- PreparedQuery -- MCStatements
                |                           |
                +-- Types ------------------+-- TypesProofs
                +-- TableFilters    (in IcebergScan, DeltaScan)  --+
                +-- DocumentTypes   (in MongoScan, Neo4jScan)  ----+-- ScanProofs

LocalResult --- DuckDBEngine --- DuckDBEngineProofs

SourceStreams --+-- MySQLSource, PostgresSource ---------------------+
                +-- ClientSource --- MongoSource, Neo4jSource -------+--- DatabaseSources
                                                                             |
                                                               DatabaseSourcesProofs

QueryService --- QueryServiceProofs
```

The planner and the scans look at expressions from two distances.  The planner only
asks which kinds of nodes and which columns an expression has, so **ExecutionPlan** has
no trees; the frontend, the binder and the adapters take trees apart, so
**PredicateNodes** and **Predicates** have them.

What recurses over a tree is written in two parts: an operator that does one node and
takes what is done below as a parameter (`NodeMeaning`, `NodeFilter`, `NodeType`,
`NodeBound` and so on), and a recursive operator that is that operator applied to itself
(`Visit(e, negated, self) == NodeFilter(e, negated, self, Visit)`).  The first are in
modules without recursion, which the proofs use; the second in the modules TLC runs.

**ExecutionPlan** (`domain/plan.py`, `domain/expressions.py`, `domain/execution.py`,
`domain/capabilities.py`, the column computation of `planner.py`).  A scalar expression is its
set of node kinds and the columns it reads, in the order of the walk; a conjunct also
has the rows on which it is TRUE.  That is all the planner and the rows depend on.
`referenced_columns` is the de-duplicating walk of the code.  `Filter` keeps its
predicate as the conjunct sequence `conjuncts()` would give; `Project` and `Limit` are
optional.  The code normalises any order of calls to scan, filter, project, limit, so a
plan is a record, and a node is the name of its operation.  Capabilities are records of support levels, with
`supports_expression` of a scan and of an engine.  Pushed and residual operations; `NeededColumns` is what a pruning
scan has to deliver; `PlacementProblems` is `check_completeness`, one set of
problems per rule.  A residual or pushed predicate is the set of positions of its
conjuncts in the plan: the same conjunct added twice is counted twice, as the
code counts.

**Planner** (`application/planner.py`).  `Where`, `Select`, `Limit` build a plan;
`StartPlanning` is the call of `plan()`; `PlanScan`, `PlanFilter`, `PlanProject`,
`PlanLimit` are the bodies of the loop for each node type, complete with
dispositions and diagnostics; `Finish` computes `executable` and the assertion.

**QueryExecution** (`service.py`, `engine.py`, `sqltext.py`).  Adds the scan and
the engine: `Scan` returns *any* columns and rows the target's declared
capabilities allow (a `partial` predicate may keep rows it need not, a `partial`
limit may return too many), `Evaluate` runs the residual SQL, `Refuse` is
`_executable` raising.  `Compile` is `SparkEngine.compile`: where reader and engine
declare every support, one lazy relation has the pushed and the residual operations
and the smaller of their limits.  **LogicalQuery** is the abstract specification: a query
is built, then answered once, with rows of the logical filter, as many as the
limit asks for, under the query's column names, or refused.

**PredicateNodes** and **Predicates** (`domain/expressions.py`): expression trees,
`conjuncts`, `referenced_columns`, `substitute_parameters`, and `ValueOf` and `Meaning`,
the meaning of the SQL text the engine would run.  It is the reference for everything
below.  A value has a kind and a rank in the order of its kind; a LIKE pattern is the set
of the ranks it matches.

**RowBatches** (`_shared/arrow.py`): rows are handed over in batches, a batch when it is
full.  Pushed scans and the XML reader extend it.

**PushedScan** (`domain/execution.py`, the streams of the adapters) is the abstract
specification of a scan: `ScanSpec`.  A provider returns documents in any order; either it
leaves out what the predicate does not keep and what is beyond the limit (`OpenFiltered`),
or it may return more and the limit is counted in process (`OpenRelaxed`); rows are
left out or delivered, one by one or in batches, as the predicate says (`wanted`).  Its
invariant `ScanAnswers`: the rows handed over are rows of the predicate, no more than the
limit at any time, and at the end all of them or as many as the limit says (three
exceptions have runs of their own, see below).
**PredicateScan** adds what a scan is asked, with parameters, and the exact predicate.
The adapters' scans implement `ScanSpec` with the tests, filters and masks of their own:
the run `scans` has `ScanSpec` as a property.  **TableFilters** is what the Iceberg
and Delta handlers do at one node, **DocumentTypes** the types that MongoDB and Neo4j
sources find.

* **MongoScan** (`sources/mongodb.py`): schema inference over the kinds a sample
  shows, with the conversion of values; `ForcedLocal` and `Translate`, which put a
  conjunct into a `find()` filter or leave it to `Evaluate`; the
  cursor, whose filter the server evaluates with its own rules for missing fields,
  arrays and collations.
* **Neo4jScan** (`sources/neo4j.py`): column types from the schema procedure or from a
  sample, the Cypher of the conjuncts the server can evaluate, `Evaluate` for the
  rest, and the limit with or without local conjuncts.
* **IcebergScan** (`formats/iceberg.py`): the row filter with its exactness flag
  (`Visit`, `Relaxed`, `Exact`), the conversion of literals to the types of fields,
  the Arrow recheck, and the limit, pushed to pyiceberg only with an exact filter.
* **DeltaScan** (`formats/delta.py`): one Arrow expression for the whole predicate.
* **SqlScan** (`_shared/sqltext.py`, `sources/mysql.py`, `sources/postgres.py`): the
  SQL text of a predicate with what is wrapped around its nodes, the server's
  evaluation of it, and the converters of the columns.  `wanted` is always what the
  portable predicate keeps of the rows a reader sees; `Compensated` names the servers
  of which the text makes that much, and is the condition under which the run
  `scans` starts a server's scan.

**XmlReader** (`formats/xml.py`) evaluates no predicates and stands alone.  `StartEvent`
and `EndEvent` are the branches of the event loop, with the stack, `row_depth` and the
elements the parser still holds; the generator hands over a row (`RowEnds`) and
resumes.  An element is its place in the document; `IsDocument` says that each starts
inside the one before it or after the end of some of those around it, which is what a
parser's events are.  `held` is what the loop keeps of the events it has taken;
`iterparse` also reads a chunk of the file ahead of them, which is bounded and left out.  It also has what inference and conversion do at one level of a raw
value (`NodeInferred`, `NodeConverted`); **XmlScan** adds the rest of it: `Sample`,
`infer_type`, `convert_value`.

**Types** (`domain/types.py`, `schema.py`, the nodes of `binding.py` and `semantics.py`):
types, `unify` with and without an operation, `is_comparable`, portability, names
resolved without case, and the binding (`NodeBound`) and the type (`NodeExpressionType`)
of one node.  **Binding** (`application/binding.py`, `parameters.py`): plans bound,
output columns typed and normalised, parameters checked; an exception is a `Refused`
node.  **SqlFrontend** (`sql/frontend.py`): sqlglot's trees become plans; `SqlTruth` and
`SqlValue` give the trees their own meaning.  **PreparedQuery**: a statement or plan that
is parsed, inspected without the values of its parameters, then bound and executed, with
the casts that the DuckDB and the Spark engine put around arithmetic.

**LocalResult** (`duckdb_engine/result.py`).  A batch is its number.  Each call
of the caller is an action; a generator that was never started runs no `finally`
when it is dropped, one that was started does.  `Close` takes the hooks, which
then run one at a time.

**DuckDBEngine** (`duckdb_engine/engine.py`, `fs_bridge.py`) extends it with
`execute()`: cursor, then stream and view, or mount, then reader, each stacking a
cleanup hook, each able to raise (`StepRaises`, then `RunHook` from the top of
the stack); with `schema()`: mount, query under the lock, unmount; and with the
bridge's table.  All calls run concurrently.

**SourceStreams** is what the database sources share: the state of streams and
connections, and `ArrowStream.close`, whose flag is tested in one step and set
in the next, for two agents, the consumer and the source's `close()`.
**MySQLSource** and **PostgresSource** extend it.  What the code does inside one
`with self._lock` block is one action; between blocks other threads run.  A
PostgreSQL scan takes the source's connection over and looks at `_closed` again
before it registers its stream; a MySQL scan opens a connection of its own.
`Break` (external) ends a PostgreSQL connection at any time.  **ClientSource** is what
the MongoDB and Neo4j sources share: scans have a cursor or a session of one client.
**MongoSource** makes the client on first use, under its lock, and infers a schema
there; a limit of zero returns a stream without a cursor.  **Neo4jSource** has a
driver from the start; `close()` takes it and closes streams, then the driver.
**DatabaseSources** is a source of any one of the four kinds: each initial state is one
of a kind, and each step one of that kind.  What all four have to do, and the exception
the MySQL source makes, is stated there once.

**QueryService** (`application/registry.py`, `service.py`, `api/context.py`).  The tables of sources and engines, and
ghost sets: the adapters the registry ever took over (`owned`), those it closed
since (`closed`), and the names whose replacement raised while the previous adapter
was closed (`stale`): that one stays registered, closed.  Each `close()` of an
adapter may raise.  An engine with a factory is made when it is first asked for,
and again after `close()`.

On top of it are the calls `explain`, `execute` and `compile`: `SelectEngine`; `FindRoutes`, which makes
the default engine if another was selected; `TryRoute` for each way of discovering
the schema; `Plan`, an outcome here because Planner and QueryExecution model it.
The application changes the registry between calls (`Change`), not during one: the
registry takes no lock, and nothing in the repository says that threads may share a
context.

The `MC*` modules give the constants values.  Operators whose comment starts with
"Mutant of" are the program with one bug in it: each property has one that makes
TLC find the property violated.

## Runs

| run | configuration | shows |
|---|---|---|
| `query_execution` | MCQueryExecution | all plans of one or two calls to `where` and at most one `select` and `limit`, against some 700 targets that vary in every capability the planner reads: `CompletenessHolds` (the planner's own assertion), `RejectsOnlyTheImpossible` (placing node by node loses no plan that some placement could execute), `ExplainIsTruthful`; and of 90 of the targets also executed, with several limits: `ImplementsLogicalQuery`: the answer, streamed or compiled by Spark, is one `LogicalQuery` admits; `EngineColumnsDelivered`: the engine never reads a column the scan was told to drop |
| `scans` | MCScans | one kind of source or handler, or the frontend, per initial state; see below |
| `engine` | MCDuckDBEngine | two queries (stream, bridge), each result read by an iterator and `to_arrow()` in any order, a `schema()` call on the bridged location and a close of the engine, each step failing or not: `NothingLeaks`, `ReleasedOnce`, `NothingReadsReleased`, `MountsAreHeld`, `NothingLostOrRepeated`, and under fairness `EveryCallEnds`, `ClosedResultsRelease` |
| `database_sources` | DatabaseSources | two scans, `schema()`, `close()` on a source of one of four kinds, owned or injected: `SessionsReleased`, `InjectedStaysOpen`, `ScansDoNotShare`, `NothingOutlivesClose`, and `CloseLeavesNoStream`, which holds of every kind but MySQL |
| `service` | MCQueryService | calls with either engine, DuckDB installed or not, engines that reach the source or not, between registrations, replacements, removals and closes that raise: `NothingForgotten` (every adapter the context took over is closed or still served), `ServesOnlyLive` (none is served after its close, but for a failed replacement), `DiscoveryInOrder` |
| `shared_mount` | MCSharedMount | violation of `MountSurvives` |
| `single_consumption` | MCSingleConsumption | violation of `ConsumedOnce` |
| `mysql_close` | MySQLClose | violation of `CloseClosesEveryStream` |
| `mysql_injected` | MySQLInjected | violation of `OneScanInFlight` |
| `neo4j_limit_zero` | MCNeo4jLimitZero | violation of `LimitZeroIsEmpty` |
| `mysql_zero_dates` | MCMySQLZeroDates | violation of `ZeroDatesAreNull` |
| `postgres_text_order` | MCPostgresTextOrder | violation of `TextOrderIsPortable` |

What `scans` shows:

* `ScanAnswers`: for MongoDB, Neo4j, Iceberg, Delta, MySQL and PostgreSQL, a scan
  returns rows of the predicate's meaning only, at no time more than the limit, and when
  it ends all of them or as many as the limit says, whichever part of the predicate ran
  where.  Excepted are a Neo4j scan's limit of zero after conjuncts run in process (in
  the property: `neo4j_limit_zero`), and, by the states the run starts from, MySQL's zero
  dates in a column of the predicate (`mysql_zero_dates`) and comparisons of text in a
  PostgreSQL database with another order than that of code points
  (`postgres_text_order`).  In those three the code returns other rows.
* `ScanSpec`: each of these scans implements the abstract one, step by step: also a row
  that is left out or delivered with the limit still to be counted is one the
  abstract scan allows.  The same servers are excepted.
* `ConvertsWhatItInferred` and, for XML, `SampledValuesFit`: a type inferred from a
  sample of documents or rows converts each value of that sample.  A whole number that is
  converted to a float counts as kept by the nearest float: digits may be lost there.
* `RowsInDocumentOrder`: for documents of every shape, XML rows come whole and in the
  order of the document, row tags inside rows are part of them, and a scan ends with all
  or as many as the limit says.  `OneRowInMemory`: the parser's loop holds one row and the
  path to its place.
* `DiscoveriesAgree`: whether Neo4j reports its types or they are sampled, the same
  predicates run in the server.
* `FilterIsSound`: an Iceberg row filter drops no row the predicate keeps, and keeps
  no other if it says that it is exact.
* `FrontendKeepsMeaning`: the rows, columns and limit of the plan are those of the
  SQL text, of every statement that is accepted but those with a star that has modifiers
  (`ModifiesStar`).
* `InspectionAgrees`: a query that `explain()` accepts without values for its
  parameters has the schema it promised once they are given, and one it refuses is
  refused with every value.
* `WellTyped`: a computed value has the type its column was given, precision and scale
  included.
* `EnginesComputeAlike`: the casts of DuckDB and of Spark give equal values or fail
  together.

A run may deadlock where the system stops: a query that is answered, calls that
have ended with their results closed, scans that are over on a closed source.
Hence `CHECK_DEADLOCK FALSE` everywhere; that no call of the engine stops *early* is
what `EveryCallEnds` and `ClosedResultsRelease` say.

## Bounds

* Plans: two columns, conjuncts that read neither, one or both of them and use a
  kind (`like`, `parameter`) some scans or engines lack.  `MaxClauses = 2` bounds the
  conjuncts of a plan, given in one call or in two.  The planner treats a conjunct on
  its own except for the columns it makes the scan deliver, so two that differ in
  support and in columns meet every case of a pair.
* Projections: a plain column, columns out of table order, a renamed one, a mix, a
  constant.  The planner distinguishes plain from computed and named from renamed.
* Limits: 0 where a plan is only planned, as the planner never looks at the count; 0, 1
  and 2 over three rows where it is executed, and both ends matter.  The constraint
  `Followed` says which plans and targets are followed how far; the states at which it
  stops are checked as well.
* Rows: three, so that two conjuncts can each drop one that the other keeps.
* Results: two batches (`BatchCount`) and a materialisation limit of one
  (`MaxBatches`), so that after none, one or both were taken a table does not fit,
  just fits and is empty.  One iterator for each result: with `to_arrow()` it makes
  the two consumers a batch can go to.  That several iterators share no batch is the
  theorem `EngineLosesNothing`, for any number of them.
* Engine calls: a mount key needs two holders to be shared; a third call only
  repeats them.  All calls have one storage and one location, the worst case.  A
  location that is read as a file, without the bridge, is left to the theorems.
* Predicates: a leaf on a column `a` for every operator, with the column on either
  side, NULL literals, parameters bound to a value or NULL, and membership lists with
  NULL; each leaf alone, negated, under AND, OR and a negated AND with a second
  column `b`, which is enough for every pair of truth values to meet under each
  connective.  Of these the run takes what the adapter declares pushable.
* Documents: two to four, with two values of `a`, NULL and a missing field, in
  profiles of each kind of column and of the mixtures a type inference has to settle;
  limits none, 0, 1 and 2; batches of two (`BatchSize`), so that one fills and one is
  cut short.
* Numbers are ranks in halves (`Unit = 2`), so that a literal can fall between two
  integers; `Int32 = 4`, `Int64 = 8`, `ExactFloat = 8` and `ExactDouble = 16` put the
  limits of the Iceberg types within reach.  In statements a number has two digits
  behind the point (`SqlUnit = 100`) and integers end at 50 (`SqlInt64`), decimals at
  6 portable and 8 digits (`PortablePrecision`, `MaxPrecision`) instead of 38 and 76.
* XML: every tree of up to six elements with row tags anywhere, and filled trees of
  three rows with a sample of two (`SampleSize`).
* Statements: 27 conditions in eight settings each, the arithmetic operations on
  integer, decimal and float columns, literals and parameters, over four schemas with
  names in two cases, rows at the limits of the columns' types, and ten assignments of
  parameters.
* Scans: two on one source, which is what sharing, the injected-connection check
  and the race with `close()` take.  Four connection identities: one per scan, one
  for the source and the user's; an identity nobody remembers may come back, so
  the number of reconnections is not bounded.  `ConnectionsSuffice` says what a new
  connection needs to exist: one identity per scan and two more, at least three, and
  the user's is never one of the new ones.

* Service: one source name with two sources, so that it can be replaced; a Spark
  engine with a replacement; DuckDB with one engine of the application's and three
  that the factory makes, enough to make one, close it and make another.  `Change`
  waits while the factory has none left.

## Fairness

* `DuckDBEngine`: each call of the engine runs on (`WF` of its steps, including the
  hooks of a result that was closed).  Nothing makes the caller read or close a
  result, so `ClosedResultsRelease` starts at the close; weak fairness is enough
  for the lock, because a call holds it for one step and there are finitely many
  calls.
* Planning and execution of a query, the sources and the service have safety properties
  only.  A query is one synchronous call without a lock or a wait in it.

## Proofs

TLAPS checks, for every set of columns, predicates, projections, limits, targets
and every bound on the conjuncts, and for every set of adapters, names and factories:

* `PlannerTypeCorrect` (**PlannerProofs**): `PlannerSpec => []PlannerTypeOK`.
* `PlannerIsComplete`: `PlannerSpec => []CompletenessHolds`, the planner's own
  assertion ("planner violated the completeness invariant") never fires.  That is
  not inductive: `Finish` runs the check on placements made several steps before.
  `PlacementInv` strengthens it with what each visited node has established:
  the loop visits in order (`PendingInPlan`, `VisitsInOrder`), and a visited filter,
  projection or limit is placed in a way its rules accept, or rejected
  (`FilterPlaced`, `ProjectPlaced`, `LimitPlaced`).  The limit's rule refers to the
  residual predicate and the projection's to the needed columns, so the order of
  visits is part of the argument: a filter visited later would spoil both.
* `PlannerExplainsTruthfully` and `PlannerRejectsOnlyTheImpossible`: the other two
  invariants of the planner that the run `query_execution` checks.  `ExplainInv` adds to `PlacementInv` that an
  explanation settled at a visit stays true of what was placed, and for a rejected node
  the *reason* of the rejection.  That reason refutes every other split the completeness
  check would accept (`NoSplitRemains`): `AcceptedSplit` reads off the check, which counts
  conjuncts, that each conjunct could be pushed or rechecked, and that a conjunct the
  loop leaves to the engine is left to it by every accepted split; hence a projection
  that some split runs in the scan alone is one the loop runs there too
  (`WholeProjectionIsKept`, which needs that the columns of a pure projection are asked
  for in its own order whatever the engine reads besides, `PureProjectionNeedsItself`),
  and so is a limit.
* `NeededColumnsComplete`: a pruning scan is told to deliver
  every column that the projection and the residual conjuncts read.
* `ReferencedColumnsComplete` and `ReferencedColumnsExact`:
  `referenced_columns` names exactly the columns that occur, each once.
  `NeededColumns` rests on it.
* `QueryImplementsLogical` (**QueryExecutionProofs**): `Spec => ImplementsLogicalQuery`,
  the refinement `query_execution` checks, for any finite set of rows.  The invariant
  `QueryInv` is `PlacementInv` with three facts: nothing is scanned before the plan is
  finished, a finished plan has no pending node, and what was scanned is something the
  capabilities allow.  From it follow, separately, that the engine's WHERE over any
  such scan leaves exactly the logical rows (`ScanIsSufficient`: a scan that is not
  exact leaves all its conjuncts to the engine as well), that the bound is right
  (`AnswerSize`: a limit is pushed only when the engine filters nothing), and that the
  columns are (`AnswerColumns`); `CompiledAnswer` says the same of Spark's relation.
  The builder's calls map to `Narrow`, `Show` and
  `Bound`, `Evaluate` and `Compile` to `Answer`, `Refuse` to `Refuse`, planning and scanning to
  stutters.
* `EngineReadsDelivered`: `Spec => []EngineColumnsDelivered`, from the same lemmas and
  `NeededColumnsComplete`; and `QueryTypeCorrect`: `Spec => []TypeOK`.
* `AdaptersAccountedFor` and `ClosedNotServed` (**QueryServiceProofs**):
  `NothingForgotten` and `ServesOnlyLive` of every reachable state.  Neither is
  inductive alone: an adapter displaced by a replacement is accounted for because it
  is stored under its own name, and an engine made on first use is not a closed one
  because only accepted adapters are closed; both are in `RegistryTypeOK`.
* `ServiceTypeCorrect`: `TypeOK` of **QueryService**.  `CallInv` adds that the engine a
  call selected stays the registered one while the default engine is made.
* `DiscoveryGoesInOrder`: `DiscoveryInOrder`, with `OrderInv`: what is preferred to a
  route still to be tried has failed or comes before it in the list.  The list is made
  once and the registry changes only between calls, which `CallInv` keeps track of.

For any calls, storages, locations and numbers of batches (**DuckDBEngineProofs**):

* `EngineNeverLeaks`, `EngineReleasesOnce`, `EngineReleasesInOrder` and
  `EngineTypeCorrect` from one invariant, `CallsInv`: while `execute()` goes on, its
  cleanup stack names what the call holds, each once and each above what it was built
  on (`Stacked`); from then on the hooks left to run do so from their head
  (`Releasable`).  `StackAppend`, `ReverseReleases` and `TailReleases` carry that
  through acquiring a resource, turning the stack into hooks, and running one.  A step
  of one call disturbs another's part of it through nothing but the bridge's table.
* `EngineMountsAreHeld`: the table has no entry without a holder.
  `OwnMountsSurvive`: `OwnLocations => (Spec => []MountSurvives)`.  Without the
  hypothesis, that no two calls read one location through the bridge, it is false:
  that is the first disagreement below, and the theorem says when it does not arise.
* `EngineLosesNothing`: `NothingLostOrRepeated`, from `ReadsInv`, which says what was
  delivered of the batches read so far to iterators and to a table.

For any number of scans and connections, and a source of any of the four kinds
(**DatabaseSourcesProofs**):

* `SourcesKeepTheirAccounts`: `SourceInv` is inductive.  It has what each scan has to
  release in each of its states and each state of its stream, down to the two agents
  that may be inside `ArrowStream.close` at once (`ScanInv`); which streams the source
  and a running `close()` know of (`AccountInv`); who has which connection, for owned and
  for injected ones (`ConnectionInv`); and that a scan with a session has had the schema
  (`SchemaFirst`).
* From it: `SourcesReleaseSessions`, `SourcesLeaveInjectedOpen`, `SourcesSeparateScans`,
  `SourcesCloseEverything`, `SourcesCloseStreams` and `SourcesTypeCorrect`, which are the
  six invariants of the run `database_sources`.  The steps the kinds share are proved
  once, for a source in the middle of them, and cited by each kind.

For every document, limit and batch size (**XmlReaderProofs**):

* `RowsComeInOrder`, `ParserHoldsOneRow` and `ReaderTypeCorrect` from `ReaderInv`: the
  invariants that `scans` checks under the names `RowsInDocumentOrder`, `OneRowInMemory`
  and `TypeOK` where its initial state is a document.  The
  stack is a path of ancestors and what starts next starts on it (`PathInv`); the open
  row is the outermost element on it with the row tag (`RowInv`); the rows returned are
  those that have started, without the open one (`ReturnedInv`), and fewer than the
  limit until the last (`CountInv`).  `PathInv` rests on the order of the document: an
  element that ended is an ancestor of nothing that starts later, since what starts
  next has its parent on the rest of the stack (`EndsOnPath`).

For every source, limit and batch size (**ScanProofs**):

* `ScanTypeCorrect` and `ScanAnswersPredicate`: `ScanSpec => []ScanTypeOK` and
  `ScanSpec => []ScanAnswers`, for any finite collection and any predicate.  `ScanInv`
  has that the provider's rows, the buffer and the batches are apart (`RowsApart`), and
  for each place in which a limit can be counted what holds there.  A scan that has not
  begun has nothing (`NothingRead`); where the provider limits, what it will still
  return and what was produced are together what was asked for (`ProviderLimits`); where
  the process does, they are at least that, never more was produced than the limit, and
  while anything can be read less was (`ProcessLimits`).  That the scans of the MongoDB,
  Neo4j, Iceberg, Delta and SQL adapters are such scans is the property `ScanSpec` of the
  run `scans`, which TLC checks on its instance, for servers that `Compensated` describes.
  `ScanAnswers`, and so the theorem, leaves open how many rows a scan returns whose limit
  is zero and which evaluates conjuncts in process: that is the Neo4j disagreement below.
* `DiscoveriesAlwaysAgree`: `ScanSpec => []DiscoveriesAgree`, for every set of kinds of
  values that a property can have.

Predicates and values are trees, and what the adapters make of them is recursion over
trees.  The provers have no induction rule that takes a predicate, so the induction is
done once, in first-order form: `TreeInduction` is about a set of trees with a depth and
a set of those that are good, and concludes that all are.  A theorem about a recursive
definition is one about any function that satisfies its equation at each node of a set of
trees.  The operators satisfy the equations by their definitions; each equation is the
operator of one node (`NodeFilter`, `NodeArrow`, `NodeInferred`...) from which the
recursion is built (`Visit`, `Mask`, `infer_type`..., which stand for the same lines of the
code), so the theorem and the run are about the same definitions.  So, for
trees of any depth and rows with any values:

* `IcebergFilterIsSound`: where a predicate is true, or under NOT false, the filter built
  from it matches; where the filter is exact it matches nothing else.  `IcebergRecheckAgrees`:
  the masks of the recheck keep a row where the predicate is true.  `IcebergKeepsPredicate`
  puts both together: what passes is what the predicate keeps, and a limit is pushed only
  with a filter that keeps no other row.
* `DeltaExpressionAgrees`: the dataset expression has the truth value of the predicate,
  NULLs in lists and under NOT included.
* `InferredTypesConvert`, and `InferredTypesRetain` (**XmlReaderProofs**): a document value,
  and an XML value, is converted by the type inferred from any set it is a member of, and
  of an XML value no field, item or text turns into NULL; a number read as a float is the
  nearest float, which may have fewer digits than the text.

And of the types:

* `UnifySymmetric`, `UnifyClosed`, `UnifyRefines` and `ComparableWhenInspected`
  (**TypesProofs**), for every precision limit, number of digits of an integer and set
  of time zones: the common type does not depend on the order of operands; it is well
  formed, and portable if the operands are; and when a parameter's type, unknown at
  inspection, becomes known, no other known type changes and nothing becomes
  incomparable.
* `InspectedAsBound`, which rests on the last two: for every expression, schema and values
  of parameters, what binds with the values binds without them, as the same tree, and its
  type with them refines the type without.  It is what `InspectionAgrees` says of each
  expression of a statement, by `TreeInduction` again: one step for each kind of node.

The assumptions are those of the modules: `PrecisionAssumption` and `DigitsAssumption`
(positive precisions, the portable one not above Arrow's), `RegistryInputs` and
`ServiceInputs` (names of sources and engines are distinct tables, factories make engines
of their name), `PlannerInputs` (predicates, projections and targets have the shape their
dataclasses enforce), `ColumnsAreNames`, `RowsFinite` and `TableOrder` (the table's
columns are the source's), `EngineInputs` (the constants of the engine have their types,
and a call is an execution or a schema discovery), `NoLimitAssumption` and
`BatchSizeAssumption` (no limit is not a number, a batch has room for a row) and
`ConnectionsSuffice` (there is always a connection that nobody holds), checked by TLC
for each instance.

Only model-checked:

* The liveness properties, which TLAPS does not reach.
* That the scans of the adapters implement `ScanSpec`, a refinement in which each adapter
  evaluates trees by its own recursive operators.
* `FilterIsSound`, `ConvertsWhatItInferred`, `SampledValuesFit`, `InspectionAgrees` and
  `WellTyped` as they are stated, over the recursive operators of the runs: the prover
  loses its arithmetic in a module that reaches one.  The theorems above are their
  counterparts in first-order form.  For `SampledValuesFit` and `InspectionAgrees` these are
  the parts about one tree: how a sample is collected and how a plan's nodes are bound
  in order stay with TLC.  `WellTyped` has only the lemmas on `unify` under it.
* `FrontendKeepsMeaning`: its statements are a list of trees, and sqlglot's meaning is
  external.
* `EnginesComputeAlike`, which is about the digits of products and quotients: powers of
  ten are a recursion over numbers.

## Where the code and its documentation disagree

1. *Shared mount* (`fs_bridge.py:41`).  Mounts are keyed by storage name and
   location and not counted.  Of two calls on one location, the first to finish
   unmounts it for the other, whose reads then fail with `FileNotFoundError`;
   `schema()` on a registered file while a result over it is being read is enough.
2. *Single consumption* (`result.py:58`).  The README says local results are
   single-consumption and the error says "results can be consumed once", but
   `_consumed` is written and never read: after an iterator has taken batches,
   `to_arrow()` returns the remaining ones as if they were the result.
3. *MySQL close* (`mysql.py`, `scan`).  A scan admitted before `close()` registers
   its stream after it; "`close` closes every live stream" does not hold, and the
   connection stays open until the stream is closed.  The PostgreSQL source looks
   again and closes such a stream.
4. *MySQL injected connection* (`mysql.py`, `scan`).  "Only one scan may be in flight
   at a time" is tested against streams that are registered only after the
   statement ran: two threads pass it together.
5. *Neo4j limit 0* (`neo4j.py:878`).  With conjuncts that run in process the limit is
   compared after a row was kept, so `LIMIT 0` returns one row, although the source
   declares full support for limits and the engine therefore applies none.
6. *MySQL zero dates* (`mysql.py:159`).  "Zero dates read as NULL" (`mysql.py:505`), and
   NULL logic is three-valued, but a pushed `d < x` is evaluated by the server, to which a
   zero date is the earliest of all: the scan returns the row, with NULL for `d`.
7. *PostgreSQL order of text* (`postgres.py:77`).  The documented profile follows code
   points (`mysql.py:280`), and PostgreSQL's known deviations are `citext` and
   non-deterministic collations, with `text` as the remedy (`postgres.py:204-208`).  The
   generator renders `<` on text without a `COLLATE`, so in a database with a linguistic
   collation a scan returns rows the engine would drop.

Smaller ones, which the models exclude or show without a run of their own:

* A planner may push a boolean column, a literal or a nested comparison to MongoDB as a
  conjunct; `_translate` has no filter for it and `_evaluate` raises at the first
  document (`mongodb.py:1093`).  Such a scan fails in the model as well.
* `{field: null}` also matches arrays that contain null, ObjectId columns compared to
  text that is no hex id, and Decimal128 NaN are outside the profiles.
* `SELECT * EXCEPT (a)`, `* REPLACE` and `* RENAME` are taken for `*`
  (`frontend.py:205-213`): the modifiers are dropped, although "Unsupported SQL shape is
  rejected while parsing" (`README.md:508`).  The model has such stars (`Star(table,
  modified)`), translates them as the code does and excepts them from
  `FrontendKeepsMeaning`; that all columns come back can be read off two lines and needs
  no search.
* NaN is left out: Iceberg's filter for `NOT (x < 5)` is `x >= 5`, which drops it.
* `service.py:83` makes the default engine while it lists the routes of schema
  discovery: without `duckdb`, a Spark engine's call raises `MissingDependencyError`
  (`DiscoveryInOrder` has the order of the routes).
* `spark_engine/engine.py:417` calls `like` with Spark's default backslash escape,
  where `expressions.py:271` says that LIKE has no escape (PostgreSQL's generator
  renders `ESCAPE ''` for that reason).  A pattern is a set of ranks in the model, so
  its characters are outside it.  A NULL pattern raises `ExecutionError` on Spark.
* `SELECT a, a` raises `ValueError` instead of the frontend's own error; the model
  counts it as a refusal.

## Not modelled

Texts, logging, redaction and wording; quoting and placeholders in SQL and Cypher;
type mapping tables, to Arrow and to Spark; connection options; drivers, DuckDB,
sqlglot, pyarrow, pyiceberg, delta-rs and fsspec, beyond what the code relies on; the
batch contents.  `LocalResult` is driven by one thread: DuckDB and pyarrow readers are
not shared between threads by this code.

* *Digits of MongoDB decimals.*  A decimal is a rank, and its conversion to the column's
  scale the identity.  In the code a value with more digits behind the point than its
  column keeps is compared as stored when the predicate is pushed and read as rounded
  (`mongodb.py:830`), where `quantize` raises for more than 28 digits.
* *Storages and the bridge's paths.*  `resolve`, `ls` and `glob` are arithmetic on the
  characters of paths, which would have to be spelled out.
* *Iceberg metadata.*  Which file is current is read from `version-hint.text` or a
  listing.  Both belong to the catalog that writes the table, and nothing in the
  repository says in which order it does so.
* *Builder, factories, loading, formats, locations, credentials, redaction*: immutable
  values and delegation.
* *Plan serialisation and fingerprints*: a fixed mapping of each node to a dictionary.
* *The arithmetic SQL of the MySQL and PostgreSQL sources*: they do not declare
  arithmetic pushable, so no plan reaches it.
* *Threads that share a context*: nothing says they may, and the registry has no lock.

## Plan

Modelling and proving follow the plan to its end.  Every safety invariant whose module is
free of recursion is proved, and the induction over trees that the adapters' translations
need is done in first-order form; what is left is listed under "Only model-checked".

Runs stay few: one per question, with several components of one kind summed into
one instance, as `DatabaseSources` does.
