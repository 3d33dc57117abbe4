SPECIFICATION Spec
CONSTANTS
  s1 = s1
  s2 = s2
  d1 = d1
  d2 = d2
  d3 = d3
  own = own
  spark1 = spark1
  spark2 = spark2
  Nothing = Nothing
  SourceKeys <- MCSourceKeys
  EngineKeys <- MCEngineKeys
  Adapters <- MCAdapters
  KeyOf <- MCKeyOf
  Factories = {"duckdb"}
  Made <- MCMade
  DefaultEngine = "duckdb"
  Local <- MCLocal
  Compiling <- MCCompiling
SYMMETRY Symmetry
INVARIANTS
  TypeOK
  NothingForgotten
  ServesOnlyLive
  DiscoveryInOrder
CHECK_DEADLOCK FALSE
