CONSTANTS
  Columns <- MCColumns
  TableColumns <- MCTableColumns
  OutputNames <- MCOutputNames
  Rows <- MCRows
  Predicates <- MCPredicates
  ProjectionChoices <- MCProjectionChoices
  LimitChoices <- MCLimitChoices
  Targets <- MCTargets
  NoTarget = NoTarget
  NoAnswer = NoAnswer
  Refused = Refused
  EngineFailure = EngineFailure
  NotScanned = NotScanned
  MaxClauses = 2
SPECIFICATION Spec
CONSTRAINT Followed
INVARIANTS
  TypeOK
  CompletenessHolds
  RejectsOnlyTheImpossible
  ExplainIsTruthful
  EngineColumnsDelivered
PROPERTY
  ImplementsLogicalQuery
CHECK_DEADLOCK FALSE
