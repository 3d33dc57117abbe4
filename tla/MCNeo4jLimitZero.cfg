CONSTANTS
  NoLimit = NoLimit
  BatchSize = 2
  Unit = 2
  Int32 = 4
  Int64 = 8
  ExactFloat = 8
  ExactDouble = 16
  SqlUnit = 100
  SqlInt64 = 5000
  SampleSize = 2
  PortablePrecision = 6
  MaxPrecision = 8
  IntegerDigits <- SmallDigits
  Lower <- LowerNames
SPECIFICATION Spec
INVARIANT LimitZeroIsEmpty
CHECK_DEADLOCK FALSE
