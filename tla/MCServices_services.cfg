SPECIFICATION FairSpec
CONSTANTS
  Fetchers = {f1, f2}
  Rates = {0, 1, 2}
  Sizes = {1, 2}
  Unit = 2
  MaxChanges = 1
  Mirrors = {1, 2, 3, 4}
  MetadataOnly = {4}
  Pullers = {p1, p2}
  MaxRetries = 3
  Lengths <- MCLengths
  Servers <- MCServers
  Layouts <- MCLayouts
  Writers = {w1, w2}
  MaxPart = 3
  MaxOffset = 3
  Jobs = {1, 2, 3}
  Capacity = 2
  MaxRestarts = 2
  Resolvers = {r1, r2}
  Magnets = {r1}
  Own <- MCOwn
  Brought <- MCBrought
  Configs <- MCConfigs
  Static <- MCStatic
  Malformed = {"nohost"}
  Lists <- MCLists
  Answers <- MCAnswers
  Page <- MCPage
  InputKind = "auto"
  Limits <- MCLimits
  MaxDiagnostics = 1
  MaxStarts = 2
  MaxStorms = 1
INVARIANTS
  RateIsKept
  LimitReachesSleepers
  WorkingSourceIsFound
  ProbeIsOfOneVersion
  BytesAreInPlace
  HintsAreBounded
  KnownListIsUsed
PROPERTIES
  AcquireReturns
  WaitReturns
CHECK_DEADLOCK FALSE
