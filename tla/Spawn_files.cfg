SPECIFICATION FairSpec
CONSTANTS
  Limit = 13
  RawFdMax = 20
  Targets <- AnyTargets
  Sources <- AnySources
  Inherited = {}
INVARIANTS TypeOK FilesInPlace NothingElse ReportHonest
PROPERTY Answered
