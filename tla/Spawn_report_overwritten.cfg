SPECIFICATION Spec
CONSTANTS
  Limit = 12
  RawFdMax = 20
  Targets <- ReportTargets
  Sources <- AnySources
  Inherited = {}
INVARIANT ReportHonest
