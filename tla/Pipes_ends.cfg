\* `$(exec 3>&1; ...)' stops for ever: Terminates is about that, not a deadlock check.
CHECK_DEADLOCK FALSE
SPECIFICATION FairSpec
CONSTANTS
  N = 3
  Capacity = 1
  Amount = 1
  PipesFail = TRUE
  Pipelines <- Triples
INVARIANTS TypeOK CutOffByTheEnd OutputComplete
PROPERTY TerminatesIfUndup
