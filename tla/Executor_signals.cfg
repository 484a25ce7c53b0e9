SPECIFICATION Spec
CONSTANTS
  MAX_DEPTH = 2
  MaxCount = 2
  Kinds <- SignalKinds
  Simples <- SignalSimples
  Operators = {}
  DeepKinds <- SignalKinds
  DeepSimples <- SignalSimples
  Results = {0, 1}
  Signals = {10}
  Interactive = TRUE
  PipesFail = FALSE
INVARIANTS DollarStatus OneTrapAtATime
