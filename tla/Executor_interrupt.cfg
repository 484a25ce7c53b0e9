SPECIFICATION FairSpec
CONSTANTS
  MAX_DEPTH = 2
  MaxCount = 2
  Kinds <- EndlessKinds
  Simples <- EndlessSimples
  Operators <- EndlessOperators
  DeepKinds <- EndlessKinds
  DeepSimples <- EndlessSimples
  Results = {130}
  Signals = {}
  Interactive = TRUE
  PipesFail = TRUE
PROPERTIES InterruptEndsLine
