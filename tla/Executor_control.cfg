SPECIFICATION Spec
CONSTANTS
  MAX_DEPTH = 3
  MaxCount = 2
  Kinds <- ControlKinds
  Simples <- ControlSimples
  Operators <- ControlOperators
  DeepKinds <- ControlDeepKinds
  DeepSimples <- ControlDeepSimples
  Results = {0}
  Signals = {}
  Interactive = FALSE
  PipesFail = FALSE
INVARIANTS TypeOK Balanced StackBounded
PROPERTIES UnwindHasHandler ErrexitDecides EndsEverything
