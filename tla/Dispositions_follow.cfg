SPECIFICATION Spec
CONSTANTS
  Main = main
  Copies = {c1, c2}
  Trappable = {"INT", "TERM"}
SYMMETRY CopySymmetry
INVARIANTS TypeOK DispositionsFollowTraps ProgramDefaults ProgramIgnores SurvivesUntilExec
