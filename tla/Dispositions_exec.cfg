SPECIFICATION Spec
CONSTANTS
  Main = main
  Copies = {c1}
  Trappable = {"INT", "QUIT"}
INVARIANT SurvivesKeys
