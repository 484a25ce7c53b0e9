CONSTANTS
  None = None
  main = main
  c1 = c1
  c2 = c2
  Main <- main
  Copies <- TheCopies
  Links <- TheLinks
  Names <- AllNames
  Temporary = {"t"}
  Programs = {"p"}
  DefaultPath <- TheDefault
  Fds <- AllFds
  Files <- AllFiles
  DirNames <- AllDirs
  Masks = {"022", "077"}
  Scripts <- AllScripts
  Environments <- TheEnvironments
  MaxStages = 2
  MaxFrames = 3
  ExecAnywhere = FALSE

SPECIFICATION Spec
SYMMETRY Symmetry
INVARIANTS TypeOK PrefixUndone FilesFollow PwdTrue LookupSound
PROPERTIES CopyIsAValue ReadonlyStays
