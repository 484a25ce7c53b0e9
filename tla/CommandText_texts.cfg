CONSTANTS
  MAX_DEPTH = 2
  Delimiters = {"A"}
  MaxDocs = 1
  ScannerGaps = FALSE
  Order <- MCOrder
  Home <- MCHome
  WIDTH = 4
  Questions <- MCQuestions
  Subjects <- MCSubjects
  Files <- MCFiles
SPECIFICATION Spec
INVARIANTS
  UnfinishedCanBeFinished
  ScannerAgrees
  PatternsMatch
  PathnamesFound
  ReadSplitsLikeWords
  QuotesKeepFields
  ValueIsTheWord
  ArithmeticMeans
  TestByCount
  PrintfDeals
CHECK_DEADLOCK FALSE
