CONSTANTS
  Lexicon <- MCLexicon
  Bindings <- MCBindings
  MaxNesting = 4
  MaxStates = 16
  MaxPattern = 3
  DotToken = "dot"
  DdotToken = "ddot"
  OpenToken = "open"
  CloseToken = "close"
  PopenToken = "popen"
  PcloseToken = "pclose"
  CommaToken = "comma"
  Expressions <- MCAll
  Trees <- MCTrees
  Jobs <- MCJobs
SPECIFICATION Spec
INVARIANTS
  SelectsDeclared
  PlanFits
  ExistsHonest
CHECK_DEADLOCK FALSE
