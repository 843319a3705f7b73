CONSTANTS
  KeySpan = 16
  IntSpan = 8
  Indeterminate = Indeterminate
  Hash <- MCHash
  TextFileLists <- MCTextFileLists
  Loads <- MCLoads
  Directories <- MCDirectories
  KeyStrings <- MCKeyStrings
  Alphabet = {"a", "b"}
  Texts <- MCTexts
  Patterns <- MCPatterns
  Arrays <- MCArrays
  Decimals <- MCDecimals
  SortedLists <- MCSortedLists
  Numbers = {"1", "22"}
  Depth = 2
  RexChars = {"a", "b", ".", "*"}
  Rexes <- MCRexes
  Words <- MCWords
SPECIFICATION Spec
CHECK_DEADLOCK FALSE
INVARIANTS
  BlocksLoseNoLine
  LoadsWhatLinesSay
  NodeAnswers
  KmpFindsFirst
  QsortSorts
  MultipliesDecimals
  MergesAllNodes
  ReadsBackTerm
  MatchesLanguage
