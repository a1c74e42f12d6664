SPECIFICATION Spec
CONSTANTS
  lib1 = lib1
  Libraries <- OneLibrary
  Lexemes <- Text
  MaxLexemes = 10
  YYINITDEPTH = 4
  YYMAXDEPTH = 9
  MaxLoads = 3
  MaxParsing = 2
  FewLexemes = 4
  MaxDepth = 3
INVARIANTS
  GrammarDecides
  CleanParse
  TreeIsTheFile
  TreesAreAlive
  EveryValueIsFound
  LoadedIsWhole
  FailedLoadsAreUndone
PROPERTIES
  SweepSkipsNone
