SPECIFICATION Spec
CONSTANTS
  lib1 = lib1
  Libraries <- OneLibrary
  Lexemes <- Text
  MaxLexemes = 10
  YYINITDEPTH = 4
  YYMAXDEPTH = 9
  MaxLoads = 4
  MaxParsing = 0
  FewLexemes = 4
  MaxDepth = 1
INVARIANT
  UnloadingAsDocumented
