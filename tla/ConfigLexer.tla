----------------------------- MODULE ConfigLexer -----------------------------
(***************************************************************************)
(* The scanner flex makes of ConfigParser.l: one buffer, one start         *)
(* condition and one FILE pointer for the whole process, kept from one     *)
(* parse to the next. What a file holds is chosen lexeme by lexeme as it   *)
(* is scanned, and so is where it ends; a lexeme is named by its position  *)
(* among all that were ever scanned.                                       *)
(***************************************************************************)
EXTENDS Naturals, Sequences

CONSTANTS
  Lexemes,      \* what a file may hold
  MaxLexemes    \* bound on the lexemes scanned, in all files together

VARIABLES
  yyin,         \* the file opened last, 0 before the first
  unread,       \* nothing of that file was read into the buffer yet
  source,       \* the file whose rest is in the buffer, 0 if the buffer is empty
  status,       \* yy_buffer_status
  yy_start,     \* the start condition
  stringBuffer, \* g_networkd_cfg_yystringBuffer: positions of the lexemes in it
  scanned,      \* history: number of lexemes scanned
  files         \* history: the files this parse scanned lexemes of

lexVars == <<yyin, unread, source, status, yy_start, stringBuffer, scanned, files>>

\* The tokens, as bison numbers them.
YYEOF       == 0
yytranslate ==
  [x \in {"{", "}", "[", ",", "]", "=", ";", "name", "string", "number", "'"} |->
    CASE x = "{" -> 3 [] x = "}" -> 4 [] x = "[" -> 5 [] x = "," -> 6 [] x = "]" -> 7 [] x = "=" -> 8 [] x = ";" -> 9
      [] x = "name" -> 10 [] x = "string" -> 11 [] x = "number" -> 12 [] x = "'" -> 13]

Named == {"name", "number"}
\* Lexemes matched by a rule that takes as much as it can: the scanner looks behind them for more.
OpenEnded == Named \cup {"text", "# line", "/* line", "/* line */", "line", "line */"}
\* What there is to be matched in each start condition; inside a comment, a line that ends
\* it or does not. Characters no rule matches are printed and skipped, like "space".
Matched == [INITIAL      |-> (DOMAIN yytranslate \ {"string"}) \cup (OpenEnded \ {"text", "line", "line */"}) \cup {"quote", "space"},
            stringconst  |-> {"text", "quote"},
            multicomment |-> {"line", "line */", "space"}]

LexInit ==
  /\ yyin = 0 /\ unread = FALSE /\ source = 0 /\ status = "NEW"
  /\ yy_start = "INITIAL" /\ stringBuffer = <<>> /\ scanned = 0 /\ files = {}

-----------------------------------------------------------------------------
(* YY_END_OF_BUFFER: more of yyin is read, whatever file the buffer was filled from. A new   *)
(* buffer, and one that was left in the middle of an older file, take the new file alike.    *)
Refill ==
  /\ status = "NEW" \/ (status = "NORMAL" /\ unread)
  /\ source' = yyin /\ status' = "NORMAL" /\ unread' = FALSE
  /\ UNCHANGED <<yyin, yy_start, stringBuffer, scanned, files>>

MutantEndOfFile ==
  /\ status = "EOF_PENDING" \/ (status = "NORMAL" /\ ~unread)
  /\ source' = 0 /\ UNCHANGED <<status, yyin, unread, yy_start, stringBuffer, scanned, files>>

\* Nothing more can be read, or the lexeme before had seen the end: yyrestart() empties the buffer
\* and marks it new, but keeps the start condition. The caller gets 0.
EndOfFile ==
  /\ status = "EOF_PENDING" \/ (status = "NORMAL" /\ ~unread)
  /\ source' = 0 /\ status' = "NEW"
  /\ UNCHANGED <<yyin, unread, yy_start, stringBuffer, scanned, files>>

\* The lexeme x comes next in the buffer; if it is open-ended it may be the last of its file. That an
\* open-ended one which ends an older file's rest is continued by the next file's first characters
\* is left out: it takes a parse that failed, after which CleanParse says nothing.
Take(x) ==
  /\ x \in Matched[yy_start] /\ status = "NORMAL" /\ source # 0 /\ scanned < MaxLexemes
  /\ scanned' = scanned + 1 /\ files' = files \cup {source}
  /\ status' \in {"NORMAL"} \cup (IF x \in OpenEnded /\ ~unread THEN {"EOF_PENDING"} ELSE {})
  /\ UNCHANGED <<yyin, unread, source>>

\* What a lexeme does to the start condition and to the string buffer. A comment that is closed on
\* the line it began on stays open: "/*".* takes the whole line.
Enters(x) ==
  CASE yy_start = "INITIAL" /\ x \in {"/* line", "/* line */"} -> <<"multicomment", stringBuffer>>
    [] yy_start = "INITIAL" /\ x = "quote"                     -> <<"stringconst", <<>> >>
    [] yy_start = "INITIAL" /\ x \in Named                     -> <<"INITIAL", <<scanned'>> >>
    [] x = "text"                                              -> <<"stringconst", Append(stringBuffer, scanned')>>
    [] yy_start = "stringconst" /\ x = "quote"                 -> <<"INITIAL", stringBuffer>>
    [] x = "line */"                                               -> <<"INITIAL", stringBuffer>>
    [] OTHER                                                   -> <<yy_start, stringBuffer>>

Match(x) ==
  /\ Take(x)
  /\ yy_start' = Enters(x)[1] /\ stringBuffer' = Enters(x)[2]

\* The token a lexeme is returned as, if it is one.
Tokens(x) ==
  CASE yy_start = "INITIAL" /\ x \in DOMAIN yytranslate -> {yytranslate[x]}
    [] yy_start = "stringconst" /\ x = "quote"          -> {yytranslate["string"]}
    [] OTHER                                            -> {}

\* parseFile() points yyin at the file it opened, and tells flex nothing of it.
Open(file) ==
  /\ yyin' = file /\ unread' = TRUE /\ files' = {}
  /\ UNCHANGED <<source, status, yy_start, stringBuffer, scanned>>

=============================================================================
