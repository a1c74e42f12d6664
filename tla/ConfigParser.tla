----------------------------- MODULE ConfigParser -----------------------------
(***************************************************************************)
(* The parser bison makes of ConfigParser.y, run by its tables, and the    *)
(* tree its actions build through three global variables. One action is    *)
(* one round of yyparse(): a lexeme scanned, a token shifted, a rule       *)
(* reduced, or the end.                                                    *)
(***************************************************************************)
EXTENDS ConfigLexer, Integers, SequencesExt

CONSTANTS YYINITDEPTH, YYMAXDEPTH  \* the parser's stack, and what it may grow to

ASSUME DepthAssumption == YYINITDEPTH \in Nat /\ YYMAXDEPTH \in Nat /\ 1 < YYINITDEPTH /\ YYINITDEPTH <= YYMAXDEPTH

VARIABLES
  pc,             \* "idle", or where yyparse() stands: "backup" or "return"
  yyss,           \* the state stack
  yystacksize, yychar, yyresult,
  nodes,          \* every ConfigurationNode ever made, by number
  rootSection, currentSection, currentValue,   \* the grammar's globals: nodes, 0 for none
  forms,          \* history: what the grammar allows to follow
  tokens,         \* history: the tokens of this parse, with their strings, but for the marks of a list
  clean           \* history: no earlier parse failed, or ended inside a comment or string

tree      == <<nodes, rootSection, currentSection, currentValue>>
history   == <<forms, tokens, clean>>
parseVars == <<pc, yyss, yystacksize, yychar, yyresult, tree, history>>

Grammar == INSTANCE ConfigGrammar

-----------------------------------------------------------------------------
(* The tables. States, tokens, rules and indices count from 0 in the code, sequences from 1. *)

YYEMPTY   == -2
YYNTOKENS == 14
YYFINAL   == 4
YYTERROR  == 1
YYPACT_NINF  == -11
YYTABLE_NINF == -12

yyr1      == <<0, 14, 15, 15, 16, 17, 18, 19, 19, 19, 20, 21, 22, 22, 22, 23, 24, 24>>
yyr2      == <<0, 2, 0, 3, 1, 4, 1, 0, 2, 2, 4, 1, 1, 1, 3, 1, 1, 3>>
yydefact  == <<2, 4, 0, 7, 1, 6, 7, 0, 0, 7, 0, 9, 7, 3, 8, 0, 0, 15, 12, 13, 0, 0, 5, 10, 16, 0, 0, 14, 17>>
yydefgoto == <<-1, 2, 3, 6, 7, 8, 9, 10, 24, 21, 25>>
yypact    == <<-2, -11, 3, -6, -11, 1, -6, 7, 8, -6, 5, -11, -6, -11, -11, -5, 10, -11, -11, -11,
               2, -5, -11, -11, 9, 11, -5, -11, -11>>
yypgoto   == <<-11, -11, -11, -11, -11, -4, -11, -11, 4, -11, -10>>
yytable   == <<17, 1, 11, 4, 5, 14, 18, 19, 16, -11, 12, 23, 13, 15, 22, 26, 28, 0, 27, 20>>
yycheck   == <<5, 3, 6, 0, 10, 9, 11, 12, 12, 8, 3, 9, 4, 8, 4, 6, 26, -1, 7, 15>>

\* The entry of yytable that base and key lead to, if yycheck says it is theirs.
Entry(base, key) ==
  {yytable[i] : i \in {j \in {base + key + 1} \cap DOMAIN yytable : yycheck[j] = key}}

yystate == Last(yyss)
Looks   == yypact[yystate + 1] # YYPACT_NINF          \* the state wants to see a token
Found   == IF Looks THEN Entry(yypact[yystate + 1], yychar) ELSE {}

\* What is done next: a state is entered, a rule reduced, or neither.
Shifts  == {e \in Found : e > 0}
Reduces == IF Found = {} THEN {yydefact[yystate + 1]} \ {0} ELSE {- e : e \in {e \in Found \ {YYTABLE_NINF} : e < 0}}

\* No state shifts the error token, so yyerrlab1 pops them all and gives up.
ASSUME NoRecovery ==
  \A s \in DOMAIN yypact : yypact[s] = YYPACT_NINF \/ Entry(yypact[s], YYTERROR) = {}

-----------------------------------------------------------------------------
(* The grammar's actions. *)

Node(type, backlink) ==
  [nodeType |-> type, nodeName |-> stringBuffer, value |-> <<>>, valueList |-> <<>>,
   children |-> <<>>, backlink |-> backlink]

New == Len(nodes) + 1
Adopt(parent, child) == [nodes EXCEPT ![parent].children = Append(@, child)]

MutantEmptyBody == UNCHANGED tree

EmptyBody == rootSection' = 0 /\ UNCHANGED <<nodes, currentSection, currentValue>>

OpenBody ==
  /\ nodes' = Append(nodes, [Node("SECTION", New) EXCEPT !.nodeName = <<>>])
  /\ rootSection' = New /\ currentSection' = New /\ UNCHANGED currentValue

MutantCloseSection ==
  /\ nodes' = Adopt(nodes[currentSection].backlink, currentSection)
  /\ UNCHANGED <<rootSection, currentSection, currentValue>>

CloseSection ==
  /\ nodes' = Adopt(nodes[currentSection].backlink, currentSection)
  /\ currentSection' = nodes[currentSection].backlink /\ UNCHANGED <<rootSection, currentValue>>

NameSection ==
  /\ nodes' = Append(nodes, Node("SECTION", currentSection))
  /\ currentSection' = New /\ UNCHANGED <<rootSection, currentValue>>

Assign ==
  nodes' = Adopt(currentSection, currentValue) /\ UNCHANGED <<rootSection, currentSection, currentValue>>

NameValue ==
  /\ nodes' = Append(nodes, Node("VALUE", 0))
  /\ currentValue' = New /\ UNCHANGED <<rootSection, currentSection>>

SetValue ==
  /\ nodes' = IF nodes[currentValue].nodeType = "VALUE"
              THEN [nodes EXCEPT ![currentValue].value = stringBuffer]
              ELSE [nodes EXCEPT ![currentValue].valueList = Append(@, stringBuffer)]
  /\ UNCHANGED <<rootSection, currentSection, currentValue>>

OpenList ==
  /\ nodes' = [nodes EXCEPT ![currentValue].nodeType = "LIST"]
  /\ UNCHANGED <<rootSection, currentSection, currentValue>>

Acts(rule) ==
  CASE rule = 2        -> EmptyBody
    [] rule = 4        -> OpenBody
    [] rule = 5        -> CloseSection
    [] rule = 6        -> NameSection
    [] rule = 10       -> Assign
    [] rule = 11       -> NameValue
    [] rule \in 12..13 -> SetValue
    [] rule = 15       -> OpenList
    [] OTHER           -> UNCHANGED tree

-----------------------------------------------------------------------------
(* yyparse(). *)

\* parseFile() has opened a file.
Begin(file) ==
  /\ Open(file)
  /\ pc' = "backup" /\ yyss' = <<0>> /\ yystacksize' = YYINITDEPTH /\ yychar' = YYEMPTY /\ yyresult' = 0
  /\ forms' = Grammar!Start /\ tokens' = <<>> /\ clean' = (clean /\ yyresult = 0 /\ yy_start = "INITIAL")
  /\ UNCHANGED tree

Return(result) ==
  /\ pc' = "return" /\ yyresult' = result
  /\ UNCHANGED <<yyss, yystacksize, yychar, tree>>

\* yynewstate: the stack is doubled when the state pushed fills it, up to YYMAXDEPTH.
Push(stack) ==
  /\ yyss' = stack
  /\ \/ Len(stack) < yystacksize
        /\ pc' = "backup" /\ UNCHANGED <<yystacksize, yyresult>>
     \/ Len(stack) >= yystacksize /\ yystacksize < YYMAXDEPTH
        /\ yystacksize' = (IF 2 * yystacksize > YYMAXDEPTH THEN YYMAXDEPTH ELSE 2 * yystacksize)
        /\ pc' = "backup" /\ UNCHANGED yyresult
     \/ Len(stack) >= yystacksize /\ yystacksize >= YYMAXDEPTH
        /\ pc' = "return" /\ yyresult' = 2 /\ UNCHANGED yystacksize

GotToken(token) ==
  /\ yychar' = token /\ forms' = Grammar!After(forms, token)
  /\ tokens' = IF token \in {YYEOF, 5, 6, 7} THEN tokens
               ELSE Append(tokens, IF token \in 10..12 THEN stringBuffer' ELSE <<- token>>)
  /\ UNCHANGED <<pc, yyss, yystacksize, yyresult, tree, clean>>

\* The call of yylex() for a token to look ahead at, one lexeme at a time.
yylex ==
  /\ pc = "backup" /\ Looks /\ yychar = YYEMPTY
  /\ \/ Refill /\ UNCHANGED parseVars
     \/ EndOfFile /\ GotToken(YYEOF)
     \/ \E x \in Lexemes : /\ Match(x)
                           /\ IF Tokens(x) = {} THEN UNCHANGED parseVars
                              ELSE \E token \in Tokens(x) : GotToken(token)

Ready == pc = "backup" /\ (Looks => yychar # YYEMPTY)

Shift ==
  /\ Ready /\ \E state \in Shifts \ {YYFINAL} : Push(Append(yyss, state))
  /\ yychar' = IF yychar = YYEOF THEN YYEOF ELSE YYEMPTY
  /\ UNCHANGED <<lexVars, tree, history>>

MutantGoto(state, symbol) == yydefgoto[symbol - YYNTOKENS + 1]

Goto(state, symbol) ==
  LET found == Entry(yypgoto[symbol - YYNTOKENS + 1], state)
  IN IF found = {} THEN yydefgoto[symbol - YYNTOKENS + 1] ELSE CHOOSE e \in found : TRUE

Reduce ==
  /\ Ready
  /\ \E rule \in Reduces :
       LET stack == SubSeq(yyss, 1, Len(yyss) - yyr2[rule + 1])
       IN Acts(rule) /\ Push(Append(stack, Goto(Last(stack), yyr1[rule + 1])))
  /\ UNCHANGED <<lexVars, yychar, history>>

Accept == Ready /\ YYFINAL \in Shifts /\ Return(0) /\ UNCHANGED <<lexVars, history>>

\* A syntax error. The token that was looked at is lost, the rest of the file stays in the buffer.
SyntaxError ==
  /\ Ready /\ Shifts = {} /\ Reduces = {}
  /\ Return(1) /\ UNCHANGED <<lexVars, history>>

Parse == yylex \/ Shift \/ Reduce \/ Accept \/ SyntaxError

ParseInit ==
  /\ LexInit
  /\ pc = "idle" /\ yyss = <<0>> /\ yystacksize = YYINITDEPTH /\ yychar = YYEMPTY /\ yyresult = 0
  /\ nodes = <<>> /\ rootSection = 0 /\ currentSection = 0 /\ currentValue = 0
  /\ forms = {} /\ tokens = <<>> /\ clean = TRUE

=============================================================================
