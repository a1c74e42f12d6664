------------------------- MODULE ConfigurationProofs -------------------------
(***************************************************************************)
(* Theorems about the parser and the configurations as ModuleManager uses  *)
(* them, for files of any length, stacks of any size and any number of     *)
(* loads: a parse reads its own file, a configuration's tree is its own    *)
(* and stays alive, the tables decide the grammar, and the tree of an      *)
(* accepted file says what the file says.                                  *)
(***************************************************************************)
EXTENDS ModuleManagerProofs, WellFoundedInduction

-----------------------------------------------------------------------------
(* The parser's stack.  It holds a path of the automaton that the tables   *)
(* describe, which tells what a rule pops.                                 *)

\* The states that may stand on top of a state.
Follows(s, t) ==
  \/ s = 0 /\ t \in 1 .. 3
  \/ s = 3 /\ t \in 5 .. 10
  \/ s \in {6, 9, 12} /\ t \in {5, 6, 7, 9, 10}
  \/ s = 6 /\ t = 11
  \/ s = 7 /\ t = 12
  \/ s = 8 /\ t = 13
  \/ s = 9 /\ t = 14
  \/ s = 10 /\ t = 15
  \/ s = 12 /\ t = 16
  \/ s = 15 /\ t \in 17 .. 21
  \/ s = 16 /\ t = 22
  \/ s = 20 /\ t = 23
  \/ s \in {21, 26} /\ t \in {17, 18, 19, 21, 24}
  \/ s = 21 /\ t = 25
  \/ s = 24 /\ t = 26
  \/ s = 25 /\ t = 27
  \/ s = 26 /\ t = 28

StackFine ==
  /\ yyss \in Seq(0 .. 28) /\ yyss # <<>> /\ yyss[1] = 0
  /\ \A i \in 1 .. Len(yyss) - 1 : Follows(yyss[i], yyss[i + 1])
  /\ yychar \in Int

\* The entries of yytable: the base and the key that lead to each.
IsEntry(b, k, e) ==
  \/ b = -5 /\ k = 5 /\ e = 17
  \/ b = -2 /\ k = 3 /\ e = 1
  \/ b = -4 /\ k = 6 /\ e = 11
  \/ b = 3 /\ k = 0 /\ e = 4
  \/ b = -6 /\ k = 10 /\ e = 5
  \/ b = -4 /\ k = 9 /\ e = 14
  \/ b = -5 /\ k = 11 /\ e = 18
  \/ b = -5 /\ k = 12 /\ e = 19
  \/ b = -4 /\ k = 12 /\ e = 16
  \/ b = 1 /\ k = 8 /\ e = -11
  \/ b = 7 /\ k = 3 /\ e = 12
  \/ b = 2 /\ k = 9 /\ e = 23
  \/ b = 8 /\ k = 4 /\ e = 13
  \/ b = 5 /\ k = 8 /\ e = 15
  \/ b = 10 /\ k = 4 /\ e = 22
  \/ b = 9 /\ k = 6 /\ e = 26
  \/ b = -10 /\ k = 26 /\ e = 28
  \/ b = 18 /\ k = -1 /\ e = 0
  \/ b = 11 /\ k = 7 /\ e = 27
  \/ b = 4 /\ k = 15 /\ e = 20

LEMMA Entries ==
  ASSUME NEW b \in Int, NEW k \in Int, NEW e \in Entry(b, k)
  PROVE  IsEntry(b, k, e)
<1>1. PICK i \in 1 .. 20 : i = b + k + 1 /\ yycheck[i] = k /\ e = yytable[i]
  <2>1. DOMAIN yytable = 1 .. 20
    BY SMT DEF yytable
  <2> QED BY <2>1 DEF Entry
<1> QED BY <1>1, SMT DEF yytable, yycheck, IsEntry

\* The entries that a goto may lead to.
LEMMA GotoEntries ==
  /\ 11 \in Entry(-4, 6) /\ 14 \in Entry(-4, 9) /\ 16 \in Entry(-4, 12)
  /\ 20 \in Entry(4, 15) /\ 28 \in Entry(-10, 26)
<1>1. DOMAIN yytable = 1 .. 20
  BY SMT DEF yytable
<1>2. ASSUME NEW b \in Int, NEW k \in Int, NEW i \in 1 .. 20, i = b + k + 1, yycheck[i] = k
      PROVE  yytable[i] \in Entry(b, k)
  BY <1>1, <1>2 DEF Entry
<1>3. /\ yycheck[3] = 6 /\ yycheck[6] = 9 /\ yycheck[9] = 12 /\ yycheck[20] = 15 /\ yycheck[17] = 26
      /\ yytable[3] = 11 /\ yytable[6] = 14 /\ yytable[9] = 16 /\ yytable[20] = 20 /\ yytable[17] = 28
  BY SMT DEF yycheck, yytable
<1>4. /\ 3 = -4 + 6 + 1 /\ 6 = -4 + 9 + 1 /\ 9 = -4 + 12 + 1 /\ 20 = 4 + 15 + 1 /\ 17 = -10 + 26 + 1
      /\ 3 \in 1 .. 20 /\ 6 \in 1 .. 20 /\ 9 \in 1 .. 20 /\ 20 \in 1 .. 20 /\ 17 \in 1 .. 20
      /\ -4 \in Int /\ 4 \in Int /\ -10 \in Int
  BY SMT
<1> QED BY <1>2, <1>3, <1>4

\* Where a goto leads.
GoesTo(u, sym) ==
  CASE sym = 15 -> 2
       [] sym = 16 -> 3
       [] sym = 17 -> 6
       [] sym = 18 -> 7
       [] sym = 19 -> (CASE u = 6 -> 11 [] u = 9 -> 14 [] u = 12 -> 16 [] OTHER -> 8)
       [] sym = 20 -> 9
       [] sym = 21 -> 10
       [] sym = 22 -> (IF u = 15 THEN 20 ELSE 24)
       [] sym = 23 -> 21
       [] sym = 24 -> (IF u = 26 THEN 28 ELSE 25)

LEMMA GotoFacts ==
  ASSUME NEW u \in 0 .. 28, NEW sym \in 15 .. 24
  PROVE  Goto(u, sym) = GoesTo(u, sym)
<1>1. PICK j : j = sym - YYNTOKENS + 1
  OBVIOUS
<1> DEFINE b == yypgoto[j]
           d == yydefgoto[j]
           found == Entry(b, u)
<1>2. Goto(u, sym) = IF found = {} THEN d ELSE CHOOSE e \in found : TRUE
  BY <1>1 DEF Goto
<1>3. j = sym - 13 /\ b \in Int /\ u \in Int
  BY <1>1, SMT DEF yypgoto, YYNTOKENS
<1>4. /\ sym \in {15, 16, 17, 18, 20, 21, 23} => b = -11
      /\ sym = 19 => b = -4
      /\ sym = 22 => b = 4
      /\ sym = 24 => b = -10
  BY <1>3, SMT DEF yypgoto
<1>5. /\ sym = 15 => d = 2
      /\ sym = 16 => d = 3
      /\ sym = 17 => d = 6
      /\ sym = 18 => d = 7
      /\ sym = 19 => d = 8
      /\ sym = 20 => d = 9
      /\ sym = 21 => d = 10
      /\ sym = 22 => d = 24
      /\ sym = 23 => d = 21
      /\ sym = 24 => d = 25
  BY <1>3, SMT DEF yydefgoto
<1> HIDE DEF b, d
<1>6. \A e \in found : \/ b = -4 /\ u = 6 /\ e = 11
                       \/ b = -4 /\ u = 9 /\ e = 14
                       \/ b = -4 /\ u = 12 /\ e = 16
                       \/ b = 4 /\ u = 15 /\ e = 20
                       \/ b = -10 /\ u = 26 /\ e = 28
  <2> SUFFICES ASSUME NEW e \in found
               PROVE  \/ b = -4 /\ u = 6 /\ e = 11
                      \/ b = -4 /\ u = 9 /\ e = 14
                      \/ b = -4 /\ u = 12 /\ e = 16
                      \/ b = 4 /\ u = 15 /\ e = 20
                      \/ b = -10 /\ u = 26 /\ e = 28
    OBVIOUS
  <2>1. b \in {-11, -4, 4, -10}
    BY <1>3, <1>4, SMT
  <2>2. IsEntry(b, u, e)
    BY <1>3, Entries
  <2> QED BY <2>1, <2>2, SMT DEF IsEntry
<1>7. found # {} => (CHOOSE e \in found : TRUE) \in found
  OBVIOUS
<1>8. /\ b = -4 /\ u = 6 => 11 \in found
      /\ b = -4 /\ u = 9 => 14 \in found
      /\ b = -4 /\ u = 12 => 16 \in found
      /\ b = 4 /\ u = 15 => 20 \in found
      /\ b = -10 /\ u = 26 => 28 \in found
  BY GotoEntries
<1> HIDE DEF found
<1> DEFINE chosen == CHOOSE e \in found : TRUE
<1> HIDE DEF chosen
<1>9. Goto(u, sym) = IF found = {} THEN d ELSE chosen
  BY <1>2 DEF chosen
<1>10. found # {} => chosen \in found
  BY <1>7 DEF chosen
<1> QED BY <1>4, <1>5, <1>6, <1>8, <1>9, <1>10, SMT DEF GoesTo

LEMMA TopOfStack ==
  ASSUME StackFine
  PROVE  /\ Len(yyss) \in Nat /\ Len(yyss) > 0 /\ yystate = yyss[Len(yyss)] /\ yystate \in 0 .. 28
         /\ \A i \in 1 .. Len(yyss) : yyss[i] \in 0 .. 28
         /\ \A i \in 1 .. Len(yyss) : i > 1 => Follows(yyss[i - 1], yyss[i])
<1>1. Len(yyss) \in Nat /\ Len(yyss) > 0 /\ \A i \in 1 .. Len(yyss) : yyss[i] \in 0 .. 28
  <2>1. yyss \in Seq(0 .. 28) /\ yyss # <<>>
    BY DEF StackFine
  <2>2. Len(yyss) \in Nat /\ \A i \in 1 .. Len(yyss) : yyss[i] \in 0 .. 28
    BY <2>1, LenProperties, ElementOfSeq
  <2>3. Len(yyss) # 0
    BY <2>1, EmptySeq
  <2> QED BY <2>2, <2>3, SMT
<1>2. ASSUME NEW i \in 1 .. Len(yyss), i > 1 PROVE Follows(yyss[i - 1], yyss[i])
  <2>1. PICK j \in 1 .. Len(yyss) - 1 : j = i - 1 /\ j + 1 = i
    BY <1>1, <1>2, SMT
  <2> QED BY <2>1 DEF StackFine
<1>3. Len(yyss) \in 1 .. Len(yyss)
  BY <1>1, SMT
<1> QED BY <1>1, <1>2, <1>3 DEF yystate, Last

\* What is shifted, and what is reduced.
LEMMA ShiftFollows ==
  ASSUME StackFine, NEW e \in Shifts
  PROVE  /\ IF e = YYFINAL THEN yystate = 2 /\ yychar = YYEOF ELSE Follows(yystate, e)
         /\ e \in (1 .. 28) \ {2, 3, 7, 10}
<1>1. PICK s \in 0 .. 28 : s = yystate
  BY TopOfStack
<1>2. PICK j, b : j = s + 1 /\ b = yypact[j]
  OBVIOUS
<1>3. e \in Entry(b, yychar) /\ e > 0
  BY <1>1, <1>2 DEF Shifts, Found, Looks
<1>4. b \in Int
  BY <1>2, SMT DEF yypact
<1>5. IsEntry(b, yychar, e)
  BY <1>3, <1>4, Entries DEF StackFine
<1>6. CASE b = -5
  BY <1>1, <1>2, <1>3, <1>5, <1>6, SMT DEF IsEntry, yypact, Follows, YYFINAL
<1>7. CASE b # -5
  BY <1>1, <1>2, <1>3, <1>5, <1>7, SMT DEF IsEntry, yypact, Follows, YYFINAL, YYEOF
<1> QED BY <1>6, <1>7

Reducible(s, rule) ==
  \/ s = 0 /\ rule = 2
  \/ s = 1 /\ rule = 4
  \/ s \in {3, 6, 9, 12} /\ rule = 7
  \/ s = 5 /\ rule \in {6, 11}
  \/ s = 11 /\ rule = 9
  \/ s = 13 /\ rule = 3
  \/ s = 14 /\ rule = 8
  \/ s = 17 /\ rule = 15
  \/ s = 18 /\ rule = 12
  \/ s = 19 /\ rule = 13
  \/ s = 22 /\ rule = 5
  \/ s = 23 /\ rule = 10
  \/ s = 24 /\ rule = 16
  \/ s = 27 /\ rule = 14
  \/ s = 28 /\ rule = 17

LEMMA ReducesWhat ==
  ASSUME StackFine, yystate # 4, NEW rule \in Reduces
  PROVE  Reducible(yystate, rule)
<1>1. PICK s \in 0 .. 28 : s = yystate
  BY TopOfStack
<1>2. PICK j : j = s + 1
  OBVIOUS
<1>3. CASE Found = {}
  <2>1. rule = yydefact[j] /\ rule # 0
    BY <1>1, <1>2, <1>3 DEF Reduces
  <2> QED BY <1>1, <1>2, <2>1, SMT DEF yydefact, Reducible
<1>4. CASE Found # {}
  <2>1. PICK b : b = yypact[j]
    OBVIOUS
  <2>2. PICK e \in Entry(b, yychar) : e # YYTABLE_NINF /\ e < 0 /\ rule = - e
    BY <1>1, <1>2, <1>4, <2>1 DEF Reduces, Found, Looks
  <2>3. b \in Int
    BY <1>2, <2>1, SMT DEF yypact
  <2>4. IsEntry(b, yychar, e)
    BY <2>2, <2>3, Entries DEF StackFine
  <2> QED BY <1>1, <1>2, <2>1, <2>2, <2>4, SMT DEF IsEntry, yypact, Reducible
<1> QED BY <1>3, <1>4

\* Where a state came from: below a state that is not the first there is another.
LEMMA Deeper ==
  ASSUME StackFine, NEW d \in Nat, NEW e \in Nat, e = d + 1, d < Len(yyss), yyss[Len(yyss) - d] # 0
  PROVE  e < Len(yyss) /\ Follows(yyss[Len(yyss) - e], yyss[Len(yyss) - d]) /\ yyss[Len(yyss) - e] \in 0 .. 28
<1>1. PICK L \in Nat : L = Len(yyss) /\ L > 0
  BY TopOfStack
<1>2. PICK i : i = L - d
  OBVIOUS
<1>3. i \in 1 .. L /\ i # 1
  <2>1. i \in 1 .. L
    BY <1>1, <1>2, SMT
  <2>2. yyss[i] # 0 /\ yyss[1] = 0
    BY <1>1, <1>2 DEF StackFine
  <2> QED BY <2>1, <2>2
<1>4. i - 1 = L - e /\ e < L /\ i > 1 /\ L - e \in 1 .. L
  BY <1>1, <1>2, <1>3, SMT
<1> QED BY <1>1, <1>2, <1>3, <1>4, TopOfStack

LEMMA StateFacts ==
  ASSUME StackFine
  PROVE  /\ yystate # 4 /\ (yystate = 0 <=> Len(yyss) = 1)
         /\ Len(yyss) > 1 => yyss[2] \in 1 .. 3
         /\ Len(yyss) > 1 /\ yyss[2] # 3 => Len(yyss) = 2 /\ yystate = yyss[2]
<1>1. PICK L \in Nat : L = Len(yyss) /\ L > 0
  BY TopOfStack
<1>2. yystate = yyss[L] /\ yyss[1] = 0
  BY <1>1, TopOfStack DEF StackFine
<1>3. ASSUME L > 1
      PROVE  /\ yystate # 4 /\ yystate # 0 /\ yyss[2] \in 1 .. 3
             /\ yyss[2] # 3 => L = 2
  <2>1. Follows(yyss[L - 1], yyss[L])
    <3>1. L \in 1 .. L
      BY <1>1, SMT
    <3> QED BY <1>1, <1>3, <3>1, TopOfStack
  <2>2. yystate # 4 /\ yystate # 0
    BY <1>2, <2>1, SMT DEF Follows
  <2>3. Follows(0, yyss[2])
    <3>1. 2 \in 1 .. L /\ 2 > 1 /\ 2 - 1 = 1
      BY <1>1, <1>3, SMT
    <3> QED BY <1>1, <1>2, <3>1, TopOfStack
  <2>4. yyss[2] \in 1 .. 3
    BY <2>3, SMT DEF Follows
  <2>5. ASSUME L > 2 PROVE yyss[2] = 3
    <3>1. 3 \in 1 .. L /\ 3 > 1 /\ 3 - 1 = 2
      BY <1>1, <2>5, SMT
    <3>2. Follows(yyss[2], yyss[3])
      BY <1>1, <3>1, TopOfStack
    <3> QED BY <2>4, <3>2, SMT DEF Follows
  <2>6. yyss[2] # 3 => L = 2
    BY <1>1, <1>3, <2>5, SMT
  <2> QED BY <2>2, <2>4, <2>6
<1>4. CASE L = 1
  BY <1>1, <1>2, <1>4, SMT
<1>5. CASE L # 1
  <2>1. L > 1
    BY <1>1, <1>5, SMT
  <2> QED BY <1>1, <1>2, <1>3, <1>5, <2>1
<1> QED BY <1>4, <1>5

\* What a rule pops: n states, of which one may stand for a name.
Pops(rule, n, L) ==
  /\ n \in 0 .. 4
  /\ rule = 2 => n = 0 /\ L = 1
  /\ rule = 4 => n = 1 /\ L = 2 /\ yyss[2] = 1
  /\ rule \notin {2, 4} => L > 1 /\ yyss[2] = 3
  /\ rule = 3 => n = 3 /\ L = 4
  /\ rule \notin {2, 3, 4} => L - n > 1
  /\ rule = 5 => n = 4 /\ yyss[L - 3] = 7 /\ \A i \in L - 2 .. L : yyss[i] # 7
  /\ rule = 10 => n = 4 /\ yyss[L - 3] = 10
  /\ rule \in {6, 11} => n = 1
  /\ rule # 5 => \A i \in L - n + 1 .. L : yyss[i] # 7

\* What it pushes.
Pushes(rule, v) ==
  /\ rule = 2 => v = 2
  /\ rule = 3 => v = 2
  /\ rule = 4 => v = 3
  /\ v = 7 <=> rule = 6
  /\ v = 10 <=> rule = 11

\* Rule's left-hand side and the length of its right-hand side.
Rule(rule, sym, n) ==
  /\ sym \in 15 .. 24 /\ n \in 0 .. 4
  /\ rule = 2 => sym = 15 /\ n = 0
  /\ rule = 3 => sym = 15 /\ n = 3
  /\ rule = 4 => sym = 16 /\ n = 1
  /\ rule = 5 => sym = 17 /\ n = 4
  /\ rule = 6 => sym = 18 /\ n = 1
  /\ rule = 7 => sym = 19 /\ n = 0
  /\ rule \in {8, 9} => sym = 19 /\ n = 2
  /\ rule = 10 => sym = 20 /\ n = 4
  /\ rule = 11 => sym = 21 /\ n = 1
  /\ rule \in {12, 13} => sym = 22 /\ n = 1
  /\ rule = 14 => sym = 22 /\ n = 3
  /\ rule = 15 => sym = 23 /\ n = 1
  /\ rule = 16 => sym = 24 /\ n = 1
  /\ rule = 17 => sym = 24 /\ n = 3

LEMMA RuleFacts ==
  ASSUME NEW rule \in 2 .. 17
  PROVE  Rule(rule, yyr1[rule + 1], yyr2[rule + 1])
BY SMT DEF yyr1, yyr2, Rule

\* The states a rule is reduced in, from the top down.
Reduction(rule, s0, s1, s2, s3, s4) ==
  \/ rule = 2 /\ s0 = 0
  \/ rule = 4 /\ s0 = 1 /\ s1 = 0
  \/ rule = 7 /\ s0 \in {3, 6, 9, 12}
  \/ rule \in {6, 11} /\ s0 = 5 /\ s1 \in {3, 6, 9, 12}
  \/ rule = 9 /\ s0 = 11 /\ s1 = 6 /\ s2 \in {3, 6, 9, 12}
  \/ rule = 8 /\ s0 = 14 /\ s1 = 9 /\ s2 \in {3, 6, 9, 12}
  \/ rule = 3 /\ s0 = 13 /\ s1 = 8 /\ s2 = 3 /\ s3 = 0
  \/ rule \in {12, 13, 15} /\ s0 \in 17 .. 19 /\ s1 \in {15, 21, 26}
  \/ rule = 5 /\ s0 = 22 /\ s1 = 16 /\ s2 = 12 /\ s3 = 7 /\ s4 \in {3, 6, 9, 12}
  \/ rule = 10 /\ s0 = 23 /\ s1 = 20 /\ s2 = 15 /\ s3 = 10 /\ s4 \in {3, 6, 9, 12}
  \/ rule = 16 /\ s0 = 24 /\ s1 \in {21, 26}
  \/ rule = 14 /\ s0 = 27 /\ s1 = 25 /\ s2 = 21 /\ s3 \in {15, 21, 26}
  \/ rule = 17 /\ s0 = 28 /\ s1 = 26 /\ s2 = 24 /\ s3 \in {21, 26}

LEMMA PathOfRule ==
  ASSUME NEW rule, NEW L \in Nat, L > 0, NEW s0, NEW s1, NEW s2, NEW s3, NEW s4, Reducible(s0, rule),
         s0 # 0 => L > 1 /\ Follows(s1, s0) /\ s1 \in 0 .. 28,
         L > 1 /\ s1 # 0 => L > 2 /\ Follows(s2, s1) /\ s2 \in 0 .. 28,
         L > 2 /\ s2 # 0 => L > 3 /\ Follows(s3, s2) /\ s3 \in 0 .. 28,
         L > 3 /\ s3 # 0 => L > 4 /\ Follows(s4, s3) /\ s4 \in 0 .. 28
  PROVE  Reduction(rule, s0, s1, s2, s3, s4)
<1>1. CASE s0 \in {0, 1, 3, 6, 9, 12}
  BY <1>1, SMT DEF Reducible, Follows, Reduction
<1>2. CASE s0 = 5
  BY <1>2, SMT DEF Reducible, Follows, Reduction
<1>3. CASE s0 \in {11, 14}
  BY <1>3, SMT DEF Reducible, Follows, Reduction
<1>4. CASE s0 = 13
  BY <1>4, SMT DEF Reducible, Follows, Reduction
<1>5. CASE s0 = 22
  BY <1>5, SMT DEF Reducible, Follows, Reduction
<1>6. CASE s0 = 23
  BY <1>6, SMT DEF Reducible, Follows, Reduction
<1>7. CASE s0 \in {17, 18, 19, 24}
  BY <1>7, SMT DEF Reducible, Follows, Reduction
<1>8. CASE s0 \in {27, 28}
  BY <1>8, SMT DEF Reducible, Follows, Reduction
<1>9. s0 \in {0, 1, 3, 6, 9, 12, 5, 11, 14, 13, 22, 23, 17, 18, 19, 24, 27, 28}
  BY SMT DEF Reducible
<1> QED BY <1>1, <1>2, <1>3, <1>4, <1>5, <1>6, <1>7, <1>8, <1>9

\* What is below the states that a rule is reduced in, and what stays when it has popped n of them.
Beneath(L, s0, s1, s2, s3) ==
  /\ s0 # 0 => L > 1
  /\ L > 1 /\ s1 # 0 => L > 2
  /\ L > 2 /\ s2 # 0 => L > 3
  /\ L > 3 /\ s3 # 0 => L > 4

Uncovered(n, s0, s1, s2, s3, s4) ==
  IF n = 0 THEN s0 ELSE IF n = 1 THEN s1 ELSE IF n = 2 THEN s2 ELSE IF n = 3 THEN s3 ELSE s4

PopFine(rule, sym, n, L, s0, s1, s2, s3, u) ==
  /\ n < L
  /\ rule \notin {2, 3, 4} => u # 0
  /\ rule # 5 => /\ n # 0 => s0 # 7
                 /\ n > 1 => s1 # 7
                 /\ n > 2 => s2 # 7
                 /\ n > 3 => s3 # 7
  /\ GoesTo(u, sym) \in 0 .. 28 /\ Follows(u, GoesTo(u, sym)) /\ Pushes(rule, GoesTo(u, sym))

LEMMA PathFacts ==
  ASSUME NEW rule \in 2 .. 17, NEW sym \in 15 .. 24, NEW n \in 0 .. 4, NEW L \in Nat, L > 0,
         NEW s0, NEW s1, NEW s2, NEW s3, NEW s4, NEW u, Beneath(L, s0, s1, s2, s3),
         u = Uncovered(n, s0, s1, s2, s3, s4),
         Rule(rule, sym, n), Reduction(rule, s0, s1, s2, s3, s4)
  PROVE  PopFine(rule, sym, n, L, s0, s1, s2, s3, u)
<1>1. n < L
  BY SMT DEF Rule, Reduction, Beneath
<1>2. rule \notin {2, 3, 4} => u # 0
  BY SMT DEF Rule, Reduction, Uncovered
<1>3. rule # 5 => /\ n # 0 => s0 # 7
                  /\ n > 1 => s1 # 7
                  /\ n > 2 => s2 # 7
                  /\ n > 3 => s3 # 7
  <2>1. s0 # 7
    BY SMT DEF Reduction
  <2>2. rule # 5 /\ n > 1 => s1 # 7
    BY SMT DEF Rule, Reduction
  <2>3. /\ n > 2 => rule \in {3, 5, 10, 14, 17}
        /\ n > 3 => rule \in {5, 10}
    BY SMT DEF Rule
  <2>4. rule \in {3, 10, 14, 17} => s2 # 7
    BY SMT DEF Reduction
  <2>5. rule = 10 => s3 # 7
    BY SMT DEF Reduction
  <2> QED BY <2>1, <2>2, <2>3, <2>4, <2>5
<1>4. PICK v : v = GoesTo(u, sym)
  OBVIOUS
<1>5. v \in 0 .. 28
  BY <1>4, SMT DEF GoesTo
<1>6. Pushes(rule, v)
  <2>1. sym = 15 => v = 2
    BY <1>4, SMT DEF GoesTo
  <2>5. sym = 16 => v = 3
    BY <1>4, SMT DEF GoesTo
  <2>6. sym = 17 => v = 6
    BY <1>4, SMT DEF GoesTo
  <2>13. sym = 20 => v = 9
    BY <1>4, SMT DEF GoesTo
  <2>14. sym = 23 => v = 21
    BY <1>4, SMT DEF GoesTo
  <2>11. sym = 22 => v # 7 /\ v # 10
    BY <1>4, SMT DEF GoesTo
  <2>12. sym = 24 => v # 7 /\ v # 10
    BY <1>4, SMT DEF GoesTo
  <2>7. sym = 18 => v = 7
    BY <1>4, SMT DEF GoesTo
  <2>8. sym = 21 => v = 10
    BY <1>4, SMT DEF GoesTo
  <2>9. sym = 19 => v # 7 /\ v # 10
    BY <1>4, SMT DEF GoesTo
  <2>10. (v = 7 <=> sym = 18) /\ (v = 10 <=> sym = 21)
    BY <2>1, <2>5, <2>6, <2>7, <2>8, <2>9, <2>11, <2>12, <2>13, <2>14, SMT
  <2>2. /\ rule = 2 => sym = 15
        /\ rule = 3 => sym = 15
        /\ rule = 4 => sym = 16
    BY DEF Rule
  <2>3. rule = 6 <=> sym = 18
    BY SMT DEF Rule
  <2>4. rule = 11 <=> sym = 21
    BY SMT DEF Rule
  <2> QED BY <2>1, <2>2, <2>3, <2>4, <2>5, <2>10 DEF Pushes
<1>7. Follows(u, v)
  BY <1>4, SMT DEF GoesTo, Follows, Rule, Reduction, Uncovered
<1> QED BY <1>1, <1>2, <1>3, <1>4, <1>5, <1>6, <1>7 DEF PopFine

\* Where the rule that is reduced leads to, by the states it pops.
LEMMA ReducePath ==
  ASSUME StackFine, NEW rule \in Reduces, NEW sym, sym = yyr1[rule + 1], NEW n, n = yyr2[rule + 1],
         NEW L, L = Len(yyss), NEW s0, NEW s1, NEW s2, NEW s3, NEW s4,
         s0 = yyss[L - 0], s1 = yyss[L - 1], s2 = yyss[L - 2], s3 = yyss[L - 3], s4 = yyss[L - 4]
  PROVE  /\ rule \in 2 .. 17 /\ sym \in 15 .. 24 /\ n \in 0 .. 4 /\ n < L
         /\ Rule(rule, sym, n) /\ Reducible(s0, rule) /\ Reduction(rule, s0, s1, s2, s3, s4)
         /\ Beneath(L, s0, s1, s2, s3) /\ PopFine(rule, sym, n, L, s0, s1, s2, s3, yyss[L - n])
         /\ yyss[L - n] = Uncovered(n, s0, s1, s2, s3, s4) /\ yyss[L - n] \in 0 .. 28
         /\ Goto(yyss[L - n], sym) = GoesTo(yyss[L - n], sym)
<1>1. L \in Nat /\ L > 0 /\ yystate = s0 /\ \A i \in 1 .. L : yyss[i] \in 0 .. 28
  <2>1. \A k \in Nat : k - 0 = k
    BY SMT
  <2> QED BY <2>1, TopOfStack
<1>2. Reducible(s0, rule)
  BY <1>1, StateFacts, ReducesWhat
<1>3. rule \in 2 .. 17
  BY <1>2, SMT DEF Reducible
<1>4. /\ s0 # 0 => L > 1 /\ Follows(s1, s0) /\ s1 \in 0 .. 28
      /\ L > 1 /\ s1 # 0 => L > 2 /\ Follows(s2, s1) /\ s2 \in 0 .. 28
      /\ L > 2 /\ s2 # 0 => L > 3 /\ Follows(s3, s2) /\ s3 \in 0 .. 28
      /\ L > 3 /\ s3 # 0 => L > 4 /\ Follows(s4, s3) /\ s4 \in 0 .. 28
  <2>1. /\ 1 = 0 + 1 /\ 2 = 1 + 1 /\ 3 = 2 + 1 /\ 4 = 3 + 1
        /\ 0 < L /\ (\A k \in 1 .. 4 : k < L <=> L > k)
    BY <1>1, SMT
  <2> QED BY <1>1, <2>1, Deeper, SMT
<1>5. Rule(rule, sym, n)
  BY <1>3, RuleFacts
<1>6. Reduction(rule, s0, s1, s2, s3, s4)
  BY <1>1, <1>2, <1>4, PathOfRule
<1>7. n \in 0 .. 4 /\ sym \in 15 .. 24
  BY <1>5 DEF Rule
<1>8. PICK w : w = Uncovered(n, s0, s1, s2, s3, s4)
  OBVIOUS
<1>9. Beneath(L, s0, s1, s2, s3)
  BY <1>4 DEF Beneath
<1>10. PopFine(rule, sym, n, L, s0, s1, s2, s3, w)
  BY <1>1, <1>3, <1>5, <1>6, <1>7, <1>8, <1>9, PathFacts
<1>11. n < L
  BY <1>10 DEF PopFine
<1>12. yyss[L - n] = w
  <2>1. n \in {0, 1, 2, 3, 4}
    BY <1>7, SMT
  <2> QED BY <1>8, <2>1 DEF Uncovered
<1>13. yyss[L - n] \in 0 .. 28
  <2>1. L - n \in 1 .. L
    BY <1>1, <1>7, <1>11, SMT
  <2> QED BY <1>1, <2>1
<1>14. Goto(yyss[L - n], sym) = GoesTo(yyss[L - n], sym)
  BY <1>7, <1>13, GotoFacts
<1> QED BY <1>2, <1>3, <1>5, <1>6, <1>7, <1>8, <1>9, <1>10, <1>11, <1>12, <1>13, <1>14

LEMMA ReductionFacts ==
  ASSUME StackFine, NEW rule \in Reduces, NEW n, n = yyr2[rule + 1], NEW L, L = Len(yyss)
  PROVE  /\ rule \in 2 .. 17 /\ n \in 0 .. L - 1 /\ Pops(rule, n, L)
         /\ Goto(yyss[L - n], yyr1[rule + 1]) \in 0 .. 28
         /\ Follows(yyss[L - n], Goto(yyss[L - n], yyr1[rule + 1]))
         /\ Pushes(rule, Goto(yyss[L - n], yyr1[rule + 1]))
<1>1. L \in Nat /\ L > 0 /\ yystate = yyss[L] /\ yyss[1] = 0 /\ L - 0 = L
      /\ \A i \in 1 .. L : yyss[i] \in 0 .. 28
  <2>1. \A k \in Nat : k - 0 = k
    BY SMT
  <2> QED BY <2>1, TopOfStack DEF StackFine
<1>2. PICK sym, u, v, s0, s1, s2, s3, s4 :
        /\ sym = yyr1[rule + 1] /\ u = yyss[L - n] /\ v = Goto(u, sym)
        /\ s0 = yyss[L - 0] /\ s1 = yyss[L - 1] /\ s2 = yyss[L - 2] /\ s3 = yyss[L - 3] /\ s4 = yyss[L - 4]
  OBVIOUS
<1>3. /\ rule \in 2 .. 17 /\ n \in 0 .. 4 /\ n < L /\ u \in 0 .. 28
      /\ PopFine(rule, sym, n, L, s0, s1, s2, s3, u) /\ v = GoesTo(u, sym)
  BY <1>2, ReducePath
<1>4. Rule(rule, sym, n)
  BY <1>2, ReducePath
<1>5. Reduction(rule, s0, s1, s2, s3, s4)
  BY <1>2, ReducePath
<1>6. s0 # 0 => L > 1
  BY <1>2, ReducePath DEF Beneath
<1>7. \A i \in 1 .. L : yyss[i] = 0 => i = 1
  <2> SUFFICES ASSUME NEW i \in 1 .. L, yyss[i] = 0, i # 1 PROVE FALSE
    OBVIOUS
  <2>1. i > 1
    BY <1>1, SMT
  <2>2. Follows(yyss[i - 1], 0)
    BY <2>1, TopOfStack
  <2> QED BY <2>2, SMT DEF Follows
<1>8. rule = 2 => L = 1
  <2>1. rule = 2 => s0 = 0
    BY <1>5, SMT DEF Reduction
  <2> QED BY <1>1, <1>2, <2>1, StateFacts
<1>9. rule \notin {2, 4} => L > 1 /\ yyss[2] = 3
  <2> SUFFICES ASSUME rule \notin {2, 4} PROVE L > 1 /\ yyss[2] = 3
    OBVIOUS
  <2>1. s0 \notin {0, 1, 2} /\ s0 # 0
    BY <1>5, SMT DEF Reduction
  <2>2. L > 1
    BY <1>6, <2>1
  <2>3. s0 = yystate
    BY <1>1, <1>2
  <2>4. yyss[2] \in {1, 2, 3}
    <3>1. 1 .. 3 = {1, 2, 3}
      BY SMT
    <3> QED BY <2>2, <3>1, StateFacts
  <2> QED BY <2>1, <2>2, <2>3, <2>4, StateFacts
<1>10. /\ L > 1 /\ s1 = 0 => L = 2
       /\ L > 3 /\ s3 = 0 => L = 4
       /\ n < L /\ u = 0 => L - n = 1
  <2>1. /\ L > 1 => L - 1 \in 1 .. L /\ (L - 1 = 1 => L = 2)
        /\ L > 3 => L - 3 \in 1 .. L /\ (L - 3 = 1 => L = 4)
        /\ n < L => L - n \in 1 .. L
    BY <1>1, <1>3, SMT
  <2> QED BY <1>2, <1>7, <2>1
<1>11. ASSUME rule # 5, NEW i \in L - n + 1 .. L PROVE yyss[i] # 7
  <2>1. /\ n # 0
        /\ i = L - 0 \/ (i = L - 1 /\ n > 1) \/ (i = L - 2 /\ n > 2) \/ (i = L - 3 /\ n > 3)
    BY <1>1, <1>3, SMT
  <2> QED BY <1>2, <1>11, <1>3, <2>1 DEF PopFine
<1>12. ASSUME rule = 5, NEW i \in L - 2 .. L PROVE yyss[i] # 7
  <2>1. i = L - 0 \/ i = L - 1 \/ i = L - 2
    BY <1>1, SMT
  <2>2. s0 # 7 /\ s1 # 7 /\ s2 # 7
    BY <1>5, <1>12, SMT DEF Reduction
  <2> QED BY <1>2, <2>1, <2>2
<1>13. Pops(rule, n, L)
  <2>1. rule = 4 => n = 1 /\ L = 2 /\ yyss[2] = 1
    <3>1. rule = 4 => n = 1 /\ s0 = 1 /\ s1 = 0
      BY <1>4, <1>5, SMT DEF Rule, Reduction
    <3>2. s0 = 1 => s0 # 0
      BY SMT
    <3> QED BY <1>1, <1>2, <1>6, <1>10, <3>1, <3>2
  <2>2. rule = 3 => n = 3 /\ L = 4
    <3>1. rule = 3 => n = 3 /\ s3 = 0
      BY <1>4, <1>5, SMT DEF Rule, Reduction
    <3>2. n = 3 => L > 3
      BY <1>1, <1>3, SMT DEF PopFine
    <3> QED BY <1>10, <3>1, <3>2
  <2>3. rule \notin {2, 3, 4} => L - n > 1
    <3>1. rule \notin {2, 3, 4} => L - n # 1
      BY <1>1, <1>2, <1>10, <1>3 DEF PopFine
    <3> QED BY <1>1, <1>3, <3>1, SMT DEF PopFine
  <2>4. (rule = 5 => n = 4 /\ s3 = 7) /\ (rule = 10 => n = 4 /\ s3 = 10)
    BY <1>4, <1>5, SMT DEF Rule, Reduction
  <2>5. rule \in {6, 11} => n = 1
    BY <1>4 DEF Rule
  <2>6. rule = 2 => n = 0
    BY <1>4 DEF Rule
  <2> QED BY <1>2, <1>8, <1>9, <1>11, <1>12, <1>3, <2>1, <2>2, <2>3, <2>4, <2>5, <2>6 DEF Pops
<1>14. v \in 0 .. 28 /\ Follows(u, v) /\ Pushes(rule, v)
  BY <1>3 DEF PopFine
<1>15. n \in 0 .. L - 1
  BY <1>1, <1>3, SMT DEF PopFine
<1> QED BY <1>3, <1>2, <1>13, <1>14, <1>15

-----------------------------------------------------------------------------
(* What a step does to the scanner, the parser and the configurations. *)

\* The parser runs only for the innermost call.
CallsFine ==
  /\ pc # "idle" <=> At("parse")
  /\ \A k \in DOMAIN frames : frames[k].at = "parse" => k = Len(frames)

ParseOnTop == Len(frames) > 0 /\ frames[Len(frames)].at = "parse"

LEMMA TopCall == Typed => (At("parse") <=> ParseOnTop)
<1> SUFFICES ASSUME Typed PROVE At("parse") <=> ParseOnTop
  OBVIOUS
<1>1. frames = <<>> <=> Len(frames) = 0
  BY EmptySeq DEF Typed
<1>2. Len(frames) = 0 <=> ~(Len(frames) > 0)
  <2>1. Len(frames) \in Nat
    BY FrameFacts
  <2> QED BY <2>1, SMT
<1> QED BY <1>1, <1>2 DEF At, Top, Last, ParseOnTop

LEMMA CallPushed ==
  ASSUME Typed, Typed', CallsFine, ~At("parse"), NEW e, Pushed(frames, frames', e),
         pc' # "idle" <=> e.at = "parse"
  PROVE  CallsFine'
<1>1. /\ Len(frames) \in Nat /\ Len(frames') = Len(frames) + 1 /\ DOMAIN frames = 1 .. Len(frames)
      /\ DOMAIN frames' = 1 .. Len(frames') /\ frames'[Len(frames')] = e
      /\ \A i \in DOMAIN frames : frames'[i] = frames[i]
  BY DEF Pushed
<1>2. /\ Len(frames') > 0
      /\ \A k \in DOMAIN frames' : k = Len(frames') \/ k \in DOMAIN frames
      /\ \A k \in DOMAIN frames : k = Len(frames) => Len(frames) > 0
  BY <1>1, SMT
<1>3. At("parse")' <=> e.at = "parse"
  <2>1. At("parse")' <=> ParseOnTop'
    BY TopCall, PTL
  <2> QED BY <1>1, <1>2, <2>1 DEF ParseOnTop
<1>4. ASSUME NEW k \in DOMAIN frames', frames'[k].at = "parse" PROVE k = Len(frames')
  <2> SUFFICES ASSUME k \in DOMAIN frames PROVE FALSE
    BY <1>2
  <2>1. frames[k].at = "parse" /\ k = Len(frames)
    BY <1>1, <1>4 DEF CallsFine
  <2> QED BY <1>2, <2>1, TopCall DEF ParseOnTop
<1> QED BY <1>3, <1>4 DEF CallsFine

LEMMA CallsOver ==
  ASSUME Typed', pc' = "idle", \A k \in Loads' : frames'[k].at # "parse"
  PROVE  CallsFine'
<1>1. \A k \in DOMAIN frames' : frames'[k].at # "parse"
  BY DEF Loads
<1>2. Len(frames') \in Nat /\ DOMAIN frames' = 1 .. Len(frames')
  BY LenProperties DEF Typed
<1>3. Len(frames') > 0 => Len(frames') \in DOMAIN frames'
  BY <1>2, SMT
<1>4. At("parse")' <=> ParseOnTop'
  BY TopCall, PTL
<1> QED BY <1>1, <1>3, <1>4 DEF CallsFine, ParseOnTop

\* The ways a step can be of importance here.
Quiet     == UNCHANGED <<lexVars, parseVars, configVars>>
Opens     == /\ configurations' = Construct /\ UNCHANGED freed
             /\ UNCHANGED <<lexVars, parseVars>> \/ \E file : Begin(file)
FindsNone == /\ configurations' = Append(configurations, [alive |-> FALSE, m_rootNode |-> 0])
             /\ yyin' = 0 /\ unread' = FALSE
             /\ UNCHANGED <<source, status, yy_start, stringBuffer, scanned, files, parseVars, freed>>
Parses    == pc # "idle" /\ Parse /\ UNCHANGED configVars
Ends      == /\ pc = "return" /\ pc' = "idle"
             /\ UNCHANGED <<lexVars, yyss, yystacksize, yychar, yyresult, tree, history>>
TakesTree(c) == Usable(c) /\ ~Throws /\ configurations' = TakeTree(c) /\ UNCHANGED freed
DropsTree(c) == Delete(c) /\ (c # 0 => Usable(c))

WhatHappens ==
  \/ Quiet
  \/ pc = "idle" /\ (Opens \/ FindsNone)
  \/ Parses
  \/ Ends /\ \E c : TakesTree(c) \/ DropsTree(c)
  \/ pc = "idle" /\ UNCHANGED <<lexVars, parseVars>> /\ \E c : DropsTree(c)

LEMMA InProgram ==
  CallsFine /\ Program => pc = "idle" /\ ~At("parse")
BY DEF CallsFine, Program, At

LEMMA LoadHappens ==
  ASSUME IInv, IInv', CallsFine, NEW library \in Libraries, NEW file, LoadModule(library, file)
  PROVE  WhatHappens /\ CallsFine'
<1>0. PICK n : n = Len(configurations')
  OBVIOUS
<1>1. pc = "idle" /\ ~At("parse") /\ configurations' = Construct /\ UNCHANGED freed
  BY InProgram DEF LoadModule, MayLoad
<1>2. PICK at \in {"parse", "init"}, c \in {0, n} :
        /\ frames' = Append(frames, [at |-> at, it |-> Encapsulation(0, library, c, 0)])
        /\ IF at = "parse" THEN Begin(file) ELSE UNCHANGED <<lexVars, parseVars>>
  BY <1>0 DEF LoadModule
<1>3. PICK e : e = [at |-> at, it |-> Encapsulation(0, library, c, 0)]
  OBVIOUS
<1>4. n \in Nat
  BY <1>0, <1>1, Adds DEF IInv, Typed, Construct
<1>5. e \in LoadFrames /\ e.at = at
  BY <1>2, <1>3, <1>4 DEF LoadFrames, Encapsulations, Encapsulation
<1>6. Pushed(frames, frames', e)
  BY <1>2, <1>3, <1>5, PushFacts DEF IInv, Typed
<1>7. pc' # "idle" <=> e.at = "parse"
  BY <1>1, <1>2, <1>5 DEF Begin, parseVars
<1>8. CallsFine'
  BY <1>1, <1>6, <1>7, CallPushed DEF IInv
<1>9. Opens
  BY <1>1, <1>2 DEF Opens
<1> QED BY <1>1, <1>8, <1>9 DEF WhatHappens

LEMMA UndoHappens ==
  ASSUME IInv, IInv', CallsFine, TopLoad, Undo, pc' = "idle"
  PROVE  (\E c : DropsTree(c)) /\ CallsFine'
<1>1. PICK N, f, c : N = Len(frames) /\ f = Top /\ c = f.it.configuration
  OBVIOUS
<1>2. f = frames[N] /\ N \in Loads /\ Popped(frames, Below) /\ Delete(c) /\ frames' = Below
  BY <1>1, TopFacts DEF IInv, Undo
<1>3. LoadFine(f)
  BY <1>2 DEF IInv, LoadsFine
<1>4. DropsTree(c)
  BY <1>1, <1>2, <1>3 DEF DropsTree, LoadFine
<1>5. \A k \in DOMAIN frames' : k \in DOMAIN frames /\ k # N /\ frames'[k] = frames[k]
  BY <1>1, <1>2, SMT DEF Popped
<1>6. \A k \in Loads' : frames'[k].at # "parse"
  BY <1>1, <1>5 DEF CallsFine, Loads
<1> QED BY <1>4, <1>6, CallsOver DEF IInv

\* The frame on top goes on to another step.
LEMMA GoesOn ==
  ASSUME IInv, IInv', CallsFine, pc' = "idle", DOMAIN frames' = DOMAIN frames,
         \A k \in DOMAIN frames : IF k = Len(frames) THEN frames'[k].at # "parse" ELSE frames'[k] = frames[k]
  PROVE  CallsFine'
<1>1. \A k \in Loads' : frames'[k].at # "parse"
  BY DEF CallsFine, Loads
<1> QED BY <1>1, CallsOver DEF IInv

LEMMA ParsePc ==
  ASSUME Parse
  PROVE  pc = "backup" /\ pc' \in {"backup", "return"}
<1>1. CASE yylex
  BY <1>1 DEF yylex, GotToken, parseVars
<1>2. CASE Shift
  BY <1>2 DEF Shift, Ready, Push
<1>3. CASE Reduce
  BY <1>3 DEF Reduce, Ready, Push
<1>4. CASE Accept \/ SyntaxError
  BY <1>4 DEF Accept, SyntaxError, Ready, Return
<1> QED BY <1>1, <1>2, <1>3, <1>4 DEF Parse

LEMMA ReturnHappens ==
  ASSUME IInv, IInv', CallsFine, ParseReturns
  PROVE  WhatHappens /\ CallsFine'
<1>1. /\ TopLoad /\ Top.at = "parse" /\ pc = "return" /\ pc' = "idle" /\ Ends
      /\ IF Throws THEN Undo ELSE /\ configurations' = TakeTree(Top.it.configuration) /\ UNCHANGED freed
                                  /\ frames' = [frames EXCEPT ![Len(frames)].at = "init"]
  BY DEF ParseReturns, At, TopLoad, Ends
<1>2. CASE Throws
  BY <1>1, <1>2, UndoHappens DEF WhatHappens
<1>3. CASE ~Throws
  <2>1. PICK N, f, c : N = Len(frames) /\ f = Top /\ c = f.it.configuration
    OBVIOUS
  <2>2. f = frames[N] /\ N \in Loads /\ f \in LoadFrames
    BY <1>1, <2>1, TopFacts DEF IInv
  <2>3. LoadFine(f) /\ f.at = "parse"
    BY <1>1, <2>1, <2>2 DEF IInv, LoadsFine
  <2>4. TakesTree(c)
    BY <1>1, <1>3, <2>1, <2>3 DEF TakesTree, LoadFine
  <2>5. /\ DOMAIN frames' = DOMAIN frames
        /\ \A k \in DOMAIN frames : frames'[k] = IF k = N THEN [f EXCEPT !.at = "init"] ELSE frames[k]
    BY <1>1, <1>3, <2>1, <2>2 DEF IInv, Typed
  <2>6. [f EXCEPT !.at = "init"].at = "init"
    BY <2>2 DEF LoadFrames
  <2>7. CallsFine'
    BY <1>1, <2>1, <2>5, <2>6, GoesOn
  <2> QED BY <1>1, <2>4, <2>7 DEF WhatHappens
<1> QED BY <1>2, <1>3

LEMMA InitHappens ==
  ASSUME IInv, IInv', CallsFine, NEW ok \in BOOLEAN, InitFunction(ok)
  PROVE  WhatHappens /\ CallsFine'
<1>1. /\ TopLoad /\ Top.at = "init" /\ pc = "idle" /\ pc' = "idle" /\ UNCHANGED <<lexVars, parseVars>>
      /\ IF ok THEN /\ UNCHANGED configVars
                    /\ frames' = [frames EXCEPT ![Len(frames)].at = "start",
                                                ![Len(frames)].it.moduleInterface = Len(instances')]
               ELSE Undo
  <2>1. ~At("parse")
    BY DEF InitFunction, At
  <2> QED BY <2>1 DEF InitFunction, At, TopLoad, CallsFine, parseVars
<1>2. CASE ~ok
  BY <1>1, <1>2, UndoHappens DEF WhatHappens
<1>3. CASE ok
  <2>1. PICK N, f, n : N = Len(frames) /\ f = Top /\ n = Len(instances')
    OBVIOUS
  <2>2. f = frames[N] /\ N \in Loads /\ f \in LoadFrames
    BY <1>1, <2>1, TopFacts DEF IInv
  <2>3. PICK h, g : h = [f EXCEPT !.at = "start"] /\ g = [h EXCEPT !.it.moduleInterface = n]
    OBVIOUS
  <2>4. PICK s : s = [frames EXCEPT ![N].at = "start"]
    OBVIOUS
  <2>5. /\ DOMAIN s = DOMAIN frames /\ N \in DOMAIN frames
        /\ \A k \in DOMAIN frames : s[k] = IF k = N THEN h ELSE frames[k]
    BY <2>2, <2>3, <2>4 DEF IInv, Typed, Loads
  <2>6. frames' = [s EXCEPT ![N].it.moduleInterface = n]
    BY <1>1, <1>3, <2>1, <2>4
  <2>7. /\ DOMAIN frames' = DOMAIN s
        /\ \A k \in DOMAIN s : frames'[k] = IF k = N THEN [s[N] EXCEPT !.it.moduleInterface = n] ELSE s[k]
    BY <2>4, <2>6
  <2>8. /\ DOMAIN frames' = DOMAIN frames
        /\ \A k \in DOMAIN frames : frames'[k] = IF k = N THEN g ELSE frames[k]
    BY <2>3, <2>5, <2>7
  <2>9. g.at = "start"
    <3>1. h.at = "start" /\ "at" \in DOMAIN h
      BY <2>2, <2>3 DEF LoadFrames
    <3> QED BY <2>3, <3>1
  <2>10. CallsFine'
    BY <1>1, <2>1, <2>8, <2>9, GoesOn
  <2> QED BY <1>1, <1>3, <2>10 DEF WhatHappens, Quiet
<1> QED BY <1>2, <1>3

LEMMA StartHappens ==
  ASSUME IInv, IInv', CallsFine, NEW ok \in BOOLEAN, StartReturns(ok)
  PROVE  WhatHappens /\ CallsFine'
<1>1. /\ TopLoad /\ pc = "idle" /\ pc' = "idle" /\ UNCHANGED <<lexVars, parseVars>>
      /\ IF ok THEN frames' = Below /\ UNCHANGED configVars ELSE Undo
  <2>1. ~At("parse")
    BY DEF StartReturns, At
  <2> QED BY <2>1 DEF StartReturns, At, TopLoad, CallsFine, parseVars
<1>2. CASE ~ok
  BY <1>1, <1>2, UndoHappens DEF WhatHappens
<1>3. CASE ok
  <2>1. Popped(frames, Below) /\ frames' = Below
    BY <1>1, <1>3, TopFacts DEF IInv
  <2>2. \A k \in DOMAIN frames' : k \in DOMAIN frames /\ k # Len(frames) /\ frames'[k] = frames[k]
    BY <2>1, SMT DEF Popped
  <2>3. \A k \in Loads' : frames'[k].at # "parse"
    BY <2>2 DEF CallsFine, Loads
  <2>4. CallsFine'
    BY <1>1, <2>3, CallsOver DEF IInv
  <2> QED BY <1>1, <1>3, <2>4 DEF WhatHappens, Quiet
<1> QED BY <1>2, <1>3

LEMMA StopHappens ==
  ASSUME IInv, IInv', CallsFine, NEW ok \in BOOLEAN, StopReturns(ok)
  PROVE  WhatHappens /\ CallsFine'
<1>1. At("stop") /\ pc = "idle" /\ pc' = "idle" /\ UNCHANGED <<lexVars, parseVars>>
  <2>1. ~At("parse")
    BY DEF StopReturns, At
  <2> QED BY <2>1 DEF StopReturns, CallsFine, parseVars
<1>2. PICK N, f, i, x, g, keeps, next : Returned(ok, N, f, i, x, g, keeps, next)
  BY WhatReturns
<1>3. Delete(g) /\ i \in DOMAIN m_modules /\ m_modules[i] = f.it /\ (g # 0 => g = f.it.configuration)
      /\ next = (IF keeps THEN i + 1 ELSE i)
  BY <1>2 DEF Returned
<1>4. DropsTree(g)
  <2>1. ModuleFine(f.it)
    BY <1>3 DEF IInv, ModulesFine
  <2> QED BY <1>3, <2>1 DEF DropsTree, ModuleFine, Filled
<1>5. next \in Nat /\ next > 0
  <2>1. i \in Nat /\ i > 0
    <3>1. i \in 1 .. Len(m_modules)
      BY <1>3, FrameFacts DEF IInv
    <3> QED BY <3>1, SMT
  <2> QED BY <1>3, <2>1, SMT
<1>6. m_modules' \in Seq(Encapsulations)
  BY DEF IInv, Typed
<1>7. N = Len(frames) /\ Loads' = Loads /\ \A k \in Loads : frames'[k] = frames[k] /\ k # N
  <2>1. Loads' = Loads /\ \A k \in Loads : frames'[k] = frames[k] /\ k # N
    BY <1>1, <1>2, <1>5, <1>6, BelowFacts
  <2> QED BY <1>2, <2>1 DEF Returned
<1>8. \A k \in Loads' : frames'[k].at # "parse"
  BY <1>7 DEF CallsFine, Loads
<1>9. CallsFine'
  BY <1>1, <1>8, CallsOver DEF IInv
<1> QED BY <1>1, <1>4, <1>9 DEF WhatHappens

LEMMA UnloadHappens ==
  ASSUME IInv, IInv', CallsFine, Program, NEW call \in {"unloadModule", "unloadAll"}, NEW force \in BOOLEAN,
         NEW i \in DOMAIN m_modules, frames' = Append(frames, Stop(call, force, i)),
         UNCHANGED <<lexVars, parseVars, configVars>>
  PROVE  WhatHappens /\ CallsFine'
<1>1. PICK e : e = Stop(call, force, i)
  OBVIOUS
<1>2. e \in StopFrames /\ e.at = "stop"
  BY <1>1, FrameFacts DEF Stop, StopFrames, IInv
<1>3. Pushed(frames, frames', e)
  BY <1>1, <1>2, PushFacts DEF IInv, Typed
<1>4. pc' = "idle" /\ ~At("parse")
  BY InProgram DEF parseVars
<1>5. CallsFine'
  BY <1>2, <1>3, <1>4, CallPushed DEF IInv
<1> QED BY <1>5 DEF WhatHappens, Quiet

LEMMA Happens ==
  ASSUME IInv, IInv', CallsFine, [Next]_vars
  PROVE  WhatHappens /\ CallsFine'
<1>1. CASE UNCHANGED vars \/ Idle
  BY <1>1 DEF Idle, vars, parseVars, managerVars, CallsFine, At, Top, WhatHappens, Quiet
<1>2. CASE ParseStep
  <2>1. At("parse") /\ Parse /\ UNCHANGED <<configVars, frames>>
    BY <1>2 DEF ParseStep, managerVars
  <2>2. pc # "idle" /\ pc' # "idle"
    BY <2>1, ParsePc
  <2> QED BY <2>1, <2>2 DEF WhatHappens, Parses, CallsFine, At, Top
<1>3. CASE ParseReturns
  BY <1>3, ReturnHappens
<1>4. CASE UnloadAll
  <2>1. 1 \in DOMAIN m_modules
    <3>1. Len(m_modules) \in Nat /\ DOMAIN m_modules = 1 .. Len(m_modules) /\ Len(m_modules) # 0
      BY <1>4, FrameFacts, EmptySeq DEF IInv, Typed, UnloadAll
    <3> QED BY <3>1, SMT
  <2> QED BY <1>4, <2>1, UnloadHappens DEF UnloadAll
<1>5. ASSUME NEW l \in Libraries, NoSymbol(l) PROVE WhatHappens /\ CallsFine'
  BY <1>5 DEF NoSymbol, parseVars, CallsFine, At, Top, WhatHappens, Quiet
<1>6. ASSUME NEW l \in Libraries, NoFile(l) PROVE WhatHappens /\ CallsFine'
  <2>1. pc = "idle" /\ FindsNone
    BY <1>6, InProgram DEF NoFile, MayLoad, FindsNone
  <2> QED BY <1>6, <2>1 DEF NoFile, parseVars, CallsFine, At, Top, WhatHappens
<1>7. ASSUME NEW l \in Libraries, NEW file \in {0, loads + 1}, LoadModule(l, file) PROVE WhatHappens /\ CallsFine'
  BY <1>7, LoadHappens
<1>8. ASSUME NEW ok \in BOOLEAN, InitFunction(ok) PROVE WhatHappens /\ CallsFine'
  BY <1>8, InitHappens
<1>9. ASSUME NEW ok \in BOOLEAN, StartReturns(ok) PROVE WhatHappens /\ CallsFine'
  BY <1>9, StartHappens
<1>10. ASSUME NEW ok \in BOOLEAN, StopReturns(ok) PROVE WhatHappens /\ CallsFine'
  BY <1>10, StopHappens
<1>11. ASSUME NEW id \in Ids, NEW force \in BOOLEAN, UnloadModule(id, force) PROVE WhatHappens /\ CallsFine'
  <2>1. PICK i \in DOMAIN m_modules : m_modules[i].moduleId = id
    BY DEF Ids
  <2>2. Position(id) = i
    BY <2>1, PositionFacts DEF IInv
  <2> QED BY <1>11, <2>1, <2>2, UnloadHappens DEF UnloadModule
<1> QED BY <1>1, <1>2, <1>3, <1>4, <1>5, <1>6, <1>7, <1>8, <1>9, <1>10, <1>11 DEF Next

-----------------------------------------------------------------------------
(* The parser's steps. *)

\* n states are popped and v is pushed.
Restacked(n, v) ==
  /\ yyss' \in Seq(0 .. 28) /\ Len(yyss') = Len(yyss) - n + 1
  /\ \A i \in 1 .. Len(yyss) - n : yyss'[i] = yyss[i]
  /\ yyss'[Len(yyss) - n + 1] = v /\ Follows(yyss[Len(yyss) - n], v)
  /\ pc' = "backup" \/ (pc' = "return" /\ yyresult' = 2)

LEMMA Restack ==
  ASSUME StackFine, NEW n \in 0 .. Len(yyss) - 1, NEW v \in 0 .. 28, NEW stack \in Seq(0 .. 28),
         Len(stack) = Len(yyss) - n, \A i \in 1 .. Len(yyss) - n : stack[i] = yyss[i],
         Push(Append(stack, v)), Follows(yyss[Len(yyss) - n], v)
  PROVE  Restacked(n, v)
<1>1. yyss' = Append(stack, v) /\ (pc' = "backup" \/ (pc' = "return" /\ yyresult' = 2))
  BY DEF Push
<1>2. /\ yyss' \in Seq(0 .. 28) /\ Len(yyss') = Len(stack) + 1
      /\ \A i \in 1 .. Len(stack) : yyss'[i] = stack[i]
      /\ yyss'[Len(stack) + 1] = v
  BY <1>1, AppendProperties
<1> QED BY <1>1, <1>2 DEF Restacked

LEMMA StackKept ==
  ASSUME StackFine, NEW n \in 0 .. Len(yyss) - 1, NEW v, Restacked(n, v), yychar' \in Int
  PROVE  StackFine'
<1>1. PICK L \in Nat : L = Len(yyss) /\ L > 0
  BY TopOfStack
<1>5. PICK k : k = L - n
  OBVIOUS
<1>2. /\ k \in Nat /\ k > 0 /\ k <= L /\ Len(yyss') = k + 1
      /\ \A i \in 1 .. k : yyss'[i] = yyss[i]
      /\ yyss'[k + 1] = v /\ Follows(yyss[k], v)
  BY <1>1, <1>5, SMT DEF Restacked
<1>3. yyss' # <<>> /\ yyss'[1] = 0
  <2>1. 1 \in 1 .. k /\ k + 1 # 0
    BY <1>2, SMT
  <2>2. yyss' # <<>>
    BY <1>2, <2>1, EmptySeq
  <2> QED BY <1>2, <2>1, <2>2 DEF StackFine
<1>4. ASSUME NEW i \in 1 .. Len(yyss') - 1 PROVE Follows(yyss'[i], yyss'[i + 1])
  <2>1. i \in 1 .. k /\ i + 1 \in 1 .. k + 1 /\ i \in Nat /\ (i + 1 \in 1 .. k \/ i = k)
    BY <1>2, SMT
  <2>2. CASE i = k
    BY <1>2, <2>1, <2>2
  <2>3. CASE i + 1 \in 1 .. k
    <3>1. i \in 1 .. Len(yyss) - 1
      BY <1>1, <1>2, <2>3, SMT
    <3>2. Follows(yyss[i], yyss[i + 1])
      BY <3>1 DEF StackFine
    <3> QED BY <1>2, <2>1, <2>3, <3>2
  <2> QED BY <2>1, <2>2, <2>3
<1> QED BY <1>3, <1>4 DEF StackFine, Restacked

LEMMA ShiftStep ==
  ASSUME StackFine, Shift
  PROVE  /\ \E v \in (1 .. 28) \ {2, 3, 7, 10} : v \in Shifts \ {YYFINAL} /\ Restacked(0, v)
         /\ StackFine' /\ (yychar' = YYEOF <=> yychar = YYEOF)
<1>1. PICK v \in Shifts \ {YYFINAL} : Push(Append(yyss, v))
  BY DEF Shift
<1>2. v \in (1 .. 28) \ {2, 3, 7, 10} /\ Follows(yystate, v)
  BY <1>1, ShiftFollows
<1>3. PICK L \in Nat, n \in {0} : L = Len(yyss) /\ L > 0 /\ n = 0 /\ yystate = yyss[L]
  BY TopOfStack
<1>4. n \in 0 .. L - 1 /\ L - n = L
  BY <1>3, SMT
<1>5. v \in 0 .. 28
  BY <1>2, SMT
<1>6. Restacked(0, v)
  <2>1. yyss \in Seq(0 .. 28)
    BY DEF StackFine
  <2>2. /\ n \in 0 .. Len(yyss) - 1 /\ Len(yyss) = Len(yyss) - n /\ Follows(yyss[Len(yyss) - n], v)
    BY <1>2, <1>3, <1>4
  <2> QED BY <1>1, <1>3, <1>5, <2>1, <2>2, Restack
<1>7. yychar' \in Int /\ (yychar' = YYEOF <=> yychar = YYEOF)
  <2>1. yychar' = IF yychar = YYEOF THEN YYEOF ELSE YYEMPTY
    BY DEF Shift
  <2>2. YYEOF \in Int /\ YYEMPTY \in Int /\ YYEOF # YYEMPTY
    BY SMT DEF YYEOF, YYEMPTY
  <2> QED BY <2>1, <2>2
<1>8. StackFine'
  <2>1. n \in 0 .. Len(yyss) - 1 /\ Restacked(n, v)
    BY <1>3, <1>4, <1>6
  <2> QED BY <1>7, <2>1, StackKept
<1> QED BY <1>1, <1>2, <1>6, <1>7, <1>8

LEMMA ReduceStep ==
  ASSUME StackFine, Reduce
  PROVE  /\ \E rule \in 2 .. 17, n \in 0 .. Len(yyss) - 1, v \in 0 .. 28 :
              /\ Acts(rule) /\ Restacked(n, v) /\ Pops(rule, n, Len(yyss)) /\ Pushes(rule, v)
              /\ rule \in Reduces /\ n = yyr2[rule + 1] /\ v = Goto(yyss[Len(yyss) - n], yyr1[rule + 1])
         /\ StackFine' /\ yychar' = yychar
<1>1. PICK rule \in Reduces :
        LET stack == SubSeq(yyss, 1, Len(yyss) - yyr2[rule + 1])
        IN Acts(rule) /\ Push(Append(stack, Goto(Last(stack), yyr1[rule + 1])))
  BY DEF Reduce
<1>2. PICK n, L, k : n = yyr2[rule + 1] /\ L = Len(yyss) /\ k = L - n
  OBVIOUS
<1>3. PICK stack : stack = SubSeq(yyss, 1, k)
  OBVIOUS
<1>4. PICK v : v = Goto(Last(stack), yyr1[rule + 1])
  OBVIOUS
<1>5. Acts(rule) /\ Push(Append(stack, v))
  BY <1>1, <1>2, <1>3, <1>4
<1>6. /\ rule \in 2 .. 17 /\ n \in 0 .. L - 1 /\ Pops(rule, n, L)
      /\ Goto(yyss[k], yyr1[rule + 1]) \in 0 .. 28
      /\ Follows(yyss[k], Goto(yyss[k], yyr1[rule + 1]))
      /\ Pushes(rule, Goto(yyss[k], yyr1[rule + 1]))
  BY <1>2, ReductionFacts
<1>7. L \in Nat /\ L > 0 /\ k \in Nat /\ k > 0 /\ k <= L /\ (\A i \in 1 .. L : yyss[i] \in 0 .. 28)
  <2>1. L \in Nat /\ L > 0 /\ (\A i \in 1 .. L : yyss[i] \in 0 .. 28)
    BY <1>2, TopOfStack
  <2>2. k \in Nat /\ k > 0 /\ k <= L
    BY <1>2, <1>6, <2>1, SMT
  <2> QED BY <2>1, <2>2
<1>8. /\ stack \in Seq(0 .. 28) /\ Len(stack) = k /\ \A i \in 1 .. k : stack[i] = yyss[i]
  <2>1. 1 \in Int /\ k \in Int /\ (\A i \in 1 .. k : yyss[i] \in 0 .. 28) /\ 1 <= k /\ k - 1 + 1 = k
        /\ \A i \in 1 .. k : 1 + i - 1 = i
    BY <1>7, SMT
  <2>2. /\ SubSeq(yyss, 1, k) \in Seq(0 .. 28)
        /\ Len(SubSeq(yyss, 1, k)) = IF 1 <= k THEN k - 1 + 1 ELSE 0
        /\ \A i \in 1 .. k - 1 + 1 : SubSeq(yyss, 1, k)[i] = yyss[1 + i - 1]
    BY <2>1, SubSeqProperties
  <2>3. /\ stack \in Seq(0 .. 28) /\ Len(stack) = k
        /\ \A i \in 1 .. k : stack[i] = yyss[1 + i - 1]
    BY <1>3, <2>1, <2>2
  <2> QED BY <2>1, <2>3
<1>9. Last(stack) = yyss[k]
  <2>1. k \in 1 .. k
    BY <1>7, SMT
  <2> QED BY <1>8, <2>1 DEF Last
<1>10. v \in 0 .. 28 /\ Follows(yyss[k], v) /\ Pushes(rule, v)
  BY <1>4, <1>6, <1>9
<1>11. Restacked(n, v)
  BY <1>2, <1>5, <1>6, <1>8, <1>10, Restack
<1>12. yychar' = yychar
  BY DEF Reduce
<1>13. StackFine'
  BY <1>2, <1>6, <1>11, <1>12, StackKept DEF StackFine
<1>14. /\ Acts(rule) /\ Restacked(n, v) /\ Pops(rule, n, Len(yyss)) /\ Pushes(rule, v)
       /\ rule \in Reduces /\ n = yyr2[rule + 1] /\ v = Goto(yyss[Len(yyss) - n], yyr1[rule + 1])
  BY <1>2, <1>4, <1>5, <1>6, <1>9, <1>10, <1>11
<1>15. rule \in 2 .. 17 /\ n \in 0 .. Len(yyss) - 1 /\ v \in 0 .. 28
  BY <1>2, <1>6, <1>10
<1> QED BY <1>12, <1>13, <1>14, <1>15, Zenon

-----------------------------------------------------------------------------
(* The buffer and the file, as long as no parse has failed. *)

\* Nothing of the file was read; the buffer is filled from it; its end was met.
Unopened == status = "NEW" /\ unread /\ files = {} /\ yychar # YYEOF
Within   == status \in {"NORMAL", "EOF_PENDING"} /\ ~unread /\ source = yyin /\ files \subseteq {yyin} /\ yychar # YYEOF
AtItsEnd == status = "NEW" /\ ~unread /\ files \subseteq {yyin} /\ yychar = YYEOF

BufferFine ==
  clean => /\ pc = "idle" /\ yyresult = 0 => status = "NEW"
           /\ pc # "idle" => Unopened \/ Within \/ AtItsEnd
           /\ pc = "return" /\ yyresult = 0 => AtItsEnd

LEMMA TokenNumbers ==
  ASSUME NEW x, NEW token \in Tokens(x)
  PROVE  token \in Int /\ token # YYEOF /\ token # YYEMPTY
<1>1. ASSUME NEW y \in DOMAIN yytranslate PROVE yytranslate[y] \in 3 .. 13
  <2>1. y \in {"{", "}", "[", ",", "]", "=", ";", "name", "string", "number", "'"}
    BY Zenon DEF yytranslate
  <2>2. yytranslate[y] \in {3, 4, 5, 6, 7, 8, 9, 10, 11, 12, 13}
    BY <2>1, Zenon DEF yytranslate
  <2> QED BY <2>2, SMT
<1>2. "string" \in DOMAIN yytranslate
  BY Zenon DEF yytranslate
<1>3. token \in 3 .. 13
  BY <1>1, <1>2 DEF Tokens
<1> QED BY <1>3, SMT DEF YYEOF, YYEMPTY

LEMMA LexStep ==
  ASSUME StackFine, BufferFine, yylex
  PROVE  StackFine' /\ BufferFine'
<1>1. pc = "backup" /\ yychar = YYEMPTY /\ YYEMPTY # YYEOF /\ YYEMPTY \in Int /\ YYEOF \in Int
  <2>1. YYEMPTY # YYEOF /\ YYEMPTY \in Int /\ YYEOF \in Int
    BY SMT DEF YYEMPTY, YYEOF
  <2> QED BY <2>1 DEF yylex
<1>2. CASE Refill /\ UNCHANGED parseVars
  BY <1>1, <1>2 DEF Refill, parseVars, history, BufferFine, Unopened, Within, AtItsEnd, StackFine
<1>3. CASE EndOfFile /\ GotToken(YYEOF)
  BY <1>1, <1>3 DEF EndOfFile, GotToken, BufferFine, Unopened, Within, AtItsEnd, StackFine
<1>4. ASSUME NEW x \in Lexemes, Match(x), UNCHANGED parseVars \/ \E token \in Tokens(x) : GotToken(token)
      PROVE  StackFine' /\ BufferFine'
  <2>1. UNCHANGED <<pc, yyss, yyresult, clean>> /\ yychar' \in Int /\ yychar' # YYEOF
    <3>1. CASE UNCHANGED parseVars
      BY <1>1, <3>1 DEF parseVars, history
    <3>2. ASSUME NEW token \in Tokens(x), GotToken(token)
          PROVE  UNCHANGED <<pc, yyss, yyresult, clean>> /\ yychar' \in Int /\ yychar' # YYEOF
      BY <3>2, TokenNumbers DEF GotToken
    <3> QED BY <1>4, <3>1, <3>2
  <2>2. /\ status = "NORMAL" /\ files' = files \cup {source} /\ status' \in {"NORMAL", "EOF_PENDING"}
        /\ UNCHANGED <<yyin, unread, source>>
    BY <1>4 DEF Match, Take
  <2>3. StackFine'
    BY <2>1 DEF StackFine
  <2>4. clean => Within
    BY <1>1, <2>2 DEF BufferFine, Unopened, Within, AtItsEnd
  <2>5. Within => Within'
    BY <2>1, <2>2 DEF Within
  <2>6. BufferFine'
    BY <1>1, <2>1, <2>4, <2>5 DEF BufferFine
  <2> QED BY <2>3, <2>6
<1>5. \/ Refill /\ UNCHANGED parseVars
      \/ EndOfFile /\ GotToken(YYEOF)
      \/ \E x \in Lexemes : Match(x) /\ (UNCHANGED parseVars \/ \E token \in Tokens(x) : GotToken(token))
  BY DEF yylex
<1> QED BY <1>2, <1>3, <1>4, <1>5

LEMMA ParseKeeps ==
  ASSUME StackFine, BufferFine, Parse
  PROVE  StackFine' /\ BufferFine'
<1>1. CASE yylex
  BY <1>1, LexStep
<1>2. CASE Shift \/ Reduce
  <2>1. /\ StackFine' /\ (yychar' = YYEOF <=> yychar = YYEOF) /\ UNCHANGED <<lexVars, clean>>
        /\ pc' = "backup" \/ (pc' = "return" /\ yyresult' = 2)
    <3>1. CASE Shift
      BY <3>1, ShiftStep DEF Restacked, Shift, history
    <3>2. CASE Reduce
      BY <3>2, ReduceStep DEF Restacked, Reduce, history
    <3> QED BY <1>2, <3>1, <3>2
  <2>2. pc # "idle"
    BY ParsePc
  <2>3. pc' = "return" => yyresult' # 0
    BY <2>1, SMT
  <2> QED BY <2>1, <2>2, <2>3 DEF BufferFine, Unopened, Within, AtItsEnd, lexVars
<1>3. CASE Accept
  <2>1. YYFINAL \in Shifts /\ pc' = "return" /\ UNCHANGED <<lexVars, yyss, yychar, clean>>
    BY <1>3 DEF Accept, Return, history
  <2>2. yychar = YYEOF
    BY <2>1, ShiftFollows
  <2>3. pc # "idle"
    BY ParsePc
  <2> QED BY <2>1, <2>2, <2>3 DEF BufferFine, Unopened, Within, AtItsEnd, lexVars, StackFine
<1>4. CASE SyntaxError
  <2>1. pc' = "return" /\ yyresult' = 1 /\ UNCHANGED <<lexVars, yyss, yychar, clean>>
    BY <1>4 DEF SyntaxError, Return, history
  <2>2. pc # "idle" /\ yyresult' # 0
    BY <2>1, ParsePc
  <2> QED BY <2>1, <2>2 DEF BufferFine, Unopened, Within, AtItsEnd, lexVars, StackFine
<1> QED BY <1>1, <1>2, <1>3, <1>4 DEF Parse

LEMMA BeginKeeps ==
  ASSUME BufferFine, pc = "idle", NEW file, Begin(file)
  PROVE  StackFine' /\ BufferFine'
<1>1. /\ yyss' = <<0>> /\ yychar' = YYEMPTY /\ pc' = "backup" /\ clean' = (clean /\ yyresult = 0 /\ yy_start = "INITIAL")
      /\ yyin' = file /\ unread' = TRUE /\ files' = {} /\ status' = status
  BY DEF Begin, Open
<1>2. YYEMPTY # YYEOF /\ YYEMPTY \in Int
  BY SMT DEF YYEMPTY, YYEOF
<1>3. BufferFine'
  BY <1>1, <1>2 DEF BufferFine, Unopened
<1>4. /\ <<0>> \in Seq(0 .. 28) /\ <<0>> # <<>> /\ <<0>>[1] = 0
      /\ \A i \in 1 .. Len(<<0>>) - 1 : FALSE
  BY SMT
<1>5. StackFine'
  BY <1>1, <1>2, <1>4 DEF StackFine
<1> QED BY <1>3, <1>5

ParserFine == CallsFine /\ StackFine /\ BufferFine

LEMMA ParserInit == Init => ParserFine
<1> SUFFICES ASSUME Init PROVE ParserFine
  OBVIOUS
<1>1. /\ frames = <<>> /\ pc = "idle" /\ status = "NEW" /\ yyss = <<0>> /\ yychar = YYEMPTY
  BY DEF Init, ConfigInit, ParseInit, LexInit
<1>2. YYEMPTY \in Int /\ DOMAIN (<<>>) = {}
  BY SMT DEF YYEMPTY
<1>3. /\ <<0>> \in Seq(0 .. 28) /\ <<0>> # <<>> /\ <<0>>[1] = 0
      /\ \A i \in 1 .. Len(<<0>>) - 1 : FALSE
  BY SMT
<1>4. StackFine
  BY <1>1, <1>2, <1>3 DEF StackFine
<1>5. CallsFine /\ BufferFine
  BY <1>1, <1>2 DEF CallsFine, At, BufferFine
<1> QED BY <1>4, <1>5 DEF ParserFine

LEMMA ParserNext ==
  ASSUME IInv, IInv', ParserFine, [Next]_vars
  PROVE  ParserFine'
<1>1. WhatHappens /\ CallsFine'
  BY Happens DEF ParserFine
<1>2. CASE UNCHANGED <<lexVars, parseVars>>
  <2>1. StackFine' /\ BufferFine'
    BY <1>2 DEF ParserFine, StackFine, BufferFine, Unopened, Within, AtItsEnd, lexVars, parseVars, history
  <2> QED BY <1>1, <2>1 DEF ParserFine
<1>3. CASE pc = "idle" /\ Opens
  BY <1>1, <1>2, <1>3, BeginKeeps DEF Opens, ParserFine
<1>4. CASE pc = "idle" /\ FindsNone
  <2>1. StackFine' /\ BufferFine'
    BY <1>4 DEF FindsNone, ParserFine, StackFine, BufferFine, parseVars, history
  <2> QED BY <1>1, <2>1 DEF ParserFine
<1>5. CASE Parses
  BY <1>1, <1>5, ParseKeeps DEF Parses, ParserFine
<1>6. CASE Ends
  <2>1. StackFine' /\ BufferFine'
    BY <1>6 DEF Ends, ParserFine, StackFine, BufferFine, AtItsEnd, lexVars, history
  <2> QED BY <1>1, <2>1 DEF ParserFine
<1> QED BY <1>1, <1>2, <1>3, <1>4, <1>5, <1>6 DEF WhatHappens, Quiet

THEOREM ParserInvariance == Spec => []ParserFine
<1>1. Init => ParserFine
  BY ParserInit
<1>2. IInv /\ IInv' /\ ParserFine /\ [Next]_vars => ParserFine'
  BY ParserNext
<1> QED BY <1>1, <1>2, Invariance, PTL DEF Spec

(* As long as no parse fails or leaves a comment or a string open, each parse reads its own file *)
(* and, to accept it, reads it to the end, whatever the files hold and however deep they nest:   *)
(* only the end of the file is shifted in the state that accepts.                                *)
THEOREM ParsesReadTheirFile == Spec => []CleanParse
<1>1. ParserFine => CleanParse
  BY DEF ParserFine, BufferFine, Unopened, Within, AtItsEnd, CleanParse
<1> QED BY <1>1, ParserInvariance, PTL

-----------------------------------------------------------------------------
(* The nodes.  They are numbered as they are made; the nodes of a tree are *)
(* made between its root and the next one's.                               *)

NodeRecords ==
  [nodeType : {"SECTION", "VALUE", "LIST"}, nodeName : Seq(Nat), value : Seq(Nat), valueList : Seq(Seq(Nat)),
   children : Seq(Nat), backlink : Nat]

NodesTyped ==
  /\ nodes \in Seq(NodeRecords)
  /\ rootSection \in Nat /\ currentSection \in Nat /\ currentValue \in Nat
  /\ stringBuffer \in Seq(Nat) /\ scanned \in Nat

IsRoot(n) == n \in Nodes /\ nodes[n].backlink = n

\* As far as numbers tell, n is in the tree below r.
Under(r, n) == r \in Nodes /\ n \in Nodes /\ r <= n /\ \A m \in r + 1 .. n : ~IsRoot(m)

ChildrenFine == \A n \in Nodes : \A c \in Range(nodes[n].children) : n < c /\ Under(n, c)

\* Nodes are added, none is moved.
Grows == \A n \in Nodes : n \in Nodes' /\ nodes'[n].backlink = nodes[n].backlink

LEMMA NodeNumbers ==
  NodesTyped => /\ Len(nodes) \in Nat /\ Nodes = 1 .. Len(nodes)
                /\ \A n \in Nodes : n \in Nat /\ n > 0 /\ nodes[n] \in NodeRecords
<1> SUFFICES ASSUME NodesTyped
             PROVE  /\ Len(nodes) \in Nat /\ Nodes = 1 .. Len(nodes)
                    /\ \A n \in Nodes : n \in Nat /\ n > 0 /\ nodes[n] \in NodeRecords
  OBVIOUS
<1>1. Len(nodes) \in Nat /\ Nodes = 1 .. Len(nodes)
  BY LenProperties DEF NodesTyped, Nodes
<1>2. \A n \in 1 .. Len(nodes) : nodes[n] \in NodeRecords
  BY ElementOfSeq DEF NodesTyped
<1>3. \A n \in 1 .. Len(nodes) : n \in Nat /\ n > 0
  BY <1>1, SMT
<1> QED BY <1>1, <1>2, <1>3

LEMMA UnderKept ==
  ASSUME NodesTyped, Grows, NEW r, NEW n, Under(r, n)
  PROVE  Under(r, n)'
<1>1. r \in Nodes /\ n \in Nodes /\ r <= n /\ r \in Nodes' /\ n \in Nodes'
  BY DEF Under, Grows
<1>2. r \in Nat /\ n \in Nat /\ \A m \in r + 1 .. n : m \in Nodes
  <2>1. Len(nodes) \in Nat /\ r \in 1 .. Len(nodes) /\ n \in 1 .. Len(nodes)
    BY <1>1, NodeNumbers
  <2>2. r \in Nat /\ n \in Nat /\ \A m \in r + 1 .. n : m \in 1 .. Len(nodes)
    BY <2>1, SMT
  <2> QED BY <2>2, NodeNumbers
<1>3. \A m \in r + 1 .. n : ~IsRoot(m)'
  BY <1>2 DEF Under, Grows, IsRoot
<1> QED BY <1>1, <1>3 DEF Under

LEMMA UnderChains ==
  ASSUME NodesTyped, NEW r, NEW n, NEW c, Under(r, n), Under(n, c)
  PROVE  Under(r, c)
<1>1. r \in Nat /\ n \in Nat /\ c \in Nat /\ r <= n /\ n <= c /\ r \in Nodes /\ c \in Nodes
  BY NodeNumbers DEF Under
<1>2. r <= c /\ \A m \in r + 1 .. c : m \in r + 1 .. n \/ m \in n + 1 .. c
  BY <1>1, SMT
<1> QED BY <1>1, <1>2 DEF Under

\* A node is in one tree only.
LEMMA OneTree ==
  ASSUME NodesTyped, NEW r, NEW s, NEW n, IsRoot(r), IsRoot(s), Under(r, n), Under(s, n)
  PROVE  r = s
<1>1. r \in Nat /\ s \in Nat /\ n \in Nat /\ r <= n /\ s <= n
  BY NodeNumbers DEF Under
<1>2. s \notin r + 1 .. n /\ r \notin s + 1 .. n
  BY DEF Under
<1> QED BY <1>1, <1>2, SMT

\* A node is made.
LEMMA NodeMade ==
  ASSUME NodesTyped, ChildrenFine, NEW r \in NodeRecords, r.children = <<>>, nodes' = Append(nodes, r)
  PROVE  /\ nodes' \in Seq(NodeRecords) /\ ChildrenFine' /\ Grows /\ New \in Nat /\ New \in Nodes' /\ nodes'[New] = r
         /\ \A n \in Nodes : n < New /\ nodes'[n] = nodes[n]
         /\ \A n \in Nodes' : n \in Nodes \/ n = New
<1>1. nodes' \in Seq(NodeRecords) /\ Pushed(nodes, nodes', r)
  BY PushFacts DEF NodesTyped
<1>2. /\ Len(nodes) \in Nat /\ Len(nodes') = New /\ Nodes = 1 .. Len(nodes) /\ Nodes' = 1 .. New /\ nodes'[New] = r
      /\ \A n \in Nodes : nodes'[n] = nodes[n]
  BY <1>1 DEF Pushed, New, Nodes
<1>3. /\ New \in Nat /\ New \in Nodes' /\ (\A n \in Nodes : n < New /\ n \in Nodes')
      /\ \A n \in Nodes' : n \in Nodes \/ n = New
  <2>1. New = Len(nodes) + 1
    BY DEF New
  <2> QED BY <1>2, <2>1, SMT
<1>4. Grows
  BY <1>2, <1>3 DEF Grows
<1>5. Range(r.children) = {}
  <2>1. DOMAIN (<<>>) = {}
    BY SMT
  <2> QED BY <2>1 DEF Range
<1>6. ASSUME NEW n \in Nodes', NEW c \in Range(nodes'[n].children) PROVE n < c /\ Under(n, c)'
  <2>1. n \in Nodes /\ c \in Range(nodes[n].children)
    BY <1>2, <1>3, <1>5, <1>6
  <2>2. n < c /\ Under(n, c)
    BY <2>1 DEF ChildrenFine
  <2> QED BY <1>4, <2>2, UnderKept
<1>7. ChildrenFine'
  BY <1>6 DEF ChildrenFine
<1> QED BY <1>1, <1>2, <1>3, <1>4, <1>7

\* A node is changed; it may get a child.
LEMMA NodeChanged ==
  ASSUME NodesTyped, ChildrenFine, NEW v \in Nat, NEW r, nodes' = [nodes EXCEPT ![v] = r],
         v \in Nodes => /\ r \in NodeRecords /\ r.backlink = nodes[v].backlink
                        /\ \A c \in Range(r.children) : c \in Range(nodes[v].children) \/ (v < c /\ Under(v, c))
  PROVE  nodes' \in Seq(NodeRecords) /\ ChildrenFine' /\ Grows /\ Nodes' = Nodes
<1>1. Nodes' = Nodes /\ \A n \in Nodes : nodes'[n] = IF n = v THEN r ELSE nodes[n]
  BY DEF Nodes, NodesTyped
<1>2. nodes' \in Seq(NodeRecords)
  <2>1. CASE v \in Nodes
    <3>1. v \in 1 .. Len(nodes) /\ r \in NodeRecords
      BY <2>1, NodeNumbers
    <3> QED BY <3>1, ExceptSeq DEF NodesTyped
  <2>2. CASE v \notin Nodes
    <3>1. nodes' = nodes
      BY <2>2, <1>1 DEF Nodes, NodesTyped
    <3> QED BY <3>1 DEF NodesTyped
  <2> QED BY <2>1, <2>2
<1>3. Grows
  BY <1>1 DEF Grows
<1>4. ASSUME NEW n \in Nodes', NEW c \in Range(nodes'[n].children) PROVE n < c /\ Under(n, c)'
  <2>1. n \in Nodes /\ (n = v => nodes'[n] = r) /\ (n # v => nodes'[n] = nodes[n])
    BY <1>1
  <2>2. c \in Range(nodes[n].children) \/ (n < c /\ Under(n, c))
    BY <1>4, <2>1
  <2>3. n < c /\ Under(n, c)
    BY <2>1, <2>2 DEF ChildrenFine
  <2> QED BY <1>3, <2>3, UnderKept
<1>5. ChildrenFine'
  BY <1>4 DEF ChildrenFine
<1> QED BY <1>1, <1>2, <1>3, <1>5

LEMMA ChildAdded ==
  ASSUME NodesTyped, ChildrenFine, NEW p \in Nat, NEW c \in Nat, nodes' = Adopt(p, c),
         p \in Nodes => p < c /\ Under(p, c)
  PROVE  nodes' \in Seq(NodeRecords) /\ ChildrenFine' /\ Grows /\ Nodes' = Nodes
<1>1. PICK r : r = [nodes[p] EXCEPT !.children = Append(@, c)]
  OBVIOUS
<1>2. nodes' = [nodes EXCEPT ![p] = r]
  BY <1>1 DEF Adopt
<1>3. ASSUME p \in Nodes
      PROVE  /\ r \in NodeRecords /\ r.backlink = nodes[p].backlink
             /\ \A d \in Range(r.children) : d \in Range(nodes[p].children) \/ (p < d /\ Under(p, d))
  <2>1. PICK q \in NodeRecords : q = nodes[p]
    BY <1>3, NodeNumbers
  <2>2. q.children \in Seq(Nat)
    BY DEF NodeRecords
  <2>3. PICK s : s = Append(q.children, c)
    OBVIOUS
  <2>4. s \in Seq(Nat) /\ Pushed(q.children, s, c)
    BY <2>2, <2>3, PushFacts
  <2>5. r = [q EXCEPT !.children = s]
    BY <1>1, <2>1, <2>3
  <2>6. r \in NodeRecords /\ r.backlink = q.backlink /\ r.children = s
    BY <2>4, <2>5 DEF NodeRecords
  <2>7. \A d \in Range(s) : d \in Range(q.children) \/ d = c
    <3>1. \A i \in DOMAIN s : i \in DOMAIN (q.children) \/ i = Len(s)
      BY <2>4, SMT DEF Pushed
    <3> QED BY <2>4, <3>1 DEF Pushed, Range
  <2> QED BY <1>3, <2>1, <2>6, <2>7
<1> QED BY <1>2, <1>3, NodeChanged

-----------------------------------------------------------------------------
(* The sections that are open, read off the stack. *)

\* sec[i] is the section that is open at position i: the name of a section opens one in the one before.
Sections(sec) ==
  /\ sec \in [1 .. Len(yyss) -> Nodes] /\ sec[1] = rootSection /\ sec[Len(yyss)] = currentSection
  /\ \A i \in 2 .. Len(yyss) : IF yyss[i] = 7 THEN sec[i - 1] < sec[i] /\ nodes[sec[i]].backlink = sec[i - 1]
                                ELSE sec[i - 1] = sec[i]
  /\ \A i \in 1 .. Len(yyss) : rootSection <= sec[i]
  /\ \A i \in 1 .. Len(yyss) : yyss[i] = 10 => currentValue \in Nodes /\ sec[i] < currentValue

InBody == pc = "backup" /\ Len(yyss) > 1 /\ yyss[2] = 3

\* While the body is parsed, its root is the newest.
BodyFine ==
  InBody => /\ IsRoot(rootSection) /\ \A n \in Nodes : IsRoot(n) => n <= rootSection
            /\ \E sec : Sections(sec)

LEMMA SectionBelow ==
  ASSUME NEW sec, Sections(sec), Len(yyss) \in Nat, NEW k \in 1 .. Len(yyss), NEW j \in 1 .. Len(yyss), j = k + 1
  PROVE  IF yyss[j] = 7 THEN sec[k] < sec[j] /\ nodes[sec[j]].backlink = sec[k] ELSE sec[k] = sec[j]
<1>1. j \in 2 .. Len(yyss) /\ j - 1 = k
  BY SMT
<1> QED BY <1>1 DEF Sections

\* What a rule pops is in the same section, if it does not end one.
LEMMA SameSection ==
  ASSUME NEW sec, Sections(sec), NEW L \in Nat, L = Len(yyss), NEW n \in 0 .. 4, n < L,
         \A i \in L - n + 1 .. L : yyss[i] # 7
  PROVE  sec[L - n] = currentSection
<1>1. ASSUME NEW d \in 0 .. 3, NEW e \in 1 .. 4, e = d + 1, d < n PROVE sec[L - e] = sec[L - d]
  <2>1. L - e \in 1 .. L /\ L - d \in 1 .. L /\ L - d = L - e + 1 /\ L - d \in L - n + 1 .. L
    BY <1>1, SMT
  <2>2. yyss[L - d] # 7
    BY <2>1
  <2> QED BY <2>1, <2>2, SectionBelow
<1>2. L - 0 = L /\ 1 = 0 + 1 /\ 2 = 1 + 1 /\ 3 = 2 + 1 /\ 4 = 3 + 1
      /\ 0 \in 0 .. 3 /\ 1 \in 0 .. 3 /\ 2 \in 0 .. 3 /\ 3 \in 0 .. 3
      /\ 1 \in 1 .. 4 /\ 2 \in 1 .. 4 /\ 3 \in 1 .. 4 /\ 4 \in 1 .. 4
  BY SMT
<1>3. sec[L - 0] = currentSection
  BY <1>2 DEF Sections
<1>4. 0 < n => sec[L - 1] = currentSection
  BY <1>1, <1>2, <1>3
<1>5. 1 < n => sec[L - 2] = currentSection
  <2>1. 1 < n => 0 < n
    BY SMT
  <2> QED BY <1>1, <1>2, <1>4, <2>1
<1>6. 2 < n => sec[L - 3] = currentSection
  <2>1. 2 < n => 1 < n
    BY SMT
  <2> QED BY <1>1, <1>2, <1>5, <2>1
<1>7. 3 < n => sec[L - 4] = currentSection
  <2>1. 3 < n => 2 < n
    BY SMT
  <2> QED BY <1>1, <1>2, <1>6, <2>1
<1>8. n = 0 \/ (n = 1 /\ 0 < n) \/ (n = 2 /\ 1 < n) \/ (n = 3 /\ 2 < n) \/ (n = 4 /\ 3 < n)
  BY SMT
<1> QED BY <1>3, <1>4, <1>5, <1>6, <1>7, <1>8

\* The section that a rule ends is in the one that is open below what the rule pops.
LEMMA SectionEnds ==
  ASSUME StackFine, NEW sec, Sections(sec), NEW n \in 0 .. Len(yyss) - 1, Pops(5, n, Len(yyss)),
         NEW under, under = sec[Len(yyss) - n]
  PROVE  under \in Nodes /\ under < currentSection /\ nodes[currentSection].backlink = under
<1>1. PICK L \in Nat : L = Len(yyss) /\ L > 0
  BY TopOfStack
<1>2. n = 4 /\ n < L /\ yyss[L - 3] = 7 /\ \A i \in L - 2 .. L : yyss[i] # 7
  <2>1. n = 4 /\ yyss[L - 3] = 7 /\ \A i \in L - 2 .. L : yyss[i] # 7
    BY <1>1 DEF Pops
  <2> QED BY <1>1, <2>1, SMT
<1>3. PICK d \in {3} : d \in 0 .. 4 /\ d < L /\ L - d + 1 = L - 2 /\ L - d = L - 3 /\ L - d \in 1 .. L
                       /\ L - d = L - n + 1 /\ L - n \in 1 .. L
  BY <1>1, <1>2, SMT
<1>4. sec[L - d] = currentSection
  BY <1>1, <1>2, <1>3, SameSection
<1>5. PICK j \in 1 .. L : j = L - d /\ j = L - n + 1 /\ yyss[j] = 7 /\ sec[j] = currentSection
  BY <1>2, <1>3, <1>4
<1>6. PICK k \in 1 .. L : k = L - n
  BY <1>3
<1>7. under \in Nodes
  BY <1>1, <1>3 DEF Sections
<1> QED BY <1>1, <1>5, <1>6, <1>7, SectionBelow

\* The sections after a step, if it is understood which one is open on top.
LEMMA SectionsGoOn ==
  ASSUME StackFine, NodesTyped, NodesTyped', Grows, NEW sec, Sections(sec),
         NEW n \in 0 .. Len(yyss) - 1, NEW v, Restacked(n, v), UNCHANGED rootSection,
         NEW under, under = sec[Len(yyss) - n], currentSection' \in Nodes', rootSection <= currentSection',
         IF v = 7 THEN under < currentSection' /\ nodes'[currentSection'].backlink = under
                  ELSE under = currentSection',
         IF v = 10 THEN currentValue' \in Nodes' /\ currentSection' < currentValue'
                        /\ \A s \in Nodes : s < currentValue'
                   ELSE UNCHANGED currentValue
  PROVE  \E t : Sections(t)'
<1>1. PICK L \in Nat : L = Len(yyss) /\ L > 0
  BY TopOfStack
<1>2. PICK k \in Int : k = L - n
  BY <1>1
<1>3. /\ k \in Nat /\ k > 0 /\ k <= L /\ Len(yyss') = k + 1
      /\ (\A i \in 1 .. k : yyss'[i] = yyss[i] /\ i \in 1 .. L) /\ yyss'[k + 1] = v
  BY <1>1, <1>2, SMT DEF Restacked
<1>4. PICK t : t = [i \in 1 .. k + 1 |-> IF i = k + 1 THEN currentSection' ELSE sec[i]]
  OBVIOUS
<1>5. /\ k + 1 \in 1 .. k + 1 /\ k \in 1 .. k /\ \A i \in 1 .. k : i \in 1 .. k + 1 /\ i # k + 1
      /\ \A i \in 1 .. k + 1 : i = k + 1 \/ i \in 1 .. k
      /\ \A i \in 2 .. k + 1 : (i = k + 1 /\ i - 1 = k) \/ (i \in 2 .. L /\ i \in 1 .. k /\ i - 1 \in 1 .. k)
  BY <1>3, SMT
<1>6. t[k + 1] = currentSection' /\ \A i \in 1 .. k : t[i] = sec[i]
  BY <1>4, <1>5
<1>7. \A i \in 1 .. k : sec[i] \in Nodes /\ sec[i] \in Nodes'
  BY <1>1, <1>3 DEF Sections, Grows
<1>8. t \in [1 .. k + 1 -> Nodes']
  BY <1>4, <1>5, <1>7
<1>9. ASSUME NEW i \in 2 .. k + 1
      PROVE  IF yyss'[i] = 7 THEN t[i - 1] < t[i] /\ nodes'[t[i]].backlink = t[i - 1] ELSE t[i - 1] = t[i]
  <2>1. CASE i = k + 1 /\ i - 1 = k
    BY <1>1, <1>2, <1>3, <1>5, <1>6, <2>1
  <2>2. CASE i \in 2 .. L /\ i \in 1 .. k /\ i - 1 \in 1 .. k
    <3>1. IF yyss[i] = 7 THEN sec[i - 1] < sec[i] /\ nodes[sec[i]].backlink = sec[i - 1] ELSE sec[i - 1] = sec[i]
      BY <1>1, <2>2 DEF Sections
    <3>2. nodes'[sec[i]].backlink = nodes[sec[i]].backlink
      BY <1>7, <2>2 DEF Grows
    <3> QED BY <1>3, <1>6, <2>2, <3>1, <3>2
  <2> QED BY <1>5, <2>1, <2>2
<1>10. \A i \in 1 .. k + 1 : rootSection' <= t[i]
  BY <1>1, <1>3, <1>5, <1>6 DEF Sections
<1>11. ASSUME NEW i \in 1 .. k + 1, yyss'[i] = 10 PROVE currentValue' \in Nodes' /\ t[i] < currentValue'
  <2>1. CASE i = k + 1
    BY <1>3, <1>6, <1>11, <2>1
  <2>2. CASE i \in 1 .. k
    <3>1. currentValue \in Nodes /\ sec[i] < currentValue
      BY <1>1, <1>3, <1>11, <2>2 DEF Sections
    <3>2. CASE v = 10
      BY <1>6, <1>7, <2>2, <3>2
    <3>3. CASE v # 10
      BY <1>6, <2>2, <3>1, <3>3 DEF Grows
    <3> QED BY <3>2, <3>3
  <2> QED BY <1>5, <2>1, <2>2
<1>12. t[1] = rootSection'
  <2>1. 1 \in 1 .. k
    BY <1>3, SMT
  <2> QED BY <1>6, <2>1 DEF Sections
<1>13. Sections(t)'
  BY <1>3, <1>6, <1>8, <1>9, <1>10, <1>11, <1>12 DEF Sections
<1> QED BY <1>13

TreeFine == NodesTyped /\ ChildrenFine /\ BodyFine

\* What the actions of the rules do.
LEMMA ActsFacts ==
  ASSUME NEW rule \in 2 .. 17, Acts(rule)
  PROVE  /\ rule = 2  => EmptyBody
         /\ rule = 4  => OpenBody
         /\ rule = 5  => CloseSection
         /\ rule = 6  => NameSection
         /\ rule = 10 => Assign
         /\ rule = 11 => NameValue
         /\ rule \in {12, 13} => SetValue
         /\ rule = 15 => OpenList
         /\ rule \in {3, 7, 8, 9, 14, 16, 17} => UNCHANGED tree
BY SMT DEF Acts

LEMMA NodeFacts ==
  ASSUME NodesTyped, NEW type \in {"SECTION", "VALUE"}, NEW b \in Nat
  PROVE  Node(type, b) \in NodeRecords /\ Node(type, b).children = <<>> /\ Node(type, b).backlink = b
<1>1. <<>> \in Seq(Nat) /\ <<>> \in Seq(Seq(Nat))
  BY EmptySeq
<1> QED BY <1>1 DEF Node, NodeRecords, NodesTyped

LEMMA NodesSame ==
  ASSUME NodesTyped, ChildrenFine, UNCHANGED nodes
  PROVE  nodes' \in Seq(NodeRecords) /\ ChildrenFine' /\ Grows /\ Nodes' = Nodes
BY DEF NodesTyped, ChildrenFine, Under, IsRoot, Nodes, Grows

\* The current value gets a value, or is a list.
LEMMA ValueSet ==
  ASSUME NodesTyped, ChildrenFine, SetValue \/ OpenList
  PROVE  nodes' \in Seq(NodeRecords) /\ ChildrenFine' /\ Grows /\ Nodes' = Nodes
         /\ UNCHANGED <<rootSection, currentSection, currentValue>>
<1>1. UNCHANGED <<rootSection, currentSection, currentValue>>
  BY DEF SetValue, OpenList
<1>2. PICK v \in Nat, q \in {nodes[currentValue]} : v = currentValue /\ q = nodes[v]
  BY DEF NodesTyped
<1>3. PICK r :
        /\ nodes' = [nodes EXCEPT ![v] = r]
        /\ \/ r = [q EXCEPT !.value = stringBuffer]
           \/ r = [q EXCEPT !.valueList = Append(q.valueList, stringBuffer)]
           \/ r = [q EXCEPT !.nodeType = "LIST"]
  <2>1. CASE SetValue
    BY <1>2, <2>1 DEF SetValue
  <2>2. CASE OpenList
    BY <1>2, <2>2 DEF OpenList
  <2> QED BY <2>1, <2>2
<1>4. ASSUME v \in Nodes
      PROVE  r \in NodeRecords /\ r.backlink = q.backlink /\ r.children = q.children
  <2>1. q \in NodeRecords
    BY <1>2, <1>4, NodeNumbers
  <2>2. Append(q.valueList, stringBuffer) \in Seq(Seq(Nat))
    <3>1. q.valueList \in Seq(Seq(Nat)) /\ stringBuffer \in Seq(Nat)
      BY <2>1 DEF NodeRecords, NodesTyped
    <3> QED BY <3>1, AppendProperties
  <2>3. PICK l \in Seq(Seq(Nat)) : l = Append(q.valueList, stringBuffer)
    BY <2>2
  <2>4. stringBuffer \in Seq(Nat)
    BY DEF NodesTyped
  <2>5. CASE r = [q EXCEPT !.value = stringBuffer]
    BY <2>1, <2>4, <2>5 DEF NodeRecords
  <2>6. CASE r = [q EXCEPT !.valueList = l]
    BY <2>1, <2>6 DEF NodeRecords
  <2>7. CASE r = [q EXCEPT !.nodeType = "LIST"]
    BY <2>1, <2>7 DEF NodeRecords
  <2> QED BY <1>3, <2>3, <2>5, <2>6, <2>7
<1>5. v \in Nodes => /\ r \in NodeRecords /\ r.backlink = nodes[v].backlink
                     /\ \A c \in Range(r.children) : c \in Range(nodes[v].children) \/ (v < c /\ Under(v, c))
  BY <1>2, <1>4
<1> QED BY <1>1, <1>3, <1>5, NodeChanged

LEMMA NewestBody ==
  ASSUME NodesTyped, IsRoot(rootSection), \A n \in Nodes : IsRoot(n) => n <= rootSection,
         NEW a \in Nodes, NEW b \in Nodes, rootSection <= a, a <= b
  PROVE  Under(a, b)
<1>1. a \in Nat /\ b \in Nat /\ rootSection \in Nat
  BY NodeNumbers DEF NodesTyped
<1>2. ASSUME NEW m \in a + 1 .. b, IsRoot(m) PROVE FALSE
  <2>1. m <= rootSection /\ m \in Nat
    BY <1>2, NodeNumbers DEF IsRoot
  <2> QED BY <1>1, <2>1, SMT
<1> QED BY <1>2 DEF Under

\* The body goes on.
LEMMA BodyGoesOn ==
  ASSUME StackFine, NodesTyped, NodesTyped', Grows, IsRoot(rootSection),
         \A n \in Nodes : IsRoot(n) => n <= rootSection,
         NEW sec, Sections(sec), NEW n \in 0 .. Len(yyss) - 1, NEW v, Restacked(n, v), UNCHANGED rootSection,
         \A m \in Nodes' : m \in Nodes \/ nodes'[m].backlink # m,
         NEW under, under = sec[Len(yyss) - n], currentSection' \in Nodes', rootSection <= currentSection',
         IF v = 7 THEN under < currentSection' /\ nodes'[currentSection'].backlink = under
                  ELSE under = currentSection',
         IF v = 10 THEN currentValue' \in Nodes' /\ currentSection' < currentValue'
                        /\ \A s \in Nodes : s < currentValue'
                   ELSE UNCHANGED currentValue
  PROVE  BodyFine'
<1>1. \E t : Sections(t)'
  BY SectionsGoOn
<1>2. IsRoot(rootSection)' /\ \A m \in Nodes' : IsRoot(m)' => m <= rootSection'
  BY DEF IsRoot, Grows
<1> QED BY <1>1, <1>2 DEF BodyFine

\* A rule of the body.
LEMMA BodyRule ==
  ASSUME StackFine, TreeFine, InBody, UNCHANGED <<stringBuffer, scanned>>,
         NEW rule \in {5, 6, 7, 8, 9, 10, 11, 12, 13, 14, 15, 16, 17}, NEW n \in 0 .. Len(yyss) - 1, NEW v \in 0 .. 28,
         Acts(rule), Restacked(n, v), Pops(rule, n, Len(yyss)), Pushes(rule, v)
  PROVE  TreeFine' /\ Grows /\ UNCHANGED rootSection
<1>1. PICK sec : Sections(sec)
  BY DEF TreeFine, BodyFine
<1>2. PICK L \in Nat : L = Len(yyss) /\ L > 0
  BY TopOfStack
<1>3. /\ NodesTyped /\ ChildrenFine /\ IsRoot(rootSection) /\ \A m \in Nodes : IsRoot(m) => m <= rootSection
  BY DEF TreeFine, BodyFine
<1>4. PICK s \in Nodes : s = currentSection /\ rootSection <= s /\ s \in Nat /\ s = sec[L]
  <2>1. L \in 1 .. L
    BY <1>2, SMT
  <2> QED BY <1>1, <1>2, <1>3, <2>1, NodeNumbers DEF Sections
<1>5. n \in 0 .. 4 /\ n < L /\ L - n \in 1 .. L
  <2>1. n \in 0 .. 4
    BY DEF Pops
  <2> QED BY <1>2, <2>1, SMT
<1>6. PICK under : under = sec[L - n] /\ under \in Nodes
  BY <1>1, <1>2, <1>5 DEF Sections
<1>7. rule # 5 => under = s
  BY <1>1, <1>2, <1>4, <1>5, <1>6, SameSection DEF Pops
<1>8. UNCHANGED <<stringBuffer, scanned>> /\ rootSection \in Nat /\ currentValue \in Nat
  BY <1>3 DEF NodesTyped
<1>9. (v = 7 <=> rule = 6) /\ (v = 10 <=> rule = 11)
  BY DEF Pushes
<1>10. CASE rule = 5
  <2>1. Pops(5, n, Len(yyss))
    BY <1>10
  <2>4. under < s /\ nodes[s].backlink = under
    BY <1>1, <1>2, <1>4, <1>6, <2>1, SectionEnds
  <2>5. nodes' = Adopt(under, s) /\ currentSection' = under /\ UNCHANGED <<rootSection, currentValue>>
    <3>1. CloseSection
      BY <1>10, ActsFacts
    <3> QED BY <1>4, <2>4, <3>1 DEF CloseSection
  <2>6. under \in Nat /\ rootSection <= under /\ under <= s
    <3>1. under \in Nat /\ rootSection <= under
      BY <1>1, <1>2, <1>3, <1>5, <1>6, NodeNumbers DEF Sections
    <3> QED BY <1>4, <2>4, <3>1, SMT
  <2>7. Under(under, s)
    BY <1>3, <1>4, <1>6, <2>6, NewestBody
  <2>8. nodes' \in Seq(NodeRecords) /\ ChildrenFine' /\ Grows /\ Nodes' = Nodes
    BY <1>3, <1>4, <2>4, <2>5, <2>6, <2>7, ChildAdded
  <2>9. NodesTyped'
    BY <1>3, <1>8, <2>5, <2>6, <2>8 DEF NodesTyped
  <2>10. BodyFine'
    BY <1>1, <1>2, <1>3, <1>6, <1>9, <1>10, <2>5, <2>6, <2>8, <2>9, BodyGoesOn
  <2> QED BY <2>5, <2>8, <2>9, <2>10 DEF TreeFine
<1>11. CASE rule = 6
  <2>1. PICK r : r = Node("SECTION", s)
    OBVIOUS
  <2>2. r \in NodeRecords /\ r.children = <<>> /\ r.backlink = s
    BY <1>3, <1>4, <2>1, NodeFacts
  <2>3. nodes' = Append(nodes, r) /\ currentSection' = New /\ UNCHANGED <<rootSection, currentValue>>
    <3>1. NameSection
      BY <1>11, ActsFacts
    <3> QED BY <1>4, <2>1, <3>1 DEF NameSection
  <2>4. /\ nodes' \in Seq(NodeRecords) /\ ChildrenFine' /\ Grows /\ New \in Nat /\ New \in Nodes' /\ nodes'[New] = r
        /\ \A m \in Nodes : m < New /\ nodes'[m] = nodes[m]
        /\ \A m \in Nodes' : m \in Nodes \/ m = New
    BY <1>3, <2>2, <2>3, NodeMade
  <2>5. s < New /\ rootSection <= New /\ New # s
    <3>1. s < New
      BY <1>4, <2>4
    <3> QED BY <1>4, <1>8, <2>4, <3>1, SMT
  <2>6. NodesTyped'
    BY <1>3, <1>8, <2>3, <2>4 DEF NodesTyped
  <2>7. \A m \in Nodes' : m \in Nodes \/ nodes'[m].backlink # m
    BY <2>2, <2>4, <2>5
  <2>8. v = 7 /\ v # 10 /\ under = s
    BY <1>7, <1>9, <1>11, SMT
  <2>10. /\ IF v = 7 THEN under < currentSection' /\ nodes'[currentSection'].backlink = under
                      ELSE under = currentSection'
         /\ IF v = 10 THEN currentValue' \in Nodes' /\ currentSection' < currentValue'
                            /\ \A a \in Nodes : a < currentValue'
                       ELSE UNCHANGED currentValue
         /\ currentSection' \in Nodes' /\ rootSection <= currentSection' /\ UNCHANGED rootSection /\ Grows
         /\ under = sec[Len(yyss) - n]
    BY <1>2, <1>6, <2>2, <2>3, <2>4, <2>5, <2>8
  <2>9. BodyFine'
    BY <1>1, <1>3, <2>6, <2>7, <2>10, BodyGoesOn
  <2> QED BY <2>3, <2>4, <2>6, <2>9 DEF TreeFine
<1>12. CASE rule = 10
  <2>1. n = 4 /\ yyss[L - 3] = 10
    BY <1>2, <1>12 DEF Pops
  <2>2. PICK d \in {3} : d \in 0 .. 4 /\ d < L /\ L - d = L - 3 /\ L - d \in 1 .. L
    BY <1>2, <1>5, <2>1, SMT
  <2>12. \A i \in L - d + 1 .. L : yyss[i] # 7
    <3>1. \A i \in L - d + 1 .. L : i \in L - n + 1 .. L
      BY <1>2, <1>5, <2>1, <2>2, SMT
    <3> QED BY <1>2, <1>12, <3>1 DEF Pops
  <2>3. sec[L - d] = s
    BY <1>1, <1>2, <1>4, <2>2, <2>12, SameSection
  <2>4. currentValue \in Nodes /\ s < currentValue
    BY <1>1, <1>2, <2>1, <2>2, <2>3 DEF Sections
  <2>5. nodes' = Adopt(s, currentValue) /\ UNCHANGED <<rootSection, currentSection, currentValue>>
    <3>1. Assign
      BY <1>12, ActsFacts
    <3> QED BY <1>4, <3>1 DEF Assign
  <2>6. s <= currentValue
    BY <1>4, <1>8, <2>4, SMT
  <2>7. Under(s, currentValue)
    BY <1>3, <1>4, <2>4, <2>6, NewestBody
  <2>8. nodes' \in Seq(NodeRecords) /\ ChildrenFine' /\ Grows /\ Nodes' = Nodes
    BY <1>3, <1>4, <1>8, <2>4, <2>5, <2>7, ChildAdded
  <2>9. NodesTyped'
    BY <1>3, <1>8, <2>5, <2>8 DEF NodesTyped
  <2>10. v # 7 /\ v # 10 /\ under = s
    BY <1>7, <1>9, <1>12, SMT
  <2>11. BodyFine'
    BY <1>1, <1>2, <1>3, <1>4, <1>6, <2>5, <2>8, <2>9, <2>10, BodyGoesOn
  <2> QED BY <2>5, <2>8, <2>9, <2>11 DEF TreeFine
<1>13. CASE rule = 11
  <2>1. PICK r : r = Node("VALUE", 0)
    OBVIOUS
  <2>2. r \in NodeRecords /\ r.children = <<>> /\ r.backlink = 0
    BY <1>3, <2>1, NodeFacts
  <2>3. nodes' = Append(nodes, r) /\ currentValue' = New /\ UNCHANGED <<rootSection, currentSection>>
    <3>1. NameValue
      BY <1>13, ActsFacts
    <3> QED BY <2>1, <3>1 DEF NameValue
  <2>4. /\ nodes' \in Seq(NodeRecords) /\ ChildrenFine' /\ Grows /\ New \in Nat /\ New \in Nodes' /\ nodes'[New] = r
        /\ \A m \in Nodes : m < New /\ m \in Nodes'
        /\ \A m \in Nodes' : m \in Nodes \/ m = New
    BY <1>3, <2>2, <2>3, NodeMade DEF Grows
  <2>5. NodesTyped'
    BY <1>3, <1>8, <2>3, <2>4 DEF NodesTyped
  <2>6. 0 # New
    <3>1. Len(nodes) \in Nat
      BY <1>3, NodeNumbers
    <3> QED BY <3>1, SMT DEF New
  <2>7. \A m \in Nodes' : m \in Nodes \/ nodes'[m].backlink # m
    BY <2>2, <2>4, <2>6
  <2>8. v = 10 /\ v # 7 /\ under = s
    BY <1>7, <1>9, <1>13, SMT
  <2>9. BodyFine'
    BY <1>1, <1>2, <1>3, <1>4, <1>6, <2>3, <2>4, <2>5, <2>7, <2>8, BodyGoesOn
  <2> QED BY <2>3, <2>4, <2>5, <2>9 DEF TreeFine
<1>14. CASE rule \in {7, 8, 9, 12, 13, 14, 15, 16, 17}
  <2>1. /\ nodes' \in Seq(NodeRecords) /\ ChildrenFine' /\ Grows /\ Nodes' = Nodes
        /\ UNCHANGED <<rootSection, currentSection, currentValue>>
    <3>1. CASE rule \in {12, 13, 15}
      <4>1. SetValue \/ OpenList
        BY <3>1, ActsFacts
      <4> QED BY <1>3, <4>1, ValueSet
    <3>2. CASE rule \in {7, 8, 9, 14, 16, 17}
      <4>1. UNCHANGED tree
        BY <3>2, ActsFacts
      <4> QED BY <1>3, <4>1, NodesSame DEF tree
    <3> QED BY <1>14, <3>1, <3>2
  <2>2. NodesTyped'
    BY <1>3, <1>8, <2>1 DEF NodesTyped
  <2>3. v # 7 /\ v # 10 /\ under = s
    BY <1>7, <1>9, <1>14, SMT
  <2>4. BodyFine'
    BY <1>1, <1>2, <1>3, <1>4, <1>6, <2>1, <2>2, <2>3, BodyGoesOn
  <2> QED BY <2>1, <2>2, <2>4 DEF TreeFine
<1> QED BY <1>10, <1>11, <1>12, <1>13, <1>14

\* The rules around it.
LEMMA BodyOpened ==
  ASSUME StackFine, NodesTyped, ChildrenFine, OpenBody, UNCHANGED <<stringBuffer, scanned>>,
         Restacked(1, 3), Len(yyss) = 2, yyss[2] = 1
  PROVE  TreeFine' /\ Grows /\ IsRoot(rootSection)' /\ \A m \in Nodes : m < rootSection'
<1>1. PICK r : r = [Node("SECTION", New) EXCEPT !.nodeName = <<>>]
  OBVIOUS
<1>2. New \in Nat
  <2>1. Len(nodes) \in Nat
    BY NodeNumbers
  <2> QED BY <2>1, SMT DEF New
<1>3. r \in NodeRecords /\ r.children = <<>> /\ r.backlink = New
  <2>1. <<>> \in Seq(Nat)
    BY EmptySeq
  <2>2. PICK q \in NodeRecords : q = Node("SECTION", New) /\ q.children = <<>> /\ q.backlink = New
    BY <1>2, NodeFacts
  <2>3. r = [q EXCEPT !.nodeName = <<>>]
    BY <1>1, <2>2
  <2> QED BY <2>1, <2>2, <2>3 DEF NodeRecords
<1>4. nodes' = Append(nodes, r) /\ rootSection' = New /\ currentSection' = New /\ UNCHANGED currentValue
  BY <1>1 DEF OpenBody
<1>5. /\ nodes' \in Seq(NodeRecords) /\ ChildrenFine' /\ Grows /\ New \in Nodes' /\ nodes'[New] = r
      /\ \A m \in Nodes : m < New /\ nodes'[m] = nodes[m]
      /\ \A m \in Nodes' : m \in Nodes \/ m = New
  BY <1>3, <1>4, NodeMade
<1>6. NodesTyped'
  BY <1>2, <1>4, <1>5 DEF NodesTyped
<1>7. IsRoot(rootSection)' /\ (\A m \in Nodes : m < rootSection') /\ \A m \in Nodes' : m <= rootSection'
  <2>1. \A m \in Nodes : m \in Nat /\ m < New
    BY <1>5, NodeNumbers
  <2>2. \A m \in Nodes : m <= New
    BY <1>2, <2>1, SMT
  <2>3. New <= New
    BY <1>2, SMT
  <2> QED BY <1>3, <1>4, <1>5, <2>2, <2>3 DEF IsRoot
<1>8. /\ Len(yyss') = 2 /\ yyss'[1] = 0 /\ yyss'[2] = 3
  <2>1. /\ Len(yyss') = Len(yyss) - 1 + 1 /\ (\A i \in 1 .. Len(yyss) - 1 : yyss'[i] = yyss[i])
        /\ yyss'[Len(yyss) - 1 + 1] = 3
    BY DEF Restacked
  <2>2. 2 - 1 + 1 = 2 /\ 1 \in 1 .. 2 - 1
    BY SMT
  <2> QED BY <2>1, <2>2 DEF StackFine
<1>9. PICK t : t = [i \in 1 .. 2 |-> New]
  OBVIOUS
<1>10. /\ 1 \in 1 .. 2 /\ 2 \in 1 .. 2 /\ (\A i \in 1 .. 2 : i = 1 \/ i = 2)
       /\ (\A i \in 2 .. 2 : i = 2 /\ i - 1 = 1) /\ New <= New /\ 0 # 10 /\ 3 # 10 /\ 3 # 7
  BY <1>2, SMT
<1>11. Sections(t)'
  BY <1>4, <1>5, <1>8, <1>9, <1>10 DEF Sections
<1> QED BY <1>5, <1>6, <1>7, <1>11 DEF TreeFine, BodyFine

LEMMA StackBottom ==
  ASSUME StackFine, NEW n \in 0 .. Len(yyss) - 1, NEW v, Restacked(n, v)
  PROVE  /\ Len(yyss') > 1
         /\ Len(yyss) - n > 1 => Len(yyss) > 1 /\ yyss'[2] = yyss[2]
         /\ ~(Len(yyss) - n > 1) => Len(yyss) - n = 1 /\ yyss'[2] = v
<1>1. PICK L \in Nat : L = Len(yyss) /\ L > 0
  BY TopOfStack
<1>5. n \in 0 .. L - 1
  BY <1>1
<1>6. L - n \in Int /\ L - n > 0 /\ L - n <= L
  BY <1>1, <1>5, SMT
<1>2. PICK k \in Int : k = L - n /\ k > 0 /\ k <= L
  BY <1>6
<1>3. Len(yyss') = k + 1 /\ (\A i \in 1 .. k : yyss'[i] = yyss[i]) /\ yyss'[k + 1] = v
  BY <1>1, <1>2 DEF Restacked
<1>4. k + 1 > 1 /\ (k > 1 => L > 1 /\ 2 \in 1 .. k) /\ (~(k > 1) => k = 1 /\ k + 1 = 2)
  BY <1>2, SMT
<1> QED BY <1>1, <1>2, <1>3, <1>4

\* What a reduction says of the root.
RootKept == UNCHANGED rootSection /\ Len(yyss) > 1 /\ yyss[2] = 3
RootMade == rootSection' = 0 \/ (IsRoot(rootSection)' /\ \A m \in Nodes : m < rootSection')

LEMMA ReduceTree ==
  ASSUME StackFine, TreeFine, Reduce
  PROVE  TreeFine' /\ Grows /\ (RootKept \/ RootMade)
<1>1. PICK rule \in 2 .. 17, n \in 0 .. Len(yyss) - 1, v \in 0 .. 28 :
        Acts(rule) /\ Restacked(n, v) /\ Pops(rule, n, Len(yyss)) /\ Pushes(rule, v)
  BY ReduceStep
<1>2. pc = "backup" /\ UNCHANGED <<stringBuffer, scanned>> /\ NodesTyped /\ ChildrenFine
  BY DEF Reduce, Ready, lexVars, TreeFine
<1>3. CASE rule = 2
  <2>1. EmptyBody /\ v = 2 /\ n = 0 /\ Len(yyss) = 1
    BY <1>1, <1>3, ActsFacts DEF Pops, Pushes
  <2>2. nodes' \in Seq(NodeRecords) /\ ChildrenFine' /\ Grows
    BY <1>2, <2>1, NodesSame DEF EmptyBody
  <2>3. NodesTyped' /\ rootSection' = 0
    BY <1>2, <2>1, <2>2 DEF EmptyBody, NodesTyped
  <2>4. ~InBody'
    <3>1. ~(Len(yyss) - n > 1) /\ 2 # 3
      BY <2>1, SMT
    <3> QED BY <1>1, <2>1, <3>1, StackBottom DEF InBody
  <2> QED BY <2>2, <2>3, <2>4 DEF TreeFine, BodyFine, RootMade
<1>4. CASE rule = 4
  <2>1. OpenBody /\ v = 3 /\ n = 1 /\ Len(yyss) = 2 /\ yyss[2] = 1
    BY <1>1, <1>4, ActsFacts DEF Pops, Pushes
  <2> QED BY <1>1, <1>2, <2>1, BodyOpened DEF RootMade
<1>5. CASE rule = 3
  <2>1. UNCHANGED tree /\ v = 2 /\ n = 3 /\ Len(yyss) = 4 /\ yyss[2] = 3
    BY <1>1, <1>5, ActsFacts, SMT DEF Pops, Pushes
  <2>2. nodes' \in Seq(NodeRecords) /\ ChildrenFine' /\ Grows
    BY <1>2, <2>1, NodesSame DEF tree
  <2>3. NodesTyped' /\ rootSection' = rootSection
    BY <1>2, <2>1, <2>2 DEF tree, NodesTyped
  <2>4. ~(Len(yyss) - n > 1) /\ 2 # 3 /\ Len(yyss) > 1
    BY <2>1, SMT
  <2>5. ~InBody'
    BY <1>1, <2>1, <2>4, StackBottom DEF InBody
  <2> QED BY <2>1, <2>2, <2>3, <2>4, <2>5 DEF TreeFine, BodyFine, RootKept
<1>6. CASE rule \notin {2, 3, 4}
  <2>1. rule \in {5, 6, 7, 8, 9, 10, 11, 12, 13, 14, 15, 16, 17}
    BY <1>6, SMT
  <2>2. Len(yyss) > 1 /\ yyss[2] = 3
    BY <1>1, <1>6 DEF Pops
  <2>3. InBody
    BY <1>2, <2>2 DEF InBody
  <2> QED BY <1>1, <1>2, <2>1, <2>2, <2>3, BodyRule DEF RootKept
<1> QED BY <1>3, <1>4, <1>5, <1>6

LEMMA ShiftTree ==
  ASSUME StackFine, TreeFine, Shift
  PROVE  TreeFine' /\ UNCHANGED tree /\ Grows /\ (InBody' => InBody)
         /\ (pc' = "backup" /\ Len(yyss') > 1 /\ yyss'[2] # 1 => Len(yyss) > 1 /\ yyss[2] # 1)
<1>1. PICK v \in (1 .. 28) \ {2, 3, 7, 10} : Restacked(0, v)
  BY ShiftStep
<1>2. /\ UNCHANGED tree /\ UNCHANGED <<stringBuffer, scanned>> /\ pc = "backup" /\ NodesTyped /\ ChildrenFine
  BY DEF Shift, Ready, lexVars, TreeFine
<1>3. nodes' \in Seq(NodeRecords) /\ ChildrenFine' /\ Grows /\ Nodes' = Nodes
  BY <1>2, NodesSame DEF tree
<1>4. NodesTyped'
  BY <1>2, <1>3 DEF tree, NodesTyped
<1>5. PICK L \in Nat : L = Len(yyss) /\ L > 0 /\ yyss[L] = yystate
  BY TopOfStack
<1>6. PICK n \in 0 .. Len(yyss) - 1 : n = 0 /\ L - n = L /\ Restacked(n, v)
  <2>1. 0 \in 0 .. L - 1 /\ L - 0 = L
    BY <1>5, SMT
  <2> QED BY <1>1, <1>5, <2>1
<1>7. /\ Len(yyss') > 1
      /\ L > 1 => yyss'[2] = yyss[2]
      /\ ~(L > 1) => L = 1 /\ yyss'[2] = v
  BY <1>5, <1>6, StackBottom
<1>8. InBody' => InBody
  BY <1>1, <1>2, <1>5, <1>7 DEF InBody
<1>9. ASSUME InBody PROVE BodyFine'
  <2>1. PICK sec : Sections(sec)
    BY <1>9 DEF TreeFine, BodyFine
  <2>2. IsRoot(rootSection) /\ \A m \in Nodes : IsRoot(m) => m <= rootSection
    BY <1>9 DEF TreeFine, BodyFine
  <2>3. L \in 1 .. L
    BY <1>5, SMT
  <2>4. sec[L] = currentSection /\ currentSection \in Nodes /\ rootSection <= currentSection
    BY <1>5, <2>1, <2>3 DEF Sections
  <2>5. v # 7 /\ v # 10
    BY <1>1
  <2>6. PICK under : under = sec[Len(yyss) - n] /\ under = currentSection
    BY <1>5, <1>6, <2>4
  <2>7. UNCHANGED <<rootSection, currentSection, currentValue>>
    BY <1>2 DEF tree
  <2> QED BY <1>2, <1>3, <1>4, <1>6, <2>1, <2>2, <2>4, <2>5, <2>6, <2>7, BodyGoesOn
<1>10. BodyFine'
  BY <1>8, <1>9 DEF BodyFine
<1>11. L > 1 \/ yyss'[2] = 1 \/ pc' # "backup"
  <2>1. ASSUME L = 1 PROVE yyss'[2] = 1
    <3>1. yyss[1] = 0 /\ Follows(yyss[L], v)
      BY <1>5, <1>6 DEF Restacked, StackFine
    <3>2. Follows(0, v)
      BY <2>1, <3>1
    <3>3. v = 1
      BY <1>1, <3>2, SMT DEF Follows
    <3>4. ~(L > 1)
      BY <2>1, SMT
    <3> QED BY <1>7, <3>3, <3>4
  <2> QED BY <1>7, <2>1
<1>12. pc' = "backup" /\ Len(yyss') > 1 /\ yyss'[2] # 1 => Len(yyss) > 1 /\ yyss[2] # 1
  BY <1>5, <1>7, <1>11
<1> QED BY <1>2, <1>3, <1>4, <1>8, <1>10, <1>12 DEF TreeFine

\* What the parser does not change stays as it is.
LEMMA TreeStays ==
  ASSUME TreeFine, UNCHANGED <<pc, yyss, tree>>, stringBuffer' \in Seq(Nat), scanned' \in Nat
  PROVE  TreeFine'
<1>1. UNCHANGED <<pc, yyss, nodes, rootSection, currentSection, currentValue>> /\ NodesTyped' /\ ChildrenFine'
  BY NodesSame DEF tree, NodesTyped, TreeFine
<1>2. ASSUME InBody' PROVE IsRoot(rootSection)' /\ (\A n \in Nodes' : IsRoot(n)' => n <= rootSection') /\ \E sec : Sections(sec)'
  <2>1. PICK sec : Sections(sec)
    BY <1>1, <1>2 DEF TreeFine, BodyFine, InBody
  <2>2. Sections(sec)'
    BY <1>1, <2>1 DEF Sections, Nodes
  <2> QED BY <1>1, <1>2, <2>2 DEF TreeFine, BodyFine, InBody, IsRoot, Nodes
<1>3. BodyFine'
  BY <1>2 DEF BodyFine
<1> QED BY <1>1, <1>3 DEF TreeFine

\* What the scanner leaves alone.
LEMMA LexTree ==
  ASSUME TreeFine, yylex
  PROVE  TreeFine' /\ UNCHANGED <<pc, yyss, yyresult, tree>>
<1>1. UNCHANGED <<pc, yyss, yyresult, tree>>
  BY DEF yylex, parseVars, tree, GotToken
<1>2. NodesTyped
  BY DEF TreeFine
<1>3. stringBuffer' \in Seq(Nat) /\ scanned' \in Nat
  <2>1. CASE Refill \/ EndOfFile
    BY <1>2, <2>1 DEF Refill, EndOfFile, NodesTyped
  <2>2. ASSUME NEW x, Match(x) PROVE stringBuffer' \in Seq(Nat) /\ scanned' \in Nat
    <3>1. scanned' = scanned + 1 /\ stringBuffer' = Enters(x)[2]
      BY <2>2 DEF Match, Take
    <3>2. scanned' \in Nat
      BY <1>2, <3>1, SMT DEF NodesTyped
    <3>3. PICK q \in Nat : q = scanned'
      BY <3>2
    <3>4. <<>> \in Seq(Nat) /\ <<q>> \in Seq(Nat) /\ Append(stringBuffer, q) \in Seq(Nat)
      <4>1. stringBuffer \in Seq(Nat)
        BY <1>2 DEF NodesTyped
      <4> QED BY <4>1, SMT
    <3>5. stringBuffer' \in {<<>>, <<scanned'>>, Append(stringBuffer, scanned'), stringBuffer}
      BY <3>1, Zenon DEF Enters
    <3> QED BY <1>2, <3>2, <3>3, <3>4, <3>5 DEF NodesTyped
  <2> QED BY <2>1, <2>2 DEF yylex
<1> QED BY <1>1, <1>3, TreeStays

-----------------------------------------------------------------------------
(* The trees of the configurations, and what was freed. *)

RootOf(c) == configurations[c].m_rootNode

\* A root that the parser leaves or may leave is newer than those that were taken.
RootIsNew == rootSection = 0 \/ (IsRoot(rootSection) /\ \A c \in DOMAIN configurations : RootOf(c) < rootSection)
NewRoot   == (pc = "backup" /\ Len(yyss) > 1 /\ yyss[2] # 1) \/ (pc = "return" /\ yyresult = 0) => RootIsNew

RootsFine ==
  /\ \A c \in DOMAIN configurations : RootOf(c) # 0 => IsRoot(RootOf(c))
  /\ \A c, d \in DOMAIN configurations : c # d /\ RootOf(c) = RootOf(d) => RootOf(c) = 0

\* What was freed was in the tree of a configuration that is gone.
FreedFine ==
  \A n \in freed : \E c \in DOMAIN configurations :
    ~configurations[c].alive /\ RootOf(c) # 0 /\ Under(RootOf(c), n)

\* While nothing is reduced the root stays as new as it was.
LEMMA RootStays ==
  ASSUME UNCHANGED <<nodes, rootSection, configVars>>, RootIsNew
  PROVE  RootIsNew'
BY DEF RootIsNew, RootOf, IsRoot, Nodes, configVars

\* A root that is newer than all nodes is newer than the configurations'.
LEMMA RootGrows ==
  ASSUME NodesTyped, NodesTyped', Grows, RootsFine, UNCHANGED configVars, RootMade \/ (RootKept /\ RootIsNew)
  PROVE  RootIsNew'
<1>1. UNCHANGED configurations
  BY DEF configVars
<1>2. CASE RootMade
  <2>1. CASE rootSection' = 0
    BY <2>1 DEF RootIsNew
  <2>2. CASE IsRoot(rootSection)' /\ \A m \in Nodes : m < rootSection'
    <3>1. 0 < rootSection'
      <4>1. rootSection' \in Nat /\ rootSection' > 0
        <5>1. Nodes' = 1 .. Len(nodes') /\ Len(nodes') \in Nat
          BY LenProperties DEF NodesTyped, Nodes
        <5>2. rootSection' \in 1 .. Len(nodes')
          BY <2>2, <5>1 DEF IsRoot
        <5> QED BY <5>1, <5>2, SMT
      <4> QED BY <4>1, SMT
    <3>2. \A c \in DOMAIN configurations : RootOf(c) = 0 \/ RootOf(c) \in Nodes
      BY DEF RootsFine, IsRoot
    <3> QED BY <1>1, <2>2, <3>1, <3>2 DEF RootIsNew, RootOf
  <2> QED BY <1>2, <2>1, <2>2 DEF RootMade
<1>3. CASE RootKept /\ RootIsNew
  BY <1>1, <1>3 DEF RootKept, RootIsNew, RootOf, IsRoot, Grows
<1> QED BY <1>2, <1>3

LEMMA ParseTree ==
  ASSUME StackFine, StackFine', TreeFine, RootsFine, NewRoot, Parse, UNCHANGED configVars
  PROVE  TreeFine' /\ Grows /\ NewRoot'
<1>1. NodesTyped /\ ChildrenFine
  BY DEF TreeFine
<1>2. ASSUME UNCHANGED nodes PROVE Grows
  BY <1>1, <1>2, NodesSame
<1>3. pc = "backup"
  BY ParsePc
<1>4. CASE yylex
  <2>1. TreeFine' /\ UNCHANGED <<pc, yyss, yyresult, tree>>
    BY <1>4, LexTree
  <2> QED BY <1>2, <2>1, RootStays DEF NewRoot, tree
<1>5. CASE Shift
  <2>1. /\ TreeFine' /\ UNCHANGED tree /\ Grows
        /\ (pc' = "backup" /\ Len(yyss') > 1 /\ yyss'[2] # 1 => Len(yyss) > 1 /\ yyss[2] # 1)
    BY <1>5, ShiftTree
  <2>2. pc' = "return" => yyresult' # 0
    <3>1. pc' = "return" => yyresult' = 2
      BY <1>5, ShiftStep DEF Restacked
    <3> QED BY <3>1, SMT
  <2> QED BY <1>3, <2>1, <2>2, RootStays DEF NewRoot, tree
<1>6. CASE Reduce
  <2>1. TreeFine' /\ Grows /\ (RootKept \/ RootMade)
    BY <1>6, ReduceTree
  <2>2. RootKept => RootIsNew
    <3>1. 3 # 1
      OBVIOUS
    <3> QED BY <1>3, <3>1 DEF RootKept, NewRoot
  <2>3. RootIsNew'
    BY <1>1, <2>1, <2>2, RootGrows DEF TreeFine
  <2> QED BY <2>1, <2>3 DEF NewRoot
<1>7. CASE Accept \/ SyntaxError
  <2>1. /\ UNCHANGED <<tree, yyss, stringBuffer, scanned>> /\ pc' = "return"
    BY <1>7 DEF Accept, SyntaxError, Return, lexVars
  <2>2. TreeFine'
    <3>1. ~InBody'
      BY <2>1 DEF InBody
    <3>2. NodesTyped' /\ ChildrenFine'
      BY <1>1, <2>1, NodesSame DEF tree, NodesTyped
    <3> QED BY <3>1, <3>2 DEF TreeFine, BodyFine
  <2>3. CASE Accept
    <3>1. YYFINAL \in Shifts
      BY <2>3 DEF Accept
    <3>2. yystate = 2
      BY <3>1, ShiftFollows
    <3>3. Len(yyss) > 1 /\ yyss[2] # 1
      <4>1. PICK L \in Nat : L = Len(yyss) /\ L > 0 /\ L # 1
        <5>1. Len(yyss) # 1
          BY <3>2, StateFacts
        <5> QED BY <5>1, TopOfStack
      <4>2. L > 1
        BY <4>1, SMT
      <4>3. Len(yyss) > 1
        BY <4>1, <4>2
      <4>4. yyss[2] = 3 \/ yyss[2] = 2
        BY <3>2, <4>3, StateFacts
      <4> QED BY <4>3, <4>4
    <3> QED BY <1>2, <1>3, <2>1, <2>2, <3>3, RootStays DEF NewRoot, tree
  <2>4. CASE SyntaxError
    <3>1. yyresult' = 1
      BY <2>4 DEF SyntaxError, Return
    <3>2. yyresult' # 0
      BY <3>1
    <3> QED BY <1>2, <2>1, <2>2, <3>2 DEF NewRoot, tree
  <2> QED BY <1>7, <2>3, <2>4
<1> QED BY <1>4, <1>5, <1>6, <1>7 DEF Parse

\* Outside the parser, and when it begins.
LEMMA TreeRests ==
  ASSUME TreeFine, UNCHANGED <<tree, stringBuffer, scanned>>, pc' = "idle" \/ (pc' = "backup" /\ Len(yyss') = 1)
  PROVE  TreeFine' /\ NewRoot'
<1>1. NodesTyped' /\ ChildrenFine'
  BY NodesSame DEF TreeFine, NodesTyped, tree
<1>2. ~(1 > 1)
  BY SMT
<1> QED BY <1>1, <1>2 DEF TreeFine, BodyFine, InBody, NewRoot

-----------------------------------------------------------------------------
(* The tree below a node is what numbers tell, so what is freed and what   *)
(* is kept can be told apart by numbers.                                   *)

ChildrenOf(n) == Range(nodes[n].children)

\* The function that Tree reads.
IsBelow(f) == f = [n \in Nodes |-> {n} \cup UNION {f[c] : c \in ChildrenOf(n)}]

Closed(S) == S \subseteq Nodes /\ \A n \in S : ChildrenOf(n) \subseteq S

\* There is one: what every closed set that holds a node holds.
LEMMA SomeBelow ==
  ASSUME NodesTyped, ChildrenFine
  PROVE  \E f : IsBelow(f)
<1>1. PICK f : f = [n \in Nodes |-> {m \in Nodes : \A S : Closed(S) /\ n \in S => m \in S}]
  OBVIOUS
<1>2. \A n \in Nodes : \A c \in ChildrenOf(n) : c \in Nodes
  BY DEF ChildrenFine, Under, ChildrenOf
<1>3. ASSUME NEW n \in Nodes PROVE f[n] = {n} \cup UNION {f[c] : c \in ChildrenOf(n)}
  <2> DEFINE T == {n} \cup UNION {f[c] : c \in ChildrenOf(n)}
  <2>1. \A m \in Nodes : m \in f[m]
    BY <1>1
  <2>2. Closed(T)
    <3>1. T \subseteq Nodes
      BY <1>1, <1>2
    <3>2. ChildrenOf(n) \subseteq T
      BY <1>2, <2>1
    <3>3. ASSUME NEW c \in ChildrenOf(n), NEW m \in f[c], NEW d \in ChildrenOf(m) PROVE d \in f[c]
      <4>1. c \in Nodes /\ m \in Nodes /\ d \in Nodes
        BY <1>1, <1>2, <3>3
      <4>2. ASSUME NEW S, Closed(S), c \in S PROVE d \in S
        BY <1>1, <3>3, <4>1, <4>2 DEF Closed
      <4> QED BY <1>1, <4>1, <4>2
    <3> QED BY <3>1, <3>2, <3>3 DEF Closed
  <2>3. f[n] \subseteq T
    <3>1. n \in T
      OBVIOUS
    <3> HIDE DEF T
    <3> QED BY <1>1, <2>2, <3>1
  <2>4. T \subseteq f[n]
    <3>1. n \in f[n]
      BY <2>1
    <3>2. ASSUME NEW c \in ChildrenOf(n), NEW m \in f[c] PROVE m \in f[n]
      <4>1. ASSUME NEW S, Closed(S), n \in S PROVE m \in S
        <5>1. c \in S /\ c \in Nodes
          BY <1>2, <4>1 DEF Closed
        <5> QED BY <1>1, <3>2, <4>1, <5>1
      <4>2. m \in Nodes
        BY <1>1, <1>2, <3>2
      <4> QED BY <1>1, <4>1, <4>2
    <3> QED BY <3>1, <3>2
  <2> QED BY <2>3, <2>4
<1>4. f = [n \in Nodes |-> {n} \cup UNION {f[c] : c \in ChildrenOf(n)}]
  BY <1>1, <1>3
<1> QED BY <1>4 DEF IsBelow

\* Whatever that function is, it leads down only: a last node where it did not has children after it.
LEMMA LeadsDown ==
  ASSUME NodesTyped, ChildrenFine, NEW f, IsBelow(f), NEW r \in Nodes
  PROVE  \A n \in f[r] : Under(r, n)
<1>1. PICK L \in Nat : L = Len(nodes) /\ Nodes = 1 .. L
  BY NodeNumbers
<1> DEFINE Bad == {n \in Nodes : ~ \A m \in f[n] : Under(n, m)}
           S   == {k \in Nat : \E n \in Bad : k = L - n}
<1> SUFFICES ASSUME r \in Bad PROVE FALSE
  OBVIOUS
<1>2. \A n \in Nodes : L - n \in Nat
  BY <1>1, SMT
<1>3. L - r \in S /\ S \subseteq Nat
  BY <1>2
<1>4. PICK x \in S : \A y \in S : ~ (<<y, x>> \in OpToRel(<, Nat))
  <2> HIDE DEF S
  <2> QED BY <1>3, NatLessThanWellFounded, WFMin
<1>5. PICK n \in Bad : x = L - n
  BY <1>4
<1>6. n \in Nodes /\ f[n] = {n} \cup UNION {f[c] : c \in ChildrenOf(n)}
  BY <1>5 DEF IsBelow
<1>7. ASSUME NEW c \in ChildrenOf(n) PROVE c \notin Bad
  <2>1. n < c /\ c \in Nodes
    BY <1>6, <1>7 DEF ChildrenFine, Under, ChildrenOf
  <2> SUFFICES ASSUME c \in Bad PROVE FALSE
    OBVIOUS
  <2>2. L - c \in S /\ x \in Nat
    BY <1>2, <1>3, <2>1
  <2>3. L - c < x
    BY <1>1, <1>5, <1>6, <2>1, SMT
  <2> QED BY <1>4, <2>2, <2>3 DEF OpToRel
<1>8. \A c \in ChildrenOf(n) : c \in Nodes /\ Under(n, c)
  BY <1>6 DEF ChildrenFine, Under, ChildrenOf
<1>9. \A c \in ChildrenOf(n) : \A m \in f[c] : Under(c, m)
  BY <1>7, <1>8
<1>10. \A c \in ChildrenOf(n) : \A m \in f[c] : Under(n, m)
  BY <1>8, <1>9, UnderChains
<1>11. Under(n, n)
  <2>1. n \in Nat
    BY <1>1, <1>6, SMT
  <2>2. n <= n /\ n + 1 .. n = {}
    BY <2>1, SMT
  <2> QED BY <1>6, <2>2 DEF Under
<1>12. \A m \in f[n] : Under(n, m)
  BY <1>6, <1>10, <1>11
<1> QED BY <1>5, <1>12

LEMMA TreeIsBelow ==
  ASSUME NodesTyped, ChildrenFine, NEW r, r = 0 \/ r \in Nodes, NEW n \in Tree(r)
  PROVE  r # 0 /\ Under(r, n)
<1>1. r # 0
  BY DEF Tree
<1>2. PICK f : f = CHOOSE g : IsBelow(g)
  OBVIOUS
<1>3. IsBelow(f)
  BY <1>2, SomeBelow
<1>4. Tree(r) = f[r]
  BY <1>1, <1>2 DEF Tree, IsBelow, ChildrenOf
<1> QED BY <1>1, <1>3, <1>4, LeadsDown

-----------------------------------------------------------------------------
(* What becomes of the configurations. *)

\* A configuration without a tree is made.
LEMMA ConfigMade ==
  ASSUME ConfigTyped, NEW alive, configurations' = Append(configurations, [alive |-> alive, m_rootNode |-> 0])
  PROVE  /\ \A c \in DOMAIN configurations : c \in DOMAIN configurations' /\ configurations'[c] = configurations[c]
         /\ \A c \in DOMAIN configurations' : c \in DOMAIN configurations \/ configurations'[c].m_rootNode = 0
<1>1. PICK e : e = [alive |-> alive, m_rootNode |-> 0]
  OBVIOUS
<1>2. PICK S : S = Range(configurations) \cup {e}
  OBVIOUS
<1>3. configurations \in Seq(S)
  <2>1. Range(configurations) \subseteq S
    BY <1>2
  <2> QED BY <2>1, SeqMonotonic DEF ConfigTyped
<1>4. Pushed(configurations, configurations', e)
  BY <1>1, <1>2, <1>3, PushFacts
<1>5. \A c \in DOMAIN configurations' : c \in DOMAIN configurations \/ c = Len(configurations')
  BY <1>4, SMT DEF Pushed
<1>6. \A c \in DOMAIN configurations : c \in DOMAIN configurations'
  BY <1>4, SMT DEF Pushed
<1> QED BY <1>1, <1>4, <1>5, <1>6 DEF Pushed

LEMMA RootsMade ==
  ASSUME ConfigTyped, NEW alive, configurations' = Append(configurations, [alive |-> alive, m_rootNode |-> 0]),
         RootsFine, FreedFine, UNCHANGED <<nodes, freed>>
  PROVE  RootsFine' /\ FreedFine'
<1>1. /\ \A c \in DOMAIN configurations : c \in DOMAIN configurations' /\ configurations'[c] = configurations[c]
      /\ \A c \in DOMAIN configurations' : c \in DOMAIN configurations \/ configurations'[c].m_rootNode = 0
  BY ConfigMade
<1>2. RootsFine'
  BY <1>1 DEF RootsFine, RootOf, IsRoot, Nodes
<1>3. FreedFine'
  BY <1>1 DEF FreedFine, RootOf, Under, IsRoot, Nodes
<1> QED BY <1>2, <1>3

LEMMA RootsKept ==
  ASSUME NodesTyped, Grows, RootsFine, FreedFine, UNCHANGED configVars
  PROVE  RootsFine' /\ FreedFine'
<1>1. RootsFine'
  BY DEF RootsFine, RootOf, IsRoot, Grows, configVars
<1>2. FreedFine'
  BY UnderKept DEF FreedFine, RootOf, configVars
<1> QED BY <1>1, <1>2

\* A configuration takes the root the parser left, which no other has; an older one is forgotten.
LEMMA RootTaken ==
  ASSUME ConfigTyped, NodesTyped, RootsFine, FreedFine, RootIsNew, UNCHANGED nodes, NEW c, TakesTree(c)
  PROVE  RootsFine' /\ FreedFine'
<1>1. /\ c \in DOMAIN configurations /\ configurations[c].alive /\ rootSection # 0
      /\ configurations' = [configurations EXCEPT ![c].m_rootNode = rootSection] /\ UNCHANGED freed
  BY DEF TakesTree, Usable, Throws, TakeTree
<1>2. /\ DOMAIN configurations' = DOMAIN configurations
      /\ configurations'[c].m_rootNode = rootSection
      /\ \A d \in DOMAIN configurations : d # c => configurations'[d] = configurations[d]
  <2>1. PICK q : q = configurations[c] /\ q = [alive |-> q.alive, m_rootNode |-> q.m_rootNode]
    BY <1>1 DEF ConfigTyped
  <2>2. [q EXCEPT !.m_rootNode = rootSection].m_rootNode = rootSection
    BY <2>1
  <2> QED BY <1>1, <2>1, <2>2
<1>3. IsRoot(rootSection) /\ \A d \in DOMAIN configurations : RootOf(d) < rootSection
  BY <1>1 DEF RootIsNew
<1>4. \A d \in DOMAIN configurations : RootOf(d) # rootSection
  <2>1. rootSection \in Nat
    BY DEF NodesTyped
  <2> QED BY <1>3, <2>1, SMT
<1>5. RootsFine'
  BY <1>2, <1>3, <1>4 DEF RootsFine, RootOf, IsRoot, Nodes
<1>6. FreedFine'
  BY <1>1, <1>2 DEF FreedFine, RootOf, Under, IsRoot, Nodes
<1> QED BY <1>5, <1>6

\* A configuration is destroyed, with its tree.
LEMMA RootDropped ==
  ASSUME ConfigTyped, NodesTyped, ChildrenFine, RootsFine, FreedFine, UNCHANGED nodes, NEW c, DropsTree(c)
  PROVE  RootsFine' /\ FreedFine'
<1>1. CASE c = 0
  BY <1>1 DEF DropsTree, Delete, configVars, RootsFine, FreedFine, RootOf, Under, IsRoot, Nodes
<1>2. CASE c # 0
  <2>1. /\ c \in DOMAIN configurations /\ freed' = freed \cup Tree(RootOf(c))
        /\ configurations' = [configurations EXCEPT ![c].alive = FALSE]
    BY <1>2 DEF DropsTree, Delete, Usable, RootOf
  <2>2. /\ DOMAIN configurations' = DOMAIN configurations /\ ~configurations'[c].alive
        /\ \A d \in DOMAIN configurations :
             /\ configurations'[d].m_rootNode = configurations[d].m_rootNode
             /\ ~configurations[d].alive => ~configurations'[d].alive
    <3>1. PICK q : q = configurations[c] /\ q = [alive |-> q.alive, m_rootNode |-> q.m_rootNode]
      BY <2>1 DEF ConfigTyped
    <3>2. PICK p : p = [q EXCEPT !.alive = FALSE]
      OBVIOUS
    <3>3. p.alive = FALSE /\ p.m_rootNode = q.m_rootNode
      BY <3>1, <3>2
    <3>4. \A d \in DOMAIN configurations : configurations'[d] = IF d = c THEN p ELSE configurations[d]
      BY <2>1, <3>1, <3>2
    <3> QED BY <2>1, <3>1, <3>3, <3>4
  <2>3. RootsFine'
    BY <2>2 DEF RootsFine, RootOf, IsRoot, Nodes
  <2>4. ASSUME NEW n \in freed'
        PROVE  \E d \in DOMAIN configurations' : ~configurations'[d].alive /\ RootOf(d)' # 0 /\ Under(RootOf(d), n)'
    <3>1. CASE n \in freed
      BY <2>2, <3>1 DEF FreedFine, RootOf, Under, IsRoot, Nodes
    <3>2. CASE n \in Tree(RootOf(c))
      <4>1. RootOf(c) = 0 \/ RootOf(c) \in Nodes
        BY <2>1 DEF RootsFine, IsRoot
      <4>2. RootOf(c) # 0 /\ Under(RootOf(c), n)
        BY <3>2, <4>1, TreeIsBelow
      <4> QED BY <2>1, <2>2, <4>2 DEF RootOf, Under, IsRoot, Nodes
    <3> QED BY <2>1, <3>1, <3>2
  <2>5. FreedFine'
    BY <2>4 DEF FreedFine
  <2> QED BY <2>3, <2>5
<1> QED BY <1>1, <1>2

TreesFine == TreeFine /\ NewRoot /\ RootsFine /\ FreedFine

LEMMA TreesInit == Init => TreesFine
<1> SUFFICES ASSUME Init PROVE TreesFine
  OBVIOUS
<1>1. /\ nodes = <<>> /\ rootSection = 0 /\ currentSection = 0 /\ currentValue = 0 /\ pc = "idle"
      /\ stringBuffer = <<>> /\ scanned = 0 /\ configurations = <<>> /\ freed = {}
  BY DEF Init, ConfigInit, ParseInit, LexInit
<1>2. DOMAIN (<<>>) = {} /\ 0 \in Nat
  BY SMT
<1>3. <<>> \in Seq(NodeRecords) /\ <<>> \in Seq(Nat)
  BY EmptySeq
<1>4. TreeFine /\ NewRoot
  BY <1>1, <1>2, <1>3 DEF TreeFine, NodesTyped, ChildrenFine, Nodes, BodyFine, InBody, NewRoot
<1>5. RootsFine /\ FreedFine
  BY <1>1, <1>2 DEF RootsFine, FreedFine
<1> QED BY <1>4, <1>5 DEF TreesFine

LEMMA TreesNext ==
  ASSUME IInv, IInv', ParserFine, ParserFine', TreesFine, [Next]_vars
  PROVE  TreesFine'
<1>1. /\ WhatHappens /\ ConfigTyped /\ StackFine /\ StackFine' /\ TreeFine /\ NewRoot /\ RootsFine /\ FreedFine
      /\ NodesTyped /\ ChildrenFine
  BY Happens DEF ParserFine, IInv, Typed, TreesFine, TreeFine
<1>2. ASSUME UNCHANGED nodes PROVE Grows
  BY <1>1, <1>2, NodesSame
<1>3. CASE Quiet
  <2>1. UNCHANGED <<pc, yyss, yyresult, tree, stringBuffer, scanned, nodes, rootSection, configVars>>
    BY <1>3 DEF Quiet, lexVars, parseVars, tree
  <2>2. stringBuffer' \in Seq(Nat) /\ scanned' \in Nat
    BY <1>1, <2>1 DEF NodesTyped
  <2>3. TreeFine'
    BY <1>1, <2>1, <2>2, TreeStays
  <2>4. NewRoot'
    BY <1>1, <2>1, RootStays DEF NewRoot
  <2> QED BY <1>1, <1>2, <2>1, <2>3, <2>4, RootsKept DEF TreesFine
<1>4. CASE pc = "idle" /\ (Opens \/ FindsNone)
  <2>1. /\ UNCHANGED <<tree, nodes, freed, stringBuffer, scanned>>
        /\ pc' = "idle" \/ (pc' = "backup" /\ Len(yyss') = 1)
        /\ \E alive : configurations' = Append(configurations, [alive |-> alive, m_rootNode |-> 0])
    <3>1. Len(<<0>>) = 1
      BY SMT
    <3> QED BY <1>4, <3>1 DEF Opens, FindsNone, Begin, Open, Construct, lexVars, parseVars, tree
  <2> QED BY <1>1, <2>1, TreeRests, RootsMade DEF TreesFine
<1>5. CASE Parses
  BY <1>1, <1>5, ParseTree, RootsKept DEF Parses, TreesFine
<1>6. ASSUME NEW c, Ends \/ (pc = "idle" /\ UNCHANGED <<lexVars, parseVars>>),
             DropsTree(c) \/ (Ends /\ TakesTree(c))
      PROVE  TreesFine'
  <2>1. UNCHANGED <<tree, nodes, stringBuffer, scanned>> /\ pc' = "idle"
    BY <1>6 DEF Ends, lexVars, parseVars, tree
  <2>2. TreeFine' /\ NewRoot'
    BY <1>1, <2>1, TreeRests
  <2>3. CASE DropsTree(c)
    BY <1>1, <2>1, <2>2, <2>3, RootDropped DEF TreesFine
  <2>4. CASE Ends /\ TakesTree(c)
    <3>1. RootIsNew
      BY <1>1, <2>4 DEF Ends, TakesTree, Throws, NewRoot
    <3> QED BY <1>1, <2>1, <2>2, <2>4, <3>1, RootTaken DEF TreesFine
  <2> QED BY <1>6, <2>3, <2>4
<1> QED BY <1>1, <1>3, <1>4, <1>5, <1>6 DEF WhatHappens

THEOREM TreesInvariance == Spec => []TreesFine
<1>1. Init => TreesFine
  BY TreesInit
<1>2. IInv /\ IInv' /\ ParserFine /\ ParserFine' /\ TreesFine /\ [Next]_vars => TreesFine'
  BY TreesNext
<1> QED BY <1>1, <1>2, Invariance, ParserInvariance, PTL DEF Spec

LEMMA TreesApart == TreesFine => TreesAreAlive
<1> SUFFICES ASSUME TreesFine PROVE TreesAreAlive
  OBVIOUS
<1>1. NodesTyped /\ ChildrenFine /\ RootsFine /\ FreedFine
  BY DEF TreesFine, TreeFine
<1>2. ASSUME NEW c \in DOMAIN configurations, NEW n \in Tree(RootOf(c))
      PROVE  RootOf(c) # 0 /\ IsRoot(RootOf(c)) /\ Under(RootOf(c), n)
  <2>1. RootOf(c) = 0 \/ (RootOf(c) \in Nodes /\ IsRoot(RootOf(c)))
    BY <1>1 DEF RootsFine, IsRoot
  <2> QED BY <1>1, <1>2, <2>1, TreeIsBelow
<1>3. ASSUME NEW c \in DOMAIN configurations, NEW d \in DOMAIN configurations, c # d,
             NEW n, n \in Tree(RootOf(c)), RootOf(d) # 0, IsRoot(RootOf(d)), Under(RootOf(d), n)
      PROVE  FALSE
  <2>1. RootOf(c) # 0 /\ IsRoot(RootOf(c)) /\ Under(RootOf(c), n)
    BY <1>2, <1>3
  <2>2. RootOf(c) = RootOf(d)
    BY <1>1, <1>3, <2>1, OneTree
  <2> QED BY <1>1, <1>3, <2>1, <2>2 DEF RootsFine
<1>4. ASSUME NEW root \in Roots, NEW n \in Tree(root), n \in freed PROVE FALSE
  <2>1. PICK c \in DOMAIN configurations : configurations[c].alive /\ root = RootOf(c)
    BY <1>4 DEF Roots, RootOf
  <2>2. PICK d \in DOMAIN configurations : ~configurations[d].alive /\ RootOf(d) # 0 /\ Under(RootOf(d), n)
    BY <1>1, <1>4 DEF FreedFine
  <2>3. IsRoot(RootOf(d))
    BY <1>1, <2>2 DEF RootsFine
  <2> QED BY <1>3, <1>4, <2>1, <2>2, <2>3
<1>5. ASSUME NEW c \in DOMAIN configurations, NEW d \in DOMAIN configurations, c # d,
             NEW n, n \in Tree(RootOf(c)), n \in Tree(RootOf(d))
      PROVE  FALSE
  <2>1. RootOf(d) # 0 /\ IsRoot(RootOf(d)) /\ Under(RootOf(d), n)
    BY <1>2, <1>5
  <2> QED BY <1>3, <1>5, <2>1
<1> QED BY <1>4, <1>5 DEF TreesAreAlive, RootOf

(* A configuration's tree is its own and stays alive as long as the configuration, however many  *)
(* files are parsed one after the other and whichever parses fail: the root that yyparse()       *)
(* leaves in its global variable is taken only if this parse has made it.                        *)
THEOREM TreesAreKept == Spec => []TreesAreAlive
BY TreesInvariance, TreesApart, PTL

-----------------------------------------------------------------------------
(* The grammar.  What may follow is a set of sentential forms; Expand is a *)
(* recursive function on them, and all that is needed of it is its own     *)
(* equation, for which there has to be such a function.                    *)

Forms == Seq(0 .. Grammar!assignlist)

\* No nonterminal is in front.
Done(form) == form = <<>> \/ Head(form) < Grammar!accept

\* The right-hand sides of a nonterminal.
SidesOf(a) == Grammar!Productions[a - Grammar!accept + 1]

Sides(form)     == SidesOf(Head(form))
Rewritten(form) == {rhs \o Tail(form) : rhs \in Sides(form)}

\* An element is put in front of a sequence.
LEMMA InFront ==
  ASSUME NEW S, NEW a \in S, NEW r \in Seq(S)
  PROVE  /\ Cons(a, r) \in Seq(S) /\ Cons(a, r) # <<>> /\ Head(Cons(a, r)) = a /\ Tail(Cons(a, r)) = r
<1>1. <<a>> \in Seq(S) /\ Len(<<a>>) = 1 /\ <<a>>[1] = a
  BY SMT
<1>2. PICK c : c = <<a>> \o r
  OBVIOUS
<1>3. /\ c \in Seq(S) /\ Len(c) = 1 + Len(r)
      /\ \A i \in 1 .. 1 + Len(r) : c[i] = IF i <= 1 THEN <<a>>[i] ELSE r[i - 1]
  BY <1>1, <1>2, ConcatProperties
<1>4. Len(r) \in Nat
  BY LenProperties
<1>5. c # <<>>
  <2>1. Len(c) # 0
    BY <1>3, <1>4, SMT
  <2> QED BY <1>3, <2>1, EmptySeq
<1>6. Head(c) = a
  <2>1. 1 \in 1 .. 1 + Len(r) /\ 1 <= 1
    BY <1>4, SMT
  <2>2. c[1] = a
    BY <1>1, <1>3, <2>1
  <2> QED BY <1>3, <1>5, <2>2, HeadTailProperties
<1>7. Tail(c) = r
  <2>1. /\ Tail(c) \in Seq(S) /\ Len(Tail(c)) = Len(c) - 1
        /\ \A i \in 1 .. Len(Tail(c)) : Tail(c)[i] = c[i + 1]
    BY <1>3, <1>5, HeadTailProperties
  <2>2. Len(Tail(c)) = Len(r)
    BY <1>3, <1>4, <2>1, SMT
  <2>3. ASSUME NEW i \in 1 .. Len(r) PROVE Tail(c)[i] = r[i]
    <3>1. i + 1 \in 1 .. 1 + Len(r) /\ ~(i + 1 <= 1) /\ i + 1 - 1 = i
      BY <1>4, SMT
    <3> QED BY <1>3, <2>1, <2>2, <3>1
  <2> QED BY <2>1, <2>2, <2>3, SeqEqual
<1> QED BY <1>2, <1>3, <1>5, <1>6, <1>7 DEF Cons

\* The form with one more symbol in front.
LEMMA ConsFacts ==
  ASSUME NEW a \in 0 .. 24, NEW r \in Forms
  PROVE  /\ Cons(a, r) \in Forms /\ Cons(a, r) # <<>> /\ Head(Cons(a, r)) = a /\ Tail(Cons(a, r)) = r
<1>1. r \in Seq(0 .. 24)
  BY DEF Forms, Grammar!assignlist
<1> QED BY <1>1, InFront DEF Forms, Grammar!assignlist

LEMMA SidesFacts ==
  /\ SidesOf(14) = {<<15, 0>>}
  /\ SidesOf(15) = {<<>>, <<16, 19, 4>>}
  /\ SidesOf(16) = {<<3>>}
  /\ SidesOf(17) = {<<18, 3, 19, 4>>}
  /\ SidesOf(18) = {<<10>>}
  /\ SidesOf(19) = {<<>>, <<20, 19>>, <<17, 19>>}
  /\ SidesOf(20) = {<<21, 8, 22, 9>>}
  /\ SidesOf(21) = {<<10>>}
  /\ SidesOf(22) = {<<11>>, <<12>>, <<23, 24, 7>>}
  /\ SidesOf(23) = {<<5>>}
  /\ SidesOf(24) = {<<22>>, <<22, 6, 24>>}
<1>1. PICK P : P = Grammar!Productions
  OBVIOUS
<1>2. /\ P[1] = {<<15, 0>>} /\ P[2] = {<<>>, <<16, 19, 4>>} /\ P[3] = {<<3>>} /\ P[4] = {<<18, 3, 19, 4>>}
      /\ P[5] = {<<10>>} /\ P[6] = {<<>>, <<20, 19>>, <<17, 19>>} /\ P[7] = {<<21, 8, 22, 9>>}
      /\ P[8] = {<<10>>} /\ P[9] = {<<11>>, <<12>>, <<23, 24, 7>>} /\ P[10] = {<<5>>} /\ P[11] = {<<22>>, <<22, 6, 24>>}
  BY <1>1 DEF Grammar!Productions, Grammar!body, Grammar!bodyopening, Grammar!section, Grammar!sectionname,
              Grammar!sectioncontent, Grammar!assignment, Grammar!assignname, Grammar!assignval,
              Grammar!assignliststart, Grammar!assignlist
<1>3. \A a \in 14 .. 24 : \A i \in 1 .. 11 : i = a - 13 => SidesOf(a) = P[i]
  BY <1>1, SMT DEF SidesOf, Grammar!accept
<1>4. /\ 14 \in 14 .. 24 /\ 15 \in 14 .. 24 /\ 16 \in 14 .. 24 /\ 17 \in 14 .. 24 /\ 18 \in 14 .. 24
      /\ 19 \in 14 .. 24 /\ 20 \in 14 .. 24 /\ 21 \in 14 .. 24 /\ 22 \in 14 .. 24 /\ 23 \in 14 .. 24 /\ 24 \in 14 .. 24
      /\ 1 = 14 - 13 /\ 2 = 15 - 13 /\ 3 = 16 - 13 /\ 4 = 17 - 13 /\ 5 = 18 - 13 /\ 6 = 19 - 13
      /\ 7 = 20 - 13 /\ 8 = 21 - 13 /\ 9 = 22 - 13 /\ 10 = 23 - 13 /\ 11 = 24 - 13
      /\ 1 \in 1 .. 11 /\ 2 \in 1 .. 11 /\ 3 \in 1 .. 11 /\ 4 \in 1 .. 11 /\ 5 \in 1 .. 11 /\ 6 \in 1 .. 11
      /\ 7 \in 1 .. 11 /\ 8 \in 1 .. 11 /\ 9 \in 1 .. 11 /\ 10 \in 1 .. 11 /\ 11 \in 1 .. 11
  BY SMT
<1>5. /\ SidesOf(14) = P[1] /\ SidesOf(15) = P[2] /\ SidesOf(16) = P[3] /\ SidesOf(17) = P[4]
      /\ SidesOf(18) = P[5] /\ SidesOf(19) = P[6] /\ SidesOf(20) = P[7] /\ SidesOf(21) = P[8]
      /\ SidesOf(22) = P[9] /\ SidesOf(23) = P[10] /\ SidesOf(24) = P[11]
  BY <1>3, <1>4
<1> QED BY <1>2, <1>5

\* Right-hand sides, and what they rewrite a form to, are forms.
LEMMA ProductionsTyped ==
  ASSUME NEW a \in 14 .. 24
  PROVE  SidesOf(a) \subseteq Forms
<1>1. PICK T : T = Seq(0 .. 24)
  OBVIOUS
<1>2. /\ {<<15, 0>>} \subseteq T /\ {<<>>, <<16, 19, 4>>} \subseteq T /\ {<<3>>} \subseteq T
      /\ {<<18, 3, 19, 4>>} \subseteq T /\ {<<10>>} \subseteq T
  BY <1>1, SMT
<1>3. /\ {<<>>, <<20, 19>>, <<17, 19>>} \subseteq T /\ {<<21, 8, 22, 9>>} \subseteq T
      /\ {<<5>>} \subseteq T /\ {<<22>>, <<22, 6, 24>>} \subseteq T
  BY <1>1, SMT
<1>4. {<<11>>, <<12>>, <<23, 24, 7>>} \subseteq T
  BY <1>1, SMT
<1>5. a \in {14, 15, 16, 17, 18, 19, 20, 21, 22, 23, 24}
  BY SMT
<1>6. /\ SidesOf(14) \subseteq T /\ SidesOf(15) \subseteq T /\ SidesOf(16) \subseteq T
      /\ SidesOf(17) \subseteq T /\ SidesOf(18) \subseteq T
  BY <1>2, SidesFacts, Zenon
<1>7. /\ SidesOf(19) \subseteq T /\ SidesOf(20) \subseteq T /\ SidesOf(21) \subseteq T
      /\ SidesOf(22) \subseteq T /\ SidesOf(23) \subseteq T /\ SidesOf(24) \subseteq T
  BY <1>2, <1>3, <1>4, SidesFacts, Zenon
<1>8. SidesOf(a) \subseteq T
  BY <1>5, <1>6, <1>7, Zenon
<1> QED BY <1>1, <1>8 DEF Forms, Grammar!assignlist

LEMMA RewrittenTyped ==
  ASSUME NEW f \in Forms, ~Done(f)
  PROVE  Rewritten(f) \subseteq Forms
<1>1. Head(f) \in 14 .. 24 /\ Tail(f) \in Forms
  <2>1. f # <<>> /\ ~(Head(f) < 14) /\ f \in Seq(0 .. 24)
    BY DEF Done, Forms, Grammar!assignlist, Grammar!accept
  <2>2. Head(f) \in 0 .. 24 /\ Tail(f) \in Seq(0 .. 24)
    BY <2>1, HeadTailProperties
  <2>3. Head(f) \in 14 .. 24
    BY <2>1, <2>2, SMT
  <2> QED BY <2>2, <2>3 DEF Forms, Grammar!assignlist
<1>2. \A x, y \in Forms : x \o y \in Forms
  BY ConcatProperties DEF Forms
<1> QED BY <1>1, <1>2, ProductionsTyped DEF Rewritten, Sides

\* The function that Expand is.
IsExpand(f) ==
  f = [form \in Forms |-> IF Done(form) THEN {form} ELSE UNION {f[rhs \o Tail(form)] : rhs \in Sides(form)}]

Rewrites(S) == S \subseteq Forms /\ \A x \in S : ~Done(x) => Rewritten(x) \subseteq S

\* There is one: what every set that holds a form, and what it is rewritten to, holds.
LEMMA SomeExpand == \E f : IsExpand(f)
<1> DEFINE Misses(t) == {x \in Forms : \E S : Rewrites(S) /\ x \in S /\ t \notin S}
<1>1. PICK f : f = [form \in Forms |-> {t \in Forms : Done(t) /\ form \notin Misses(t)}]
  OBVIOUS
<1>2. \A t \in Forms : t \notin Misses(t)
  OBVIOUS
<1>3. ASSUME NEW t \in Forms, NEW x \in Misses(t), ~Done(x) PROVE Rewritten(x) \subseteq Misses(t)
  <2>1. PICK S : Rewrites(S) /\ x \in S /\ t \notin S
    OBVIOUS
  <2>2. Rewritten(x) \subseteq S /\ S \subseteq Forms
    BY <1>3, <2>1 DEF Rewrites
  <2> QED BY <2>1, <2>2
<1>4. ASSUME NEW x \in Forms, Done(x) PROVE f[x] = {x}
  <2>1. ASSUME NEW t \in Forms, t # x PROVE x \in Misses(t)
    <3>1. Rewrites({x})
      BY <1>4 DEF Rewrites
    <3> QED BY <2>1, <3>1
  <2> HIDE DEF Misses
  <2> QED BY <1>1, <1>2, <1>4, <2>1
<1>5. ASSUME NEW x \in Forms, ~Done(x) PROVE f[x] = UNION {f[g] : g \in Rewritten(x)}
  <2>1. Rewritten(x) \subseteq Forms
    BY <1>5, RewrittenTyped
  <2>2. ASSUME NEW g \in Rewritten(x), NEW t \in f[g] PROVE t \in f[x]
    <3>1. g \in Forms /\ t \in Forms /\ Done(t) /\ g \notin Misses(t)
      BY <1>1, <2>1, <2>2
    <3>2. x \notin Misses(t)
      BY <1>3, <1>5, <2>2, <3>1
    <3> HIDE DEF Misses
    <3> QED BY <1>1, <3>1, <3>2
  <2>3. ASSUME NEW t \in f[x], \A g \in Rewritten(x) : t \notin f[g] PROVE FALSE
    <3>1. t \in Forms /\ Done(t) /\ x \notin Misses(t)
      BY <1>1, <2>3
    <3>2. Rewritten(x) \subseteq Misses(t)
      <4> HIDE DEF Misses
      <4> QED BY <1>1, <2>1, <2>3, <3>1
    <3>3. PICK S : S = Misses(t) \cup {x}
      OBVIOUS
    <3>4. Rewrites(S)
      <4>1. Misses(t) \subseteq Forms
        OBVIOUS
      <4> HIDE DEF Misses
      <4> QED BY <1>3, <3>1, <3>2, <3>3, <4>1 DEF Rewrites
    <3>5. x \in S /\ t \notin S
      <4> HIDE DEF Misses
      <4> QED BY <1>2, <1>5, <3>1, <3>3
    <3> QED BY <3>1, <3>4, <3>5
  <2> QED BY <2>2, <2>3
<1> HIDE DEF Misses
<1>6. ASSUME NEW x \in Forms, ~Done(x) PROVE f[x] = UNION {f[rhs \o Tail(x)] : rhs \in Sides(x)}
  <2>1. UNION {f[rhs \o Tail(x)] : rhs \in Sides(x)} = UNION {f[g] : g \in Rewritten(x)}
    BY DEF Rewritten
  <2> QED BY <1>5, <1>6, <2>1
<1>7. f = [form \in Forms |-> IF Done(form) THEN {form} ELSE UNION {f[rhs \o Tail(form)] : rhs \in Sides(form)}]
  BY <1>1, <1>4, <1>6
<1> QED BY <1>7 DEF IsExpand

LEMMA ExpandFacts ==
  ASSUME NEW x \in Forms
  PROVE  Grammar!Expand[x] = IF Done(x) THEN {x} ELSE UNION {Grammar!Expand[g] : g \in Rewritten(x)}
<1>1. Grammar!Expand = CHOOSE f : IsExpand(f)
  BY DEF Grammar!Expand, IsExpand, Forms, Done, Sides, SidesOf
<1>2. IsExpand(Grammar!Expand)
  BY <1>1, SomeExpand
<1>3. Grammar!Expand[x] = IF Done(x) THEN {x} ELSE UNION {Grammar!Expand[rhs \o Tail(x)] : rhs \in Sides(x)}
  BY <1>2 DEF IsExpand
<1>4. UNION {Grammar!Expand[rhs \o Tail(x)] : rhs \in Sides(x)} = UNION {Grammar!Expand[g] : g \in Rewritten(x)}
  BY DEF Rewritten
<1> QED BY <1>3, <1>4

\* What is left of one form when a token was matched.
Rest(form, token) == {Tail(g) : g \in {f \in Grammar!Expand[form] : Head(f) = token}}

\* What is left of a set of forms is what is left of each.
LEMMA AfterRest ==
  ASSUME NEW K, NEW t
  PROVE  Grammar!After(K, t) = UNION {Rest(f, t) : f \in K}
BY DEF Grammar!After, Rest

LEMMA RestOfToken ==
  ASSUME NEW a \in 0 .. 13, NEW r \in Forms, NEW t
  PROVE  Rest(Cons(a, r), t) = IF a = t THEN {r} ELSE {}
<1>1. a \in 0 .. 24 /\ a < 14
  BY SMT
<1>2. PICK c : c = Cons(a, r)
  OBVIOUS
<1>3. c \in Forms /\ Head(c) = a /\ Tail(c) = r
  BY <1>1, <1>2, ConsFacts
<1>4. Done(c)
  BY <1>1, <1>3 DEF Done, Grammar!accept
<1>5. Grammar!Expand[c] = {c}
  BY <1>3, <1>4, ExpandFacts
<1> QED BY <1>2, <1>3, <1>5 DEF Rest

LEMMA RestRewritten ==
  ASSUME NEW a \in 14 .. 24, NEW r \in Forms, NEW t
  PROVE  Rest(Cons(a, r), t) = UNION {Rest(rhs \o r, t) : rhs \in SidesOf(a)}
<1>1. a \in 0 .. 24 /\ ~(a < 14)
  BY SMT
<1>2. PICK c : c = Cons(a, r)
  OBVIOUS
<1>3. c \in Forms /\ c # <<>> /\ Head(c) = a /\ Tail(c) = r
  BY <1>1, <1>2, ConsFacts
<1>4. ~Done(c)
  BY <1>1, <1>3 DEF Done, Grammar!accept
<1>5. Grammar!Expand[c] = UNION {Grammar!Expand[g] : g \in Rewritten(c)}
  BY <1>3, <1>4, ExpandFacts
<1>6. Rewritten(c) = {rhs \o r : rhs \in SidesOf(a)}
  BY <1>3 DEF Rewritten, Sides
<1>7. Rest(c, t) = UNION {Rest(g, t) : g \in Rewritten(c)}
  BY <1>5 DEF Rest
<1>8. UNION {Rest(g, t) : g \in {rhs \o r : rhs \in SidesOf(a)}} = UNION {Rest(rhs \o r, t) : rhs \in SidesOf(a)}
  OBVIOUS
<1> QED BY <1>2, <1>6, <1>7, <1>8

\* What follows the name of an assignment, and of a section.
Assigned(r) == Cons(8, Cons(22, Cons(9, r)))
Opened(r)   == Cons(3, Cons(19, Cons(4, r)))
Listed(r)   == Cons(24, Cons(7, r))

LEMMA FormsOfRules ==
  ASSUME NEW r \in Forms
  PROVE  /\ Assigned(r) \in Forms /\ Opened(r) \in Forms /\ Listed(r) \in Forms
         /\ \A a \in 0 .. 24 : Cons(a, r) \in Forms
<1>1. \A a \in 0 .. 24, f \in Forms : Cons(a, f) \in Forms
  BY ConsFacts
<1>2. \A n \in {3, 4, 7, 8, 9, 19, 22, 24} : n \in 0 .. 24
  BY SMT
<1>3. \A n \in {3, 4, 7, 8, 9, 19, 22, 24} : \A f \in Forms : Cons(n, f) \in Forms
  BY <1>1, <1>2
<1> QED BY <1>1, <1>3 DEF Assigned, Opened, Listed

\* The right-hand sides, in front of what follows.
LEMMA RuleForms ==
  \A r \in Forms :
         /\ <<>> \o r = r
         /\ <<10>> \o r = Cons(10, r) /\ <<11>> \o r = Cons(11, r) /\ <<12>> \o r = Cons(12, r)
         /\ <<5>> \o r = Cons(5, r) /\ <<22>> \o r = Cons(22, r) /\ <<3>> \o r = Cons(3, r)
         /\ <<20, 19>> \o r = Cons(20, Cons(19, r)) /\ <<17, 19>> \o r = Cons(17, Cons(19, r))
         /\ <<15, 0>> \o r = Cons(15, Cons(0, r))
         /\ <<16, 19, 4>> \o r = Cons(16, Cons(19, Cons(4, r)))
         /\ <<18, 3, 19, 4>> \o r = Cons(18, Opened(r)) /\ <<21, 8, 22, 9>> \o r = Cons(21, Assigned(r))
         /\ <<23, 24, 7>> \o r = Cons(23, Listed(r)) /\ <<22, 6, 24>> \o r = Cons(22, Cons(6, Cons(24, r)))
<1> TAKE r \in Forms
<1>1. r \in Seq(0 .. 24)
  BY DEF Forms, Grammar!assignlist
<1>2. <<>> \o r = r
  BY <1>1, ConcatEmptySeq
<1>3. /\ <<10>> \o r = Cons(10, r) /\ <<11>> \o r = Cons(11, r) /\ <<12>> \o r = Cons(12, r)
      /\ <<5>> \o r = Cons(5, r) /\ <<22>> \o r = Cons(22, r) /\ <<3>> \o r = Cons(3, r)
  BY DEF Cons
<1>4. /\ <<20, 19>> \o r = Cons(20, Cons(19, r)) /\ <<17, 19>> \o r = Cons(17, Cons(19, r))
      /\ <<15, 0>> \o r = Cons(15, Cons(0, r))
  BY <1>1 DEF Cons
<1>5. <<16, 19, 4>> \o r = Cons(16, Cons(19, Cons(4, r)))
  BY <1>1 DEF Cons
<1>6. <<23, 24, 7>> \o r = Cons(23, Listed(r))
  BY <1>1 DEF Cons, Listed
<1>7. <<22, 6, 24>> \o r = Cons(22, Cons(6, Cons(24, r)))
  BY <1>1 DEF Cons
<1>8. <<18, 3, 19, 4>> \o r = Cons(18, Opened(r))
  BY <1>1 DEF Cons, Opened
<1>9. <<21, 8, 22, 9>> \o r = Cons(21, Assigned(r))
  BY <1>1 DEF Cons, Assigned
<1> QED BY <1>2, <1>3, <1>4, <1>5, <1>6, <1>7, <1>8, <1>9

\* One round of expanding a form that begins with a nonterminal.
LEMMA RestOfRules ==
  ASSUME NEW r \in Forms, NEW t
  PROVE  /\ Rest(Cons(14, r), t) = Rest(Cons(15, Cons(0, r)), t)
         /\ Rest(Cons(15, r), t) = Rest(r, t) \cup Rest(Cons(16, Cons(19, Cons(4, r))), t)
         /\ Rest(Cons(16, r), t) = Rest(Cons(3, r), t)
         /\ Rest(Cons(17, r), t) = Rest(Cons(18, Opened(r)), t)
         /\ Rest(Cons(18, r), t) = Rest(Cons(10, r), t)
         /\ Rest(Cons(19, r), t) = Rest(r, t) \cup Rest(Cons(20, Cons(19, r)), t) \cup Rest(Cons(17, Cons(19, r)), t)
         /\ Rest(Cons(20, r), t) = Rest(Cons(21, Assigned(r)), t)
         /\ Rest(Cons(21, r), t) = Rest(Cons(10, r), t)
         /\ Rest(Cons(22, r), t) = Rest(Cons(11, r), t) \cup Rest(Cons(12, r), t) \cup Rest(Cons(23, Listed(r)), t)
         /\ Rest(Cons(23, r), t) = Rest(Cons(5, r), t)
         /\ Rest(Cons(24, r), t) = Rest(Cons(22, r), t) \cup Rest(Cons(22, Cons(6, Cons(24, r))), t)
<1> DEFINE All(R) == UNION {Rest(rhs \o r, t) : rhs \in R}
<1>1. \A a \in 14 .. 24 : Rest(Cons(a, r), t) = All(SidesOf(a))
  BY RestRewritten
<1>2. \A x : All({x}) = Rest(x \o r, t)
  OBVIOUS
<1>3. \A x, y : All({x, y}) = Rest(x \o r, t) \cup Rest(y \o r, t)
  OBVIOUS
<1> HIDE DEF All
<1>4. /\ Rest(Cons(14, r), t) = All(SidesOf(14)) /\ Rest(Cons(15, r), t) = All(SidesOf(15))
      /\ Rest(Cons(16, r), t) = All(SidesOf(16)) /\ Rest(Cons(17, r), t) = All(SidesOf(17))
      /\ Rest(Cons(18, r), t) = All(SidesOf(18)) /\ Rest(Cons(19, r), t) = All(SidesOf(19))
      /\ Rest(Cons(20, r), t) = All(SidesOf(20)) /\ Rest(Cons(21, r), t) = All(SidesOf(21))
      /\ Rest(Cons(22, r), t) = All(SidesOf(22)) /\ Rest(Cons(23, r), t) = All(SidesOf(23))
      /\ Rest(Cons(24, r), t) = All(SidesOf(24))
  <2>1. /\ 14 \in 14 .. 24 /\ 15 \in 14 .. 24 /\ 16 \in 14 .. 24 /\ 17 \in 14 .. 24 /\ 18 \in 14 .. 24
        /\ 19 \in 14 .. 24 /\ 20 \in 14 .. 24 /\ 21 \in 14 .. 24 /\ 22 \in 14 .. 24 /\ 23 \in 14 .. 24 /\ 24 \in 14 .. 24
    BY SMT
  <2> QED BY <1>1, <2>1, Zenon
<1>5. /\ All(SidesOf(14)) = Rest(<<15, 0>> \o r, t) /\ All(SidesOf(16)) = Rest(<<3>> \o r, t)
      /\ All(SidesOf(17)) = Rest(<<18, 3, 19, 4>> \o r, t) /\ All(SidesOf(18)) = Rest(<<10>> \o r, t)
      /\ All(SidesOf(20)) = Rest(<<21, 8, 22, 9>> \o r, t) /\ All(SidesOf(21)) = Rest(<<10>> \o r, t)
      /\ All(SidesOf(23)) = Rest(<<5>> \o r, t)
  BY <1>2, SidesFacts, Zenon
<1>6. /\ All(SidesOf(15)) = Rest(<<>> \o r, t) \cup Rest(<<16, 19, 4>> \o r, t)
      /\ All(SidesOf(24)) = Rest(<<22>> \o r, t) \cup Rest(<<22, 6, 24>> \o r, t)
  BY <1>3, SidesFacts, Zenon
<1>7. All(SidesOf(19)) = Rest(<<>> \o r, t) \cup Rest(<<20, 19>> \o r, t) \cup Rest(<<17, 19>> \o r, t)
  <2>1. SidesOf(19) = {<<>>, <<20, 19>>, <<17, 19>>}
    BY SidesFacts
  <2>2. PICK x, y, z : x = <<>> /\ y = <<20, 19>> /\ z = <<17, 19>>
    OBVIOUS
  <2>3. All({x, y, z}) = Rest(x \o r, t) \cup Rest(y \o r, t) \cup Rest(z \o r, t)
    BY DEF All
  <2> QED BY <2>1, <2>2, <2>3
<1>8. All(SidesOf(22)) = Rest(<<11>> \o r, t) \cup Rest(<<12>> \o r, t) \cup Rest(<<23, 24, 7>> \o r, t)
  <2>1. SidesOf(22) = {<<11>>, <<12>>, <<23, 24, 7>>}
    BY SidesFacts
  <2>2. PICK x, y, z : x = <<11>> /\ y = <<12>> /\ z = <<23, 24, 7>>
    OBVIOUS
  <2>3. All({x, y, z}) = Rest(x \o r, t) \cup Rest(y \o r, t) \cup Rest(z \o r, t)
    BY DEF All
  <2> QED BY <2>1, <2>2, <2>3
<1> QED BY <1>4, <1>5, <1>6, <1>7, <1>8, RuleForms, Zenon

\* What is left of a form that a nonterminal is in front of.
LEMMA RestOfContent ==
  ASSUME NEW r \in Forms, NEW t
  PROVE  Rest(Cons(19, r), t) = Rest(r, t) \cup IF t = 10 THEN {Assigned(Cons(19, r)), Opened(Cons(19, r))} ELSE {}
<1>1. 19 \in 0 .. 24 /\ 10 \in 0 .. 13
  BY SMT
<1>2. PICK c : c = Cons(19, r)
  OBVIOUS
<1>3. c \in Forms /\ Assigned(c) \in Forms /\ Opened(c) \in Forms
  BY <1>1, <1>2, FormsOfRules
<1>4. Rest(c, t) = Rest(r, t) \cup Rest(Cons(20, c), t) \cup Rest(Cons(17, c), t)
  BY <1>2, RestOfRules, Zenon
<1>5. Rest(Cons(20, c), t) = Rest(Cons(10, Assigned(c)), t) /\ Rest(Cons(17, c), t) = Rest(Cons(10, Opened(c)), t)
  <2>1. \A f \in Forms : /\ Rest(Cons(17, f), t) = Rest(Cons(18, Opened(f)), t)
                         /\ Rest(Cons(18, f), t) = Rest(Cons(10, f), t)
                         /\ Rest(Cons(20, f), t) = Rest(Cons(21, Assigned(f)), t)
                         /\ Rest(Cons(21, f), t) = Rest(Cons(10, f), t)
    BY RestOfRules
  <2> QED BY <1>3, <2>1, Zenon
<1> QED BY <1>1, <1>2, <1>3, <1>4, <1>5, RestOfToken

LEMMA RestOfValue ==
  ASSUME NEW r \in Forms, NEW t
  PROVE  Rest(Cons(22, r), t) = CASE t \in {11, 12} -> {r} [] t = 5 -> {Listed(r)} [] OTHER -> {}
<1>1. 5 \in 0 .. 13 /\ 11 \in 0 .. 13 /\ 12 \in 0 .. 13 /\ 5 # 11 /\ 5 # 12 /\ 11 # 12
  BY SMT
<1>2. Listed(r) \in Forms
  BY FormsOfRules
<1>3. Rest(Cons(22, r), t) = Rest(Cons(11, r), t) \cup Rest(Cons(12, r), t) \cup Rest(Cons(5, Listed(r)), t)
  <2>1. Rest(Cons(22, r), t) = Rest(Cons(11, r), t) \cup Rest(Cons(12, r), t) \cup Rest(Cons(23, Listed(r)), t)
    BY RestOfRules
  <2>2. Rest(Cons(23, Listed(r)), t) = Rest(Cons(5, Listed(r)), t)
    BY <1>2, RestOfRules
  <2> QED BY <2>1, <2>2
<1> QED BY <1>1, <1>2, <1>3, RestOfToken

LEMMA RestOfFile ==
  ASSUME NEW t
  PROVE  \A f \in Grammar!Start :
           Rest(f, t) = CASE t = 0 -> {<<>>} [] t = 3 -> {Cons(19, Cons(4, Cons(0, <<>>)))} [] OTHER -> {}
<1>1. <<>> \in Forms /\ Grammar!Start = {Cons(14, <<>>)} /\ 0 \in 0 .. 13 /\ 3 \in 0 .. 13 /\ 0 # 3
      /\ 0 \in 0 .. 24 /\ 4 \in 0 .. 24 /\ 19 \in 0 .. 24
  BY DEF Forms, Cons, Grammar!Start, Grammar!accept
<1>2. PICK e, c : e = Cons(0, <<>>) /\ c = Cons(19, Cons(4, e))
  OBVIOUS
<1>3. e \in Forms /\ c \in Forms
  BY <1>1, <1>2, FormsOfRules
<1>4. Rest(Cons(14, <<>>), t) = Rest(e, t) \cup Rest(Cons(3, c), t)
  <2>1. \A f \in Forms : /\ Rest(Cons(14, f), t) = Rest(Cons(15, Cons(0, f)), t)
                         /\ Rest(Cons(15, f), t) = Rest(f, t) \cup Rest(Cons(16, Cons(19, Cons(4, f))), t)
                         /\ Rest(Cons(16, f), t) = Rest(Cons(3, f), t)
    BY RestOfRules
  <2> QED BY <1>1, <1>2, <1>3, <2>1, Zenon
<1> QED BY <1>1, <1>2, <1>3, <1>4, RestOfToken

-----------------------------------------------------------------------------
(* Sets of forms that begin alike.                                         *)

Before(a, X) == {Cons(a, x) : x \in X}
Behind(a, X) == {x \in Forms : Cons(a, x) \in X}

\* What is left of a section, of a list, of a list after one of its values.
Content(X) == Before(19, Before(4, X))
ListOf(X)  == Before(24, Before(7, X))
Values(X)  == Before(7, X) \cup Before(6, ListOf(X))

\* What is left of a section after the name of an assignment, and of a section, in it.
Assigns(X) == Before(8, Before(22, Before(9, Content(X))))
Nests(X)   == Before(3, Content(Content(X)))

LEMMA BeforeTyped ==
  ASSUME NEW X \in SUBSET Forms
  PROVE  /\ \A a \in 0 .. 24 : Before(a, X) \in SUBSET Forms
         /\ Content(X) \in SUBSET Forms /\ ListOf(X) \in SUBSET Forms /\ Values(X) \in SUBSET Forms
         /\ Before(9, Content(X)) \in SUBSET Forms /\ Before(22, Before(9, Content(X))) \in SUBSET Forms
<1>1. \A a \in 0 .. 24, Y \in SUBSET Forms : Before(a, Y) \in SUBSET Forms
  BY ConsFacts DEF Before
<1>2. \A a \in {4, 6, 7, 9, 19, 22, 24} : a \in 0 .. 24
  BY SMT
<1>3. \A a \in {4, 6, 7, 9, 19, 22, 24} : \A Y \in SUBSET Forms : Before(a, Y) \in SUBSET Forms
  BY <1>1, <1>2, Zenon
<1>4. Before(4, X) \in SUBSET Forms /\ Before(7, X) \in SUBSET Forms
  BY <1>3
<1>5. Content(X) \in SUBSET Forms /\ ListOf(X) \in SUBSET Forms
  BY <1>3, <1>4 DEF Content, ListOf
<1>6. Before(6, ListOf(X)) \in SUBSET Forms /\ Before(9, Content(X)) \in SUBSET Forms
  BY <1>3, <1>5
<1>7. Before(22, Before(9, Content(X))) \in SUBSET Forms
  BY <1>3, <1>6
<1> QED BY <1>1, <1>4, <1>5, <1>6, <1>7 DEF Values

LEMMA BehindFacts ==
  ASSUME NEW X \in SUBSET Forms
  PROVE  Behind(9, Before(9, X)) = X /\ Behind(7, Values(X)) = X
<1>1. \A a \in {6, 7, 9} : a \in 0 .. 24
  BY SMT
<1>2. \A a \in {6, 7, 9} : \A y \in Forms : Head(Cons(a, y)) = a /\ Tail(Cons(a, y)) = y
  BY <1>1, ConsFacts
<1>3. ASSUME NEW a \in {6, 7, 9}, NEW b \in {6, 7, 9}, NEW Y \in SUBSET Forms
      PROVE  Behind(a, Before(b, Y)) = IF a = b THEN Y ELSE {}
  <2>1. ASSUME NEW x \in Forms, NEW y \in Forms, Cons(a, x) = Cons(b, y) PROVE a = b /\ x = y
    <3>1. Head(Cons(a, x)) = a /\ Tail(Cons(a, x)) = x
      BY <1>2
    <3>2. Head(Cons(b, y)) = b /\ Tail(Cons(b, y)) = y
      BY <1>2
    <3> QED BY <2>1, <3>1, <3>2
  <2>2. ASSUME NEW x \in Forms, Cons(a, x) \in Before(b, Y) PROVE a = b /\ x \in Y
    <3>1. PICK y \in Y : Cons(a, x) = Cons(b, y)
      BY <2>2 DEF Before
    <3> QED BY <2>1, <3>1
  <2>3. ASSUME a = b, NEW x \in Y PROVE x \in Forms /\ Cons(a, x) \in Before(b, Y)
    BY <2>3 DEF Before
  <2> QED BY <2>2, <2>3 DEF Behind
<1>4. \A a, Y, Z : Behind(a, Y \cup Z) = Behind(a, Y) \cup Behind(a, Z)
  BY DEF Behind
<1>5. ListOf(X) \in SUBSET Forms
  BY BeforeTyped
<1>6. Behind(7, Before(7, X)) = X /\ Behind(7, Before(6, ListOf(X))) = {} /\ Behind(9, Before(9, X)) = X
  <2>1. 6 # 7 /\ 6 \in {6, 7, 9} /\ 7 \in {6, 7, 9} /\ 9 \in {6, 7, 9}
    OBVIOUS
  <2> QED BY <1>3, <1>5, <2>1, Zenon
<1>7. Behind(7, Values(X)) = Behind(7, Before(7, X)) \cup Behind(7, Before(6, ListOf(X)))
  BY <1>4 DEF Values
<1> QED BY <1>6, <1>7

LEMMA AfterBefore ==
  ASSUME NEW X \in SUBSET Forms, NEW a, NEW t
  PROVE  Grammar!After(Before(a, X), t) = UNION {Rest(Cons(a, x), t) : x \in X}
<1>1. UNION {Rest(f, t) : f \in Before(a, X)} = UNION {Rest(Cons(a, x), t) : x \in X}
  BY DEF Before
<1> QED BY <1>1, AfterRest

LEMMA AfterUnion ==
  ASSUME NEW X, NEW Y, NEW t
  PROVE  Grammar!After(X \cup Y, t) = Grammar!After(X, t) \cup Grammar!After(Y, t)
<1>1. UNION {Rest(f, t) : f \in X \cup Y} = (UNION {Rest(f, t) : f \in X}) \cup (UNION {Rest(f, t) : f \in Y})
  OBVIOUS
<1> QED BY <1>1, AfterRest

\* A token is matched, or none of the forms goes on with it.
LEMMA AfterToken ==
  ASSUME NEW X \in SUBSET Forms, NEW a \in 0 .. 13, NEW t
  PROVE  Grammar!After(Before(a, X), t) = IF a = t THEN X ELSE {}
<1>1. \A x \in X : Rest(Cons(a, x), t) = IF a = t THEN {x} ELSE {}
  BY RestOfToken
<1>2. UNION {Rest(Cons(a, x), t) : x \in X} = IF a = t THEN X ELSE {}
  BY <1>1
<1> QED BY <1>2, AfterBefore

LEMMA AfterContent ==
  ASSUME NEW X \in SUBSET Forms, NEW t
  PROVE  /\ t # 10 => Grammar!After(Content(X), t) = Grammar!After(Before(4, X), t)
         /\ t = 10 => Grammar!After(Content(X), t) = Assigns(X) \cup Nests(X)
<1>1. 4 \in 0 .. 24 /\ 4 \in 0 .. 13 /\ 4 # 10
  BY SMT
<1>2. PICK Y : Y = Before(4, X)
  OBVIOUS
<1>3. Y \in SUBSET Forms
  BY <1>1, <1>2, BeforeTyped
<1>4. Grammar!After(Content(X), t) = UNION {Rest(Cons(19, y), t) : y \in Y}
  BY <1>2, <1>3, AfterBefore DEF Content
<1>5. Grammar!After(Y, t) = UNION {Rest(y, t) : y \in Y}
  BY AfterRest
<1>6. \A y \in Y : Rest(Cons(19, y), t) =
        Rest(y, t) \cup IF t = 10 THEN {Assigned(Cons(19, y)), Opened(Cons(19, y))} ELSE {}
  BY <1>3, RestOfContent
<1>7. CASE t # 10
  BY <1>2, <1>4, <1>5, <1>6, <1>7
<1>8. CASE t = 10
  <2>1. Grammar!After(Y, t) = {}
    BY <1>1, <1>2, <1>8, AfterToken
  <2>2. UNION {Rest(Cons(19, y), t) : y \in Y} =
          {Assigned(Cons(19, y)) : y \in Y} \cup {Opened(Cons(19, y)) : y \in Y}
    BY <1>5, <1>6, <1>8, <2>1
  <2>3. {Assigned(Cons(19, y)) : y \in Y} = Assigns(X)
    BY <1>2 DEF Assigned, Assigns, Before, Content
  <2>4. {Opened(Cons(19, y)) : y \in Y} = Nests(X)
    BY <1>2 DEF Opened, Nests, Before, Content
  <2> QED BY <1>4, <1>8, <2>2, <2>3, <2>4
<1> QED BY <1>7, <1>8

LEMMA AfterValue ==
  ASSUME NEW X \in SUBSET Forms, NEW t
  PROVE  Grammar!After(Before(22, X), t) = CASE t \in {11, 12} -> X [] t = 5 -> ListOf(X) [] OTHER -> {}
<1>1. \A x \in X : Rest(Cons(22, x), t) = CASE t \in {11, 12} -> {x} [] t = 5 -> {Listed(x)} [] OTHER -> {}
  BY RestOfValue
<1>2. {Listed(x) : x \in X} = ListOf(X)
  BY DEF Listed, ListOf, Before
<1>3. 5 \notin {11, 12}
  OBVIOUS
<1>4. Grammar!After(Before(22, X), t) = UNION {Rest(Cons(22, x), t) : x \in X}
  BY AfterBefore
<1>5. CASE t \in {11, 12}
  <2>1. \A x \in X : Rest(Cons(22, x), t) = {x}
    BY <1>1, <1>5
  <2>2. UNION {Rest(Cons(22, x), t) : x \in X} = X
    BY <2>1
  <2> QED BY <1>3, <1>4, <1>5, <2>2
<1>6. CASE t = 5
  <2>1. \A x \in X : Rest(Cons(22, x), t) = {Listed(x)}
    BY <1>1, <1>3, <1>6
  <2>2. UNION {Rest(Cons(22, x), t) : x \in X} = {Listed(x) : x \in X}
    BY <2>1
  <2> QED BY <1>2, <1>3, <1>4, <1>6, <2>2
<1>7. CASE t \notin {11, 12} /\ t # 5
  <2>1. \A x \in X : Rest(Cons(22, x), t) = {}
    BY <1>1, <1>7
  <2> QED BY <1>4, <1>7, <2>1
<1> QED BY <1>5, <1>6, <1>7

\* A list goes on as a value does.
LEMMA AfterList ==
  ASSUME NEW X \in SUBSET Forms, NEW t
  PROVE  Grammar!After(ListOf(X), t) = Grammar!After(Before(22, Values(X)), t)
<1>1. /\ 7 \in 0 .. 24 /\ 6 \in 0 .. 24 /\ 24 \in 0 .. 24
  BY SMT
<1>2. PICK Y : Y = Before(7, X)
  OBVIOUS
<1>3. Y \in SUBSET Forms /\ Values(X) \in SUBSET Forms
  BY <1>1, <1>2, BeforeTyped
<1>4. Grammar!After(ListOf(X), t) = UNION {Rest(Cons(24, y), t) : y \in Y}
  BY <1>2, <1>3, AfterBefore DEF ListOf
<1>5. \A y \in Y : Rest(Cons(24, y), t) = Rest(Cons(22, y), t) \cup Rest(Cons(22, Cons(6, Cons(24, y))), t)
  BY <1>3, RestOfRules
<1>6. Values(X) = Y \cup {Cons(6, Cons(24, y)) : y \in Y}
  <2>1. Before(6, ListOf(X)) = {Cons(6, Cons(24, y)) : y \in Y}
    BY <1>2 DEF Before, ListOf
  <2> QED BY <1>2, <2>1 DEF Values
<1>7. Grammar!After(Before(22, Values(X)), t) = UNION {Rest(Cons(22, v), t) : v \in Values(X)}
  BY <1>3, AfterBefore
<1>8. UNION {Rest(Cons(22, v), t) : v \in Values(X)} =
        UNION {Rest(Cons(22, y), t) \cup Rest(Cons(22, Cons(6, Cons(24, y))), t) : y \in Y}
  BY <1>6
<1> QED BY <1>4, <1>5, <1>7, <1>8

LEMMA AfterStart ==
  ASSUME NEW t
  PROVE  /\ t = 3 => Grammar!After(Grammar!Start, t) = Content(Before(0, {<<>>}))
         /\ t # 3 => Grammar!After(Grammar!Start, t) = Grammar!After(Before(0, {<<>>}), t)
<1>1. PICK s : s = Grammar!accept
  OBVIOUS
<1>2. Grammar!Start = {<<s>>} /\ Grammar!After(Grammar!Start, t) = Rest(<<s>>, t)
  BY <1>1, AfterRest DEF Grammar!Start
<1>3. Rest(<<s>>, t) = CASE t = 0 -> {<<>>} [] t = 3 -> {Cons(19, Cons(4, Cons(0, <<>>)))} [] OTHER -> {}
  BY <1>2, RestOfFile
<1>4. Content(Before(0, {<<>>})) = {Cons(19, Cons(4, Cons(0, <<>>)))}
  BY DEF Content, Before
<1>5. Grammar!After(Before(0, {<<>>}), t) = IF 0 = t THEN {<<>>} ELSE {}
  <2>1. {<<>>} \in SUBSET Forms /\ 0 \in 0 .. 13
    BY DEF Forms
  <2> QED BY <2>1, AfterToken
<1>6. 0 # 3
  OBVIOUS
<1> QED BY <1>2, <1>3, <1>4, <1>5, <1>6

-----------------------------------------------------------------------------
(* What the tables decide.                                                 *)

\* The entries of the table are where it says they are.
LEMMA EntryFound ==
  ASSUME NEW b \in Int, NEW k \in Int, NEW e \in Int, IsEntry(b, k, e)
  PROVE  e \in Entry(b, k)
<1>1. DOMAIN yytable = 1 .. 20
  BY SMT DEF yytable
<1>2. ASSUME NEW i \in 1 .. 20, i = b + k + 1, yycheck[i] = k PROVE yytable[i] \in Entry(b, k)
  BY <1>1, <1>2 DEF Entry
<1>3. \E i \in 1 .. 20 : i = b + k + 1 /\ yycheck[i] = k /\ yytable[i] = e
  <2>1. b + k + 1 \in 1 .. 20
    BY SMT DEF IsEntry
  <2>2. PICK i \in 1 .. 20 : i = b + k + 1
    BY <2>1
  <2>3. yycheck[i] = k /\ yytable[i] = e
    BY <2>2, SMT DEF IsEntry, yycheck, yytable
  <2> QED BY <2>2, <2>3
<1> QED BY <1>2, <1>3

\* What a state does with a token: where it goes on with it, what it needs to know to reduce, what
\* is an error.
Blind == {1, 4, 11, 13, 14, 17, 18, 19, 22, 23, 27, 28}

Consumes(s, t, v) ==
  \/ s = 0 /\ t = 3 /\ v = 1
  \/ s = 2 /\ t = 0 /\ v = 4
  \/ s \in {3, 6, 9, 12} /\ t = 10 /\ v = 5
  \/ s = 7 /\ t = 3 /\ v = 12
  \/ s = 8 /\ t = 4 /\ v = 13
  \/ s = 16 /\ t = 4 /\ v = 22
  \/ s = 10 /\ t = 8 /\ v = 15
  \/ s \in {15, 21, 26} /\ ((t = 5 /\ v = 17) \/ (t = 11 /\ v = 18) \/ (t = 12 /\ v = 19))
  \/ s = 20 /\ t = 9 /\ v = 23
  \/ s = 24 /\ t = 6 /\ v = 26
  \/ s = 25 /\ t = 7 /\ v = 27

Decides(s, t, rule) ==
  /\ s = 0 => t # 3
  /\ s \in {3, 6, 9, 12} => t # 10
  /\ s = 5 => (rule = 11 <=> t = 8)
  /\ s = 24 => t # 6

Rejects(s, t) ==
  \/ s = 2 /\ t # 0
  \/ s = 7 /\ t # 3
  \/ s \in {8, 16} /\ t # 4
  \/ s = 10 /\ t # 8
  \/ s \in {15, 21, 26} /\ t \notin {5, 11, 12}
  \/ s = 20 /\ t # 9
  \/ s = 25 /\ t # 7

\* The states that look at the token.
LEMMA LooksWhen == ASSUME StackFine PROVE Looks <=> yystate \notin Blind
<1>1. PICK s \in 0 .. 28 : s = yystate
  BY TopOfStack
<1>2. PICK j : j = s + 1
  OBVIOUS
<1>3. yypact[j] # -11 <=> s \notin Blind
  BY <1>2, SMT DEF yypact, Blind
<1> QED BY <1>1, <1>2, <1>3 DEF Looks, YYPACT_NINF

\* The entry of a state and a token is that of yytable, if the state looks.
LEMMA FoundWhat ==
  ASSUME StackFine, NEW s \in 0 .. 28, s = yystate, NEW b \in Int, NEW j, j = s + 1, b = yypact[j]
  PROVE  /\ \A e \in Found : IsEntry(b, yychar, e)
         /\ s \notin Blind => \A e \in Int : IsEntry(b, yychar, e) => e \in Found
<1>1. yychar \in Int
  BY DEF StackFine
<1>2. Looks <=> s \notin Blind
  BY LooksWhen
<1>3. Found = IF Looks THEN Entry(b, yychar) ELSE {}
  BY DEF Found
<1> QED BY <1>1, <1>2, <1>3, Entries, EntryFound

\* The same of the tables: what is shifted, reduced and rejected, entry by entry.
LEMMA ShiftConsumes ==
  ASSUME StackFine, NEW v \in Shifts
  PROVE  Consumes(yystate, yychar, v)
<1>1. PICK s \in 0 .. 28 : s = yystate
  BY TopOfStack
<1>2. PICK j, b : j = s + 1 /\ b = yypact[j]
  OBVIOUS
<1>3. b \in Int
  BY <1>2, SMT DEF yypact
<1>4. v \in Found /\ v > 0
  BY DEF Shifts
<1>5. IsEntry(b, yychar, v)
  BY <1>1, <1>2, <1>3, <1>4, FoundWhat
<1>6. Consumes(s, yychar, v)
  BY <1>2, <1>4, <1>5, SMT DEF IsEntry, yypact, Consumes
<1> QED BY <1>1, <1>6

LEMMA ReduceDecides ==
  ASSUME StackFine, yystate # 4, NEW rule \in Reduces
  PROVE  Decides(yystate, yychar, rule)
<1>1. PICK s \in 0 .. 28 : s = yystate
  BY TopOfStack
<1>2. PICK j, b, t : j = s + 1 /\ b = yypact[j] /\ t = yychar
  OBVIOUS
<1>3. b \in Int
  BY <1>2, SMT DEF yypact
<1>4. CASE Found = {}
  <2>1. rule = yydefact[j]
    BY <1>1, <1>2, <1>4 DEF Reduces
  <2>2. s \notin Blind => \A e \in Int : ~IsEntry(b, t, e)
    BY <1>1, <1>2, <1>3, <1>4, FoundWhat
  <2>3. s \notin Blind => ~IsEntry(b, t, 1) /\ ~IsEntry(b, t, 5) /\ ~IsEntry(b, t, -11) /\ ~IsEntry(b, t, 26)
    <3>1. 1 \in Int /\ 5 \in Int /\ -11 \in Int /\ 26 \in Int
      BY SMT
    <3> QED BY <2>2, <3>1
  <2>4. Decides(s, t, rule)
    BY <1>2, <2>1, <2>3, SMT DEF Blind, IsEntry, yypact, yydefact, Decides
  <2> QED BY <1>1, <1>2, <2>4
<1>5. CASE Found # {}
  <2>1. PICK e \in Found : e # YYTABLE_NINF /\ e < 0 /\ rule = - e
    BY <1>5 DEF Reduces
  <2>2. IsEntry(b, t, e)
    BY <1>1, <1>2, <1>3, <2>1, FoundWhat
  <2>3. Decides(s, t, rule)
    BY <1>2, <2>1, <2>2, SMT DEF IsEntry, yypact, Decides
  <2> QED BY <1>1, <1>2, <2>3
<1> QED BY <1>4, <1>5

LEMMA ErrorRejects ==
  ASSUME StackFine, yystate # 4, Shifts = {}, Reduces = {}
  PROVE  Rejects(yystate, yychar)
<1>1. PICK s \in 0 .. 28 : s = yystate
  BY TopOfStack
<1>2. PICK j, b, t : j = s + 1 /\ b = yypact[j] /\ t = yychar
  OBVIOUS
<1>3. b \in Int
  BY <1>2, SMT DEF yypact
<1>4. Found = {}
  <2> SUFFICES ASSUME NEW e \in Found PROVE FALSE
    OBVIOUS
  <2>1. IsEntry(b, t, e)
    BY <1>1, <1>2, <1>3, FoundWhat
  <2>2. e > 0 \/ (e < 0 /\ e # YYTABLE_NINF)
    BY <1>2, <2>1, SMT DEF IsEntry, yypact, YYTABLE_NINF
  <2>3. CASE e > 0
    BY <2>3 DEF Shifts
  <2>4. CASE e < 0 /\ e # YYTABLE_NINF
    BY <2>4 DEF Reduces
  <2> QED BY <2>2, <2>3, <2>4
<1>5. yydefact[j] = 0
  BY <1>1, <1>2, <1>4 DEF Reduces
<1>6. s \in {2, 7, 8, 10, 15, 16, 20, 21, 25, 26}
  BY <1>1, <1>2, <1>5, SMT DEF yydefact
<1>7. \A e \in Int : ~IsEntry(b, t, e)
  <2>1. s \notin Blind
    BY <1>6 DEF Blind
  <2> QED BY <1>1, <1>2, <1>3, <1>4, <2>1, FoundWhat
<1>8. \A e \in {4, 12, 13, 15, 17, 18, 19, 22, 23, 27} : ~IsEntry(b, t, e)
  BY <1>7, SMT
<1>9. Rejects(s, t)
  BY <1>2, <1>6, <1>8, SMT DEF IsEntry, yypact, Rejects
<1> QED BY <1>1, <1>2, <1>9

-----------------------------------------------------------------------------
(* What is left of the file in each state of the stack, given what is left *)
(* of the file once the part that began there is over: its context.        *)

End == Before(0, {<<>>})

Context(s, t, X) ==
  CASE t \in {1, 3}                    -> End
    [] t = 12 /\ s = 7                 -> Content(X)
    [] t = 15                          -> Before(9, Content(X))
    [] t \in {17, 18, 19, 20, 21, 24}  -> IF s = 15 THEN X ELSE Values(X)
    [] t = 23                          -> Behind(9, X)
    [] t = 26                          -> Behind(7, X)
    [] OTHER                           -> X

Remains(s, X) ==
  CASE s = 0                  -> Grammar!Start
    [] s = 2                  -> End
    [] s \in {1, 3, 6, 9, 12} -> Content(X)
    [] s \in {8, 11, 14, 16}  -> Before(4, X)
    [] s = 5                  -> Assigns(X) \cup Nests(X)
    [] s = 7                  -> Nests(X)
    [] s = 10                 -> Assigns(X)
    [] s = 15                 -> Before(22, X)
    [] s \in {17, 21, 26}     -> ListOf(X)
    [] s \in {25, 28}         -> Before(7, X)
    [] OTHER                  -> X

\* The two definitions, case by case.
LEMMA ContextIs ==
  ASSUME NEW s, NEW X
  PROVE  /\ \A t \in {1, 3} : Context(s, t, X) = End
         /\ s = 7 => Context(s, 12, X) = Content(X)
         /\ s # 7 => Context(s, 12, X) = X
         /\ Context(s, 15, X) = Before(9, Content(X))
         /\ \A t \in {17, 18, 19, 20, 21, 24} : Context(s, t, X) = IF s = 15 THEN X ELSE Values(X)
         /\ Context(s, 23, X) = Behind(9, X)
         /\ Context(s, 26, X) = Behind(7, X)
         /\ \A t \in {2, 5, 6, 7, 8, 9, 10, 11, 13, 14, 16, 22, 25, 27, 28} : Context(s, t, X) = X
<1>1. \A t \in {1, 3} : Context(s, t, X) = End
  BY SMT DEF Context
<1>2. (s = 7 => Context(s, 12, X) = Content(X)) /\ (s # 7 => Context(s, 12, X) = X)
  BY SMT DEF Context
<1>3. Context(s, 15, X) = Before(9, Content(X))
  BY SMT DEF Context
<1>4. \A t \in {17, 18, 19, 20, 21, 24} : Context(s, t, X) = IF s = 15 THEN X ELSE Values(X)
  BY SMT DEF Context
<1>5. Context(s, 23, X) = Behind(9, X) /\ Context(s, 26, X) = Behind(7, X)
  BY SMT DEF Context
<1>6. \A t \in {2, 5, 6, 7, 8, 9, 10, 11, 13, 14, 16, 22, 25, 27, 28} : Context(s, t, X) = X
  BY SMT DEF Context
<1> QED BY <1>1, <1>2, <1>3, <1>4, <1>5, <1>6

LEMMA RemainsIs ==
  ASSUME NEW X
  PROVE  /\ Remains(0, X) = Grammar!Start
         /\ Remains(2, X) = End
         /\ \A s \in {1, 3, 6, 9, 12} : Remains(s, X) = Content(X)
         /\ \A s \in {8, 11, 14, 16} : Remains(s, X) = Before(4, X)
         /\ Remains(5, X) = Assigns(X) \cup Nests(X)
         /\ Remains(7, X) = Nests(X)
         /\ Remains(10, X) = Assigns(X)
         /\ Remains(15, X) = Before(22, X)
         /\ \A s \in {17, 21, 26} : Remains(s, X) = ListOf(X)
         /\ \A s \in {25, 28} : Remains(s, X) = Before(7, X)
         /\ \A s \in {13, 18, 19, 20, 22, 23, 24, 27} : Remains(s, X) = X
<1>1. /\ Remains(0, X) = Grammar!Start /\ Remains(2, X) = End /\ Remains(5, X) = Assigns(X) \cup Nests(X)
      /\ Remains(7, X) = Nests(X) /\ Remains(10, X) = Assigns(X) /\ Remains(15, X) = Before(22, X)
  BY SMT DEF Remains
<1>2. \A s \in {1, 3, 6, 9, 12} : Remains(s, X) = Content(X)
  BY SMT DEF Remains
<1>3. \A s \in {8, 11, 14, 16} : Remains(s, X) = Before(4, X)
  BY SMT DEF Remains
<1>4. \A s \in {17, 21, 26} : Remains(s, X) = ListOf(X)
  BY SMT DEF Remains
<1>5. \A s \in {25, 28} : Remains(s, X) = Before(7, X)
  BY SMT DEF Remains
<1>6. \A s \in {13, 18, 19, 20, 22, 23, 24, 27} : Remains(s, X) = X
  BY SMT DEF Remains
<1> QED BY <1>1, <1>2, <1>3, <1>4, <1>5, <1>6

LEMMA ContextTyped ==
  ASSUME NEW s, NEW t \in 0 .. 28, t \notin {0, 4}, NEW X \in SUBSET Forms
  PROVE  Context(s, t, X) \in SUBSET Forms
<1>1. End \in SUBSET Forms
  <2>1. {<<>>} \in SUBSET Forms /\ 0 \in 0 .. 24
    BY DEF Forms
  <2> QED BY <2>1, BeforeTyped DEF End
<1>2. Content(X) \in SUBSET Forms /\ Before(9, Content(X)) \in SUBSET Forms /\ Values(X) \in SUBSET Forms
  BY BeforeTyped
<1>3. Behind(9, X) \in SUBSET Forms /\ Behind(7, X) \in SUBSET Forms
  BY DEF Behind
<1>4. \/ t \in {1, 3} \/ t = 12 \/ t = 15 \/ t \in {17, 18, 19, 20, 21, 24} \/ t = 23 \/ t = 26
      \/ t \in {2, 5, 6, 7, 8, 9, 10, 11, 13, 14, 16, 22, 25, 27, 28}
  BY SMT
<1> QED BY <1>1, <1>2, <1>3, <1>4, ContextIs

\* What the contexts of two states look like because of the states below them.
Shaped(s, X) ==
  /\ s = 20 => \E Z \in SUBSET Forms : X = Before(9, Z)
  /\ s = 24 => \E Y \in SUBSET Forms : X = Values(Y)

LEMMA PartsTyped ==
  ASSUME NEW X \in SUBSET Forms
  PROVE  /\ Before(4, X) \in SUBSET Forms /\ Before(7, X) \in SUBSET Forms
         /\ Content(X) \in SUBSET Forms /\ Content(Content(X)) \in SUBSET Forms
         /\ Before(22, Before(9, Content(X))) \in SUBSET Forms
         /\ ListOf(X) \in SUBSET Forms /\ Values(X) \in SUBSET Forms
<1>1. 4 \in 0 .. 24 /\ 7 \in 0 .. 24
  BY SMT
<1>2. Content(X) \in SUBSET Forms
  BY BeforeTyped
<1> QED BY <1>1, <1>2, BeforeTyped

\* What is matched in a form with a section or a list ahead.
LEMMA AfterParts ==
  ASSUME NEW X \in SUBSET Forms, NEW t
  PROVE  /\ Grammar!After(Nests(X), t) = IF 3 = t THEN Content(Content(X)) ELSE {}
         /\ Grammar!After(Assigns(X), t) = IF 8 = t THEN Before(22, Before(9, Content(X))) ELSE {}
         /\ Grammar!After(Before(4, X), t) = IF 4 = t THEN X ELSE {}
         /\ Grammar!After(Before(7, X), t) = IF 7 = t THEN X ELSE {}
         /\ Grammar!After(Before(9, X), t) = IF 9 = t THEN X ELSE {}
         /\ Grammar!After(Values(X), t) =
              (IF 7 = t THEN X ELSE {}) \cup (IF 6 = t THEN ListOf(X) ELSE {})
<1>1. 3 \in 0 .. 13 /\ 4 \in 0 .. 13 /\ 6 \in 0 .. 13 /\ 7 \in 0 .. 13 /\ 8 \in 0 .. 13 /\ 9 \in 0 .. 13
  BY SMT
<1>2. /\ Content(Content(X)) \in SUBSET Forms /\ Before(22, Before(9, Content(X))) \in SUBSET Forms
      /\ ListOf(X) \in SUBSET Forms
  BY PartsTyped
<1>3. Grammar!After(Values(X), t) = Grammar!After(Before(7, X), t) \cup Grammar!After(Before(6, ListOf(X)), t)
  BY AfterUnion DEF Values
<1>4. Grammar!After(Before(6, ListOf(X)), t) = IF 6 = t THEN ListOf(X) ELSE {}
  BY <1>1, <1>2, AfterToken
<1>5. Grammar!After(Before(7, X), t) = IF 7 = t THEN X ELSE {}
  BY <1>1, AfterToken
<1>6. Grammar!After(Before(4, X), t) = IF 4 = t THEN X ELSE {}
  BY <1>1, AfterToken
<1>7. Grammar!After(Before(9, X), t) = IF 9 = t THEN X ELSE {}
  BY <1>1, AfterToken
<1>8. Grammar!After(Nests(X), t) = IF 3 = t THEN Content(Content(X)) ELSE {}
  BY <1>1, <1>2, AfterToken DEF Nests
<1>9. Grammar!After(Assigns(X), t) = IF 8 = t THEN Before(22, Before(9, Content(X))) ELSE {}
  BY <1>1, <1>2, AfterToken DEF Assigns
<1> QED BY <1>3, <1>4, <1>5, <1>6, <1>7, <1>8, <1>9

LEMMA AfterEnd ==
  ASSUME NEW t
  PROVE  Grammar!After(End, t) = IF 0 = t THEN {<<>>} ELSE {}
<1>1. {<<>>} \in SUBSET Forms
  BY DEF Forms
<1>2. 0 \in 0 .. 13
  BY SMT
<1> QED BY <1>1, <1>2, AfterToken DEF End

\* A token that is shifted leaves what remains in the state it leads to.
LEMMA ShiftMatches ==
  ASSUME NEW s \in 0 .. 28, NEW t, NEW v, Consumes(s, t, v), v # 4, NEW X \in SUBSET Forms, Shaped(s, X)
  PROVE  Grammar!After(Remains(s, X), t) = Remains(v, Context(s, v, X))
<1>1. CASE s = 0 /\ t = 3 /\ v = 1
  BY <1>1, AfterStart, RemainsIs, ContextIs DEF End
<1>2. CASE s \in {3, 6, 9, 12} /\ t = 10 /\ v = 5
  <2>1. Remains(s, X) = Content(X) /\ Context(s, v, X) = X
    BY <1>2, RemainsIs, ContextIs
  <2>2. Remains(v, X) = Assigns(X) \cup Nests(X)
    BY <1>2, RemainsIs
  <2> QED BY <1>2, <2>1, <2>2, AfterContent
<1>3. CASE s = 7 /\ t = 3 /\ v = 12
  BY <1>3, AfterParts, RemainsIs, ContextIs
<1>4. CASE s \in {8, 16} /\ t = 4 /\ v \in {13, 22}
  BY <1>4, AfterParts, RemainsIs, ContextIs
<1>5. CASE s = 10 /\ t = 8 /\ v = 15
  BY <1>5, AfterParts, RemainsIs, ContextIs
<1>6. CASE s \in {15, 21, 26} /\ ((t = 5 /\ v = 17) \/ (t = 11 /\ v = 18) \/ (t = 12 /\ v = 19))
  <2>1. PICK Y : Y = IF s = 15 THEN X ELSE Values(X)
    OBVIOUS
  <2>2. Y \in SUBSET Forms
    BY <2>1, PartsTyped
  <2>3. Grammar!After(Remains(s, X), t) = Grammar!After(Before(22, Y), t)
    <3>1. CASE s = 15
      BY <2>1, <3>1, RemainsIs
    <3>2. CASE s \in {21, 26}
      <4>1. s # 15
        BY <3>2
      <4> QED BY <2>1, <3>2, <4>1, RemainsIs, AfterList
    <3> QED BY <1>6, <3>1, <3>2
  <2>4. Context(s, v, X) = Y
    BY <1>6, <2>1, ContextIs
  <2>5. Grammar!After(Before(22, Y), t) = IF t = 5 THEN ListOf(Y) ELSE Y
    <3>1. 5 \notin {11, 12}
      OBVIOUS
    <3> QED BY <1>6, <2>2, <3>1, AfterValue
  <2>6. Remains(v, Y) = IF t = 5 THEN ListOf(Y) ELSE Y
    BY <1>6, RemainsIs
  <2> QED BY <2>3, <2>4, <2>5, <2>6
<1>7. CASE s = 20 /\ t = 9 /\ v = 23
  <2>1. PICK Z \in SUBSET Forms : X = Before(9, Z)
    BY <1>7 DEF Shaped
  <2>2. Context(s, v, X) = Z
    BY <1>7, <2>1, BehindFacts, ContextIs
  <2> QED BY <1>7, <2>1, <2>2, AfterParts, RemainsIs
<1>8. CASE s = 24 /\ t = 6 /\ v = 26
  <2>1. PICK Y \in SUBSET Forms : X = Values(Y)
    BY <1>8 DEF Shaped
  <2>2. Context(s, v, X) = Y
    BY <1>8, <2>1, BehindFacts, ContextIs
  <2>3. Grammar!After(Values(Y), t) = ListOf(Y)
    <3>1. ~(7 = t) /\ 6 = t
      BY <1>8
    <3> QED BY <3>1, AfterParts
  <2> QED BY <1>8, <2>1, <2>2, <2>3, RemainsIs
<1>9. CASE s = 25 /\ t = 7 /\ v = 27
  BY <1>9, AfterParts, RemainsIs, ContextIs
<1> QED BY <1>1, <1>2, <1>3, <1>4, <1>5, <1>6, <1>7, <1>8, <1>9 DEF Consumes

\* Nothing goes on with a token that is an error.
LEMMA ErrorMatches ==
  ASSUME NEW s \in 0 .. 28, NEW t, Rejects(s, t), NEW X \in SUBSET Forms, Shaped(s, X)
  PROVE  Grammar!After(Remains(s, X), t) = {}
<1>1. CASE s = 2 /\ t # 0
  BY <1>1, AfterEnd, RemainsIs
<1>2. CASE s = 7 /\ t # 3
  BY <1>2, AfterParts, RemainsIs
<1>3. CASE s \in {8, 16} /\ t # 4
  BY <1>3, AfterParts, RemainsIs
<1>4. CASE s = 10 /\ t # 8
  BY <1>4, AfterParts, RemainsIs
<1>5. CASE s \in {15, 21, 26} /\ t \notin {5, 11, 12}
  <2>1. PICK Y : Y = IF s = 15 THEN X ELSE Values(X)
    OBVIOUS
  <2>2. Y \in SUBSET Forms
    BY <2>1, PartsTyped
  <2>3. Grammar!After(Remains(s, X), t) = Grammar!After(Before(22, Y), t)
    <3>1. CASE s = 15
      BY <2>1, <3>1, RemainsIs
    <3>2. CASE s \in {21, 26}
      <4>1. s # 15
        BY <3>2
      <4> QED BY <2>1, <3>2, <4>1, RemainsIs, AfterList
    <3> QED BY <1>5, <3>1, <3>2
  <2> QED BY <1>5, <2>2, <2>3, AfterValue
<1>6. CASE s = 20 /\ t # 9
  <2>1. PICK Z \in SUBSET Forms : X = Before(9, Z)
    BY <1>6 DEF Shaped
  <2> QED BY <1>6, <2>1, AfterParts, RemainsIs
<1>7. CASE s = 25 /\ t # 7
  BY <1>7, AfterParts, RemainsIs
<1> QED BY <1>1, <1>2, <1>3, <1>4, <1>5, <1>6, <1>7 DEF Rejects

\* The contexts of the states a rule pops.
Chain(n, s0, s1, s2, s3, s4, X0, X1, X2, X3, X4) ==
  /\ X0 \in SUBSET Forms
  /\ n > 0 => X1 \in SUBSET Forms /\ X0 = Context(s1, s0, X1)
  /\ n > 1 => X2 \in SUBSET Forms /\ X1 = Context(s2, s1, X2)
  /\ n > 2 => X3 \in SUBSET Forms /\ X2 = Context(s3, s2, X3)
  /\ n > 3 => X4 \in SUBSET Forms /\ X3 = Context(s4, s3, X4)

\* What remains is the same, before or after the token that was looked at.
LeavesSame(s, t, K, M) == K = M \/ (s \notin Blind /\ Grammar!After(K, t) = Grammar!After(M, t))

\* What is left of the file does not change when a rule is reduced.
LEMMA ReduceMatches ==
  ASSUME NEW rule \in 2 .. 17, NEW sym, NEW n, NEW t, NEW s0, NEW s1, NEW s2, NEW s3, NEW s4,
         NEW X0, NEW X1, NEW X2, NEW X3, NEW X4, NEW u, NEW Xu, NEW v,
         Rule(rule, sym, n), Reducible(s0, rule), Reduction(rule, s0, s1, s2, s3, s4), Decides(s0, t, rule),
         Chain(n, s0, s1, s2, s3, s4, X0, X1, X2, X3, X4),
         u = Uncovered(n, s0, s1, s2, s3, s4), Xu = Uncovered(n, X0, X1, X2, X3, X4), v = GoesTo(u, sym)
  PROVE  LeavesSame(s0, t, Remains(s0, X0), Remains(v, Context(u, v, Xu)))
<1> DEFINE K == Remains(s0, X0)
           M == Remains(v, Context(u, v, Xu))
<1>1. CASE rule = 2
  <2>1. s0 = 0 /\ t # 3 /\ v = 2
    BY <1>1, SMT DEF Rule, Reduction, Decides, GoesTo
  <2>2. K = Grammar!Start /\ M = End
    BY <2>1, RemainsIs
  <2>3. s0 \notin Blind
    BY <2>1, SMT DEF Blind
  <2> QED BY <2>1, <2>2, <2>3, AfterStart DEF LeavesSame, End
<1>2. CASE rule = 4
  <2>1. n = 1 /\ s0 = 1 /\ s1 = 0 /\ v = 3
    BY <1>2, SMT DEF Rule, Reduction, GoesTo
  <2>2. X0 = End
    BY <2>1, ContextIs DEF Chain
  <2>3. Context(u, v, Xu) = End
    BY <2>1, ContextIs
  <2> QED BY <2>1, <2>2, <2>3, RemainsIs DEF LeavesSame
<1>3. CASE rule = 7
  <2>1. n = 0 /\ s0 \in {3, 6, 9, 12} /\ u = s0 /\ Xu = X0 /\ t # 10 /\ s0 \notin Blind
    BY <1>3, SMT DEF Rule, Reduction, Decides, Blind, Uncovered
  <2>2. v \in {8, 11, 14, 16}
    BY <1>3, SMT DEF Rule, GoesTo
  <2>3. K = Content(X0) /\ M = Before(4, X0)
    BY <2>1, <2>2, RemainsIs, ContextIs
  <2> QED BY <2>1, <2>3, AfterContent DEF Chain, LeavesSame
<1>4. CASE rule \in {6, 11}
  <2>1. n = 1 /\ s0 = 5 /\ s1 \in {3, 6, 9, 12} /\ u = s1 /\ Xu = X1 /\ s0 \notin Blind
    BY <1>4, SMT DEF Rule, Reduction, Blind, Uncovered
  <2>2. (v = 7 /\ t # 8) \/ (v = 10 /\ t = 8)
    BY <1>4, <2>1, SMT DEF Rule, GoesTo, Decides
  <2>3. X0 = X1 /\ X1 \in SUBSET Forms
    BY <2>1, ContextIs DEF Chain
  <2>4. K = Assigns(X1) \cup Nests(X1)
    BY <2>1, <2>3, RemainsIs
  <2>5. M = IF t = 8 THEN Assigns(X1) ELSE Nests(X1)
    BY <2>1, <2>2, RemainsIs, ContextIs
  <2>6. Grammar!After(K, t) = Grammar!After(Assigns(X1), t) \cup Grammar!After(Nests(X1), t)
    BY <2>4, AfterUnion
  <2>7. /\ t = 8 => Grammar!After(Nests(X1), t) = {}
        /\ t # 8 => Grammar!After(Assigns(X1), t) = {}
    BY <2>3, AfterParts
  <2>8. Grammar!After(K, t) = Grammar!After(M, t)
    BY <2>5, <2>6, <2>7
  <2> QED BY <2>1, <2>8 DEF LeavesSame
<1>5. CASE rule \in {8, 9}
  <2>1. n = 2 /\ s0 \in {11, 14} /\ s1 \in {6, 9} /\ u = s2 /\ Xu = X2
    BY <1>5, SMT DEF Rule, Reduction, Uncovered
  <2>2. v \in {8, 11, 14, 16}
    BY <1>5, SMT DEF Rule, GoesTo
  <2>3. n > 0 /\ n > 1
    BY <2>1, SMT
  <2>4. X0 = X1 /\ X1 = X2
    BY <2>1, <2>3, ContextIs DEF Chain
  <2>5. K = Before(4, X2) /\ Context(u, v, Xu) = X2
    BY <2>1, <2>2, <2>4, RemainsIs, ContextIs
  <2> QED BY <2>2, <2>5, RemainsIs DEF LeavesSame
<1>6. CASE rule = 3
  <2>1. n = 3 /\ s0 = 13 /\ s1 = 8 /\ s2 = 3 /\ s3 = 0 /\ v = 2
    BY <1>6, SMT DEF Rule, Reduction, GoesTo
  <2>2. n > 0 /\ n > 1 /\ n > 2
    BY <2>1, SMT
  <2>3. X0 = X1 /\ X1 = X2 /\ X2 = End
    BY <2>1, <2>2, ContextIs DEF Chain
  <2> QED BY <2>1, <2>3, RemainsIs DEF LeavesSame
<1>7. CASE rule \in {12, 13, 15}
  <2>1. /\ n = 1 /\ s1 \in {15, 21, 26} /\ u = s1 /\ Xu = X1
        /\ (s0 = 17 /\ v = 21) \/ (s0 \in {18, 19} /\ v = IF u = 15 THEN 20 ELSE 24)
    <3>1. n = 1 /\ s1 \in {15, 21, 26} /\ u = s1 /\ Xu = X1
      BY <1>7, SMT DEF Rule, Reduction, Uncovered
    <3>2. (rule = 15 /\ s0 = 17) \/ (rule \in {12, 13} /\ s0 \in {18, 19})
      BY <1>7, SMT DEF Reducible
    <3>3. (rule = 15 => v = 21) /\ (rule \in {12, 13} => v = IF u = 15 THEN 20 ELSE 24)
      BY SMT DEF Rule, GoesTo
    <3> QED BY <3>1, <3>2, <3>3
  <2>2. PICK Y : Y = IF s1 = 15 THEN X1 ELSE Values(X1)
    OBVIOUS
  <2>3. X0 = Y
    <3>1. n > 0
      BY <2>1, SMT
    <3> QED BY <2>1, <2>2, <3>1, ContextIs DEF Chain
  <2>4. v \in {20, 21, 24}
    BY <2>1
  <2>5. Context(u, v, Xu) = Y
    BY <2>1, <2>2, <2>4, ContextIs
  <2>6. CASE s0 = 17
    BY <2>1, <2>3, <2>5, <2>6, RemainsIs DEF LeavesSame
  <2>7. CASE s0 \in {18, 19}
    <3>1. v \in {20, 24}
      BY <2>1, <2>7
    <3> QED BY <2>3, <2>5, <2>7, <3>1, RemainsIs DEF LeavesSame
  <2> QED BY <2>1, <2>6, <2>7
<1>8. CASE rule = 5
  <2>1. /\ n = 4 /\ s0 = 22 /\ s1 = 16 /\ s2 = 12 /\ s3 = 7 /\ s4 \in {3, 6, 9, 12} /\ u = s4 /\ Xu = X4
        /\ v = 6
    BY <1>8, SMT DEF Rule, Reduction, Uncovered, GoesTo
  <2>2. n > 0 /\ n > 1 /\ n > 2 /\ n > 3
    BY <2>1, SMT
  <2>3. X0 = X1 /\ X1 = X2 /\ X2 = Content(X3) /\ X3 = X4
    BY <2>1, <2>2, ContextIs DEF Chain
  <2>4. K = Content(X4) /\ Context(u, v, Xu) = X4
    BY <2>1, <2>3, RemainsIs, ContextIs
  <2> QED BY <2>1, <2>4, RemainsIs DEF LeavesSame
<1>9. CASE rule = 10
  <2>1. /\ n = 4 /\ s0 = 23 /\ s1 = 20 /\ s2 = 15 /\ s3 = 10 /\ s4 \in {3, 6, 9, 12} /\ u = s4 /\ Xu = X4
        /\ v = 9
    BY <1>9, SMT DEF Rule, Reduction, Uncovered, GoesTo
  <2>2. n > 0 /\ n > 1 /\ n > 2 /\ n > 3
    BY <2>1, SMT
  <2>3. X0 = Behind(9, X1) /\ X1 = X2 /\ X2 = Before(9, Content(X3)) /\ X3 = X4 /\ X4 \in SUBSET Forms
    BY <2>1, <2>2, ContextIs DEF Chain
  <2>4. X0 = Content(X4)
    <3>1. Content(X4) \in SUBSET Forms
      BY <2>3, PartsTyped
    <3> QED BY <2>3, <3>1, BehindFacts
  <2>5. K = Content(X4) /\ Context(u, v, Xu) = X4
    BY <2>1, <2>4, RemainsIs, ContextIs
  <2> QED BY <2>1, <2>5, RemainsIs DEF LeavesSame
<1>10. CASE rule = 16
  <2>1. n = 1 /\ s0 = 24 /\ s1 \in {21, 26} /\ u = s1 /\ Xu = X1 /\ t # 6 /\ s0 \notin Blind /\ v \in {25, 28}
    BY <1>10, SMT DEF Rule, Reduction, Uncovered, GoesTo, Decides, Blind
  <2>2. X0 = Values(X1) /\ X1 \in SUBSET Forms
    <3>1. s1 # 15 /\ n > 0
      BY <2>1, SMT
    <3> QED BY <2>1, <3>1, ContextIs DEF Chain
  <2>3. K = Values(X1) /\ M = Before(7, X1)
    BY <2>1, <2>2, RemainsIs, ContextIs
  <2>4. ~(6 = t)
    BY <2>1
  <2>5. Grammar!After(Values(X1), t) = Grammar!After(Before(7, X1), t)
    <3>1. Grammar!After(Values(X1), t) = (IF 7 = t THEN X1 ELSE {}) \cup (IF 6 = t THEN ListOf(X1) ELSE {})
      BY <2>2, AfterParts
    <3>2. Grammar!After(Before(7, X1), t) = IF 7 = t THEN X1 ELSE {}
      BY <2>2, AfterParts
    <3>3. (IF 6 = t THEN ListOf(X1) ELSE {}) = {}
      BY <2>4
    <3> QED BY <3>1, <3>2, <3>3
  <2>6. Grammar!After(K, t) = Grammar!After(M, t)
    BY <2>3, <2>5
  <2> QED BY <2>1, <2>6 DEF LeavesSame
<1>11. CASE rule = 14
  <2>1. n = 3 /\ s0 = 27 /\ s1 = 25 /\ s2 = 21 /\ s3 \in {15, 21, 26} /\ u = s3 /\ Xu = X3 /\ v \in {20, 24}
    BY <1>11, SMT DEF Rule, Reduction, Uncovered, GoesTo
  <2>2. n > 0 /\ n > 1 /\ n > 2
    BY <2>1, SMT
  <2>3. X0 = X1 /\ X1 = X2 /\ X2 = IF s3 = 15 THEN X3 ELSE Values(X3)
    BY <2>1, <2>2, ContextIs DEF Chain
  <2>4. K = X2 /\ Context(u, v, Xu) = X2
    BY <2>1, <2>3, RemainsIs, ContextIs
  <2> QED BY <2>1, <2>4, RemainsIs DEF LeavesSame
<1>12. CASE rule = 17
  <2>1. n = 3 /\ s0 = 28 /\ s1 = 26 /\ s2 = 24 /\ s3 \in {21, 26} /\ u = s3 /\ Xu = X3 /\ v \in {25, 28}
    BY <1>12, SMT DEF Rule, Reduction, Uncovered, GoesTo
  <2>2. n > 0 /\ n > 1 /\ n > 2 /\ s3 # 15
    BY <2>1, SMT
  <2>3. X0 = X1 /\ X1 = Behind(7, X2) /\ X2 = Values(X3) /\ X3 \in SUBSET Forms
    BY <2>1, <2>2, ContextIs DEF Chain
  <2>4. X0 = X3
    BY <2>3, BehindFacts
  <2>5. K = Before(7, X3) /\ Context(u, v, Xu) = X3
    BY <2>1, <2>4, RemainsIs, ContextIs
  <2> QED BY <2>1, <2>5, RemainsIs DEF LeavesSame
<1>13. \/ rule = 2 \/ rule = 3 \/ rule = 4 \/ rule = 5 \/ rule \in {6, 11} \/ rule = 7 \/ rule \in {8, 9}
       \/ rule = 10 \/ rule \in {12, 13, 15} \/ rule = 14 \/ rule = 16 \/ rule = 17
  BY SMT
<1> QED BY <1>1, <1>2, <1>3, <1>4, <1>5, <1>6, <1>7, <1>8, <1>9, <1>10, <1>11, <1>12, <1>13

\* The contexts along the stack. Nothing depends on that of its first state.
Contexts(X) ==
  /\ X \in [1 .. Len(yyss) -> SUBSET Forms]
  /\ \A i \in 1 .. Len(yyss) - 1 : X[i + 1] = Context(yyss[i], yyss[i + 1], X[i])

\* What the grammar allows to follow is what remains, after the token that was looked at.
Seen(K) == IF yychar = YYEMPTY THEN K ELSE Grammar!After(K, yychar)

FormsFine ==
  pc = "backup" => \E X : Contexts(X) /\ forms = Seen(Remains(yystate, X[Len(yyss)]))

\* The context of a state is that of the state below, as Context says.
LEMMA ContextBelow ==
  ASSUME StackFine, NEW X, Contexts(X), NEW d \in Nat, NEW e \in Nat, e = d + 1, e < Len(yyss)
  PROVE  /\ X[Len(yyss) - d] \in SUBSET Forms /\ X[Len(yyss) - e] \in SUBSET Forms
         /\ X[Len(yyss) - d] = Context(yyss[Len(yyss) - e], yyss[Len(yyss) - d], X[Len(yyss) - e])
<1>1. PICK L \in Nat : L = Len(yyss)
  BY TopOfStack
<1>2. PICK i : i = L - e
  OBVIOUS
<1>3. i \in 1 .. L - 1 /\ i \in 1 .. L /\ i + 1 \in 1 .. L /\ i + 1 = L - d
  BY <1>1, <1>2, SMT
<1>4. X[i] \in SUBSET Forms /\ X[i + 1] \in SUBSET Forms
  BY <1>1, <1>3 DEF Contexts
<1>5. X[i + 1] = Context(yyss[i], yyss[i + 1], X[i])
  BY <1>1, <1>3 DEF Contexts
<1> QED BY <1>1, <1>2, <1>3, <1>4, <1>5

LEMMA TopContext ==
  ASSUME StackFine, NEW X, Contexts(X)
  PROVE  X[Len(yyss)] \in SUBSET Forms /\ Shaped(yystate, X[Len(yyss)])
<1>1. PICK L \in Nat : L = Len(yyss) /\ L > 0 /\ yystate = yyss[L]
  BY TopOfStack
<1>2. /\ L \in 1 .. L /\ L - 0 = L /\ 0 \in Nat /\ 1 \in Nat /\ 2 \in Nat /\ 1 = 0 + 1 /\ 2 = 1 + 1 /\ 0 < L
  BY <1>1, SMT
<1>3. X[L] \in SUBSET Forms
  BY <1>1, <1>2 DEF Contexts
<1>4. ASSUME yystate \in {20, 24}
      PROVE  /\ 1 < L /\ Follows(yyss[L - 1], yystate) /\ X[L - 1] \in SUBSET Forms
             /\ X[L] = Context(yyss[L - 1], yystate, X[L - 1])
  <2>1. yyss[L - 0] = yystate /\ yystate # 0
    BY <1>1, <1>2, <1>4
  <2>2. 1 < L /\ Follows(yyss[L - 1], yyss[L - 0])
    BY <1>1, <1>2, <2>1, Deeper
  <2>3. X[L - 1] \in SUBSET Forms /\ X[L - 0] = Context(yyss[L - 1], yyss[L - 0], X[L - 1])
    BY <1>1, <1>2, <2>2, ContextBelow
  <2> QED BY <1>2, <2>1, <2>2, <2>3
<1>5. ASSUME yystate = 20 PROVE \E Z \in SUBSET Forms : X[L] = Before(9, Z)
  <2>1. yyss[L - 1] = 15
    <3>1. Follows(yyss[L - 1], 20)
      BY <1>4, <1>5
    <3> QED BY <3>1, SMT DEF Follows
  <2>2. X[L] = X[L - 1]
    BY <1>4, <1>5, <2>1, ContextIs
  <2>3. 2 < L
    <3>1. 15 # 0 /\ 1 < L
      BY <1>4, <1>5
    <3> QED BY <1>1, <1>2, <2>1, <3>1, Deeper
  <2>4. X[L - 2] \in SUBSET Forms /\ X[L - 1] = Context(yyss[L - 2], yyss[L - 1], X[L - 2])
    BY <1>1, <1>2, <2>3, ContextBelow
  <2>5. X[L - 1] = Before(9, Content(X[L - 2]))
    BY <2>1, <2>4, ContextIs
  <2>6. Content(X[L - 2]) \in SUBSET Forms
    BY <2>4, PartsTyped
  <2> QED BY <2>2, <2>5, <2>6
<1>6. ASSUME yystate = 24 PROVE \E Y \in SUBSET Forms : X[L] = Values(Y)
  <2>1. yyss[L - 1] # 15
    <3>1. Follows(yyss[L - 1], 24)
      BY <1>4, <1>6
    <3> QED BY <3>1, SMT DEF Follows
  <2>2. X[L] = Values(X[L - 1]) /\ X[L - 1] \in SUBSET Forms
    BY <1>4, <1>6, <2>1, ContextIs
  <2> QED BY <2>2
<1> QED BY <1>1, <1>3, <1>5, <1>6 DEF Shaped

\* What is pushed has the context that the state below gives it.
LEMMA ContextsGoOn ==
  ASSUME StackFine, NEW X, Contexts(X), NEW n \in 0 .. Len(yyss) - 1, NEW v \in 0 .. 28, Restacked(n, v)
  PROVE  \E Y : /\ Contexts(Y)' /\ v = yystate'
                /\ Y[Len(yyss')] = Context(yyss[Len(yyss) - n], v, X[Len(yyss) - n])
<1>1. PICK L \in Nat : L = Len(yyss) /\ L > 0
  BY TopOfStack
<1>2. PICK k : k = L - n
  OBVIOUS
<1>3. /\ k \in Nat /\ k > 0 /\ k <= L /\ Len(yyss') = k + 1 /\ k \in 1 .. k /\ k \in 1 .. L
      /\ (\A i \in 1 .. k : yyss'[i] = yyss[i] /\ i \in 1 .. L) /\ yyss'[k + 1] = v /\ Follows(yyss[k], v)
  BY <1>1, <1>2, SMT DEF Restacked
<1>4. PICK new : new = Context(yyss[k], v, X[k])
  OBVIOUS
<1>5. \A i \in 1 .. k : X[i] \in SUBSET Forms
  BY <1>1, <1>3 DEF Contexts
<1>6. new \in SUBSET Forms
  <2>1. v \notin {0, 4}
    BY <1>3, SMT DEF Follows
  <2> QED BY <1>3, <1>4, <1>5, <2>1, ContextTyped
<1>7. PICK Y : Y = [i \in 1 .. k + 1 |-> IF i = k + 1 THEN new ELSE X[i]]
  OBVIOUS
<1>8. /\ k + 1 \in 1 .. k + 1 /\ (\A i \in 1 .. k : i \in 1 .. k + 1 /\ i # k + 1)
      /\ \A i \in 1 .. k + 1 : i = k + 1 \/ i \in 1 .. k
  BY <1>3, SMT
<1>9. Y[k + 1] = new /\ \A i \in 1 .. k : Y[i] = X[i]
  BY <1>7, <1>8
<1>10. Y \in [1 .. k + 1 -> SUBSET Forms]
  BY <1>5, <1>6, <1>7, <1>8
<1>11. ASSUME NEW i \in 1 .. Len(yyss') - 1 PROVE Y[i + 1] = Context(yyss'[i], yyss'[i + 1], Y[i])
  <2>1. i \in 1 .. k /\ i \in Nat /\ (i = k \/ (i + 1 \in 1 .. k /\ i \in 1 .. L - 1))
    BY <1>3, SMT
  <2>2. CASE i = k
    BY <1>3, <1>4, <1>9, <2>2
  <2>3. CASE i + 1 \in 1 .. k /\ i \in 1 .. L - 1
    <3>1. X[i + 1] = Context(yyss[i], yyss[i + 1], X[i])
      BY <1>1, <2>3 DEF Contexts
    <3> QED BY <1>3, <1>9, <2>1, <2>3, <3>1
  <2> QED BY <2>1, <2>2, <2>3
<1>12. Contexts(Y)'
  BY <1>3, <1>10, <1>11 DEF Contexts
<1>13. v = yystate'
  BY <1>3 DEF yystate, Last
<1> QED BY <1>1, <1>2, <1>3, <1>4, <1>9, <1>12, <1>13

LEMMA TokenFacts == YYEMPTY \in Int /\ YYEOF \in Int /\ YYEMPTY # YYEOF /\ YYEOF = 0 /\ YYFINAL = 4
BY SMT DEF YYEMPTY, YYEOF, YYFINAL

\* What remains is what the grammar allows, one lemma for each action.
LEMMA FormsLex ==
  ASSUME FormsFine, yylex
  PROVE  FormsFine'
<1>1. pc = "backup" /\ yychar = YYEMPTY
  BY DEF yylex
<1>2. PICK X : Contexts(X) /\ forms = Remains(yystate, X[Len(yyss)])
  BY <1>1 DEF FormsFine, Seen
<1>3. CASE UNCHANGED parseVars
  BY <1>3 DEF parseVars, history, FormsFine, Contexts, Seen, yystate, Last
<1>4. ASSUME NEW token, token # YYEMPTY, GotToken(token) PROVE FormsFine'
  <2>1. UNCHANGED yyss /\ yychar' = token /\ forms' = Grammar!After(forms, token)
    BY <1>4 DEF GotToken
  <2>2. Contexts(X)' /\ yystate' = yystate
    BY <1>2, <2>1 DEF Contexts, yystate, Last
  <2>3. forms' = Seen(Remains(yystate, X[Len(yyss)]))'
    BY <1>2, <1>4, <2>1, <2>2 DEF Seen
  <2> QED BY <2>1, <2>2, <2>3 DEF FormsFine
<1>5. \/ UNCHANGED parseVars
      \/ GotToken(YYEOF)
      \/ \E x \in Lexemes : UNCHANGED parseVars \/ \E token \in Tokens(x) : GotToken(token)
  BY DEF yylex
<1> QED BY <1>3, <1>4, <1>5, TokenFacts, TokenNumbers

LEMMA FormsShift ==
  ASSUME StackFine, FormsFine, Shift
  PROVE  FormsFine'
<1>1. PICK v \in (1 .. 28) \ {2, 3, 7, 10} : v \in Shifts \ {YYFINAL} /\ Restacked(0, v)
  BY ShiftStep
<1>2. PICK L \in Nat, n \in {0} : L = Len(yyss) /\ L > 0 /\ n = 0 /\ yystate = yyss[L] /\ yystate \in 0 .. 28
  BY TopOfStack
<1>3. n \in 0 .. L - 1 /\ L - n = L /\ v \in 0 .. 28
  BY <1>1, <1>2, SMT
<1>4. PICK s, t : s = yystate /\ t = yychar
  OBVIOUS
<1>5. v \in Found /\ Looks
  BY <1>1 DEF Shifts, Found
<1>6. pc = "backup" /\ t # YYEMPTY /\ UNCHANGED forms
  BY <1>4, <1>5 DEF Shift, Ready, history
<1>7. Consumes(s, t, v) /\ v # 4
  BY <1>1, <1>4, ShiftConsumes, TokenFacts
<1>8. PICK X : Contexts(X) /\ forms = Grammar!After(Remains(s, X[L]), t)
  BY <1>2, <1>4, <1>6 DEF FormsFine, Seen
<1>9. X[L] \in SUBSET Forms /\ Shaped(s, X[L])
  BY <1>2, <1>4, <1>8, TopContext
<1>10. forms = Remains(v, Context(s, v, X[L]))
  BY <1>2, <1>4, <1>7, <1>8, <1>9, ShiftMatches
<1>11. PICK Y : Contexts(Y)' /\ v = yystate' /\ Y[Len(yyss')] = Context(s, v, X[L])
  <2>1. n \in 0 .. Len(yyss) - 1 /\ Restacked(n, v)
    BY <1>1, <1>2, <1>3
  <2> QED BY <1>2, <1>3, <1>4, <1>8, <2>1, ContextsGoOn
<1>12. yychar' = YYEMPTY
  <2>1. t # YYEOF
    <3>1. t # 0
      BY <1>7, SMT DEF Consumes
    <3> QED BY <3>1, TokenFacts
  <2> QED BY <1>4, <2>1 DEF Shift
<1>13. forms' = Seen(Remains(yystate, Y[Len(yyss)]))'
  BY <1>6, <1>10, <1>11, <1>12 DEF Seen
<1> QED BY <1>11, <1>13 DEF FormsFine

LEMMA FormsReduce ==
  ASSUME StackFine, FormsFine, Reduce
  PROVE  FormsFine'
<1>1. PICK rule \in 2 .. 17, n \in 0 .. Len(yyss) - 1, v \in 0 .. 28 :
        /\ Restacked(n, v) /\ rule \in Reduces /\ n = yyr2[rule + 1]
        /\ v = Goto(yyss[Len(yyss) - n], yyr1[rule + 1])
  BY ReduceStep
<1>2. PICK X : Contexts(X) /\ forms = Seen(Remains(yystate, X[Len(yyss)]))
  BY DEF Reduce, Ready, FormsFine
<1>3. PICK sym, L, u, t : sym = yyr1[rule + 1] /\ L = Len(yyss) /\ u = yyss[L - n] /\ t = yychar
  OBVIOUS
<1>4. PICK s0, s1, s2, s3, s4 :
        s0 = yyss[L - 0] /\ s1 = yyss[L - 1] /\ s2 = yyss[L - 2] /\ s3 = yyss[L - 3] /\ s4 = yyss[L - 4]
  OBVIOUS
<1>5. PICK X0, X1, X2, X3, X4 : X0 = X[L - 0] /\ X1 = X[L - 1] /\ X2 = X[L - 2] /\ X3 = X[L - 3] /\ X4 = X[L - 4]
  OBVIOUS
<1>6. L \in Nat /\ yystate = s0 /\ L - 0 = L
  <2>1. L \in Nat /\ yystate = yyss[L]
    BY <1>3, TopOfStack
  <2>2. L - 0 = L
    BY <2>1, SMT
  <2> QED BY <1>4, <2>1, <2>2
<1>7. /\ n \in 0 .. 4 /\ n < L /\ Rule(rule, sym, n) /\ Reducible(s0, rule) /\ Reduction(rule, s0, s1, s2, s3, s4)
      /\ u = Uncovered(n, s0, s1, s2, s3, s4) /\ v = GoesTo(u, sym)
  <2>1. rule \in Reduces /\ n = yyr2[rule + 1] /\ v = Goto(u, sym)
    BY <1>1, <1>3
  <2>2. n \in 0 .. 4 /\ n < L
    BY <1>3, <1>4, <2>1, ReducePath
  <2>3. Rule(rule, sym, n)
    BY <1>3, <1>4, <2>1, ReducePath
  <2>4. Reducible(s0, rule)
    BY <1>3, <1>4, <2>1, ReducePath
  <2>5. Reduction(rule, s0, s1, s2, s3, s4)
    BY <1>3, <1>4, <2>1, ReducePath
  <2>6. yyss[L - n] = Uncovered(n, s0, s1, s2, s3, s4)
    <3>1. n \in {0, 1, 2, 3, 4}
      BY <2>2, SMT
    <3> QED BY <1>4, <3>1 DEF Uncovered
  <2>7. Goto(yyss[L - n], sym) = GoesTo(yyss[L - n], sym)
    BY <1>3, <1>4, <2>1, ReducePath
  <2> QED BY <1>3, <2>1, <2>2, <2>3, <2>4, <2>5, <2>6, <2>7
<1>8. Decides(s0, t, rule)
  BY <1>1, <1>3, <1>6, ReduceDecides, StateFacts
<1>9. Chain(n, s0, s1, s2, s3, s4, X0, X1, X2, X3, X4)
  <2>1. X0 \in SUBSET Forms
    BY <1>2, <1>3, <1>5, <1>6, TopContext
  <2>2. /\ 1 = 0 + 1 /\ 2 = 1 + 1 /\ 3 = 2 + 1 /\ 4 = 3 + 1
        /\ 0 \in Nat /\ 1 \in Nat /\ 2 \in Nat /\ 3 \in Nat /\ 4 \in Nat
        /\ (n > 0 => 1 < L) /\ (n > 1 => 2 < L) /\ (n > 2 => 3 < L) /\ (n > 3 => 4 < L)
    BY <1>6, <1>7, SMT
  <2>3. n > 0 => X1 \in SUBSET Forms /\ X0 = Context(s1, s0, X1)
    BY <1>2, <1>3, <1>4, <1>5, <2>2, ContextBelow
  <2>4. n > 1 => X2 \in SUBSET Forms /\ X1 = Context(s2, s1, X2)
    BY <1>2, <1>3, <1>4, <1>5, <2>2, ContextBelow
  <2>5. n > 2 => X3 \in SUBSET Forms /\ X2 = Context(s3, s2, X3)
    BY <1>2, <1>3, <1>4, <1>5, <2>2, ContextBelow
  <2>6. n > 3 => X4 \in SUBSET Forms /\ X3 = Context(s4, s3, X4)
    BY <1>2, <1>3, <1>4, <1>5, <2>2, ContextBelow
  <2> QED BY <2>1, <2>3, <2>4, <2>5, <2>6 DEF Chain
<1>10. PICK Xu : Xu = Uncovered(n, X0, X1, X2, X3, X4)
  OBVIOUS
<1>11. Xu = X[L - n]
  <2>1. n \in {0, 1, 2, 3, 4}
    BY <1>7, SMT
  <2> QED BY <1>5, <1>10, <2>1 DEF Uncovered
<1>12. LeavesSame(s0, t, Remains(s0, X0), Remains(v, Context(u, v, Xu)))
  BY <1>7, <1>8, <1>9, <1>10, ReduceMatches
<1>13. PICK Y : Contexts(Y)' /\ v = yystate' /\ Y[Len(yyss')] = Context(u, v, Xu)
  <2>1. \E Y : /\ Contexts(Y)' /\ v = yystate'
               /\ Y[Len(yyss')] = Context(yyss[Len(yyss) - n], v, X[Len(yyss) - n])
    BY <1>1, <1>2, ContextsGoOn
  <2>2. yyss[Len(yyss) - n] = u /\ X[Len(yyss) - n] = Xu
    BY <1>3, <1>11
  <2> QED BY <2>1, <2>2
<1>14. forms = Seen(Remains(v, Context(u, v, Xu)))
  <2>1. forms = Seen(Remains(s0, X0))
    BY <1>2, <1>3, <1>5, <1>6
  <2>2. s0 \notin Blind => t # YYEMPTY
    BY <1>3, <1>6, LooksWhen DEF Reduce, Ready
  <2> QED BY <1>3, <1>12, <2>1, <2>2 DEF LeavesSame, Seen
<1>15. UNCHANGED <<forms, yychar>>
  BY DEF Reduce, history
<1>16. forms' = Seen(Remains(yystate, Y[Len(yyss)]))'
  BY <1>13, <1>14, <1>15 DEF Seen
<1> QED BY <1>13, <1>16 DEF FormsFine

\* The inductive invariant.
GrammarFine == FormsFine /\ GrammarDecides

\* The verdict of a parse is that of the grammar.
LEMMA ParseDecides ==
  ASSUME StackFine, FormsFine, Parse
  PROVE  GrammarFine'
<1>1. PICK L, s, t : L = Len(yyss) /\ s = yystate /\ t = yychar
  OBVIOUS
<1>2. s \in 0 .. 28 /\ s # 4
  BY <1>1, TopOfStack, StateFacts
<1>3. PICK X : /\ Contexts(X) /\ forms = Seen(Remains(s, X[L]))
               /\ X[L] \in SUBSET Forms /\ Shaped(s, X[L])
  <2>1. pc = "backup"
    BY ParsePc
  <2> QED BY <1>1, <2>1, TopContext DEF FormsFine
<1>4. CASE yylex
  <2>1. pc' # "return"
    BY <1>4 DEF yylex, GotToken, parseVars
  <2> QED BY <1>4, <2>1, FormsLex DEF GrammarFine, GrammarDecides
<1>5. CASE Shift \/ Reduce
  <2>1. FormsFine'
    BY <1>5, FormsShift, FormsReduce
  <2>2. pc' = "backup" \/ yyresult' = 2
    BY <1>5 DEF Shift, Reduce, Push
  <2> QED BY <2>1, <2>2 DEF GrammarFine, GrammarDecides
<1>6. CASE Accept
  <2>1. YYFINAL \in Shifts /\ pc' = "return" /\ yyresult' = 0 /\ UNCHANGED forms
    BY <1>6 DEF Accept, Return, history
  <2>2. s = 2 /\ t = YYEOF
    BY <1>1, <2>1, ShiftFollows
  <2>3. forms = Grammar!After(End, YYEOF)
    BY <1>1, <1>3, <2>2, RemainsIs, TokenFacts DEF Seen
  <2>4. forms' = {<<>>}
    BY <2>1, <2>3, AfterEnd, TokenFacts
  <2> QED BY <2>1, <2>4 DEF GrammarFine, FormsFine, GrammarDecides, Grammar!Sentence
<1>7. CASE SyntaxError
  <2>1. /\ Shifts = {} /\ Reduces = {} /\ (Looks => t # YYEMPTY)
        /\ pc' = "return" /\ yyresult' = 1 /\ UNCHANGED forms
    BY <1>1, <1>7 DEF SyntaxError, Ready, Return, history
  <2>2. Rejects(s, t)
    BY <1>1, <1>2, <2>1, ErrorRejects
  <2>3. t # YYEMPTY
    <3>1. s \notin Blind
      BY <2>2, SMT DEF Rejects, Blind
    <3> QED BY <1>1, <2>1, <3>1, LooksWhen
  <2>4. forms' = {}
    BY <1>1, <1>2, <1>3, <2>1, <2>2, <2>3, ErrorMatches DEF Seen
  <2>5. {} # {<<>>} /\ 1 # 0
    OBVIOUS
  <2> QED BY <2>1, <2>4, <2>5 DEF GrammarFine, FormsFine, GrammarDecides, Grammar!Sentence
<1> QED BY <1>4, <1>5, <1>6, <1>7 DEF Parse

LEMMA BeginDecides ==
  ASSUME NEW file, Begin(file)
  PROVE  GrammarFine'
<1>1. yyss' = <<0>> /\ yychar' = YYEMPTY /\ pc' = "backup" /\ forms' = Grammar!Start
  BY DEF Begin
<1>2. PICK X : X = [i \in 1 .. Len(yyss') |-> {}]
  OBVIOUS
<1>3. Len(yyss') = 1 /\ yyss'[1] = 0 /\ (\A i \in 1 .. 1 - 1 : FALSE) /\ {} \in SUBSET Forms
  BY <1>1, SMT
<1>4. Contexts(X)'
  BY <1>2, <1>3 DEF Contexts
<1>5. yystate' = 0
  BY <1>3 DEF yystate, Last
<1>6. forms' = Seen(Remains(yystate, X[Len(yyss)]))'
  BY <1>1, <1>5, RemainsIs DEF Seen
<1> QED BY <1>1, <1>4, <1>6 DEF GrammarFine, FormsFine, GrammarDecides

LEMMA GrammarInit == Init => GrammarFine
BY DEF Init, ConfigInit, ParseInit, GrammarFine, FormsFine, GrammarDecides

LEMMA GrammarNext ==
  ASSUME IInv, IInv', ParserFine, GrammarFine, [Next]_vars
  PROVE  GrammarFine'
<1>1. WhatHappens
  BY Happens DEF ParserFine
<1>2. CASE UNCHANGED parseVars
  BY <1>2 DEF parseVars, history, GrammarFine, FormsFine, GrammarDecides, Contexts, Seen, yystate, Last
<1>3. CASE Opens
  BY <1>2, <1>3, BeginDecides DEF Opens
<1>4. CASE Parses
  BY <1>4, ParseDecides DEF Parses, ParserFine, GrammarFine
<1>5. CASE Ends
  BY <1>5 DEF Ends, GrammarFine, FormsFine, GrammarDecides
<1> QED BY <1>1, <1>2, <1>3, <1>4, <1>5 DEF WhatHappens, Quiet, FindsNone

(* The inductive invariant of the parser and its grammar: in every state of every execution the  *)
(* contexts along the stack say what may still follow.                                           *)
THEOREM GrammarInvariance == Spec => []GrammarFine
<1>1. Init => GrammarFine
  BY GrammarInit
<1>2. IInv /\ IInv' /\ ParserFine /\ GrammarFine /\ [Next]_vars => GrammarFine'
  BY GrammarNext
<1> QED BY <1>1, <1>2, Invariance, ParserInvariance, PTL DEF Spec

LEMMA GrammarSays == GrammarFine => GrammarDecides
BY DEF GrammarFine

(* The tables decide the grammar, for files of any length, nested as deep as they may be and     *)
(* read token by token: each state of the stack knows what may still follow, so the parser goes  *)
(* on with a token exactly if the grammar does, and its default reductions, which do not look at *)
(* the token, lose no error.                                                                     *)
THEOREM TablesDecideTheGrammar == Spec => []GrammarDecides
BY GrammarInvariance, GrammarSays, PTL

-----------------------------------------------------------------------------
(* What a tree says.  Both what Listing and what FlattenSeq compute is     *)
(* reached one child at a time.                                            *)

\* Words and what is written with them.
Texts == Seq(Seq(Int))

LEMMA LeastOf ==
  ASSUME NEW S \in SUBSET Nat, NEW k \in S
  PROVE  \E m \in S : \A n \in S : ~(n < m)
<1>1. PICK m \in S : \A n \in S : ~ (<<n, m>> \in OpToRel(<, Nat))
  BY NatLessThanWellFounded, WFMin
<1> QED BY <1>1 DEF OpToRel

\* The function that FlattenSeq takes the last value of.
Glued(f, s, i) == IF i = 1 THEN s[i] ELSE f[i - 1] \o s[i]
IsFlatten(f, s) == f = [i \in 1 .. Len(s) |-> Glued(f, s, i)]

LEMMA SomeFlatten ==
  ASSUME NEW s \in Seq(Texts)
  PROVE  \E f \in [1 .. Len(s) -> Texts] : IsFlatten(f, s)
<1>1. PICK L : L = Len(s) /\ L \in Nat /\ \A i \in 1 .. L : s[i] \in Texts
  BY LenProperties, ElementOfSeq
<1> DEFINE Partly(k) == \E g \in [1 .. L -> Texts] : \A i \in 1 .. L : i <= L - k => g[i] = Glued(g, s, i)
           S == {k \in Nat : k <= L /\ Partly(k)}
<1>2. L \in S
  <2>1. L <= L /\ \A i \in 1 .. L : ~(i <= L - L)
    BY <1>1, SMT
  <2>2. s \in [1 .. L -> Texts]
    BY <1>1, LenProperties
  <2> QED BY <1>1, <2>1, <2>2
<1>3. PICK k \in S : \A n \in S : ~(n < k)
  <2> HIDE DEF S
  <2>1. S \in SUBSET Nat
    BY DEF S
  <2> QED BY <1>2, <2>1, LeastOf
<1>4. PICK g \in [1 .. L -> Texts] : \A i \in 1 .. L : i <= L - k => g[i] = Glued(g, s, i)
  BY <1>3
<1>5. k = 0
  <2> SUFFICES ASSUME k # 0 PROVE FALSE
    OBVIOUS
  <2>1. PICK j : j = L - k + 1
    OBVIOUS
  <2>2. /\ j \in 1 .. L /\ (j # 1 => j - 1 \in 1 .. L) /\ k - 1 \in Nat /\ k - 1 <= L /\ k - 1 < k
        /\ \A i \in 1 .. L : /\ i <= L - (k - 1) => i = j \/ (i # j /\ i <= L - k)
                             /\ i <= L - k /\ i # 1 => i - 1 \in 1 .. L /\ i - 1 # j
        /\ j - 1 # j
    <3> HIDE DEF S, Partly
    <3>1. k \in Nat /\ k <= L /\ L \in Nat
      BY <1>1, <1>3 DEF S
    <3> QED BY <2>1, <3>1, SMT
  <2>3. PICK x : x = Glued(g, s, j)
    OBVIOUS
  <2>4. x \in Texts
    <3>1. \A a, b \in Texts : a \o b \in Texts
      BY ConcatProperties DEF Texts
    <3> QED BY <1>1, <2>2, <2>3, <3>1 DEF Glued
  <2>5. PICK h : h = [g EXCEPT ![j] = x]
    OBVIOUS
  <2>6. h \in [1 .. L -> Texts] /\ h[j] = x /\ \A i \in 1 .. L : i # j => h[i] = g[i]
    BY <2>2, <2>4, <2>5
  <2>7. ASSUME NEW i \in 1 .. L, i <= L - (k - 1) PROVE h[i] = Glued(h, s, i)
    <3>1. CASE i = j
      BY <2>2, <2>3, <2>6, <3>1 DEF Glued
    <3>2. CASE i # j /\ i <= L - k
      BY <1>4, <2>2, <2>6, <3>2 DEF Glued
    <3> QED BY <2>2, <2>7, <3>1, <3>2
  <2>8. Partly(k - 1)
    BY <2>6, <2>7
  <2>9. k - 1 \in S
    <3> HIDE DEF Partly
    <3> QED BY <2>2, <2>8
  <2> HIDE DEF S
  <2> QED BY <1>3, <2>2, <2>9
<1>6. \A i \in 1 .. L : i <= L - k
  BY <1>1, <1>5, SMT
<1>7. g = [i \in 1 .. L |-> Glued(g, s, i)]
  BY <1>4, <1>6
<1> QED BY <1>1, <1>7 DEF IsFlatten

\* It is the same for sequences that begin alike.
LEMMA SameFlatten ==
  ASSUME NEW s, NEW t, NEW f, NEW g, IsFlatten(f, s), IsFlatten(g, t), Len(s) \in Nat, Len(t) \in Nat,
         Len(s) <= Len(t), \A i \in 1 .. Len(s) : s[i] = t[i]
  PROVE  \A i \in 1 .. Len(s) : f[i] = g[i]
<1>1. PICK L, M : L = Len(s) /\ L \in Nat /\ M = Len(t) /\ M \in Nat /\ L <= M
  OBVIOUS
<1> DEFINE S == {i \in 1 .. L : f[i] # g[i]}
<1> SUFFICES ASSUME NEW j \in S PROVE FALSE
  BY <1>1
<1>2. S \in SUBSET Nat
  <2>1. \A i \in 1 .. L : i \in Nat
    BY SMT
  <2> QED BY <2>1
<1>3. PICK k \in S : \A n \in S : ~(n < k)
  <2> HIDE DEF S
  <2> QED BY <1>2, LeastOf
<1>4. /\ k \in 1 .. L /\ k \in 1 .. M /\ (k # 1 => k - 1 \in 1 .. L /\ k - 1 < k)
  BY <1>1, <1>3, SMT
<1>5. f[k] = Glued(f, s, k) /\ g[k] = Glued(g, t, k)
  BY <1>1, <1>4 DEF IsFlatten
<1>6. k # 1 => f[k - 1] = g[k - 1]
  <2>1. k # 1 => k - 1 \notin S
    BY <1>3, <1>4
  <2> QED BY <1>4, <2>1
<1>7. f[k] = g[k]
  BY <1>1, <1>4, <1>5, <1>6 DEF Glued
<1> QED BY <1>3, <1>7

LEMMA FlattenIs ==
  ASSUME NEW s \in Seq(Texts), Len(s) # 0
  PROVE  \E f \in [1 .. Len(s) -> Texts] : IsFlatten(f, s) /\ FlattenSeq(s) = f[Len(s)]
<1>1. PICK f \in [1 .. Len(s) -> Texts] : IsFlatten(f, s)
  BY SomeFlatten
<1>2. PICK g : g = CHOOSE h : IsFlatten(h, s)
  OBVIOUS
<1>3. IsFlatten(g, s)
  BY <1>1, <1>2
<1>4. FlattenSeq(s) = g[Len(s)]
  BY <1>2 DEF FlattenSeq, IsFlatten, Glued
<1>5. Len(s) \in Nat /\ Len(s) <= Len(s) /\ Len(s) \in 1 .. Len(s)
  <2>1. Len(s) \in Nat
    BY LenProperties
  <2> QED BY <2>1, SMT
<1>6. f[Len(s)] = g[Len(s)]
  BY <1>1, <1>3, <1>5, SameFlatten
<1> QED BY <1>1, <1>4, <1>6

LEMMA FlattenFacts ==
  /\ FlattenSeq(<<>>) = <<>>
  /\ \A s \in Seq(Texts) : FlattenSeq(s) \in Texts
  /\ \A s \in Seq(Texts), x \in Texts : FlattenSeq(Append(s, x)) = FlattenSeq(s) \o x
<1>1. FlattenSeq(<<>>) = <<>> /\ <<>> \in Texts
  <2>1. Len(<<>>) = 0
    BY EmptySeq
  <2> QED BY <2>1 DEF FlattenSeq, Texts
<1>2. ASSUME NEW s \in Seq(Texts) PROVE FlattenSeq(s) \in Texts
  <2>1. CASE Len(s) = 0
    <3>1. s = <<>>
      BY <2>1, EmptySeq
    <3> QED BY <1>1, <3>1
  <2>2. CASE Len(s) # 0
    <3>1. PICK f \in [1 .. Len(s) -> Texts] : FlattenSeq(s) = f[Len(s)]
      BY <2>2, FlattenIs
    <3>2. Len(s) \in Nat
      BY LenProperties
    <3>3. Len(s) \in 1 .. Len(s)
      BY <2>2, <3>2, SMT
    <3> QED BY <3>1, <3>3
  <2> QED BY <2>1, <2>2
<1>3. ASSUME NEW s \in Seq(Texts), NEW x \in Texts PROVE FlattenSeq(Append(s, x)) = FlattenSeq(s) \o x
  <2>1. PICK t : t = Append(s, x)
    OBVIOUS
  <2>2. PICK L : L = Len(s) /\ L \in Nat
    BY LenProperties
  <2>3. /\ t \in Seq(Texts) /\ Len(t) = L + 1 /\ t[L + 1] = x /\ \A i \in 1 .. L : t[i] = s[i]
    BY <2>1, <2>2, AppendProperties
  <2>4. L + 1 # 0 /\ L + 1 \in Nat /\ L <= L + 1 /\ L + 1 \in 1 .. L + 1 /\ (L # 0 => L \in 1 .. L /\ L + 1 # 1) /\ L + 1 - 1 = L
        /\ (L = 0 => L + 1 = 1)
    BY <2>2, SMT
  <2>5. PICK g \in [1 .. L + 1 -> Texts] : IsFlatten(g, t) /\ FlattenSeq(t) = g[L + 1]
    BY <2>3, <2>4, FlattenIs
  <2>6. g[L + 1] = Glued(g, t, L + 1)
    BY <2>3, <2>4, <2>5 DEF IsFlatten
  <2>7. CASE L = 0
    <3>1. s = <<>> /\ <<>> \o x = x
      BY <2>2, <2>7, EmptySeq, ConcatEmptySeq DEF Texts
    <3>2. g[L + 1] = x
      BY <2>3, <2>4, <2>6, <2>7 DEF Glued
    <3> QED BY <1>1, <2>1, <2>5, <3>1, <3>2
  <2>8. CASE L # 0
    <3>1. PICK f \in [1 .. L -> Texts] : IsFlatten(f, s) /\ FlattenSeq(s) = f[L]
      BY <2>2, <2>8, FlattenIs
    <3>2. \A i \in 1 .. Len(s) : f[i] = g[i]
      BY <2>2, <2>3, <2>4, <2>5, <3>1, SameFlatten
    <3>3. f[L] = g[L]
      BY <2>2, <2>4, <2>8, <3>2
    <3>4. g[L + 1] = g[L] \o x
      <4>1. PICK M : M = L + 1 /\ M - 1 = L /\ M # 1
        BY <2>4, <2>8
      <4>2. g[M] = Glued(g, t, M)
        BY <2>6, <4>1
      <4>3. g[M] = g[M - 1] \o t[M]
        BY <4>1, <4>2 DEF Glued
      <4> QED BY <2>3, <4>1, <4>3
    <3> QED BY <2>1, <2>5, <3>1, <3>3, <3>4
  <2> QED BY <2>7, <2>8
<1> QED BY <1>1, <1>2, <1>3

\* What the children of a section say, and what a node says, if it is known what its children say.
SpokenIn(N, n, T) ==
  FlattenSeq([i \in DOMAIN N[n].children |-> <<N[N[n].children[i]].nodeName>> \o T[N[n].children[i]]])
Spoken(n, T) == SpokenIn(nodes, n, T)
Held(n)      == IF nodes[n].nodeType = "LIST" THEN nodes[n].valueList ELSE <<nodes[n].value>>
Whole(n, T) ==
  IF nodes[n].nodeType = "SECTION" THEN << <<-3>> >> \o Spoken(n, T) \o << <<-4>> >>
  ELSE << <<-8>> >> \o Held(n) \o << <<-9>> >>

\* The sequences that are joined for the children c.
Parts(N, c, T) == [i \in DOMAIN c |-> <<N[c[i]].nodeName>> \o T[c[i]]]

LEMMA TextFacts ==
  /\ \A x, y \in Texts : x \o y \in Texts
  /\ \A x, y, z \in Texts : (x \o y) \o z = x \o (y \o z)
  /\ \A x \in Texts : <<>> \o x = x /\ x \o <<>> = x
  /\ <<>> \in Texts /\ \A w \in Seq(Int) : <<w>> \in Texts
  /\ << <<-3>> >> \in Texts /\ << <<-4>> >> \in Texts /\ << <<-8>> >> \in Texts /\ << <<-9>> >> \in Texts
<1>1. \A x, y \in Texts : x \o y \in Texts
  BY ConcatProperties DEF Texts
<1>2. \A x, y, z \in Texts : (x \o y) \o z = x \o (y \o z)
  BY ConcatAssociative DEF Texts
<1>3. \A x \in Texts : <<>> \o x = x /\ x \o <<>> = x
  BY ConcatEmptySeq DEF Texts
<1>4. <<>> \in Texts
  BY DEF Texts
<1>5. \A w \in Seq(Int) : <<w>> \in Texts
  BY DEF Texts
<1>6. <<-3>> \in Seq(Int) /\ <<-4>> \in Seq(Int) /\ <<-8>> \in Seq(Int) /\ <<-9>> \in Seq(Int)
  BY SMT
<1> QED BY <1>1, <1>2, <1>3, <1>4, <1>5, <1>6

Chained(x, y, z) == (x \o y) \o z = x \o (y \o z)

LEMMA TextsChain == \A x, y, z \in Texts : Chained(x, y, z)
BY TextFacts DEF Chained

LEMMA ChildTexts ==
  ASSUME NEW N, NEW c \in Seq(Nat), NEW T \in [Nat -> Texts], \A i \in 1 .. Len(c) : N[c[i]].nodeName \in Seq(Nat)
  PROVE  Parts(N, c, T) \in Seq(Texts) /\ Len(Parts(N, c, T)) = Len(c)
<1>1. PICK L \in Nat : L = Len(c) /\ DOMAIN c = 1 .. L /\ \A i \in 1 .. L : c[i] \in Nat
  BY LenProperties, ElementOfSeq
<1>2. Seq(Nat) \subseteq Seq(Int)
  BY SMT
<1>3. ASSUME NEW i \in 1 .. L PROVE <<N[c[i]].nodeName>> \o T[c[i]] \in Texts
  <2>1. N[c[i]].nodeName \in Seq(Int) /\ T[c[i]] \in Texts
    BY <1>1, <1>2
  <2> QED BY <2>1, TextFacts
<1>4. PICK p : p = Parts(N, c, T)
  OBVIOUS
<1>5. p \in [1 .. L -> Texts]
  BY <1>1, <1>3, <1>4 DEF Parts
<1>6. p \in Seq(Texts)
  BY <1>5, IsASeq
<1>7. Len(p) = L
  BY <1>5, <1>6, LenProperties, SMT
<1> QED BY <1>1, <1>4, <1>6, <1>7

LEMMA SpokenTyped ==
  ASSUME NEW N, NEW n, NEW T \in [Nat -> Texts], N[n].children \in Seq(Nat),
         \A d \in Range(N[n].children) : N[d].nodeName \in Seq(Nat)
  PROVE  SpokenIn(N, n, T) \in Texts
<1>1. PICK c \in Seq(Nat) : c = N[n].children
  OBVIOUS
<1>2. \A i \in 1 .. Len(c) : N[c[i]].nodeName \in Seq(Nat)
  <2>1. DOMAIN c = 1 .. Len(c)
    BY LenProperties
  <2> QED BY <1>1, <2>1 DEF Range
<1>3. Parts(N, c, T) \in Seq(Texts)
  BY <1>2, ChildTexts
<1>4. SpokenIn(N, n, T) = FlattenSeq(Parts(N, c, T))
  BY <1>1 DEF SpokenIn, Parts
<1> QED BY <1>3, <1>4, FlattenFacts

LEMMA SpokenAlike ==
  ASSUME NEW N, NEW M, NEW n, NEW T, NEW U, N[n].children \in Seq(Nat), M[n].children = N[n].children,
         \A d \in Range(N[n].children) : M[d].nodeName = N[d].nodeName /\ U[d] = T[d]
  PROVE  SpokenIn(M, n, U) = SpokenIn(N, n, T)
<1>1. PICK c \in Seq(Nat) : c = N[n].children
  OBVIOUS
<1>2. \A i \in DOMAIN c : M[c[i]].nodeName = N[c[i]].nodeName /\ U[c[i]] = T[c[i]]
  BY <1>1 DEF Range
<1>3. Parts(M, c, U) = Parts(N, c, T)
  BY <1>2 DEF Parts
<1>4. SpokenIn(N, n, T) = FlattenSeq(Parts(N, c, T)) /\ SpokenIn(M, n, U) = FlattenSeq(Parts(M, c, U))
  BY <1>1 DEF SpokenIn, Parts
<1> QED BY <1>3, <1>4

\* One more child.
OneMore(N, M, n, T, U, child) ==
  /\ T \in [Nat -> Texts] /\ U \in [Nat -> Texts] /\ child \in Nat
  /\ N[n].children \in Seq(Nat) /\ M[n].children = Append(N[n].children, child)
  /\ \A d \in Range(N[n].children) : N[d].nodeName \in Seq(Nat) /\ M[d].nodeName = N[d].nodeName /\ U[d] = T[d]
  /\ M[child].nodeName \in Seq(Nat)

LEMMA SpokenMore ==
  ASSUME NEW N, NEW M, NEW n, NEW T, NEW U, NEW child, OneMore(N, M, n, T, U, child)
  PROVE  SpokenIn(M, n, U) = SpokenIn(N, n, T) \o (<<M[child].nodeName>> \o U[child])
<1>1. /\ T \in [Nat -> Texts] /\ U \in [Nat -> Texts] /\ child \in Nat
      /\ N[n].children \in Seq(Nat) /\ M[n].children = Append(N[n].children, child)
      /\ \A d \in Range(N[n].children) : N[d].nodeName \in Seq(Nat) /\ M[d].nodeName = N[d].nodeName /\ U[d] = T[d]
      /\ M[child].nodeName \in Seq(Nat)
  BY DEF OneMore
<1>2. PICK c \in Seq(Nat) : c = N[n].children
  BY <1>1
<1>3. PICK e : e = Append(c, child)
  OBVIOUS
<1>4. e \in Seq(Nat) /\ Pushed(c, e, child)
  BY <1>1, <1>3, PushFacts
<1>5. PICK L : L = Len(c) /\ L \in Nat /\ DOMAIN c = 1 .. L /\ DOMAIN e = 1 .. L + 1 /\ Len(e) = L + 1
               /\ e[L + 1] = child /\ \A i \in 1 .. L : e[i] = c[i]
  <2>1. PICK L : L = Len(c)
    OBVIOUS
  <2>2. L = Len(c) /\ L \in Nat /\ DOMAIN c = 1 .. L /\ DOMAIN e = 1 .. L + 1 /\ Len(e) = L + 1
        /\ e[L + 1] = child /\ \A i \in 1 .. L : e[i] = c[i]
    BY <1>4, <2>1 DEF Pushed
  <2> QED BY <2>2
<1>6. \A i \in 1 .. L + 1 : i \in 1 .. L \/ i = L + 1
  BY <1>5, SMT
<1>7. \A i \in 1 .. L : N[c[i]].nodeName \in Seq(Nat) /\ M[c[i]].nodeName = N[c[i]].nodeName /\ U[c[i]] = T[c[i]]
  BY <1>1, <1>2, <1>5 DEF Range
<1>8. PICK p, q, x : p = Parts(N, c, T) /\ q = Parts(M, e, U) /\ x = <<M[child].nodeName>> \o U[child]
  OBVIOUS
<1>9. p \in Seq(Texts) /\ Len(p) = L
  BY <1>1, <1>5, <1>7, <1>8, ChildTexts
<1>10. q \in Seq(Texts) /\ Len(q) = L + 1
  <2>1. \A i \in 1 .. Len(e) : M[e[i]].nodeName \in Seq(Nat)
    BY <1>1, <1>5, <1>6, <1>7
  <2> QED BY <1>1, <1>4, <1>5, <1>8, <2>1, ChildTexts
<1>11. x \in Texts
  <2>1. Seq(Nat) \subseteq Seq(Int)
    BY SMT
  <2>2. M[child].nodeName \in Seq(Int)
    BY <1>1, <2>1
  <2> QED BY <1>1, <1>8, <2>2, TextFacts
<1>12. \A i \in 1 .. L : q[i] = p[i] /\ i \in 1 .. L + 1
  <2>1. \A i \in 1 .. L : i \in 1 .. L + 1
    BY <1>5, SMT
  <2> QED BY <1>5, <1>7, <1>8, <2>1 DEF Parts
<1>13. q[L + 1] = x
  <2>1. L + 1 \in 1 .. L + 1
    BY <1>5, SMT
  <2> QED BY <1>5, <1>8, <2>1 DEF Parts
<1>14. q = Append(p, x)
  <2>1. PICK r : r = Append(p, x)
    OBVIOUS
  <2>2. r \in Seq(Texts) /\ Len(r) = L + 1 /\ r[L + 1] = x /\ \A i \in 1 .. L : r[i] = p[i]
    <3>1. r \in Seq(Texts) /\ Pushed(p, r, x)
      BY <1>9, <1>11, <2>1, PushFacts
    <3>2. DOMAIN p = 1 .. L
      BY <1>9, LenProperties
    <3> QED BY <1>9, <3>1, <3>2 DEF Pushed
  <2>3. \A i \in 1 .. Len(q) : q[i] = r[i]
    BY <1>6, <1>10, <1>12, <1>13, <2>2
  <2> QED BY <1>10, <2>1, <2>2, <2>3, SeqEqual
<1>15. SpokenIn(N, n, T) = FlattenSeq(p) /\ SpokenIn(M, n, U) = FlattenSeq(q)
  BY <1>1, <1>2, <1>3, <1>8 DEF SpokenIn, Parts
<1> QED BY <1>8, <1>9, <1>11, <1>14, <1>15, FlattenFacts

LEMMA WholeAlike ==
  ASSUME NodesTyped, NEW n \in Nodes, NEW T, NEW U, \A d \in ChildrenOf(n) : U[d] = T[d]
  PROVE  Whole(n, U) = Whole(n, T)
<1>1. nodes[n].children \in Seq(Nat)
  BY NodeNumbers DEF NodeRecords
<1>2. Spoken(n, U) = Spoken(n, T)
  BY <1>1, SpokenAlike DEF ChildrenOf, Spoken
<1> QED BY <1>2 DEF Whole

\* The function that Listing is computed by. There is one: it is found from the last node to the first.
IsListing(f) == f = [n \in Nodes |-> Whole(n, f)]

LEMMA SomeListing ==
  ASSUME NodesTyped, ChildrenFine
  PROVE  \E f : IsListing(f)
<1>1. PICK L \in Nat : L = Len(nodes) /\ Nodes = 1 .. L
  BY NodeNumbers
<1> DEFINE Partly(m) == \E g : g = [n \in Nodes |-> g[n]] /\ \A n \in Nodes : n > m => g[n] = Whole(n, g)
           S == {m \in Nat : Partly(m)}
<1>2. L \in S
  <2>1. \A n \in Nodes : ~(n > L)
    BY <1>1, SMT
  <2>2. PICK g : g = [n \in Nodes |-> 0]
    OBVIOUS
  <2>3. g = [n \in Nodes |-> g[n]]
    BY <2>2
  <2> QED BY <2>1, <2>3
<1>3. PICK m \in S : \A k \in S : ~(k < m)
  <2>1. S \in SUBSET Nat
    OBVIOUS
  <2> HIDE DEF S
  <2> QED BY <1>2, <2>1, LeastOf
<1>4. PICK g : g = [n \in Nodes |-> g[n]] /\ \A n \in Nodes : n > m => g[n] = Whole(n, g)
  BY <1>3
<1>5. m = 0
  <2> SUFFICES ASSUME m # 0 PROVE FALSE
    OBVIOUS
  <2>1. ~(L < m) /\ m \in Nat
    BY <1>2, <1>3
  <2> HIDE DEF S
  <2>2. m \in Nodes /\ m - 1 \in Nat /\ m - 1 < m /\ \A n \in Nodes : n > m - 1 => n = m \/ (n > m /\ n # m)
    BY <1>1, <2>1, SMT
  <2>3. PICK h : h = [g EXCEPT ![m] = Whole(m, g)]
    OBVIOUS
  <2>4. h = [n \in Nodes |-> h[n]] /\ h[m] = Whole(m, g) /\ \A n \in Nodes : n # m => h[n] = g[n]
    BY <1>4, <2>2, <2>3
  <2>5. \A n \in Nodes : \A d \in ChildrenOf(n) : n < d /\ d \in Nodes
    BY DEF ChildrenFine, ChildrenOf, Under
  <2>6. ASSUME NEW n \in Nodes, n > m - 1 PROVE h[n] = Whole(n, h)
    <3>1. \A d \in ChildrenOf(n) : h[d] = g[d]
      <4>1. \A d \in Nodes : n < d => d # m
        BY <1>1, <2>1, <2>6, SMT
      <4> QED BY <2>4, <2>5, <4>1
    <3>2. Whole(n, h) = Whole(n, g)
      BY <3>1, WholeAlike
    <3> QED BY <1>4, <2>2, <2>4, <2>6, <3>2
  <2>7. Partly(m - 1)
    BY <2>4, <2>6
  <2>8. m - 1 \in S
    <3> HIDE DEF Partly
    <3> QED BY <2>2, <2>7 DEF S
  <2> QED BY <1>3, <2>2, <2>8
<1>6. \A n \in Nodes : n > m
  BY <1>1, <1>5, SMT
<1>7. g = [n \in Nodes |-> Whole(n, g)]
  BY <1>4, <1>6
<1> QED BY <1>7 DEF IsListing

\* The nodes whose subtrees are built, and what they say.
Finished(D, T) ==
  /\ D \in SUBSET Nodes /\ T \in [Nat -> Texts]
  /\ \A n \in D : T[n] = Whole(n, T) /\ ChildrenOf(n) \subseteq D

LEMMA ListingIs ==
  ASSUME NodesTyped, ChildrenFine, NEW D, NEW T, Finished(D, T), NEW r \in D
  PROVE  Listing(r) = T[r]
<1>1. PICK L \in Nat : L = Len(nodes) /\ Nodes = 1 .. L
  BY NodeNumbers
<1>2. PICK f : f = CHOOSE g : IsListing(g)
  OBVIOUS
<1>3. IsListing(f)
  BY <1>2, SomeListing
<1>4. Listing(r) = f[r]
  BY <1>2 DEF Listing, IsListing, Whole, Spoken, SpokenIn, Held
<1> DEFINE Bad == {n \in D : f[n] # T[n]}
           S   == {k \in Nat : \E n \in Bad : k = L - n}
<1> SUFFICES ASSUME r \in Bad PROVE FALSE
  BY <1>4
<1>5. D \subseteq Nodes /\ \A n \in Nodes : L - n \in Nat
  <2>1. \A n \in Nodes : L - n \in Nat
    BY <1>1, SMT
  <2> QED BY <2>1 DEF Finished
<1>6. L - r \in S /\ S \in SUBSET Nat
  BY <1>5
<1>7. PICK x \in S : \A y \in S : ~(y < x)
  <2> HIDE DEF S
  <2> QED BY <1>6, LeastOf
<1>8. PICK n \in Bad : x = L - n
  BY <1>7
<1>9. n \in Nodes /\ n \in D /\ f[n] = Whole(n, f) /\ T[n] = Whole(n, T) /\ ChildrenOf(n) \subseteq D
  BY <1>3, <1>5, <1>8 DEF IsListing, Finished
<1>10. ASSUME NEW c \in ChildrenOf(n) PROVE f[c] = T[c]
  <2> SUFFICES ASSUME f[c] # T[c] PROVE FALSE
    OBVIOUS
  <2>1. n < c /\ c \in Nodes /\ c \in D
    BY <1>9, <1>10 DEF ChildrenFine, Under, ChildrenOf
  <2>2. L - c \in S
    BY <1>5, <2>1
  <2>3. L - c < x
    BY <1>1, <1>8, <1>9, <2>1, SMT
  <2> QED BY <1>7, <2>2, <2>3
<1>11. Whole(n, f) = Whole(n, T)
  BY <1>9, <1>10, WholeAlike
<1> QED BY <1>8, <1>9, <1>11

-----------------------------------------------------------------------------
(* What has been read, from what is built: the text up to and including    *)
(* the brace that opens a section, what its children say, and what has     *)
(* been read of the part that is open on top.                              *)

Upto(n, T, P) == P[n] \o Spoken(n, T)

\* The sections O that are open, c the innermost; P is the text up to the opening of each.
OpenFine(O, D, T, P, c) ==
  /\ O \in SUBSET Nodes /\ P \in [Nat -> Texts] /\ c \in O /\ rootSection \in O
  /\ \A n \in O :
       /\ n \notin D /\ n <= c /\ nodes[n].nodeType = "SECTION" /\ ChildrenOf(n) \subseteq D
       /\ n = rootSection => P[n] = << <<-3>> >>
       /\ n # rootSection => /\ nodes[n].backlink \in O /\ nodes[n].backlink < n
                             /\ P[n] = Upto(nodes[n].backlink, T, P) \o (<<nodes[n].nodeName>> \o << <<-3>> >>)

\* The value that is read: it is made when its name is reduced, and a list from its bracket on.
Valued == {10, 15, 17, 18, 19, 20, 21, 23, 24, 25, 26, 27, 28}
InList(s, u) == s \in {21, 24, 25, 26, 27, 28} \/ (s \in {17, 18, 19} /\ u # 15)

ValueFine(s, u, D) ==
  s \in Valued =>
    /\ currentValue \in Nodes \ D /\ nodes[currentValue].nodeType # "SECTION" /\ nodes[currentValue].children = <<>>
    /\ nodes[currentValue].nodeType = "VALUE" => nodes[currentValue].valueList = <<>>
    /\ s \in {10, 15} => nodes[currentValue].nodeType = "VALUE"
    /\ InList(s, u) => nodes[currentValue].nodeType = "LIST"

\* A name that is not reduced yet is in the string buffer, unless a string has begun.
NameFine(s, name) ==
  name \in Seq(Int) /\ (s = 5 /\ ~(yychar = YYEMPTY /\ yy_start = "stringconst") => name = stringBuffer)

\* What has been read of the part on top.
Entered   == <<nodes[currentValue].nodeName>> \o (<< <<-8>> >> \o nodes[currentValue].valueList)
Assembled == <<nodes[currentValue].nodeName>> \o (<< <<-8>> >> \o Held(currentValue))

Part(s, name) ==
  CASE s = 5                        -> <<name>>
    [] s \in {13, 22}               -> << <<-4>> >>
    [] s = 10                       -> <<nodes[currentValue].nodeName>>
    [] s \in {15, 17, 21, 26}       -> Entered
    [] s \in {18, 19}               -> Entered \o <<stringBuffer>>
    [] s \in {20, 24, 25, 27, 28}   -> Assembled
    [] s = 23                       -> Assembled \o << <<-9>> >>
    [] OTHER                        -> <<>>

\* In state 7 the brace is still missing.
Reads(s, x, base, name) == IF s = 7 THEN x \o << <<-3>> >> = base ELSE x = base \o Part(s, name)

BodyText(s, x, D, O, T, P, name) ==
  /\ Finished(D, T) /\ OpenFine(O, D, T, P, currentSection)
  /\ ValueFine(s, yyss[Len(yyss) - 1], D) /\ NameFine(s, name)
  /\ Reads(s, x, Upto(currentSection, T, P), name)

FileText(x) == rootSection = 0 \/ \E D, T : Finished(D, T) /\ rootSection \in D /\ x = T[rootSection]

\* What has been read in the state s, but for the token that is looked at.
Stands(s, x) ==
  /\ s = 0 => x = <<>>
  /\ s = 1 => x = << <<-3>> >>
  /\ s = 2 => FileText(x)
  /\ s \notin {0, 1, 2} => \E D, O, T, P, name : BodyText(s, x, D, O, T, P, name)

Word ==
  IF yychar \in {YYEMPTY, YYEOF, 5, 6, 7} THEN <<>>
  ELSE IF yychar \in 10 .. 12 THEN <<stringBuffer>> ELSE << <<- yychar>> >>

LEMMA PartIs ==
  ASSUME NEW name
  PROVE  /\ Part(5, name) = <<name>>
         /\ \A s \in {13, 22} : Part(s, name) = << <<-4>> >>
         /\ Part(10, name) = <<nodes[currentValue].nodeName>>
         /\ \A s \in {15, 17, 21, 26} : Part(s, name) = Entered
         /\ \A s \in {18, 19} : Part(s, name) = Entered \o <<stringBuffer>>
         /\ \A s \in {20, 24, 25, 27, 28} : Part(s, name) = Assembled
         /\ Part(23, name) = Assembled \o << <<-9>> >>
         /\ \A s \in {3, 6, 8, 9, 11, 12, 14, 16} : Part(s, name) = <<>>
<1>1. Part(5, name) = <<name>> /\ Part(10, name) = <<nodes[currentValue].nodeName>>
      /\ Part(23, name) = Assembled \o << <<-9>> >>
  BY SMT DEF Part
<1>2. \A s \in {13, 22} : Part(s, name) = << <<-4>> >>
  BY SMT DEF Part
<1>3. \A s \in {15, 17, 21, 26} : Part(s, name) = Entered
  BY SMT DEF Part
<1>4. \A s \in {18, 19} : Part(s, name) = Entered \o <<stringBuffer>>
  BY SMT DEF Part
<1>5. \A s \in {20, 24, 25, 27, 28} : Part(s, name) = Assembled
  BY SMT DEF Part
<1>6. ASSUME NEW s \in {3, 6, 8, 9, 11, 12, 14, 16} PROVE Part(s, name) = <<>>
  <2>1. s # 5 /\ s \notin {13, 22} /\ s # 10 /\ s \notin {15, 17, 21, 26} /\ s \notin {18, 19}
        /\ s \notin {20, 24, 25, 27, 28} /\ s # 23
    BY SMT
  <2> QED BY <2>1, Zenon DEF Part
<1> QED BY <1>1, <1>2, <1>3, <1>4, <1>5, <1>6

\* What a node says stays, if the node and what its children say do.
LEMMA SpokenKept ==
  ASSUME NodesTyped, NEW n \in Nodes, NEW T, NEW U, nodes'[n].children = nodes[n].children,
         \A d \in ChildrenOf(n) : nodes'[d].nodeName = nodes[d].nodeName /\ U[d] = T[d]
  PROVE  Spoken(n, U)' = Spoken(n, T)
<1>1. nodes[n].children \in Seq(Nat)
  BY NodeNumbers DEF NodeRecords
<1>2. PICK N, M : N = nodes /\ M = nodes'
  OBVIOUS
<1>3. \A d \in Range(N[n].children) : M[d].nodeName = N[d].nodeName /\ U[d] = T[d]
  BY <1>2 DEF ChildrenOf
<1>4. SpokenIn(M, n, U) = SpokenIn(N, n, T)
  BY <1>1, <1>2, <1>3, SpokenAlike
<1> QED BY <1>2, <1>4 DEF Spoken

LEMMA WholeKept ==
  ASSUME NodesTyped, NEW n \in Nodes, NEW T, NEW U, nodes'[n] = nodes[n],
         \A d \in ChildrenOf(n) : nodes'[d].nodeName = nodes[d].nodeName /\ U[d] = T[d]
  PROVE  Whole(n, U)' = Whole(n, T)
<1>1. Spoken(n, U)' = Spoken(n, T)
  BY SpokenKept
<1> QED BY <1>1 DEF Whole, Held

LEMMA FinishedKept ==
  ASSUME NodesTyped, NEW D, NEW T, Finished(D, T), \A n \in D : n \in Nodes' /\ nodes'[n] = nodes[n]
  PROVE  Finished(D, T)'
<1>1. ASSUME NEW n \in D PROVE T[n] = Whole(n, T)' /\ ChildrenOf(n)' \subseteq D
  <2>1. n \in Nodes /\ T[n] = Whole(n, T) /\ ChildrenOf(n) \subseteq D
    BY DEF Finished
  <2>2. Whole(n, T)' = Whole(n, T)
    BY <2>1, WholeKept
  <2>3. ChildrenOf(n)' = ChildrenOf(n)
    BY DEF ChildrenOf
  <2> QED BY <2>1, <2>2, <2>3
<1> QED BY <1>1 DEF Finished

\* A subtree is finished.
LEMMA FinishedMore ==
  ASSUME NodesTyped, NEW D, NEW T, Finished(D, T), NEW s \in Nodes, s \notin D, ChildrenOf(s) \subseteq D,
         Whole(s, T) \in Texts, \A n \in D \cup {s} : n \in Nodes' /\ nodes'[n] = nodes[n],
         NEW U, U = [T EXCEPT ![s] = Whole(s, T)]
  PROVE  Finished(D \cup {s}, U)' /\ U[s] = Whole(s, T) /\ \A d \in D : U[d] = T[d]
<1>1. D \subseteq Nodes /\ T \in [Nat -> Texts] /\ s \in Nat
  BY NodeNumbers DEF Finished
<1>2. U \in [Nat -> Texts] /\ U[s] = Whole(s, T) /\ \A d \in Nat : d # s => U[d] = T[d]
  BY <1>1
<1>3. \A d \in D : U[d] = T[d]
  BY <1>1, <1>2, NodeNumbers
<1>4. ASSUME NEW n \in D \cup {s} PROVE U[n] = Whole(n, U)' /\ ChildrenOf(n)' \subseteq D
  <2>1. n \in Nodes /\ U[n] = Whole(n, T) /\ ChildrenOf(n) \subseteq D
    BY <1>1, <1>2, <1>3 DEF Finished
  <2>2. Whole(n, U)' = Whole(n, T)
    BY <1>3, <2>1, WholeKept
  <2>3. ChildrenOf(n)' = ChildrenOf(n)
    BY DEF ChildrenOf
  <2> QED BY <2>1, <2>2, <2>3
<1>5. D \cup {s} \in SUBSET (Nodes')
  OBVIOUS
<1> QED BY <1>2, <1>3, <1>4, <1>5 DEF Finished

LEMMA OpenKept ==
  ASSUME NodesTyped, NEW D, NEW T, NEW O, NEW P, NEW c, OpenFine(O, D, T, P, c), UNCHANGED rootSection,
         NEW O2 \in SUBSET O, NEW D2, NEW U, NEW e \in O2, rootSection \in O2, D \subseteq D2,
         \A d \in D : U[d] = T[d] /\ nodes'[d].nodeName = nodes[d].nodeName,
         \A n \in O2 : /\ n \in Nodes' /\ n \notin D2 /\ n <= e /\ (n # rootSection => nodes[n].backlink \in O2)
                       /\ nodes'[n].nodeType = nodes[n].nodeType /\ nodes'[n].nodeName = nodes[n].nodeName
                       /\ nodes'[n].backlink = nodes[n].backlink
                       /\ IF n = e THEN ChildrenOf(n)' \subseteq D2 ELSE nodes'[n].children = nodes[n].children
  PROVE  OpenFine(O2, D2, U, P, e)'
<1>1. \A n \in O2 : n \in O /\ n \in Nodes /\ n \in Nat
  BY NodeNumbers DEF OpenFine
<1>2. \A n \in O2 : ChildrenOf(n)' \subseteq D2
  <2>1. \A n \in O2 : ChildrenOf(n) \subseteq D2
    BY <1>1 DEF OpenFine
  <2> QED BY <2>1 DEF ChildrenOf
<1>3. ASSUME NEW n \in O2, n # rootSection
      PROVE  /\ nodes'[n].backlink \in O2 /\ nodes'[n].backlink < n
             /\ P[n] = (P[nodes'[n].backlink] \o SpokenIn(nodes', nodes'[n].backlink, U)) \o (<<nodes'[n].nodeName>> \o << <<-3>> >>)
  <2>1. PICK b \in O2 : b = nodes[n].backlink /\ b < n /\ n <= e
                        /\ P[n] = Upto(b, T, P) \o (<<nodes[n].nodeName>> \o << <<-3>> >>)
    BY <1>1, <1>3 DEF OpenFine
  <2>2. b # e
    <3>1. b \in Nat /\ n \in Nat /\ e \in Nat
      BY <1>1
    <3> QED BY <2>1, <3>1, SMT
  <2>3. Spoken(b, U)' = Spoken(b, T)
    <3>1. ChildrenOf(b) \subseteq D /\ b \in Nodes /\ nodes'[b].children = nodes[b].children
      BY <1>1, <2>2 DEF OpenFine
    <3> QED BY <3>1, SpokenKept
  <2>4. P[b] \o SpokenIn(nodes', b, U) = Upto(b, T, P)
    BY <2>3 DEF Upto, Spoken
  <2>5. nodes'[n].backlink = b /\ nodes'[n].nodeName = nodes[n].nodeName
    BY <2>1
  <2> QED BY <2>1, <2>4, <2>5
<1>4. \A n \in O2 : n = rootSection => P[n] = << <<-3>> >>
  BY <1>1 DEF OpenFine
<1>5. \A n \in O2 : nodes'[n].nodeType = "SECTION"
  BY <1>1 DEF OpenFine
<1>6. O2 \in SUBSET (Nodes') /\ P \in [Nat -> Texts]
  BY DEF OpenFine
<1> QED BY <1>2, <1>3, <1>4, <1>5, <1>6 DEF OpenFine, Upto, Spoken

LEMMA NodeTexts ==
  ASSUME NodesTyped, NEW D \in SUBSET Nodes, NEW T \in [Nat -> Texts], NEW n \in Nodes, ChildrenOf(n) \subseteq D
  PROVE  /\ Spoken(n, T) \in Texts /\ Held(n) \in Texts /\ Whole(n, T) \in Texts
         /\ nodes[n].nodeName \in Seq(Nat) /\ nodes[n].nodeName \in Seq(Int)
         /\ nodes[n].valueList \in Texts /\ nodes[n].value \in Seq(Int)
<1>1. Seq(Nat) \subseteq Seq(Int) /\ Seq(Seq(Nat)) \subseteq Seq(Seq(Int))
  BY SMT
<1>2. \A m \in Nodes : nodes[m] \in NodeRecords
  BY NodeNumbers
<1>3. nodes[n].nodeName \in Seq(Nat) /\ nodes[n].value \in Seq(Int) /\ nodes[n].valueList \in Texts
      /\ nodes[n].nodeName \in Seq(Int) /\ nodes[n].children \in Seq(Nat)
  <2>1. nodes[n].nodeName \in Seq(Nat) /\ nodes[n].value \in Seq(Nat) /\ nodes[n].valueList \in Seq(Seq(Nat))
        /\ nodes[n].children \in Seq(Nat)
    BY <1>2 DEF NodeRecords
  <2> QED BY <1>1, <2>1 DEF Texts
<1>4. Spoken(n, T) \in Texts
  <2>1. \A d \in ChildrenOf(n) : nodes[d].nodeName \in Seq(Nat)
    BY <1>2 DEF NodeRecords
  <2> QED BY <1>3, <2>1, SpokenTyped DEF Spoken, ChildrenOf
<1>5. Held(n) \in Texts
  BY <1>3, TextFacts DEF Held
<1>6. Whole(n, T) \in Texts
  BY <1>4, <1>5, TextFacts DEF Whole
<1> QED BY <1>3, <1>4, <1>5, <1>6

\* What is read in a section that is open.
LEMMA OpenTexts ==
  ASSUME NodesTyped, NEW D, NEW T, Finished(D, T), NEW O, NEW P, NEW c, OpenFine(O, D, T, P, c), NEW n \in O
  PROVE  /\ Upto(n, T, P) \in Texts /\ P[n] \in Texts /\ Spoken(n, T) \in Texts /\ Whole(n, T) \in Texts
         /\ nodes[n].nodeName \in Seq(Int) /\ nodes[n].nodeName \in Seq(Nat)
<1>1. n \in Nodes /\ n \in Nat /\ ChildrenOf(n) \subseteq D /\ D \in SUBSET Nodes /\ T \in [Nat -> Texts]
      /\ P \in [Nat -> Texts]
  BY NodeNumbers DEF OpenFine, Finished
<1>2. Spoken(n, T) \in Texts /\ Whole(n, T) \in Texts /\ P[n] \in Texts
      /\ nodes[n].nodeName \in Seq(Int) /\ nodes[n].nodeName \in Seq(Nat)
  BY <1>1, NodeTexts
<1> QED BY <1>2, TextFacts DEF Upto

LEMMA ValueTexts ==
  ASSUME NodesTyped, ChildrenFine, currentValue \in Nodes
  PROVE  /\ Entered \in Texts /\ Assembled \in Texts /\ Held(currentValue) \in Texts
         /\ nodes[currentValue].valueList \in Texts
         /\ nodes[currentValue].nodeName \in Seq(Int) /\ nodes[currentValue].nodeName \in Seq(Nat)
<1>1. PICK T : T = [n \in Nat |-> <<>>]
  OBVIOUS
<1>2. T \in [Nat -> Texts]
  BY <1>1, TextFacts
<1>3. ChildrenOf(currentValue) \subseteq Nodes
  BY DEF ChildrenFine, Under, ChildrenOf
<1>4. /\ Held(currentValue) \in Texts /\ nodes[currentValue].valueList \in Texts
      /\ nodes[currentValue].nodeName \in Seq(Int) /\ nodes[currentValue].nodeName \in Seq(Nat)
  BY <1>2, <1>3, NodeTexts
<1> QED BY <1>4, TextFacts DEF Entered, Assembled

LEMMA WordTyped ==
  ASSUME StackFine, NodesTyped
  PROVE  Word \in Texts /\ stringBuffer \in Seq(Int) /\ (yychar \in {YYEMPTY, YYEOF} => Word = <<>>)
<1>1. Seq(Nat) \subseteq Seq(Int)
  BY SMT
<1>2. stringBuffer \in Seq(Int)
  BY <1>1 DEF NodesTyped
<1>3. <<- yychar>> \in Seq(Int)
  <2>1. PICK i \in Int : i = - yychar
    BY SMT DEF StackFine
  <2> QED BY <2>1
<1> QED BY <1>2, <1>3, TextFacts DEF Word

\* Nothing of this depends on what is on the stack but for its top.
LEMMA TreeKept ==
  ASSUME UNCHANGED tree
  PROVE  /\ \A D, T : Finished(D, T)' <=> Finished(D, T)
         /\ \A O, D, T, P : OpenFine(O, D, T, P, currentSection) => OpenFine(O, D, T, P, currentSection)'
         /\ \A n, T, P : Upto(n, T, P)' = Upto(n, T, P)
         /\ Entered' = Entered /\ Assembled' = Assembled
<1>1. nodes' = nodes /\ rootSection' = rootSection /\ currentValue' = currentValue
  BY DEF tree
<1>2. \A n, T : Spoken(n, T)' = Spoken(n, T) /\ Held(n)' = Held(n) /\ ChildrenOf(n)' = ChildrenOf(n)
  BY <1>1 DEF Spoken, SpokenIn, Held, ChildrenOf
<1>3. \A n, T : Whole(n, T)' = Whole(n, T)
  BY <1>1, <1>2 DEF Whole
<1>4. Nodes' = Nodes
  BY <1>1 DEF Nodes
<1>5. \A D, T : Finished(D, T)' <=> Finished(D, T)
  BY <1>2, <1>3, <1>4 DEF Finished
<1>6. \A n, T, P : Upto(n, T, P)' = Upto(n, T, P)
  BY <1>2 DEF Upto
<1>7. ASSUME NEW O, NEW D, NEW T, NEW P, OpenFine(O, D, T, P, currentSection)
      PROVE  OpenFine(O, D, T, P, currentSection)'
  <2>1. \A n : ChildrenOf(n)' = ChildrenOf(n) /\ Upto(n, T, P)' = Upto(n, T, P)
    BY <1>2, <1>6
  <2>2. currentSection' = currentSection
    BY DEF tree
  <2>3. PICK N : N = nodes /\ N = nodes'
    BY <1>1
  <2> QED BY <1>1, <1>4, <1>7, <2>1, <2>2, <2>3 DEF OpenFine, Upto
<1>8. Entered' = Entered /\ Assembled' = Assembled
  BY <1>1 DEF Entered, Assembled, Held
<1> QED BY <1>5, <1>6, <1>7, <1>8

-----------------------------------------------------------------------------
(* The scanner. A name stays in the buffer until it is reduced, if the     *)
(* grammar allows what follows it.                                         *)

Starts == {"INITIAL", "stringconst", "multicomment"}

LEMMA ScanKeeps ==
  ASSUME yy_start \in Starts, NEW x, Match(x)
  PROVE  /\ yy_start' \in Starts
         /\ Tokens(x) = {} /\ yy_start' # "stringconst" => yy_start # "stringconst" /\ stringBuffer' = stringBuffer
         /\ \A t \in Tokens(x) : t \in {3, 8} => yy_start # "stringconst" /\ stringBuffer' = stringBuffer
<1>1. x \in Matched[yy_start] /\ yy_start' = Enters(x)[1] /\ stringBuffer' = Enters(x)[2]
  BY DEF Match, Take
<1>2. DOMAIN yytranslate = {"{", "}", "[", ",", "]", "=", ";", "name", "string", "number", "'"}
  BY DEF yytranslate
<1>3. CASE yy_start = "stringconst"
  <2>1. x \in {"text", "quote"}
    BY <1>1, <1>3 DEF Matched
  <2>2. CASE x = "text"
    <3>1. Enters(x) = <<"stringconst", Append(stringBuffer, scanned')>>
      BY <1>3, <2>2, Zenon DEF Enters, Named
    <3>2. Tokens(x) = {}
      BY <1>3, <2>2, Zenon DEF Tokens
    <3> QED BY <1>1, <3>1, <3>2 DEF Starts
  <2>3. CASE x = "quote"
    <3>1. Enters(x) = <<"INITIAL", stringBuffer>>
      BY <1>3, <2>3, Zenon DEF Enters, Named
    <3>2. Tokens(x) = {yytranslate["string"]}
      BY <1>3, <2>3, Zenon DEF Tokens
    <3>3. yytranslate["string"] = 11
      BY Zenon DEF yytranslate
    <3>4. 11 \notin {3, 8}
      OBVIOUS
    <3> QED BY <1>1, <3>1, <3>2, <3>3, <3>4 DEF Starts
  <2> QED BY <2>1, <2>2, <2>3
<1>4. CASE yy_start = "multicomment"
  <2>1. x \in {"line", "line */", "space"}
    BY <1>1, <1>4 DEF Matched
  <2>2. Enters(x) \in {<<"INITIAL", stringBuffer>>, <<"multicomment", stringBuffer>>}
    BY <1>4, <2>1, Zenon DEF Enters, Named
  <2>3. Tokens(x) = {}
    BY <1>4, <2>1, Zenon DEF Tokens
  <2>4. yy_start' \in {"INITIAL", "multicomment"} /\ stringBuffer' = stringBuffer
    BY <1>1, <2>2
  <2> QED BY <1>4, <2>3, <2>4 DEF Starts
<1>5. CASE yy_start = "INITIAL"
  <2>1. x \in DOMAIN yytranslate \/ x \in {"# line", "/* line", "/* line */", "quote", "space"}
    <3>1. x \in (DOMAIN yytranslate \ {"string"}) \cup (OpenEnded \ {"text", "line", "line */"}) \cup {"quote", "space"}
      BY <1>1, <1>5 DEF Matched
    <3>2. Named \subseteq DOMAIN yytranslate
      BY <1>2 DEF Named
    <3>3. OpenEnded \subseteq Named \cup {"text", "# line", "/* line", "/* line */", "line", "line */"}
      BY DEF OpenEnded
    <3> QED BY <3>1, <3>2, <3>3
  <2>2. CASE x \in {"name", "number"}
    <3>1. Enters(x) = <<"INITIAL", <<scanned'>> >>
      BY <1>5, <2>2, Zenon DEF Enters, Named
    <3>2. Tokens(x) = {yytranslate[x]}
      BY <1>2, <1>5, <2>2 DEF Tokens
    <3>3. yytranslate[x] \in {10, 12}
      BY <2>2, Zenon DEF yytranslate
    <3>4. ~(10 \in {3, 8}) /\ ~(12 \in {3, 8})
      OBVIOUS
    <3> QED BY <1>1, <3>1, <3>2, <3>3, <3>4 DEF Starts
  <2>3. CASE x \in {"{", "}", "[", ",", "]", "=", ";", "string", "'"}
    <3>1. Enters(x) = <<"INITIAL", stringBuffer>>
      BY <1>5, <2>3, Zenon DEF Enters, Named
    <3>2. Tokens(x) # {}
      BY <1>2, <1>5, <2>3 DEF Tokens
    <3> QED BY <1>1, <1>5, <3>1, <3>2 DEF Starts
  <2>4. CASE x = "quote"
    <3>1. Enters(x) = <<"stringconst", <<>> >>
      BY <1>5, <2>4, Zenon DEF Enters, Named
    <3>2. Tokens(x) = {}
      <4>1. x \notin DOMAIN yytranslate /\ yy_start # "stringconst"
        BY <1>2, <1>5, <2>4
      <4> QED BY <4>1 DEF Tokens
    <3> QED BY <1>1, <3>1, <3>2 DEF Starts
  <2>5. CASE x \in {"# line", "/* line", "/* line */", "space"}
    <3>1. Enters(x) \in {<<"INITIAL", stringBuffer>>, <<"multicomment", stringBuffer>>}
      BY <1>5, <2>5, Zenon DEF Enters, Named
    <3>2. Tokens(x) = {}
      <4>1. x \notin DOMAIN yytranslate /\ yy_start # "stringconst"
        BY <1>2, <1>5, <2>5
      <4> QED BY <4>1 DEF Tokens
    <3>3. yy_start' \in {"INITIAL", "multicomment"} /\ stringBuffer' = stringBuffer
      BY <1>1, <3>1
    <3> QED BY <1>5, <3>2, <3>3 DEF Starts
  <2> QED BY <1>2, <2>1, <2>2, <2>3, <2>4, <2>5
<1> QED BY <1>3, <1>4, <1>5 DEF Starts

TextFine ==
  /\ yy_start \in Starts
  /\ pc = "backup" /\ forms # {} => \E x \in Texts : Stands(yystate, x) /\ tokens = x \o Word

\* What is built does not change, nor does what has been read.
LEMMA StandsKept ==
  ASSUME UNCHANGED <<tree, yyss>>, NEW s, s \in {18, 19} => UNCHANGED stringBuffer, NEW x, Stands(s, x),
         \A name : NameFine(s, name) => NameFine(s, name)'
  PROVE  Stands(s, x)'
<1>1. /\ nodes' = nodes /\ rootSection' = rootSection /\ currentSection' = currentSection
      /\ currentValue' = currentValue /\ yyss' = yyss
  BY DEF tree
<1>2. FileText(x) => FileText(x)'
  BY <1>1, TreeKept DEF FileText
<1>3. ASSUME NEW D, NEW O, NEW T, NEW P, NEW name, BodyText(s, x, D, O, T, P, name)
      PROVE  BodyText(s, x, D, O, T, P, name)'
  <2>1. Finished(D, T)' /\ OpenFine(O, D, T, P, currentSection)'
    BY <1>3, TreeKept DEF BodyText
  <2>2. ValueFine(s, yyss[Len(yyss) - 1], D)'
    BY <1>1, <1>3 DEF BodyText, ValueFine, Nodes
  <2>3. Upto(currentSection, T, P)' = Upto(currentSection, T, P)
    BY <1>1, TreeKept
  <2>4. Part(s, name)' = Part(s, name)
    BY <1>1, TreeKept DEF Part
  <2>5. Reads(s, x, Upto(currentSection, T, P), name)'
    BY <1>3, <2>3, <2>4 DEF BodyText, Reads
  <2>6. NameFine(s, name)'
    BY <1>3 DEF BodyText
  <2> QED BY <2>1, <2>2, <2>5, <2>6 DEF BodyText
<1> QED BY <1>2, <1>3 DEF Stands

\* After a name only "{" and "=" go on.
LEMMA NameGoesOn ==
  ASSUME StackFine, FormsFine, pc = "backup", yychar = YYEMPTY, yystate = 5,
         NEW t, Grammar!After(forms, t) # {}
  PROVE  t \in {3, 8}
<1>1. PICK X : Contexts(X) /\ forms = Remains(5, X[Len(yyss)])
  BY DEF FormsFine, Seen
<1>2. PICK Y \in SUBSET Forms : Y = X[Len(yyss)]
  BY <1>1, TopContext
<1>3. forms = Assigns(Y) \cup Nests(Y)
  BY <1>1, <1>2, RemainsIs
<1>4. Grammar!After(forms, t) = Grammar!After(Assigns(Y), t) \cup Grammar!After(Nests(Y), t)
  BY <1>3, AfterUnion
<1> QED BY <1>4, AfterParts

LEMMA AfterNone == \A t : Grammar!After({}, t) = {}
BY DEF Grammar!After

LEMMA TextLex ==
  ASSUME StackFine, StackFine', NodesTyped, NodesTyped', FormsFine, TextFine, yylex
  PROVE  TextFine'
<1>1. /\ pc = "backup" /\ Looks /\ yychar = YYEMPTY
      /\ UNCHANGED <<tree, yyss>> /\ yy_start \in Starts /\ yystate' = yystate
  <2>1. UNCHANGED <<tree, yyss>>
    BY DEF yylex, parseVars, GotToken
  <2> QED BY <2>1 DEF yylex, TextFine, yystate, Last
<1>2. PICK s : s = yystate /\ s = yystate' /\ s \notin {18, 19}
  BY <1>1, LooksWhen DEF Blind
<1> DEFINE Skips == /\ UNCHANGED <<forms, tokens, yychar>>
                    /\ yy_start' # "stringconst" => yy_start # "stringconst" /\ stringBuffer' = stringBuffer
           Gets(t) == /\ GotToken(t) /\ t # YYEMPTY
                      /\ t \in {3, 8} => yy_start # "stringconst" /\ stringBuffer' = stringBuffer
<1>3. yy_start' \in Starts /\ (Skips \/ \E t : Gets(t))
  <2>1. CASE Refill /\ UNCHANGED parseVars
    BY <1>1, <2>1 DEF Refill, parseVars, history
  <2>2. CASE EndOfFile /\ GotToken(YYEOF)
    <3>1. YYEOF \notin {3, 8} /\ YYEOF # YYEMPTY /\ yy_start' = yy_start
      BY <2>2, TokenFacts DEF EndOfFile
    <3> QED BY <1>1, <2>2, <3>1
  <2>3. ASSUME NEW x \in Lexemes, Match(x), Tokens(x) = {}, UNCHANGED parseVars
        PROVE  /\ yy_start' \in Starts /\ UNCHANGED <<forms, tokens, yychar>>
               /\ yy_start' # "stringconst" => yy_start # "stringconst" /\ stringBuffer' = stringBuffer
    BY <1>1, <2>3, ScanKeeps DEF parseVars, history
  <2>4. ASSUME NEW x \in Lexemes, Match(x), NEW t \in Tokens(x), GotToken(t)
        PROVE  yy_start' \in Starts /\ t # YYEMPTY /\ (t \in {3, 8} => yy_start # "stringconst" /\ stringBuffer' = stringBuffer)
    BY <1>1, <2>4, ScanKeeps, TokenNumbers
  <2> QED BY <2>1, <2>2, <2>3, <2>4 DEF yylex
<1>4. SUFFICES ASSUME forms' # {} PROVE \E x \in Texts : Stands(s, x)' /\ tokens' = x \o Word'
  BY <1>2, <1>3 DEF TextFine
<1>5. forms # {}
  <2>1. ASSUME NEW t, Gets(t) PROVE forms # {}
    BY <1>4, <2>1, AfterNone DEF GotToken
  <2>2. ASSUME Skips PROVE forms # {}
    BY <1>4, <2>2
  <2> HIDE DEF Skips, Gets
  <2> QED BY <1>3, <2>1, <2>2
<1>6. PICK x \in Texts : Stands(s, x) /\ tokens = x
  BY <1>1, <1>2, <1>5, WordTyped, TextFacts DEF TextFine
<1>7. CASE Skips
  <2>1. \A name : NameFine(s, name) => NameFine(s, name)'
    BY <1>1, <1>7 DEF NameFine
  <2>2. Stands(s, x)'
    BY <1>1, <1>2, <1>6, <2>1, StandsKept
  <2>3. Word' = <<>>
    BY <1>1, <1>7 DEF Word
  <2>4. tokens' = x \o Word'
    BY <1>6, <1>7, <2>3, TextFacts
  <2> QED BY <2>2, <2>4
<1>8. ASSUME NEW t, Gets(t)
      PROVE  \E y \in Texts : Stands(s, y)' /\ tokens' = y \o Word'
  <2>1. /\ yychar' = t /\ forms' = Grammar!After(forms, t)
        /\ tokens' = IF t \in {YYEOF, 5, 6, 7} THEN tokens
                     ELSE Append(tokens, IF t \in 10..12 THEN stringBuffer' ELSE <<- t>>)
    BY <1>8 DEF GotToken
  <2>2. s = 5 => t \in {3, 8}
    BY <1>1, <1>2, <1>4, <2>1, NameGoesOn
  <2>3. \A name : NameFine(s, name) => NameFine(s, name)'
    BY <1>8, <2>1, <2>2 DEF NameFine
  <2>4. Stands(s, x)'
    BY <1>1, <1>2, <1>6, <2>3, StandsKept
  <2>5. tokens' = x \o Word'
    <3>1. CASE t \in {YYEOF, 5, 6, 7}
      BY <1>6, <2>1, <3>1, TextFacts DEF Word
    <3>2. CASE t \notin {YYEOF, 5, 6, 7}
      <4>1. PICK w : w = IF t \in 10..12 THEN stringBuffer' ELSE <<- t>>
        OBVIOUS
      <4>2. Word' = <<w>>
        BY <1>8, <2>1, <3>2, <4>1 DEF Word
      <4>3. w \in Seq(Int)
        <5>1. Seq(Nat) \subseteq Seq(Int)
          BY SMT
        <5>2. stringBuffer' \in Seq(Int) /\ t \in Int
          BY <2>1, <5>1 DEF NodesTyped, StackFine
        <5>3. PICK i \in Int : i = - t
          BY <5>2, SMT
        <5>4. <<i>> \in Seq(Int)
          OBVIOUS
        <5> QED BY <4>1, <5>2, <5>3, <5>4
      <4>5. Append(x, w) = x \o <<w>>
        BY <4>3, AppendIsConcat DEF Texts
      <4> QED BY <1>6, <2>1, <3>2, <4>1, <4>2, <4>5
    <3> QED BY <3>1, <3>2
  <2> QED BY <2>4, <2>5
<1> HIDE DEF Skips, Gets
<1> QED BY <1>3, <1>7, <1>8

-----------------------------------------------------------------------------
(* A token is shifted: it is read. *)

LEMMA WordIs ==
  /\ yychar = 3 => Word = << <<-3>> >>
  /\ yychar = 4 => Word = << <<-4>> >>
  /\ yychar = 8 => Word = << <<-8>> >>
  /\ yychar = 9 => Word = << <<-9>> >>
  /\ yychar \in {5, 6, 7} => Word = <<>>
  /\ yychar \in {10, 11, 12} => Word = <<stringBuffer>>
<1>1. ASSUME yychar \in {3, 4, 8, 9} PROVE Word = << <<- yychar>> >>
  <2>1. yychar \notin {YYEMPTY, YYEOF, 5, 6, 7} /\ yychar \notin 10 .. 12
    BY <1>1, SMT DEF YYEMPTY, YYEOF
  <2> QED BY <2>1 DEF Word
<1>2. yychar \in {5, 6, 7} => Word = <<>>
  BY DEF Word
<1>3. ASSUME yychar \in {10, 11, 12} PROVE Word = <<stringBuffer>>
  <2>1. yychar \notin {YYEMPTY, YYEOF, 5, 6, 7} /\ yychar \in 10 .. 12
    BY <1>3, SMT DEF YYEMPTY, YYEOF
  <2> QED BY <2>1 DEF Word
<1> QED BY <1>1, <1>2, <1>3

\* What has been read of the part on top grows by the token.
LEMMA PartShifted ==
  ASSUME NodesTyped, ChildrenFine, stringBuffer \in Seq(Int), NEW s, NEW v, v # 4, Consumes(s, yychar, v), s \notin {0, 7},
         NEW u, NEW D, ValueFine(s, u, D), NEW name
  PROVE  Part(s, name) \in Texts /\ Part(s, name) \o Word = Part(v, stringBuffer)
<1>1. <<stringBuffer>> \in Texts
  BY TextFacts
<1>2. CASE s \in {3, 6, 9, 12} /\ yychar = 10 /\ v = 5
  <2>1. s \in {3, 6, 8, 9, 11, 12, 14, 16}
    BY <1>2
  <2>2. Part(s, name) = <<>>
    BY <2>1, PartIs
  <2>3. Word = <<stringBuffer>> /\ Part(v, stringBuffer) = <<stringBuffer>>
    BY <1>2, PartIs, WordIs
  <2> QED BY <1>1, <2>2, <2>3, TextFacts
<1>3. CASE s \in {8, 16} /\ yychar = 4 /\ v \in {13, 22}
  <2>1. s \in {3, 6, 8, 9, 11, 12, 14, 16}
    BY <1>3
  <2>2. Part(s, name) = <<>>
    BY <2>1, PartIs
  <2>3. Word = << <<-4>> >> /\ Part(v, stringBuffer) = << <<-4>> >>
    BY <1>3, PartIs, WordIs
  <2> QED BY <2>2, <2>3, TextFacts
<1>4. ASSUME s \in Valued
      PROVE  /\ Entered \in Texts /\ Assembled \in Texts /\ currentValue \in Nodes
             /\ nodes[currentValue].nodeName \in Seq(Int) /\ nodes[currentValue].valueList \in Texts
  BY <1>4, ValueTexts DEF ValueFine
<1>5. CASE s = 10 /\ yychar = 8 /\ v = 15
  <2>1. s \in Valued
    BY <1>5 DEF Valued
  <2>2. nodes[currentValue].valueList = <<>>
    BY <1>5, <2>1 DEF ValueFine
  <2>3. Entered = <<nodes[currentValue].nodeName>> \o << <<-8>> >>
    BY <2>2, TextFacts DEF Entered
  <2>4. <<nodes[currentValue].nodeName>> \in Texts
    BY <1>4, <2>1, TextFacts
  <2>5. Word = << <<-8>> >> /\ Part(s, name) = <<nodes[currentValue].nodeName>> /\ Part(v, stringBuffer) = Entered
    BY <1>5, PartIs, WordIs
  <2> QED BY <2>3, <2>4, <2>5
<1>6. CASE s \in {15, 21, 26} /\ yychar = 5 /\ v = 17
  <2>1. s \in Valued
    BY <1>6 DEF Valued
  <2>2. Word = <<>> /\ Part(s, name) = Entered /\ Part(v, stringBuffer) = Entered
    BY <1>6, PartIs, WordIs
  <2> QED BY <1>4, <2>1, <2>2, TextFacts
<1>7. CASE s \in {15, 21, 26} /\ yychar \in {11, 12} /\ v \in {18, 19}
  <2>1. s \in Valued
    BY <1>7 DEF Valued
  <2> QED BY <1>4, <1>7, <2>1, PartIs, WordIs
<1>8. CASE s = 20 /\ yychar = 9 /\ v = 23
  <2>1. s \in Valued
    BY <1>8 DEF Valued
  <2> QED BY <1>4, <1>8, <2>1, PartIs, WordIs
<1>9. CASE s = 24 /\ yychar = 6 /\ v = 26
  <2>1. s \in Valued /\ InList(s, u)
    BY <1>9 DEF Valued, InList
  <2>2. Assembled = Entered
    <3>1. Held(currentValue) = nodes[currentValue].valueList
      BY <2>1 DEF ValueFine, Held
    <3> QED BY <3>1 DEF Assembled, Entered
  <2> QED BY <1>4, <1>9, <2>1, <2>2, PartIs, WordIs, TextFacts
<1>10. CASE s = 25 /\ yychar = 7 /\ v = 27
  <2>1. s \in Valued
    BY <1>10 DEF Valued
  <2> QED BY <1>4, <1>10, <2>1, PartIs, WordIs, TextFacts
<1>11. \/ s \in {3, 6, 9, 12} /\ yychar = 10 /\ v = 5
       \/ s \in {8, 16} /\ yychar = 4 /\ v \in {13, 22}
       \/ s = 10 /\ yychar = 8 /\ v = 15
       \/ s \in {15, 21, 26} /\ yychar = 5 /\ v = 17
       \/ s \in {15, 21, 26} /\ yychar \in {11, 12} /\ v \in {18, 19}
       \/ s = 20 /\ yychar = 9 /\ v = 23
       \/ s = 24 /\ yychar = 6 /\ v = 26
       \/ s = 25 /\ yychar = 7 /\ v = 27
  BY SMT DEF Consumes
<1> QED BY <1>2, <1>3, <1>5, <1>6, <1>7, <1>8, <1>9, <1>10, <1>11

\* The value that is read is the same.
LEMMA ValueShifted ==
  ASSUME NEW s, NEW v, NEW t, Consumes(s, t, v), NEW u, NEW D, ValueFine(s, u, D)
  PROVE  ValueFine(v, s, D)
<1>1. v \in Valued => s \in Valued
  BY SMT DEF Consumes, Valued
<1>2. v \in {10, 15} => s = 10
  BY SMT DEF Consumes
<1>3. InList(v, s) => v \in Valued /\ InList(s, u)
  BY SMT DEF Consumes, InList, Valued
<1> QED BY <1>1, <1>2, <1>3 DEF ValueFine

LEMMA BodyShifted ==
  ASSUME StackFine, NodesTyped, ChildrenFine, UNCHANGED <<tree, stringBuffer>>, NEW s, NEW v, v \notin {4, 7},
         Consumes(s, yychar, v), s \notin {0, 2}, yyss'[Len(yyss') - 1] = s,
         NEW x \in Texts, NEW y, y = x \o Word,
         NEW D, NEW O, NEW T, NEW P, NEW name, BodyText(s, x, D, O, T, P, name)
  PROVE  \E w : BodyText(v, y, D, O, T, P, w)'
<1>1. PICK w, b : w = stringBuffer /\ b = Upto(currentSection, T, P)
  OBVIOUS
<1>2. Word \in Texts /\ w \in Seq(Int)
  BY <1>1, WordTyped
<1>3. b \in Texts
  <2>1. PICK c : c = currentSection
    OBVIOUS
  <2>2. Finished(D, T) /\ OpenFine(O, D, T, P, c) /\ c \in O
    BY <2>1 DEF BodyText, OpenFine
  <2> QED BY <1>1, <2>1, <2>2, OpenTexts
<1>4. Finished(D, T)' /\ OpenFine(O, D, T, P, currentSection)' /\ b = Upto(currentSection, T, P)'
  BY <1>1, TreeKept DEF BodyText, tree
<1>5. ValueFine(v, yyss[Len(yyss) - 1], D)'
  <2>1. ValueFine(v, s, D)
    BY ValueShifted DEF BodyText
  <2>2. nodes' = nodes /\ currentValue' = currentValue
    BY DEF tree
  <2> QED BY <2>1, <2>2 DEF ValueFine, Nodes
<1>6. NameFine(v, w)'
  BY <1>1, <1>2 DEF NameFine
<1>7. Part(v, w)' = Part(v, w)
  BY TreeKept DEF Part, tree
<1>8. y = b \o Part(v, w)
  <2>1. CASE s = 7
    <3>1. yychar = 3 /\ v = 12
      BY <2>1, SMT DEF Consumes
    <3>2. x \o << <<-3>> >> = b
      BY <1>1, <2>1 DEF BodyText, Reads
    <3>3. y = b /\ Part(v, w) = <<>>
      BY <3>1, <3>2, WordIs, PartIs
    <3> QED BY <1>3, <3>3, TextFacts
  <2>2. CASE s # 7
    <3>1. x = b \o Part(s, name) /\ ValueFine(s, yyss[Len(yyss) - 1], D)
      BY <1>1, <2>2 DEF BodyText, Reads
    <3>2. Part(s, name) \in Texts /\ Part(s, name) \o Word = Part(v, w)
      BY <1>1, <1>2, <2>2, <3>1, PartShifted
    <3>3. PICK p, q : p = Part(s, name) /\ p \in Texts /\ q = Word /\ q \in Texts
      BY <1>2, <3>2
    <3>4. x = b \o p /\ y = x \o q /\ p \o q = Part(v, w)
      BY <1>1, <3>1, <3>2, <3>3
    <3>5. (b \o p) \o q = b \o (p \o q)
      <4>1. b \in Texts /\ p \in Texts /\ q \in Texts
        BY <1>3, <3>3
      <4>2. Chained(b, p, q)
        BY <4>1, TextsChain
      <4> QED BY <4>2 DEF Chained
    <3> QED BY <3>4, <3>5
  <2> QED BY <2>1, <2>2
<1>9. Reads(v, y, Upto(currentSection, T, P), w)'
  BY <1>4, <1>7, <1>8 DEF Reads
<1>10. BodyText(v, y, D, O, T, P, w)'
  BY <1>4, <1>5, <1>6, <1>9 DEF BodyText
<1> QED BY <1>10

LEMMA TextShift ==
  ASSUME StackFine, NodesTyped, ChildrenFine, TextFine, Shift
  PROVE  TextFine'
<1>1. PICK v \in (1 .. 28) \ {2, 3, 7, 10} : v \in Shifts \ {YYFINAL} /\ Restacked(0, v)
  BY ShiftStep
<1>2. PICK s, t : s = yystate /\ t = yychar
  OBVIOUS
<1>3. PICK L \in Nat : L = Len(yyss) /\ L > 0 /\ s = yyss[L] /\ L - 0 = L /\ L + 1 - 1 = L /\ L \in 1 .. L
  <2>1. PICK L \in Nat : L = Len(yyss) /\ L > 0 /\ s = yyss[L]
    BY <1>2, TopOfStack
  <2>2. L - 0 = L /\ L + 1 - 1 = L /\ L \in 1 .. L
    BY <2>1, SMT
  <2> QED BY <2>1, <2>2
<1>4. /\ pc = "backup" /\ t # YYEMPTY /\ UNCHANGED <<tree, stringBuffer, yy_start, forms, tokens>>
      /\ yychar' = IF t = YYEOF THEN YYEOF ELSE YYEMPTY
  <2>1. v \in Found /\ Looks
    BY <1>1 DEF Shifts, Found
  <2> QED BY <1>2, <2>1 DEF Shift, Ready, history, lexVars
<1>5. Consumes(s, t, v) /\ v # 4
  BY <1>1, <1>2, ShiftConsumes, TokenFacts
<1>6. yystate' = v /\ yyss'[Len(yyss') - 1] = s
  <2>1. Len(yyss') = L + 1 /\ yyss'[L + 1] = v /\ yyss'[L] = yyss[L]
    BY <1>1, <1>3 DEF Restacked
  <2> QED BY <1>3, <2>1 DEF yystate, Last
<1>7. Word' = <<>>
  <2>1. t # 0
    BY <1>5, SMT DEF Consumes
  <2>2. yychar' = YYEMPTY
    BY <1>4, <2>1, TokenFacts
  <2> QED BY <2>2 DEF Word
<1>8. SUFFICES ASSUME forms # {} PROVE \E y \in Texts : Stands(v, y)' /\ tokens' = y \o Word'
  BY <1>4, <1>6 DEF TextFine
<1>9. PICK x \in Texts : Stands(s, x) /\ tokens = x \o Word
  BY <1>2, <1>4, <1>8 DEF TextFine
<1>10. PICK y \in Texts : y = x \o Word
  BY WordTyped, TextFacts
<1>11. CASE s = 0
  <2>1. t = 3 /\ v = 1
    BY <1>5, <1>11, SMT DEF Consumes
  <2>2. y = << <<-3>> >>
    BY <1>2, <1>9, <1>10, <1>11, <2>1, WordIs, TextFacts DEF Stands
  <2>3. Stands(v, y)'
    BY <2>1, <2>2 DEF Stands
  <2> QED BY <1>4, <1>7, <1>9, <1>10, <2>3, TextFacts
<1>12. CASE s # 0
  <2>1. s \notin {0, 1, 2} /\ v \notin {0, 1, 2, 4, 7}
    BY <1>5, <1>12, SMT DEF Consumes
  <2>2. PICK D, O, T, P, name : BodyText(s, x, D, O, T, P, name)
    BY <1>9, <2>1 DEF Stands
  <2>3. \E w : BodyText(v, y, D, O, T, P, w)'
    BY <1>2, <1>4, <1>5, <1>6, <1>10, <2>1, <2>2, BodyShifted
  <2>4. Stands(v, y)'
    BY <2>1, <2>3 DEF Stands
  <2> QED BY <1>4, <1>7, <1>9, <1>10, <2>4, TextFacts
<1> QED BY <1>11, <1>12

-----------------------------------------------------------------------------
(* A rule is reduced: what was read is in the tree. *)

\* The states each rule leads from and to, and the one below.
Leads(rule, s, u, v) ==
  /\ rule = 2 => s = 0 /\ v = 2
  /\ rule = 3 => s = 13 /\ v = 2
  /\ rule = 4 => s = 1 /\ v = 3
  /\ rule = 5 => s = 22 /\ v = 6
  /\ rule = 6 => s = 5 /\ v = 7
  /\ rule \in {7, 8, 9} => s \in {3, 6, 9, 11, 12, 14} /\ v \in {8, 11, 14, 16}
  /\ rule = 10 => s = 23 /\ v = 9
  /\ rule = 11 => s = 5 /\ v = 10
  /\ rule \in {12, 13} => s \in {18, 19}
  /\ rule = 14 => s = 27
  /\ rule \in {12, 13, 14} => v = IF u = 15 THEN 20 ELSE 24
  /\ rule = 15 => s = 17 /\ v = 21
  /\ rule \in {16, 17} => s \in {24, 28} /\ v \in {25, 28}

LEMMA ReduceLeads ==
  ASSUME StackFine, Reduce
  PROVE  \E rule \in 2 .. 17, n \in 0 .. Len(yyss) - 1, v \in 0 .. 28 : \E s, u :
           /\ Acts(rule) /\ Restacked(n, v) /\ Pops(rule, n, Len(yyss)) /\ Pushes(rule, v)
           /\ s = yystate /\ v = yystate' /\ u = yyss[Len(yyss) - n] /\ u = yyss'[Len(yyss') - 1]
           /\ rule \in {12, 13} => u = yyss[Len(yyss) - 1]
           /\ Leads(rule, s, u, v)
<1>1. PICK rule \in 2 .. 17, n \in 0 .. Len(yyss) - 1, v \in 0 .. 28 :
        /\ Acts(rule) /\ Restacked(n, v) /\ Pops(rule, n, Len(yyss)) /\ Pushes(rule, v)
        /\ rule \in Reduces /\ n = yyr2[rule + 1] /\ v = Goto(yyss[Len(yyss) - n], yyr1[rule + 1])
  BY ReduceStep
<1>2. PICK sym, L, u : sym = yyr1[rule + 1] /\ L = Len(yyss) /\ u = yyss[L - n]
  OBVIOUS
<1>3. PICK s0, s1, s2, s3, s4 :
        s0 = yyss[L - 0] /\ s1 = yyss[L - 1] /\ s2 = yyss[L - 2] /\ s3 = yyss[L - 3] /\ s4 = yyss[L - 4]
  OBVIOUS
<1>4. L \in Nat /\ yystate = s0 /\ L - 0 = L
  <2>1. L \in Nat /\ yystate = yyss[L]
    BY <1>2, TopOfStack
  <2>2. L - 0 = L
    BY <2>1, SMT
  <2> QED BY <1>3, <2>1, <2>2
<1>5. n \in 0 .. 4 /\ n < L /\ Rule(rule, sym, n) /\ Reducible(s0, rule) /\ Reduction(rule, s0, s1, s2, s3, s4)
      /\ u = Uncovered(n, s0, s1, s2, s3, s4) /\ Goto(u, sym) = GoesTo(u, sym)
  <2>1. rule \in Reduces /\ n = yyr2[rule + 1]
    BY <1>1
  <2>2. n \in 0 .. 4 /\ n < L
    BY <1>2, <1>3, <2>1, ReducePath
  <2>3. Rule(rule, sym, n)
    BY <1>2, <1>3, <2>1, ReducePath
  <2>4. Reducible(s0, rule)
    BY <1>2, <1>3, <2>1, ReducePath
  <2>5. Reduction(rule, s0, s1, s2, s3, s4)
    BY <1>2, <1>3, <2>1, ReducePath
  <2>6. yyss[L - n] = Uncovered(n, s0, s1, s2, s3, s4)
    <3>1. n \in {0, 1, 2, 3, 4}
      BY <2>2, SMT
    <3> QED BY <1>3, <3>1 DEF Uncovered
  <2>7. Goto(yyss[L - n], sym) = GoesTo(yyss[L - n], sym)
    BY <1>2, <1>3, <2>1, ReducePath
  <2> QED BY <1>2, <2>2, <2>3, <2>4, <2>5, <2>6, <2>7
<1>6. v = GoesTo(u, sym)
  BY <1>1, <1>2, <1>5
<1>7. Leads(rule, s0, u, v)
  <2>1. /\ rule = 2 => s0 = 0 /\ sym = 15
        /\ rule = 3 => s0 = 13 /\ sym = 15
        /\ rule = 4 => s0 = 1 /\ sym = 16
        /\ rule = 5 => s0 = 22 /\ sym = 17
        /\ rule = 6 => s0 = 5 /\ sym = 18
        /\ rule \in {7, 8, 9} => s0 \in {3, 6, 9, 11, 12, 14} /\ sym = 19
        /\ rule = 10 => s0 = 23 /\ sym = 20
        /\ rule = 11 => s0 = 5 /\ sym = 21
        /\ rule \in {12, 13} => s0 \in {18, 19}
        /\ rule = 14 => s0 = 27
        /\ rule \in {12, 13, 14} => sym = 22
        /\ rule = 15 => s0 = 17 /\ sym = 23
        /\ rule \in {16, 17} => s0 \in {24, 28} /\ sym = 24
    BY <1>5, SMT DEF Rule, Reducible
  <2>2. /\ sym = 15 => v = 2
        /\ sym = 16 => v = 3
        /\ sym = 17 => v = 6
        /\ sym = 18 => v = 7
        /\ sym = 19 => v \in {8, 11, 14, 16}
        /\ sym = 20 => v = 9
        /\ sym = 21 => v = 10
        /\ sym = 22 => v = IF u = 15 THEN 20 ELSE 24
        /\ sym = 23 => v = 21
        /\ sym = 24 => v \in {25, 28}
    <3>1. ASSUME sym = 19 PROVE v \in {8, 11, 14, 16}
      <4>1. v = (CASE u = 6 -> 11 [] u = 9 -> 14 [] u = 12 -> 16 [] OTHER -> 8)
        BY <1>6, <3>1, SMT DEF GoesTo
      <4> QED BY <4>1, SMT
    <3>2. ASSUME sym = 15 PROVE v = 2
      BY <1>6, <3>2, SMT DEF GoesTo
    <3>3. ASSUME sym = 16 PROVE v = 3
      BY <1>6, <3>3, SMT DEF GoesTo
    <3>4. ASSUME sym = 17 PROVE v = 6
      BY <1>6, <3>4, SMT DEF GoesTo
    <3>5. ASSUME sym = 18 PROVE v = 7
      BY <1>6, <3>5, SMT DEF GoesTo
    <3>6. ASSUME sym = 20 PROVE v = 9
      BY <1>6, <3>6, SMT DEF GoesTo
    <3>7. ASSUME sym = 21 PROVE v = 10
      BY <1>6, <3>7, SMT DEF GoesTo
    <3>8. ASSUME sym = 22 PROVE v = IF u = 15 THEN 20 ELSE 24
      BY <1>6, <3>8, SMT DEF GoesTo
    <3>9. ASSUME sym = 23 PROVE v = 21
      BY <1>6, <3>9, SMT DEF GoesTo
    <3>10. ASSUME sym = 24 PROVE v \in {25, 28}
      BY <1>6, <3>10, SMT DEF GoesTo
    <3> QED BY <3>1, <3>2, <3>3, <3>4, <3>5, <3>6, <3>7, <3>8, <3>9, <3>10
  <2>3. (rule = 2 => s0 = 0 /\ v = 2) /\ (rule = 3 => s0 = 13 /\ v = 2) /\ (rule = 4 => s0 = 1 /\ v = 3)
        /\ (rule = 5 => s0 = 22 /\ v = 6) /\ (rule = 6 => s0 = 5 /\ v = 7)
    BY <2>1, <2>2
  <2>4. (rule \in {7, 8, 9} => s0 \in {3, 6, 9, 11, 12, 14} /\ v \in {8, 11, 14, 16})
        /\ (rule \in {16, 17} => s0 \in {24, 28} /\ v \in {25, 28})
    BY <2>1, <2>2
  <2>5. (rule = 10 => s0 = 23 /\ v = 9) /\ (rule = 11 => s0 = 5 /\ v = 10) /\ (rule = 15 => s0 = 17 /\ v = 21)
    BY <2>1, <2>2
  <2>6. (rule \in {12, 13} => s0 \in {18, 19}) /\ (rule = 14 => s0 = 27)
        /\ (rule \in {12, 13, 14} => v = IF u = 15 THEN 20 ELSE 24)
    BY <2>1, <2>2
  <2> QED BY <2>3, <2>4, <2>5, <2>6 DEF Leads
<1>8. rule \in {12, 13} => u = yyss[L - 1]
  BY <1>2, <1>5 DEF Rule
<1>9. v = yystate' /\ u = yyss'[Len(yyss') - 1]
  <2>1. PICK k : k = L - n /\ k \in 1 .. k /\ k + 1 - 1 = k
    <3>1. L - n \in 1 .. L - n /\ L - n + 1 - 1 = L - n
      BY <1>4, <1>5, SMT
    <3> QED BY <3>1
  <2>2. Len(yyss') = k + 1 /\ yyss'[k + 1] = v /\ yyss'[k] = yyss[k]
    BY <1>1, <1>2, <2>1 DEF Restacked
  <2> QED BY <1>2, <2>1, <2>2 DEF yystate, Last
<1> QED BY <1>1, <1>2, <1>4, <1>7, <1>8, <1>9

\* The nodes of what is finished and of what is open stay as they are.
LEMMA NodesKept ==
  ASSUME NodesTyped, NEW D, NEW T, Finished(D, T), NEW O, NEW P, NEW c, OpenFine(O, D, T, P, c), UNCHANGED rootSection,
         \A n \in D \cup O : n \in Nodes' /\ nodes'[n] = nodes[n]
  PROVE  Finished(D, T)' /\ OpenFine(O, D, T, P, c)' /\ Upto(c, T, P)' = Upto(c, T, P)
<1>1. Finished(D, T)'
  BY FinishedKept
<1>2. c \in O /\ c \in Nodes /\ ChildrenOf(c) \subseteq D /\ rootSection \in O /\ O \in SUBSET O
  BY DEF OpenFine
<1>3. \A d \in D : T[d] = T[d] /\ nodes'[d].nodeName = nodes[d].nodeName
  OBVIOUS
<1>4. ASSUME NEW n \in O
      PROVE  /\ n \in Nodes' /\ n \notin D /\ n <= c /\ (n # rootSection => nodes[n].backlink \in O)
             /\ nodes'[n].nodeType = nodes[n].nodeType /\ nodes'[n].nodeName = nodes[n].nodeName
             /\ nodes'[n].backlink = nodes[n].backlink
             /\ IF n = c THEN ChildrenOf(n)' \subseteq D ELSE nodes'[n].children = nodes[n].children
  <2>1. nodes'[n] = nodes[n] /\ n \in Nodes'
    OBVIOUS
  <2>2. ChildrenOf(n)' = ChildrenOf(n)
    BY <2>1 DEF ChildrenOf
  <2>3. n \notin D /\ n <= c /\ (n # rootSection => nodes[n].backlink \in O) /\ ChildrenOf(n) \subseteq D
    BY DEF OpenFine
  <2> QED BY <2>1, <2>2, <2>3
<1>5. OpenFine(O, D, T, P, c)'
  BY <1>2, <1>3, <1>4, OpenKept
<1>6. Spoken(c, T)' = Spoken(c, T)
  BY <1>2, <1>3, SpokenKept
<1> QED BY <1>1, <1>5, <1>6 DEF Upto

LEMMA PartNext ==
  ASSUME NEW name
  PROVE  /\ Part(10, name)' = <<nodes'[currentValue'].nodeName>>
         /\ Part(21, name)' = Entered'
         /\ \A s \in {20, 24} : Part(s, name)' = Assembled'
         /\ \A s \in {3, 6, 9} : Part(s, name)' = <<>>
<1>1. Part(10, name)' = <<nodes'[currentValue'].nodeName>> /\ Part(21, name)' = Entered'
  BY SMT DEF Part
<1>2. \A s \in {20, 24} : Part(s, name)' = Assembled'
  BY SMT DEF Part
<1>3. ASSUME NEW s \in {3, 6, 9} PROVE Part(s, name)' = <<>>
  <2>1. s # 5 /\ s \notin {13, 22} /\ s # 10 /\ s \notin {15, 17, 21, 26} /\ s \notin {18, 19}
        /\ s \notin {20, 24, 25, 27, 28} /\ s # 23
    BY SMT
  <2> QED BY <2>1, Zenon DEF Part
<1> QED BY <1>1, <1>2, <1>3

\* The same is read, and it is the part on top that has changed its shape.
LEMMA BodyAgain ==
  ASSUME NodesTyped, NEW s, NEW v, s # 7, v \notin {5, 7}, NEW x, NEW D, NEW O, NEW T, NEW P, NEW name,
         BodyText(s, x, D, O, T, P, name), UNCHANGED <<rootSection, currentSection>>,
         \A n \in D \cup O : n \in Nodes' /\ nodes'[n] = nodes[n],
         ValueFine(v, yyss[Len(yyss) - 1], D)', Part(v, name)' = Part(s, name)
  PROVE  BodyText(v, x, D, O, T, P, name)'
<1>1. PICK c, b : c = currentSection /\ c = currentSection' /\ b = Upto(c, T, P)
  OBVIOUS
<1>2. Finished(D, T) /\ OpenFine(O, D, T, P, c) /\ x = b \o Part(s, name) /\ name \in Seq(Int)
  BY <1>1 DEF BodyText, Reads, NameFine
<1>3. Finished(D, T)' /\ OpenFine(O, D, T, P, c)' /\ b = Upto(c, T, P)'
  BY <1>1, <1>2, NodesKept
<1>4. OpenFine(O, D, T, P, currentSection)' /\ Upto(currentSection, T, P)' = b
  BY <1>1, <1>3
<1>5. Reads(v, x, Upto(currentSection, T, P), name)'
  BY <1>2, <1>4 DEF Reads
<1>6. NameFine(v, name)'
  BY <1>2 DEF NameFine
<1> QED BY <1>3, <1>4, <1>5, <1>6 DEF BodyText

\* Rules that leave the tree alone.
LEMMA SameReduced ==
  ASSUME NodesTyped, UNCHANGED <<tree, stringBuffer>>, NEW rule \in {7, 8, 9, 14, 16, 17}, NEW s, NEW u, NEW v,
         Leads(rule, s, u, v), u = yyss'[Len(yyss') - 1],
         NEW x, NEW D, NEW O, NEW T, NEW P, NEW name, BodyText(s, x, D, O, T, P, name)
  PROVE  BodyText(v, x, D, O, T, P, name)'
<1>1. \/ s \in {3, 6, 9, 11, 12, 14} /\ v \in {8, 11, 14, 16}
      \/ s \in {24, 27, 28} /\ v \in {20, 24, 25, 28}
  <2>1. CASE rule \in {7, 8, 9}
    BY <2>1 DEF Leads
  <2>2. CASE rule = 14
    <3>1. s = 27 /\ v = IF u = 15 THEN 20 ELSE 24
      BY <2>2, SMT DEF Leads
    <3> QED BY <3>1
  <2>3. CASE rule \in {16, 17}
    <3>1. s \in {24, 28} /\ v \in {25, 28}
      BY <2>3 DEF Leads
    <3> QED BY <3>1
  <2> QED BY <2>1, <2>2, <2>3
<1>2. s # 7 /\ v \notin {5, 7}
  BY <1>1, SMT
<1>3. Part(v, name)' = Part(s, name)
  <2>1. Part(v, name)' = Part(v, name)
    BY TreeKept DEF Part, tree
  <2>2. Part(v, name) = Part(s, name)
    <3>1. CASE s \in {3, 6, 9, 11, 12, 14} /\ v \in {8, 11, 14, 16}
      <4>1. s \in {3, 6, 8, 9, 11, 12, 14, 16} /\ v \in {3, 6, 8, 9, 11, 12, 14, 16}
        BY <3>1
      <4> QED BY <4>1, PartIs
    <3>2. CASE s \in {24, 27, 28} /\ v \in {20, 24, 25, 28}
      <4>1. s \in {20, 24, 25, 27, 28} /\ v \in {20, 24, 25, 27, 28}
        BY <3>2
      <4> QED BY <4>1, PartIs
    <3> QED BY <1>1, <3>1, <3>2
  <2> QED BY <2>1, <2>2
<1>4. ValueFine(v, yyss[Len(yyss) - 1], D)'
  <2>1. nodes' = nodes /\ currentValue' = currentValue /\ ValueFine(s, yyss[Len(yyss) - 1], D)
    BY DEF tree, BodyText
  <2>2. v \in Valued => s \in Valued /\ InList(s, yyss[Len(yyss) - 1]) /\ v \notin {10, 15}
    BY <1>1, SMT DEF Valued, InList
  <2> QED BY <2>1, <2>2 DEF ValueFine, Nodes
<1>5. \A n \in D \cup O : n \in Nodes' /\ nodes'[n] = nodes[n]
  <2>1. D \subseteq Nodes /\ O \subseteq Nodes
    BY DEF BodyText, Finished, OpenFine
  <2> QED BY <2>1 DEF tree, Nodes
<1>6. UNCHANGED <<rootSection, currentSection>>
  BY DEF tree
<1> QED BY <1>2, <1>3, <1>4, <1>5, <1>6, BodyAgain

\* A value is named.
LEMMA ValueNamed ==
  ASSUME NodesTyped, ChildrenFine, NameValue, UNCHANGED stringBuffer, NEW x, NEW D, NEW O, NEW T, NEW P, NEW name,
         BodyText(5, x, D, O, T, P, name), name = stringBuffer
  PROVE  BodyText(10, x, D, O, T, P, name)'
<1>1. PICK r : r = Node("VALUE", 0)
  OBVIOUS
<1>2. r \in NodeRecords /\ r.children = <<>> /\ r.backlink = 0
  BY <1>1, NodeFacts
<1>3. r.nodeType = "VALUE" /\ r.valueList = <<>> /\ r.nodeName = name
  BY <1>1 DEF Node
<1>4. nodes' = Append(nodes, r) /\ currentValue' = New /\ UNCHANGED <<rootSection, currentSection>>
  BY <1>1 DEF NameValue
<1>5. /\ New \in Nodes' /\ nodes'[New] = r
      /\ \A m \in Nodes : m < New /\ m \in Nodes' /\ nodes'[m] = nodes[m]
  BY <1>2, <1>4, NodeMade DEF Grows
<1>6. D \subseteq Nodes /\ O \subseteq Nodes
  BY DEF BodyText, Finished, OpenFine
<1>7. New \notin Nodes
  <2>1. \A m \in Nodes : m \in Nat /\ m < New
    BY <1>5, NodeNumbers
  <2>2. New \in Nat => ~(New < New)
    BY SMT
  <2> QED BY <2>1, <2>2
<1>8. Part(10, name)' = Part(5, name)
  <2>1. Part(10, name)' = <<nodes'[currentValue'].nodeName>>
    BY PartNext
  <2>2. nodes'[currentValue'].nodeName = name
    BY <1>3, <1>4, <1>5
  <2>3. Part(5, name) = <<name>>
    BY PartIs
  <2> QED BY <2>1, <2>2, <2>3
<1>9. ValueFine(10, yyss[Len(yyss) - 1], D)'
  <2>1. ~InList(10, yyss'[Len(yyss') - 1])
    BY SMT DEF InList
  <2>2. r.nodeType # "SECTION"
    BY <1>3
  <2> QED BY <1>2, <1>3, <1>4, <1>5, <1>6, <1>7, <2>1, <2>2 DEF ValueFine, Nodes
<1>10. \A n \in D \cup O : n \in Nodes' /\ nodes'[n] = nodes[n]
  BY <1>5, <1>6
<1>11. 5 # 7 /\ 10 \notin {5, 7}
  OBVIOUS
<1> QED BY <1>4, <1>8, <1>9, <1>10, <1>11, BodyAgain

\* What a rule does to the value that is read does not touch what is finished or open.
LEMMA ValueChanged ==
  ASSUME NodesTyped, NEW r, nodes' = [nodes EXCEPT ![currentValue] = r], UNCHANGED <<rootSection, currentSection, currentValue>>,
         NEW s \in Valued, NEW x, NEW D, NEW O, NEW T, NEW P, NEW name, BodyText(s, x, D, O, T, P, name),
         NEW v, s # 7, v \notin {5, 7, 10, 15}, r.nodeType # "SECTION", r.children = <<>>,
         r.nodeType = "VALUE" => r.valueList = <<>>, InList(v, yyss'[Len(yyss') - 1]) => r.nodeType = "LIST",
         Part(v, name)' = Part(s, name)
  PROVE  BodyText(v, x, D, O, T, P, name)'
<1>1. PICK c : c = currentValue
  OBVIOUS
<1>2. c \in Nodes /\ c \notin D /\ nodes[c].nodeType # "SECTION"
  BY <1>1 DEF BodyText, ValueFine
<1>3. c \notin O
  BY <1>2 DEF BodyText, OpenFine
<1>4. /\ nodes'[c] = r /\ Nodes' = Nodes /\ \A m \in Nodes : m # c => nodes'[m] = nodes[m]
  BY <1>1, <1>2 DEF Nodes
<1>5. D \subseteq Nodes /\ O \subseteq Nodes
  BY DEF BodyText, Finished, OpenFine
<1>6. \A n \in D \cup O : n \in Nodes' /\ nodes'[n] = nodes[n]
  BY <1>2, <1>3, <1>4, <1>5
<1>7. ValueFine(v, yyss[Len(yyss) - 1], D)'
  <2>1. currentValue' = c /\ c \in Nodes' /\ c \notin D /\ nodes'[c] = r
    BY <1>1, <1>2, <1>4
  <2> QED BY <2>1 DEF ValueFine, Nodes
<1> QED BY <1>6, <1>7, BodyAgain

\* It is given a value, or one more.
LEMMA ValueGiven ==
  ASSUME StackFine, NodesTyped, ChildrenFine, SetValue, UNCHANGED stringBuffer, NEW s \in {18, 19}, NEW v, NEW u,
         v = IF u = 15 THEN 20 ELSE 24, u = yyss[Len(yyss) - 1], u = yyss'[Len(yyss') - 1],
         NEW x, NEW D, NEW O, NEW T, NEW P, NEW name, BodyText(s, x, D, O, T, P, name)
  PROVE  BodyText(v, x, D, O, T, P, name)'
<1>1. s \in Valued /\ s # 7 /\ v \notin {5, 7, 10, 15} /\ v \in {20, 24}
  BY SMT DEF Valued
<1>2. PICK c, q, w : c = currentValue /\ q = nodes[c] /\ w = stringBuffer
  OBVIOUS
<1>3. /\ c \in Nodes /\ q.nodeType # "SECTION" /\ q.children = <<>>
      /\ q.nodeType = "VALUE" => q.valueList = <<>>
      /\ InList(s, u) => q.nodeType = "LIST"
  BY <1>1, <1>2 DEF BodyText, ValueFine
<1>4. q \in NodeRecords /\ w \in Seq(Nat) /\ w \in Seq(Int) /\ q.valueList \in Texts /\ q.nodeName \in Seq(Int)
  <2>1. q \in NodeRecords
    BY <1>2, <1>3, NodeNumbers
  <2>2. w \in Seq(Nat) /\ w \in Seq(Int)
    BY <1>2, WordTyped DEF NodesTyped
  <2>3. q.valueList \in Texts /\ q.nodeName \in Seq(Int)
    BY <1>2, <1>3, ValueTexts
  <2> QED BY <2>1, <2>2, <2>3
<1>5. PICK l \in Seq(Seq(Nat)) : l = Append(q.valueList, w) /\ l = q.valueList \o <<w>>
  <2>1. Append(q.valueList, w) \in Seq(Seq(Nat))
    <3>1. q.valueList \in Seq(Seq(Nat))
      BY <1>4 DEF NodeRecords
    <3> QED BY <1>4, <3>1, AppendProperties
  <2>2. Append(q.valueList, w) = q.valueList \o <<w>>
    BY <1>4, AppendIsConcat DEF Texts
  <2> QED BY <2>1, <2>2
<1>6. PICK r : /\ nodes' = [nodes EXCEPT ![c] = r]
               /\ \/ q.nodeType = "VALUE" /\ r = [q EXCEPT !.value = w]
                  \/ q.nodeType = "LIST" /\ r = [q EXCEPT !.valueList = l]
  <2>1. q.nodeType \in {"VALUE", "LIST"}
    BY <1>3, <1>4 DEF NodeRecords
  <2> QED BY <1>2, <1>5, <2>1 DEF SetValue
<1>7. /\ r.nodeType = q.nodeType /\ r.children = <<>> /\ r.nodeName = q.nodeName
      /\ q.nodeType = "VALUE" => r.value = w /\ r.valueList = <<>>
      /\ q.nodeType = "LIST" => r.valueList = l
  <2>1. CASE q.nodeType = "VALUE"
    <3>1. r = [q EXCEPT !.value = w]
      BY <1>6, <2>1
    <3> QED BY <1>3, <1>4, <2>1, <3>1 DEF NodeRecords
  <2>2. CASE q.nodeType = "LIST"
    <3>1. r = [q EXCEPT !.valueList = l]
      BY <1>6, <2>2
    <3> QED BY <1>3, <1>4, <2>2, <3>1 DEF NodeRecords
  <2> QED BY <1>6, <2>1, <2>2
<1>8. UNCHANGED <<rootSection, currentSection, currentValue>>
  BY DEF SetValue
<1>9. nodes'[currentValue'] = r
  BY <1>2, <1>3, <1>6, <1>8 DEF Nodes
<1>10. PICK n \in Texts, e \in Texts : n = <<q.nodeName>> /\ e = << <<-8>> >>
  <2>1. <<q.nodeName>> \in Texts /\ << <<-8>> >> \in Texts
    BY <1>4, TextFacts
  <2> QED BY <2>1
<1>11. Part(v, name)' = n \o (e \o Held(currentValue)')
  <2>1. Part(v, name)' = Assembled'
    BY <1>1, PartNext
  <2>2. Assembled' = <<nodes'[currentValue'].nodeName>> \o (<< <<-8>> >> \o Held(currentValue)')
    BY DEF Assembled
  <2> QED BY <1>7, <1>9, <1>10, <2>1, <2>2
<1>12. Part(s, name) = (n \o (e \o q.valueList)) \o <<w>>
  <2>1. Part(s, name) = Entered \o <<stringBuffer>>
    BY PartIs
  <2> QED BY <1>2, <1>10, <2>1 DEF Entered
<1>13. Held(currentValue)' = q.valueList \o <<w>>
  <2>1. Held(currentValue)' = IF r.nodeType = "LIST" THEN r.valueList ELSE <<r.value>>
    BY <1>9 DEF Held
  <2>2. CASE q.nodeType = "VALUE"
    <3>1. Held(currentValue)' = <<w>> /\ q.valueList = <<>>
      BY <1>3, <1>7, <2>1, <2>2
    <3>2. <<>> \o <<w>> = <<w>>
      BY <1>4, TextFacts
    <3> QED BY <3>1, <3>2
  <2>3. CASE q.nodeType = "LIST"
    BY <1>5, <1>7, <2>1, <2>3
  <2> QED BY <1>6, <2>2, <2>3
<1>14. Part(v, name)' = Part(s, name)
  <2>1. PICK a \in Texts, b \in Texts : a = q.valueList /\ b = <<w>>
    BY <1>4, TextFacts
  <2>2. n \o (e \o (a \o b)) = (n \o (e \o a)) \o b
    <3>1. e \o a \in Texts
      BY TextFacts
    <3>2. (e \o a) \o b = e \o (a \o b)
      <4>1. Chained(e, a, b)
        BY TextsChain
      <4> QED BY <4>1 DEF Chained
    <3>3. (n \o (e \o a)) \o b = n \o ((e \o a) \o b)
      <4>1. Chained(n, e \o a, b)
        BY <3>1, TextsChain
      <4> QED BY <4>1 DEF Chained
    <3> QED BY <3>2, <3>3
  <2> QED BY <1>11, <1>12, <1>13, <2>1, <2>2
<1>15. /\ r.nodeType # "SECTION" /\ (r.nodeType = "VALUE" => r.valueList = <<>>)
       /\ (InList(v, yyss'[Len(yyss') - 1]) => r.nodeType = "LIST")
  <2>1. InList(v, u) => u # 15
    BY <1>1, SMT DEF InList
  <2>2. u # 15 => InList(s, u)
    BY DEF InList
  <2> QED BY <1>3, <1>7, <2>1, <2>2
<1>16. nodes' = [nodes EXCEPT ![currentValue] = r]
  BY <1>2, <1>6
<1> QED BY <1>1, <1>7, <1>8, <1>14, <1>15, <1>16, ValueChanged

\* It is to hold a list.
LEMMA ListOpened ==
  ASSUME NodesTyped, ChildrenFine, OpenList, UNCHANGED stringBuffer,
         NEW x, NEW D, NEW O, NEW T, NEW P, NEW name, BodyText(17, x, D, O, T, P, name)
  PROVE  BodyText(21, x, D, O, T, P, name)'
<1>1. 17 \in Valued /\ 17 # 7 /\ 21 \notin {5, 7, 10, 15}
  BY SMT DEF Valued
<1>2. PICK c, q : c = currentValue /\ q = nodes[c]
  OBVIOUS
<1>3. c \in Nodes /\ q.children = <<>>
  BY <1>1, <1>2 DEF BodyText, ValueFine
<1>4. PICK r : r = [q EXCEPT !.nodeType = "LIST"]
  OBVIOUS
<1>5. r.nodeType = "LIST" /\ r.children = q.children /\ r.nodeName = q.nodeName /\ r.valueList = q.valueList
  <2>1. q \in NodeRecords
    BY <1>2, <1>3, NodeNumbers
  <2> QED BY <1>4, <2>1 DEF NodeRecords
<1>6. nodes' = [nodes EXCEPT ![c] = r] /\ UNCHANGED <<rootSection, currentSection, currentValue>>
  BY <1>2, <1>4 DEF OpenList
<1>7. nodes'[currentValue'] = r
  BY <1>2, <1>3, <1>6 DEF Nodes
<1>8. Part(21, name)' = Part(17, name)
  <2>1. Part(21, name)' = Entered' /\ Part(17, name) = Entered
    BY PartNext, PartIs
  <2>2. Entered' = <<r.nodeName>> \o (<< <<-8>> >> \o r.valueList)
    BY <1>7 DEF Entered
  <2>3. Entered = <<q.nodeName>> \o (<< <<-8>> >> \o q.valueList)
    BY <1>2 DEF Entered
  <2> QED BY <1>5, <2>1, <2>2, <2>3
<1>9. "LIST" # "SECTION" /\ "LIST" # "VALUE"
  OBVIOUS
<1> QED BY <1>1, <1>2, <1>3, <1>5, <1>6, <1>8, <1>9, ValueChanged

\* A child that is finished is taken by the innermost section of those that stay open.
Taken(D, T, O, P, c, O2, e, d) ==
  /\ Finished(D, T) /\ OpenFine(O, D, T, P, c)
  /\ O2 \in SUBSET O /\ e \in O2 /\ rootSection \in O2
  /\ \A n \in O2 : n <= e /\ (n # rootSection => nodes[n].backlink \in O2)
  /\ d \in Nodes /\ d \notin D /\ d \notin O2 /\ ChildrenOf(d) \subseteq D

LEMMA ChildTaken ==
  ASSUME NodesTyped, NEW D, NEW T, NEW O, NEW P, NEW c, NEW O2, NEW e, NEW d, Taken(D, T, O, P, c, O2, e, d),
         UNCHANGED rootSection, nodes' = Adopt(e, d)
  PROVE  \E E, U : /\ Finished(E, U)' /\ OpenFine(O2, E, U, P, e)'
                   /\ Upto(e, U, P)' = Upto(e, T, P) \o (<<nodes[d].nodeName>> \o Whole(d, T))
<1> USE DEF Taken
<1>1. PICK N, M : N = nodes /\ M = nodes'
  OBVIOUS
<1>2. O \subseteq Nodes /\ D \subseteq Nodes /\ e \in O /\ e \in Nodes /\ d # e /\ T \in [Nat -> Texts] /\ P \in [Nat -> Texts]
  BY DEF OpenFine, Finished
<1>3. N[e] \in NodeRecords /\ N[e].children \in Seq(Nat) /\ d \in Nat
  BY <1>1, <1>2, NodeNumbers DEF NodeRecords
<1>4. PICK q : q = [N[e] EXCEPT !.children = Append(N[e].children, d)]
  OBVIOUS
<1>5. M = [N EXCEPT ![e] = q]
  BY <1>1, <1>4 DEF Adopt
<1>6. /\ M[e] = q /\ Nodes' = Nodes /\ \A n \in Nodes : n # e => M[n] = N[n]
  BY <1>1, <1>2, <1>5 DEF Nodes
<1>7. q.children = Append(N[e].children, d) /\ q.nodeType = N[e].nodeType /\ q.nodeName = N[e].nodeName
      /\ q.backlink = N[e].backlink
  BY <1>3, <1>4 DEF NodeRecords
<1>8. PICK U : U = [T EXCEPT ![d] = Whole(d, T)]
  OBVIOUS
<1>9. PICK E : E = D \cup {d}
  OBVIOUS
<1>10. e \notin D /\ ChildrenOf(e) \subseteq D
  BY <1>2 DEF OpenFine
<1>11. \A n \in E : n \in Nodes' /\ nodes'[n] = nodes[n] /\ n # e
  BY <1>1, <1>2, <1>6, <1>9, <1>10
<1>12. Whole(d, T) \in Texts
  BY <1>2, NodeTexts
<1>13. Finished(E, U)' /\ U[d] = Whole(d, T) /\ \A n \in D : U[n] = T[n]
  <2>1. \A n \in D \cup {d} : n \in Nodes' /\ nodes'[n] = nodes[n]
    BY <1>9, <1>11
  <2>2. Finished(D \cup {d}, U)'
    BY <1>8, <1>12, <2>1, FinishedMore
  <2>3. U[d] = Whole(d, T) /\ \A n \in D : U[n] = T[n]
    <3>1. d \in Nat /\ \A n \in D : n \in Nat /\ n # d
      BY <1>2, <1>3, NodeNumbers
    <3> QED BY <1>2, <1>8, <3>1
  <2> QED BY <1>9, <2>2, <2>3
<1>14. U \in [Nat -> Texts]
  BY <1>2, <1>3, <1>8, <1>12
<1>15. Range(q.children) \subseteq Range(N[e].children) \cup {d}
  <2>1. Pushed(N[e].children, q.children, d)
    BY <1>3, <1>7, PushFacts
  <2> QED BY <2>1 DEF Pushed, Range
<1>16. ASSUME NEW n \in O2
       PROVE  /\ n \in Nodes' /\ n \notin E /\ n <= e /\ (n # rootSection => nodes[n].backlink \in O2)
              /\ nodes'[n].nodeType = nodes[n].nodeType /\ nodes'[n].nodeName = nodes[n].nodeName
              /\ nodes'[n].backlink = nodes[n].backlink
              /\ IF n = e THEN ChildrenOf(n)' \subseteq E ELSE nodes'[n].children = nodes[n].children
  <2>1. n \in O /\ n \in Nodes /\ n \notin D /\ n # d
    BY <1>2 DEF OpenFine
  <2>2. n <= e /\ (n # rootSection => nodes[n].backlink \in O2)
    OBVIOUS
  <2>3. CASE n = e
    <3>1. ChildrenOf(n)' \subseteq E
      BY <1>1, <1>6, <1>9, <1>10, <1>15, <2>3 DEF ChildrenOf
    <3> QED BY <1>1, <1>6, <1>7, <1>9, <2>1, <2>2, <2>3, <3>1
  <2>4. CASE n # e
    BY <1>1, <1>6, <1>9, <2>1, <2>2, <2>4
  <2> QED BY <2>3, <2>4
<1>17. OpenFine(O2, E, U, P, e)'
  <2>1. D \subseteq E /\ \A n \in D : U[n] = T[n] /\ nodes'[n].nodeName = nodes[n].nodeName
    BY <1>9, <1>11, <1>13
  <2> QED BY <1>16, <2>1, OpenKept
<1>18. SpokenIn(M, e, U) = SpokenIn(N, e, T) \o (<<M[d].nodeName>> \o U[d])
  <2>1. \A n \in Range(N[e].children) : N[n].nodeName \in Seq(Nat) /\ M[n].nodeName = N[n].nodeName /\ U[n] = T[n]
    <3>1. ASSUME NEW n \in Range(N[e].children) PROVE n \in D /\ n \in Nodes /\ n # e
      BY <1>1, <1>2, <1>10 DEF ChildrenOf
    <3>2. \A n \in Nodes : N[n].nodeName \in Seq(Nat)
      BY <1>1, NodeNumbers DEF NodeRecords
    <3> QED BY <1>6, <1>13, <3>1, <3>2
  <2>2. M[d].nodeName \in Seq(Nat)
    BY <1>1, <1>2, <1>6, NodeNumbers DEF NodeRecords
  <2>3. M[e].children = Append(N[e].children, d)
    BY <1>6, <1>7
  <2>4. OneMore(N, M, e, T, U, d)
    BY <1>2, <1>3, <1>14, <2>1, <2>2, <2>3 DEF OneMore
  <2> QED BY <2>4, SpokenMore
<1>19. PICK a \in Texts, p \in Texts, z \in Texts :
         /\ p = P[e] /\ a = SpokenIn(N, e, T) /\ z = <<N[d].nodeName>> \o Whole(d, T)
  <2>1. P[e] \in Texts /\ SpokenIn(N, e, T) \in Texts
    BY <1>1, <1>2, OpenTexts DEF Spoken
  <2>2. <<N[d].nodeName>> \o Whole(d, T) \in Texts
    <3>1. N[d].nodeName \in Seq(Int)
      BY <1>1, <1>2, NodeTexts
    <3> QED BY <1>12, <3>1, TextFacts
  <2> QED BY <2>1, <2>2
<1>20. (p \o a) \o z = p \o (a \o z)
  <2>1. Chained(p, a, z)
    BY TextsChain
  <2> QED BY <2>1 DEF Chained
<1>21. Upto(e, U, P)' = p \o (a \o z)
  BY <1>1, <1>2, <1>6, <1>13, <1>18, <1>19 DEF Upto, Spoken
<1>22. Upto(e, T, P) \o (<<nodes[d].nodeName>> \o Whole(d, T)) = (p \o a) \o z
  BY <1>1, <1>19 DEF Upto, Spoken
<1> QED BY <1>13, <1>17, <1>20, <1>21, <1>22

LEMMA ValueAssigned ==
  ASSUME StackFine, NodesTyped, ChildrenFine, Assign,
         NEW x, NEW D, NEW O, NEW T, NEW P, NEW name, BodyText(23, x, D, O, T, P, name)
  PROVE  \E E, U : BodyText(9, x, E, O, U, P, name)'
<1>1. PICK c, d : c = currentSection /\ c = currentSection' /\ d = currentValue
  BY DEF Assign
<1>2. Finished(D, T) /\ OpenFine(O, D, T, P, c) /\ name \in Seq(Int) /\ x = Upto(c, T, P) \o Part(23, name)
  BY <1>1 DEF BodyText, NameFine, Reads
<1>3. d \in Nodes /\ d \notin D /\ nodes[d].nodeType # "SECTION" /\ nodes[d].children = <<>>
  BY <1>1, SMT DEF BodyText, ValueFine, Valued
<1>4. ChildrenOf(d) \subseteq D
  BY <1>3 DEF ChildrenOf, Range
<1>5. /\ O \in SUBSET O /\ c \in O /\ rootSection \in O /\ d \notin O
      /\ \A n \in O : n <= c /\ (n # rootSection => nodes[n].backlink \in O)
  BY <1>2, <1>3 DEF OpenFine
<1>6. nodes' = Adopt(c, d) /\ UNCHANGED rootSection
  BY <1>1 DEF Assign
<1>7. PICK E, U : /\ Finished(E, U)' /\ OpenFine(O, E, U, P, c)'
                  /\ Upto(c, U, P)' = Upto(c, T, P) \o (<<nodes[d].nodeName>> \o Whole(d, T))
  <2>1. Taken(D, T, O, P, c, O, c, d)
    BY <1>2, <1>3, <1>4, <1>5 DEF Taken
  <2> QED BY <1>6, <2>1, ChildTaken
<1>8. PICK b \in Texts : b = Upto(c, T, P)
  BY <1>2, <1>5, OpenTexts
<1>9. PICK m \in Texts, k \in Texts, e \in Texts :
        m = <<nodes[d].nodeName>> /\ k = << <<-8>> >> \o Held(d) /\ e = << <<-9>> >>
  <2>1. nodes[d].nodeName \in Seq(Int) /\ Held(d) \in Texts
    BY <1>1, <1>3, ValueTexts
  <2> QED BY <2>1, TextFacts
<1>10. x = b \o ((m \o k) \o e)
  <2>1. Part(23, name) = Assembled \o << <<-9>> >>
    BY PartIs
  <2>2. Assembled = m \o k
    BY <1>1, <1>9 DEF Assembled
  <2> QED BY <1>2, <1>8, <1>9, <2>1, <2>2
<1>11. Whole(d, T) = k \o e
  BY <1>3, <1>9 DEF Whole
<1>12. (m \o k) \o e = m \o (k \o e)
  <2>1. Chained(m, k, e)
    BY TextsChain
  <2> QED BY <2>1 DEF Chained
<1>13. x = Upto(c, U, P)'
  BY <1>7, <1>8, <1>9, <1>10, <1>11, <1>12
<1>14. x \in Texts
  <2>1. m \o k \in Texts
    BY TextFacts
  <2>2. (m \o k) \o e \in Texts
    BY <2>1, TextFacts
  <2> QED BY <1>10, <2>2, TextFacts
<1>15. Reads(9, x, Upto(currentSection, U, P), name)'
  <2>1. Part(9, name)' = <<>> /\ x \o <<>> = x /\ 9 # 7
    BY <1>14, PartNext, TextFacts
  <2>2. Upto(currentSection, U, P)' = x
    BY <1>1, <1>13
  <2> QED BY <2>1, <2>2 DEF Reads
<1>16. ValueFine(9, yyss[Len(yyss) - 1], E)' /\ NameFine(9, name)'
  BY <1>2, SMT DEF ValueFine, NameFine, Valued
<1>17. OpenFine(O, E, U, P, currentSection)'
  BY <1>1, <1>7
<1> QED BY <1>7, <1>15, <1>16, <1>17 DEF BodyText

Nested(b, m, e, k, f) == ((b \o (m \o e)) \o k) \o f = b \o (m \o ((e \o k) \o f))

LEMMA TextsNest ==
  \A b, m, e, k, f \in Texts : Nested(b, m, e, k, f)
<1> SUFFICES ASSUME NEW b \in Texts, NEW m \in Texts, NEW e \in Texts, NEW k \in Texts, NEW f \in Texts
             PROVE  Nested(b, m, e, k, f)
  OBVIOUS
<1>1. PICK y \in Texts, z \in Texts : y = m \o e /\ z = e \o k
  BY TextFacts
<1>2. (b \o y) \o k = b \o (y \o k)
  <2>1. Chained(b, y, k)
    BY TextsChain
  <2> QED BY <2>1 DEF Chained
<1>3. y \o k = m \o z
  <2>1. (m \o e) \o k = m \o (e \o k)
    <3>1. Chained(m, e, k)
      BY TextsChain
    <3> QED BY <3>1 DEF Chained
  <2> QED BY <1>1, <2>1
<1>4. PICK w \in Texts : w = m \o z
  BY TextFacts
<1>5. (b \o w) \o f = b \o (w \o f)
  <2>1. Chained(b, w, f)
    BY TextsChain
  <2> QED BY <2>1 DEF Chained
<1>6. w \o f = m \o (z \o f)
  <2>1. (m \o z) \o f = m \o (z \o f)
    <3>1. Chained(m, z, f)
      BY TextsChain
    <3> QED BY <3>1 DEF Chained
  <2> QED BY <1>4, <2>1
<1> QED BY <1>1, <1>2, <1>3, <1>4, <1>5, <1>6 DEF Nested

LEMMA SectionClosed ==
  ASSUME StackFine, NodesTyped, ChildrenFine, CloseSection, IsRoot(rootSection),
         nodes[currentSection].backlink < currentSection, rootSection <= nodes[currentSection].backlink,
         NEW x, NEW D, NEW O, NEW T, NEW P, NEW name, BodyText(22, x, D, O, T, P, name)
  PROVE  \E E, O2, U : BodyText(6, x, E, O2, U, P, name)'
<1>1. PICK c, under : c = currentSection /\ under = nodes[c].backlink /\ under = currentSection'
  BY DEF CloseSection
<1>2. Finished(D, T) /\ OpenFine(O, D, T, P, c) /\ name \in Seq(Int) /\ x = Upto(c, T, P) \o Part(22, name)
  BY <1>1 DEF BodyText, NameFine, Reads
<1>3. c \in O /\ c \in Nodes /\ c \in Nat /\ under < c /\ rootSection <= under /\ rootSection \in O /\ rootSection \in Nat
  BY <1>1, <1>2, NodeNumbers DEF OpenFine
<1>4. c # rootSection
  <2> SUFFICES ASSUME c = rootSection PROVE FALSE
    OBVIOUS
  <2>1. under = c
    BY <1>1 DEF IsRoot
  <2> QED BY <1>3, <2>1, SMT
<1>5. /\ under \in O /\ c \notin D /\ ChildrenOf(c) \subseteq D /\ nodes[c].nodeType = "SECTION"
      /\ P[c] = Upto(under, T, P) \o (<<nodes[c].nodeName>> \o << <<-3>> >>)
  BY <1>1, <1>2, <1>3, <1>4 DEF OpenFine
<1>6. PICK O2 \in SUBSET O : O2 = {n \in O : n <= under}
  OBVIOUS
<1>7. /\ under \in O2 /\ rootSection \in O2 /\ c \notin O2
      /\ \A n \in O2 : n <= under /\ (n # rootSection => nodes[n].backlink \in O2)
  <2>1. \A n \in O : n \in Nat
    BY <1>2, NodeNumbers DEF OpenFine
  <2>2. under \in Nat /\ under <= under /\ ~(c <= under)
    <3>1. under \in Nat /\ c \in Nat /\ under < c
      BY <1>3, <1>5, <2>1
    <3> QED BY <3>1, SMT
  <2>3. ASSUME NEW n \in O2, n # rootSection PROVE nodes[n].backlink \in O2
    <3>1. n \in O /\ n <= under /\ nodes[n].backlink \in O /\ nodes[n].backlink < n
      BY <1>2, <1>6, <2>3 DEF OpenFine
    <3>2. PICK m \in O : m = nodes[n].backlink /\ m < n
      BY <3>1
    <3>3. m <= under
      <4>1. m \in Nat /\ n \in Nat /\ under \in Nat /\ m < n /\ n <= under
        BY <2>1, <2>2, <3>1, <3>2
      <4> QED BY <4>1, SMT
    <3> QED BY <1>6, <3>2, <3>3
  <2> QED BY <1>3, <1>5, <1>6, <2>2, <2>3
<1>8. nodes' = Adopt(under, c) /\ UNCHANGED rootSection
  BY <1>1 DEF CloseSection
<1>9. PICK E, U : /\ Finished(E, U)' /\ OpenFine(O2, E, U, P, under)'
                  /\ Upto(under, U, P)' = Upto(under, T, P) \o (<<nodes[c].nodeName>> \o Whole(c, T))
  <2>1. Taken(D, T, O, P, c, O2, under, c)
    BY <1>2, <1>3, <1>5, <1>7 DEF Taken
  <2> QED BY <1>8, <2>1, ChildTaken
<1>10. PICK b \in Texts, k \in Texts : b = Upto(under, T, P) /\ k = Spoken(c, T)
  <2>1. Upto(under, T, P) \in Texts
    BY <1>2, <1>5, OpenTexts
  <2>2. Spoken(c, T) \in Texts
    BY <1>2, <1>3, OpenTexts
  <2> QED BY <2>1, <2>2
<1>11. PICK m \in Texts, e \in Texts, f \in Texts :
         m = <<nodes[c].nodeName>> /\ e = << <<-3>> >> /\ f = << <<-4>> >>
  <2>1. nodes[c].nodeName \in Seq(Int)
    BY <1>2, <1>3, OpenTexts
  <2> QED BY <2>1, TextFacts
<1>12. x = ((b \o (m \o e)) \o k) \o f
  <2>1. Part(22, name) = << <<-4>> >>
    BY PartIs
  <2>2. Upto(c, T, P) = (b \o (m \o e)) \o k
    BY <1>5, <1>10, <1>11 DEF Upto
  <2> QED BY <1>2, <1>11, <2>1, <2>2
<1>13. Upto(under, U, P)' = b \o (m \o ((e \o k) \o f))
  <2>1. Whole(c, T) = (e \o k) \o f
    BY <1>5, <1>10, <1>11 DEF Whole
  <2> QED BY <1>9, <1>10, <1>11, <2>1
<1>14. x = Upto(under, U, P)'
  <2>1. Nested(b, m, e, k, f)
    BY TextsNest
  <2> QED BY <1>12, <1>13, <2>1 DEF Nested
<1>15. x \in Texts
  <2>1. m \o e \in Texts
    BY TextFacts
  <2>2. b \o (m \o e) \in Texts
    BY <2>1, TextFacts
  <2>3. (b \o (m \o e)) \o k \in Texts
    BY <2>2, TextFacts
  <2> QED BY <1>12, <2>3, TextFacts
<1>16. Reads(6, x, Upto(currentSection, U, P), name)'
  <2>1. Part(6, name)' = <<>> /\ x \o <<>> = x /\ 6 # 7
    BY <1>15, PartNext, TextFacts
  <2>2. Upto(currentSection, U, P)' = x
    BY <1>1, <1>14
  <2> QED BY <2>1, <2>2 DEF Reads
<1>17. ValueFine(6, yyss[Len(yyss) - 1], E)' /\ NameFine(6, name)'
  BY <1>2, SMT DEF ValueFine, NameFine, Valued
<1>18. OpenFine(O2, E, U, P, currentSection)'
  BY <1>1, <1>9
<1>19. BodyText(6, x, E, O2, U, P, name)'
  BY <1>9, <1>16, <1>17, <1>18 DEF BodyText
<1> QED BY <1>19

\* A section is named and opened.
LEMMA SectionNamed ==
  ASSUME NodesTyped, ChildrenFine, NameSection, NEW x, NEW D, NEW O, NEW T, NEW P, NEW name,
         BodyText(5, x, D, O, T, P, name), name = stringBuffer
  PROVE  \E O2, P2 : BodyText(7, x, D, O2, T, P2, name)'
<1>1. PICK c, k, r : c = currentSection /\ k = New /\ k = currentSection' /\ r = Node("SECTION", c)
  BY DEF NameSection
<1>2. Finished(D, T) /\ OpenFine(O, D, T, P, c) /\ name \in Seq(Int) /\ x = Upto(c, T, P) \o <<name>>
  <2>1. Part(5, name) = <<name>> /\ 5 # 7
    BY PartIs
  <2> QED BY <1>1, <2>1 DEF BodyText, NameFine, Reads
<1>3. /\ c \in O /\ c \in Nodes /\ c \in Nat /\ O \subseteq Nodes /\ D \subseteq Nodes /\ rootSection \in O
      /\ T \in [Nat -> Texts] /\ P \in [Nat -> Texts]
  BY <1>2, NodeNumbers DEF OpenFine, Finished
<1>4. r \in NodeRecords /\ r.children = <<>> /\ r.backlink = c /\ r.nodeType = "SECTION" /\ r.nodeName = name
  <2>1. r \in NodeRecords /\ r.children = <<>> /\ r.backlink = c
    BY <1>1, <1>3, NodeFacts
  <2> QED BY <1>1, <2>1 DEF Node
<1>5. nodes' = Append(nodes, r) /\ currentSection' = k /\ UNCHANGED rootSection
  BY <1>1 DEF NameSection
<1>6. /\ k \in Nat /\ k \in Nodes' /\ nodes'[k] = r
      /\ \A n \in Nodes : n < k /\ n \in Nodes' /\ nodes'[n] = nodes[n]
  BY <1>1, <1>4, <1>5, NodeMade DEF Grows
<1>7. k \notin Nodes /\ k <= k /\ \A n \in Nodes : n <= k
  <2>1. \A n \in Nodes : n \in Nat /\ n < k
    BY <1>6, NodeNumbers
  <2>2. ~(k < k) /\ k <= k /\ \A n \in Nat : n < k => n <= k
    BY <1>6, SMT
  <2> QED BY <2>1, <2>2
<1>8. Finished(D, T)' /\ OpenFine(O, D, T, P, c)' /\ Upto(c, T, P)' = Upto(c, T, P)
  <2>1. \A n \in D \cup O : n \in Nodes' /\ nodes'[n] = nodes[n]
    BY <1>3, <1>6
  <2>2. Finished(D, T)
    BY <1>2
  <2>3. OpenFine(O, D, T, P, c)
    BY <1>2
  <2>4. UNCHANGED rootSection
    BY <1>5
  <2> QED BY <2>1, <2>2, <2>3, <2>4, NodesKept
<1>9. PICK b \in Texts, m \in Texts, e \in Texts : b = Upto(c, T, P) /\ m = <<name>> /\ e = << <<-3>> >>
  <2>1. Upto(c, T, P) \in Texts
    BY <1>2, <1>3, OpenTexts
  <2> QED BY <1>2, <2>1, TextFacts
<1>10. PICK y \in Texts : y = b \o (m \o e)
  <2>1. m \o e \in Texts
    BY TextFacts
  <2> QED BY <2>1, TextFacts
<1>11. PICK Q : Q = [P EXCEPT ![k] = y]
  OBVIOUS
<1>12. Q \in [Nat -> Texts] /\ Q[k] = y /\ \A n \in Nodes : Q[n] = P[n]
  <2>1. \A n \in Nodes : n \in Nat /\ n # k
    BY <1>7, NodeNumbers
  <2> QED BY <1>3, <1>6, <1>11, <2>1
<1>13. PICK M, root : M = nodes' /\ root = rootSection /\ root = rootSection'
  BY <1>5
<1>14. M[k].nodeType = "SECTION" /\ M[k].nodeName = name /\ M[k].backlink = c /\ M[k].children = <<>>
  BY <1>4, <1>6, <1>13
<1>15. SpokenIn(M, k, T) = <<>>
  <2>1. DOMAIN M[k].children = {}
    BY <1>14
  <2>2. Parts(M, <<>>, T) = <<>>
    BY DEF Parts
  <2>3. SpokenIn(M, k, T) = FlattenSeq(Parts(M, <<>>, T))
    BY <1>14 DEF SpokenIn, Parts
  <2> QED BY <2>2, <2>3, FlattenFacts
<1>16. Range(M[k].children) = {}
  BY <1>14 DEF Range
<1>17. P[c] \o SpokenIn(M, c, T) = b
  BY <1>8, <1>9, <1>13 DEF Upto, Spoken
<1>18. ASSUME NEW n \in O
       PROVE  /\ n \notin D /\ n <= k /\ M[n].nodeType = "SECTION" /\ Range(M[n].children) \subseteq D
              /\ n = root => Q[n] = << <<-3>> >>
              /\ n # root => /\ M[n].backlink \in O /\ M[n].backlink < n
                             /\ Q[n] = (Q[M[n].backlink] \o SpokenIn(M, M[n].backlink, T)) \o (<<M[n].nodeName>> \o << <<-3>> >>)
  <2>1. /\ n \notin D /\ M[n].nodeType = "SECTION" /\ Range(M[n].children) \subseteq D
        /\ n = root => P[n] = << <<-3>> >>
        /\ n # root => /\ M[n].backlink \in O /\ M[n].backlink < n
                       /\ P[n] = (P[M[n].backlink] \o SpokenIn(M, M[n].backlink, T)) \o (<<M[n].nodeName>> \o << <<-3>> >>)
    BY <1>8, <1>13 DEF OpenFine, Upto, Spoken, ChildrenOf
  <2>2. n \in Nodes /\ Q[n] = P[n] /\ n <= k
    BY <1>3, <1>7, <1>12
  <2>3. n # root => Q[M[n].backlink] = P[M[n].backlink]
    BY <1>3, <1>12, <2>1
  <2> QED BY <2>1, <2>2, <2>3
<1>19. PICK O2 : O2 = O \cup {k}
  OBVIOUS
<1>20. OpenFine(O2, D, T, Q, k)'
  <2>1. O2 \in SUBSET (Nodes') /\ k \in O2 /\ root \in O2
    BY <1>3, <1>6, <1>13, <1>19
  <2>2. ASSUME NEW n \in O2
        PROVE  /\ n \notin D /\ n <= k /\ M[n].nodeType = "SECTION" /\ Range(M[n].children) \subseteq D
               /\ n = root => Q[n] = << <<-3>> >>
               /\ n # root => /\ M[n].backlink \in O2 /\ M[n].backlink < n
                              /\ Q[n] = (Q[M[n].backlink] \o SpokenIn(M, M[n].backlink, T)) \o (<<M[n].nodeName>> \o << <<-3>> >>)
    <3>1. CASE n \in O
      <4>1. n # root => M[n].backlink \in O2
        BY <1>18, <1>19, <3>1
      <4> QED BY <1>18, <3>1, <4>1
    <3>2. CASE n = k
      <4>1. k \notin D /\ k # root /\ c \in O2 /\ c < k /\ Q[c] = P[c]
        BY <1>3, <1>6, <1>7, <1>12, <1>13, <1>19
      <4>2. Q[k] = (Q[c] \o SpokenIn(M, c, T)) \o (<<name>> \o << <<-3>> >>)
        BY <1>9, <1>10, <1>12, <1>17, <4>1
      <4> QED BY <1>7, <1>14, <1>16, <3>2, <4>1, <4>2
    <3> QED BY <1>19, <3>1, <3>2
  <2> QED BY <1>12, <1>13, <2>1, <2>2 DEF OpenFine, Upto, Spoken, ChildrenOf
<1>21. Upto(k, T, Q)' = y
  BY <1>12, <1>13, <1>15, TextFacts DEF Upto, Spoken
<1>22. x \o << <<-3>> >> = y
  <2>1. (b \o m) \o e = b \o (m \o e)
    <3>1. Chained(b, m, e)
      BY TextsChain
    <3> QED BY <3>1 DEF Chained
  <2> QED BY <1>2, <1>9, <1>10, <2>1
<1>23. Reads(7, x, Upto(currentSection, T, Q), name)'
  BY <1>1, <1>21, <1>22 DEF Reads
<1>24. ValueFine(7, yyss[Len(yyss) - 1], D)' /\ NameFine(7, name)'
  BY <1>2, SMT DEF ValueFine, NameFine, Valued
<1>25. OpenFine(O2, D, T, Q, currentSection)'
  BY <1>1, <1>20
<1>26. BodyText(7, x, D, O2, T, Q, name)'
  BY <1>8, <1>23, <1>24, <1>25 DEF BodyText
<1> QED BY <1>26

\* The root is opened.
LEMMA RootOpened ==
  ASSUME NodesTyped, ChildrenFine, OpenBody
  PROVE  \E D, O, T, P, name : BodyText(3, << <<-3>> >>, D, O, T, P, name)'
<1>1. PICK k, r : k = New /\ r = [Node("SECTION", k) EXCEPT !.nodeName = <<>>]
  OBVIOUS
<1>2. k \in Nat
  <2>1. Len(nodes) \in Nat
    BY NodeNumbers
  <2> QED BY <1>1, <2>1, SMT DEF New
<1>3. r \in NodeRecords /\ r.children = <<>> /\ r.backlink = k /\ r.nodeType = "SECTION"
  <2>1. <<>> \in Seq(Nat)
    BY EmptySeq
  <2>2. PICK q \in NodeRecords : q = Node("SECTION", k) /\ q.children = <<>> /\ q.backlink = k
    BY <1>2, NodeFacts
  <2>3. r = [q EXCEPT !.nodeName = <<>>] /\ q.nodeType = "SECTION"
    BY <1>1, <2>2 DEF Node
  <2> QED BY <2>1, <2>2, <2>3 DEF NodeRecords
<1>4. nodes' = Append(nodes, r) /\ currentSection' = k /\ rootSection' = k
  BY <1>1 DEF OpenBody
<1>5. k \in Nodes' /\ nodes'[k] = r
  BY <1>1, <1>3, <1>4, NodeMade
<1>6. PICK M : M = nodes' /\ M[k].nodeType = "SECTION" /\ M[k].backlink = k /\ M[k].children = <<>>
  BY <1>3, <1>5
<1>7. PICK T, P, e : T = [n \in Nat |-> <<>>] /\ P = [n \in Nat |-> << <<-3>> >>] /\ e = << <<-3>> >>
  OBVIOUS
<1>8. T \in [Nat -> Texts] /\ P \in [Nat -> Texts] /\ P[k] = e /\ e \in Texts
  BY <1>2, <1>7, TextFacts
<1>9. SpokenIn(M, k, T) = <<>>
  <2>1. Parts(M, <<>>, T) = <<>>
    BY DEF Parts
  <2>2. SpokenIn(M, k, T) = FlattenSeq(Parts(M, <<>>, T))
    BY <1>6 DEF SpokenIn, Parts
  <2> QED BY <2>1, <2>2, FlattenFacts
<1>10. Finished({}, T)'
  BY <1>8 DEF Finished
<1>11. Range(M[k].children) = {}
  BY <1>6 DEF Range
<1>12. OpenFine({k}, {}, T, P, k)'
  <2>1. k <= k
    BY <1>2, SMT
  <2> QED BY <1>4, <1>5, <1>6, <1>7, <1>8, <1>11, <2>1 DEF OpenFine, ChildrenOf
<1>13. Upto(k, T, P)' = e
  BY <1>6, <1>8, <1>9, TextFacts DEF Upto, Spoken
<1>14. Reads(3, e, Upto(currentSection, T, P), <<>>)'
  <2>1. Part(3, <<>>)' = <<>> /\ e \o <<>> = e /\ 3 # 7
    BY <1>8, PartNext, TextFacts
  <2> QED BY <1>4, <1>13, <2>1 DEF Reads
<1>15. ValueFine(3, yyss[Len(yyss) - 1], {})' /\ NameFine(3, <<>>)'
  <2>1. <<>> \in Seq(Int)
    BY EmptySeq
  <2> QED BY <2>1, SMT DEF ValueFine, NameFine, Valued
<1>16. OpenFine({k}, {}, T, P, currentSection)'
  BY <1>4, <1>12
<1>17. BodyText(3, e, {}, {k}, T, P, <<>>)'
  BY <1>10, <1>14, <1>15, <1>16 DEF BodyText
<1> QED BY <1>7, <1>17

\* The root is closed.
LEMMA RootClosed ==
  ASSUME NodesTyped, UNCHANGED tree, currentSection = rootSection,
         NEW x, NEW D, NEW O, NEW T, NEW P, NEW name, BodyText(13, x, D, O, T, P, name)
  PROVE  FileText(x)'
<1>1. PICK c : c = currentSection /\ c = rootSection
  OBVIOUS
<1>2. /\ Finished(D, T) /\ OpenFine(O, D, T, P, c) /\ x = Upto(c, T, P) \o << <<-4>> >>
  <2>1. Part(13, name) = << <<-4>> >> /\ 13 # 7
    BY PartIs
  <2> QED BY <1>1, <2>1 DEF BodyText, Reads
<1>3. /\ c \in Nodes /\ c \in Nat /\ c \notin D /\ ChildrenOf(c) \subseteq D /\ nodes[c].nodeType = "SECTION"
      /\ P[c] = << <<-3>> >>
  BY <1>1, <1>2, NodeNumbers DEF OpenFine
<1>4. x = Whole(c, T)
  BY <1>2, <1>3 DEF Upto, Whole
<1>5. Whole(c, T) \in Texts
  BY <1>2, <1>3, NodeTexts DEF Finished
<1>6. PICK E, U : E = D \cup {c} /\ U = [T EXCEPT ![c] = Whole(c, T)]
  OBVIOUS
<1>7. \A n \in D \cup {c} : n \in Nodes' /\ nodes'[n] = nodes[n]
  <2>1. D \subseteq Nodes
    BY <1>2 DEF Finished
  <2> QED BY <1>3, <2>1 DEF tree, Nodes
<1>8. Finished(D, T)
  BY <1>2
<1>9. Finished(D \cup {c}, U)' /\ U[c] = Whole(c, T)
  <2>1. c \in Nodes /\ c \notin D /\ ChildrenOf(c) \subseteq D
    BY <1>3
  <2>2. U = [T EXCEPT ![c] = Whole(c, T)]
    BY <1>6
  <2>3. Finished(D \cup {c}, U)'
    BY <1>5, <1>7, <1>8, <2>1, <2>2, FinishedMore
  <2>4. T \in [Nat -> Texts]
    BY <1>8 DEF Finished
  <2> QED BY <1>3, <2>2, <2>3, <2>4
<1>10. rootSection' = c
  BY <1>1 DEF tree
<1> QED BY <1>4, <1>9, <1>10 DEF FileText

\* In a body the rules but for 2, 3 and 4 keep what is read with what is built.
LEMMA BodyReduced ==
  ASSUME StackFine, NodesTyped, ChildrenFine, IsRoot(rootSection), UNCHANGED stringBuffer,
         NEW rule \in 5 .. 17, Acts(rule), NEW s, NEW u, NEW v, Leads(rule, s, u, v), u = yyss'[Len(yyss') - 1],
         rule \in {12, 13} => u = yyss[Len(yyss) - 1],
         rule = 5 => /\ nodes[currentSection].backlink < currentSection
                     /\ rootSection <= nodes[currentSection].backlink,
         NEW x \in Texts, NEW D, NEW O, NEW T, NEW P, NEW name, BodyText(s, x, D, O, T, P, name),
         s = 5 => name = stringBuffer
  PROVE  \E D2, O2, T2, P2, name2 : BodyText(v, x, D2, O2, T2, P2, name2)'
<1>1. rule \in 2 .. 17
  BY SMT
<1>2. CASE rule \in {7, 8, 9, 14, 16, 17}
  <2>1. UNCHANGED tree
    BY <1>1, <1>2, ActsFacts
  <2>2. BodyText(v, x, D, O, T, P, name)'
    BY <1>2, <2>1, SameReduced
  <2> QED BY <2>2
<1>3. CASE rule = 5
  <2>1. CloseSection
    BY <1>1, <1>3, ActsFacts
  <2>2. s = 22 /\ v = 6
    BY <1>3 DEF Leads
  <2>3. \E E, Q, U : BodyText(6, x, E, Q, U, P, name)'
    BY <1>3, <2>1, <2>2, SectionClosed
  <2> QED BY <2>2, <2>3
<1>4. CASE rule = 6
  <2>1. NameSection
    BY <1>1, <1>4, ActsFacts
  <2>2. s = 5 /\ v = 7
    BY <1>4 DEF Leads
  <2>3. \E Q, R : BodyText(7, x, D, Q, T, R, name)'
    BY <2>1, <2>2, SectionNamed
  <2> QED BY <2>2, <2>3
<1>5. CASE rule = 10
  <2>1. Assign
    BY <1>1, <1>5, ActsFacts
  <2>2. s = 23 /\ v = 9
    BY <1>5 DEF Leads
  <2>3. \E E, U : BodyText(9, x, E, O, U, P, name)'
    BY <2>1, <2>2, ValueAssigned
  <2> QED BY <2>2, <2>3
<1>6. CASE rule = 11
  <2>1. NameValue
    BY <1>1, <1>6, ActsFacts
  <2>2. s = 5 /\ v = 10
    BY <1>6 DEF Leads
  <2>3. BodyText(10, x, D, O, T, P, name)'
    BY <2>1, <2>2, ValueNamed
  <2> QED BY <2>2, <2>3
<1>7. CASE rule \in {12, 13}
  <2>1. SetValue
    BY <1>1, <1>7, ActsFacts
  <2>2. s \in {18, 19} /\ v = (IF u = 15 THEN 20 ELSE 24) /\ u = yyss[Len(yyss) - 1]
    <3>1. rule \in {12, 13, 14}
      BY <1>7
    <3> QED BY <1>7, <3>1, Zenon DEF Leads
  <2>3. BodyText(v, x, D, O, T, P, name)'
    BY <2>1, <2>2, ValueGiven
  <2> QED BY <2>3
<1>8. CASE rule = 15
  <2>1. OpenList
    BY <1>1, <1>8, ActsFacts
  <2>2. s = 17 /\ v = 21
    BY <1>8 DEF Leads
  <2>3. BodyText(21, x, D, O, T, P, name)'
    BY <2>1, <2>2, ListOpened
  <2> QED BY <2>2, <2>3
<1> QED BY <1>2, <1>3, <1>4, <1>5, <1>6, <1>7, <1>8, SMT

LEMMA TextReduce ==
  ASSUME StackFine, TreeFine, TextFine, Reduce
  PROVE  TextFine'
<1>1. PICK rule \in 2 .. 17, n \in 0 .. Len(yyss) - 1, v \in 0 .. 28 : \E s, u :
           /\ Acts(rule) /\ Restacked(n, v) /\ Pops(rule, n, Len(yyss)) /\ Pushes(rule, v)
           /\ s = yystate /\ v = yystate' /\ u = yyss[Len(yyss) - n] /\ u = yyss'[Len(yyss') - 1]
           /\ rule \in {12, 13} => u = yyss[Len(yyss) - 1]
           /\ Leads(rule, s, u, v)
  BY ReduceLeads
<1>2. PICK s, u :
           /\ Acts(rule) /\ Restacked(n, v) /\ Pops(rule, n, Len(yyss)) /\ Pushes(rule, v)
           /\ s = yystate /\ v = yystate' /\ u = yyss[Len(yyss) - n] /\ u = yyss'[Len(yyss') - 1]
           /\ rule \in {12, 13} => u = yyss[Len(yyss) - 1]
           /\ Leads(rule, s, u, v)
  BY <1>1
<1>3. /\ pc = "backup" /\ (Looks => yychar # YYEMPTY) /\ NodesTyped /\ ChildrenFine
      /\ UNCHANGED <<stringBuffer, yy_start, yychar, forms, tokens>>
  BY DEF Reduce, Ready, lexVars, history, TreeFine
<1>4. Word' = Word
  BY <1>3 DEF Word
<1>5. SUFFICES ASSUME forms # {} PROVE \E y \in Texts : Stands(v, y)' /\ tokens' = y \o Word'
  BY <1>2, <1>3 DEF TextFine
<1>6. PICK x \in Texts : Stands(s, x) /\ tokens = x \o Word
  BY <1>2, <1>3, <1>5 DEF TextFine
<1>7. SUFFICES Stands(v, x)'
  BY <1>3, <1>4, <1>6
<1>8. CASE rule = 2
  <2>1. EmptyBody
    BY <1>2, <1>8, ActsFacts
  <2>2. FileText(x)'
    BY <2>1 DEF EmptyBody, FileText
  <2>3. v = 2
    BY <1>2, <1>8 DEF Leads
  <2> QED BY <2>2, <2>3, SMT DEF Stands
<1>9. CASE rule = 4
  <2>1. OpenBody
    BY <1>2, <1>9, ActsFacts
  <2>2. s = 1 /\ v = 3
    BY <1>2, <1>9 DEF Leads
  <2>3. x = << <<-3>> >>
    BY <1>6, <2>2 DEF Stands
  <2>4. \E D, O, T, P, name : BodyText(3, x, D, O, T, P, name)'
    BY <1>3, <2>1, <2>3, RootOpened
  <2>5. v \notin {0, 1, 2}
    BY <2>2, SMT
  <2> QED BY <2>2, <2>4, <2>5 DEF Stands
<1>10. CASE rule \notin {2, 4}
  <2>1. PICK L \in Nat : L = Len(yyss) /\ L > 1 /\ yyss[2] = 3
    <3>1. Len(yyss) \in Nat /\ Len(yyss) > 1 /\ yyss[2] = 3
      BY <1>2, <1>10, TopOfStack DEF Pops
    <3> QED BY <3>1
  <2>2. InBody
    BY <1>3, <2>1 DEF InBody
  <2>3. IsRoot(rootSection)
    BY <2>2 DEF TreeFine, BodyFine
  <2>4. PICK sec : Sections(sec)
    BY <2>2 DEF TreeFine, BodyFine
  <2>5. rule = 3 \/ rule \in 5 .. 17
    BY <1>10, SMT
  <2>6. s \notin {0, 1, 2}
    <3>1. CASE rule = 3
      <4>1. s = 13
        BY <1>2, <3>1 DEF Leads
      <4> QED BY <4>1, SMT
    <3>2. CASE rule \in 5 .. 17
      <4>1. Leads(rule, s, u, v)
        BY <1>2
      <4> QED BY <3>2, <4>1, SMT DEF Leads
    <3> QED BY <2>5, <3>1, <3>2
  <2>7. PICK D, O, T, P, name : BodyText(s, x, D, O, T, P, name)
    BY <1>6, <2>6 DEF Stands
  <2>8. CASE rule = 3
    <3>1. UNCHANGED tree
      BY <1>2, <2>8, ActsFacts
    <3>2. s = 13 /\ v = 2
      BY <1>2, <2>8 DEF Leads
    <3>3. L = 4 /\ \A i \in L - 3 + 1 .. L : yyss[i] # 7
      <4>1. n = 3 /\ L = 4
        BY <1>2, <2>1, <2>8 DEF Pops
      <4>2. \A i \in L - n + 1 .. L : yyss[i] # 7
        <5>1. rule # 5
          BY <2>8
        <5> QED BY <1>2, <2>1, <5>1, Zenon DEF Pops
      <4> QED BY <4>1, <4>2
    <3>4. PICK k \in {3} : k \in 0 .. 4 /\ k < L /\ L - k = 1 /\ \A i \in L - k + 1 .. L : yyss[i] # 7
      <4>1. 3 \in 0 .. 4 /\ 3 < 4 /\ 4 - 3 = 1
        BY SMT
      <4> QED BY <3>3, <4>1
    <3>5. sec[L - k] = currentSection
      BY <2>1, <2>4, <3>4, SameSection
    <3>6. currentSection = rootSection
      BY <2>4, <3>4, <3>5 DEF Sections
    <3>7. FileText(x)'
      BY <1>3, <2>7, <3>1, <3>2, <3>6, RootClosed
    <3> QED BY <3>2, <3>7, SMT DEF Stands
  <2>9. CASE rule \in 5 .. 17
    <3>1. v \notin {0, 1, 2}
      <4>1. Leads(rule, s, u, v)
        BY <1>2
      <4> QED BY <2>9, <4>1, SMT DEF Leads
    <3>2. rule = 5 => /\ nodes[currentSection].backlink < currentSection
                      /\ rootSection <= nodes[currentSection].backlink
      <4> SUFFICES ASSUME rule = 5 PROVE /\ nodes[currentSection].backlink < currentSection
                                         /\ rootSection <= nodes[currentSection].backlink
        OBVIOUS
      <4>1. Pops(5, n, Len(yyss))
        BY <1>2
      <4>2. PICK under : under = sec[Len(yyss) - n]
        OBVIOUS
      <4>3. under < currentSection /\ nodes[currentSection].backlink = under
        BY <2>4, <4>1, <4>2, SectionEnds
      <4>4. L - n \in 1 .. L
        BY <2>1, SMT
      <4>5. rootSection <= under
        BY <2>1, <2>4, <4>2, <4>4 DEF Sections
      <4> QED BY <4>3, <4>5
    <3>3. s = 5 => name = stringBuffer
      <4> SUFFICES ASSUME s = 5 PROVE name = stringBuffer
        OBVIOUS
      <4>1. 5 \notin Blind
        BY SMT DEF Blind
      <4>2. yychar # YYEMPTY
        BY <1>2, <1>3, <4>1, LooksWhen
      <4> QED BY <2>7, <4>2 DEF BodyText, NameFine
    <3>4. /\ Acts(rule) /\ Leads(rule, s, u, v) /\ u = yyss'[Len(yyss') - 1]
          /\ (rule \in {12, 13} => u = yyss[Len(yyss) - 1]) /\ UNCHANGED stringBuffer
      BY <1>2, <1>3
    <3>5. \E D2, O2, T2, P2, name2 : BodyText(v, x, D2, O2, T2, P2, name2)'
      BY <1>3, <2>3, <2>7, <2>9, <3>2, <3>3, <3>4, BodyReduced
    <3> QED BY <3>1, <3>5 DEF Stands
  <2> QED BY <2>5, <2>8, <2>9
<1> QED BY <1>8, <1>9, <1>10

-----------------------------------------------------------------------------
(* The tree of an accepted file. *)

SayFine == TextFine /\ TreeIsTheFile

\* What is listed depends on the nodes alone.
WholeIn(N, n, T) ==
  IF N[n].nodeType = "SECTION" THEN << <<-3>> >> \o SpokenIn(N, n, T) \o << <<-4>> >>
  ELSE << <<-8>> >> \o (IF N[n].nodeType = "LIST" THEN N[n].valueList ELSE <<N[n].value>>) \o << <<-9>> >>
ListingIn(N) == CHOOSE f : f = [n \in DOMAIN N |-> WholeIn(N, n, f)]

LEMMA ListingStays == nodes' = nodes => \A r, q : r = q => Listing(r)' = Listing(q)
<1> SUFFICES ASSUME nodes' = nodes, NEW r PROVE Listing(r)' = Listing(r)
  OBVIOUS
<1>1. Listing(r) = ListingIn(nodes)[r]
  BY DEF Listing, Nodes, ListingIn, WholeIn, SpokenIn
<1>2. Listing(r)' = ListingIn(nodes')[r]
  BY DEF Listing, Nodes, ListingIn, WholeIn, SpokenIn
<1> QED BY <1>1, <1>2

LEMMA TextAccepted ==
  ASSUME StackFine, TreeFine, FormsFine, TextFine, Accept
  PROVE  SayFine'
<1>1. /\ pc = "backup" /\ YYFINAL \in Shifts /\ pc' = "return" /\ yyresult' = 0
      /\ UNCHANGED <<tree, forms, tokens, yy_start>>
  BY DEF Accept, Ready, Return, lexVars, history
<1>2. yystate = 2 /\ yychar = YYEOF
  BY <1>1, ShiftFollows
<1>3. forms # {}
  <2>1. GrammarDecides'
    BY ParseDecides DEF Parse, GrammarFine
  <2> QED BY <1>1, <2>1 DEF GrammarDecides, Grammar!Sentence
<1>4. PICK x \in Texts : Stands(2, x) /\ tokens = x \o Word
  BY <1>1, <1>2, <1>3 DEF TextFine
<1>5. tokens = x
  <2>1. Word = <<>>
    BY <1>2 DEF Word
  <2> QED BY <1>4, <2>1, TextFacts
<1>6. FileText(x)
  BY <1>4 DEF Stands
<1>7. rootSection # 0 => Listing(rootSection) = tokens
  <2> SUFFICES ASSUME rootSection # 0 PROVE Listing(rootSection) = tokens
    OBVIOUS
  <2>1. PICK D, T : Finished(D, T) /\ rootSection \in D /\ x = T[rootSection]
    BY <1>6 DEF FileText
  <2>2. NodesTyped /\ ChildrenFine
    BY DEF TreeFine
  <2>3. Listing(rootSection) = T[rootSection]
    BY <2>1, <2>2, ListingIs
  <2> QED BY <1>5, <2>1, <2>3
<1>8. TreeIsTheFile'
  <2>1. Listing(rootSection)' = Listing(rootSection)
    BY <1>1, ListingStays DEF tree
  <2>2. rootSection' = rootSection /\ tokens' = tokens
    BY <1>1 DEF tree
  <2> QED BY <1>7, <2>1, <2>2 DEF TreeIsTheFile
<1>9. TextFine'
  BY <1>1 DEF TextFine
<1> QED BY <1>8, <1>9 DEF SayFine

LEMMA TextParse ==
  ASSUME StackFine, StackFine', TreeFine, NodesTyped', FormsFine, TextFine, Parse
  PROVE  SayFine'
<1>1. NodesTyped /\ ChildrenFine
  BY DEF TreeFine
<1>2. CASE yylex
  <2>1. TextFine'
    BY <1>1, <1>2, TextLex
  <2>2. pc' # "return"
    BY <1>2 DEF yylex, GotToken, parseVars
  <2> QED BY <2>1, <2>2 DEF SayFine, TreeIsTheFile, Accepted
<1>3. CASE Shift \/ Reduce
  <2>1. TextFine'
    BY <1>1, <1>3, TextShift, TextReduce
  <2>2. pc' = "backup" \/ yyresult' = 2
    BY <1>3 DEF Shift, Reduce, Push
  <2> QED BY <2>1, <2>2 DEF SayFine, TreeIsTheFile, Accepted
<1>4. CASE Accept
  BY <1>4, TextAccepted
<1>5. CASE SyntaxError
  <2>1. pc' = "return" /\ yyresult' = 1 /\ UNCHANGED yy_start
    BY <1>5 DEF SyntaxError, Return, lexVars
  <2>2. TextFine'
    BY <2>1 DEF TextFine
  <2> QED BY <2>1, <2>2 DEF SayFine, TreeIsTheFile, Accepted
<1> QED BY <1>2, <1>3, <1>4, <1>5 DEF Parse

LEMMA TextOpens ==
  ASSUME TextFine, NEW file, Begin(file)
  PROVE  SayFine'
<1>1. /\ yyss' = <<0>> /\ yychar' = YYEMPTY /\ pc' = "backup" /\ tokens' = <<>> /\ UNCHANGED yy_start
  BY DEF Begin, Open
<1>2. yystate' = 0
  <2>1. Len(yyss') = 1 /\ yyss'[1] = 0
    BY <1>1, SMT
  <2> QED BY <2>1 DEF yystate, Last
<1>3. Word' = <<>>
  BY <1>1 DEF Word
<1>4. Stands(0, <<>>)'
  BY SMT DEF Stands
<1>5. tokens' = <<>> \o Word' /\ <<>> \in Texts
  BY <1>1, <1>3, TextFacts
<1>6. TextFine'
  BY <1>1, <1>2, <1>4, <1>5 DEF TextFine
<1> QED BY <1>1, <1>6 DEF SayFine, TreeIsTheFile, Accepted

LEMMA TextRests ==
  ASSUME SayFine, UNCHANGED <<lexVars, parseVars>>
  PROVE  SayFine'
<1>1. /\ nodes' = nodes /\ rootSection' = rootSection /\ currentSection' = currentSection
      /\ currentValue' = currentValue /\ yyss' = yyss /\ yychar' = yychar /\ yyresult' = yyresult /\ pc' = pc
      /\ forms' = forms /\ tokens' = tokens /\ yy_start' = yy_start /\ stringBuffer' = stringBuffer
  BY DEF parseVars, lexVars, tree, history
<1>2. TreeIsTheFile'
  <2>1. Listing(rootSection)' = Listing(rootSection)
    BY <1>1, ListingStays
  <2> QED BY <1>1, <2>1 DEF SayFine, TreeIsTheFile, Accepted
<1>3. yystate' = yystate /\ Word' = Word
  BY <1>1 DEF yystate, Last, Word
<1>4. ASSUME NEW s, NEW x, Stands(s, x) PROVE Stands(s, x)'
  <2>1. UNCHANGED <<tree, yyss>>
    BY DEF parseVars
  <2>2. \A name : NameFine(s, name) => NameFine(s, name)'
    BY <1>1 DEF NameFine
  <2> QED BY <1>1, <1>4, <2>1, <2>2, StandsKept
<1>5. TextFine'
  BY <1>1, <1>3, <1>4 DEF SayFine, TextFine
<1> QED BY <1>2, <1>5 DEF SayFine

LEMMA SayNext ==
  ASSUME IInv, IInv', ParserFine, ParserFine', TreesFine, TreesFine', GrammarFine, SayFine, [Next]_vars
  PROVE  SayFine'
<1>1. WhatHappens
  BY Happens DEF ParserFine
<1>2. CASE UNCHANGED <<lexVars, parseVars>>
  BY <1>2, TextRests
<1>3. ASSUME pc = "idle", pc' = pc, UNCHANGED yy_start PROVE SayFine'
  BY <1>3 DEF SayFine, TextFine, TreeIsTheFile, Accepted
<1>4. CASE pc = "idle" /\ Opens
  BY <1>2, <1>4, TextOpens DEF Opens, SayFine
<1>5. CASE pc = "idle" /\ FindsNone
  BY <1>3, <1>5 DEF FindsNone, parseVars
<1>6. CASE Parses
  <2>1. StackFine /\ StackFine' /\ TreeFine /\ NodesTyped' /\ FormsFine /\ TextFine
    BY DEF ParserFine, TreesFine, TreeFine, GrammarFine, SayFine
  <2> QED BY <1>6, <2>1, TextParse DEF Parses
<1>7. CASE Ends
  <2>1. pc' = "idle" /\ yy_start' = yy_start
    BY <1>7 DEF Ends, lexVars
  <2> QED BY <2>1 DEF SayFine, TextFine, TreeIsTheFile, Accepted
<1>8. CASE Quiet
  BY <1>2, <1>8 DEF Quiet
<1> QED BY <1>1, <1>2, <1>4, <1>5, <1>6, <1>7, <1>8 DEF WhatHappens

LEMMA SayInit == Init => SayFine
<1> SUFFICES ASSUME Init PROVE SayFine
  OBVIOUS
<1>1. pc = "idle" /\ yy_start = "INITIAL"
  BY DEF Init, ConfigInit, ParseInit, LexInit
<1> QED BY <1>1 DEF SayFine, TextFine, TreeIsTheFile, Accepted, Starts

(* What is on the stack stands for what was read, and the tree of a parse that accepted says it. *)
THEOREM SayInvariance == Spec => []SayFine
<1>1. Init => SayFine
  BY SayInit
<1>2. IInv /\ IInv' /\ ParserFine /\ ParserFine' /\ TreesFine /\ TreesFine' /\ GrammarFine /\ SayFine /\ [Next]_vars => SayFine'
  BY SayNext
<1> QED BY <1>1, <1>2, Invariance, ParserInvariance, TreesInvariance, GrammarInvariance, PTL DEF Spec

\* The tree of every file that is accepted says what the file said, whatever the file holds and however deep
\* it nests: every section, every name and every value, in the order and at the depth they were written in.
THEOREM TreesSayWhatTheFilesSay == Spec => []TreeIsTheFile
<1>1. SayFine => TreeIsTheFile
  BY DEF SayFine
<1> QED BY <1>1, SayInvariance, PTL

-----------------------------------------------------------------------------
(***************************************************************************)
(* The names.  A section or a value gets the name that is in the string    *)
(* buffer, and no two that get into a tree get the same.                   *)
(***************************************************************************)

Pieces(name) == \A i \in DOMAIN name : 1 <= name[i] /\ name[i] <= scanned

NodesNamed ==
  /\ \A n \in Nodes : Pieces(nodes[n].nodeName)
  /\ \A m, n \in Nodes : nodes[m].nodeName = nodes[n].nodeName => m = n \/ nodes[m].nodeName = <<>>
  /\ \A n \in Nodes : \A c \in ChildrenOf(n) : nodes[c].nodeName # <<>>

\* A value has no section and no children; a section that is named is in one.
NodesLinked ==
  /\ \A n \in Nodes : nodes[n].nodeType = "VALUE" => nodes[n].backlink = 0 /\ nodes[n].children = <<>>
  /\ \A n \in Nodes : nodes[n].backlink # 0 => nodes[n].backlink \in Nodes /\ nodes[nodes[n].backlink].backlink # 0

\* What was looked at is no brace: nothing more is done with the section that was named.
Stuck == yystate = 7 /\ yychar \notin {YYEMPTY, 3}

\* The name begins behind all that were given to nodes.
Younger(name) ==
  \A n \in Nodes : nodes[n].nodeName = <<>> \/ name = <<>> \/ nodes[n].nodeName[1] < name[1]

NameSeen == yystate = 5 \/ (yychar = 10 /\ yystate # 7)
Awaited  == yychar = 10 \/ (yystate = 5 /\ (yychar \in {3, 8} \/ (yychar = YYEMPTY /\ yy_start # "stringconst")))

\* The name of a section or a value is in the buffer until it is reduced.
BufferNamed ==
  /\ Pieces(stringBuffer)
  /\ pc = "backup" /\ NameSeen => Younger(stringBuffer)
  /\ pc = "backup" /\ Awaited => stringBuffer # <<>>

BodyNamed ==
  InBody => /\ nodes[currentSection].backlink # 0
            /\ ~Stuck => \A n \in Nodes : rootSection < n => nodes[n].nodeName # <<>>

NamesFine == NodesNamed /\ NodesLinked /\ BufferNamed /\ BodyNamed

\* What the scanner does to the buffer.
LEMMA ScanNames ==
  ASSUME yy_start \in Starts, NEW x, Match(x)
  PROVE  /\ scanned' = scanned + 1
         /\ stringBuffer' \in {<<>>, <<scanned'>>, Append(stringBuffer, scanned'), stringBuffer}
         /\ 10 \in Tokens(x) => stringBuffer' = <<scanned'>>
<1>1. x \in Matched[yy_start] /\ scanned' = scanned + 1 /\ stringBuffer' = Enters(x)[2]
  BY DEF Match, Take
<1>2. stringBuffer' \in {<<>>, <<scanned'>>, Append(stringBuffer, scanned'), stringBuffer}
  BY <1>1, Zenon DEF Enters
<1>3. ASSUME 10 \in Tokens(x) PROVE stringBuffer' = <<scanned'>>
  <2>1. yytranslate["string"] = 11
    BY Zenon DEF yytranslate
  <2>2. yy_start = "INITIAL" /\ x \in DOMAIN yytranslate /\ yytranslate[x] = 10
    <3>1. 10 # 11
      OBVIOUS
    <3> QED BY <1>3, <2>1, <3>1, Zenon DEF Tokens
  <2>3. x = "name"
    <3>1. x \in {"{", "}", "[", ",", "]", "=", ";", "name", "string", "number", "'"}
      BY <2>2 DEF yytranslate
    <3>2. /\ yytranslate["{"] = 3 /\ yytranslate["}"] = 4 /\ yytranslate["["] = 5 /\ yytranslate[","] = 6
          /\ yytranslate["]"] = 7 /\ yytranslate["="] = 8 /\ yytranslate[";"] = 9
          /\ yytranslate["string"] = 11 /\ yytranslate["number"] = 12 /\ yytranslate["'"] = 13
      BY Zenon DEF yytranslate
    <3>3. yytranslate[x] = 10
      BY <2>2
    <3>4. \A t \in {3, 4, 5, 6, 7, 8, 9, 11, 12, 13} : t # 10
      BY SMT
    <3> QED BY <3>1, <3>2, <3>3, <3>4, Zenon
  <2>4. Enters(x) = <<"INITIAL", <<scanned'>> >>
    BY <2>2, <2>3, Zenon DEF Enters, Named
  <2> QED BY <1>1, <2>4
<1> QED BY <1>1, <1>2, <1>3

\* Longer names come of what is scanned.
LEMMA PiecesGrow ==
  ASSUME NEW name \in Seq(Nat), Pieces(name), scanned \in Nat, scanned' \in Nat, scanned <= scanned'
  PROVE  Pieces(name)'
<1>1. DOMAIN name = 1 .. Len(name)
  BY LenProperties
<1>2. \A i \in DOMAIN name : name[i] \in Nat
  BY <1>1, ElementOfSeq
<1>3. ASSUME NEW i \in DOMAIN name PROVE 1 <= name[i] /\ name[i] <= scanned'
  <2>1. name[i] \in Nat /\ 1 <= name[i] /\ name[i] <= scanned
    BY <1>2 DEF Pieces
  <2> QED BY <2>1, SMT
<1> QED BY <1>3 DEF Pieces

\* The buffer stays young, and a new name is.
LEMMA BufferScanned ==
  ASSUME NodesTyped, \A n \in Nodes : Pieces(nodes[n].nodeName), Pieces(stringBuffer), UNCHANGED nodes,
         scanned' = scanned + 1, stringBuffer' \in {<<>>, <<scanned'>>, Append(stringBuffer, scanned'), stringBuffer}
  PROVE  /\ Pieces(stringBuffer)'
         /\ Younger(stringBuffer) => Younger(stringBuffer)'
         /\ stringBuffer' = <<scanned'>> => Younger(stringBuffer)' /\ stringBuffer' # <<>>
<1>1. PICK q \in Nat : q = scanned' /\ q > 0 /\ q = scanned + 1 /\ scanned \in Nat
  <2>1. scanned \in Nat
    BY DEF NodesTyped
  <2>2. scanned + 1 \in Nat /\ scanned + 1 > 0
    BY <2>1, SMT
  <2> QED BY <2>1, <2>2
<1>2. PICK s \in Seq(Nat) : s = stringBuffer
  BY DEF NodesTyped
<1>3. PICK a : a = Append(s, q)
  OBVIOUS
<1>4. Pushed(s, a, q)
  BY <1>3, PushFacts
<1>5. PICK b : b = stringBuffer' /\ b \in {<<>>, <<q>>, a, s}
  BY <1>1, <1>2, <1>3
<1>6. /\ DOMAIN (<<>>) = {} /\ DOMAIN (<<q>>) = {1} /\ (<<q>>)[1] = q /\ <<q>> # <<>>
      /\ DOMAIN s = 1 .. Len(s) /\ Len(s) \in Nat /\ (s # <<>> => 1 \in DOMAIN s)
  <2>1. DOMAIN s = 1 .. Len(s) /\ Len(s) \in Nat
    BY LenProperties
  <2>2. s # <<>> => Len(s) # 0
    BY EmptySeq
  <2>3. Len(s) # 0 => 1 \in 1 .. Len(s)
    BY <2>1, SMT
  <2>4. DOMAIN (<<>>) = {} /\ DOMAIN (<<q>>) = {1} /\ (<<q>>)[1] = q /\ <<q>> # <<>>
    BY SMT
  <2> QED BY <2>1, <2>2, <2>3, <2>4
<1>7. Pieces(s)' /\ \A n \in Nodes : Pieces(nodes[n].nodeName)'
  <2>1. scanned \in Nat /\ scanned' \in Nat /\ scanned <= scanned'
    BY <1>1, SMT
  <2>2. Pieces(s)'
    BY <1>2, <2>1, PiecesGrow
  <2>3. ASSUME NEW n \in Nodes PROVE Pieces(nodes[n].nodeName)'
    <3>1. PICK m \in Seq(Nat) : m = nodes[n].nodeName
      BY NodeNumbers DEF NodeRecords
    <3>2. Pieces(m)'
      BY <2>1, <3>1, PiecesGrow
    <3> QED BY <3>1, <3>2
  <2> QED BY <2>2, <2>3
<1>8. Pieces(b)'
  <2>1. CASE b \in {<<>>, <<q>>}
    <3>1. 1 <= q /\ q <= q
      BY <1>1, SMT
    <3> QED BY <1>1, <1>6, <2>1, <3>1 DEF Pieces
  <2>2. CASE b = s
    BY <1>7, <2>2
  <2>3. CASE b = a
    <3>1. \A i \in DOMAIN a : i \in DOMAIN s \/ i = Len(a)
      BY <1>4, SMT DEF Pushed
    <3>2. 1 <= q /\ q <= scanned'
      BY <1>1, SMT
    <3> QED BY <1>4, <1>7, <2>3, <3>1, <3>2 DEF Pushed, Pieces
  <2> QED BY <1>5, <2>1, <2>2, <2>3
<1>9. ASSUME NEW n \in Nodes, nodes[n].nodeName # <<>>
      PROVE  nodes[n].nodeName[1] < q
  <2>1. PICK m \in Seq(Nat) : m = nodes[n].nodeName /\ m # <<>>
    BY <1>9, NodeNumbers DEF NodeRecords
  <2>2. DOMAIN m = 1 .. Len(m) /\ Len(m) \in Nat /\ Len(m) # 0
    BY <2>1, LenProperties, EmptySeq
  <2>3. 1 \in 1 .. Len(m)
    BY <2>2, SMT
  <2>4. m[1] \in Nat /\ m[1] <= scanned
    BY <2>1, <2>2, <2>3, ElementOfSeq DEF Pieces
  <2>5. m[1] < q
    BY <1>1, <2>4, SMT
  <2> QED BY <2>1, <2>5
<1>10. Nodes' = Nodes
  BY DEF Nodes
<1>11. b = <<q>> => Younger(b)'
  BY <1>6, <1>9, <1>10 DEF Younger
<1>12. ASSUME Younger(s) PROVE Younger(b)'
  <2>1. CASE b = <<>>
    BY <2>1 DEF Younger
  <2>2. CASE b = s
    BY <1>10, <1>12, <2>2 DEF Younger
  <2>3. CASE b = a /\ s # <<>>
    <3>1. a[1] = s[1]
      BY <1>4, <1>6, <2>3 DEF Pushed
    <3> QED BY <1>10, <1>12, <2>3, <3>1 DEF Younger
  <2>4. CASE b = a /\ s = <<>>
    <3>1. Len(a) = 1 /\ a[1] = q
      <4>1. Len(s) = 0
        BY <2>4, EmptySeq
      <4>2. Len(a) = 1
        BY <1>4, <4>1, SMT DEF Pushed
      <4> QED BY <1>4, <4>2 DEF Pushed
    <3> QED BY <1>9, <1>10, <2>4, <3>1 DEF Younger
  <2> QED BY <1>5, <1>11, <2>1, <2>2, <2>3, <2>4
<1> QED BY <1>1, <1>2, <1>5, <1>6, <1>8, <1>11, <1>12

LEMMA LexNames ==
  ASSUME TreeFine, NamesFine, yy_start \in Starts, yylex
  PROVE  NamesFine'
<1>1. /\ pc = "backup" /\ yychar = YYEMPTY /\ UNCHANGED <<pc, yyss, tree>>
      /\ NodesTyped /\ NodesNamed /\ NodesLinked /\ BufferNamed /\ BodyNamed
  BY LexTree DEF yylex, NamesFine, TreeFine
<1>2. UNCHANGED <<nodes, rootSection, currentSection, currentValue>> /\ yystate' = yystate /\ Nodes' = Nodes
  BY <1>1 DEF tree, yystate, Last, Nodes
<1>3. PICK b : b = stringBuffer'
  OBVIOUS
<1> DEFINE Goes == /\ Pieces(b)' /\ scanned' \in Nat /\ scanned <= scanned'
                   /\ Younger(stringBuffer) => Younger(b)'
                   /\ yychar' = 10 => Younger(b)' /\ b # <<>>
                   /\ yychar' \in {3, 8} => yy_start # "stringconst" /\ b = stringBuffer
                   /\ yychar' = YYEMPTY /\ yy_start' # "stringconst" => yy_start # "stringconst" /\ b = stringBuffer
<1>4. Goes
  <2>1. scanned \in Nat /\ \A n \in Nodes : Pieces(nodes[n].nodeName)
    BY <1>1 DEF NodesTyped, NodesNamed
  <2>2. Pieces(stringBuffer)
    BY <1>1 DEF BufferNamed
  <2>3. ASSUME UNCHANGED <<scanned, stringBuffer, yy_start>>, yychar' \in {YYEMPTY, YYEOF} PROVE Goes
    <3>1. scanned <= scanned
      BY <2>1, SMT
    <3>2. yychar' # 10 /\ yychar' \notin {3, 8}
      BY <2>3, SMT DEF YYEMPTY, YYEOF
    <3>3. Pieces(b)' /\ (Younger(stringBuffer) => Younger(b)')
      BY <1>2, <1>3, <2>2, <2>3 DEF Pieces, Younger
    <3> QED BY <1>3, <2>1, <2>3, <3>1, <3>2, <3>3
  <2>4. CASE Refill /\ UNCHANGED parseVars
    <3>1. UNCHANGED <<scanned, stringBuffer, yy_start, yychar>>
      BY <2>4 DEF Refill, parseVars
    <3> QED BY <1>1, <2>3, <3>1
  <2>5. CASE EndOfFile /\ GotToken(YYEOF)
    BY <2>3, <2>5 DEF EndOfFile, GotToken
  <2>6. ASSUME NEW x \in Lexemes, Match(x),
               (Tokens(x) = {} /\ yychar' = YYEMPTY) \/ yychar' \in Tokens(x)
        PROVE  Goes
    <3>1. /\ scanned' = scanned + 1
          /\ stringBuffer' \in {<<>>, <<scanned'>>, Append(stringBuffer, scanned'), stringBuffer}
          /\ 10 \in Tokens(x) => stringBuffer' = <<scanned'>>
      BY <1>1, <2>6, ScanNames
    <3>2. /\ Tokens(x) = {} /\ yy_start' # "stringconst" => yy_start # "stringconst" /\ stringBuffer' = stringBuffer
          /\ \A t \in Tokens(x) : t \in {3, 8} => yy_start # "stringconst" /\ stringBuffer' = stringBuffer
      BY <2>6, ScanKeeps
    <3>3. /\ Pieces(stringBuffer)'
          /\ Younger(stringBuffer) => Younger(stringBuffer)'
          /\ stringBuffer' = <<scanned'>> => Younger(stringBuffer)' /\ stringBuffer' # <<>>
      BY <1>1, <1>2, <2>1, <2>2, <3>1, BufferScanned
    <3>4. scanned' \in Nat /\ scanned <= scanned'
      BY <2>1, <3>1, SMT
    <3>5. YYEMPTY # 10 /\ YYEMPTY \notin {3, 8} /\ YYEMPTY \notin Tokens(x)
      <4>1. YYEMPTY # 10 /\ YYEMPTY \notin {3, 8}
        BY SMT DEF YYEMPTY
      <4> QED BY <4>1, TokenNumbers
    <3>6. CASE Tokens(x) = {} /\ yychar' = YYEMPTY
      BY <1>3, <3>2, <3>3, <3>4, <3>5, <3>6
    <3>7. CASE yychar' \in Tokens(x)
      BY <1>3, <3>1, <3>2, <3>3, <3>4, <3>5, <3>7
    <3> QED BY <2>6, <3>6, <3>7
  <2>7. ASSUME NEW x \in Lexemes, Match(x), IF Tokens(x) = {} THEN UNCHANGED parseVars
                                              ELSE \E t \in Tokens(x) : GotToken(t)
        PROVE  Goes
    <3>1. (Tokens(x) = {} /\ yychar' = YYEMPTY) \/ yychar' \in Tokens(x)
      BY <1>1, <2>7 DEF parseVars, GotToken
    <3> QED BY <2>6, <2>7, <3>1
  <2> HIDE DEF Goes
  <2> QED BY <2>4, <2>5, <2>7 DEF yylex
<1>5. NodesNamed'
  <2>1. ASSUME NEW n \in Nodes PROVE Pieces(nodes[n].nodeName)'
    <3>1. PICK m \in Seq(Nat) : m = nodes[n].nodeName /\ Pieces(m)
      BY <1>1, NodeNumbers DEF NodeRecords, NodesNamed
    <3>2. Pieces(m)'
      BY <1>1, <1>4, <3>1, PiecesGrow DEF NodesTyped
    <3> QED BY <1>2, <3>1, <3>2
  <2> QED BY <1>1, <1>2, <2>1 DEF NodesNamed, ChildrenOf
<1>6. NodesLinked'
  BY <1>1, <1>2 DEF NodesLinked
<1>7. BufferNamed'
  <2>1. pc' = "backup" /\ NameSeen' => Younger(b)'
    BY <1>1, <1>2, <1>4 DEF BufferNamed, NameSeen
  <2>2. pc' = "backup" /\ Awaited' => b # <<>>
    BY <1>1, <1>2, <1>4 DEF BufferNamed, Awaited
  <2> QED BY <1>3, <1>4, <2>1, <2>2 DEF BufferNamed
<1>8. BodyNamed'
  <2>1. InBody' => InBody
    BY <1>1 DEF InBody
  <2>2. ~Stuck
    BY <1>1 DEF Stuck
  <2> QED BY <1>1, <1>2, <2>1, <2>2 DEF BodyNamed
<1> QED BY <1>5, <1>6, <1>7, <1>8 DEF NamesFine

\* What is pushed is on top.
LEMMA StateAfter ==
  ASSUME StackFine, NEW n \in 0 .. Len(yyss) - 1, NEW v, Restacked(n, v)
  PROVE  yystate' = v
<1>1. PICK L \in Nat : L = Len(yyss) /\ L > 0
  BY TopOfStack
<1>2. PICK k : k = L - n + 1
  OBVIOUS
<1>3. Len(yyss') = k /\ yyss'[k] = v
  BY <1>1, <1>2 DEF Restacked
<1> QED BY <1>3 DEF yystate, Last

LEMMA ShiftNames ==
  ASSUME StackFine, TreeFine, NamesFine, Shift
  PROVE  NamesFine'
<1>1. /\ pc = "backup" /\ UNCHANGED <<tree, stringBuffer, scanned, yy_start>> /\ yychar' \in {YYEOF, YYEMPTY}
      /\ NodesNamed /\ NodesLinked /\ BufferNamed /\ BodyNamed /\ (InBody' => InBody)
  BY ShiftTree DEF Shift, Ready, lexVars, NamesFine
<1>2. UNCHANGED <<nodes, rootSection, currentSection, currentValue>> /\ Nodes' = Nodes
  BY <1>1 DEF tree, Nodes
<1>3. PICK v \in Shifts : Push(Append(yyss, v))
  BY DEF Shift
<1>4. yystate' = v
  <2>1. v \in 0 .. 28 /\ yyss \in Seq(0 .. 28)
    <3>1. v \in 1 .. 28
      BY ShiftFollows
    <3> QED BY <3>1, SMT DEF StackFine
  <2>2. yyss' = Append(yyss, v)
    BY <1>3 DEF Push
  <2>3. Pushed(yyss, Append(yyss, v), v)
    BY <2>1, PushFacts
  <2> QED BY <2>2, <2>3 DEF Pushed, yystate, Last
<1>5. Consumes(yystate, yychar, v)
  BY ShiftConsumes
<1>6. (v = 5 => yychar = 10 /\ yystate # 7) /\ v # 7 /\ (yystate = 7 => yychar = 3)
  BY <1>5, SMT DEF Consumes
<1>7. yychar' # 10 /\ yychar' \notin {3, 8}
  BY <1>1, SMT DEF YYEOF, YYEMPTY
<1>8. NodesNamed'
  BY <1>1, <1>2 DEF NodesNamed, ChildrenOf, Pieces
<1>9. NodesLinked'
  BY <1>1, <1>2 DEF NodesLinked
<1>10. BufferNamed'
  <2>1. NameSeen' => NameSeen
    BY <1>4, <1>6, <1>7 DEF NameSeen
  <2>2. Awaited' => Awaited
    BY <1>4, <1>6, <1>7 DEF Awaited
  <2>3. Younger(stringBuffer)' <=> Younger(stringBuffer)
    BY <1>1, <1>2 DEF Younger
  <2> QED BY <1>1, <2>1, <2>2, <2>3 DEF BufferNamed, Pieces
<1>11. BodyNamed'
  <2>1. ~Stuck
    BY <1>6 DEF Stuck
  <2> QED BY <1>1, <1>2, <2>1 DEF BodyNamed
<1> QED BY <1>8, <1>9, <1>10, <1>11 DEF NamesFine

\* "=" makes the name that of a value; what a rule leads from and to.
LEMMA ReduceNamed ==
  ASSUME StackFine, Reduce
  PROVE  \E rule \in 2 .. 17, n \in 0 .. Len(yyss) - 1, v \in 0 .. 28 : \E s, u :
           /\ Acts(rule) /\ Restacked(n, v) /\ Pops(rule, n, Len(yyss)) /\ Pushes(rule, v)
           /\ s = yystate /\ v = yystate' /\ Leads(rule, s, u, v)
           /\ s = 5 => (rule = 11 <=> yychar = 8)
<1>1. PICK rule \in 2 .. 17, n \in 0 .. Len(yyss) - 1, v \in 0 .. 28 : \E s, u :
           /\ Acts(rule) /\ Restacked(n, v) /\ Pops(rule, n, Len(yyss)) /\ Pushes(rule, v)
           /\ s = yystate /\ v = yystate' /\ Leads(rule, s, u, v)
  BY ReduceLeads
<1>6. PICK s, u : s = yystate /\ v = yystate' /\ Leads(rule, s, u, v)
  BY <1>1
<1>2. PICK r \in 2 .. 17, m \in 0 .. Len(yyss) - 1, w \in 0 .. 28 :
        Restacked(m, w) /\ Pushes(r, w) /\ r \in Reduces
  BY ReduceStep
<1>3. w = yystate'
  BY <1>2, StateAfter
<1>4. rule = 11 <=> r = 11
  BY <1>1, <1>2, <1>3 DEF Pushes
<1>5. s = 5 => (r = 11 <=> yychar = 8)
  <2> SUFFICES ASSUME s = 5 PROVE r = 11 <=> yychar = 8
    OBVIOUS
  <2>1. yystate # 4
    BY <1>6, SMT
  <2>2. Decides(yystate, yychar, r)
    BY <1>2, <2>1, ReduceDecides
  <2> QED BY <1>6, <2>2 DEF Decides
<1> QED BY <1>1, <1>4, <1>5, <1>6

\* The sections and the value that the rules of the body are about.
LEMMA BodySection ==
  ASSUME StackFine, TreeFine, InBody
  PROVE  currentSection \in Nodes /\ rootSection <= currentSection /\ rootSection \in Nodes /\ IsRoot(rootSection)
<1>1. PICK sec : Sections(sec)
  BY DEF TreeFine, BodyFine
<1>2. PICK L \in Nat : L = Len(yyss) /\ L > 0
  BY TopOfStack
<1>3. L \in 1 .. L /\ 1 \in 1 .. L
  BY <1>2, SMT
<1>4. IsRoot(rootSection)
  BY DEF TreeFine, BodyFine
<1> QED BY <1>1, <1>2, <1>3, <1>4 DEF Sections

LEMMA BodyValue ==
  ASSUME StackFine, TreeFine, InBody, NEW n \in 0 .. Len(yyss) - 1, Pops(10, n, Len(yyss))
  PROVE  currentValue \in Nodes /\ currentSection < currentValue
<1>1. PICK sec : Sections(sec)
  BY DEF TreeFine, BodyFine
<1>2. PICK L \in Nat : L = Len(yyss) /\ L > 0
  BY TopOfStack
<1>3. n = 4 /\ yyss[L - 3] = 10 /\ \A i \in L - n + 1 .. L : yyss[i] # 7
  BY <1>2 DEF Pops
<1>4. n \in 0 .. L - 1
  BY <1>2
<1>5. PICK d \in {3} : d \in 0 .. 4 /\ d < L /\ L - d = L - 3 /\ L - d \in 1 .. L /\ L \in 1 .. L
  BY <1>2, <1>3, <1>4, SMT
<1>6. \A i \in L - d + 1 .. L : i \in L - n + 1 .. L
  BY <1>2, <1>3, <1>5, SMT
<1>7. \A i \in L - d + 1 .. L : yyss[i] # 7
  BY <1>3, <1>6
<1>8. sec[L - d] = sec[L]
  BY <1>1, <1>2, <1>5, <1>7, SameSection
<1>9. sec[L] = currentSection
  BY <1>1, <1>2 DEF Sections
<1> QED BY <1>1, <1>2, <1>3, <1>5, <1>8, <1>9 DEF Sections

LEMMA BodyNests ==
  ASSUME StackFine, TreeFine, InBody, NEW n \in 0 .. Len(yyss) - 1, Pops(5, n, Len(yyss))
  PROVE  \E under \in Nodes : /\ nodes[currentSection].backlink = under /\ under < currentSection
                              /\ rootSection <= under
<1>1. PICK sec : Sections(sec)
  BY DEF TreeFine, BodyFine
<1>2. PICK L \in Nat : L = Len(yyss) /\ L > 0
  BY TopOfStack
<1>3. n \in 0 .. 4 /\ n < L /\ L - n \in 1 .. L /\ L \in 1 .. L
  <2>1. n \in 0 .. 4 /\ n \in 0 .. L - 1
    BY <1>2 DEF Pops
  <2> QED BY <1>2, <2>1, SMT
<1>4. PICK under \in Nodes : under = sec[L - n] /\ rootSection <= under
  BY <1>1, <1>2, <1>3 DEF Sections
<1>5. PICK s \in Nodes : s = currentSection /\ s = sec[L] /\ s \in Nat
  <2>1. currentSection \in Nat
    BY DEF TreeFine, NodesTyped
  <2> QED BY <1>1, <1>2, <1>3, <2>1 DEF Sections
<1>6. under < s /\ nodes[s].backlink = under
  BY <1>1, <1>2, <1>3, <1>4, <1>5, SectionEnds
<1> QED BY <1>4, <1>5, <1>6

\* Nodes are changed, but their names and sections are not.
LEMMA NamesAlike ==
  ASSUME NodesNamed, NodesLinked, ChildrenFine, UNCHANGED scanned, Nodes' = Nodes,
         \A n \in Nodes :
           /\ nodes'[n].nodeName = nodes[n].nodeName /\ nodes'[n].backlink = nodes[n].backlink
           /\ nodes'[n].nodeType = "VALUE" => nodes[n].nodeType = "VALUE"
           /\ \A c \in ChildrenOf(n)' : c \in ChildrenOf(n) \/ (c \in Nodes /\ nodes[c].nodeName # <<>>)
           /\ nodes[n].backlink = 0 /\ nodes[n].children = <<>> => nodes'[n].children = <<>>
  PROVE  NodesNamed' /\ NodesLinked'
<1>1. \A n \in Nodes : \A c \in ChildrenOf(n) : c \in Nodes
  BY DEF ChildrenFine, ChildrenOf, Under
<1>2. \A n \in Nodes' : \A c \in ChildrenOf(n)' : nodes'[c].nodeName # <<>>
  BY <1>1 DEF NodesNamed
<1>3. NodesNamed'
  BY <1>2 DEF NodesNamed, Pieces
<1>4. NodesLinked'
  BY DEF NodesLinked
<1> QED BY <1>3, <1>4

\* A child is added.
LEMMA NamesAdopt ==
  ASSUME NodesTyped, ChildrenFine, NodesNamed, NodesLinked, UNCHANGED scanned, NEW p \in Nodes, NEW c \in Nodes,
         nodes' = Adopt(p, c), nodes[c].nodeName # <<>>, nodes[p].backlink # 0
  PROVE  /\ NodesNamed' /\ NodesLinked' /\ Nodes' = Nodes
         /\ \A n \in Nodes : nodes'[n].nodeName = nodes[n].nodeName /\ nodes'[n].backlink = nodes[n].backlink
<1>1. PICK q \in NodeRecords : q = nodes[p]
  BY NodeNumbers
<1>2. q.children \in Seq(Nat) /\ c \in Nat
  BY NodeNumbers DEF NodeRecords
<1>3. PICK s : s = Append(q.children, c) /\ Pushed(q.children, s, c)
  BY <1>2, PushFacts
<1>4. PICK r : r = [q EXCEPT !.children = s]
  OBVIOUS
<1>5. r.nodeName = q.nodeName /\ r.backlink = q.backlink /\ r.nodeType = q.nodeType /\ r.children = s
  BY <1>4 DEF NodeRecords
<1>6. nodes' = [nodes EXCEPT ![p] = r]
  BY <1>1, <1>3, <1>4 DEF Adopt
<1>7. Nodes' = Nodes /\ \A n \in Nodes : nodes'[n] = IF n = p THEN r ELSE nodes[n]
  BY <1>6 DEF Nodes, NodesTyped
<1>8. \A d \in Range(s) : d \in Range(q.children) \/ d = c
  <2>1. \A i \in DOMAIN s : i \in DOMAIN (q.children) \/ i = Len(s)
    BY <1>3, SMT DEF Pushed
  <2> QED BY <1>3, <2>1 DEF Pushed, Range
<1>9. ASSUME NEW n \in Nodes
      PROVE  /\ nodes'[n].nodeName = nodes[n].nodeName /\ nodes'[n].backlink = nodes[n].backlink
             /\ nodes'[n].nodeType = "VALUE" => nodes[n].nodeType = "VALUE"
             /\ \A d \in ChildrenOf(n)' : d \in ChildrenOf(n) \/ (d \in Nodes /\ nodes[d].nodeName # <<>>)
             /\ nodes[n].backlink = 0 /\ nodes[n].children = <<>> => nodes'[n].children = <<>>
  <2>1. CASE n = p
    BY <1>1, <1>5, <1>7, <1>8, <2>1 DEF ChildrenOf
  <2>2. CASE n # p
    BY <1>7, <2>2 DEF ChildrenOf
  <2> QED BY <2>1, <2>2
<1>10. NodesNamed' /\ NodesLinked'
  BY <1>7, <1>9, NamesAlike
<1> QED BY <1>7, <1>9, <1>10

\* The value that is read changes.
LEMMA NamesValue ==
  ASSUME NodesTyped, ChildrenFine, NodesNamed, NodesLinked, UNCHANGED scanned, SetValue \/ OpenList
  PROVE  /\ NodesNamed' /\ NodesLinked' /\ Nodes' = Nodes
         /\ \A n \in Nodes : nodes'[n].nodeName = nodes[n].nodeName /\ nodes'[n].backlink = nodes[n].backlink
<1>1. \E r : /\ nodes' = [nodes EXCEPT ![currentValue] = r]
             /\ currentValue \in Nodes =>
                  /\ r.nodeName = nodes[currentValue].nodeName /\ r.backlink = nodes[currentValue].backlink
                  /\ r.children = nodes[currentValue].children
                  /\ r.nodeType = "VALUE" => nodes[currentValue].nodeType = "VALUE"
  <2>1. PICK q : q = nodes[currentValue]
    OBVIOUS
  <2>2. currentValue \in Nodes => q \in NodeRecords
    BY <2>1, NodeNumbers
  <2>3. CASE OpenList
    <3>1. nodes' = [nodes EXCEPT ![currentValue] = [q EXCEPT !.nodeType = "LIST"]]
      BY <2>1, <2>3 DEF OpenList
    <3>2. PICK r : r = [q EXCEPT !.nodeType = "LIST"]
      OBVIOUS
    <3>3. currentValue \in Nodes => /\ r.nodeName = q.nodeName /\ r.backlink = q.backlink
                                    /\ r.children = q.children /\ r.nodeType # "VALUE"
      BY <2>2, <3>2 DEF NodeRecords
    <3> QED BY <2>1, <3>1, <3>2, <3>3
  <2>4. CASE SetValue /\ q.nodeType = "VALUE"
    <3>1. nodes' = [nodes EXCEPT ![currentValue] = [q EXCEPT !.value = stringBuffer]]
      BY <2>1, <2>4 DEF SetValue
    <3>2. PICK r : r = [q EXCEPT !.value = stringBuffer]
      OBVIOUS
    <3>3. currentValue \in Nodes => /\ r.nodeName = q.nodeName /\ r.backlink = q.backlink
                                    /\ r.children = q.children
      BY <2>2, <3>2 DEF NodeRecords
    <3> QED BY <2>1, <2>4, <3>1, <3>2, <3>3
  <2>5. CASE SetValue /\ q.nodeType # "VALUE"
    <3>1. nodes' = [nodes EXCEPT ![currentValue] = [q EXCEPT !.valueList = Append(@, stringBuffer)]]
      BY <2>1, <2>5 DEF SetValue
    <3>2. PICK r : r = [q EXCEPT !.valueList = Append(@, stringBuffer)]
      OBVIOUS
    <3>3. currentValue \in Nodes => /\ r.nodeName = q.nodeName /\ r.backlink = q.backlink
                                    /\ r.children = q.children /\ r.nodeType = q.nodeType
      BY <2>2, <3>2 DEF NodeRecords
    <3> QED BY <2>1, <2>5, <3>1, <3>2, <3>3
  <2> QED BY <2>3, <2>4, <2>5
<1>2. PICK r : /\ nodes' = [nodes EXCEPT ![currentValue] = r]
               /\ currentValue \in Nodes =>
                    /\ r.nodeName = nodes[currentValue].nodeName /\ r.backlink = nodes[currentValue].backlink
                    /\ r.children = nodes[currentValue].children
                    /\ r.nodeType = "VALUE" => nodes[currentValue].nodeType = "VALUE"
  BY <1>1
<1>3. Nodes' = Nodes /\ \A n \in Nodes : nodes'[n] = IF n = currentValue THEN r ELSE nodes[n]
  BY <1>2 DEF Nodes, NodesTyped
<1>4. \A n \in Nodes :
        /\ nodes'[n].nodeName = nodes[n].nodeName /\ nodes'[n].backlink = nodes[n].backlink
        /\ nodes'[n].nodeType = "VALUE" => nodes[n].nodeType = "VALUE"
        /\ nodes'[n].children = nodes[n].children
  BY <1>2, <1>3
<1>5. NodesNamed' /\ NodesLinked'
  BY <1>3, <1>4, NamesAlike DEF ChildrenOf
<1> QED BY <1>3, <1>4, <1>5

\* A node is added.
LEMMA NamesMore ==
  ASSUME NodesTyped, ChildrenFine, NodesNamed, NodesLinked, UNCHANGED scanned, NEW r \in NodeRecords,
         r.children = <<>>, nodes' = Append(nodes, r), Pieces(r.nodeName), Younger(r.nodeName),
         r.nodeType = "VALUE" => r.backlink = 0,
         r.backlink # 0 => r.backlink = New \/ (r.backlink \in Nodes /\ nodes[r.backlink].backlink # 0)
  PROVE  /\ NodesNamed' /\ NodesLinked' /\ New \in Nodes' /\ nodes'[New] = r
         /\ \A n \in Nodes : n \in Nodes' /\ n < New /\ nodes'[n] = nodes[n]
         /\ \A n \in Nodes' : n \in Nodes \/ n = New
<1>1. /\ New \in Nat /\ New \in Nodes' /\ nodes'[New] = r
      /\ \A n \in Nodes : n < New /\ nodes'[n] = nodes[n] /\ n \in Nodes'
      /\ \A n \in Nodes' : n \in Nodes \/ n = New
  BY NodeMade DEF Grows
<1>2. New \notin Nodes
  <2>1. \A n \in Nodes : n # New
    BY <1>1, NodeNumbers, SMT
  <2> QED BY <2>1
<1>3. \A n \in Nodes' : Pieces(nodes[n].nodeName)'
  BY <1>1 DEF NodesNamed, Pieces
<1>4. ASSUME NEW n \in Nodes, nodes[n].nodeName = r.nodeName PROVE r.nodeName = <<>>
  <2> SUFFICES ASSUME r.nodeName # <<>> PROVE FALSE
    OBVIOUS
  <2>1. PICK s \in Seq(Nat) : s = r.nodeName
    BY DEF NodeRecords
  <2>2. s # <<>> /\ s[1] < s[1]
    BY <1>4, <2>1 DEF Younger
  <2>3. 1 \in 1 .. Len(s)
    <3>1. Len(s) \in Nat /\ Len(s) # 0
      BY <2>2, EmptySeq, LenProperties
    <3> QED BY <3>1, SMT
  <2>4. s[1] \in Nat
    BY <2>3, ElementOfSeq
  <2> QED BY <2>2, <2>4, SMT
<1>5. \A m, n \in Nodes' : nodes'[m].nodeName = nodes'[n].nodeName => m = n \/ nodes'[m].nodeName = <<>>
  BY <1>1, <1>4 DEF NodesNamed
<1>6. ASSUME NEW n \in Nodes', NEW c \in ChildrenOf(n)' PROVE nodes'[c].nodeName # <<>>
  <2>1. CASE n \in Nodes
    <3>1. c \in ChildrenOf(n)
      BY <1>1, <1>6, <2>1 DEF ChildrenOf
    <3>2. c \in Nodes
      BY <2>1, <3>1 DEF ChildrenFine, ChildrenOf, Under
    <3> QED BY <1>1, <2>1, <3>1, <3>2 DEF NodesNamed
  <2>2. CASE n = New
    <3>1. DOMAIN (<<>>) = {}
      BY SMT
    <3>2. c \in Range(<<>>)
      BY <1>1, <1>6, <2>2 DEF ChildrenOf
    <3> QED BY <3>1, <3>2 DEF Range
  <2> QED BY <1>1, <2>1, <2>2
<1>7. NodesNamed'
  BY <1>3, <1>5, <1>6 DEF NodesNamed
<1>8. NodesLinked'
  <2>1. \A n \in Nodes' : nodes'[n].nodeType = "VALUE" => nodes'[n].backlink = 0 /\ nodes'[n].children = <<>>
    BY <1>1 DEF NodesLinked
  <2>2. ASSUME NEW n \in Nodes', nodes'[n].backlink # 0
        PROVE  nodes'[n].backlink \in Nodes' /\ nodes'[nodes'[n].backlink].backlink # 0
    <3>1. CASE n \in Nodes
      <4>1. nodes'[n].backlink = nodes[n].backlink
        BY <1>1, <3>1
      <4>2. nodes[n].backlink \in Nodes /\ nodes[nodes[n].backlink].backlink # 0
        BY <2>2, <3>1, <4>1 DEF NodesLinked
      <4> QED BY <1>1, <4>1, <4>2
    <3>2. CASE n = New /\ r.backlink = New
      BY <1>1, <2>2, <3>2
    <3>3. CASE n = New /\ r.backlink # New
      <4>1. r.backlink \in Nodes /\ nodes[r.backlink].backlink # 0
        BY <1>1, <2>2, <3>3
      <4> QED BY <1>1, <3>3, <4>1
    <3> QED BY <1>1, <3>1, <3>2, <3>3
  <2> QED BY <2>1, <2>2 DEF NodesLinked
<1> QED BY <1>1, <1>7, <1>8

\* What a rule does to the names.
Renames(rule) ==
  /\ NodesNamed' /\ NodesLinked' /\ BodyNamed'
  /\ rule \notin {6, 11} /\ Younger(stringBuffer) => Younger(stringBuffer)'

LEMMA BodyNames ==
  ASSUME StackFine, TreeFine, NamesFine, InBody, UNCHANGED <<stringBuffer, scanned, yychar>>,
         NEW rule \in {5, 6, 7, 8, 9, 10, 11, 12, 13, 14, 15, 16, 17}, NEW n \in 0 .. Len(yyss) - 1,
         Acts(rule), Pops(rule, n, Len(yyss)), yystate # 7, yystate' = 7 <=> rule = 6,
         rule \in {6, 11} => yystate = 5 /\ yychar # YYEMPTY, rule = 11 => yychar = 8
  PROVE  Renames(rule)
<1>1. /\ NodesTyped /\ ChildrenFine /\ NodesNamed /\ NodesLinked /\ BufferNamed /\ pc = "backup"
      /\ nodes[currentSection].backlink # 0 /\ \A m \in Nodes : rootSection < m => nodes[m].nodeName # <<>>
  BY DEF TreeFine, NamesFine, BodyNamed, Stuck, InBody
<1>2. PICK s \in Nodes : s = currentSection /\ rootSection <= s /\ s \in Nat /\ s > 0 /\ rootSection \in Nat
  BY <1>1, BodySection, NodeNumbers
<1>3. ASSUME UNCHANGED rootSection, Nodes' = Nodes, nodes'[currentSection'].backlink # 0,
             \A m \in Nodes : nodes'[m].nodeName = nodes[m].nodeName
      PROVE  BodyNamed' /\ (Younger(stringBuffer) => Younger(stringBuffer)')
  BY <1>1, <1>3 DEF BodyNamed, Younger
<1>4. CASE rule = 5
  <2>1. Pops(5, n, Len(yyss))
    BY <1>4
  <2>2. PICK under \in Nodes : nodes[s].backlink = under /\ under < s /\ rootSection <= under
    BY <1>2, <2>1, BodyNests
  <2>3. nodes' = Adopt(under, s) /\ currentSection' = under /\ UNCHANGED rootSection
    <3>1. CloseSection
      BY <1>4, ActsFacts
    <3> QED BY <1>2, <2>2, <3>1 DEF CloseSection
  <2>4. rootSection < s
    <3>1. under \in Nat
      BY <1>1, NodeNumbers
    <3> QED BY <1>2, <2>2, <3>1, SMT
  <2>5. nodes[s].nodeName # <<>> /\ nodes[under].backlink # 0
    BY <1>1, <1>2, <2>2, <2>4 DEF NodesLinked
  <2>6. /\ NodesNamed' /\ NodesLinked' /\ Nodes' = Nodes
        /\ \A m \in Nodes : nodes'[m].nodeName = nodes[m].nodeName /\ nodes'[m].backlink = nodes[m].backlink
    BY <1>1, <1>2, <2>2, <2>3, <2>5, NamesAdopt
  <2> QED BY <1>3, <2>3, <2>5, <2>6 DEF Renames
<1>5. CASE rule = 10
  <2>1. Pops(10, n, Len(yyss))
    BY <1>5
  <2>2. currentValue \in Nodes /\ s < currentValue
    BY <1>2, <2>1, BodyValue
  <2>3. nodes' = Adopt(s, currentValue) /\ UNCHANGED <<rootSection, currentSection>>
    <3>1. Assign
      BY <1>5, ActsFacts
    <3> QED BY <1>2, <3>1 DEF Assign
  <2>4. rootSection < currentValue
    <3>1. currentValue \in Nat
      BY <1>1, <2>2, NodeNumbers
    <3> QED BY <1>2, <2>2, <3>1, SMT
  <2>5. nodes[currentValue].nodeName # <<>> /\ nodes[s].backlink # 0
    BY <1>1, <1>2, <2>2, <2>4
  <2>6. /\ NodesNamed' /\ NodesLinked' /\ Nodes' = Nodes
        /\ \A m \in Nodes : nodes'[m].nodeName = nodes[m].nodeName /\ nodes'[m].backlink = nodes[m].backlink
    BY <1>1, <2>2, <2>3, <2>5, NamesAdopt
  <2>7. nodes'[currentSection'].backlink # 0
    BY <1>2, <2>3, <2>5, <2>6
  <2> QED BY <1>3, <2>3, <2>6, <2>7 DEF Renames
<1>6. CASE rule \in {12, 13, 15}
  <2>1. SetValue \/ OpenList
    BY <1>6, ActsFacts
  <2>2. UNCHANGED <<rootSection, currentSection>>
    BY <2>1 DEF SetValue, OpenList
  <2>3. /\ NodesNamed' /\ NodesLinked' /\ Nodes' = Nodes
        /\ \A m \in Nodes : nodes'[m].nodeName = nodes[m].nodeName /\ nodes'[m].backlink = nodes[m].backlink
    BY <1>1, <2>1, NamesValue
  <2>4. nodes'[currentSection'].backlink # 0
    BY <1>1, <1>2, <2>2, <2>3
  <2> QED BY <1>3, <2>2, <2>3, <2>4 DEF Renames
<1>7. CASE rule \in {7, 8, 9, 14, 16, 17}
  <2>1. UNCHANGED <<nodes, rootSection, currentSection>>
    BY <1>7, ActsFacts DEF tree
  <2>2. Nodes' = Nodes
    BY <2>1 DEF Nodes
  <2>3. NodesNamed' /\ NodesLinked'
    BY <1>1, <2>1, <2>2 DEF NodesNamed, NodesLinked, ChildrenOf, Pieces
  <2> QED BY <1>1, <1>3, <2>1, <2>2, <2>3 DEF Renames
<1>8. CASE rule \in {6, 11}
  <2>1. PICK type \in {"SECTION", "VALUE"}, b \in Nat :
          /\ nodes' = Append(nodes, Node(type, b)) /\ UNCHANGED rootSection
          /\ rule = 6  => type = "SECTION" /\ b = s /\ currentSection' = New
          /\ rule = 11 => type = "VALUE" /\ b = 0 /\ currentSection' = currentSection
    <3>1. CASE rule = 6
      <4>1. NameSection
        BY <3>1, ActsFacts
      <4> QED BY <1>2, <3>1, <4>1 DEF NameSection
    <3>2. CASE rule = 11
      <4>1. NameValue
        BY <3>2, ActsFacts
      <4>2. 0 \in Nat
        OBVIOUS
      <4> QED BY <3>2, <4>1, <4>2 DEF NameValue
    <3> QED BY <1>8, <3>1, <3>2
  <2>2. PICK r \in NodeRecords : /\ r = Node(type, b) /\ r.children = <<>> /\ r.backlink = b
                                 /\ r.nodeType = type /\ r.nodeName = stringBuffer
    <3>1. Node(type, b).nodeType = type /\ Node(type, b).nodeName = stringBuffer
      BY DEF Node
    <3> QED BY <1>1, <3>1, NodeFacts
  <2>3. Younger(r.nodeName) /\ Pieces(r.nodeName)
    BY <1>1, <1>8, <2>2 DEF BufferNamed, NameSeen
  <2>4. r.nodeType = "VALUE" => r.backlink = 0
    BY <1>8, <2>1, <2>2
  <2>5. r.backlink # 0 => r.backlink \in Nodes /\ nodes[r.backlink].backlink # 0
    BY <1>1, <1>2, <1>8, <2>1, <2>2
  <2>6. /\ NodesNamed' /\ NodesLinked' /\ New \in Nodes' /\ nodes'[New] = r
        /\ \A m \in Nodes : m \in Nodes' /\ m < New /\ nodes'[m] = nodes[m]
        /\ \A m \in Nodes' : m \in Nodes \/ m = New
    BY <1>1, <2>1, <2>2, <2>3, <2>4, <2>5, NamesMore
  <2>7. nodes'[currentSection'].backlink # 0
    <3>1. CASE rule = 6
      <4>1. s # 0
        BY <1>2, SMT
      <4>2. currentSection' = New /\ nodes'[New].backlink = s
        BY <2>1, <2>2, <2>6, <3>1
      <4> QED BY <4>1, <4>2
    <3>2. CASE rule = 11
      BY <1>1, <1>2, <2>1, <2>6, <3>2
    <3> QED BY <1>8, <3>1, <3>2
  <2>8. ~Stuck' => stringBuffer # <<>>
    <3>1. rule = 6 /\ ~Stuck' => yychar = 3
      BY <1>8 DEF Stuck
    <3>2. ~Stuck' => yychar \in {3, 8}
      BY <1>8, <3>1
    <3> QED BY <1>1, <1>8, <3>2 DEF BufferNamed, Awaited
  <2>9. BodyNamed'
    <3>1. ASSUME ~Stuck', NEW m \in Nodes', rootSection' < m PROVE nodes'[m].nodeName # <<>>
      BY <1>1, <2>1, <2>2, <2>6, <2>8, <3>1
    <3> QED BY <2>7, <3>1 DEF BodyNamed
  <2> QED BY <1>8, <2>6, <2>9 DEF Renames
<1> QED BY <1>4, <1>5, <1>6, <1>7, <1>8

LEMMA ReduceNames ==
  ASSUME StackFine, TreeFine, NamesFine, Reduce
  PROVE  NamesFine'
<1>1. PICK rule \in 2 .. 17, n \in 0 .. Len(yyss) - 1, v \in 0 .. 28 : \E s, u :
           /\ Acts(rule) /\ Restacked(n, v) /\ Pops(rule, n, Len(yyss)) /\ Pushes(rule, v)
           /\ s = yystate /\ v = yystate' /\ Leads(rule, s, u, v)
           /\ s = 5 => (rule = 11 <=> yychar = 8)
  BY ReduceNamed
<1>2. PICK s, u : s = yystate /\ v = yystate' /\ Leads(rule, s, u, v) /\ (s = 5 => (rule = 11 <=> yychar = 8))
  BY <1>1
<1>3. /\ pc = "backup" /\ UNCHANGED <<stringBuffer, scanned, yychar, yy_start>> /\ (Looks => yychar # YYEMPTY)
      /\ NodesTyped /\ ChildrenFine /\ NodesNamed /\ NodesLinked /\ BufferNamed
  BY DEF Reduce, Ready, lexVars, TreeFine, NamesFine
<1>4. s # 7 /\ v # 5 /\ (rule \in {6, 11} => s = 5)
  BY <1>2, SMT DEF Leads
<1>5. v = 7 <=> rule = 6
  BY <1>1 DEF Pushes
<1>6. s = 5 => yychar # YYEMPTY
  <2>1. 5 \notin Blind
    BY SMT DEF Blind
  <2> QED BY <1>2, <1>3, <2>1, LooksWhen
<1>7. Renames(rule)
  <2>1. CASE rule = 2
    <3>1. EmptyBody /\ v = 2 /\ n = 0 /\ Len(yyss) = 1
      BY <1>1, <2>1, ActsFacts DEF Pops, Pushes
    <3>2. ~(Len(yyss) - n > 1) /\ 2 # 3
      BY <3>1, SMT
    <3>3. ~InBody'
      BY <1>1, <3>1, <3>2, StackBottom DEF InBody
    <3>4. UNCHANGED nodes
      BY <3>1 DEF EmptyBody
    <3> QED BY <1>3, <3>3, <3>4 DEF Renames, NodesNamed, NodesLinked, BodyNamed, ChildrenOf, Pieces, Nodes, Younger
  <2>2. CASE rule = 3
    <3>1. UNCHANGED tree /\ v = 2 /\ n = 3 /\ Len(yyss) = 4
      BY <1>1, <2>2, ActsFacts, SMT DEF Pops, Pushes
    <3>2. ~(Len(yyss) - n > 1) /\ 2 # 3
      BY <3>1, SMT
    <3>3. ~InBody'
      BY <1>1, <3>1, <3>2, StackBottom DEF InBody
    <3>4. UNCHANGED nodes
      BY <3>1 DEF tree
    <3> QED BY <1>3, <3>3, <3>4 DEF Renames, NodesNamed, NodesLinked, BodyNamed, ChildrenOf, Pieces, Nodes, Younger
  <2>3. CASE rule = 4
    <3>1. OpenBody
      BY <1>1, <2>3, ActsFacts
    <3>2. PICK r : r = [Node("SECTION", New) EXCEPT !.nodeName = <<>>]
      OBVIOUS
    <3>3. New \in Nat /\ New # 0
      <4>1. Len(nodes) \in Nat
        BY <1>3, NodeNumbers
      <4> QED BY <4>1, SMT DEF New
    <3>4. /\ r \in NodeRecords /\ r.children = <<>> /\ r.backlink = New /\ r.nodeName = <<>> /\ r.nodeType = "SECTION"
      <4>1. PICK q \in NodeRecords : /\ q = Node("SECTION", New) /\ q.children = <<>> /\ q.backlink = New
                                     /\ q.nodeType = "SECTION"
        <5>1. Node("SECTION", New).nodeType = "SECTION"
          BY DEF Node
        <5> QED BY <1>3, <3>3, <5>1, NodeFacts
      <4>2. <<>> \in Seq(Nat)
        BY EmptySeq
      <4> QED BY <3>2, <4>1, <4>2 DEF NodeRecords
    <3>5. nodes' = Append(nodes, r) /\ rootSection' = New /\ currentSection' = New
      BY <3>1, <3>2 DEF OpenBody
    <3>6. Younger(r.nodeName) /\ Pieces(r.nodeName)
      <4>1. DOMAIN (<<>>) = {}
        BY SMT
      <4> QED BY <3>4, <4>1 DEF Younger, Pieces
    <3>7. r.nodeType = "VALUE" => r.backlink = 0
      BY <3>4
    <3>8. r.backlink # 0 => r.backlink = New \/ (r.backlink \in Nodes /\ nodes[r.backlink].backlink # 0)
      BY <3>4
    <3>9. /\ NodesNamed' /\ NodesLinked' /\ New \in Nodes' /\ nodes'[New] = r
          /\ \A m \in Nodes : m \in Nodes' /\ m < New /\ nodes'[m] = nodes[m]
          /\ \A m \in Nodes' : m \in Nodes \/ m = New
      BY <1>3, <3>4, <3>5, <3>6, <3>7, <3>8, NamesMore
    <3>10. \A m \in Nodes' : ~(rootSection' < m)
      <4>1. \A m \in Nodes : m \in Nat
        BY <1>3, NodeNumbers
      <4>2. \A m \in Nat : m < New => m <= New
        BY <3>3, SMT
      <4>3. New <= New
        BY <3>3, SMT
      <4>4. \A m \in Nodes' : m \in Nat /\ m <= New
        BY <3>3, <3>9, <4>1, <4>2, <4>3
      <4>5. \A m \in Nat : m <= New => ~(New < m)
        BY <3>3, SMT
      <4> QED BY <3>5, <4>4, <4>5
    <3>11. BodyNamed'
      BY <3>3, <3>4, <3>5, <3>9, <3>10 DEF BodyNamed
    <3>12. Younger(stringBuffer) => Younger(stringBuffer)'
      BY <1>3, <3>4, <3>9 DEF Younger
    <3> QED BY <3>9, <3>11, <3>12 DEF Renames
  <2>4. CASE rule \notin {2, 3, 4}
    <3>1. rule \in {5, 6, 7, 8, 9, 10, 11, 12, 13, 14, 15, 16, 17}
      BY <2>4, SMT
    <3>2. InBody
      BY <1>1, <1>3, <2>4 DEF Pops, InBody
    <3>3. rule \in {6, 11} => yystate = 5 /\ yychar # YYEMPTY
      BY <1>2, <1>4, <1>6
    <3>4. rule = 11 => yychar = 8
      BY <1>2, <1>4
    <3>5. yystate # 7 /\ (yystate' = 7 <=> rule = 6)
      BY <1>2, <1>4, <1>5
    <3> QED BY <1>1, <1>3, <3>1, <3>2, <3>3, <3>4, <3>5, BodyNames
  <2> QED BY <2>1, <2>2, <2>3, <2>4
<1>8. BufferNamed'
  <2>1. ASSUME pc' = "backup", NameSeen' PROVE Younger(stringBuffer)'
    <3>1. yychar = 10 /\ v # 7
      BY <1>2, <1>3, <1>4, <2>1 DEF NameSeen
    <3>2. rule \notin {6, 11}
      <4>1. 10 # 8
        OBVIOUS
      <4> QED BY <1>2, <1>4, <1>5, <3>1, <4>1
    <3>3. Younger(stringBuffer)
      BY <1>2, <1>3, <1>4, <3>1 DEF BufferNamed, NameSeen
    <3> QED BY <1>7, <3>2, <3>3 DEF Renames
  <2>2. pc' = "backup" /\ Awaited' => Awaited
    BY <1>2, <1>3, <1>4 DEF Awaited
  <2> QED BY <1>3, <2>1, <2>2 DEF BufferNamed, Pieces
<1> QED BY <1>7, <1>8 DEF Renames, NamesFine

\* Outside of a parse only the names of the nodes count.
LEMMA NamesRest ==
  ASSUME NodesNamed, NodesLinked, Pieces(stringBuffer), UNCHANGED <<nodes, stringBuffer, scanned>>,
         pc' # "backup" \/ (yystate' = 0 /\ yychar' = YYEMPTY /\ ~InBody')
  PROVE  NamesFine'
<1>1. Nodes' = Nodes
  BY DEF Nodes
<1>2. NodesNamed' /\ NodesLinked' /\ Pieces(stringBuffer)'
  BY <1>1 DEF NodesNamed, NodesLinked, ChildrenOf, Pieces
<1>3. ~InBody' /\ ~(pc' = "backup" /\ NameSeen') /\ ~(pc' = "backup" /\ Awaited')
  <2>1. YYEMPTY # 10 /\ 0 # 5
    BY SMT DEF YYEMPTY
  <2> QED BY <2>1 DEF InBody, NameSeen, Awaited
<1> QED BY <1>2, <1>3 DEF NamesFine, BufferNamed, BodyNamed

LEMMA NamesParse ==
  ASSUME StackFine, TreeFine, NamesFine, yy_start \in Starts, Parse
  PROVE  NamesFine'
<1>1. CASE yylex
  BY <1>1, LexNames
<1>2. CASE Shift
  BY <1>2, ShiftNames
<1>3. CASE Reduce
  BY <1>3, ReduceNames
<1>4. CASE Accept \/ SyntaxError
  <2>1. UNCHANGED <<nodes, stringBuffer, scanned>> /\ pc' # "backup"
    BY <1>4 DEF Accept, SyntaxError, Return, lexVars, tree
  <2>2. NodesNamed /\ NodesLinked /\ Pieces(stringBuffer)
    BY DEF NamesFine, BufferNamed
  <2> QED BY <2>1, <2>2, NamesRest
<1> QED BY <1>1, <1>2, <1>3, <1>4 DEF Parse

LEMMA NamesNext ==
  ASSUME IInv, IInv', ParserFine, TreesFine, yy_start \in Starts, NamesFine, [Next]_vars
  PROVE  NamesFine'
<1>1. WhatHappens
  BY Happens DEF ParserFine
<1>2. NodesNamed /\ NodesLinked /\ Pieces(stringBuffer)
  BY DEF NamesFine, BufferNamed
<1>3. CASE UNCHANGED <<lexVars, parseVars>>
  <2>1. UNCHANGED <<pc, yyss, yychar, yy_start, nodes, stringBuffer, scanned, rootSection, currentSection>>
    BY <1>3 DEF lexVars, parseVars, tree
  <2>2. Nodes' = Nodes /\ yystate' = yystate
    BY <2>1 DEF Nodes, yystate, Last
  <2>3. NodesNamed' /\ NodesLinked'
    BY <1>2, <2>1, <2>2 DEF NodesNamed, NodesLinked, ChildrenOf, Pieces
  <2>4. BufferNamed'
    BY <2>1, <2>2 DEF NamesFine, BufferNamed, Pieces, NameSeen, Awaited, Younger
  <2>5. BodyNamed'
    BY <2>1, <2>2 DEF NamesFine, BodyNamed, InBody, Stuck
  <2> QED BY <2>3, <2>4, <2>5 DEF NamesFine
<1>4. ASSUME NEW file, Begin(file) PROVE NamesFine'
  <2>1. UNCHANGED <<nodes, stringBuffer, scanned>> /\ yyss' = <<0>> /\ yychar' = YYEMPTY
    BY <1>4 DEF Begin, Open, tree
  <2>2. Len(yyss') = 1 /\ yyss'[1] = 0 /\ ~(1 > 1)
    BY <2>1, SMT
  <2>3. yystate' = 0 /\ ~InBody'
    BY <2>2 DEF yystate, Last, InBody
  <2> QED BY <1>2, <2>1, <2>3, NamesRest
<1>5. CASE pc = "idle" /\ Opens
  BY <1>3, <1>4, <1>5 DEF Opens
<1>6. CASE pc = "idle" /\ FindsNone
  <2>1. UNCHANGED <<nodes, stringBuffer, scanned>> /\ pc' # "backup"
    BY <1>6 DEF FindsNone, parseVars, tree
  <2> QED BY <1>2, <2>1, NamesRest
<1>7. CASE Parses
  <2>1. StackFine /\ TreeFine
    BY DEF ParserFine, TreesFine
  <2> QED BY <1>7, <2>1, NamesParse DEF Parses
<1>8. CASE Ends
  <2>1. UNCHANGED <<nodes, stringBuffer, scanned>> /\ pc' # "backup"
    BY <1>8 DEF Ends, lexVars, tree
  <2> QED BY <1>2, <2>1, NamesRest
<1>9. CASE Quiet
  BY <1>3, <1>9 DEF Quiet
<1> QED BY <1>1, <1>3, <1>5, <1>6, <1>7, <1>8, <1>9 DEF WhatHappens

LEMMA NamesInit == Init => NamesFine
<1> SUFFICES ASSUME Init PROVE NamesFine
  OBVIOUS
<1>1. pc = "idle" /\ nodes = <<>> /\ stringBuffer = <<>>
  BY DEF Init, ConfigInit, ParseInit, LexInit
<1>2. DOMAIN (<<>>) = {}
  BY SMT
<1>3. NodesNamed /\ NodesLinked /\ Pieces(stringBuffer)
  BY <1>1, <1>2 DEF NodesNamed, NodesLinked, Pieces, Nodes
<1> QED BY <1>1, <1>3 DEF NamesFine, BufferNamed, BodyNamed, InBody

-----------------------------------------------------------------------------
(* What a lookup does along a path. *)

LEMMA OneColon == <<0>> \in Seq(Nat)
<1>1. PICK k \in Nat : k = 0
  BY SMT
<1>2. <<k>> \in Seq(Nat)
  BY SMT
<1> QED BY <1>1, <1>2

\* A child is found by its name, and nothing in a node without children.
LEMMA ChildFound ==
  ASSUME NodesTyped, ChildrenFine, NodesNamed, NEW n \in Nodes, NEW c \in ChildrenOf(n)
  PROVE  c \in Nodes /\ Child(n, nodes[c].nodeName) = c
<1>1. n # 0
  <2>1. n \in Nat /\ n > 0
    BY NodeNumbers
  <2> QED BY <2>1, SMT
<1>2. PICK s \in Seq(Nat) : s = nodes[n].children
  BY NodeNumbers DEF NodeRecords
<1>3. DOMAIN s = 1 .. Len(s) /\ Len(s) \in Nat
  BY LenProperties
<1>4. PICK S : S = {i \in DOMAIN s : nodes[s[i]].nodeName = nodes[c].nodeName}
  OBVIOUS
<1>5. S \in SUBSET Nat /\ S # {}
  <2>1. \A i \in 1 .. Len(s) : i \in Nat
    BY <1>3, SMT
  <2>2. PICK i \in DOMAIN s : s[i] = c
    BY <1>2 DEF ChildrenOf, Range
  <2> QED BY <1>3, <1>4, <2>1, <2>2
<1>6. Min(S) \in S
  <2>1. PICK m \in S : \A k \in S : ~(k < m)
    BY <1>5, LeastOf
  <2>2. \A k \in Nat : \A m2 \in Nat : ~(k < m2) => m2 <= k
    BY SMT
  <2>3. \A k \in S : m <= k
    BY <1>5, <2>1, <2>2
  <2> QED BY <2>1, <2>3 DEF Min
<1>7. \A i \in DOMAIN s : s[i] \in Nodes
  BY <1>2 DEF ChildrenFine, Under, Range
<1>8. c \in Nodes /\ nodes[c].nodeName # <<>>
  BY DEF ChildrenFine, ChildrenOf, Under, NodesNamed
<1>9. s[Min(S)] = c
  BY <1>4, <1>6, <1>7, <1>8 DEF NodesNamed
<1>10. Child(n, nodes[c].nodeName) = s[Min(S)]
  BY <1>1, <1>2, <1>4, <1>5 DEF Child
<1> QED BY <1>8, <1>9, <1>10

LEMMA ChildMissing ==
  ASSUME NEW n, nodes[n].children = <<>>, NEW name
  PROVE  Child(n, name) = 0
<1>1. DOMAIN (<<>>) = {}
  BY SMT
<1> QED BY <1>1 DEF Child

\* The states that a walk goes through, and where it ends.
Walks(f, w, path) == f[0] = w /\ \A i \in 1 .. Len(path) : f[i] = Walk(f[i - 1], path[i])
Goes(w, path, e)  == \E f : Walks(f, w, path) /\ f[Len(path)] = e

LEMMA WalkNone ==
  ASSUME NEW w
  PROVE  Goes(w, <<>>, w)
<1>1. PICK f : f = [i \in {0} |-> w]
  OBVIOUS
<1>2. Len(<<>>) = 0 /\ ~ \E i \in 1 .. 0 : TRUE
  BY SMT
<1>3. f[0] = w
  BY <1>1
<1> QED BY <1>2, <1>3 DEF Goes, Walks

LEMMA WalkOne ==
  ASSUME NEW w, NEW x \in Nat
  PROVE  Goes(w, <<x>>, Walk(w, x))
<1>1. PICK f : f = [i \in {0, 1} |-> IF i = 0 THEN w ELSE Walk(w, x)]
  OBVIOUS
<1>2. 0 # 1 /\ Len(<<x>>) = 1 /\ (<<x>>)[1] = x /\ \A i \in 1 .. 1 : i = 1 /\ i - 1 = 0
  BY SMT
<1>3. f[0] = w /\ f[1] = Walk(w, x)
  BY <1>1, <1>2
<1>4. PICK s : s = <<x>> /\ Len(s) = 1 /\ s[1] = x
  BY <1>2
<1>5. Walks(f, w, s) /\ f[Len(s)] = Walk(w, x)
  BY <1>2, <1>3, <1>4 DEF Walks
<1> QED BY <1>4, <1>5 DEF Goes

\* One after the other.
LEMMA WalkOn ==
  ASSUME NEW a \in Seq(Nat), NEW b \in Seq(Nat), NEW w, NEW x, NEW y, Goes(w, a, x), Goes(x, b, y)
  PROVE  Goes(w, a \o b, y)
<1>1. PICK c : c = a \o b
  OBVIOUS
<1>2. PICK L \in Nat : L = Len(a)
  BY LenProperties
<1>3. PICK M \in Nat : M = Len(b)
  BY LenProperties
<1>4. /\ Len(c) = L + M /\ \A i \in 1 .. L : c[i] = a[i]
      /\ \A i \in L + 1 .. L + M : c[i] = b[i - L]
  BY <1>1, <1>2, <1>3, ConcatProperties
<1>5. PICK f : f[0] = w /\ f[L] = x /\ \A i \in 1 .. L : f[i] = Walk(f[i - 1], a[i])
  BY <1>2 DEF Goes, Walks
<1>6. PICK g : g[0] = x /\ g[M] = y /\ \A i \in 1 .. M : g[i] = Walk(g[i - 1], b[i])
  BY <1>3 DEF Goes, Walks
<1>7. PICK h : h = [i \in 0 .. L + M |-> IF i <= L THEN f[i] ELSE g[i - L]]
  OBVIOUS
<1>8. /\ 0 \in 0 .. L + M /\ 0 <= L /\ L + M \in 0 .. L + M /\ (L + M <= L => L + M = L /\ M = 0) /\ L + M - L = M
      /\ \A i \in 1 .. L + M : /\ i \in 0 .. L + M /\ i - 1 \in 0 .. L + M /\ i \in Int
                               /\ i <= L => i \in 1 .. L /\ i - 1 <= L
                               /\ ~(i <= L) => i \in L + 1 .. L + M /\ i - L \in 1 .. M
                               /\ ~(i <= L) /\ i - 1 <= L => i - 1 = L /\ i - L - 1 = 0
                               /\ i - 1 - L = i - L - 1
  BY SMT
<1>9. h[0] = w
  BY <1>5, <1>7, <1>8
<1>10. h[L + M] = y
  <2>1. CASE L + M <= L
    BY <1>5, <1>6, <1>7, <1>8, <2>1
  <2>2. CASE ~(L + M <= L)
    BY <1>6, <1>7, <1>8, <2>2
  <2> QED BY <2>1, <2>2
<1>11. ASSUME NEW i \in 1 .. L + M PROVE h[i] = Walk(h[i - 1], c[i])
  <2>1. CASE i <= L
    <3>1. h[i] = f[i] /\ h[i - 1] = f[i - 1] /\ c[i] = a[i] /\ i \in 1 .. L
      BY <1>4, <1>7, <1>8, <2>1
    <3> QED BY <1>5, <3>1
  <2>2. CASE ~(i <= L)
    <3>1. PICK j \in 1 .. M : j = i - L /\ j - 1 = i - 1 - L
      BY <1>8, <2>2
    <3>2. h[i] = g[j] /\ c[i] = b[j]
      BY <1>4, <1>7, <1>8, <2>2, <3>1
    <3>3. h[i - 1] = g[j - 1]
      <4>1. CASE i - 1 <= L
        <5>1. h[i - 1] = f[L]
          BY <1>7, <1>8, <2>2, <4>1
        <5>2. j - 1 = 0
          BY <1>8, <2>2, <3>1, <4>1
        <5> QED BY <1>5, <1>6, <5>1, <5>2
      <4>2. CASE ~(i - 1 <= L)
        BY <1>7, <1>8, <3>1, <4>2
      <4> QED BY <4>1, <4>2
    <3> QED BY <1>6, <3>2, <3>3
  <2> QED BY <2>1, <2>2
<1>12. Walks(h, w, c) /\ h[Len(c)] = y
  BY <1>4, <1>9, <1>10, <1>11 DEF Walks
<1> QED BY <1>1, <1>12 DEF Goes

\* A name is gathered.
LEMMA WalkName ==
  ASSUME NEW n, NEW name \in Seq(Nat), \A i \in 1 .. Len(name) : name[i] # 0
  PROVE  Goes([current |-> n, name |-> <<>>], name, [current |-> n, name |-> name])
<1>1. PICK L \in Nat : L = Len(name) /\ \A i \in 1 .. L : name[i] \in Nat /\ name[i] # 0
  BY LenProperties, ElementOfSeq
<1>2. PICK f : f = [i \in 0 .. L |-> [current |-> n, name |-> SubSeq(name, 1, i)]]
  OBVIOUS
<1>3. \A i \in 1 .. L : i \in 0 .. L /\ i - 1 \in 0 .. L
  BY SMT
<1>4. 0 \in 0 .. L /\ L \in 0 .. L
  BY SMT
<1>5. SubSeq(name, 1, 0) = <<>> /\ SubSeq(name, 1, L) = name
  BY <1>1, SMT
<1>6. ASSUME NEW i \in 1 .. L PROVE SubSeq(name, 1, i) = Append(SubSeq(name, 1, i - 1), name[i])
  BY <1>1, SMT
<1>7. ASSUME NEW i \in 1 .. L PROVE f[i] = Walk(f[i - 1], name[i])
  <2>1. PICK r : r = [current |-> n, name |-> SubSeq(name, 1, i - 1)]
    OBVIOUS
  <2>2. Walk(r, name[i]) = [r EXCEPT !.name = Append(@, name[i])]
    BY <1>1 DEF Walk
  <2>3. Walk(r, name[i]) = [current |-> n, name |-> SubSeq(name, 1, i)]
    BY <1>6, <2>1, <2>2
  <2> QED BY <1>2, <1>3, <2>1, <2>3
<1>8. f[0] = [current |-> n, name |-> <<>>] /\ f[L] = [current |-> n, name |-> name]
  BY <1>2, <1>4, <1>5
<1> QED BY <1>1, <1>7, <1>8 DEF Goes, Walks

\* The function that traversePath is computed by.
IsWalk(f, w, path) == f = [i \in 0 .. Len(path) |-> IF i = 0 THEN w ELSE Walk(f[i - 1], path[i])]

LEMMA WalkEnds ==
  ASSUME NEW path \in Seq(Nat), NEW w, NEW e, Goes(w, path, e), NEW g, g = CHOOSE f : IsWalk(f, w, path)
  PROVE  g[Len(path)] = e
<1>1. PICK L \in Nat : L = Len(path)
  BY LenProperties
<1>2. PICK f : f[0] = w /\ f[L] = e /\ \A i \in 1 .. L : f[i] = Walk(f[i - 1], path[i])
  BY <1>1 DEF Goes, Walks
<1>3. /\ \A i \in 0 .. L : i # 0 => i \in 1 .. L /\ i - 1 \in 0 .. L /\ i - 1 < i
      /\ L \in 0 .. L /\ 0 \in 0 .. L /\ \A i \in 0 .. L : i \in Nat
  BY SMT
<1>4. IsWalk(g, w, path)
  <2>1. PICK h : h = [i \in 0 .. L |-> f[i]]
    OBVIOUS
  <2>2. \A i \in 0 .. L : f[i] = IF i = 0 THEN w ELSE Walk(f[i - 1], path[i])
    BY <1>2, <1>3
  <2>3. \A i \in 0 .. L : h[i] = f[i] /\ (i # 0 => h[i - 1] = f[i - 1])
    BY <1>3, <2>1
  <2>4. h = [i \in 0 .. L |-> IF i = 0 THEN w ELSE Walk(h[i - 1], path[i])]
    BY <2>1, <2>2, <2>3
  <2>5. IsWalk(h, w, path)
    BY <1>1, <2>4 DEF IsWalk
  <2> QED BY <2>5
<1>5. \A i \in 0 .. L : g[i] = IF i = 0 THEN w ELSE Walk(g[i - 1], path[i])
  BY <1>1, <1>4 DEF IsWalk
<1> DEFINE S == {i \in 0 .. L : g[i] # f[i]}
<1> SUFFICES ASSUME NEW j \in S PROVE FALSE
  BY <1>1, <1>2, <1>3
<1>6. PICK k \in S : \A n \in S : ~(n < k)
  <2>1. S \in SUBSET Nat
    BY <1>3
  <2> HIDE DEF S
  <2> QED BY <2>1, LeastOf
<1>7. k # 0
  BY <1>2, <1>5, <1>6
<1>8. g[k - 1] = f[k - 1]
  <2>1. k - 1 \notin S
    BY <1>3, <1>6, <1>7
  <2> QED BY <1>3, <1>6, <1>7, <2>1
<1>9. g[k] = f[k]
  BY <1>2, <1>3, <1>5, <1>6, <1>7, <1>8
<1> QED BY <1>6, <1>9

\* A colon in front makes no difference.
LEMMA TraverseIs ==
  ASSUME NEW p \in Seq(Nat), NEW q \in Seq(Nat), NEW root, NEW e,
         (p = q /\ (q = <<>> \/ q[1] # 0)) \/ p = Cons(0, q),
         Goes([current |-> root, name |-> <<>>], q, e)
  PROVE  traversePath(root, p) = IF e.name = <<>> THEN e.current ELSE Child(e.current, e.name)
<1>1. PICK w : w = [current |-> root, name |-> <<>>]
  OBVIOUS
<1>2. PICK g : g = CHOOSE f : IsWalk(f, w, q)
  OBVIOUS
<1>3. g[Len(q)] = e
  BY <1>1, <1>2, WalkEnds
<1>4. q = IF p # <<>> /\ Head(p) = 0 THEN Tail(p) ELSE p
  <2>1. CASE p = Cons(0, q)
    <3>1. p # <<>> /\ Head(p) = 0 /\ Tail(p) = q
      BY <2>1, InFront
    <3> QED BY <3>1
  <2>2. CASE p = q /\ (q = <<>> \/ q[1] # 0)
    BY <2>2 DEF Head
  <2> QED BY <2>1, <2>2
<1>5. traversePath(root, p) = LET end == g[Len(q)] IN IF end.name = <<>> THEN end.current ELSE Child(end.current, end.name)
  BY <1>1, <1>2, <1>4 DEF traversePath, IsWalk
<1> QED BY <1>3, <1>5

\* The walk has come to the end of a node's name.
Arrived(w, n) == w.name # <<>> /\ Child(w.current, w.name) = n

\* From there the path leads on to the end of its own node's name.
Leading(n, p) ==
  /\ p \in [node : Nodes, path : Seq(Nat)]
  /\ \A w : Arrived(w, n) => \E e : Goes(w, p.path, e) /\ Arrived(e, p.node)

\* From a node, with a child's name before that path.
LEMMA LeadsByName ==
  ASSUME NodesTyped, ChildrenFine, NodesNamed, NEW n \in Nodes, NEW c \in ChildrenOf(n), NEW p, Leading(c, p)
  PROVE  \E q \in Seq(Nat) :
           /\ (<<0>> \o nodes[c].nodeName) \o p.path = Cons(0, q) /\ q # <<>> /\ q[1] # 0
           /\ \E e : Goes([current |-> n, name |-> <<>>], q, e) /\ Arrived(e, p.node)
<1>1. c \in Nodes /\ Child(n, nodes[c].nodeName) = c /\ nodes[c].nodeName # <<>> /\ Pieces(nodes[c].nodeName)
  BY ChildFound DEF NodesNamed
<1>2. PICK name \in Seq(Nat) : name = nodes[c].nodeName
  BY <1>1, NodeNumbers DEF NodeRecords
<1>3. PICK L \in Nat : L = Len(name) /\ DOMAIN name = 1 .. L /\ L # 0
  BY <1>1, <1>2, LenProperties, EmptySeq
<1>4. PICK path \in Seq(Nat) : path = p.path
  BY DEF Leading
<1>5. \A i \in 1 .. Len(name) : name[i] # 0
  <2>1. \A k : 1 <= k => k # 0
    BY SMT
  <2> QED BY <1>1, <1>2, <1>3, <2>1 DEF Pieces
<1>6. PICK q : q = name \o path
  OBVIOUS
<1>7. q \in Seq(Nat) /\ q # <<>> /\ q[1] # 0
  <2>1. /\ q \in Seq(Nat) /\ Len(q) = Len(name) + Len(path)
        /\ \A i \in 1 .. Len(q) : q[i] = IF i <= Len(name) THEN name[i] ELSE path[i - Len(name)]
    BY <1>6, ConcatProperties
  <2>2. Len(path) \in Nat
    BY LenProperties
  <2>3. 1 \in 1 .. Len(q) /\ 1 <= Len(name) /\ Len(q) # 0 /\ 1 \in 1 .. Len(name)
    BY <1>3, <2>1, <2>2, SMT
  <2>4. q # <<>>
    BY <2>3, EmptySeq
  <2> QED BY <1>5, <2>1, <2>3, <2>4
<1>8. (<<0>> \o name) \o path = Cons(0, q)
  <2>1. PICK z \in Seq(Nat) : z = <<0>>
    BY OneColon
  <2>2. (z \o name) \o path = z \o (name \o path)
    BY ConcatAssociative
  <2> QED BY <1>6, <2>1, <2>2 DEF Cons
<1>9. PICK w : w = [current |-> n, name |-> name]
  OBVIOUS
<1>10. Goes([current |-> n, name |-> <<>>], name, w)
  BY <1>5, <1>9, WalkName
<1>11. Arrived(w, c)
  BY <1>1, <1>2, <1>9 DEF Arrived
<1>12. PICK e : Goes(w, path, e) /\ Arrived(e, p.node)
  BY <1>4, <1>11 DEF Leading
<1>13. Goes([current |-> n, name |-> <<>>], q, e)
  BY <1>6, <1>10, <1>12, WalkOn
<1> QED BY <1>2, <1>4, <1>7, <1>8, <1>12, <1>13

\* The function that Paths is computed by, found from the last node to the first.
Further(c, P)   == {[p EXCEPT !.path = <<0>> \o nodes[c].nodeName \o @] : p \in P}
PathsFrom(n, F) == {[node |-> n, path |-> <<>>]} \cup UNION {Further(c, F[c]) : c \in ChildrenOf(n)}
IsPaths(F) == F = [n \in Nodes |-> PathsFrom(n, F)]

LEMMA SomePaths ==
  ASSUME NodesTyped, ChildrenFine
  PROVE  \E f : IsPaths(f)
<1>1. PICK L \in Nat : L = Len(nodes) /\ Nodes = 1 .. L
  BY NodeNumbers
<1> DEFINE Partly(m) == \E g : g = [n \in Nodes |-> g[n]] /\ \A n \in Nodes : n > m => g[n] = PathsFrom(n, g)
           S == {m \in Nat : Partly(m)}
<1>2. L \in S
  <2>1. \A n \in Nodes : ~(n > L)
    BY <1>1, SMT
  <2>2. PICK g : g = [n \in Nodes |-> 0]
    OBVIOUS
  <2>3. g = [n \in Nodes |-> g[n]]
    BY <2>2
  <2> QED BY <2>1, <2>3
<1>3. PICK m \in S : \A k \in S : ~(k < m)
  <2>1. S \in SUBSET Nat
    OBVIOUS
  <2> HIDE DEF S
  <2> QED BY <1>2, <2>1, LeastOf
<1>4. PICK g : g = [n \in Nodes |-> g[n]] /\ \A n \in Nodes : n > m => g[n] = PathsFrom(n, g)
  BY <1>3
<1>5. m = 0
  <2> SUFFICES ASSUME m # 0 PROVE FALSE
    OBVIOUS
  <2>1. ~(L < m) /\ m \in Nat
    BY <1>2, <1>3
  <2> HIDE DEF S
  <2>2. m \in Nodes /\ m - 1 \in Nat /\ m - 1 < m /\ \A n \in Nodes : n > m - 1 => n = m \/ (n > m /\ n # m)
    BY <1>1, <2>1, SMT
  <2>3. PICK h : h = [g EXCEPT ![m] = PathsFrom(m, g)]
    OBVIOUS
  <2>4. h = [n \in Nodes |-> h[n]] /\ h[m] = PathsFrom(m, g) /\ \A n \in Nodes : n # m => h[n] = g[n]
    BY <1>4, <2>2, <2>3
  <2>5. \A n \in Nodes : \A d \in ChildrenOf(n) : n < d /\ d \in Nodes
    BY DEF ChildrenFine, ChildrenOf, Under
  <2>6. ASSUME NEW n \in Nodes, n > m - 1 PROVE h[n] = PathsFrom(n, h)
    <3>1. \A d \in ChildrenOf(n) : h[d] = g[d]
      <4>1. \A d \in Nodes : n < d => d # m
        BY <1>1, <2>1, <2>6, SMT
      <4> QED BY <2>4, <2>5, <4>1
    <3>2. PathsFrom(n, h) = PathsFrom(n, g)
      <4>1. {Further(c, h[c]) : c \in ChildrenOf(n)} = {Further(c, g[c]) : c \in ChildrenOf(n)}
        BY <3>1, Zenon
      <4> QED BY <4>1 DEF PathsFrom
    <3> QED BY <1>4, <2>2, <2>4, <2>6, <3>2
  <2>7. Partly(m - 1)
    BY <2>4, <2>6
  <2>8. m - 1 \in S
    <3> HIDE DEF Partly
    <3> QED BY <2>2, <2>7 DEF S
  <2> QED BY <1>3, <2>2, <2>8
<1>6. \A n \in Nodes : n > m
  BY <1>1, <1>5, SMT
<1>7. g = [n \in Nodes |-> PathsFrom(n, g)]
  BY <1>4, <1>6
<1> QED BY <1>7 DEF IsPaths

\* What is in PathsFrom.
ChildrenLead(n, F) == \A c \in ChildrenOf(n) : \A r \in F[c] : Leading(c, r)
LeadsOn(c, r, p) == p = [node |-> r.node, path |-> (<<0>> \o nodes[c].nodeName) \o r.path]
IsPath(n, F, p) ==
  p = [node |-> n, path |-> <<>>] \/ \E c \in ChildrenOf(n) : \E r \in F[c] : LeadsOn(c, r, p)

LEMMA PathsFromIs ==
  ASSUME NEW n, NEW F, NEW p \in PathsFrom(n, F), ChildrenLead(n, F)
  PROVE  IsPath(n, F, p)
<1>1. CASE p = [node |-> n, path |-> <<>>]
  BY <1>1 DEF IsPath
<1>2. ASSUME NEW c \in ChildrenOf(n), p \in Further(c, F[c]) PROVE IsPath(n, F, p)
  <2>1. PICK r \in F[c] : p = [r EXCEPT !.path = (<<0>> \o nodes[c].nodeName) \o r.path]
    BY <1>2 DEF Further
  <2>2. r \in [node : Nodes, path : Seq(Nat)]
    BY DEF Leading, ChildrenLead
  <2>3. PICK x : x = (<<0>> \o nodes[c].nodeName) \o r.path
    OBVIOUS
  <2>4. p = [node |-> r.node, path |-> x]
    BY <2>1, <2>2, <2>3
  <2> QED BY <2>3, <2>4 DEF IsPath, LeadsOn
<1> QED BY <1>1, <1>2 DEF PathsFrom

\* All paths lead: a last node of which one does not has children after it.
LEMMA PathsLead ==
  ASSUME NodesTyped, ChildrenFine, NodesNamed, NEW F, IsPaths(F)
  PROVE  \A n \in Nodes : \A p \in F[n] : Leading(n, p)
<1>1. PICK L \in Nat : L = Len(nodes) /\ Nodes = 1 .. L
  BY NodeNumbers
<1> DEFINE Bad == {n \in Nodes : ~ \A p \in F[n] : Leading(n, p)}
           S   == {k \in Nat : \E n \in Bad : k = L - n}
<1> SUFFICES ASSUME NEW b \in Bad PROVE FALSE
  OBVIOUS
<1>2. \A n \in Nodes : L - n \in Nat
  BY <1>1, SMT
<1>3. L - b \in S /\ S \in SUBSET Nat
  BY <1>2
<1>4. PICK x \in S : \A y \in S : ~(y < x)
  <2> HIDE DEF S
  <2> QED BY <1>3, LeastOf
<1>5. PICK n \in Bad : x = L - n
  BY <1>4
<1>6. n \in Nodes /\ F[n] = PathsFrom(n, F)
  BY <1>5 DEF IsPaths
<1>7. ASSUME NEW c \in ChildrenOf(n) PROVE c \in Nodes /\ \A r \in F[c] : Leading(c, r)
  <2>1. n < c /\ c \in Nodes
    BY <1>6, <1>7 DEF ChildrenFine, Under, ChildrenOf
  <2> SUFFICES ASSUME c \in Bad PROVE FALSE
    BY <2>1
  <2>2. L - c \in S
    BY <1>2, <2>1
  <2>3. L - c < x
    BY <1>1, <1>5, <1>6, <2>1, SMT
  <2> QED BY <1>4, <2>2, <2>3
<1>8. PICK p \in F[n] : ~Leading(n, p)
  BY <1>5
<1>9. CASE p = [node |-> n, path |-> <<>>]
  <2>1. p \in [node : Nodes, path : Seq(Nat)] /\ p.path = <<>> /\ p.node = n
    <3>1. <<>> \in Seq(Nat)
      BY EmptySeq
    <3> QED BY <1>6, <1>9, <3>1
  <2>2. \A w : Goes(w, p.path, w)
    BY <2>1, WalkNone
  <2> QED BY <1>8, <2>1, <2>2 DEF Leading
<1>10. ASSUME NEW c \in ChildrenOf(n), NEW r \in F[c], LeadsOn(c, r, p) PROVE FALSE
  <2>1. Leading(c, r)
    BY <1>7
  <2>2. PICK q \in Seq(Nat) :
          /\ (<<0>> \o nodes[c].nodeName) \o r.path = Cons(0, q)
          /\ \E e : Goes([current |-> n, name |-> <<>>], q, e) /\ Arrived(e, r.node)
    BY <1>6, <2>1, LeadsByName
  <2>3. p.path = Cons(0, q) /\ p.node = r.node
    BY <1>10, <2>2 DEF LeadsOn
  <2>4. Cons(0, q) \in Seq(Nat)
    BY InFront
  <2>5. p \in [node : Nodes, path : Seq(Nat)]
    <3>1. r.node \in Nodes
      BY <2>1 DEF Leading
    <3> QED BY <1>10, <2>2, <2>4, <3>1 DEF LeadsOn
  <2>6. PICK e : Goes([current |-> n, name |-> <<>>], q, e) /\ Arrived(e, r.node)
    BY <2>2
  <2>7. ASSUME NEW w, Arrived(w, n) PROVE Goes(w, p.path, e)
    <3>1. Walk(w, 0) = [current |-> n, name |-> <<>>]
      BY <2>7 DEF Walk, Arrived
    <3>2. PICK z \in Seq(Nat) : z = <<0>>
      BY OneColon
    <3>3. Goes(w, z, [current |-> n, name |-> <<>>])
      BY <3>1, <3>2, WalkOne
    <3>4. Goes(w, z \o q, e)
      BY <2>6, <3>3, WalkOn
    <3> QED BY <2>3, <3>2, <3>4 DEF Cons
  <2>8. \A w : Arrived(w, n) => \E d : Goes(w, p.path, d) /\ Arrived(d, p.node)
    BY <2>3, <2>6, <2>7
  <2> QED BY <1>8, <2>5, <2>8 DEF Leading
<1>11. p \in PathsFrom(n, F) /\ ChildrenLead(n, F)
  BY <1>6, <1>7, <1>8 DEF ChildrenLead
<1>12. IsPath(n, F, p)
  BY <1>11, PathsFromIs
<1> QED BY <1>9, <1>10, <1>12 DEF IsPath

\* What EveryValueIsFound says of a path.
LooksUp(root, p) ==
  /\ traversePath(root, p.path) = p.node
  /\ p.path # <<>> => traversePath(root, Tail(p.path)) = p.node
  /\ TypeAt(root, p.path) = "VALUE" => getString(root, p.path \o <<0>> \o <<1>>, <<>>) = <<>>
  /\ TypeAt(root, p.path) = "SECTION" => \A i \in DOMAIN nodes[p.node].children :
       /\ hasSubkeys(root, p.path)
       /\ traversePath(root, p.path \o <<0>> \o enumerateSubkeys(root, p.path)[i]) = nodes[p.node].children[i]

LEMMA FourInARow ==
  ASSUME NEW a \in Seq(Nat), NEW b \in Seq(Nat), NEW c \in Seq(Nat)
  PROVE  ((a \o b) \o a) \o c = a \o ((b \o a) \o c)
<1>1. PICK d \in Seq(Nat) : d = b \o a
  BY ConcatProperties
<1>2. (a \o b) \o a = a \o d
  BY <1>1, ConcatAssociative
<1>3. (a \o d) \o c = a \o (d \o c)
  BY ConcatAssociative
<1> QED BY <1>1, <1>2, <1>3

\* A path has ended at a node. Behind it a colon and a name ask for a child of that node.
Joined(root, a, m) ==
  \/ a = <<>> /\ m = root
  \/ \E b \in Seq(Nat) : \E e : a = Cons(0, b) /\ Goes([current |-> root, name |-> <<>>], b, e) /\ Arrived(e, m)

LEMMA GoesBelow ==
  ASSUME NEW root, NEW a \in Seq(Nat), NEW m, NEW u \in Seq(Nat), Joined(root, a, m), u # <<>>,
         \A i \in 1 .. Len(u) : u[i] # 0
  PROVE  traversePath(root, a \o <<0>> \o u) = Child(m, u)
<1>1. PICK z \in Seq(Nat) : z = <<0>>
  BY OneColon
<1>2. PICK w : w = [current |-> m, name |-> <<>>]
  OBVIOUS
<1>3. PICK v : v = [current |-> m, name |-> u]
  OBVIOUS
<1>4. Goes(w, u, v)
  BY <1>2, <1>3, WalkName
<1>5. CASE a = <<>> /\ m = root
  <2>1. a \o z = z
    BY <1>5, ConcatEmptySeq
  <2>2. (a \o z) \o u = Cons(0, u)
    BY <1>1, <2>1 DEF Cons
  <2>3. traversePath(root, Cons(0, u)) = IF v.name = <<>> THEN v.current ELSE Child(v.current, v.name)
    <3>1. Cons(0, u) \in Seq(Nat)
      BY InFront
    <3>2. Goes([current |-> root, name |-> <<>>], u, v)
      BY <1>2, <1>4, <1>5
    <3> QED BY <3>1, <3>2, TraverseIs
  <2> QED BY <1>1, <1>3, <2>2, <2>3
<1>6. CASE ~(a = <<>> /\ m = root)
  <2>1. PICK b \in Seq(Nat) :
          \E e : a = Cons(0, b) /\ Goes([current |-> root, name |-> <<>>], b, e) /\ Arrived(e, m)
    BY <1>6 DEF Joined
  <2>2. PICK e : a = Cons(0, b) /\ Goes([current |-> root, name |-> <<>>], b, e) /\ Arrived(e, m)
    BY <2>1
  <2>3. Goes(e, z, w)
    <3>1. Walk(e, 0) = w
      BY <1>2, <2>2 DEF Walk, Arrived
    <3> QED BY <1>1, <3>1, WalkOne
  <2>4. PICK d \in Seq(Nat) : d = b \o z
    BY ConcatProperties
  <2>5. PICK c \in Seq(Nat) : c = d \o u
    BY ConcatProperties
  <2>6. Goes([current |-> root, name |-> <<>>], d, w)
    BY <2>3, <2>4, <2>2, WalkOn
  <2>7. Goes([current |-> root, name |-> <<>>], c, v)
    BY <1>4, <2>5, <2>6, WalkOn
  <2>8. (a \o z) \o u = Cons(0, c)
    <3>1. a = z \o b
      BY <1>1, <2>2 DEF Cons
    <3>2. ((z \o b) \o z) \o u = z \o ((b \o z) \o u)
      BY FourInARow
    <3>3. (a \o z) \o u = z \o c
      BY <2>4, <2>5, <3>1, <3>2
    <3> QED BY <1>1, <3>3 DEF Cons
  <2>9. Cons(0, c) \in Seq(Nat)
    BY InFront
  <2>10. traversePath(root, Cons(0, c)) = IF v.name = <<>> THEN v.current ELSE Child(v.current, v.name)
    BY <2>7, <2>9, TraverseIs
  <2> QED BY <1>1, <1>3, <2>8, <2>10
<1> QED BY <1>5, <1>6

\* The names enumerated for a section lead to its children.
LEMMA SubkeysFound ==
  ASSUME NodesTyped, ChildrenFine, NodesNamed, NEW root, NEW a \in Seq(Nat), NEW m \in Nodes, Joined(root, a, m),
         traversePath(root, a) = m, TypeAt(root, a) = "SECTION", NEW i \in DOMAIN nodes[m].children
  PROVE  /\ hasSubkeys(root, a)
         /\ traversePath(root, a \o <<0>> \o enumerateSubkeys(root, a)[i]) = nodes[m].children[i]
<1>1. PICK c \in ChildrenOf(m) : c = nodes[m].children[i]
  BY DEF ChildrenOf, Range
<1>2. c \in Nodes /\ Child(m, nodes[c].nodeName) = c /\ nodes[c].nodeName # <<>> /\ Pieces(nodes[c].nodeName)
  BY ChildFound DEF NodesNamed
<1>3. PICK u \in Seq(Nat) : u = nodes[c].nodeName
  BY <1>2, NodeNumbers DEF NodeRecords
<1>4. \A k \in 1 .. Len(u) : u[k] # 0
  <2>1. \A k : 1 <= k => k # 0
    BY SMT
  <2>2. DOMAIN u = 1 .. Len(u)
    BY LenProperties
  <2> QED BY <1>2, <1>3, <2>1, <2>2 DEF Pieces
<1>5. u # <<>>
  BY <1>2, <1>3
<1>6. traversePath(root, a \o <<0>> \o u) = c
  <2>1. traversePath(root, a \o <<0>> \o u) = Child(m, u)
    BY <1>4, <1>5, GoesBelow
  <2> QED BY <1>2, <1>3, <2>1
<1>7. enumerateSubkeys(root, a)[i] = u
  BY <1>1, <1>3 DEF enumerateSubkeys
<1>8. nodes[m].children # <<>>
  <2>1. DOMAIN (<<>>) = {}
    BY SMT
  <2> QED BY <2>1
<1>9. hasSubkeys(root, a)
  BY <1>8 DEF hasSubkeys
<1> QED BY <1>1, <1>6, <1>7, <1>9

\* The path of the root itself.
LEMMA RootFound ==
  ASSUME NodesTyped, ChildrenFine, NodesNamed, NodesLinked, NEW root, IsRoot(root),
         NEW p, p = [node |-> root, path |-> <<>>]
  PROVE  LooksUp(root, p)
<1>1. p.path = <<>> /\ p.node = root
  OBVIOUS
<1>2. PICK q \in Seq(Nat) : q = <<>>
  BY EmptySeq
<1>3. PICK e : e = [current |-> root, name |-> <<>>]
  OBVIOUS
<1>4. Goes([current |-> root, name |-> <<>>], q, e)
  BY <1>2, <1>3, WalkNone
<1>5. traversePath(root, q) = IF e.name = <<>> THEN e.current ELSE Child(e.current, e.name)
  <2>1. (q = q /\ (q = <<>> \/ q[1] # 0)) \/ q = Cons(0, q)
    BY <1>2
  <2> QED BY <1>4, <2>1, TraverseIs
<1>6. traversePath(root, p.path) = root
  BY <1>1, <1>2, <1>3, <1>5
<1>7. root \in Nodes /\ root # 0 /\ nodes[root].nodeType # "VALUE"
  <2>1. root \in Nodes /\ root \in Nat /\ root > 0
    BY NodeNumbers DEF IsRoot
  <2>2. root # 0
    BY <2>1, SMT
  <2> QED BY <2>1, <2>2 DEF IsRoot, NodesLinked
<1>8. TypeAt(root, p.path) # "VALUE"
  BY <1>6, <1>7 DEF TypeAt
<1>9. Joined(root, q, root) /\ traversePath(root, q) = root
  BY <1>1, <1>2, <1>6 DEF Joined
<1>10. ASSUME TypeAt(root, q) = "SECTION", NEW i \in DOMAIN nodes[root].children
       PROVE  /\ hasSubkeys(root, q)
              /\ traversePath(root, q \o <<0>> \o enumerateSubkeys(root, q)[i]) = nodes[root].children[i]
  BY <1>7, <1>9, <1>10, SubkeysFound
<1>11. p.path = q
  BY <1>1, <1>2
<1> QED BY <1>1, <1>6, <1>8, <1>10, <1>11 DEF LooksUp

\* A path that begins with the name of a child.
LEMMA ValueFound ==
  ASSUME NodesTyped, ChildrenFine, NodesNamed, NodesLinked, NEW root, NEW p \in [node : Nodes, path : Seq(Nat)],
         NEW q \in Seq(Nat), p.path = Cons(0, q), q # <<>>, q[1] # 0,
         NEW e, Goes([current |-> root, name |-> <<>>], q, e), Arrived(e, p.node)
  PROVE  LooksUp(root, p)
<1>1. PICK m \in Nodes : m = p.node
  OBVIOUS
<1>2. PICK a \in Seq(Nat) : a = p.path
  OBVIOUS
<1>3. a = Cons(0, q) /\ a # <<>> /\ Tail(a) = q
  BY <1>2, InFront
<1>4. (IF e.name = <<>> THEN e.current ELSE Child(e.current, e.name)) = m
  BY <1>1 DEF Arrived
<1>5. traversePath(root, a) = m
  BY <1>3, <1>4, TraverseIs
<1>6. traversePath(root, q) = m
  BY <1>3, <1>4, TraverseIs
<1>7. Joined(root, a, m)
  BY <1>1, <1>3 DEF Joined
<1>8. ASSUME TypeAt(root, a) = "VALUE" PROVE getString(root, a \o <<0>> \o <<1>>, <<>>) = <<>>
  <2>1. m # 0
    <3>1. m \in Nat /\ m > 0
      BY NodeNumbers
    <3> QED BY <3>1, SMT
  <2>2. nodes[m].children = <<>>
    BY <1>5, <1>8, <2>1 DEF TypeAt, NodesLinked
  <2>3. PICK one \in Nat : one = 1 /\ one # 0
    BY SMT
  <2>4. PICK u \in Seq(Nat) : u = <<1>> /\ u # <<>> /\ \A i \in 1 .. Len(u) : u[i] # 0
    <3>1. PICK s : s = <<one>>
      OBVIOUS
    <3>2. s \in Seq(Nat) /\ Len(s) = 1 /\ s[1] = one
      BY <3>1, SMT
    <3>3. s # <<>>
      <4>1. Len(<<>>) = 0 /\ 0 # 1
        BY SMT
      <4> QED BY <3>2, <4>1
    <3>4. \A i \in 1 .. 1 : i = 1
      BY SMT
    <3> QED BY <2>3, <3>1, <3>2, <3>3, <3>4
  <2>5. traversePath(root, a \o <<0>> \o u) = Child(m, u)
    <3>1. u # <<>> /\ \A i \in 1 .. Len(u) : u[i] # 0
      BY <2>4
    <3> QED BY <1>7, <3>1, GoesBelow
  <2>6. Child(m, u) = 0
    BY <2>2, ChildMissing
  <2>7. TypeAt(root, a \o <<0>> \o u) = "NONE"
    BY <2>5, <2>6 DEF TypeAt
  <2>8. getString(root, a \o <<0>> \o u, <<>>) = <<>>
    BY <2>7 DEF getString
  <2> QED BY <2>4, <2>8
<1>9. ASSUME TypeAt(root, a) = "SECTION", NEW i \in DOMAIN nodes[m].children
      PROVE  /\ hasSubkeys(root, a)
             /\ traversePath(root, a \o <<0>> \o enumerateSubkeys(root, a)[i]) = nodes[m].children[i]
  BY <1>5, <1>7, <1>9, SubkeysFound
<1> QED BY <1>1, <1>2, <1>3, <1>5, <1>6, <1>8, <1>9 DEF LooksUp

\* Every path of a tree, from its root down.
LEMMA ValuesFound ==
  ASSUME NodesTyped, ChildrenFine, NodesNamed, NodesLinked, NEW root, IsRoot(root), NEW p \in Paths(root)
  PROVE  LooksUp(root, p)
<1>1. root \in Nodes
  BY DEF IsRoot
<1>2. PICK F : F = CHOOSE f : IsPaths(f)
  OBVIOUS
<1>3. IsPaths(F)
  BY <1>2, SomePaths
<1>4. p \in F[root]
  BY <1>2 DEF Paths, IsPaths, PathsFrom, Further, ChildrenOf
<1>5. p \in PathsFrom(root, F)
  BY <1>1, <1>3, <1>4 DEF IsPaths
<1>6. \A n \in Nodes : \A r \in F[n] : Leading(n, r)
  BY <1>3, PathsLead
<1>7. ChildrenLead(root, F)
  BY <1>1, <1>6 DEF ChildrenLead, ChildrenFine, Under, ChildrenOf
<1>8. IsPath(root, F, p)
  BY <1>5, <1>7, PathsFromIs
<1>9. CASE p = [node |-> root, path |-> <<>>]
  BY <1>9, RootFound
<1>10. ASSUME NEW c \in ChildrenOf(root), NEW r \in F[c], LeadsOn(c, r, p) PROVE LooksUp(root, p)
  <2>1. Leading(c, r)
    BY <1>7 DEF ChildrenLead
  <2>2. PICK q \in Seq(Nat) :
          /\ (<<0>> \o nodes[c].nodeName) \o r.path = Cons(0, q) /\ q # <<>> /\ q[1] # 0
          /\ \E e : Goes([current |-> root, name |-> <<>>], q, e) /\ Arrived(e, r.node)
    BY <1>1, <2>1, LeadsByName
  <2>3. p.path = Cons(0, q) /\ p.node = r.node
    BY <1>10, <2>2 DEF LeadsOn
  <2>4. p \in [node : Nodes, path : Seq(Nat)]
    BY <1>1, <1>4, <1>6 DEF Leading
  <2>5. PICK e : Goes([current |-> root, name |-> <<>>], q, e) /\ Arrived(e, p.node)
    BY <2>2, <2>3
  <2> QED BY <2>2, <2>3, <2>4, <2>5, ValueFound
<1> QED BY <1>8, <1>9, <1>10 DEF IsPath

LEMMA NamesSay ==
  ASSUME TreesFine, NamesFine
  PROVE  EveryValueIsFound
<1>1. NodesTyped /\ ChildrenFine /\ NodesNamed /\ NodesLinked /\ RootsFine
  BY DEF TreesFine, TreeFine, NamesFine
<1>2. ASSUME NEW root \in Roots PROVE IsRoot(root)
  BY <1>1, <1>2 DEF Roots, RootsFine, RootOf
<1>3. \A root \in Roots : \A p \in Paths(root) : LooksUp(root, p)
  BY <1>1, <1>2, ValuesFound
<1> QED BY <1>3 DEF EveryValueIsFound, LooksUp

(* Names in trees are never empty and never the same, and what has a name is linked to its section. *)
THEOREM NamesInvariance == Spec => []NamesFine
<1>1. Init => NamesFine
  BY NamesInit
<1>2. IInv /\ IInv' /\ ParserFine /\ TreesFine /\ SayFine /\ NamesFine /\ [Next]_vars => NamesFine'
  BY NamesNext DEF SayFine, TextFine
<1> QED BY <1>1, <1>2, Invariance, ParserInvariance, TreesInvariance, SayInvariance, PTL DEF Spec

(* In every tree of every configuration, of whatever shape and depth, each node is found under the  *)
(* names that lead to it, with a colon in front of them or without one; nothing is found further    *)
(* down a path that ends at a value, and the subkeys of a section lead to its children.  Lexemes are told apart by when they were scanned, so this is  *)
(* about files that name nothing twice: of two nodes of one name in a section the first is found.   *)
THEOREM EveryNodeHasItsPath == Spec => []EveryValueIsFound
<1>1. TreesFine /\ NamesFine => EveryValueIsFound
  BY NamesSay
<1> QED BY <1>1, TreesInvariance, NamesInvariance, PTL

=============================================================================
