------------------------- MODULE ModuleManagerProofs -------------------------
(***************************************************************************)
(* Theorems about ModuleManager, for any libraries, any number of loads    *)
(* and any nesting of calls, and whatever the files hold: what is said of  *)
(* the modules does not depend on how the parser builds its trees.         *)
(***************************************************************************)
EXTENDS ModuleManager, FiniteSetTheorems, SequenceTheorems, TLAPS

-----------------------------------------------------------------------------
(* The inductive invariant. *)

Encapsulations ==
  [moduleId : Nat, library : Libraries, configuration : Nat, moduleInterface : Nat]
Instances  == [alive : BOOLEAN, started : BOOLEAN, of : Encapsulations]
LoadFrames == [at : {"parse", "init", "start"}, it : Encapsulations]
StopFrames == [at : {"stop"}, it : Encapsulations, call : {"unloadModule", "unloadAll"},
               force : BOOLEAN, refused : SUBSET Nat]

\* A configuration's tree is what the parser leaves there; nothing is said of it.
ConfigTyped ==
  /\ configurations \in Seq(Range(configurations))
  /\ \A c \in DOMAIN configurations :
       configurations[c] = [alive |-> configurations[c].alive, m_rootNode |-> configurations[c].m_rootNode]

Typed ==
  /\ ConfigTyped
  /\ m_modules \in Seq(Encapsulations) /\ m_idCounter \in Nat
  /\ instances \in Seq(Instances) /\ frames \in Seq(LoadFrames \cup StopFrames)
  /\ mapped \in [Libraries -> Nat] /\ leaks \in [Libraries -> Nat]

Usable(c) == c \in DOMAIN configurations /\ configurations[c].alive
Filled(c) == Usable(c) /\ configurations[c].m_rootNode # 0

\* The instance is that of the load or the module, which is known by the same things.
Matches(it, started) ==
  /\ it.moduleInterface \in DOMAIN instances
  /\ instances[it.moduleInterface].alive /\ instances[it.moduleInterface].started = started
  /\ instances[it.moduleInterface].of.library = it.library
  /\ instances[it.moduleInterface].of.configuration = it.configuration

\* The modules in the list.
ModuleFine(m) ==
  /\ Matches(m, TRUE)
  /\ m.moduleId < m_idCounter
  /\ m.configuration # 0 => Filled(m.configuration)

ModulesFine == \A i \in DOMAIN m_modules : ModuleFine(m_modules[i])

ModulesDiffer ==
  \A i, k \in DOMAIN m_modules :
    i # k => /\ m_modules[i].moduleId # m_modules[k].moduleId
             /\ m_modules[i].moduleInterface # m_modules[k].moduleInterface
             /\ m_modules[i].configuration = m_modules[k].configuration => m_modules[i].configuration = 0

\* The loads under way.
Loads == {k \in DOMAIN frames : frames[k].at # "stop"}

LoadFine(f) ==
  /\ f.at = "parse" => f.it.configuration # 0
  /\ f.it.configuration # 0 =>
       /\ Usable(f.it.configuration) /\ (f.at # "parse" => Filled(f.it.configuration))
       /\ \A i \in DOMAIN m_modules : m_modules[i].configuration # f.it.configuration
  /\ f.at = "start" => Matches(f.it, FALSE)

LoadsFine == \A k \in Loads : LoadFine(frames[k])

LoadsDiffer ==
  \A j, k \in Loads :
    j # k => /\ frames[j].it.configuration = frames[k].it.configuration => frames[j].it.configuration = 0
             /\ frames[j].at = "start" /\ frames[k].at = "start" =>
                  frames[j].it.moduleInterface # frames[k].it.moduleInterface

\* A configuration with a tree has an owner.
Owned(c) ==
  \/ \E k \in Loads : frames[k].it.configuration = c
  \/ \E i \in DOMAIN instances :
       instances[i].alive /\ instances[i].started /\ instances[i].of.configuration = c

OwnersFine == \A c \in DOMAIN configurations : Filled(c) => Owned(c)

\* The modules that are being stopped are in the list, each once; whatever the sweep
\* has gone past refused to stop.
StopsFine ==
  \A k \in DOMAIN frames \ Loads : \E i \in DOMAIN m_modules :
    /\ m_modules[i] = frames[k].it
    /\ frames[k].call = "unloadAll" => \A j \in 1 .. i - 1 : m_modules[j].moduleId \in frames[k].refused

StopsDiffer ==
  \A j, k \in DOMAIN frames \ Loads :
    j < k => frames[j].it.moduleId # frames[k].it.moduleId /\ frames[k].call # "unloadAll"

\* How often each library is open.
CountsFine ==
  \A l \in Libraries : mapped[l] = Cardinality(Loading(l)) + Cardinality(Started(l)) + leaks[l]

IInv ==
  /\ Typed /\ ModulesFine /\ ModulesDiffer /\ LoadsFine /\ LoadsDiffer /\ OwnersFine
  /\ StopsFine /\ StopsDiffer /\ CountsFine

-----------------------------------------------------------------------------
(* What is done to the lists. *)

\* Pushed, popped, its last element replaced, and an element taken out.
Pushed(s, t, e) ==
  /\ Len(s) \in Nat /\ Len(t) = Len(s) + 1 /\ DOMAIN s = 1 .. Len(s) /\ DOMAIN t = 1 .. Len(t)
  /\ t[Len(t)] = e /\ \A i \in DOMAIN s : t[i] = s[i]

Popped(s, t) ==
  /\ Len(s) \in Nat /\ Len(s) > 0 /\ Len(t) = Len(s) - 1
  /\ DOMAIN s = 1 .. Len(s) /\ DOMAIN t = 1 .. Len(t)
  /\ \A i \in DOMAIN t : t[i] = s[i]

Replaced(s, t, e) ==
  /\ Len(s) \in Nat /\ Len(s) > 0 /\ Len(t) = Len(s) /\ DOMAIN s = 1 .. Len(s) /\ DOMAIN t = DOMAIN s
  /\ t[Len(s)] = e /\ \A i \in DOMAIN s : i # Len(s) => t[i] = s[i]

Removed(s, t, i) ==
  /\ Len(s) \in Nat /\ Len(t) = Len(s) - 1 /\ DOMAIN s = 1 .. Len(s) /\ DOMAIN t = 1 .. Len(t)
  /\ \A k \in DOMAIN t : t[k] = IF k < i THEN s[k] ELSE s[k + 1]

LEMMA PushFacts ==
  ASSUME NEW S, NEW s \in Seq(S), NEW e \in S
  PROVE  Append(s, e) \in Seq(S) /\ Pushed(s, Append(s, e), e)
<1> DEFINE t == Append(s, e)
<1>1. /\ t \in Seq(S) /\ Len(t) = Len(s) + 1
      /\ \A i \in 1 .. Len(s) : t[i] = s[i]
      /\ t[Len(s) + 1] = e
  BY AppendProperties
<1> HIDE DEF t
<1>2. Len(s) \in Nat /\ DOMAIN s = 1 .. Len(s) /\ DOMAIN t = 1 .. Len(t)
  BY <1>1, LenProperties
<1>3. t \in Seq(S) /\ Pushed(s, t, e)
  BY <1>1, <1>2 DEF Pushed
<1> QED BY <1>3 DEF t

LEMMA PopFacts ==
  ASSUME NEW S, NEW s \in Seq(S), s # <<>>
  PROVE  /\ Front(s) \in Seq(S) /\ Popped(s, Front(s))
         /\ Last(s) = s[Len(s)] /\ Len(s) \in DOMAIN s /\ Last(s) \in S
<1> DEFINE n == Len(s) - 1
           t == SubSeq(s, 1, n)
<1>1. /\ Len(s) \in Nat /\ Len(s) > 0 /\ DOMAIN s = 1 .. Len(s)
      /\ \A i \in 1 .. Len(s) : s[i] \in S
  <2>1. Len(s) \in Nat \ {0} /\ DOMAIN s = 1 .. Len(s)
    BY EmptySeq, LenProperties
  <2>2. \A i \in 1 .. Len(s) : s[i] \in S
    BY ElementOfSeq
  <2> QED BY <2>1, <2>2, SMT
<1>2. 1 \in Int /\ n \in Int /\ n >= 0 /\ n + 1 = Len(s) /\ \A i \in 1 .. n : i \in 1 .. Len(s)
  BY <1>1, SMT
<1> HIDE DEF n
<1>3. /\ t \in Seq(S) /\ Len(t) = (IF 1 <= n THEN n - 1 + 1 ELSE 0)
      /\ \A i \in 1 .. n - 1 + 1 : t[i] = s[1 + i - 1]
  BY <1>1, <1>2, SubSeqProperties
<1> HIDE DEF t
<1>4. Len(t) = n /\ \A i \in 1 .. n : t[i] = s[i]
  BY <1>2, <1>3, SMT
<1>5. DOMAIN t = 1 .. Len(t)
  BY <1>3, LenProperties
<1>6. Front(s) = t
  BY DEF Front, t, n
<1>7. Len(t) = Len(s) - 1
  BY <1>4 DEF n
<1>8. Len(s) \in 1 .. Len(s)
  BY <1>1, SMT
<1>9. \A i \in 1 .. Len(t) : t[i] = s[i]
  BY <1>4
<1>10. Popped(s, t)
  BY <1>1, <1>5, <1>7, <1>9 DEF Popped
<1> QED BY <1>1, <1>3, <1>6, <1>8, <1>10 DEF Last

LEMMA ReplaceFacts ==
  ASSUME NEW S, NEW s \in Seq(S), s # <<>>, NEW e \in S
  PROVE  Append(Front(s), e) \in Seq(S) /\ Replaced(s, Append(Front(s), e), e)
<1> DEFINE f == Front(s)
           t == Append(f, e)
<1>1. f \in Seq(S) /\ Popped(s, f)
  BY PopFacts
<1> HIDE DEF f
<1>2. t \in Seq(S) /\ Pushed(f, t, e)
  BY <1>1, PushFacts
<1> HIDE DEF t
<1>3. /\ Len(s) \in Nat /\ Len(s) > 0 /\ Len(f) = Len(s) - 1 /\ Len(t) = Len(f) + 1
      /\ DOMAIN s = 1 .. Len(s) /\ DOMAIN f = 1 .. Len(f) /\ DOMAIN t = 1 .. Len(t)
      /\ t[Len(t)] = e
  BY <1>1, <1>2 DEF Popped, Pushed
<1>4. Len(t) = Len(s) /\ \A i \in 1 .. Len(s) : i # Len(s) => i \in 1 .. Len(f)
  BY <1>3, SMT
<1>5. \A i \in DOMAIN s : i # Len(s) => t[i] = s[i]
  BY <1>1, <1>2, <1>3, <1>4 DEF Popped, Pushed
<1>6. Replaced(s, t, e)
  BY <1>3, <1>4, <1>5 DEF Replaced
<1> QED BY <1>2, <1>6 DEF t, f

LEMMA RemoveFacts ==
  ASSUME NEW S, NEW s \in Seq(S), NEW i \in DOMAIN s
  PROVE  RemoveAt(s, i) \in Seq(S) /\ Removed(s, RemoveAt(s, i), i)
<1> DEFINE l == Len(s)
           m == i - 1
           n == i + 1
           f == SubSeq(s, 1, m)
           g == SubSeq(s, n, l)
           t == f \o g
<1>1. l \in Nat /\ DOMAIN s = 1 .. l /\ \A k \in 1 .. l : s[k] \in S
  BY LenProperties, ElementOfSeq
<1>2. /\ i \in Nat /\ i >= 1 /\ i <= l /\ m = i - 1 /\ n = i + 1 /\ 1 \in Int /\ m \in Int /\ n \in Int /\ l \in Int
      /\ (\A k \in 1 .. m : k \in 1 .. l) /\ (\A k \in n .. l : k \in 1 .. l)
  BY <1>1, SMT
<1> HIDE DEF l, m, n
<1>3. /\ (\A k \in 1 .. m : s[k] \in S) /\ (\A k \in n .. l : s[k] \in S)
  BY <1>1, <1>2
<1>4. f \in Seq(S) /\ Len(f) = (IF 1 <= m THEN m - 1 + 1 ELSE 0)
      /\ \A k \in 1 .. m - 1 + 1 : f[k] = s[1 + k - 1]
  BY <1>2, <1>3, SubSeqProperties
<1>5. g \in Seq(S) /\ Len(g) = (IF n <= l THEN l - n + 1 ELSE 0)
      /\ \A k \in 1 .. l - n + 1 : g[k] = s[n + k - 1]
  BY <1>2, <1>3, SubSeqProperties
<1> HIDE DEF f, g
<1>6. Len(f) = m /\ \A k \in 1 .. m : f[k] = s[k]
  BY <1>2, <1>4, SMT
<1>7. Len(g) = l - i /\ \A k \in 1 .. l - i : g[k] = s[i + k]
  <2>1. l - n + 1 = l - i /\ (IF n <= l THEN l - n + 1 ELSE 0) = l - i
    BY <1>2, SMT
  <2>2. \A k \in 1 .. l - i : n + k - 1 = i + k
    BY <1>2, SMT
  <2> QED BY <1>5, <2>1, <2>2
<1>8. /\ t \in Seq(S) /\ Len(t) = Len(f) + Len(g)
      /\ \A k \in 1 .. Len(f) + Len(g) : t[k] = IF k <= Len(f) THEN f[k] ELSE g[k - Len(f)]
  BY <1>4, <1>5, ConcatProperties
<1>9. DOMAIN t = 1 .. Len(t)
  BY <1>8, LenProperties
<1> HIDE DEF t
<1>10. Len(t) = l - 1
  BY <1>2, <1>6, <1>7, <1>8, SMT
<1>11. ASSUME NEW k \in 1 .. Len(t) PROVE t[k] = IF k < i THEN s[k] ELSE s[k + 1]
  <2>1. k \in 1 .. Len(f) + Len(g) /\ k \in Nat /\ m \in Nat
    BY <1>2, <1>8, SMT
  <2>2. CASE k < i
    <3>1. k <= m /\ k \in 1 .. m /\ Len(f) = m
      BY <1>2, <1>6, <2>1, <2>2, SMT
    <3> QED BY <1>6, <1>8, <2>1, <2>2, <3>1
  <2>3. CASE ~(k < i)
    <3>1. k <= l - 1
      BY <1>10, SMT
    <3>2. ~(k <= m) /\ k - m \in 1 .. l - i /\ i + (k - m) = k + 1
      BY <1>2, <2>1, <2>3, <3>1, SMT
    <3>3. Len(f) = m /\ g[k - m] = s[i + (k - m)]
      BY <1>6, <1>7, <3>2
    <3> QED BY <1>8, <2>1, <2>3, <3>2, <3>3
  <2> QED BY <2>2, <2>3
<1>12. RemoveAt(s, i) = t
  BY DEF RemoveAt, t, f, g, m, n, l
<1> QED BY <1>1, <1>8, <1>9, <1>10, <1>11, <1>12 DEF Removed, l

-----------------------------------------------------------------------------
(* What is done to the configurations. *)


LEMMA ConfigDomain ==
  ConfigTyped => /\ Len(configurations) \in Nat /\ DOMAIN configurations = 1 .. Len(configurations)
                 /\ 0 \notin DOMAIN configurations
<1> SUFFICES ASSUME ConfigTyped
             PROVE  /\ Len(configurations) \in Nat /\ DOMAIN configurations = 1 .. Len(configurations)
                    /\ 0 \notin DOMAIN configurations
  OBVIOUS
<1>1. Len(configurations) \in Nat /\ DOMAIN configurations = 1 .. Len(configurations)
  BY LenProperties DEF ConfigTyped
<1>2. 0 \notin 1 .. Len(configurations)
  BY <1>1, SMT
<1> QED BY <1>1, <1>2

\* One more.
LEMMA Adds ==
  ASSUME ConfigTyped, NEW alive \in BOOLEAN,
         configurations' = Append(configurations, [alive |-> alive, m_rootNode |-> 0])
  PROVE  /\ ConfigTyped' /\ Len(configurations') \in Nat /\ Len(configurations') # 0
         /\ Len(configurations') \notin DOMAIN configurations
         /\ \A d : Usable(d)' <=> Usable(d) \/ (alive /\ d = Len(configurations'))
         /\ \A d : Filled(d)' <=> Filled(d)
<1> DEFINE r == [alive |-> alive, m_rootNode |-> 0]
           S == Range(configurations) \cup {r}
<1>1. configurations \in Seq(S)
  <2>1. Range(configurations) \subseteq S
    OBVIOUS
  <2> QED BY <2>1, SeqMonotonic DEF ConfigTyped
<1>2. r \in S
  OBVIOUS
<1> HIDE DEF S, r
<1>3. configurations' \in Seq(S) /\ Pushed(configurations, configurations', r)
  BY <1>1, <1>2, PushFacts DEF r
<1>4. configurations' \in Seq(Range(configurations'))
  BY <1>3, SeqOfRange
<1>5. /\ Len(configurations) \in Nat /\ Len(configurations') = Len(configurations) + 1
      /\ DOMAIN configurations = 1 .. Len(configurations) /\ DOMAIN configurations' = 1 .. Len(configurations')
      /\ configurations'[Len(configurations')] = r
      /\ \A d \in DOMAIN configurations : configurations'[d] = configurations[d]
  BY <1>3 DEF Pushed
<1>6. /\ Len(configurations') \in Nat /\ Len(configurations') # 0
      /\ Len(configurations') \notin DOMAIN configurations /\ Len(configurations') \in DOMAIN configurations'
      /\ \A d : d \in DOMAIN configurations' <=> d \in DOMAIN configurations \/ d = Len(configurations')
  BY <1>5, SMT
<1>7. r.alive = alive /\ r.m_rootNode = 0 /\ r = [alive |-> r.alive, m_rootNode |-> r.m_rootNode]
  BY DEF r
<1>8. ConfigTyped'
  <2>1. \A d \in DOMAIN configurations' :
          configurations'[d] = [alive |-> configurations'[d].alive, m_rootNode |-> configurations'[d].m_rootNode]
    <3> SUFFICES ASSUME NEW d \in DOMAIN configurations'
                 PROVE  configurations'[d] =
                          [alive |-> configurations'[d].alive, m_rootNode |-> configurations'[d].m_rootNode]
      OBVIOUS
    <3>1. CASE d \in DOMAIN configurations
      BY <1>5, <3>1 DEF ConfigTyped
    <3>2. CASE d = Len(configurations')
      BY <1>5, <1>7, <3>2
    <3> QED BY <1>6, <3>1, <3>2
  <2> QED BY <1>4, <2>1 DEF ConfigTyped
<1>9. \A d : Usable(d)' <=> Usable(d) \/ (alive /\ d = Len(configurations'))
  BY <1>5, <1>6, <1>7 DEF Usable
<1>10. \A d : Filled(d)' <=> Filled(d)
  BY <1>5, <1>6, <1>7 DEF Usable, Filled
<1> QED BY <1>6, <1>8, <1>9, <1>10

\* One is changed.
LEMMA Changes ==
  ASSUME ConfigTyped, NEW c \in DOMAIN configurations, NEW alive, NEW root,
         configurations' = [configurations EXCEPT ![c] = [alive |-> alive, m_rootNode |-> root]]
  PROVE  /\ ConfigTyped' /\ DOMAIN configurations' = DOMAIN configurations
         /\ configurations'[c].alive = alive /\ configurations'[c].m_rootNode = root
         /\ \A d \in DOMAIN configurations : d # c => configurations'[d] = configurations[d]
<1> DEFINE r == [alive |-> alive, m_rootNode |-> root]
           S == Range(configurations) \cup {r}
<1>1. configurations \in Seq(S)
  <2>1. Range(configurations) \subseteq S
    OBVIOUS
  <2> QED BY <2>1, SeqMonotonic DEF ConfigTyped
<1>2. r \in S /\ r.alive = alive /\ r.m_rootNode = root /\ r = [alive |-> r.alive, m_rootNode |-> r.m_rootNode]
  OBVIOUS
<1>3. configurations' = [configurations EXCEPT ![c] = r]
  OBVIOUS
<1> HIDE DEF S, r
<1>4. c \in 1 .. Len(configurations)
  BY ConfigDomain
<1>5. configurations' \in Seq(S)
  BY <1>1, <1>2, <1>3, <1>4, ExceptSeq
<1>6. configurations' \in Seq(Range(configurations'))
  BY <1>5, SeqOfRange
<1>7. /\ DOMAIN configurations' = DOMAIN configurations /\ configurations'[c] = r
      /\ \A d \in DOMAIN configurations : d # c => configurations'[d] = configurations[d]
  BY <1>3
<1>8. ConfigTyped'
  <2>1. \A d \in DOMAIN configurations' :
          configurations'[d] = [alive |-> configurations'[d].alive, m_rootNode |-> configurations'[d].m_rootNode]
    BY <1>2, <1>7 DEF ConfigTyped
  <2> QED BY <1>6, <2>1 DEF ConfigTyped
<1> QED BY <1>2, <1>7, <1>8

LEMMA Deletes ==
  ASSUME ConfigTyped, NEW c, c # 0 => c \in DOMAIN configurations, Delete(c)
  PROVE  /\ ConfigTyped'
         /\ \A d : Usable(d)' <=> Usable(d) /\ d # c
         /\ \A d : Filled(d)' <=> Filled(d) /\ d # c
<1>1. CASE c = 0
  <2>1. configurations' = configurations
    BY <1>1 DEF Delete, configVars
  <2> QED BY <1>1, <2>1, ConfigDomain DEF ConfigTyped, Usable, Filled
<1>2. CASE c # 0
  <2> DEFINE root == configurations[c].m_rootNode
             alive == configurations[c].alive
  <2>1. configurations[c] = [alive |-> alive, m_rootNode |-> root]
    BY <1>2 DEF ConfigTyped
  <2> HIDE DEF root, alive
  <2>2. configurations' = [configurations EXCEPT ![c].alive = FALSE]
    BY <1>2 DEF Delete
  <2>3. [configurations[c] EXCEPT !.alive = FALSE] = [alive |-> FALSE, m_rootNode |-> root]
    <3>1. \A e : [configurations[c] EXCEPT !.alive = e] = [alive |-> e, m_rootNode |-> root]
      BY <2>1
    <3> QED BY <3>1
  <2>4. configurations' = [configurations EXCEPT ![c] = [alive |-> FALSE, m_rootNode |-> root]]
    BY <2>2, <2>3
  <2>5. /\ ConfigTyped' /\ DOMAIN configurations' = DOMAIN configurations
        /\ configurations'[c].alive = FALSE
        /\ \A d \in DOMAIN configurations : d # c => configurations'[d] = configurations[d]
    BY <1>2, <2>4, Changes
  <2> QED BY <1>2, <2>5 DEF Usable, Filled
<1> QED BY <1>1, <1>2

LEMMA Takes ==
  ASSUME ConfigTyped, NEW c, Usable(c), ~Throws, configurations' = TakeTree(c)
  PROVE  /\ ConfigTyped'
         /\ \A d : Usable(d)' <=> Usable(d)
         /\ \A d : Filled(d)' <=> Filled(d) \/ d = c
<1> DEFINE alive == configurations[c].alive
<1>1. /\ c \in DOMAIN configurations
      /\ configurations[c] = [alive |-> configurations[c].alive, m_rootNode |-> configurations[c].m_rootNode]
  BY DEF ConfigTyped, Usable
<1>2. configurations' = [configurations EXCEPT ![c].m_rootNode = rootSection] /\ rootSection # 0
  BY DEF TakeTree, Throws
<1>3. [configurations[c] EXCEPT !.m_rootNode = rootSection] = [alive |-> alive, m_rootNode |-> rootSection]
  BY <1>1
<1>4. configurations' = [configurations EXCEPT ![c] = [alive |-> alive, m_rootNode |-> rootSection]]
  BY <1>2, <1>3
<1>5. /\ ConfigTyped' /\ DOMAIN configurations' = DOMAIN configurations
      /\ configurations'[c].alive = alive /\ configurations'[c].m_rootNode = rootSection
      /\ \A d \in DOMAIN configurations : d # c => configurations'[d] = configurations[d]
  BY <1>1, <1>4, Changes
<1> QED BY <1>2, <1>5 DEF Usable, Filled

-----------------------------------------------------------------------------
(* The lists and the counts that go with them. *)

LEMMA FrameFacts ==
  Typed => /\ Len(frames) \in Nat /\ DOMAIN frames = 1 .. Len(frames)
           /\ Len(m_modules) \in Nat /\ DOMAIN m_modules = 1 .. Len(m_modules)
           /\ Len(instances) \in Nat /\ DOMAIN instances = 1 .. Len(instances)
           /\ \A k \in DOMAIN frames : frames[k] \in LoadFrames \cup StopFrames
           /\ \A k \in Loads : frames[k] \in LoadFrames
           /\ \A k \in DOMAIN frames \ Loads : frames[k] \in StopFrames
           /\ \A i \in DOMAIN m_modules : m_modules[i] \in Encapsulations
           /\ \A i \in DOMAIN instances : instances[i] \in Instances
<1> SUFFICES ASSUME Typed
             PROVE  /\ Len(frames) \in Nat /\ DOMAIN frames = 1 .. Len(frames)
                    /\ Len(m_modules) \in Nat /\ DOMAIN m_modules = 1 .. Len(m_modules)
                    /\ Len(instances) \in Nat /\ DOMAIN instances = 1 .. Len(instances)
                    /\ \A k \in DOMAIN frames : frames[k] \in LoadFrames \cup StopFrames
                    /\ \A k \in Loads : frames[k] \in LoadFrames
                    /\ \A k \in DOMAIN frames \ Loads : frames[k] \in StopFrames
                    /\ \A i \in DOMAIN m_modules : m_modules[i] \in Encapsulations
                    /\ \A i \in DOMAIN instances : instances[i] \in Instances
  OBVIOUS
<1>1. Len(frames) \in Nat /\ DOMAIN frames = 1 .. Len(frames)
  BY LenProperties DEF Typed
<1>2. Len(m_modules) \in Nat /\ DOMAIN m_modules = 1 .. Len(m_modules)
  BY LenProperties DEF Typed
<1>3. Len(instances) \in Nat /\ DOMAIN instances = 1 .. Len(instances)
  BY LenProperties DEF Typed
<1>4. \A k \in DOMAIN frames : frames[k] \in LoadFrames \cup StopFrames
  BY <1>1, ElementOfSeq DEF Typed
<1>5. \A i \in DOMAIN m_modules : m_modules[i] \in Encapsulations
  BY <1>2, ElementOfSeq DEF Typed
<1>6. \A i \in DOMAIN instances : instances[i] \in Instances
  BY <1>3, ElementOfSeq DEF Typed
<1>7. (\A f \in LoadFrames : f.at # "stop") /\ (\A f \in StopFrames : f.at = "stop")
  BY DEF LoadFrames, StopFrames
<1> QED BY <1>1, <1>2, <1>3, <1>4, <1>5, <1>6, <1>7 DEF Loads

LEMMA FiniteCounts ==
  ASSUME Typed, NEW l
  PROVE  /\ IsFiniteSet(Loading(l)) /\ Cardinality(Loading(l)) \in Nat
         /\ IsFiniteSet(Started(l)) /\ Cardinality(Started(l)) \in Nat
<1>1. IsFiniteSet(DOMAIN frames) /\ IsFiniteSet(DOMAIN instances)
  <2>1. 1 \in Int /\ Len(frames) \in Int /\ Len(instances) \in Int
    BY FrameFacts, SMT
  <2> QED BY <2>1, FrameFacts, FS_Interval
<1>2. Loading(l) \in SUBSET DOMAIN frames /\ Started(l) \in SUBSET DOMAIN instances
  BY DEF Loading, Started
<1>3. IsFiniteSet(Loading(l)) /\ IsFiniteSet(Started(l))
  BY <1>1, <1>2, FS_Subset
<1> QED BY <1>3, FS_CardinalityType

\* The load on top of the others.
TopLoad == frames # <<>> /\ Top.at # "stop"

LEMMA TopFacts ==
  ASSUME Typed, TopLoad
  PROVE  /\ Top = frames[Len(frames)] /\ Len(frames) \in Loads /\ Len(frames) \in Nat /\ Len(frames) > 0
         /\ Top \in LoadFrames /\ Top.it \in Encapsulations
         /\ Below \in Seq(LoadFrames \cup StopFrames) /\ Popped(frames, Below)
<1>1. /\ Top = frames[Len(frames)] /\ Len(frames) \in DOMAIN frames
      /\ Below \in Seq(LoadFrames \cup StopFrames) /\ Popped(frames, Below)
  BY PopFacts DEF Typed, TopLoad, Top, Below
<1>2. Len(frames) \in Loads
  BY <1>1 DEF Loads, TopLoad
<1>3. Top \in LoadFrames
  BY <1>1, <1>2, FrameFacts
<1>4. Top.it \in Encapsulations
  BY <1>3 DEF LoadFrames
<1> QED BY <1>1, <1>2, <1>3, <1>4 DEF Popped

-----------------------------------------------------------------------------
(* Loads. *)

\* Nothing that the invariant speaks of.
LEMMA SameStep ==
  ASSUME IInv, UNCHANGED <<configurations, m_modules, m_idCounter, instances, frames, mapped, leaks>>
  PROVE  IInv'
<1>1. Typed' /\ Loads' = Loads
  BY DEF IInv, Typed, ConfigTyped, Loads
<1>2. ModulesFine' /\ ModulesDiffer' /\ LoadsFine' /\ LoadsDiffer' /\ StopsFine' /\ StopsDiffer'
  BY <1>1 DEF IInv, ModulesFine, ModuleFine, ModulesDiffer, LoadsFine, LoadFine, LoadsDiffer, StopsFine,
              StopsDiffer, Matches, Usable, Filled
<1>3. OwnersFine' /\ CountsFine'
  BY <1>1 DEF IInv, OwnersFine, Owned, Filled, Usable, CountsFine, Loading, Started
<1> QED BY <1>1, <1>2, <1>3 DEF IInv

LEMMA NoSymbolStep ==
  ASSUME IInv, NEW library \in Libraries, NoSymbol(library)
  PROVE  IInv'
<1>1. /\ mapped' = [mapped EXCEPT ![library] = @ + 1] /\ leaks' = [leaks EXCEPT ![library] = @ + 1]
      /\ UNCHANGED <<configurations, m_modules, m_idCounter, instances, frames>>
  BY DEF NoSymbol, configVars
<1>2. mapped \in [Libraries -> Nat] /\ leaks \in [Libraries -> Nat]
  BY DEF IInv, Typed
<1>3. mapped' \in [Libraries -> Nat] /\ leaks' \in [Libraries -> Nat]
  BY <1>1, <1>2, SMT
<1>4. Typed' /\ Loads' = Loads
  BY <1>1, <1>3 DEF IInv, Typed, ConfigTyped, Loads
<1>5. ModulesFine' /\ ModulesDiffer' /\ LoadsFine' /\ LoadsDiffer' /\ StopsFine' /\ StopsDiffer'
  BY <1>1, <1>4 DEF IInv, ModulesFine, ModuleFine, ModulesDiffer, LoadsFine, LoadFine, LoadsDiffer, StopsFine,
              StopsDiffer, Matches, Usable, Filled
<1>6. OwnersFine'
  BY <1>1, <1>4 DEF IInv, OwnersFine, Owned, Filled, Usable
<1>7. CountsFine'
  <2> SUFFICES ASSUME NEW l \in Libraries
               PROVE  mapped'[l] = Cardinality(Loading(l)) + Cardinality(Started(l)) + leaks'[l]
    BY <1>1 DEF CountsFine, Loading, Started
  <2>1. /\ mapped[l] = Cardinality(Loading(l)) + Cardinality(Started(l)) + leaks[l]
        /\ Cardinality(Loading(l)) \in Nat /\ Cardinality(Started(l)) \in Nat
        /\ mapped[l] \in Nat /\ leaks[l] \in Nat
    BY <1>2, FiniteCounts DEF IInv, CountsFine
  <2>2. \/ mapped'[l] = mapped[l] + 1 /\ leaks'[l] = leaks[l] + 1
        \/ mapped'[l] = mapped[l] /\ leaks'[l] = leaks[l]
    BY <1>1, <1>2
  <2> HIDE DEF Loading, Started
  <2> QED BY <2>1, <2>2, SMT
<1> QED BY <1>4, <1>5, <1>6, <1>7 DEF IInv

LEMMA NoFileStep ==
  ASSUME IInv, NEW library, NoFile(library)
  PROVE  IInv'
<1>1. /\ configurations' = Append(configurations, [alive |-> FALSE, m_rootNode |-> 0])
      /\ UNCHANGED <<m_modules, m_idCounter, instances, frames, mapped, leaks>>
  BY DEF NoFile
<1>2. /\ ConfigTyped' /\ (\A d : Usable(d)' <=> Usable(d)) /\ (\A d : Filled(d)' <=> Filled(d))
  BY <1>1, Adds DEF IInv, Typed
<1>3. Typed' /\ Loads' = Loads
  BY <1>1, <1>2 DEF IInv, Typed, Loads
<1>4. ModulesFine' /\ ModulesDiffer' /\ LoadsFine' /\ LoadsDiffer' /\ StopsFine' /\ StopsDiffer'
  BY <1>1, <1>2, <1>3 DEF IInv, ModulesFine, ModuleFine, ModulesDiffer, LoadsFine, LoadFine, LoadsDiffer, StopsFine,
              StopsDiffer, Matches
<1>5. OwnersFine' /\ CountsFine'
  <2>1. \A d : Filled(d) => d \in DOMAIN configurations
    BY DEF Filled, Usable
  <2> QED BY <1>1, <1>2, <1>3, <2>1 DEF IInv, OwnersFine, Owned, CountsFine, Loading, Started
<1> QED BY <1>3, <1>4, <1>5 DEF IInv

LEMMA LoadStep ==
  ASSUME IInv, NEW library \in Libraries, NEW file, LoadModule(library, file)
  PROVE  IInv'
<1>0. PICK n, N : n = Len(configurations') /\ N = Len(frames')
  OBVIOUS
<1>1. /\ mapped' = [mapped EXCEPT ![library] = @ + 1] /\ configurations' = Construct
      /\ UNCHANGED <<m_modules, m_idCounter, instances, leaks>>
  BY DEF LoadModule
<1>2. PICK at \in {"parse", "init"}, c \in {0, n} :
        /\ frames' = Append(frames, [at |-> at, it |-> Encapsulation(0, library, c, 0)])
        /\ IF at = "parse" THEN c = n ELSE c = 0
  BY <1>0 DEF LoadModule
<1>3. /\ ConfigTyped' /\ n \in Nat /\ n # 0 /\ n \notin DOMAIN configurations
      /\ \A d : Usable(d)' <=> Usable(d) \/ d = n
      /\ \A d : Filled(d)' <=> Filled(d)
  BY <1>0, <1>1, Adds DEF IInv, Typed, Construct
<1>21. PICK e : e = [at |-> at, it |-> Encapsulation(0, library, c, 0)]
  OBVIOUS
<1>4. /\ e \in LoadFrames /\ e.at = at /\ e.it.configuration = c /\ e.it.library = library
      /\ at # "stop" /\ at # "start"
  BY <1>2, <1>21, <1>3 DEF LoadFrames, Encapsulations, Encapsulation
<1>5. frames' \in Seq(LoadFrames \cup StopFrames) /\ Pushed(frames, frames', e)
  BY <1>2, <1>21, <1>4, PushFacts DEF IInv, Typed
<1>6. /\ frames'[N] = e /\ N \notin DOMAIN frames
      /\ \A k : k \in DOMAIN frames' <=> k \in DOMAIN frames \/ k = N
      /\ \A k \in DOMAIN frames : frames'[k] = frames[k]
  BY <1>0, <1>5, SMT DEF Pushed
<1>7. /\ Loads' = Loads \cup {N} /\ N \notin Loads /\ (\A k \in Loads : frames'[k] = frames[k])
      /\ (DOMAIN frames' \ Loads') = (DOMAIN frames \ Loads)
  BY <1>4, <1>6 DEF Loads
<1>8. \A d : Usable(d) => d \in DOMAIN configurations /\ d # n
  BY <1>3 DEF Usable
<1>9. Typed'
  <2>1. mapped' \in [Libraries -> Nat]
    BY <1>1, SMT DEF IInv, Typed
  <2> QED BY <1>1, <1>3, <1>5, <2>1 DEF IInv, Typed
<1>10. ModulesFine' /\ ModulesDiffer'
  BY <1>1, <1>3 DEF IInv, ModulesFine, ModuleFine, ModulesDiffer, Matches
<1>11. LoadsFine'
  <2>1. ASSUME NEW k \in Loads PROVE LoadFine(frames[k])'
    <3>1. PICK f : f = frames[k]
      OBVIOUS
    <3>2. LoadFine(f)
      BY <3>1 DEF IInv, LoadsFine
    <3>3. LoadFine(f)'
      BY <1>1, <1>3, <3>2 DEF LoadFine, Matches
    <3>4. frames'[k] = f
      BY <1>7, <3>1
    <3> QED BY <3>3, <3>4 DEF LoadFine, Matches, Usable, Filled
  <2>2. \A i \in DOMAIN m_modules : m_modules[i].configuration # n
    <3>1. \A i \in DOMAIN m_modules : m_modules[i].configuration # 0 => Usable(m_modules[i].configuration)
      BY DEF IInv, ModulesFine, ModuleFine, Filled
    <3> QED BY <1>3, <1>8, <3>1
  <2>3. LoadFine(e)'
    <3>1. CASE c = n
      <4>1. at = "parse"
        BY <1>2, <1>3, <3>1
      <4> QED BY <1>1, <1>3, <1>4, <2>2, <3>1, <4>1 DEF LoadFine
    <3>2. CASE c = 0
      BY <1>2, <1>3, <1>4, <3>2 DEF LoadFine
    <3> QED BY <3>1, <3>2
  <2>4. LoadFine(frames[N])'
    BY <1>6, <2>3 DEF LoadFine, Matches, Usable, Filled
  <2> QED BY <1>7, <2>1, <2>4 DEF LoadsFine
<1>12. LoadsDiffer'
  <2>1. \A k \in Loads : frames[k].it.configuration = 0 \/ frames[k].it.configuration # n
    BY <1>8 DEF IInv, LoadsFine, LoadFine
  <2>2. \A k \in Loads : frames'[k].it.configuration = c => c = 0
    BY <1>2, <1>7, <2>1
  <2> QED BY <1>4, <1>6, <1>7, <2>2 DEF IInv, LoadsDiffer
<1>13. OwnersFine'
  <2>1. \A d : Filled(d) => Owned(d)
    BY DEF IInv, OwnersFine, Filled, Usable
  <2>2. \A d : Owned(d) => Owned(d)'
    BY <1>1, <1>7 DEF Owned
  <2> QED BY <1>3, <2>1, <2>2 DEF OwnersFine
<1>14. StopsFine' /\ StopsDiffer'
  <2>1. \A k \in DOMAIN frames \ Loads : frames'[k] = frames[k]
    BY <1>6
  <2> QED BY <1>1, <1>7, <2>1 DEF IInv, StopsFine, StopsDiffer
<1>15. CountsFine'
  <2> SUFFICES ASSUME NEW l \in Libraries
               PROVE  mapped'[l] = Cardinality(Loading(l)') + Cardinality(Started(l)') + leaks'[l]
    BY DEF CountsFine
  <2>1. /\ mapped[l] = Cardinality(Loading(l)) + Cardinality(Started(l)) + leaks[l]
        /\ Cardinality(Loading(l)) \in Nat /\ Cardinality(Started(l)) \in Nat
        /\ mapped[l] \in Nat /\ leaks[l] \in Nat /\ IsFiniteSet(Loading(l))
    BY FiniteCounts DEF IInv, CountsFine, Typed
  <2>2. Started(l)' = Started(l) /\ leaks' = leaks
    BY <1>1 DEF Started
  <2>3. CASE l = library
    <3>1. Loading(l)' = Loading(l) \cup {N} /\ N \notin Loading(l)
      BY <1>4, <1>6, <2>3 DEF Loading
    <3>2. Cardinality(Loading(l)') = Cardinality(Loading(l)) + 1
      BY <2>1, <3>1, FS_AddElement
    <3>3. mapped'[l] = mapped[l] + 1
      BY <1>1, <2>3 DEF IInv, Typed
    <3> HIDE DEF Loading, Started
    <3> QED BY <2>1, <2>2, <3>2, <3>3, SMT
  <2>4. CASE l # library
    <3>1. Loading(l)' = Loading(l)
      BY <1>4, <1>6, <2>4 DEF Loading
    <3>2. mapped'[l] = mapped[l]
      BY <1>1, <2>4 DEF IInv, Typed
    <3> QED BY <2>1, <2>2, <3>1, <3>2
  <2> QED BY <2>3, <2>4
<1> QED BY <1>9, <1>10, <1>11, <1>12, <1>13, <1>14, <1>15 DEF IInv

\* A load that failed: its configuration goes, and its library is closed once.
LEMMA UndoStep ==
  ASSUME IInv, TopLoad, Undo, UNCHANGED <<m_modules, m_idCounter, instances, leaks>>
  PROVE  IInv'
<1>0. PICK N, e, c, library : N = Len(frames) /\ e = Top /\ c = e.it.configuration /\ library = e.it.library
  OBVIOUS
<1>1. /\ e = frames[N] /\ N \in Loads /\ e \in LoadFrames /\ e.it \in Encapsulations
      /\ Below \in Seq(LoadFrames \cup StopFrames) /\ Popped(frames, Below)
  BY <1>0, TopFacts DEF IInv
<1>2. mapped' = [mapped EXCEPT ![library] = @ - 1] /\ Delete(c) /\ frames' = Below
  BY <1>0 DEF Undo
<1>3. library \in Libraries /\ e.at # "stop"
  BY <1>0, <1>1 DEF LoadFrames, Encapsulations
<1>4. /\ N \in DOMAIN frames
      /\ \A k : k \in DOMAIN frames' <=> k \in DOMAIN frames /\ k # N
      /\ \A k \in DOMAIN frames' : frames'[k] = frames[k]
  BY <1>0, <1>1, <1>2, SMT DEF Popped
<1>5. /\ Loads' = Loads \ {N} /\ (\A k \in Loads' : frames'[k] = frames[k])
      /\ (DOMAIN frames' \ Loads') = (DOMAIN frames \ Loads)
  BY <1>1, <1>3, <1>4 DEF Loads
<1>6. LoadFine(e)
  BY <1>1 DEF IInv, LoadsFine
<1>7. c # 0 => c \in DOMAIN configurations
  BY <1>0, <1>6 DEF LoadFine, Usable
<1>8. /\ ConfigTyped' /\ (\A d : Usable(d)' <=> Usable(d) /\ d # c)
      /\ (\A d : Filled(d)' <=> Filled(d) /\ d # c)
  BY <1>2, <1>7, Deletes DEF IInv, Typed
<1>9. CountsFine' /\ mapped' \in [Libraries -> Nat]
  <2>1. ASSUME NEW l \in Libraries
        PROVE  /\ mapped'[l] = Cardinality(Loading(l)') + Cardinality(Started(l)') + leaks'[l]
               /\ mapped'[l] \in Nat
    <3>1. /\ mapped[l] = Cardinality(Loading(l)) + Cardinality(Started(l)) + leaks[l]
          /\ Cardinality(Loading(l)) \in Nat /\ Cardinality(Started(l)) \in Nat
          /\ mapped[l] \in Nat /\ leaks[l] \in Nat /\ IsFiniteSet(Loading(l))
      BY FiniteCounts DEF IInv, CountsFine, Typed
    <3>2. Started(l)' = Started(l) /\ leaks' = leaks
      BY DEF Started
    <3>3. CASE l = library
      <4>1. Loading(l)' = Loading(l) \ {N} /\ N \in Loading(l)
        <5>1. e.at \in {"parse", "init", "start"}
          BY <1>1 DEF LoadFrames
        <5> QED BY <1>0, <1>1, <1>4, <3>3, <5>1 DEF Loading
      <4>2. IsFiniteSet(Loading(l)') /\ Cardinality(Loading(l)') = Cardinality(Loading(l)) - 1
        BY <3>1, <4>1, FS_RemoveElement
      <4>3. Cardinality(Loading(l)') \in Nat
        BY <4>2, FS_CardinalityType
      <4>4. mapped'[l] = mapped[l] - 1
        BY <1>2, <3>3 DEF IInv, Typed
      <4> HIDE DEF Loading, Started
      <4> QED BY <3>1, <3>2, <4>2, <4>3, <4>4, SMT
    <3>4. CASE l # library
      <4>1. Loading(l)' = Loading(l)
        BY <1>0, <1>1, <1>4, <3>4 DEF Loading
      <4>2. mapped'[l] = mapped[l]
        BY <1>2, <3>4 DEF IInv, Typed
      <4> QED BY <3>1, <3>2, <4>1, <4>2
    <3> QED BY <3>3, <3>4
  <2>2. mapped' = [l \in Libraries |-> mapped'[l]]
    BY <1>2 DEF IInv, Typed
  <2>3. mapped' \in [Libraries -> Nat]
    BY <2>1, <2>2
  <2> QED BY <2>1, <2>3 DEF CountsFine
<1>10. Typed'
  BY <1>1, <1>2, <1>8, <1>9 DEF IInv, Typed
<1>11. ModulesFine' /\ ModulesDiffer'
  <2>1. \A i \in DOMAIN m_modules : m_modules[i].configuration # 0 => m_modules[i].configuration # c
    BY <1>0, <1>6 DEF LoadFine
  <2> QED BY <1>8, <2>1 DEF IInv, ModulesFine, ModuleFine, ModulesDiffer, Matches
<1>12. LoadsFine' /\ LoadsDiffer'
  <2>1. ASSUME NEW k \in Loads, k # N PROVE LoadFine(frames[k])'
    <3>1. PICK f : f = frames[k]
      OBVIOUS
    <3>2. LoadFine(f)
      BY <3>1 DEF IInv, LoadsFine
    <3>3. f.it.configuration # 0 => f.it.configuration # c
      BY <1>0, <1>1, <2>1, <3>1 DEF IInv, LoadsDiffer
    <3>4. LoadFine(f)'
      BY <1>8, <3>2, <3>3 DEF LoadFine, Matches
    <3>5. frames'[k] = f
      BY <1>5, <2>1, <3>1
    <3> QED BY <3>4, <3>5 DEF LoadFine, Matches, Usable, Filled
  <2>2. LoadsFine'
    BY <1>5, <2>1 DEF LoadsFine
  <2>3. LoadsDiffer'
    BY <1>5 DEF IInv, LoadsDiffer
  <2> QED BY <2>2, <2>3
<1>13. OwnersFine'
  <2>1. \A d : Filled(d) => Owned(d)
    BY DEF IInv, OwnersFine, Filled, Usable
  <2>2. \A d : Owned(d) /\ d # c => Owned(d)'
    BY <1>0, <1>1, <1>5 DEF Owned
  <2> QED BY <1>8, <2>1, <2>2 DEF OwnersFine
<1>14. StopsFine' /\ StopsDiffer'
  <2>1. \A k \in DOMAIN frames \ Loads : frames'[k] = frames[k]
    BY <1>1, <1>4
  <2> QED BY <1>5, <2>1 DEF IInv, StopsFine, StopsDiffer
<1> QED BY <1>9, <1>10, <1>11, <1>12, <1>13, <1>14 DEF IInv

\* A load goes on: the frame on top is replaced by one of the same library and with
\* the same configuration.
LEMMA OnTop ==
  ASSUME Typed, TopLoad, NEW e \in LoadFrames, Replaced(frames, frames', e),
         e.it.library = Top.it.library
  PROVE  /\ Loads' = Loads /\ Len(frames) \in Loads /\ frames'[Len(frames)] = e
         /\ \A k \in DOMAIN frames : k # Len(frames) => frames'[k] = frames[k]
         /\ (DOMAIN frames' \ Loads') = (DOMAIN frames \ Loads)
         /\ \A l : Loading(l)' = Loading(l)
<1>1. Top = frames[Len(frames)] /\ Len(frames) \in Loads /\ Top \in LoadFrames
  BY TopFacts
<1>2. /\ DOMAIN frames' = DOMAIN frames /\ frames'[Len(frames)] = e
      /\ \A k \in DOMAIN frames : k # Len(frames) => frames'[k] = frames[k]
  BY DEF Replaced
<1>3. e.at \in {"parse", "init", "start"} /\ Top.at \in {"parse", "init", "start"}
  BY <1>1 DEF LoadFrames
<1>4. Loads' = Loads
  BY <1>1, <1>2, <1>3 DEF Loads
<1>5. ASSUME NEW l PROVE Loading(l)' = Loading(l)
  <2>1. ASSUME NEW k \in DOMAIN frames PROVE k \in Loading(l)' <=> k \in Loading(l)
    <3>1. CASE k = Len(frames)
      BY <1>1, <1>2, <1>3, <3>1 DEF Loading
    <3>2. CASE k # Len(frames)
      BY <1>2, <3>2 DEF Loading
    <3> QED BY <3>1, <3>2
  <2> QED BY <1>2, <2>1 DEF Loading
<1> QED BY <1>1, <1>2, <1>4, <1>5

\* To set the element on top is to replace it.
LEMMA SetTopFacts ==
  ASSUME Typed, TopLoad, NEW e \in LoadFrames, frames' = [frames EXCEPT ![Len(frames)] = e]
  PROVE  frames' \in Seq(LoadFrames \cup StopFrames) /\ Replaced(frames, frames', e)
<1>1. frames \in Seq(LoadFrames \cup StopFrames) /\ Len(frames) \in 1 .. Len(frames) /\ Len(frames) > 0
  BY TopFacts, FrameFacts DEF Typed, Loads
<1>2. /\ frames' \in Seq(LoadFrames \cup StopFrames) /\ Len(frames') = Len(frames)
      /\ \A j \in 1 .. Len(frames) : frames'[j] = IF j = Len(frames) THEN e ELSE frames[j]
  BY <1>1, ExceptSeq
<1>3. Len(frames) \in Nat /\ DOMAIN frames = 1 .. Len(frames) /\ DOMAIN frames' = 1 .. Len(frames')
  BY <1>1, <1>2, LenProperties
<1> QED BY <1>1, <1>2, <1>3 DEF Replaced

LEMMA SameCounts ==
  ASSUME CountsFine, \A l : Loading(l)' = Loading(l), \A l : Started(l)' = Started(l),
         UNCHANGED <<mapped, leaks>>
  PROVE  CountsFine'
BY DEF CountsFine

\* A file was parsed and accepted.
LEMMA ParsedStep ==
  ASSUME IInv, ParseReturns, ~Throws
  PROVE  IInv'
<1>0. PICK N, f, c : N = Len(frames) /\ f = Top /\ c = f.it.configuration
  OBVIOUS
<1>1. /\ frames # <<>> /\ f.at = "parse" /\ TopLoad
      /\ configurations' = TakeTree(c)
      /\ frames' = [frames EXCEPT ![N].at = "init"]
      /\ UNCHANGED <<mapped, m_modules, m_idCounter, instances, leaks>>
  BY <1>0 DEF ParseReturns, At, TopLoad
<1>2. f = frames[N] /\ N \in Loads /\ N > 0 /\ f \in LoadFrames /\ f.it \in Encapsulations
  BY <1>0, <1>1, TopFacts DEF IInv
<1>3. LoadFine(f)
  BY <1>2 DEF IInv, LoadsFine
<1>4. c # 0 /\ Usable(c) /\ \A i \in DOMAIN m_modules : m_modules[i].configuration # c
  BY <1>0, <1>1, <1>3 DEF LoadFine
<1>5. /\ ConfigTyped' /\ (\A d : Usable(d)' <=> Usable(d))
      /\ (\A d : Filled(d)' <=> Filled(d) \/ d = c)
  BY <1>1, <1>4, Takes DEF IInv, Typed
<1>6. PICK e : e = [at |-> "init", it |-> f.it]
  OBVIOUS
<1>7. e \in LoadFrames /\ e.at = "init" /\ e.it = f.it
  BY <1>2, <1>6 DEF LoadFrames
<1>8. [frames[N] EXCEPT !.at = "init"] = e
  <2>1. f = [at |-> f.at, it |-> f.it]
    BY <1>2 DEF LoadFrames
  <2> QED BY <1>2, <1>6, <2>1
<1>9. frames' = [frames EXCEPT ![N] = e]
  BY <1>1, <1>8
<1>10. frames' \in Seq(LoadFrames \cup StopFrames) /\ Replaced(frames, frames', e)
  BY <1>0, <1>1, <1>7, <1>9, SetTopFacts DEF IInv
<1>11. /\ Loads' = Loads /\ frames'[N] = e
       /\ \A k \in DOMAIN frames : k # N => frames'[k] = frames[k]
       /\ (DOMAIN frames' \ Loads') = (DOMAIN frames \ Loads)
       /\ \A l : Loading(l)' = Loading(l)
  BY <1>0, <1>1, <1>7, <1>10, OnTop DEF IInv
<1>12. Typed'
  BY <1>1, <1>5, <1>10 DEF IInv, Typed
<1>13. ModulesFine' /\ ModulesDiffer'
  BY <1>1, <1>5 DEF IInv, ModulesFine, ModuleFine, ModulesDiffer, Matches
<1>14. LoadsFine'
  <2>1. ASSUME NEW k \in Loads, k # N PROVE LoadFine(frames[k])'
    <3>1. PICK g : g = frames[k]
      OBVIOUS
    <3>2. LoadFine(g)
      BY <3>1 DEF IInv, LoadsFine
    <3>3. LoadFine(g)'
      BY <1>1, <1>5, <3>2 DEF LoadFine, Matches
    <3>4. frames'[k] = g
      BY <1>11, <2>1, <3>1 DEF Loads
    <3> QED BY <3>3, <3>4 DEF LoadFine, Matches, Usable, Filled
  <2>2. LoadFine(e)'
    BY <1>0, <1>1, <1>4, <1>5, <1>7 DEF LoadFine
  <2>3. LoadFine(frames[N])'
    BY <1>11, <2>2 DEF LoadFine, Matches, Usable, Filled
  <2> QED BY <1>11, <2>1, <2>3 DEF LoadsFine
<1>15. LoadsDiffer'
  <2>1. \A k \in Loads : frames'[k].it = frames[k].it /\ (frames'[k].at = "start" => frames[k].at = "start")
    BY <1>2, <1>7, <1>11 DEF Loads
  <2> QED BY <1>11, <2>1 DEF IInv, LoadsDiffer
<1>16. OwnersFine'
  <2>1. \A d : Filled(d) => Owned(d)
    BY DEF IInv, OwnersFine, Filled, Usable
  <2>2. \A k \in Loads : frames'[k].it = frames[k].it
    BY <1>2, <1>7, <1>11 DEF Loads
  <2>3. \A d : Owned(d) \/ d = c => Owned(d)'
    BY <1>0, <1>1, <1>2, <1>11, <2>2 DEF Owned
  <2> QED BY <1>5, <2>1, <2>3 DEF OwnersFine
<1>17. StopsFine' /\ StopsDiffer'
  <2>1. \A k \in DOMAIN frames \ Loads : frames'[k] = frames[k]
    BY <1>2, <1>11
  <2> QED BY <1>1, <1>11, <2>1 DEF IInv, StopsFine, StopsDiffer
<1>18. CountsFine'
  <2>1. \A l : Started(l)' = Started(l)
    BY <1>1 DEF Started
  <2> QED BY <1>1, <1>11, <2>1, SameCounts DEF IInv
<1> QED BY <1>12, <1>13, <1>14, <1>15, <1>16, <1>17, <1>18 DEF IInv

\* A load got its module: the instance is new, and no one else's.
LEMMA InitOkStep ==
  ASSUME IInv, InitFunction(TRUE)
  PROVE  IInv'
<1>0. PICK N, f, n : N = Len(frames) /\ f = Top /\ n = Len(instances')
  OBVIOUS
<1>1. /\ frames # <<>> /\ f.at = "init" /\ TopLoad
      /\ instances' = Append(instances, [alive |-> TRUE, started |-> FALSE, of |-> f.it])
      /\ frames' = [frames EXCEPT ![N].at = "start", ![N].it.moduleInterface = n]
      /\ UNCHANGED <<mapped, configurations, m_modules, m_idCounter, leaks>>
  BY <1>0 DEF InitFunction, At, TopLoad, configVars
<1>2. f = frames[N] /\ N \in Loads /\ N > 0 /\ f \in LoadFrames /\ f.it \in Encapsulations
  BY <1>0, <1>1, TopFacts DEF IInv
<1>3. LoadFine(f)
  BY <1>2 DEF IInv, LoadsFine
<1>4. PICK x : x = [alive |-> TRUE, started |-> FALSE, of |-> f.it]
  OBVIOUS
<1>5. x \in Instances /\ x.alive /\ x.started = FALSE /\ x.of = f.it
  BY <1>2, <1>4 DEF Instances
<1>6. instances' \in Seq(Instances) /\ Pushed(instances, instances', x)
  BY <1>1, <1>4, <1>5, PushFacts DEF IInv, Typed
<1>7. /\ n \in Nat /\ n \notin DOMAIN instances /\ instances'[n] = x
      /\ \A i : i \in DOMAIN instances' <=> i \in DOMAIN instances \/ i = n
      /\ \A i \in DOMAIN instances : instances'[i] = instances[i]
  BY <1>0, <1>6, SMT DEF Pushed
<1>8. PICK e : e = [at |-> "start", it |-> [f.it EXCEPT !.moduleInterface = n]]
  OBVIOUS
<1>9. /\ e \in LoadFrames /\ e.at = "start" /\ e.it.library = f.it.library
      /\ e.it.configuration = f.it.configuration /\ e.it.moduleInterface = n
  BY <1>2, <1>7, <1>8 DEF LoadFrames, Encapsulations
<1>10. frames' = [frames EXCEPT ![N] = e]
  <2>1. f = [at |-> f.at, it |-> f.it]
    BY <1>2 DEF LoadFrames
  <2>2. [f EXCEPT !.at = "start"] = [at |-> "start", it |-> f.it]
    BY <2>1
  <2>3. [[f EXCEPT !.at = "start"] EXCEPT !.it.moduleInterface = n] = e
    <3>1. PICK g : g = [at |-> "start", it |-> f.it]
      OBVIOUS
    <3>2. \A v : [g EXCEPT !.it = v] = [at |-> "start", it |-> v]
      BY <3>1
    <3>3. g.it = f.it
      BY <3>1
    <3> QED BY <1>8, <2>2, <3>1, <3>2, <3>3
  <2>4. frames' = [[frames EXCEPT ![N].at = "start"] EXCEPT ![N].it.moduleInterface = n]
    BY <1>1
  <2> QED BY <1>2, <2>3, <2>4 DEF Loads
<1>11. frames' \in Seq(LoadFrames \cup StopFrames) /\ Replaced(frames, frames', e)
  BY <1>0, <1>1, <1>9, <1>10, SetTopFacts DEF IInv
<1>12. /\ Loads' = Loads /\ frames'[N] = e
       /\ \A k \in DOMAIN frames : k # N => frames'[k] = frames[k]
       /\ (DOMAIN frames' \ Loads') = (DOMAIN frames \ Loads)
       /\ \A l : Loading(l)' = Loading(l)
  BY <1>0, <1>1, <1>9, <1>11, OnTop DEF IInv
<1>13. Typed'
  BY <1>1, <1>6, <1>11 DEF IInv, Typed, ConfigTyped
<1>14. \A i \in DOMAIN instances : instances'[i] = instances[i] /\ i \in DOMAIN instances' /\ i # n
  BY <1>7
<1>15. ModulesFine' /\ ModulesDiffer'
  BY <1>1, <1>14 DEF IInv, ModulesFine, ModuleFine, ModulesDiffer, Matches, Filled, Usable
<1>16. LoadsFine'
  <2>1. ASSUME NEW k \in Loads, k # N PROVE LoadFine(frames[k])'
    <3>1. PICK g : g = frames[k]
      OBVIOUS
    <3>2. LoadFine(g)
      BY <3>1 DEF IInv, LoadsFine
    <3>3. LoadFine(g)'
      BY <1>1, <1>14, <3>2 DEF LoadFine, Matches, Usable, Filled
    <3>4. frames'[k] = g
      BY <1>12, <2>1, <3>1 DEF Loads
    <3> QED BY <3>3, <3>4 DEF LoadFine, Matches, Usable, Filled
  <2>2. LoadFine(e)'
    BY <1>1, <1>3, <1>5, <1>7, <1>9 DEF LoadFine, Matches, Usable, Filled
  <2>3. LoadFine(frames[N])'
    BY <1>12, <2>2 DEF LoadFine, Matches, Usable, Filled
  <2> QED BY <1>12, <2>1, <2>3 DEF LoadsFine
<1>17. LoadsDiffer'
  <2>1. \A k \in Loads : frames'[k].it.configuration = frames[k].it.configuration
    BY <1>2, <1>9, <1>12 DEF Loads
  <2>2. \A k \in Loads : k # N /\ frames'[k].at = "start" =>
          frames[k].at = "start" /\ frames'[k].it = frames[k].it /\ frames'[k].it.moduleInterface # n
    BY <1>12, <1>14 DEF IInv, LoadsFine, LoadFine, Matches, Loads
  <2>3. \A k \in Loads : frames'[k].at = "start" /\ frames'[N].at = "start" /\ k # N =>
          frames'[k].it.moduleInterface # frames'[N].it.moduleInterface
    BY <1>9, <1>12, <2>2
  <2>4. ASSUME NEW j \in Loads, NEW k \in Loads, j # k, frames'[j].at = "start", frames'[k].at = "start"
        PROVE  frames'[j].it.moduleInterface # frames'[k].it.moduleInterface
    BY <2>2, <2>3, <2>4 DEF IInv, LoadsDiffer
  <2> QED BY <1>12, <2>1, <2>4 DEF IInv, LoadsDiffer
<1>18. OwnersFine'
  <2>1. \A d : Filled(d) => Owned(d)
    BY DEF IInv, OwnersFine, Filled, Usable
  <2>2. \A k \in Loads : frames'[k].it.configuration = frames[k].it.configuration
    BY <1>2, <1>9, <1>12 DEF Loads
  <2>3. \A d : Owned(d) => Owned(d)'
    BY <1>12, <1>14, <2>2 DEF Owned
  <2> QED BY <1>1, <2>1, <2>3 DEF OwnersFine, Filled, Usable
<1>19. StopsFine' /\ StopsDiffer'
  <2>1. \A k \in DOMAIN frames \ Loads : frames'[k] = frames[k]
    BY <1>2, <1>12
  <2>2. m_modules' = m_modules /\ (DOMAIN frames' \ Loads') = (DOMAIN frames \ Loads)
    BY <1>1, <1>12
  <2> QED BY <2>1, <2>2 DEF IInv, StopsFine, StopsDiffer
<1>20. CountsFine'
  <2>1. \A l : Started(l)' = Started(l)
    BY <1>5, <1>7 DEF Started
  <2> QED BY <1>1, <1>12, <2>1, SameCounts DEF IInv
<1> QED BY <1>13, <1>15, <1>16, <1>17, <1>18, <1>19, <1>20 DEF IInv

\* A load is done: the module is the last of the list.
LEMMA StartOkStep ==
  ASSUME IInv, StartReturns(TRUE)
  PROVE  IInv'
<1>0. PICK N, f, x, n : N = Len(frames) /\ f = Top /\ x = f.it.moduleInterface /\ n = Len(m_modules')
  OBVIOUS
<1>1. /\ frames # <<>> /\ f.at = "start" /\ TopLoad
      /\ m_modules' = Append(m_modules, [f.it EXCEPT !.moduleId = m_idCounter])
      /\ m_idCounter' = m_idCounter + 1 /\ frames' = Below
      /\ instances' = [instances EXCEPT ![x].started = TRUE]
      /\ UNCHANGED <<mapped, configurations, leaks>>
  BY <1>0 DEF StartReturns, At, TopLoad, configVars
<1>2. /\ f = frames[N] /\ N \in Loads /\ f \in LoadFrames /\ f.it \in Encapsulations
      /\ Below \in Seq(LoadFrames \cup StopFrames) /\ Popped(frames, Below)
  BY <1>0, <1>1, TopFacts DEF IInv
<1>3. LoadFine(f) /\ Matches(f.it, FALSE)
  BY <1>1, <1>2 DEF IInv, LoadsFine, LoadFine
<1>4. /\ N \in DOMAIN frames
      /\ \A k : k \in DOMAIN frames' <=> k \in DOMAIN frames /\ k # N
      /\ \A k \in DOMAIN frames' : frames'[k] = frames[k]
  BY <1>0, <1>1, <1>2, SMT DEF Popped
<1>5. /\ Loads' = Loads \ {N} /\ (\A k \in Loads' : frames'[k] = frames[k])
      /\ (DOMAIN frames' \ Loads') = (DOMAIN frames \ Loads)
  BY <1>1, <1>2, <1>4 DEF Loads
<1>6. PICK m : m = [f.it EXCEPT !.moduleId = m_idCounter]
  OBVIOUS
<1>7. /\ m \in Encapsulations /\ m.moduleId = m_idCounter /\ m.library = f.it.library
      /\ m.configuration = f.it.configuration /\ m.moduleInterface = x
  BY <1>0, <1>2, <1>6 DEF Encapsulations, IInv, Typed
<1>8. m_modules' \in Seq(Encapsulations) /\ Pushed(m_modules, m_modules', m)
  BY <1>1, <1>6, <1>7, PushFacts DEF IInv, Typed
<1>9. /\ n \in Nat /\ n \notin DOMAIN m_modules /\ m_modules'[n] = m
      /\ \A i : i \in DOMAIN m_modules' <=> i \in DOMAIN m_modules \/ i = n
      /\ \A i \in DOMAIN m_modules : m_modules'[i] = m_modules[i]
  BY <1>0, <1>8, SMT DEF Pushed
<1>10. PICK r : r = instances[x]
  OBVIOUS
<1>11. /\ x \in DOMAIN instances /\ r \in Instances /\ r.alive /\ r.started = FALSE
       /\ r.of.library = f.it.library /\ r.of.configuration = f.it.configuration
  BY <1>0, <1>3, <1>10, FrameFacts DEF IInv, Matches
<1>12. PICK q : q = [alive |-> r.alive, started |-> TRUE, of |-> r.of]
  OBVIOUS
<1>13. q \in Instances /\ q.alive /\ q.started /\ q.of = r.of /\ q.started = TRUE
  BY <1>11, <1>12 DEF Instances
<1>14. [instances[x] EXCEPT !.started = TRUE] = q
  <2>1. r = [alive |-> r.alive, started |-> r.started, of |-> r.of]
    BY <1>11 DEF Instances
  <2>2. \A v : [r EXCEPT !.started = v] = [alive |-> r.alive, started |-> v, of |-> r.of]
    BY <2>1
  <2> QED BY <1>10, <1>12, <2>2
<1>15. instances' = [instances EXCEPT ![x] = q]
  BY <1>1, <1>14
<1>16. /\ DOMAIN instances' = DOMAIN instances /\ instances'[x] = q
       /\ \A i \in DOMAIN instances : i # x => instances'[i] = instances[i]
  BY <1>11, <1>15
<1>17. instances' \in Seq(Instances)
  <2>1. x \in 1 .. Len(instances)
    BY <1>11, FrameFacts DEF IInv
  <2> QED BY <1>13, <1>15, <2>1, ExceptSeq DEF IInv, Typed
<1>18. /\ m_idCounter \in Nat /\ m_idCounter' \in Nat
       /\ \A i \in Nat : i < m_idCounter => i < m_idCounter' /\ i # m_idCounter
  BY <1>1, SMT DEF IInv, Typed
<1>19. \A i \in DOMAIN m_modules : m_modules[i].moduleId \in Nat /\ m_modules[i].moduleId < m_idCounter
                                   /\ m_modules[i].moduleInterface # x
  BY <1>10, <1>11, FrameFacts DEF IInv, ModulesFine, ModuleFine, Matches, Encapsulations
<1>20. ConfigTyped' /\ (\A d : Usable(d)' <=> Usable(d)) /\ (\A d : Filled(d)' <=> Filled(d))
  BY <1>1 DEF IInv, Typed, ConfigTyped, Usable, Filled
<1>21. Typed'
  BY <1>1, <1>2, <1>8, <1>17, <1>18, <1>20 DEF IInv, Typed
<1>22. ASSUME NEW it, NEW started \in BOOLEAN, Matches(it, started), it.moduleInterface # x
       PROVE  Matches(it, started)'
  BY <1>16, <1>22 DEF Matches
<1>23. ModulesFine'
  <2>1. ASSUME NEW i \in DOMAIN m_modules PROVE ModuleFine(m_modules[i])'
    <3>1. PICK g : g = m_modules[i]
      OBVIOUS
    <3>2. ModuleFine(g) /\ g.moduleInterface # x /\ g.moduleId < m_idCounter'
      BY <1>18, <1>19, <3>1 DEF IInv, ModulesFine
    <3>3. Matches(g, TRUE)'
      BY <1>22, <3>2 DEF ModuleFine
    <3>4. ModuleFine(g)'
      BY <1>20, <3>2, <3>3 DEF ModuleFine
    <3>5. m_modules'[i] = g
      BY <1>9, <3>1
    <3> QED BY <3>4, <3>5 DEF ModuleFine, Matches, Filled, Usable
  <2>2. Matches(m, TRUE)'
    BY <1>0, <1>7, <1>11, <1>13, <1>16 DEF Matches
  <2>3. m.moduleId < m_idCounter'
    BY <1>1, <1>7, <1>18, SMT
  <2>4. m.configuration # 0 => Filled(m.configuration)'
    BY <1>1, <1>3, <1>7, <1>20 DEF LoadFine
  <2>5. ModuleFine(m)'
    BY <2>2, <2>3, <2>4 DEF ModuleFine
  <2>6. ModuleFine(m_modules[n])'
    BY <1>9, <2>5 DEF ModuleFine, Matches, Filled, Usable
  <2> QED BY <1>9, <2>1, <2>6 DEF ModulesFine
<1>24. ModulesDiffer'
  <2>1. \A i \in DOMAIN m_modules : m_modules[i].configuration = m.configuration => m.configuration = 0
    BY <1>3, <1>7 DEF LoadFine
  <2>2. \A i \in DOMAIN m_modules :
          m_modules[i].moduleId # m.moduleId /\ m_modules[i].moduleInterface # m.moduleInterface
    BY <1>7, <1>18, <1>19
  <2> QED BY <1>9, <2>1, <2>2 DEF IInv, ModulesDiffer
<1>25. LoadsFine' /\ LoadsDiffer'
  <2>1. ASSUME NEW k \in Loads, k # N PROVE LoadFine(frames[k])'
    <3>1. PICK g : g = frames[k]
      OBVIOUS
    <3>2. LoadFine(g)
      BY <3>1 DEF IInv, LoadsFine
    <3>3. /\ g.it.configuration # 0 => g.it.configuration # f.it.configuration
          /\ g.at = "start" => g.it.moduleInterface # x
      BY <1>0, <1>1, <1>2, <2>1, <3>1 DEF IInv, LoadsDiffer
    <3>4. g.it.configuration # 0 => \A i \in DOMAIN m_modules' : m_modules'[i].configuration # g.it.configuration
      BY <1>7, <1>9, <3>2, <3>3 DEF LoadFine
    <3>5. g.at = "start" => Matches(g.it, FALSE)'
      BY <1>22, <3>2, <3>3 DEF LoadFine
    <3>6. LoadFine(g)'
      BY <1>20, <3>2, <3>4, <3>5 DEF LoadFine
    <3>7. frames'[k] = g
      BY <1>5, <2>1, <3>1
    <3> QED BY <3>6, <3>7 DEF LoadFine, Matches, Usable, Filled
  <2>2. LoadsFine'
    BY <1>5, <2>1 DEF LoadsFine
  <2>3. LoadsDiffer'
    BY <1>5 DEF IInv, LoadsDiffer
  <2> QED BY <2>2, <2>3
<1>26. OwnersFine'
  <2>1. \A d : Filled(d) => Owned(d)
    BY DEF IInv, OwnersFine, Filled, Usable
  <2>2. ASSUME NEW d, Owned(d) PROVE Owned(d)'
    <3>1. CASE \E k \in Loads : frames[k].it.configuration = d
      <4>1. PICK k \in Loads : frames[k].it.configuration = d
        BY <3>1
      <4>2. CASE k = N
        <5>1. /\ x \in DOMAIN instances'
              /\ instances'[x].alive /\ instances'[x].started /\ instances'[x].of.configuration = d
          BY <1>2, <1>11, <1>13, <1>16, <4>1, <4>2
        <5> QED BY <5>1 DEF Owned
      <4>3. CASE k # N
        BY <1>5, <4>1, <4>3 DEF Owned
      <4> QED BY <4>2, <4>3
    <3>2. CASE \E i \in DOMAIN instances :
                 instances[i].alive /\ instances[i].started /\ instances[i].of.configuration = d
      <4>1. PICK i \in DOMAIN instances :
                   instances[i].alive /\ instances[i].started /\ instances[i].of.configuration = d
        BY <3>2
      <4>2. i # x
        BY <1>10, <1>11, <4>1
      <4> QED BY <1>16, <4>1, <4>2 DEF Owned
    <3> QED BY <2>2, <3>1, <3>2 DEF Owned
  <2> QED BY <1>20, <2>1, <2>2 DEF OwnersFine
<1>27. StopsFine' /\ StopsDiffer'
  <2>1. \A k \in DOMAIN frames \ Loads : frames'[k] = frames[k]
    BY <1>2, <1>4
  <2>2. \A i \in DOMAIN m_modules : \A j : j \in 1 .. i - 1 => j \in DOMAIN m_modules
    <3>1. Len(m_modules) \in Nat /\ DOMAIN m_modules = 1 .. Len(m_modules)
      BY FrameFacts DEF IInv
    <3> QED BY <3>1, SMT
  <2>3. StopsFine'
    <3> SUFFICES ASSUME NEW k \in DOMAIN frames \ Loads
                 PROVE  \E i \in DOMAIN m_modules' :
                          /\ m_modules'[i] = frames'[k].it
                          /\ frames'[k].call = "unloadAll" =>
                               \A j \in 1 .. i - 1 : m_modules'[j].moduleId \in frames'[k].refused
      BY <1>5 DEF StopsFine
    <3>1. PICK i \in DOMAIN m_modules :
            /\ m_modules[i] = frames[k].it
            /\ frames[k].call = "unloadAll" => \A j \in 1 .. i - 1 : m_modules[j].moduleId \in frames[k].refused
      BY DEF IInv, StopsFine
    <3> QED BY <1>9, <2>1, <2>2, <3>1
  <2>4. StopsDiffer'
    BY <1>5, <2>1 DEF IInv, StopsDiffer
  <2> QED BY <2>3, <2>4
<1>28. CountsFine'
  <2> SUFFICES ASSUME NEW l \in Libraries
               PROVE  mapped'[l] = Cardinality(Loading(l)') + Cardinality(Started(l)') + leaks'[l]
    BY DEF CountsFine
  <2>1. /\ mapped[l] = Cardinality(Loading(l)) + Cardinality(Started(l)) + leaks[l]
        /\ Cardinality(Loading(l)) \in Nat /\ Cardinality(Started(l)) \in Nat
        /\ mapped[l] \in Nat /\ leaks[l] \in Nat /\ IsFiniteSet(Loading(l)) /\ IsFiniteSet(Started(l))
    BY FiniteCounts DEF IInv, CountsFine, Typed
  <2>2. mapped' = mapped /\ leaks' = leaks
    BY <1>1
  <2>3. CASE l = f.it.library
    <3>1. Loading(l)' = Loading(l) \ {N} /\ N \in Loading(l)
      BY <1>1, <1>2, <1>4, <2>3 DEF Loading
    <3>2. Started(l)' = Started(l) \cup {x} /\ x \notin Started(l)
      BY <1>10, <1>11, <1>13, <1>16, <2>3 DEF Started
    <3> HIDE DEF Loading, Started
    <3>3. IsFiniteSet(Loading(l)') /\ Cardinality(Loading(l)') = Cardinality(Loading(l)) - 1
      BY <2>1, <3>1, FS_RemoveElement
    <3>4. Cardinality(Started(l)') = Cardinality(Started(l)) + 1
      BY <2>1, <3>2, FS_AddElement
    <3>5. Cardinality(Loading(l)') \in Nat
      BY <3>3, FS_CardinalityType
    <3> QED BY <2>1, <2>2, <3>3, <3>4, <3>5, SMT
  <2>4. CASE l # f.it.library
    <3>1. Loading(l)' = Loading(l)
      BY <1>2, <1>4, <2>4 DEF Loading
    <3>2. Started(l)' = Started(l)
      <4>1. \A i \in DOMAIN instances : i \in Started(l)' <=> i \in Started(l)
        BY <1>10, <1>11, <1>13, <1>16, <2>4 DEF Started
      <4> QED BY <1>16, <4>1 DEF Started
    <3> QED BY <2>1, <2>2, <3>1, <3>2
  <2> QED BY <2>3, <2>4
<1> QED BY <1>21, <1>23, <1>24, <1>25, <1>26, <1>27, <1>28 DEF IInv

-----------------------------------------------------------------------------
(* Unloading. *)

LEMMA PositionFacts ==
  ASSUME ModulesDiffer, NEW i \in DOMAIN m_modules, NEW id, id = m_modules[i].moduleId
  PROVE  Position(id) = i
<1>1. Position(id) \in DOMAIN m_modules /\ m_modules[Position(id)].moduleId = id
  BY DEF Position
<1>2. QED
  BY <1>1 DEF ModulesDiffer

LEMMA SameLoads ==
  ASSUME LoadsFine, LoadsDiffer, OwnersFine, Loads' = Loads, \A k \in Loads : frames'[k] = frames[k],
         UNCHANGED <<configurations, m_modules, instances>>
  PROVE  LoadsFine' /\ LoadsDiffer' /\ OwnersFine'
<1>1. LoadsFine' /\ LoadsDiffer'
  BY DEF LoadsFine, LoadFine, LoadsDiffer, Matches, Filled, Usable
<1>2. OwnersFine'
  BY DEF OwnersFine, Owned, Filled, Usable
<1> QED BY <1>1, <1>2

\* A call of stop() begins.
LEMMA StopPush ==
  ASSUME IInv, NEW i \in DOMAIN m_modules, NEW call \in {"unloadModule", "unloadAll"}, NEW force \in BOOLEAN,
         m_modules[i].moduleId \notin Stopping, call = "unloadAll" => i = 1 /\ Stopping = {},
         frames' = Append(frames, Stop(call, force, i)),
         UNCHANGED <<configurations, m_modules, m_idCounter, instances, mapped, leaks>>
  PROVE  IInv'
<1>0. PICK N, e : N = Len(frames') /\ e = Stop(call, force, i)
  OBVIOUS
<1>1. /\ e \in StopFrames /\ e.at = "stop" /\ e.it = m_modules[i] /\ e.call = call /\ e.refused = {}
  BY <1>0, FrameFacts DEF Stop, StopFrames, IInv
<1>2. frames' \in Seq(LoadFrames \cup StopFrames) /\ Pushed(frames, frames', e)
  BY <1>0, <1>1, PushFacts DEF IInv, Typed
<1>3. /\ frames'[N] = e /\ N \notin DOMAIN frames /\ (\A k \in DOMAIN frames : k \in Nat /\ k < N) /\ N \in Nat
      /\ \A k : k \in DOMAIN frames' <=> k \in DOMAIN frames \/ k = N
      /\ \A k \in DOMAIN frames : frames'[k] = frames[k]
  BY <1>0, <1>2, SMT DEF Pushed
<1>4. /\ Loads' = Loads /\ (\A k \in Loads : frames'[k] = frames[k])
      /\ (DOMAIN frames' \ Loads') = (DOMAIN frames \ Loads) \cup {N}
  BY <1>1, <1>3 DEF Loads
<1>5. Typed'
  BY <1>2 DEF IInv, Typed, ConfigTyped
<1>6. ModulesFine' /\ ModulesDiffer'
  BY DEF IInv, ModulesFine, ModuleFine, ModulesDiffer, Matches, Filled, Usable
<1>7. LoadsFine' /\ LoadsDiffer' /\ OwnersFine'
  BY <1>4, SameLoads DEF IInv
<1>9. StopsFine'
  <2>1. m_modules' = m_modules /\ \A k \in DOMAIN frames \ Loads : frames'[k] = frames[k]
    BY <1>3
  <2>2. \A j \in 1 .. i - 1 : call # "unloadAll"
    <3>1. i = 1 => \A j \in 1 .. i - 1 : FALSE
      BY SMT
    <3> QED BY <3>1
  <2> QED BY <1>1, <1>3, <1>4, <2>1, <2>2 DEF IInv, StopsFine
<1>10. StopsDiffer'
  <2>1. \A k \in DOMAIN frames \ Loads : frames'[k] = frames[k] /\ frames[k].it.moduleId \in Stopping
    BY <1>3 DEF Loads, Stopping
  <2>2. \A k \in DOMAIN frames \ Loads : frames[k].it.moduleId # e.it.moduleId /\ e.call # "unloadAll"
    BY <1>1, <2>1
  <2>3. \A k \in DOMAIN frames \ Loads : ~(N < k) /\ ~(N < N)
    BY <1>3, SMT
  <2> QED BY <1>3, <1>4, <2>1, <2>2, <2>3 DEF IInv, StopsDiffer
<1>11. CountsFine'
  <2>1. \A l : Loading(l)' = Loading(l)
    BY <1>1, <1>3 DEF Loading
  <2>2. \A l : Started(l)' = Started(l)
    BY DEF Started
  <2> QED BY <2>1, <2>2, SameCounts DEF IInv
<1> QED BY <1>5, <1>6, <1>7, <1>9, <1>10, <1>11 DEF IInv

\* What is left of the list: where each module was before.
Was(old, i, keeps) ==
  /\ old \in [DOMAIN m_modules' -> DOMAIN m_modules]
  /\ \A k \in DOMAIN m_modules' : m_modules'[k] = m_modules[old[k]] /\ (old[k] = i => keeps)
  /\ \A k, l \in DOMAIN m_modules' : k # l => old[k] # old[l]
  /\ \A k \in DOMAIN m_modules' : k < i => old[k] = k
  /\ \A k \in DOMAIN m_modules' : \A l : l \in 1 .. k - 1 => l \in DOMAIN m_modules' /\ old[l] \in 1 .. old[k] - 1
  /\ \A j \in DOMAIN m_modules : (j # i \/ keeps) => \E k \in DOMAIN m_modules' : old[k] = j

LEMMA WhatIsLeft ==
  ASSUME Typed, NEW i \in DOMAIN m_modules, NEW keeps \in BOOLEAN,
         m_modules' = IF keeps THEN m_modules ELSE RemoveAt(m_modules, i)
  PROVE  /\ m_modules' \in Seq(Encapsulations)
         /\ DOMAIN m_modules' = 1 .. Len(m_modules') /\ Len(m_modules') \in Nat
         /\ Len(m_modules') = Len(m_modules) - (IF keeps THEN 0 ELSE 1)
         /\ \E old : Was(old, i, keeps)
<1>1. Len(m_modules) \in Nat /\ DOMAIN m_modules = 1 .. Len(m_modules) /\ m_modules \in Seq(Encapsulations)
  BY FrameFacts DEF Typed
<1>2. CASE keeps
  <2>1. m_modules' = m_modules
    BY <1>2
  <2>2. PICK old : old = [k \in DOMAIN m_modules |-> k]
    OBVIOUS
  <2>3. \A k \in DOMAIN m_modules : \A l : l \in 1 .. k - 1 => l \in DOMAIN m_modules
    BY <1>1, SMT
  <2>4. Was(old, i, keeps)
    BY <1>2, <2>1, <2>2, <2>3 DEF Was
  <2>5. Len(m_modules) = Len(m_modules) - 0
    BY <1>1, SMT
  <2> QED BY <1>1, <1>2, <2>1, <2>4, <2>5
<1>3. CASE ~keeps
  <2>1. m_modules' \in Seq(Encapsulations) /\ Removed(m_modules, m_modules', i)
    BY <1>1, <1>3, RemoveFacts
  <2>2. /\ Len(m_modules') = Len(m_modules) - 1 /\ DOMAIN m_modules' = 1 .. Len(m_modules')
        /\ \A k \in DOMAIN m_modules' : m_modules'[k] = IF k < i THEN m_modules[k] ELSE m_modules[k + 1]
    BY <2>1 DEF Removed
  <2>3. PICK n, D : n = Len(m_modules) /\ D = DOMAIN m_modules'
    OBVIOUS
  <2>4. /\ n \in Nat /\ i \in 1 .. n /\ D = 1 .. n - 1 /\ DOMAIN m_modules = 1 .. n
    BY <1>1, <2>2, <2>3
  <2>5. n - 1 \in Nat
    BY <2>4, SMT
  <2>6. PICK old : old = [k \in D |-> IF k < i THEN k ELSE k + 1]
    OBVIOUS
  <2>7. /\ \A k \in D : (IF k < i THEN k ELSE k + 1) \in 1 .. n
        /\ \A k \in D : (IF k < i THEN k ELSE k + 1) # i
        /\ \A k, l \in D : k # l => (IF k < i THEN k ELSE k + 1) # (IF l < i THEN l ELSE l + 1)
        /\ \A k \in D : \A l : l \in 1 .. k - 1 => l \in D
        /\ \A k \in D, l \in D : l \in 1 .. k - 1 =>
             (IF l < i THEN l ELSE l + 1) \in 1 .. (IF k < i THEN k ELSE k + 1) - 1
        /\ \A j \in 1 .. n : j < i => j \in D
        /\ \A j \in 1 .. n : j # i /\ ~(j < i) => j - 1 \in D /\ ~(j - 1 < i) /\ j - 1 + 1 = j
    BY <2>4, SMT
  <2>8. /\ old \in [D -> 1 .. n]
        /\ \A k \in D : m_modules'[k] = m_modules[old[k]] /\ old[k] # i
        /\ \A k, l \in D : k # l => old[k] # old[l]
        /\ \A k \in D : k < i => old[k] = k
    BY <2>2, <2>3, <2>6, <2>7
  <2>9. \A k \in D : \A l : l \in 1 .. k - 1 => l \in D /\ old[l] \in 1 .. old[k] - 1
    BY <2>6, <2>7
  <2>10. \A j \in 1 .. n : j # i => \E k \in D : old[k] = j
    <3> SUFFICES ASSUME NEW j \in 1 .. n, j # i PROVE \E k \in D : old[k] = j
      OBVIOUS
    <3>1. CASE j < i
      <4>1. j \in D /\ old[j] = j
        BY <2>7, <2>8, <3>1
      <4> QED BY <4>1
    <3>2. CASE ~(j < i)
      <4>1. j - 1 \in D /\ old[j - 1] = j
        BY <2>6, <2>7, <3>2
      <4> QED BY <4>1
    <3> QED BY <3>1, <3>2
  <2>11. Was(old, i, keeps)
    BY <1>3, <2>3, <2>4, <2>8, <2>9, <2>10 DEF Was
  <2> QED BY <1>3, <2>1, <2>2, <2>3, <2>4, <2>5, <2>11
<1> QED BY <1>2, <1>3

LEMMA TopStopFacts ==
  ASSUME Typed, At("stop")
  PROVE  /\ Top = frames[Len(frames)] /\ Len(frames) \in DOMAIN frames \ Loads /\ Len(frames) \in Nat
         /\ frames # <<>> /\ Top \in StopFrames /\ Top.it \in Encapsulations
         /\ Below \in Seq(LoadFrames \cup StopFrames) /\ Popped(frames, Below)
<1>1. /\ Top = frames[Len(frames)] /\ Len(frames) \in DOMAIN frames /\ Top.at = "stop" /\ frames # <<>>
      /\ Below \in Seq(LoadFrames \cup StopFrames) /\ Popped(frames, Below)
  BY PopFacts DEF Typed, At, Top, Below
<1>2. Len(frames) \in DOMAIN frames \ Loads
  BY <1>1 DEF Loads
<1>3. Top \in StopFrames
  BY <1>1, <1>2, FrameFacts
<1>4. Top.it \in Encapsulations
  BY <1>3 DEF StopFrames
<1> QED BY <1>1, <1>2, <1>3, <1>4 DEF Popped

\* What the return of stop() does: where the module was, what becomes of its instance, of
\* the list and of the frame.
Returned(ok, N, f, i, x, g, keeps, next) ==
  /\ N = Len(frames) /\ f = Top /\ x = f.it.moduleInterface
  /\ i \in DOMAIN m_modules /\ m_modules[i] = f.it
  /\ keeps \in BOOLEAN /\ (keeps => f.call = "unloadAll" /\ ~ok)
  /\ next = IF keeps THEN i + 1 ELSE i
  /\ \/ g = f.it.configuration /\ ~keeps /\ instances' = [instances EXCEPT ![x].alive = FALSE]
     \/ g = 0 /\ instances' = instances
  /\ Delete(g)
  /\ m_modules' = IF keeps THEN m_modules ELSE RemoveAt(m_modules, i)
  /\ IF f.call = "unloadAll" /\ next <= Len(m_modules')
     THEN frames' = Append(Below, [f EXCEPT !.it = m_modules'[next], !.refused = Refused(ok)])
     ELSE frames' = Below

LEMMA WhatReturns ==
  ASSUME IInv, NEW ok \in BOOLEAN, StopReturns(ok)
  PROVE  \E N, f, i, x, g, keeps, next : Returned(ok, N, f, i, x, g, keeps, next)
<1>1. PICK N, f, x : N = Len(frames) /\ f = Top /\ x = f.it.moduleInterface
  OBVIOUS
<1>2. At("stop") /\ f = frames[N] /\ N \in DOMAIN frames \ Loads /\ f \in StopFrames
  BY <1>1, TopStopFacts DEF StopReturns, IInv
<1>3. PICK i \in DOMAIN m_modules : m_modules[i] = f.it
  BY <1>2 DEF IInv, StopsFine
<1>4. Position(f.it.moduleId) = i
  BY <1>3, PositionFacts DEF IInv
<1>5. PICK done \in BOOLEAN : done = (ok \/ f.force)
  BY <1>2 DEF StopFrames
<1>6. PICK keeps \in BOOLEAN : keeps = (f.call = "unloadAll" /\ ~done)
  OBVIOUS
<1>7. PICK next : next = IF keeps THEN i + 1 ELSE i
  OBVIOUS
<1>8. /\ IF done
         THEN /\ Delete(f.it.configuration)
              /\ instances' = [instances EXCEPT ![x].alive = FALSE]
         ELSE UNCHANGED <<configVars, instances>>
      /\ m_modules' = IF keeps THEN m_modules ELSE RemoveAt(m_modules, i)
      /\ frames' = IF f.call = "unloadAll" /\ next <= Len(m_modules')
                   THEN Append(Below, [f EXCEPT !.it = m_modules'[next], !.refused = Refused(ok)])
                   ELSE Below
  BY <1>1, <1>4, <1>5, <1>6, <1>7 DEF StopReturns, After
<1>9. PICK g : g = IF done THEN f.it.configuration ELSE 0
  OBVIOUS
<1>10. Delete(g) /\ \/ g = f.it.configuration /\ ~keeps /\ instances' = [instances EXCEPT ![x].alive = FALSE]
                    \/ g = 0 /\ instances' = instances
  BY <1>6, <1>8, <1>9 DEF Delete
<1>11. keeps => f.call = "unloadAll" /\ ~ok
  BY <1>5, <1>6
<1>12. Returned(ok, N, f, i, x, g, keeps, next)
  BY <1>1, <1>3, <1>7, <1>8, <1>10, <1>11 DEF Returned
<1> QED BY <1>12

\* The frames below are the same; the one on top is gone, or waits for another module.
LEMMA BelowFacts ==
  ASSUME IInv, At("stop"), NEW ok \in BOOLEAN, NEW N, NEW f, NEW i, NEW x, NEW g, NEW keeps, NEW next,
         Returned(ok, N, f, i, x, g, keeps, next), m_modules' \in Seq(Encapsulations),
         next \in Nat, next > 0
  PROVE  /\ frames' \in Seq(LoadFrames \cup StopFrames)
         /\ N \in DOMAIN frames \ Loads /\ f = frames[N]
         /\ Loads' = Loads /\ \A k \in Loads : frames'[k] = frames[k] /\ k # N
         /\ \A k \in DOMAIN frames' \ Loads' : k \in DOMAIN frames \ Loads
         /\ \A k \in DOMAIN frames' \ Loads' : k # N => frames'[k] = frames[k] /\ k < N
         /\ N \in DOMAIN frames' =>
              /\ f.call = "unloadAll" /\ next \in DOMAIN m_modules'
              /\ frames'[N].it = m_modules'[next] /\ frames'[N].call = f.call
              /\ frames'[N].refused = Refused(ok)
<1>1. /\ N = Len(frames) /\ f = Top
      /\ \/ f.call = "unloadAll" /\ next <= Len(m_modules')
            /\ frames' = Append(Below, [f EXCEPT !.it = m_modules'[next], !.refused = Refused(ok)])
         \/ frames' = Below
  BY DEF Returned
<1>2. /\ f = frames[N] /\ N \in DOMAIN frames \ Loads /\ N \in Nat
      /\ f \in StopFrames /\ f.it \in Encapsulations /\ frames # <<>>
      /\ Below \in Seq(LoadFrames \cup StopFrames) /\ Popped(frames, Below)
  BY <1>1, TopStopFacts DEF IInv
<1>3. CASE frames' = Below
  <2>1. /\ \A k : k \in DOMAIN frames' <=> k \in DOMAIN frames /\ k # N
        /\ \A k \in DOMAIN frames' : frames'[k] = frames[k] /\ k < N
    BY <1>1, <1>2, <1>3, SMT DEF Popped
  <2>2. Loads' = Loads
    BY <1>2, <2>1 DEF Loads
  <2> QED BY <1>2, <1>3, <2>1, <2>2 DEF Loads
<1>4. CASE f.call = "unloadAll" /\ next <= Len(m_modules')
           /\ frames' = Append(Below, [f EXCEPT !.it = m_modules'[next], !.refused = Refused(ok)])
  <2>1. PICK m, r : m = m_modules'[next] /\ r = Refused(ok)
    OBVIOUS
  <2>2. next \in DOMAIN m_modules'
    <3>1. Len(m_modules') \in Nat /\ DOMAIN m_modules' = 1 .. Len(m_modules')
      BY LenProperties
    <3> QED BY <1>4, <3>1, SMT
  <2>3. m \in Encapsulations
    <3>1. next \in 1 .. Len(m_modules')
      BY <2>2, LenProperties
    <3> QED BY <2>1, <3>1, ElementOfSeq
  <2>4. r \in SUBSET Nat
    <3>1. f.refused \in SUBSET Nat /\ f.it.moduleId \in Nat
      BY <1>2 DEF StopFrames, Encapsulations
    <3> QED BY <1>1, <2>1, <3>1 DEF Refused
  <2>5. PICK e : e = [at |-> "stop", it |-> m, call |-> f.call, force |-> f.force, refused |-> r]
    OBVIOUS
  <2>6. e \in StopFrames /\ e.at = "stop" /\ e.it = m /\ e.call = f.call /\ e.refused = r
    BY <1>2, <2>3, <2>4, <2>5 DEF StopFrames
  <2>7. [f EXCEPT !.it = m, !.refused = r] = e
    <3>1. f = [at |-> "stop", it |-> f.it, call |-> f.call, force |-> f.force, refused |-> f.refused]
      BY <1>2 DEF StopFrames
    <3>2. PICK h : h = [at |-> "stop", it |-> m, call |-> f.call, force |-> f.force, refused |-> f.refused]
      OBVIOUS
    <3>3. [f EXCEPT !.it = m] = h
      BY <3>1, <3>2
    <3>4. [h EXCEPT !.refused = r] = e
      BY <2>5, <3>2
    <3> QED BY <3>3, <3>4
  <2>8. frames' = Append(Below, e)
    BY <1>4, <2>1, <2>7
  <2>9. frames' \in Seq(LoadFrames \cup StopFrames) /\ Replaced(frames, frames', e)
    <3>1. frames \in Seq(LoadFrames \cup StopFrames)
      BY DEF IInv, Typed
    <3> QED BY <1>2, <2>6, <2>8, <3>1, ReplaceFacts DEF Below
  <2>10. /\ DOMAIN frames' = DOMAIN frames /\ frames'[N] = e
         /\ \A k \in DOMAIN frames : k # N => frames'[k] = frames[k] /\ k < N
    BY <1>1, <2>9, SMT DEF Replaced
  <2>11. Loads' = Loads
    BY <1>2, <2>6, <2>10 DEF Loads
  <2> QED BY <1>2, <1>4, <2>1, <2>2, <2>6, <2>9, <2>10, <2>11 DEF Loads
<1> QED BY <1>1, <1>3, <1>4

\* What a sweep has gone past refused to stop.
LEMMA Swept ==
  ASSUME IInv, At("stop"), NEW ok \in BOOLEAN, NEW N, NEW f, NEW i, NEW x, NEW g, NEW keeps, NEW next, NEW old,
         Returned(ok, N, f, i, x, g, keeps, next), Was(old, i, keeps), f.call = "unloadAll",
         i \in Nat, NEW l \in 1 .. next - 1, l \in DOMAIN m_modules'
  PROVE  m_modules'[l].moduleId \in Refused(ok)
<1>1. /\ i \in DOMAIN m_modules /\ m_modules[i] = f.it /\ f = Top /\ N = Len(frames)
      /\ keeps \in BOOLEAN /\ (keeps => ~ok) /\ next = (IF keeps THEN i + 1 ELSE i)
  BY DEF Returned
<1>2. N \in DOMAIN frames \ Loads /\ f = frames[N]
  BY <1>1, TopStopFacts DEF IInv
<1>3. Refused(ok) = f.refused \cup (IF ok THEN {} ELSE {f.it.moduleId})
  BY <1>1 DEF Refused
<1>4. \A k \in 1 .. i - 1 : m_modules[k].moduleId \in f.refused
  <2>1. PICK j \in DOMAIN m_modules :
          m_modules[j] = f.it /\ \A k \in 1 .. j - 1 : m_modules[k].moduleId \in f.refused
    BY <1>2 DEF IInv, StopsFine
  <2>2. j = i
    BY <1>1, <2>1 DEF IInv, ModulesDiffer
  <2> QED BY <2>1, <2>2
<1>5. CASE l = i
  <2>1. keeps
    <3>1. ~keeps => l \in 1 .. i - 1
      BY <1>1
    <3>2. l \in 1 .. i - 1 => l # i
      BY SMT
    <3> QED BY <1>5, <3>1, <3>2
  <2>2. m_modules'[l] = f.it
    BY <1>1, <1>5, <2>1 DEF Returned
  <2> QED BY <1>1, <1>3, <2>1, <2>2
<1>6. CASE l # i
  <2>1. l \in 1 .. i \/ l \in 1 .. i - 1
    <3>1. \A n : n = i + 1 \/ n = i => \A k \in 1 .. n - 1 : k \in 1 .. i \/ k \in 1 .. i - 1
      BY SMT
    <3>2. next = i + 1 \/ next = i
      BY <1>1
    <3> QED BY <3>1, <3>2
  <2>2. l < i /\ l \in 1 .. i - 1
    BY <1>6, <2>1, SMT
  <2>3. m_modules'[l] = m_modules[l]
    BY <2>2 DEF Was
  <2> QED BY <1>3, <1>4, <2>2, <2>3
<1> QED BY <1>5, <1>6

LEMMA StopReturnsStep ==
  ASSUME IInv, NEW ok \in BOOLEAN, StopReturns(ok)
  PROVE  IInv'
<1>0. PICK N, f, i, x, g, keeps, next : Returned(ok, N, f, i, x, g, keeps, next)
  BY WhatReturns
<1>1. /\ i \in DOMAIN m_modules /\ m_modules[i] = f.it /\ x = f.it.moduleInterface /\ f = Top
      /\ keeps \in BOOLEAN /\ (keeps => f.call = "unloadAll" /\ ~ok)
      /\ next = (IF keeps THEN i + 1 ELSE i)
      /\ \/ g = f.it.configuration /\ ~keeps /\ instances' = [instances EXCEPT ![x].alive = FALSE]
         \/ g = 0 /\ instances' = instances
      /\ Delete(g)
      /\ m_modules' = (IF keeps THEN m_modules ELSE RemoveAt(m_modules, i))
  BY <1>0 DEF Returned
<1>2. /\ m_modules' \in Seq(Encapsulations)
      /\ DOMAIN m_modules' = 1 .. Len(m_modules') /\ Len(m_modules') \in Nat
      /\ \E old : Was(old, i, keeps)
  BY <1>1, WhatIsLeft DEF IInv
<1>3. PICK old : Was(old, i, keeps)
  BY <1>2
<1>4. i \in Nat /\ i > 0 /\ next \in Nat /\ next > 0
  <2>1. Len(m_modules) \in Nat /\ DOMAIN m_modules = 1 .. Len(m_modules)
    BY FrameFacts DEF IInv
  <2>2. i \in 1 .. Len(m_modules)
    BY <1>1, <2>1
  <2>3. i \in Nat /\ i > 0 /\ i + 1 \in Nat /\ i + 1 > 0
    BY <2>1, <2>2, SMT
  <2> QED BY <1>1, <2>3
<1>5. At("stop") /\ UNCHANGED <<m_idCounter, mapped, leaks>>
  BY DEF StopReturns
<1>6. /\ frames' \in Seq(LoadFrames \cup StopFrames)
      /\ N \in DOMAIN frames \ Loads /\ f = frames[N]
      /\ Loads' = Loads /\ (\A k \in Loads : frames'[k] = frames[k] /\ k # N)
      /\ (\A k \in DOMAIN frames' \ Loads' : k \in DOMAIN frames \ Loads)
      /\ (\A k \in DOMAIN frames' \ Loads' : k # N => frames'[k] = frames[k] /\ k < N)
      /\ (N \in DOMAIN frames' =>
            /\ f.call = "unloadAll" /\ next \in DOMAIN m_modules'
            /\ frames'[N].it = m_modules'[next] /\ frames'[N].call = f.call
            /\ frames'[N].refused = Refused(ok))
  BY <1>0, <1>2, <1>4, <1>5, BelowFacts
<1>7. /\ Matches(f.it, TRUE) /\ f.it.moduleId < m_idCounter
      /\ (f.it.configuration # 0 => Filled(f.it.configuration))
  BY <1>1 DEF IInv, ModulesFine, ModuleFine
<1>8. /\ ConfigTyped' /\ (\A d : Usable(d)' <=> Usable(d) /\ d # g)
      /\ (\A d : Filled(d)' <=> Filled(d) /\ d # g)
  <2>1. g # 0 => g \in DOMAIN configurations
    BY <1>1, <1>7 DEF Filled, Usable
  <2> QED BY <1>1, <2>1, Deletes DEF IInv, Typed
<1>9. /\ instances' \in Seq(Instances) /\ DOMAIN instances' = DOMAIN instances
      /\ \A k \in DOMAIN instances :
           /\ instances'[k].started = instances[k].started /\ instances'[k].of = instances[k].of
           /\ k # x \/ instances' = instances => instances'[k] = instances[k]
  <2>1. CASE instances' = instances
    BY <2>1 DEF IInv, Typed
  <2>2. CASE instances' = [instances EXCEPT ![x].alive = FALSE] /\ g = f.it.configuration
    <3>1. PICK r : r = instances[x]
      OBVIOUS
    <3>2. x \in DOMAIN instances /\ r \in Instances
      BY <1>1, <1>7, <3>1, FrameFacts DEF Matches, IInv
    <3>3. r = [alive |-> r.alive, started |-> r.started, of |-> r.of]
      BY <3>2 DEF Instances
    <3>4. PICK q : q = [alive |-> FALSE, started |-> r.started, of |-> r.of]
      OBVIOUS
    <3>5. q \in Instances /\ q.started = r.started /\ q.of = r.of
      BY <3>2, <3>4 DEF Instances
    <3>6. [instances[x] EXCEPT !.alive = FALSE] = q
      <4>1. \A v : [r EXCEPT !.alive = v] = [alive |-> v, started |-> r.started, of |-> r.of]
        BY <3>3
      <4> QED BY <3>1, <3>4, <4>1
    <3>7. instances' = [instances EXCEPT ![x] = q]
      BY <2>2, <3>6
    <3>8. x \in 1 .. Len(instances)
      BY <3>2, FrameFacts DEF IInv
    <3>9. instances' \in Seq(Instances)
      BY <3>5, <3>7, <3>8, ExceptSeq DEF IInv, Typed
    <3> QED BY <2>2, <3>1, <3>2, <3>5, <3>7, <3>9
  <2> QED BY <1>1, <2>1, <2>2
<1>10. ASSUME NEW it, NEW started \in BOOLEAN, Matches(it, started), it.moduleInterface # x \/ instances' = instances
       PROVE  Matches(it, started)'
  BY <1>9, <1>10 DEF Matches
<1>11. Typed'
  BY <1>2, <1>5, <1>6, <1>8, <1>9 DEF IInv, Typed
<1>12. /\ old \in [DOMAIN m_modules' -> DOMAIN m_modules]
       /\ \A k \in DOMAIN m_modules' : m_modules'[k] = m_modules[old[k]] /\ (old[k] = i => keeps)
       /\ \A k, l \in DOMAIN m_modules' : k # l => old[k] # old[l]
  BY <1>3 DEF Was
<1>13. ASSUME NEW j \in DOMAIN m_modules, j = i => keeps
       PROVE  /\ m_modules[j].moduleInterface # x \/ instances' = instances
              /\ m_modules[j].configuration # 0 => m_modules[j].configuration # g
  <2>1. CASE j = i
    BY <1>1, <1>13, <2>1
  <2>2. CASE j # i
    BY <1>1, <2>2 DEF IInv, ModulesDiffer
  <2> QED BY <2>1, <2>2
<1>14. ModulesFine'
  <2> SUFFICES ASSUME NEW k \in DOMAIN m_modules' PROVE ModuleFine(m_modules[k])'
    BY DEF ModulesFine
  <2>1. PICK m : m = m_modules[old[k]]
    OBVIOUS
  <2>2. /\ m_modules'[k] = m /\ ModuleFine(m) /\ (m.moduleInterface # x \/ instances' = instances)
        /\ (m.configuration # 0 => m.configuration # g)
    BY <1>12, <1>13, <2>1 DEF IInv, ModulesFine
  <2>3. Matches(m, TRUE)'
    BY <1>10, <2>2 DEF ModuleFine
  <2>4. ModuleFine(m)'
    BY <1>5, <1>8, <2>2, <2>3 DEF ModuleFine
  <2> QED BY <2>2, <2>4 DEF ModuleFine, Matches, Filled, Usable
<1>15. ModulesDiffer'
  BY <1>12 DEF IInv, ModulesDiffer
<1>16. LoadsFine' /\ LoadsDiffer'
  <2>1. ASSUME NEW k \in Loads PROVE LoadFine(frames[k])'
    <3>1. PICK h : h = frames[k]
      OBVIOUS
    <3>2. LoadFine(h)
      BY <3>1 DEF IInv, LoadsFine
    <3>3. h.it.configuration # 0 =>
            /\ h.it.configuration # g
            /\ \A j \in DOMAIN m_modules' : m_modules'[j].configuration # h.it.configuration
      BY <1>1, <1>12, <3>2 DEF LoadFine
    <3>4. h.at = "start" => Matches(h.it, FALSE)'
      <4>1. instances[x].started = TRUE
        BY <1>1, <1>7 DEF Matches
      <4>2. h.at = "start" => Matches(h.it, FALSE) /\ h.it.moduleInterface # x
        BY <3>2, <4>1 DEF LoadFine, Matches
      <4> QED BY <1>10, <4>2
    <3>5. LoadFine(h)'
      BY <1>8, <3>2, <3>3, <3>4 DEF LoadFine
    <3>6. frames'[k] = h
      BY <1>6, <3>1
    <3> QED BY <3>5, <3>6 DEF LoadFine, Matches, Usable, Filled
  <2>2. LoadsFine'
    BY <1>6, <2>1 DEF LoadsFine
  <2>3. LoadsDiffer'
    BY <1>6 DEF IInv, LoadsDiffer
  <2> QED BY <2>2, <2>3
<1>17. OwnersFine'
  <2> SUFFICES ASSUME NEW d, Filled(d)' PROVE Owned(d)'
    BY DEF OwnersFine
  <2>1. Owned(d) /\ d # g
    BY <1>8 DEF IInv, OwnersFine, Filled, Usable
  <2>2. CASE \E k \in Loads : frames[k].it.configuration = d
    BY <1>6, <2>2 DEF Owned
  <2>3. CASE \E k \in DOMAIN instances :
               instances[k].alive /\ instances[k].started /\ instances[k].of.configuration = d
    <3>1. PICK k \in DOMAIN instances :
                 instances[k].alive /\ instances[k].started /\ instances[k].of.configuration = d
      BY <2>3
    <3>2. k # x \/ instances' = instances
      BY <1>1, <1>7, <2>1, <3>1 DEF Matches
    <3>3. instances'[k] = instances[k] /\ k \in DOMAIN instances'
      BY <1>9, <3>2
    <3> QED BY <3>1, <3>3 DEF Owned
  <2> QED BY <2>1, <2>2, <2>3 DEF Owned
<1>18. StopsFine'
  <2> SUFFICES ASSUME NEW k \in DOMAIN frames' \ Loads'
               PROVE  \E j \in DOMAIN m_modules' :
                        /\ m_modules'[j] = frames'[k].it
                        /\ frames'[k].call = "unloadAll" =>
                             \A l \in 1 .. j - 1 : m_modules'[l].moduleId \in frames'[k].refused
    BY DEF StopsFine
  <2>1. CASE k = N
    <3>1. /\ f.call = "unloadAll" /\ next \in DOMAIN m_modules' /\ m_modules'[next] = frames'[k].it
          /\ frames'[k].refused = Refused(ok)
      BY <1>6, <2>1
    <3>2. ASSUME NEW l \in 1 .. next - 1 PROVE m_modules'[l].moduleId \in frames'[k].refused
      <4>1. l \in DOMAIN m_modules'
        BY <1>3, <3>1 DEF Was
      <4>2. m_modules'[l].moduleId \in Refused(ok)
        BY <1>0, <1>3, <1>4, <1>5, <3>1, <4>1, Swept
      <4> QED BY <3>1, <4>2
    <3> QED BY <3>1, <3>2
  <2>2. CASE k # N
    <3>1. /\ k \in DOMAIN frames \ Loads /\ frames'[k] = frames[k] /\ k < N
      BY <1>6, <2>2
    <3>2. PICK j \in DOMAIN m_modules :
            /\ m_modules[j] = frames[k].it
            /\ frames[k].call = "unloadAll" => \A l \in 1 .. j - 1 : m_modules[l].moduleId \in frames[k].refused
      BY <3>1 DEF IInv, StopsFine
    <3>3. j # i
      BY <1>1, <1>6, <3>1, <3>2 DEF IInv, StopsDiffer
    <3>4. PICK n \in DOMAIN m_modules' : old[n] = j
      BY <1>3, <3>3 DEF Was
    <3>5. \A l \in 1 .. n - 1 : m_modules'[l] = m_modules[old[l]] /\ old[l] \in 1 .. j - 1
      BY <1>3, <3>4 DEF Was
    <3> QED BY <1>12, <3>1, <3>2, <3>4, <3>5
  <2> QED BY <2>1, <2>2
<1>19. StopsDiffer'
  <2> SUFFICES ASSUME NEW j \in DOMAIN frames' \ Loads', NEW k \in DOMAIN frames' \ Loads', j < k
               PROVE  frames'[j].it.moduleId # frames'[k].it.moduleId /\ frames'[k].call # "unloadAll"
    BY DEF StopsDiffer
  <2>1. j \in DOMAIN frames \ Loads /\ k \in DOMAIN frames \ Loads
    BY <1>6
  <2>2. k # N
    BY <1>6, <2>1 DEF IInv, StopsDiffer
  <2>3. j # N
    <3>1. k < N /\ N \in Int /\ k \in Int
      <4>1. Len(frames) \in Nat /\ DOMAIN frames = 1 .. Len(frames)
        BY FrameFacts DEF IInv
      <4>2. N \in Int /\ k \in Int
        BY <1>6, <2>1, <4>1
      <4> QED BY <1>6, <2>2, <4>2
    <3>2. ~(N < k)
      BY <3>1, SMT
    <3> QED BY <3>2
  <2> QED BY <1>6, <2>1, <2>2, <2>3 DEF IInv, StopsDiffer
<1>20. CountsFine'
  <2>1. \A l : Loading(l)' = Loading(l)
    <3>1. \A l, k : k \in Loading(l) <=>
            k \in Loads /\ frames[k].at \in {"parse", "init", "start"} /\ frames[k].it.library = l
      BY DEF Loading, Loads
    <3>2. \A l, k : k \in Loading(l)' <=>
            k \in Loads' /\ frames'[k].at \in {"parse", "init", "start"} /\ frames'[k].it.library = l
      BY DEF Loading, Loads
    <3>3. \A l, k : k \in Loading(l)' <=> k \in Loading(l)
      BY <1>6, <3>1, <3>2
    <3>4. \A l : Loading(l) \subseteq DOMAIN frames /\ Loading(l)' \subseteq DOMAIN frames'
      BY DEF Loading
    <3> QED BY <3>3, <3>4
  <2>2. \A l : Started(l)' = Started(l)
    BY <1>9 DEF Started
  <2> QED BY <1>5, <2>1, <2>2, SameCounts DEF IInv
<1> QED BY <1>11, <1>14, <1>15, <1>16, <1>17, <1>18, <1>19, <1>20 DEF IInv

-----------------------------------------------------------------------------
(* The whole specification. *)

LEMMA InitHolds == Init => IInv
<1> SUFFICES ASSUME Init PROVE IInv
  OBVIOUS
<1>1. /\ configurations = <<>> /\ m_modules = <<>> /\ m_idCounter = 1 /\ instances = <<>> /\ frames = <<>>
      /\ mapped = [l \in Libraries |-> 0] /\ leaks = [l \in Libraries |-> 0]
  BY DEF Init, ConfigInit
<1>2. \A S : <<>> \in Seq(S)
  BY EmptySeq
<1>3. DOMAIN (<<>>) = {}
  BY SMT
<1>4. Typed
  BY <1>1, <1>2, <1>3, SMT DEF Typed, ConfigTyped
<1>5. /\ ModulesFine /\ ModulesDiffer /\ LoadsFine /\ LoadsDiffer /\ OwnersFine /\ StopsFine /\ StopsDiffer
  BY <1>1, <1>3 DEF ModulesFine, ModulesDiffer, LoadsFine, LoadsDiffer, OwnersFine, StopsFine, StopsDiffer,
                    Loads, Filled, Usable
<1>6. CountsFine
  <2>1. \A l : Loading(l) = {} /\ Started(l) = {}
    BY <1>1, <1>3 DEF Loading, Started
  <2>2. Cardinality({}) = 0
    BY FS_EmptySet
  <2>3. 0 = 0 + 0 + 0
    BY SMT
  <2>4. \A l \in Libraries : mapped[l] = 0 /\ leaks[l] = 0
    BY <1>1
  <2> HIDE DEF Loading, Started
  <2> QED BY <2>1, <2>2, <2>3, <2>4 DEF CountsFine
<1> QED BY <1>4, <1>5, <1>6 DEF IInv

LEMMA NextPreserves == IInv /\ [Next]_vars => IInv'
<1> SUFFICES ASSUME IInv, [Next]_vars PROVE IInv'
  OBVIOUS
<1>1. CASE UNCHANGED vars \/ Idle \/ ParseStep
  <2>1. UNCHANGED <<configurations, m_modules, m_idCounter, instances, frames, mapped, leaks>>
    BY <1>1 DEF Idle, ParseStep, vars, configVars, managerVars
  <2> QED BY <2>1, SameStep
<1>2. CASE ParseReturns
  <2>1. CASE Throws
    <3>1. TopLoad /\ Undo /\ UNCHANGED <<m_modules, m_idCounter, instances, leaks>>
      BY <1>2, <2>1 DEF ParseReturns, At, TopLoad
    <3> QED BY <3>1, UndoStep
  <2>2. CASE ~Throws
    BY <1>2, <2>2, ParsedStep
  <2> QED BY <2>1, <2>2
<1>3. CASE UnloadAll
  <2>1. 1 \in DOMAIN m_modules
    <3>1. Len(m_modules) \in Nat /\ DOMAIN m_modules = 1 .. Len(m_modules) /\ Len(m_modules) # 0
      BY <1>3, FrameFacts, EmptySeq DEF IInv, Typed, UnloadAll
    <3> QED BY <3>1, SMT
  <2>2. /\ Stopping = {} /\ frames' = Append(frames, Stop("unloadAll", FALSE, 1))
        /\ UNCHANGED <<configurations, m_modules, m_idCounter, instances, mapped, leaks>>
    BY <1>3 DEF UnloadAll, configVars
  <2>3. m_modules[1].moduleId \notin Stopping
    BY <2>2
  <2> QED BY <2>1, <2>2, <2>3, StopPush
<1>4. ASSUME NEW l \in Libraries, NoSymbol(l) PROVE IInv'
  BY <1>4, NoSymbolStep
<1>5. ASSUME NEW l \in Libraries, NoFile(l) PROVE IInv'
  BY <1>5, NoFileStep
<1>6. ASSUME NEW l \in Libraries, NEW file \in {0, loads + 1}, LoadModule(l, file) PROVE IInv'
  BY <1>6, LoadStep
<1>7. ASSUME NEW ok \in BOOLEAN, InitFunction(ok) PROVE IInv'
  <2>1. CASE ok
    <3>1. InitFunction(TRUE)
      BY <1>7, <2>1 DEF InitFunction
    <3> QED BY <3>1, InitOkStep
  <2>2. CASE ~ok
    <3>1. TopLoad /\ Undo /\ UNCHANGED <<m_modules, m_idCounter, instances, leaks>>
      BY <1>7, <2>2 DEF InitFunction, At, TopLoad
    <3> QED BY <3>1, UndoStep
  <2> QED BY <2>1, <2>2
<1>8. ASSUME NEW ok \in BOOLEAN, StartReturns(ok) PROVE IInv'
  <2>1. CASE ok
    <3>1. StartReturns(TRUE)
      BY <1>8, <2>1 DEF StartReturns
    <3> QED BY <3>1, StartOkStep
  <2>2. CASE ~ok
    <3>1. TopLoad /\ Undo /\ UNCHANGED <<m_modules, m_idCounter, instances, leaks>>
      BY <1>8, <2>2 DEF StartReturns, At, TopLoad
    <3> QED BY <3>1, UndoStep
  <2> QED BY <2>1, <2>2
<1>9. ASSUME NEW ok \in BOOLEAN, StopReturns(ok) PROVE IInv'
  BY <1>9, StopReturnsStep
<1>10. ASSUME NEW id \in Ids, NEW force \in BOOLEAN, UnloadModule(id, force) PROVE IInv'
  <2>1. PICK i \in DOMAIN m_modules : m_modules[i].moduleId = id
    BY DEF Ids
  <2>2. Position(id) = i
    BY <2>1, PositionFacts DEF IInv
  <2>3. /\ m_modules[i].moduleId \notin Stopping /\ frames' = Append(frames, Stop("unloadModule", force, i))
        /\ UNCHANGED <<configurations, m_modules, m_idCounter, instances, mapped, leaks>>
    BY <1>10, <2>1, <2>2 DEF UnloadModule, configVars
  <2> QED BY <2>3, StopPush
<1> QED BY <1>1, <1>2, <1>3, <1>4, <1>5, <1>6, <1>7, <1>8, <1>9, <1>10 DEF Next

(* IInv holds in every state, whatever modules do in start() and stop(): each frame of a load   *)
(* and each entry of the list has a configuration and an instance that exist and that no other  *)
(* one has, and every module that is being stopped is in the list.                              *)
THEOREM Invariance == Spec => []IInv
<1>1. Init => IInv
  BY InitHolds
<1>2. IInv /\ [Next]_vars => IInv'
  BY NextPreserves
<1> QED BY <1>1, <1>2, PTL DEF Spec

(* Any module in the list is whole: it has an id of its own, an instance and a configuration    *)
(* that exist and belong to no other module, and a library that is open.                        *)
THEOREM ListedModulesAreWhole == Spec => []LoadedIsWhole
<1>1. IInv => LoadedIsWhole
  <2> SUFFICES ASSUME IInv, NEW i \in DOMAIN m_modules
               PROVE  LET m == m_modules[i]
                      IN /\ instances[m.moduleInterface].alive /\ mapped[m.library] > 0
                         /\ m.configuration # 0 =>
                              configurations[m.configuration].alive /\ configurations[m.configuration].m_rootNode # 0
                         /\ \A k \in DOMAIN m_modules \ {i} :
                              /\ m_modules[k].moduleId # m.moduleId
                              /\ m_modules[k].moduleInterface # m.moduleInterface
                              /\ m_modules[k].configuration # m.configuration \/ m.configuration = 0
    BY DEF LoadedIsWhole
  <2>1. PICK m, x : m = m_modules[i] /\ x = m.moduleInterface
    OBVIOUS
  <2>2. /\ ModuleFine(m) /\ x \in DOMAIN instances /\ instances[x].alive /\ instances[x].started = TRUE
        /\ instances[x].of.library = m.library
    BY <2>1 DEF IInv, ModulesFine, ModuleFine, Matches
  <2>3. m \in Encapsulations /\ m.library \in Libraries
    BY <2>1, FrameFacts DEF IInv, Encapsulations
  <2>4. mapped[m.library] > 0
    <3>1. PICK l : l = m.library
      OBVIOUS
    <3>2. x \in Started(l)
      BY <2>2, <3>1 DEF Started
    <3>3. /\ mapped[l] = Cardinality(Loading(l)) + Cardinality(Started(l)) + leaks[l]
          /\ Cardinality(Loading(l)) \in Nat /\ Cardinality(Started(l)) \in Nat /\ leaks[l] \in Nat
          /\ IsFiniteSet(Started(l))
      BY <2>3, <3>1, FiniteCounts DEF IInv, CountsFine, Typed
    <3>4. Cardinality(Started(l)) # 0
      BY <3>2, <3>3, FS_EmptySet
    <3> HIDE DEF Loading, Started
    <3>5. mapped[l] > 0
      BY <3>3, <3>4, SMT
    <3> QED BY <3>1, <3>5
  <2>5. \A k \in DOMAIN m_modules \ {i} :
          /\ m_modules[k].moduleId # m.moduleId /\ m_modules[k].moduleInterface # m.moduleInterface
          /\ m_modules[k].configuration # m.configuration \/ m.configuration = 0
    BY <2>1 DEF IInv, ModulesDiffer
  <2>6. m.configuration # 0 => configurations[m.configuration].alive /\ configurations[m.configuration].m_rootNode # 0
    BY <2>2 DEF ModuleFine, Filled, Usable
  <2> QED BY <2>1, <2>2, <2>4, <2>5, <2>6
<1> QED BY <1>1, Invariance, PTL

(* A load that fails undoes its own steps and no other's: a library is open for each load under  *)
(* way and for each module that runs, and otherwise only for modules that were unloaded and      *)
(* loads that found no symbol in it; and a configuration with a tree belongs to a load under way *)
(* or to a module that runs.                                                                     *)
THEOREM FailuresLeaveNothing == Spec => []FailedLoadsAreUndone
<1>1. IInv => FailedLoadsAreUndone
  <2> SUFFICES ASSUME IInv PROVE FailedLoadsAreUndone
    OBVIOUS
  <2>1. ASSUME NEW l \in Libraries
        PROVE  /\ mapped[l] >= Cardinality(Loading(l)) + Cardinality(Running(l))
               /\ mapped[l] <= Cardinality(Loading(l)) + Cardinality(Started(l)) + leaks[l]
    <3>1. /\ mapped[l] = Cardinality(Loading(l)) + Cardinality(Started(l)) + leaks[l] /\ leaks[l] \in Nat
          /\ Cardinality(Loading(l)) \in Nat /\ Cardinality(Started(l)) \in Nat /\ IsFiniteSet(Started(l))
      BY FiniteCounts DEF IInv, CountsFine, Typed
    <3>2. Running(l) \in SUBSET Started(l)
      BY DEF Running
    <3>3. /\ IsFiniteSet(Running(l)) /\ Cardinality(Running(l)) \in Nat
          /\ Cardinality(Running(l)) <= Cardinality(Started(l))
      BY <3>1, <3>2, FS_Subset, FS_CardinalityType
    <3> HIDE DEF Loading, Started, Running
    <3> QED BY <3>1, <3>3, SMT
  <2>2. ASSUME NEW c \in DOMAIN configurations, configurations[c].alive /\ configurations[c].m_rootNode # 0
        PROVE  \E l \in Libraries : \/ \E i \in Loading(l) : frames[i].it.configuration = c
                                    \/ \E i \in Running(l) : instances[i].of.configuration = c
    <3>1. Owned(c)
      BY <2>2 DEF IInv, OwnersFine, Filled, Usable
    <3>2. ASSUME NEW k \in Loads PROVE frames[k].it.library \in Libraries /\ k \in Loading(frames[k].it.library)
      <4>1. frames[k] \in LoadFrames /\ k \in DOMAIN frames
        BY FrameFacts DEF IInv, Loads
      <4> QED BY <4>1 DEF LoadFrames, Encapsulations, Loading
    <3>3. ASSUME NEW i \in DOMAIN instances, instances[i].alive, instances[i].started
          PROVE  instances[i].of.library \in Libraries /\ i \in Running(instances[i].of.library)
      <4>1. instances[i] \in Instances
        BY FrameFacts DEF IInv
      <4> QED BY <3>3, <4>1 DEF Instances, Encapsulations, Running, Started
    <3> QED BY <3>1, <3>2, <3>3 DEF Owned
  <2> QED BY <2>1, <2>2 DEF FailedLoadsAreUndone
<1> QED BY <1>1, Invariance, PTL

\* A stack that has grown is another one.
LEMMA Grown ==
  ASSUME NEW S, NEW s \in Seq(S), NEW e
  PROVE  Append(s, e) # s /\ Last(Append(s, e)) = e
<1>1. s \in Seq(S \cup {e}) /\ e \in S \cup {e}
  BY SeqMonotonic
<1>2. Pushed(s, Append(s, e), e)
  BY <1>1, PushFacts
<1>3. PICK t : t = Append(s, e)
  OBVIOUS
<1>4. Len(s) \in Nat /\ Len(t) = Len(s) + 1 /\ t[Len(t)] = e
  BY <1>2, <1>3 DEF Pushed
<1>5. Len(t) # Len(s)
  BY <1>4, SMT
<1>6. Last(t) = e
  BY <1>4 DEF Last
<1> QED BY <1>3, <1>5, <1>6

(* unloadAll() passes over no module: after every stop() of a sweep, whoever is in the list in   *)
(* front of the module where the sweep stands refused to stop in that very sweep, although       *)
(* others are erased under its iterator and each stop() loads and unloads what it likes.         *)
THEOREM SweepsSkipNone == Spec => SweepSkipsNone
<1>1. ASSUME IInv, NEW ok \in BOOLEAN, At("stop"), Top.call = "unloadAll", StopReturns(ok), NEW l \in DOMAIN m_modules'
      PROVE  \/ m_modules'[l].moduleId \in Refused(ok)
             \/ \E k \in 1 .. l : m_modules'[k].moduleId \in StandsAt(ok)
  <2>1. Below \in Seq(LoadFrames \cup StopFrames)
    BY <1>1, TopStopFacts DEF IInv
  <2>2. PICK N, f, i, x, g, keeps, next : Returned(ok, N, f, i, x, g, keeps, next)
    BY <1>1, WhatReturns
  <2>3. /\ i \in DOMAIN m_modules /\ keeps \in BOOLEAN /\ f.call = "unloadAll"
        /\ m_modules' = (IF keeps THEN m_modules ELSE RemoveAt(m_modules, i))
        /\ next = (IF keeps THEN i + 1 ELSE i)
    BY <1>1, <2>2 DEF Returned
  <2>4. PICK old : Was(old, i, keeps)
    BY <1>1, <2>3, WhatIsLeft DEF IInv
  <2>5. DOMAIN m_modules' = 1 .. Len(m_modules') /\ Len(m_modules') \in Nat
    BY <1>1, <2>3, WhatIsLeft DEF IInv
  <2>6. i \in Nat /\ i >= 1
    <3>1. Len(m_modules) \in Nat /\ DOMAIN m_modules = 1 .. Len(m_modules)
      BY <1>1, FrameFacts DEF IInv
    <3> QED BY <2>3, <3>1, SMT
  <2>7. next \in Nat /\ next >= 1
    BY <2>3, <2>6
  <2>8. CASE l \in 1 .. next - 1
    BY <1>1, <2>2, <2>3, <2>4, <2>6, <2>8, Swept
  <2>9. CASE l \notin 1 .. next - 1
    <3>1. next \in 1 .. l /\ next <= Len(m_modules')
      BY <1>1, <2>5, <2>7, <2>9, SMT
    <3>2. PICK e : e = [f EXCEPT !.it = m_modules'[next], !.refused = Refused(ok)] /\ frames' = Append(Below, e)
      BY <2>2, <2>3, <3>1 DEF Returned
    <3>3. f \in StopFrames
      BY <1>1, <2>2, TopStopFacts DEF IInv, Returned
    <3>4. e.it = m_modules'[next]
      BY <3>2, <3>3 DEF StopFrames
    <3>5. frames' # Below /\ Last(frames') = e
      BY <2>1, <3>2, Grown
    <3>6. m_modules'[next].moduleId \in StandsAt(ok)
      BY <3>4, <3>5 DEF StandsAt
    <3> QED BY <3>1, <3>6
  <2> QED BY <2>8, <2>9
<1>2. IInv /\ [Next]_vars =>
        [\A ok \in BOOLEAN : At("stop") /\ Top.call = "unloadAll" /\ StopReturns(ok) =>
           \A i \in DOMAIN m_modules' :
             \/ m_modules'[i].moduleId \in Refused(ok)
             \/ \E k \in 1 .. i : m_modules'[k].moduleId \in StandsAt(ok)]_vars
  BY <1>1
<1> QED BY <1>2, Invariance, PTL DEF Spec, SweepSkipsNone

==============================================================================
