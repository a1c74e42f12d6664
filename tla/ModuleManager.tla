---------------------------- MODULE ModuleManager ----------------------------
(***************************************************************************)
(* The ModuleManager: libraries, their configurations, and module          *)
(* instances. A module's init function, start() and stop() may load and    *)
(* unload modules themselves, so calls are kept on a stack of frames. Its  *)
(* destructor is assumed not to.                                           *)
(***************************************************************************)
EXTENDS Configuration

CONSTANTS
  Libraries,
  MaxLoads,     \* bound on the calls of loadModule
  MaxParsing,   \* bound on the calls that may come with a file: the first ones
  FewLexemes,   \* if the files had more lexemes than this, there are no other calls than those
  MaxDepth      \* bound on nested calls

VARIABLES
  m_modules, m_idCounter,
  mapped,       \* dlopen's count of each library
  instances,    \* every Module ever made: whether it was deleted, and for the properties
                \* whether start() succeeded, its library and its configuration
  frames,       \* the calls under way, the innermost last
  loads,        \* number of calls of loadModule
  leaks         \* history: the libraries, with repetitions, whose failed load left them open

managerVars == <<m_modules, m_idCounter, mapped, instances, frames, loads, leaks>>
vars == <<lexVars, parseVars, configVars, managerVars>>

Init ==
  /\ ConfigInit
  /\ m_modules = <<>> /\ m_idCounter = 1 /\ instances = <<>> /\ frames = <<>> /\ loads = 0
  /\ mapped = [l \in Libraries |-> 0] /\ leaks = [l \in Libraries |-> 0]

Top    == Last(frames)
Below  == Front(frames)
At(at) == frames # <<>> /\ Top.at = at
Ids    == {m_modules[i].moduleId : i \in DOMAIN m_modules}

\* The program has control: outside of all calls, or in a module's init function, start() or stop().
Program == frames # <<>> => Top.at \in {"init", "start", "stop"}
MayLoad == Program /\ loads < IF scanned > FewLexemes THEN MaxParsing ELSE MaxLoads

\* What a load frame or an entry of the list refers to.
Encapsulation(id, library, configuration, instance) ==
  [moduleId |-> id, library |-> library, configuration |-> configuration, moduleInterface |-> instance]

-----------------------------------------------------------------------------
(* loadModule(). *)

\* dlopen() and dlsym(). Without the symbol the library stays open; dlopen() may fail with no effect.
NoSymbol(library) ==
  /\ MayLoad
  /\ loads' = loads + 1
  /\ mapped' = [mapped EXCEPT ![library] = @ + 1] /\ leaks' = [leaks EXCEPT ![library] = @ + 1]
  /\ UNCHANGED <<lexVars, parseVars, configVars, m_modules, m_idCounter, instances, frames>>

\* A Configuration is made in any case; without a file it is forgotten at once.
LoadModule(library, file) ==
  /\ MayLoad /\ Len(frames) < MaxDepth
  /\ loads' = loads + 1
  /\ mapped' = [mapped EXCEPT ![library] = @ + 1]
  /\ configurations' = Construct
  /\ \/ /\ file > 0 /\ loads < MaxParsing /\ Begin(file)
        /\ frames' = Append(frames, [at |-> "parse", it |-> Encapsulation(0, library, Len(configurations'), 0)])
     \/ /\ file = 0 /\ UNCHANGED <<lexVars, parseVars>>
        /\ frames' = Append(frames, [at |-> "init", it |-> Encapsulation(0, library, 0, 0)])
  /\ UNCHANGED <<freed, m_modules, m_idCounter, instances, leaks>>

\* The file cannot be opened: everything is undone, but yyin is no file.
NoFile(library) ==
  /\ MayLoad
  /\ loads' = loads + 1
  /\ yyin' = 0 /\ unread' = FALSE
  /\ configurations' = Append(configurations, [alive |-> FALSE, m_rootNode |-> 0])
  /\ UNCHANGED <<source, status, yy_start, stringBuffer, scanned, files, parseVars, freed,
                 m_modules, m_idCounter, mapped, instances, frames, leaks>>

ParseStep == At("parse") /\ Parse /\ UNCHANGED <<configVars, managerVars>>

MutantUndoOpen == Delete(Top.it.configuration) /\ frames' = Below /\ UNCHANGED mapped
MutantUndo == mapped' = [mapped EXCEPT ![Top.it.library] = @ - 1] /\ frames' = Below /\ UNCHANGED configVars

\* A step of loadModule failed: the library is closed, the configuration deleted, an error thrown.
Undo ==
  /\ mapped' = [mapped EXCEPT ![Top.it.library] = @ - 1]
  /\ Delete(Top.it.configuration)
  /\ frames' = Below

ParseReturns ==
  /\ At("parse") /\ pc = "return" /\ pc' = "idle"
  /\ IF Throws THEN Undo
     ELSE /\ configurations' = TakeTree(Top.it.configuration)
          /\ frames' = [frames EXCEPT ![Len(frames)].at = "init"]
          /\ UNCHANGED <<freed, mapped>>
  /\ UNCHANGED <<lexVars, yyss, yystacksize, yychar, yyresult, tree, history,
                 m_modules, m_idCounter, instances, loads, leaks>>

InitFunction(ok) ==
  /\ At("init")
  /\ IF ok
     THEN /\ instances' = Append(instances, [alive |-> TRUE, started |-> FALSE, of |-> Top.it])
          /\ frames' = [frames EXCEPT ![Len(frames)].at = "start", ![Len(frames)].it.moduleInterface = Len(instances')]
          /\ UNCHANGED <<mapped, configVars>>
     ELSE Undo /\ UNCHANGED instances
  /\ UNCHANGED <<lexVars, parseVars, m_modules, m_idCounter, loads, leaks>>

\* The instance of a module that does not start is forgotten.
StartReturns(ok) ==
  /\ At("start")
  /\ IF ok
     THEN /\ m_modules' = Append(m_modules, [Top.it EXCEPT !.moduleId = m_idCounter])
          /\ m_idCounter' = m_idCounter + 1 /\ frames' = Below
          /\ instances' = [instances EXCEPT ![Top.it.moduleInterface].started = TRUE]
          /\ UNCHANGED <<mapped, configVars>>
     ELSE Undo /\ UNCHANGED <<m_modules, m_idCounter, instances>>
  /\ UNCHANGED <<lexVars, parseVars, loads, leaks>>

-----------------------------------------------------------------------------
(* unloadModule() and unloadAll(). *)

Stopping == {frames[i].it.moduleId : i \in {i \in DOMAIN frames : frames[i].at = "stop"}}
Position(id) == CHOOSE i \in DOMAIN m_modules : m_modules[i].moduleId = id

\* A frame that waits for stop(). unloadAll() returns whether "refused" is empty.
Stop(call, force, i) == [at |-> "stop", it |-> m_modules[i], call |-> call, force |-> force, refused |-> {}]

\* Of a module whose stop() has not returned the program does not ask this.
UnloadModule(id, force) ==
  /\ Program /\ Len(frames) < MaxDepth /\ id \in Ids \ Stopping
  /\ frames' = Append(frames, Stop("unloadModule", force, Position(id)))
  /\ UNCHANGED <<lexVars, parseVars, configVars, m_modules, m_idCounter, mapped, instances, loads, leaks>>

UnloadAll ==
  /\ Program /\ Len(frames) < MaxDepth /\ Stopping = {} /\ m_modules # <<>>
  /\ frames' = Append(frames, Stop("unloadAll", FALSE, 1))
  /\ UNCHANGED <<lexVars, parseVars, configVars, m_modules, m_idCounter, mapped, instances, loads, leaks>>

MutantAfter(i, keeps) == i + 1

\* Where the sweep goes on: erase() returns the next position.
After(i, keeps) == IF keeps THEN i + 1 ELSE i

Refused(ok) == Top.refused \cup (IF ok THEN {} ELSE {Top.it.moduleId})

\* unloadModule() forgets the module even if it refused to stop; unloadAll() keeps it and goes on
\* with the next. No library is closed.
StopReturns(ok) ==
  /\ At("stop")
  /\ LET i     == Position(Top.it.moduleId)
         done  == ok \/ Top.force
         keeps == Top.call = "unloadAll" /\ ~done
         next  == After(i, keeps)
     IN /\ IF done
           THEN /\ Delete(Top.it.configuration)
                /\ instances' = [instances EXCEPT ![Top.it.moduleInterface].alive = FALSE]
           ELSE UNCHANGED <<configVars, instances>>
        /\ m_modules' = IF keeps THEN m_modules ELSE RemoveAt(m_modules, i)
        /\ frames' = IF Top.call = "unloadAll" /\ next <= Len(m_modules')
                     THEN Append(Below, [Top EXCEPT !.it = m_modules'[next], !.refused = Refused(ok)])
                     ELSE Below
  /\ UNCHANGED <<lexVars, parseVars, m_idCounter, mapped, loads, leaks>>

-----------------------------------------------------------------------------

\* The program does something else.
Idle == Program /\ UNCHANGED vars

Next ==
  \/ Idle \/ ParseStep \/ ParseReturns \/ UnloadAll
  \/ \E l \in Libraries : NoSymbol(l) \/ NoFile(l) \/ \E file \in {0, loads + 1} : LoadModule(l, file)
  \/ \E ok \in BOOLEAN : InitFunction(ok) \/ StartReturns(ok) \/ StopReturns(ok)
  \/ \E id \in Ids, force \in BOOLEAN : UnloadModule(id, force)

Spec == Init /\ [][Next]_vars

-----------------------------------------------------------------------------

Loading(l) == {i \in DOMAIN frames : frames[i].at \in {"parse", "init", "start"} /\ frames[i].it.library = l}
Started(l) == {i \in DOMAIN instances : instances[i].started /\ instances[i].of.library = l}
Running(l) == {i \in Started(l) : instances[i].alive}

(* Whatever modules load and unload when they are called: a module in the list has an id of its  *)
(* own, an instance and a configuration that exist and belong to no other module, and a library  *)
(* that is mapped.                                                                               *)
LoadedIsWhole ==
  \A i \in DOMAIN m_modules :
    LET m == m_modules[i]
    IN /\ instances[m.moduleInterface].alive /\ mapped[m.library] > 0
       /\ m.configuration # 0 =>
            configurations[m.configuration].alive /\ configurations[m.configuration].m_rootNode # 0
       /\ \A k \in DOMAIN m_modules \ {i} :
            /\ m_modules[k].moduleId # m.moduleId /\ m_modules[k].moduleInterface # m.moduleInterface
            /\ m_modules[k].configuration # m.configuration \/ m.configuration = 0

(* A load that fails undoes its own steps and no other's: a library is open for every load under *)
(* way and every module that runs, and for nothing else but modules that were unloaded, which    *)
(* may count or not, and loads that found no symbol in it. A configuration with a tree belongs   *)
(* to a load under way or to a module that runs.                                                 *)
FailedLoadsAreUndone ==
  /\ \A l \in Libraries :
       /\ mapped[l] >= Cardinality(Loading(l)) + Cardinality(Running(l))
       /\ mapped[l] <= Cardinality(Loading(l)) + Cardinality(Started(l)) + leaks[l]
  /\ \A c \in DOMAIN configurations :
       configurations[c].alive /\ configurations[c].m_rootNode # 0 =>
         \E l \in Libraries : \/ \E i \in Loading(l) : frames[i].it.configuration = c
                              \/ \E i \in Running(l) : instances[i].of.configuration = c

\* Where unloadAll() stands when a stop() has returned: at the next module, at the one that made it
\* return, or behind all.
StandsAt(ok) ==
  IF frames' # Below THEN {Last(frames').it.moduleId} ELSE IF ok THEN {} ELSE {Top.it.moduleId}

(* unloadAll() passes over no module: whoever is in the list in front of the one where it stands *)
(* refused to stop in that very sweep, although others are erased under its iterator and stop()  *)
(* loads and unloads modules.                                                                    *)
SweepSkipsNone ==
  [][\A ok \in BOOLEAN : At("stop") /\ Top.call = "unloadAll" /\ StopReturns(ok) =>
       \A i \in DOMAIN m_modules' :
         \/ m_modules'[i].moduleId \in Refused(ok)
         \/ \E k \in 1 .. i : m_modules'[k].moduleId \in StandsAt(ok)]_vars

-----------------------------------------------------------------------------
(* What the comments of ModuleManager.hpp say and the code does not do. *)

\* A library is closed when its module is unloaded: line 102.
UnloadedAreClosed ==
  \A l \in Libraries : mapped[l] <= Cardinality(Loading(l)) + Cardinality(Running(l)) + leaks[l]

\* unloadAll() asks no further module to stop when one has refused: lines 147-148.
RefusalEndsTheSweep == At("stop") /\ Top.call = "unloadAll" => Top.refused = {}

\* What enumerateModules() lists is all modules that run: line 153.
RunningAreListed ==
  \A l \in Libraries : \A i \in Running(l) : \E k \in DOMAIN m_modules : m_modules[k].moduleInterface = i

(* Of what ModuleManager.hpp says of unloading, at no time is all of it untrue at once: libraries *)
(* are closed (102), or a refusal ends the sweep (147-148), or all that run are listed (153). One *)
(* counterexample contradicts the three of them.                                                  *)
UnloadingAsDocumented == UnloadedAreClosed \/ RefusalEndsTheSweep \/ RunningAreListed

=============================================================================
