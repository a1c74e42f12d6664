------------------------------ MODULE IOManager ------------------------------
(***************************************************************************)
(* The event loop of libnetworkd (src/src/IOManager.cpp): the list of      *)
(* registered sockets, and one call of waitForEventsAndProcess step by     *)
(* step, with handlers that open, close and re-register sockets while the  *)
(* call is iterating over the list.                                        *)
(*                                                                         *)
(* A position in m_socketList is an index; 0 is end(), which is what       *)
(* push_back leaves it, and ++ on end() wraps to begin() as it does in     *)
(* libstdc++'s circular list.  Descriptors are numbers, and a new one is   *)
(* the lowest that is free.                                                *)
(***************************************************************************)
EXTENDS Naturals, Sequences, FiniteSets, SequencesExt

CONSTANTS Sockets,     \* identities of IOSocket objects
          MaxFd,       \* bound: descriptors of the process
          MaxReady,    \* bound: events pending at a time
          IOStates,    \* states the program puts its sockets into
          Reuses,      \* a descriptor closed in a pass is reused in that pass
          Moves,       \* where sockets change descriptors: pc values
          EndIgnored   \* values line 118 can read through end()

ASSUME BoundsAssumption == MaxFd \in Nat /\ MaxReady \in Nat

ASSUME ProgramAssumption ==
          /\ IOStates \subseteq {"IGNORE", "IDLE", "BUFFERING", "BUSY"}
          /\ IOStates # {}
          /\ Reuses \in BOOLEAN
          /\ Moves \subseteq {"out", "handler"}
          /\ EndIgnored \subseteq BOOLEAN
          /\ EndIgnored # {}

ASSUME NobodyAssumption == "nobody" \notin Sockets

VARIABLES
  status,        \* per object: "unused", "live", "closed" (::close'd), "gone"
  fd,            \* per object: its descriptor
  ioState,       \* per object: m_ioSocketState
  ready,         \* kernel: the events each descriptor's file is ready for
  m_socketList,  \* sequence of [socket, fileDescriptor]
  m_iterator,    \* position in m_socketList
  pollfds,       \* [fd, revents] per polled socket; owner is a history field
  j,             \* index into pollfds
  pc,            \* "out", "check", "write", "read", or "handler"
  current,       \* the socket whose handler runs and the event it runs for
  closedFds      \* descriptors closed since poll() returned

objects == <<status, fd, ioState, ready>>
list    == <<m_socketList, m_iterator>>
pass    == <<pollfds, j, pc, current>>
vars    == <<objects, list, pass, closedFds>>

End      == 0
Events   == {"ERR", "OUT", "IN"}
Nobody   == [socket |-> "nobody", event |-> "IN"]

Fds == 1 .. MaxFd

Init ==
  /\ status = [s \in Sockets |-> "unused"]
  /\ fd = [s \in Sockets |-> 0]
  /\ ioState = [s \in Sockets |-> "IGNORE"]
  /\ ready = [s \in Sockets |-> {}]
  /\ m_socketList = <<>> /\ m_iterator = End
  /\ pollfds = <<>> /\ j = 1 /\ pc = "out" /\ current = Nobody
  /\ closedFds = {}

-----------------------------------------------------------------------------
(* The list operations.                                                    *)

\* addSocket: push_back, whether or not the socket is in the list.
Push(s, d) == Append(m_socketList, [socket |-> s, fileDescriptor |-> d])

\* ++ on a position.
Following(pos) ==
  IF m_socketList = <<>> THEN End ELSE (pos + 1) % (Len(m_socketList) + 1)

Positions(s) == {i \in 1 .. Len(m_socketList) : m_socketList[i].socket = s}

First(S) == CHOOSE i \in S : \A k \in S : i <= k

\* Mutant: m_iterator stays on the erased entry.
UnregisterUnder(s) ==
  IF Positions(s) = {} THEN UNCHANGED list
  ELSE LET it == First(Positions(s))
       IN /\ m_socketList' = RemoveAt(m_socketList, it)
          /\ m_iterator' = (IF m_iterator > it THEN m_iterator - 1 ELSE m_iterator)

\* removeSocket: the first entry goes; m_iterator steps off it beforehand.
Unregister(s) ==
  IF Positions(s) = {} THEN UNCHANGED list
  ELSE LET it   == First(Positions(s))
           kept == IF m_iterator = it THEN Following(it) ELSE m_iterator
       IN /\ m_socketList' = RemoveAt(m_socketList, it)
          /\ m_iterator' = (IF kept > it THEN kept - 1 ELSE kept)

\* setFileDescriptor
SetFd(s, d) ==
  [m_socketList EXCEPT ![First(Positions(s))].fileDescriptor = d]

-----------------------------------------------------------------------------
(* What the program does with its sockets, in a handler or between passes. *)

InHandler == pc = "handler"
Programs  == pc \in {"out", "handler"}

Open  == {s \in Sockets : status[s] = "live"}
Free  == Fds \ ({fd[s] : s \in Open} \cup (IF Reuses THEN {} ELSE closedFds))
NewFd == First(Free)

\* A new socket is opened (connect, listen or accept) and added.
OpenSocket(s, state) ==
  /\ Programs /\ status[s] = "unused" /\ Free # {}
  /\ status' = [status EXCEPT ![s] = "live"]
  /\ fd' = [fd EXCEPT ![s] = NewFd]
  /\ ioState' = [ioState EXCEPT ![s] = state]
  /\ m_socketList' = Push(s, NewFd)
  /\ UNCHANGED <<ready, m_iterator, pass, closedFds>>

\* send() and the like change the state.  Only the next poll() looks at it, so
\* this need not be told apart from a change between the passes.
SetState(s, state) ==
  /\ pc = "out" /\ status[s] = "live" /\ ioState[s] # state
  /\ ioState' = [ioState EXCEPT ![s] = state]
  /\ UNCHANGED <<status, fd, ready, list, pass, closedFds>>

\* A socket is given another descriptor.
MoveSocket(s) ==
  /\ pc \in Moves /\ status[s] = "live" /\ Free # {}
  /\ fd' = [fd EXCEPT ![s] = NewFd]
  /\ m_socketList' = SetFd(s, NewFd)
  /\ ready' = [ready EXCEPT ![s] = {}]
  /\ closedFds' = closedFds \cup (IF InHandler THEN {fd[s]} ELSE {})
  /\ UNCHANGED <<status, ioState, m_iterator, pass>>

\* The object is deleted; its identity is free when no pollfds entry names it.
Bury(s) ==
  /\ status' = [status EXCEPT ![s] = IF InHandler THEN "gone" ELSE "unused"]
  /\ fd' = [fd EXCEPT ![s] = 0]
  /\ ioState' = [ioState EXCEPT ![s] = "IGNORE"]
  /\ ready' = [ready EXCEPT ![s] = {}]

\* Mutant: the socket stays in the list.
CloseSocketOnly(s) ==
  /\ Programs /\ status[s] = "live"
  /\ Bury(s)
  /\ closedFds' = closedFds \cup (IF InHandler THEN {fd[s]} ELSE {})
  /\ UNCHANGED <<list, pass>>

\* close(): removeSocket, ::close and `delete this', of any socket.
CloseSocket(s) ==
  /\ Programs /\ status[s] = "live"
  /\ Bury(s)
  /\ Unregister(s)
  /\ closedFds' = closedFds \cup (IF InHandler THEN {fd[s]} ELSE {})
  /\ UNCHANGED pass

\* A handler that meets the end of its connection first closes the
\* descriptor, then tells the endpoint, which may open another connection ...
LoseOwn ==
  /\ InHandler
  /\ LET s == current.socket IN
       /\ status[s] = "live"
       /\ status' = [status EXCEPT ![s] = "closed"]
       /\ ready' = [ready EXCEPT ![s] = {}]
       /\ closedFds' = closedFds \cup {fd[s]}
  /\ UNCHANGED <<fd, ioState, list, pass>>

\* ... and then removes the socket and deletes it.
DropOwn ==
  /\ InHandler
  /\ LET s == current.socket IN
       /\ status[s] = "closed"
       /\ Bury(s)
       /\ Unregister(s)
  /\ UNCHANGED <<pass, closedFds>>

Program == \E s \in Sockets :
  \/ MoveSocket(s) \/ CloseSocket(s)
  \/ \E state \in IOStates : OpenSocket(s, state) \/ SetState(s, state)

-----------------------------------------------------------------------------
(* waitForEventsAndProcess *)

\* Mutant: a socket with output is not polled for input.
AskedOneWay(state) == CASE state = "IGNORE"    -> {}
                        [] state = "IDLE"      -> {"IN"}
                        [] state = "BUFFERING" -> {"OUT"}
                        [] state = "BUSY"      -> {}

Asked(state) == CASE state = "IGNORE"    -> {}
                  [] state = "IDLE"      -> {"IN"}
                  [] state = "BUFFERING" -> {"IN", "OUT"}
                  [] state = "BUSY"      -> {}

\* poll() reports POLLERR whether it is asked for or not.
Revents(s) == ready[s] \cap (Asked(ioState[s]) \cup {"ERR"})

Snapshot ==
  [i \in 1 .. Len(m_socketList) |->
     LET s == m_socketList[i].socket IN
       [fd |-> m_socketList[i].fileDescriptor, revents |-> Revents(s), owner |-> s]]

Poll ==
  /\ pc = "out"
  /\ \E i \in 1 .. Len(m_socketList) : Snapshot[i].revents # {}
  /\ pollfds' = Snapshot /\ j' = 1
  /\ m_iterator' = 1 /\ pc' = "check"
  /\ closedFds' = {}
  /\ UNCHANGED <<objects, m_socketList, current>>

PassOver == m_iterator = End \/ j > Len(pollfds)

\* Mutant: the entry at m_iterator is taken for the polled one.
MatchesAny == m_iterator # End

\* What lies behind end() equals no polled descriptor.
Matches == /\ m_iterator # End
           /\ m_socketList[m_iterator].fileDescriptor = pollfds[j].fd

\* Mutant: `continue' in a loop that counts at its end.
SkipUncounted == j' = j /\ pc' = "check"

Skip == j' = j + 1 /\ pc' = "check"

\* Call the handler of the socket m_iterator is at.
Handle(event) ==
  LET s == m_socketList[m_iterator].socket IN
    /\ current' = [socket |-> s, event |-> event]
    /\ ready' = [ready EXCEPT ![s] = @ \ {event}]
    /\ pc' = "handler"

Finish ==
  /\ pc = "check" /\ PassOver
  /\ pc' = "out" /\ pollfds' = <<>> /\ j' = 1 /\ closedFds' = {}
  /\ status' = [s \in Sockets |-> IF status[s] = "gone" THEN "unused" ELSE status[s]]
  /\ UNCHANGED <<fd, ioState, ready, list, current>>

\* Line 118: a mismatch, or IGNORE read through end().
CheckSkips ==
  /\ pc = "check" /\ ~PassOver
  /\ ~Matches \/ TRUE \in EndIgnored
  /\ Skip
  /\ UNCHANGED <<objects, list, pollfds, current, closedFds>>

CheckPasses ==
  /\ pc = "check" /\ ~PassOver
  /\ Matches /\ FALSE \in EndIgnored
  /\ IF "ERR" \in pollfds[j].revents
     THEN Handle("ERR")
     ELSE pc' = "write" /\ UNCHANGED <<ready, current>>
  /\ UNCHANGED <<status, fd, ioState, list, pollfds, j, closedFds>>

Write ==
  /\ pc = "write"
  /\ IF ~Matches
     THEN Skip /\ UNCHANGED <<ready, current>>
     ELSE /\ j' = j
          /\ IF "OUT" \in pollfds[j].revents
             THEN Handle("OUT")
             ELSE pc' = "read" /\ UNCHANGED <<ready, current>>
  /\ UNCHANGED <<status, fd, ioState, list, pollfds, closedFds>>

\* The last step of the loop's body, after which the for statement counts j.
Advance == m_iterator' = Following(m_iterator) /\ Skip

Read ==
  /\ pc = "read"
  /\ IF ~Matches
     THEN Skip /\ UNCHANGED <<m_iterator, ready, current>>
     ELSE IF "IN" \in pollfds[j].revents
          THEN Handle("IN") /\ UNCHANGED <<m_iterator, j>>
          ELSE Advance /\ UNCHANGED <<ready, current>>
  /\ UNCHANGED <<status, fd, ioState, m_socketList, pollfds, closedFds>>

\* A handler returns; one that closed its descriptor has dropped its socket.
Return ==
  /\ InHandler /\ status[current.socket] # "closed"
  /\ CASE current.event = "ERR" -> pc' = "write" /\ UNCHANGED <<m_iterator, j>>
       [] current.event = "OUT" -> pc' = "read"  /\ UNCHANGED <<m_iterator, j>>
       [] current.event = "IN"  -> Advance
  /\ current' = Nobody
  /\ UNCHANGED <<objects, m_socketList, pollfds, closedFds>>

Pass == Poll \/ Finish \/ CheckSkips \/ CheckPasses \/ Write \/ Read \/ Return \/ DropOwn

\* The kernel: a descriptor becomes ready.  Only poll() looks at it.
BecomeReady(s, event) ==
  /\ pc = "out" /\ status[s] = "live" /\ event \notin ready[s]
  /\ Cardinality({p \in Sockets \X Events : p[2] \in ready[p[1]]}) < MaxReady
  /\ ready' = [ready EXCEPT ![s] = @ \cup {event}]
  /\ UNCHANGED <<status, fd, ioState, list, pass, closedFds>>

Next == \/ Program \/ LoseOwn \/ Pass
        \/ \E s \in Sockets, event \in Events : BecomeReady(s, event)

Safe == Init /\ [][Next]_vars

\* The main loop calls waitForEventsAndProcess again and again and handlers
\* return.
Spec == Safe /\ WF_vars(Pass)
-----------------------------------------------------------------------------
(* Properties. *)

Types ==
  /\ status \in [Sockets -> {"unused", "live", "closed", "gone"}]
  /\ fd \in [Sockets -> Fds \cup {0}]
  /\ ioState \in [Sockets -> IOStates \cup {"IGNORE"}]
  /\ ready \in [Sockets -> SUBSET Events]
  /\ m_socketList \in Seq([socket : Sockets, fileDescriptor : Fds])
  /\ m_iterator \in 0 .. Len(m_socketList)
  /\ pollfds \in Seq([fd : Fds, revents : SUBSET Events, owner : Sockets])
  /\ j \in 1 .. Len(pollfds) + 1
  /\ pc \in {"out", "check", "write", "read", "handler"}
  /\ current \in [socket : Sockets \cup {"nobody"}, event : Events]
  /\ closedFds \subseteq Fds

\* The list holds exactly the objects that exist, each under its descriptor;
\* only a handler's own socket can be in it with its descriptor closed; and
\* m_iterator is a position of the list or end(), never an erased entry.
RegisteredAreAlive ==
  /\ Types
  /\ \A i \in 1 .. Len(m_socketList) :
       LET s == m_socketList[i].socket IN
         /\ status[s] \in {"live", "closed"}
         /\ status[s] = "closed" => InHandler /\ current.socket = s
         /\ m_socketList[i].fileDescriptor = fd[s]
  /\ \A s \in Sockets : status[s] \in {"live", "closed"} => Positions(s) # {}

\* A pending error, and input the socket asks for, is handled or it goes: one
\* skipped in one pass is not skipped in all, unless handlers go on for
\* ever to give sockets other descriptors: a pass that comes to the entry of
\* such a socket can stay at it and skip all that are behind.
Serves(s) ==
  <>[][\A other \in Sockets : ~MoveSocket(other)]_vars =>
    \A event \in {"ERR", "IN"} :
      (status[s] = "live" /\ event \in ready[s]) ~> (event \notin ready[s])

\* What the sockets are promised.
Reported(s) ==
  UNION {pollfds[k].revents : k \in {i \in j + 1 .. Len(pollfds) : pollfds[i].owner = s}}

NotYetHandled ==
  IF pc \in {"check", "write", "read", "handler"} /\ j <= Len(pollfds)
  THEN pollfds[j].revents \ CASE pc = "check" -> {}
                               [] pc = "write" -> {"ERR"}
                               [] pc = "read"  -> {"ERR", "OUT"}
                               [] pc = "handler" /\ current.event = "ERR" -> {"ERR"}
                               [] pc = "handler" /\ current.event = "OUT" -> {"ERR", "OUT"}
                               [] OTHER -> Events
  ELSE {}

Registered == {s \in Sockets : Positions(s) # {}}

Due == [s \in Sockets |->
         IF s \notin Registered THEN {}
         ELSE Reported(s) \cup
              (IF j <= Len(pollfds) /\ pollfds[j].owner = s THEN NotYetHandled ELSE {})]

Delivery == INSTANCE EventDelivery
              WITH registered <- Registered, due <- Due, handling <- current

DeliverySpec == Delivery!Spec

(* What the documentation claims and the code does not keep.               *)

\* IO.hpp:73: a handler is called if poll returned its event for the socket.
EventsAreReported == InHandler => pollfds[j].owner = current.socket
=============================================================================
