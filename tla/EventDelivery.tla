---------------------------- MODULE EventDelivery ----------------------------
(***************************************************************************)
(* What the event loop promises the sockets registered with it, with no    *)
(* list, iterator or descriptor: a handler runs only for a registered      *)
(* socket and an event poll() reported for that very socket, at most once  *)
(* per report, errors before output before input.                          *)
(***************************************************************************)
CONSTANT Sockets

VARIABLES registered, \* the sockets in the list
          due,        \* per socket: events reported and not yet handled
          handling    \* the handler that runs

vars == <<registered, due, handling>>

Events == {"ERR", "OUT", "IN"}

\* What is handled before an event.
Before(event) == CASE event = "ERR" -> {}
                   [] event = "OUT" -> {"ERR"}
                   [] event = "IN"  -> {"ERR", "OUT"}

Init == /\ registered = {}
        /\ due = [s \in Sockets |-> {}]
        /\ handling.socket \notin Sockets

Report ==
  /\ \A s \in Sockets : due[s] = {}
  /\ due' \in [Sockets -> SUBSET Events]
  /\ \A s \in Sockets : due'[s] # {} => s \in registered
  /\ UNCHANGED <<registered, handling>>

\* Registrations, ends of handlers, and reports given up, in any combination.
Change ==
  /\ registered' \subseteq Sockets
  /\ \A s \in Sockets : due'[s] \subseteq due[s]
  /\ handling' = handling \/ handling'.socket \notin Sockets

Handle(s, event) ==
  /\ handling.socket \notin Sockets
  /\ s \in registered /\ event \in due[s]
  /\ handling' = [socket |-> s, event |-> event]
  /\ due'[s] \subseteq due[s] \ ({event} \cup Before(event))
  /\ \A t \in Sockets : due'[t] \subseteq due[t]
  /\ UNCHANGED registered

Next == Report \/ Change \/ \E s \in Sockets, event \in Events : Handle(s, event)

Spec == Init /\ [][Next]_vars
==============================================================================
