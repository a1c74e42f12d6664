---------------------------- MODULE NameResolution ----------------------------
(***************************************************************************)
(* The asynchronous resolver of libnetworkd                                *)
(* (src/src/UdnsResolvingFacility.cpp) between the program, libudns and    *)
(* the TimeoutManager.  nameResolved is called from inside libudns, and a  *)
(* resolver may resolve and cancel from there, so the calls nest:          *)
(* `frames' is their stack.  A ResolutionEntry is named by its request.    *)
(*                                                                         *)
(* libudns is external: it ends a query by an answer, from dns_ioevent, or *)
(* by giving up, from dns_timeouts, which also says when it wants to be    *)
(* called next, if any query is left.  The TimeoutManager is the set of    *)
(* the facility's timeouts it holds, by address.                           *)
(***************************************************************************)
EXTENDS Naturals, Sequences, FiniteSets

CONSTANTS Requests,  \* bound: the calls of resolveName
          Resolvers

ASSUME RequestsAssumption == Requests \subseteq Nat

VARIABLES
  facility,             \* "alive" or "deleted"
  m_pendingResolutions, \* the entries queries are running for
  m_timeout,            \* TIMEOUT_EMPTY or a timeout
  entries,              \* memory: the entries allocated
  active,               \* libudns: queries running
  scheduled,            \* TimeoutManager: the facility's timeouts
  request,              \* history: whose request it is, and what became of it
  frames                \* the stack of calls, the innermost last

own  == <<facility, m_pendingResolutions, m_timeout, entries>>
vars == <<own, active, scheduled, request, frames>>

TIMEOUT_EMPTY == 0
Nobody == "nobody"

Init ==
  /\ facility = "alive" /\ m_pendingResolutions = {} /\ m_timeout = TIMEOUT_EMPTY
  /\ entries = {} /\ active = {} /\ scheduled = {} /\ frames = <<>>
  /\ request = [r \in Requests |-> [status |-> "new", resolver |-> Nobody]]

-----------------------------------------------------------------------------
Loops     == {"resolveName", "timeoutFired", "pollRead"}  \* libudns runs
Callbacks == {"result", "literal", "failed"}              \* nameResolved runs

Frame(kind, n) == [kind |-> kind, n |-> n]
Top  == frames[Len(frames)]
Rest == SubSeq(frames, 1, Len(frames) - 1)
In(kinds) == frames # <<>> /\ Top.kind \in kinds

\* Program code runs, outside of the facility or in nameResolved.
Running == facility = "alive" /\ (frames # <<>> => Top.kind \in Callbacks)

Became(rs, status) ==
  request' = [r \in Requests |-> IF r \in rs THEN [request[r] EXCEPT !.status = status]
                                             ELSE request[r]]

Asks(r, who, status) ==
  /\ Running /\ request[r].status = "new"
  /\ \A q \in Requests : request[q].status = "new" => r <= q
  /\ request' = [request EXCEPT ![r] = [status |-> status, resolver |-> who]]

\* resolveName of an address, which is answered at once.
ResolveLiteral(r, who) ==
  /\ Asks(r, who, "told") /\ frames' = Append(frames, Frame("literal", r))
  /\ UNCHANGED <<own, active, scheduled>>

\* resolveName of a name; dns_timeouts is called before it returns.
ResolveSubmit(r, who) ==
  /\ Asks(r, who, "waiting") /\ frames' = Append(frames, Frame("resolveName", r))
  /\ entries' = entries \cup {r} /\ active' = active \cup {r}
  /\ m_pendingResolutions' = m_pendingResolutions \cup {r}
  /\ UNCHANGED <<facility, m_timeout, scheduled>>

\* dns_submit_a4 fails: the entry is deleted again and the resolver is told.
ResolveFails(r, who) ==
  /\ Asks(r, who, "told") /\ frames' = Append(frames, Frame("failed", r))
  /\ UNCHANGED <<own, active, scheduled>>

\* Mutants: the query goes on; the entry stays in the set.
CancelQuietly(hit) ==
  /\ m_pendingResolutions' = m_pendingResolutions \ hit
  /\ entries' = entries \ hit /\ UNCHANGED active
CancelQuery(hit) ==
  /\ entries' = entries \ hit /\ active' = active \ hit
  /\ UNCHANGED m_pendingResolutions

\* dns_cancel, delete and erase.
Cancel(hit) ==
  /\ m_pendingResolutions' = m_pendingResolutions \ hit
  /\ entries' = entries \ hit /\ active' = active \ hit

cancelResolutions(who) ==
  LET hit == {r \in m_pendingResolutions : request[r].resolver = who} IN
  /\ Running /\ hit # {} /\ Cancel(hit) /\ Became(hit, "cancelled")
  /\ UNCHANGED <<facility, m_timeout, scheduled, frames>>

\* The destructor, called from outside.
Delete ==
  /\ facility = "alive" /\ frames = <<>> /\ facility' = "deleted"
  /\ scheduled' = (IF m_timeout # TIMEOUT_EMPTY THEN {} ELSE scheduled)
  /\ m_timeout' = TIMEOUT_EMPTY
  /\ Cancel(m_pendingResolutions) /\ Became(m_pendingResolutions, "forgotten")
  /\ UNCHANGED frames

-----------------------------------------------------------------------------
(* The loop calls the facility, and libudns calls it back. *)

Enter(kind, n) ==
  /\ facility = "alive" /\ frames = <<>> /\ frames' = <<Frame(kind, n)>>
  /\ UNCHANGED <<own, active, scheduled, request>>

pollRead        == active # {} /\ Enter("pollRead", 0)
timeoutFired(t) == t \in scheduled /\ Enter("timeoutFired", t)

\* libudns ends a query: processResult up to nameResolved.  A resolver that had
\* cancelled would be called through a deleted entry.
processResult(r) ==
  /\ In(Loops) /\ r \in active
  /\ active' = active \ {r} /\ m_pendingResolutions' = m_pendingResolutions \ {r}
  /\ Became({r}, IF r \in entries THEN "told" ELSE "told after cancel")
  /\ frames' = Append(frames, Frame("result", r))
  /\ UNCHANGED <<facility, m_timeout, entries, scheduled>>

\* nameResolved returns.
CallbackReturns ==
  /\ In(Callbacks)
  /\ frames' = (IF Top.kind = "failed" THEN Append(Rest, Frame("resolveName", Top.n))
                                       ELSE Rest)
  /\ entries' = (IF Top.kind = "result" THEN entries \ {Top.n} ELSE entries)
  /\ UNCHANGED <<facility, m_pendingResolutions, m_timeout, active, scheduled, request>>

\* A timeout that is being fired is in the multiset until its callback returned,
\* and dropTimeout lets it be.
Fired == IF frames # <<>> /\ frames[1].kind = "timeoutFired" THEN {frames[1].n} ELSE {}
NewTimeout == CHOOSE t \in 1 .. Len(frames) + Cardinality(scheduled) + 1 : t \notin scheduled

\* dns_timeouts is done in resolveName.
ResolveReturns ==
  /\ In({"resolveName"}) /\ frames' = Rest
  /\ IF active = {} THEN UNCHANGED <<m_timeout, scheduled>>
     ELSE /\ m_timeout' = NewTimeout
          /\ scheduled' = (scheduled \ ({m_timeout} \ Fired)) \cup {NewTimeout}
  /\ UNCHANGED <<facility, m_pendingResolutions, entries, active, request>>

\* Mutants: the timeout is set once; the member keeps a timeout that is freed.
TimeoutReturnsOnce ==
  /\ In({"timeoutFired"}) /\ frames' = Rest
  /\ m_timeout' = TIMEOUT_EMPTY /\ scheduled' = scheduled \ {Top.n}
  /\ UNCHANGED <<facility, m_pendingResolutions, entries, active, request>>
TimeoutReturnsStale ==
  /\ In({"timeoutFired"}) /\ frames' = Rest
  /\ m_timeout' = (IF active = {} THEN m_timeout ELSE NewTimeout)
  /\ scheduled' = (scheduled \ {Top.n}) \cup (IF active = {} THEN {} ELSE {NewTimeout})
  /\ UNCHANGED <<facility, m_pendingResolutions, entries, active, request>>

\* dns_timeouts is done in timeoutFired, whatever was scheduled meanwhile; the
\* TimeoutManager frees the timeout.
TimeoutReturns ==
  /\ In({"timeoutFired"}) /\ frames' = Rest
  /\ m_timeout' = (IF active = {} THEN TIMEOUT_EMPTY ELSE NewTimeout)
  /\ scheduled' = (scheduled \ {Top.n}) \cup (IF active = {} THEN {} ELSE {NewTimeout})
  /\ UNCHANGED <<facility, m_pendingResolutions, entries, active, request>>

ReadReturns ==
  In({"pollRead"}) /\ frames' = Rest /\ UNCHANGED <<own, active, scheduled, request>>

Program ==
  \/ \E r \in Requests, who \in Resolvers :
       ResolveLiteral(r, who) \/ ResolveSubmit(r, who) \/ ResolveFails(r, who)
  \/ \E who \in Resolvers : cancelResolutions(who)
  \/ Delete

Timer   == \E t \in scheduled : timeoutFired(t)
Returns == CallbackReturns \/ ResolveReturns \/ TimeoutReturns \/ ReadReturns

GivesUp(r) == In({"timeoutFired"}) /\ processResult(r)

\* A deleted facility does nothing more.
Done == facility = "deleted" /\ UNCHANGED vars

Next == Program \/ Timer \/ pollRead \/ Returns \/ Done
        \/ \E r \in Requests : processResult(r)

Safe == Init /\ [][Next]_vars

\* Calls return; the main loop calls fireTimeouts after every poll(), so input
\* does not keep timeouts from firing; and libudns gives a query up after a
\* fixed number of timeouts.
Spec == Safe /\ WF_vars(Returns) /\ SF_vars(Timer)
             /\ \A r \in Requests : SF_vars(GivesUp(r))

-----------------------------------------------------------------------------
(* Properties. *)

Statuses == {"new", "waiting", "told", "cancelled", "forgotten", "told after cancel"}

Types ==
  /\ facility \in {"alive", "deleted"}
  /\ m_pendingResolutions \subseteq Requests /\ entries \subseteq Requests
  /\ active \subseteq Requests /\ scheduled \subseteq Nat \ {TIMEOUT_EMPTY}
  /\ m_timeout \in scheduled \cup {TIMEOUT_EMPTY}
  /\ request \in [Requests -> [status : Statuses, resolver : Resolvers \cup {Nobody}]]
  /\ frames \in Seq([kind : Loops \cup Callbacks, n : Nat])

\* libudns runs a query, and the facility has an entry for it, for exactly the
\* requests still to be answered; besides those only the entries of the
\* callbacks on the stack exist; and m_timeout, when set, is a timeout that the
\* manager has scheduled and not freed.
OneAccount ==
  /\ Types
  /\ active = {r \in Requests : request[r].status = "waiting"}
  /\ m_pendingResolutions = active
  /\ entries = active \cup {frames[i].n : i \in {k \in DOMAIN frames : frames[k].kind = "result"}}

\* A resolver is not called for what it has cancelled (NameResolution.hpp:88).
CancelledStayQuiet == \A r \in Requests : request[r].status # "told after cancel"

\* Every request is answered, cancelled, or forgotten with the facility.
EveryRequestEnds ==
  \A r \in Requests : request[r].status = "waiting" ~> request[r].status # "waiting"

\* NameResolution.hpp:102: the facility is "safe to `delete'": no timeout is left
\* that would call it.
SafeToDelete == facility = "deleted" => scheduled = {}
===============================================================================
