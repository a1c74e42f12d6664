---------------------------- MODULE TimeoutManager ----------------------------
(***************************************************************************)
(* The timeouts of libnetworkd (src/src/TimeoutManager.cpp): a multiset of *)
(* pointers ordered by the second they fire in, and fireTimeouts, which    *)
(* runs callbacks while it iterates over the multiset, frees what it has   *)
(* fired, and erases the nodes only when it is through.                    *)
(*                                                                         *)
(* The multiset is the sequence of its nodes' pointers in tree order; 0 is *)
(* end().  A search compares the pointed-to seconds, which for a node      *)
(* whose timeout is freed are what the allocator left there, so the tree   *)
(* may be out of order: a search can then end wherever the two neighbours  *)
(* of the place agree with it, depending on the shape of the tree.         *)
(* Undefined behaviour whose outcomes cannot be listed ends the run.       *)
(***************************************************************************)
EXTENDS Naturals, Sequences, SequencesExt

CONSTANTS Tickets,    \* bound: the timeouts ever scheduled
          Addrs,      \* addresses the allocator hands out
          Receivers,
          Deltas,     \* offsets passed to scheduleTimeout
          MaxTime,    \* bound on time(0)
          Callbacks,  \* which callbacks use the manager: "none", the "first"
                      \* of a pass, or "any"
          CallbackOps,\* what they use of it
          Freed,      \* what free() leaves of a timeout
          MaxUInt     \* largest unsigned int (2^32 - 1 in the code)

ASSUME ProgramAssumption ==
          /\ Tickets \subseteq Nat /\ Addrs # {}
          /\ Deltas \subseteq Nat /\ MaxTime \in Nat \ {0}
          /\ MaxUInt \in Nat /\ \A d \in Deltas : MaxTime + d < MaxUInt
          /\ Callbacks \in {"none", "first", "any"}
          /\ CallbackOps \subseteq {"schedule", "drop", "dropReceiver"}
          /\ Freed \subseteq {"all", "zero", "huge", "nothing"}

VARIABLES
  now,        \* time(0)
  heap,       \* TimeoutInfo per address
  live,       \* addresses allocated
  m_timeouts, \* the nodes' pointers, in tree order
  m_iterator, \* position in m_timeouts
  pc,         \* "out", "fire" (loop head) or "callback"
  start,      \* fireTimeouts' now
  p,          \* fireTimeouts' p
  fired,      \* a callback of this pass has returned
  ticket,     \* history: what became of each timeout
  ub          \* history: the undefined behaviour that ended the run

memory == <<heap, live>>
tree   == <<m_timeouts, m_iterator>>
firing == <<pc, start, p, fired>>
vars   == <<now, memory, tree, firing, ticket, ub>>

End    == 0
Nobody == "nobody"

Blank == [firets |-> 0, receiver |-> Nobody]

Init ==
  /\ now = 1
  /\ heap = [a \in Addrs |-> Blank] /\ live = {}
  /\ m_timeouts = <<>> /\ m_iterator = End
  /\ pc = "out" /\ start = 0 /\ p = (CHOOSE a \in Addrs : TRUE) /\ fired = FALSE
  /\ ticket = [t \in Tickets |-> [status |-> "unused", addr |-> p, due |-> 0,
                                  receiver |-> Nobody]]
  /\ ub = "none"

-----------------------------------------------------------------------------
(* The multiset and the allocator. *)

Key(h, nodes, i) == h[nodes[i]].firets

\* Where the node of a new key k can go: after position g.
Gaps(h, nodes, k) ==
  {g \in 0 .. Len(nodes) : /\ g > 0 => Key(h, nodes, g) <= k
                           /\ g < Len(nodes) => k < Key(h, nodes, g + 1)}

\* lower_bound, as a position up to Len + 1.
LowerBounds(h, nodes, k) ==
  {i \in 1 .. Len(nodes) + 1 : /\ i > 1 => Key(h, nodes, i - 1) < k
                               /\ i <= Len(nodes) => k <= Key(h, nodes, i)}

\* find
Finds(h, nodes, k) ==
  {IF i > Len(nodes) \/ Key(h, nodes, i) # k THEN End ELSE i :
     i \in LowerBounds(h, nodes, k)}

\* The positions that are left without some, in their order.
Left(nodes, gone) ==
  LET stay == (1 .. Len(nodes)) \ gone IN
  {at \in [1 .. Cardinality(stay) -> stay] :
     /\ {at[l] : l \in DOMAIN at} = stay
     /\ \A l, k \in DOMAIN at : l < k => at[l] < at[k]}

\* delete: the allocator keeps its free list in the first word, or in both.
FreedInfo(info, how) ==
  CASE how = "all"     -> info
    [] how = "zero"    -> [info EXCEPT !.firets = 0]
    [] how = "huge"    -> [info EXCEPT !.firets = MaxUInt]
    [] how = "nothing" -> [firets |-> MaxUInt, receiver |-> Nobody]

Delete(addrs, how) ==
  /\ heap' = [a \in Addrs |-> IF a \in addrs THEN FreedInfo(heap[a], how) ELSE heap[a]]
  /\ live' = live \ addrs

Mark(ts, status) ==
  ticket' = [t \in Tickets |-> IF t \in ts THEN [ticket[t] EXCEPT !.status = status]
                                           ELSE ticket[t]]

-----------------------------------------------------------------------------
(* The operations, called between passes or by a callback. *)

May(op) ==
  /\ ub = "none"
  /\ \/ pc = "out"
     \/ /\ pc = "callback" /\ op \in CallbackOps
        /\ Callbacks = "any" \/ (Callbacks = "first" /\ ~fired)

scheduleTimeout(delta, receiver) ==
  /\ May("schedule")
  /\ \E t \in Tickets, a \in Addrs \ live :
       /\ ticket[t].status = "unused"
       /\ \A u \in Tickets : ticket[u].status = "unused" => t <= u
       /\ heap' = [heap EXCEPT ![a] = [firets |-> now + delta, receiver |-> receiver]]
       /\ live' = live \cup {a}
       /\ ticket' = [ticket EXCEPT ![t] = [status |-> "pending", addr |-> a,
                                           due |-> now + delta, receiver |-> receiver]]
       /\ \E g \in Gaps(heap', m_timeouts, now + delta) :
            /\ m_timeouts' = InsertAt(m_timeouts, g + 1, a)
            /\ m_iterator' = (IF m_iterator > g THEN m_iterator + 1 ELSE m_iterator)
  /\ UNCHANGED <<now, firing, ub>>

\* The handle of a pending timeout, or the one just being fired.
Held(t) == \/ ticket[t].status = "pending"
           \/ pc = "callback" /\ ticket[t].status = "fired" /\ ticket[t].addr = p

Iterating == m_iterator # End

\* The node dropTimeout's walk from lower_bound stops at, 0 if it stops short.
Walk(a, from) ==
  LET k == heap[a].firets
      stops == {i \in from .. Len(m_timeouts) :
                  /\ m_timeouts[i] = a
                  /\ \A l \in from .. i : Key(heap, m_timeouts, l) = k}
  IN IF stops = {} THEN 0 ELSE CHOOSE i \in stops : \A l \in stops : i <= l

\* Mutant: the timeout being fired counts as ahead.
AheadOrSame(i) ==
  Key(heap, m_timeouts, m_iterator) <= Key(heap, m_timeouts, i)

\* Mutant: a timeout of the same second does not.
AheadLater(i) == /\ m_timeouts[m_iterator] # m_timeouts[i]
                 /\ Key(heap, m_timeouts, m_iterator) < Key(heap, m_timeouts, i)

\* The entry is behind the one being fired, or fired at the same second.
Ahead(i) == /\ m_timeouts[m_iterator] # m_timeouts[i]
            /\ Key(heap, m_timeouts, m_iterator) <= Key(heap, m_timeouts, i)

dropTimeout(t) ==
  /\ May("drop") /\ Held(t)
  /\ LET a == ticket[t].addr IN
     \E from \in LowerBounds(heap, m_timeouts, heap[a].firets), how \in Freed :
       LET i == Walk(a, from)
           rest == RemoveAt(m_timeouts, i)
       IN IF i = 0 \/ (Iterating /\ ~Ahead(i))
          THEN UNCHANGED <<memory, tree>>
          ELSE /\ m_timeouts' = rest
               /\ IF Iterating
                  THEN m_iterator' \in
                         Finds(heap, rest, Key(heap, m_timeouts, m_iterator))
                  ELSE UNCHANGED m_iterator
               /\ Delete({a}, how)
  /\ Mark({t} \cap {u \in Tickets : ticket[u].status = "pending"}, "dropped")
  /\ UNCHANGED <<now, firing, ub>>

dropReceiver(receiver) ==
  /\ May("dropReceiver")
  /\ LET hit == {i \in 1 .. Len(m_timeouts) :
                   /\ heap[m_timeouts[i]].receiver = receiver
                   /\ Iterating => Ahead(i)}
         addrs == {m_timeouts[i] : i \in hit}
     IN IF ~(addrs \subseteq live) \/ \E i, l \in hit : i # l /\ m_timeouts[i] = m_timeouts[l]
        THEN ub' = "double free" /\ UNCHANGED <<memory, tree>>
        ELSE /\ ub' = ub
             /\ \E at \in Left(m_timeouts, hit) :
                  m_timeouts' = [l \in DOMAIN at |-> m_timeouts[at[l]]]
             /\ IF Iterating /\ hit # {}
                THEN m_iterator' \in
                       Finds(heap, m_timeouts', Key(heap, m_timeouts, m_iterator))
                ELSE UNCHANGED m_iterator
             /\ \E how \in Freed : Delete(addrs, how)
  /\ Mark({t \in Tickets : /\ ticket[t].status = "pending"
                           /\ ticket[t].receiver = receiver}, "dropped")
  /\ UNCHANGED <<now, firing>>

-----------------------------------------------------------------------------
(* fireTimeouts *)

Begin ==
  /\ ub = "none" /\ pc = "out"
  /\ start' = now /\ pc' = "fire" /\ fired' = FALSE
  /\ m_iterator' = (IF m_timeouts = <<>> THEN End ELSE 1)
  /\ UNCHANGED <<now, memory, m_timeouts, p, ticket, ub>>

\* Mutants: the wrong side of the second.
AtDueEarly == Iterating /\ Key(heap, m_timeouts, m_iterator) <= start + 1
AtDueLate  == Iterating /\ Key(heap, m_timeouts, m_iterator) < start

AtDue == Iterating /\ Key(heap, m_timeouts, m_iterator) <= start

\* timeoutFired is called, through whatever pointer the node holds.
Fire ==
  /\ ub = "none" /\ pc = "fire" /\ AtDue
  /\ p' = m_timeouts[m_iterator]
  /\ IF p' \in live
     THEN LET mine == {t \in Tickets : /\ ticket[t].addr = p'
                                       /\ ticket[t].status \in {"pending", "dropped"}}
              t == CHOOSE u \in mine : \A v \in mine : v <= u
          IN /\ pc' = "callback" /\ ub' = ub
             /\ ticket' = [ticket EXCEPT ![t].status =
                             IF @ = "dropped" THEN "zombie" ELSE "fired"]
     ELSE /\ ub' = "fires freed" /\ UNCHANGED <<pc, ticket>>
  /\ UNCHANGED <<now, memory, tree, start, fired>>

\* Mutant: no `delete p'.
ReturnOnly ==
  /\ ub = "none" /\ pc = "callback"
  /\ pc' = "fire" /\ fired' = TRUE
  /\ m_iterator' = (IF m_iterator \in {End, Len(m_timeouts)} THEN End ELSE m_iterator + 1)
  /\ UNCHANGED <<now, memory, m_timeouts, start, p, ticket, ub>>

\* The callback returned: `delete p' and ++m_iterator.
Return ==
  /\ ub = "none" /\ pc = "callback"
  /\ pc' = "fire" /\ fired' = TRUE
  /\ IF p \in live THEN \E how \in Freed : Delete({p}, how) ELSE UNCHANGED memory
  /\ ub' = (IF p \notin live THEN "double free"
            ELSE IF m_iterator = End THEN "++end" ELSE ub)
  /\ m_iterator' = (IF m_iterator \in {End, Len(m_timeouts)} THEN End ELSE m_iterator + 1)
  /\ UNCHANGED <<now, m_timeouts, start, p, ticket>>

\* Mutant: the entry the loop stopped at is erased as well.
FinishInclusive ==
  /\ ub = "none" /\ pc = "fire" /\ ~AtDue
  /\ m_timeouts' = (IF Iterating THEN SubSeq(m_timeouts, m_iterator + 1, Len(m_timeouts))
                                 ELSE <<>>)
  /\ m_iterator' = End /\ pc' = "out" /\ fired' = FALSE
  /\ UNCHANGED <<now, memory, start, p, ticket, ub>>

\* Mutant: m_iterator is not reset.
FinishStale ==
  /\ ub = "none" /\ pc = "fire" /\ ~AtDue
  /\ m_timeouts' = (IF Iterating THEN SubSeq(m_timeouts, m_iterator, Len(m_timeouts))
                                 ELSE <<>>)
  /\ pc' = "out" /\ fired' = FALSE
  /\ UNCHANGED <<now, memory, m_iterator, start, p, ticket, ub>>

\* erase(begin, m_iterator).  No node is left that points to freed memory which
\* a search could read, so what is in there no longer matters.
Finish ==
  /\ ub = "none" /\ pc = "fire" /\ ~AtDue
  /\ m_timeouts' = (IF Iterating THEN SubSeq(m_timeouts, m_iterator, Len(m_timeouts))
                                 ELSE <<>>)
  /\ heap' = [a \in Addrs |-> IF a \in live \/ \E i \in 1 .. Len(m_timeouts') :
                                                m_timeouts'[i] = a
                             THEN heap[a] ELSE Blank]
  /\ m_iterator' = End /\ pc' = "out" /\ fired' = FALSE
  /\ start' = 0 /\ p' = (CHOOSE a \in Addrs : TRUE)
  /\ UNCHANGED <<now, live, ticket, ub>>

\* Time passes.
Tick == now < MaxTime /\ ub = "none" /\ now' = now + 1
        /\ UNCHANGED <<memory, tree, firing, ticket, ub>>

Program == \/ \E delta \in Deltas, r \in Receivers : scheduleTimeout(delta, r)
           \/ \E t \in Tickets : dropTimeout(t)
           \/ \E r \in Receivers : dropReceiver(r)

FireTimeouts == Begin \/ Fire \/ Return \/ Finish

Next == Program \/ FireTimeouts \/ Tick

Safe == Init /\ [][Next]_vars

\* The main loop calls fireTimeouts again and again, callbacks return, and the
\* clock runs.
Spec == Safe /\ WF_vars(FireTimeouts) /\ WF_vars(Tick)
-----------------------------------------------------------------------------
(* Properties. *)

\* Mutant: the last node instead of the first.
DeltaNextLast ==
  IF m_timeouts = <<>> THEN MaxUInt
  ELSE LET last == Key(heap, m_timeouts, Len(m_timeouts)) IN
       IF last >= now THEN last - now ELSE MaxUInt + 1 - (now - last)

\* deltaNext: seconds to the first node's time, in an unsigned int.
DeltaNext ==
  IF m_timeouts = <<>> THEN MaxUInt
  ELSE LET first == Key(heap, m_timeouts, 1) IN
       IF first >= now THEN first - now ELSE MaxUInt + 1 - (now - first)

Types ==
  /\ now \in 1 .. MaxTime
  /\ heap \in [Addrs -> [firets : Nat, receiver : Receivers \cup {Nobody}]]
  /\ live \subseteq Addrs
  /\ m_timeouts \in Seq(Addrs) /\ m_iterator \in 0 .. Len(m_timeouts)
  /\ pc \in {"out", "fire", "callback"} /\ start \in 0 .. MaxTime
  /\ p \in Addrs /\ fired \in BOOLEAN
  /\ \A t \in Tickets : ticket[t].status \in
                          {"unused", "pending", "fired", "dropped", "zombie"}
  /\ ub \in {"none", "double free", "fires freed", "++end"}

\* Iterating, callbacks and deletions never use freed memory or end().
NoUndefined == ub = "none"

\* A scheduled timeout stays in the part of the multiset that is still to be
\* looked at until it is fired or dropped, and no memory is held for it once
\* the pass in which that happened is over.
NoneLostNorLeaked ==
  /\ Types
  /\ \A t \in Tickets : ticket[t].status = "pending" =>
       \E i \in 1 .. Len(m_timeouts) : m_timeouts[i] = ticket[t].addr /\ i >= m_iterator
  /\ pc = "out" /\ ub = "none" =>
       live = {ticket[t].addr : t \in {u \in Tickets : ticket[u].status = "pending"}}

\* A dropped timeout, or one whose receiver was dropped, is not fired.
DroppedStaysDropped == \A t \in Tickets : ticket[t].status # "zombie"

\* Timeouts fire in the order of their times, never early, and a pass leaves
\* none behind that was due when it began.
FiredInOrder ==
  [][\A t \in Tickets :
       ticket[t].status = "pending" /\ ticket'[t].status = "fired" =>
         /\ ticket[t].due <= now
         /\ \A u \in Tickets : ticket'[u].status = "pending" =>
                               ticket[u].due >= ticket[t].due]_vars

AllDueAreFired ==
  [][pc = "fire" /\ pc' = "out" =>
       \A t \in Tickets : ticket[t].status = "pending" => ticket[t].due > start]_vars

\* Every timeout is fired or dropped in the end.
EveryTimeoutEnds ==
  \A t \in Tickets : (ticket[t].status = "pending" /\ ticket[t].due <= MaxTime)
                       ~> (ticket[t].status # "pending")

\* A program that sleeps for deltaNext seconds after a pass wakes up exactly
\* when the next timeout is due, unless one is overdue: then the unsigned
\* subtraction wraps around and the answer is longer than any delta asked for.
SleepIsRight ==
  LET pending == {t \in Tickets : ticket[t].status = "pending"}
      first == {t \in pending : \A u \in pending : ticket[t].due <= ticket[u].due}
  IN pc = "out" =>
       IF pending = {} THEN DeltaNext = MaxUInt
       ELSE \A t \in first :
              IF ticket[t].due >= now
              THEN DeltaNext = ticket[t].due - now
              ELSE \A d \in Deltas : DeltaNext > d
=============================================================================
