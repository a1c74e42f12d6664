----------------------------- MODULE EventManager -----------------------------
(***************************************************************************)
(* The event bus of libnetworkd (src/src/EventManager.cpp): subscriptions  *)
(* by a mask on the event's name or by the event's parent, and fireEvent,  *)
(* whose subscribers may subscribe, unsubscribe and fire while it iterates *)
(* over the list.                                                          *)
(*                                                                         *)
(* Subscriptions are numbered as they are made.  As the list only grows at *)
(* its end, it is the set of its nodes, in the order of their numbers, and *)
(* an iterator is the number of its node.  `frames' is the stack of        *)
(* fireEvent calls.  Names and masks are sequences of characters, since    *)
(* exclusiveness depends on how masks match masks.                         *)
(***************************************************************************)
EXTENDS Naturals, Sequences

CONSTANTS Subscribers, Nobody,
          Names,        \* names of the events fired
          Masks,        \* masks subscribed
          Exclusives,   \* those also subscribed exclusively
          Parents,      \* uids of the events' parents
          MaxCreated,   \* bound: subscriptions ever made
          MaxDepth      \* bound: nested fireEvent calls

ASSUME BusAssumption ==
          /\ Names \cup Masks \subseteq Seq(STRING) /\ Exclusives \subseteq Masks
          /\ MaxCreated \in Nat /\ MaxDepth \in Nat
          /\ Nobody \notin Subscribers

VARIABLES
  m_eventSubscriptions,  \* the nodes of the list
  m_parentSubscriptions, \* parent -> subscriber
  frames,                \* calls of fireEvent, the innermost last
  created,               \* subscriptions made
  ub                     \* history: an iterator was advanced from an erased
                         \* node, undefined behaviour that ends the run

bus  == <<m_eventSubscriptions, m_parentSubscriptions, created>>
vars == <<bus, frames, ub>>

Init ==
  /\ m_eventSubscriptions = {}
  /\ m_parentSubscriptions = [uid \in Parents |-> Nobody]
  /\ frames = <<>> /\ created = 0 /\ ub = FALSE

-----------------------------------------------------------------------------
(* Subscriptions. *)

\* The loop stops where name and mask differ, or either ends; the mask matches
\* if both ended or it stopped at a `*' of the mask.
nameLikeMask(name, mask) ==
  \/ name = mask
  \/ \E k \in 1 .. Len(mask) :
       /\ mask[k] = "*"
       /\ k <= Len(name) => name[k] # "*"
       /\ k - 1 <= Len(name) /\ \A l \in 1 .. k - 1 : name[l] = mask[l]

\* Program code runs: outside of fireEvent, or in a subscriber it called.
Top == frames[Len(frames)]
Running == ~ub /\ (frames # <<>> => Top.pc # "loop")

\* Mutants: one direction of a comparison is forgotten.
ClashesOneWay(new, old) ==
  \/ new.exclusive /\ nameLikeMask(new.eventMask, old.eventMask)
  \/ new.subscriber = old.subscriber
     /\ \/ nameLikeMask(new.eventMask, old.eventMask)
        \/ nameLikeMask(old.eventMask, new.eventMask)
ClashesIfCovered(new, old) ==
  \/ new.exclusive /\ nameLikeMask(new.eventMask, old.eventMask)
  \/ old.exclusive /\ nameLikeMask(old.eventMask, new.eventMask)
  \/ new.subscriber = old.subscriber /\ nameLikeMask(new.eventMask, old.eventMask)

\* The old subscription is a reason to refuse the new one.
Clashes(new, old) ==
  \/ new.exclusive /\ nameLikeMask(new.eventMask, old.eventMask)
  \/ old.exclusive /\ nameLikeMask(old.eventMask, new.eventMask)
  \/ new.subscriber = old.subscriber
     /\ \/ nameLikeMask(new.eventMask, old.eventMask)
        \/ nameLikeMask(old.eventMask, new.eventMask)

\* The assertion against exclusive wildcards looks at the character behind the
\* last one, which never is a `*', so it stops nobody.
subscribeEventMask(mask, subscriber, exclusively) ==
  LET new == [id |-> created + 1, eventMask |-> mask, subscriber |-> subscriber,
              exclusive |-> exclusively]
  IN /\ Running /\ created < MaxCreated
     /\ exclusively => mask \in Exclusives
     /\ \A old \in m_eventSubscriptions : ~Clashes(new, old)
     /\ m_eventSubscriptions' = m_eventSubscriptions \cup {new}
     /\ created' = created + 1
     /\ UNCHANGED <<m_parentSubscriptions, frames, ub>>

Erase(gone) ==
  /\ Running /\ gone # {}
  /\ m_eventSubscriptions' = m_eventSubscriptions \ gone
  /\ UNCHANGED <<m_parentSubscriptions, created, frames, ub>>

\* No subscriber holds a mask twice, so the first match is the only one.
unsubscribeEventMask(mask, subscriber) ==
  Erase({s \in m_eventSubscriptions : s.eventMask = mask /\ s.subscriber = subscriber})

unsubscribeAll(subscriber) ==
  Erase({s \in m_eventSubscriptions : s.subscriber = subscriber})

Parent(uid, subscriber) ==
  /\ Running /\ m_parentSubscriptions' = [m_parentSubscriptions EXCEPT ![uid] = subscriber]
  /\ UNCHANGED <<m_eventSubscriptions, created, frames, ub>>

subscribeParent(uid, subscriber) ==
  m_parentSubscriptions[uid] = Nobody /\ Parent(uid, subscriber)

\* Whoever asks: the subscriber passed is not compared.
unsubscribeParent(uid) == m_parentSubscriptions[uid] # Nobody /\ Parent(uid, Nobody)

-----------------------------------------------------------------------------
(* fireEvent *)

Stack(changed) == ~ub /\ frames' = changed /\ UNCHANGED <<bus, ub>>
InTop(frame)   == Stack([frames EXCEPT ![Len(frames)] = frame])
Return         == Stack(SubSeq(frames, 1, Len(frames) - 1))
At(pc)         == frames # <<>> /\ Top.pc = pc

fireEvent(name, uid) ==
  /\ Running /\ Len(frames) < MaxDepth
  /\ Stack(Append(frames, [name |-> name, parent |-> uid, at |-> 0, pc |-> "loop",
                           told |-> {}]))

\* Mutant: another advance after the subscriber returned.
AheadOfNext(frame) ==
  {s \in m_eventSubscriptions : s.id > frame.at + 1 /\ nameLikeMask(frame.name, s.eventMask)}

\* The nodes behind the iterator whose mask likes the name.
Ahead(frame) ==
  {s \in m_eventSubscriptions : s.id > frame.at /\ nameLikeMask(frame.name, s.eventMask)}

Call(s) == InTop([Top EXCEPT !.at = s.id, !.pc = "handler", !.told = @ \cup {s}])

\* On to the next node that matches, whose subscriber is called.
Deliver ==
  /\ At("loop")
  /\ \E s \in Ahead(Top) : (\A t \in Ahead(Top) : s.id <= t.id) /\ Call(s)

\* The subscriber returned: ++i, from a node that must still be there.
Advance ==
  /\ At("handler")
  /\ IF \E s \in m_eventSubscriptions : s.id = Top.at
     THEN InTop([Top EXCEPT !.pc = "loop"])
     ELSE ~ub /\ ub' = TRUE /\ UNCHANGED <<bus, frames>>

\* The list is through: the parent's subscriber is called, if there is one.
Finish ==
  /\ At("loop") /\ Ahead(Top) = {}
  /\ IF m_parentSubscriptions[Top.parent] # Nobody
     THEN InTop([Top EXCEPT !.pc = "parent"]) ELSE Return

ParentReturns == At("parent") /\ Return

Program ==
  \/ \E mask \in Masks, s \in Subscribers, x \in BOOLEAN : subscribeEventMask(mask, s, x)
  \/ \E mask \in Masks, s \in Subscribers : unsubscribeEventMask(mask, s)
  \/ \E s \in Subscribers : unsubscribeAll(s)
  \/ \E uid \in Parents, s \in Subscribers : subscribeParent(uid, s)
  \/ \E uid \in Parents : unsubscribeParent(uid)
  \/ \E name \in Names, uid \in Parents : fireEvent(name, uid)

Loop == Deliver \/ Advance \/ Finish \/ ParentReturns

Next == Program \/ Loop

Safe == Init /\ [][Next]_vars

-----------------------------------------------------------------------------
(* Properties. *)

Likes(s, name) == nameLikeMask(name, s.eventMask)

\* EventManager.hpp:63: while a name is subscribed exclusively, nothing else
\* has subscribed it, by whatever mask and whoever came first.
ExclusiveIsAlone ==
  \A s, t \in m_eventSubscriptions, name \in Names :
    s # t /\ s.exclusive /\ Likes(s, name) => ~Likes(t, name)

\* No subscriber has two masks that like the same name.
OneMaskEach ==
  \A s, t \in m_eventSubscriptions, name \in Names :
    s # t /\ s.subscriber = t.subscriber /\ Likes(s, name) => ~Likes(t, name)

\* Whoever is subscribed to an event when fireEvent's loop ends was told of it,
\* whatever was erased, entered or fired while the loop ran.
NobodyIsSkipped ==
  [][At("loop") /\ (Len(frames') < Len(frames) \/ frames'[Len(frames)].pc = "parent") =>
       \A s \in m_eventSubscriptions : Likes(s, Top.name) => s \in Top.told]_vars
=============================================================================
