-------------------------- MODULE EventManagerProofs --------------------------
(***************************************************************************)
(* Theorems about EventManager for every set of masks, names and           *)
(* subscribers: the list is what it should be, exclusive subscriptions are *)
(* alone as long as they are literal, which is what the assertion in       *)
(* EventManager.cpp:58 wants to say, nobody has two masks for a name, and  *)
(* fireEvent passes nobody over.                                           *)
(***************************************************************************)
EXTENDS EventManager, SequenceTheorems, TLAPS

\* No wildcard.
Literal(mask) == \A k \in 1 .. Len(mask) : mask[k] # "*"

\* A wildcard only at the end.
WellFormed(mask) == \A k \in 1 .. Len(mask) : mask[k] = "*" => k = Len(mask)

\* A literal mask likes one name.
LEMMA LiteralLikes ==
  ASSUME NEW name, NEW mask, Literal(mask), nameLikeMask(name, mask)
  PROVE  name = mask
BY DEF Literal, nameLikeMask

\* Of two prefixes of a name, the shorter one covers the longer one.
LEMMA ShorterCovers ==
  ASSUME NEW name \in Seq(STRING), NEW a \in Seq(STRING), NEW b \in Seq(STRING),
         WellFormed(a), WellFormed(b), Len(a) > 0, Len(b) > 0, Len(a) <= Len(b),
         a[Len(a)] = "*", b[Len(b)] = "*",
         \A l \in 1 .. Len(a) - 1 : name[l] = a[l],
         \A l \in 1 .. Len(b) - 1 : name[l] = b[l]
  PROVE  nameLikeMask(b, a)
<1>1. \A l \in 1 .. Len(a) - 1 : b[l] = a[l]
  <2>1. 1 .. Len(a) - 1 \subseteq 1 .. Len(b) - 1
    BY SMT
  <2> QED BY <2>1
<1>2. CASE Len(a) = Len(b)
  <2>1. \A l \in 1 .. Len(a) : b[l] = a[l]
    BY <1>1, <1>2, SMT
  <2> QED BY <1>2, <2>1, SMT DEF nameLikeMask
<1>3. CASE Len(a) < Len(b)
  <2>1. Len(a) \in 1 .. Len(b) /\ Len(a) \in 1 .. Len(a) /\ Len(a) # Len(b)
    BY <1>3, SMT
  <2>2. b[Len(a)] # "*"
    BY <2>1 DEF WellFormed
  <2>3. Len(a) - 1 <= Len(b)
    BY <1>3, SMT
  <2> QED BY <1>1, <2>1, <2>2, <2>3 DEF nameLikeMask
<1> QED BY <1>2, <1>3, SMT

\* Two masks that like a name cover one another, one way or the other.
LEMMA OneCoversTheOther ==
  ASSUME NEW name \in Seq(STRING), NEW a \in Seq(STRING), NEW b \in Seq(STRING),
         WellFormed(a), WellFormed(b), nameLikeMask(name, a), nameLikeMask(name, b)
  PROVE  nameLikeMask(a, b) \/ nameLikeMask(b, a)
<1>1. CASE name = a \/ name = b
  BY <1>1
<1>2. CASE name # a /\ name # b
  <2>1. PICK k \in 1 .. Len(a) : a[k] = "*" /\ \A l \in 1 .. k - 1 : name[l] = a[l]
    BY <1>2 DEF nameLikeMask
  <2>2. PICK m \in 1 .. Len(b) : b[m] = "*" /\ \A l \in 1 .. m - 1 : name[l] = b[l]
    BY <1>2 DEF nameLikeMask
  <2>3. k = Len(a) /\ m = Len(b)
    BY <2>1, <2>2 DEF WellFormed
  <2>4. Len(a) > 0 /\ Len(b) > 0 /\ (Len(a) <= Len(b) \/ Len(b) <= Len(a))
    BY <2>1, <2>2, SMT
  <2> QED BY <2>1, <2>2, <2>3, <2>4, ShorterCovers
<1> QED BY <1>1, <1>2

-----------------------------------------------------------------------------
(* The inductive invariant. *)

Subscriptions == [id : 1 .. MaxCreated, eventMask : Masks, subscriber : Subscribers,
                  exclusive : BOOLEAN]

\* The list is a set of typed nodes, numbered apart.
ListOK ==
  /\ m_eventSubscriptions \subseteq Subscriptions
  /\ \A s, t \in m_eventSubscriptions : s.id = t.id => s = t
  /\ \A s \in m_eventSubscriptions : s.id <= created
  /\ created \in 0 .. MaxCreated

\* Exclusive masks are subscribed exclusively.
ExclusivesOnly == \A s \in m_eventSubscriptions : s.exclusive => s.eventMask \in Exclusives

\* No two subscriptions clash, whichever was first.
NoClash ==
  \A s, t \in m_eventSubscriptions : s # t =>
    /\ s.exclusive => ~nameLikeMask(s.eventMask, t.eventMask)
    /\ s.subscriber = t.subscriber => ~nameLikeMask(s.eventMask, t.eventMask)

IInv == ListOK /\ ExclusivesOnly /\ NoClash

\* A subset of the list is as good as the list.
LEMMA EraseKeeps ==
  ASSUME IInv, m_eventSubscriptions' \subseteq m_eventSubscriptions, created' = created
  PROVE  IInv'
BY DEF IInv, ListOK, ExclusivesOnly, NoClash

LEMMA SubscribeKeeps ==
  ASSUME IInv, NEW mask \in Masks, NEW s \in Subscribers, NEW x \in BOOLEAN,
         subscribeEventMask(mask, s, x)
  PROVE  IInv'
<1> DEFINE new == [id |-> created + 1, eventMask |-> mask, subscriber |-> s, exclusive |-> x]
<1>1. /\ created < MaxCreated /\ created \in Nat /\ MaxCreated \in Nat
      /\ x => mask \in Exclusives
      /\ \A old \in m_eventSubscriptions : ~Clashes(new, old)
      /\ m_eventSubscriptions' = m_eventSubscriptions \cup {new}
      /\ created' = created + 1
  BY BusAssumption, SMT DEF subscribeEventMask, IInv, ListOK
<1>2. created + 1 \in 1 .. MaxCreated /\ created + 1 \in 0 .. MaxCreated
  BY <1>1, SMT
<1>3. new \in Subscriptions /\ new.id = created + 1 /\ new.eventMask = mask
      /\ new.subscriber = s /\ new.exclusive = x
  BY <1>2 DEF Subscriptions
<1> HIDE DEF new
<1>4. \A old \in m_eventSubscriptions : old.id \in Nat /\ old.id < new.id
  BY <1>1, <1>3, SMT DEF IInv, ListOK, Subscriptions
<1>5. ListOK'
  <2>1. m_eventSubscriptions' \subseteq Subscriptions
    BY <1>1, <1>3 DEF IInv, ListOK
  <2>2. \A a, b \in m_eventSubscriptions' : a.id = b.id => a = b
    <3>1. \A old \in m_eventSubscriptions : old.id # new.id
      BY <1>1, <1>3, <1>4, SMT
    <3> QED BY <1>1, <3>1 DEF IInv, ListOK
  <2>3. \A a \in m_eventSubscriptions' : a.id <= created'
    <3>1. \A old \in m_eventSubscriptions : old.id <= created'
      BY <1>1, <1>3, <1>4, SMT
    <3>2. new.id <= created'
      BY <1>1, <1>3, SMT
    <3> QED BY <1>1, <3>1, <3>2
  <2> QED BY <1>1, <1>2, <2>1, <2>2, <2>3 DEF ListOK
<1>6. ExclusivesOnly'
  BY <1>1, <1>3 DEF IInv, ExclusivesOnly
<1>7. NoClash'
  <2>1. ASSUME NEW old \in m_eventSubscriptions
        PROVE  /\ new.exclusive => ~nameLikeMask(new.eventMask, old.eventMask)
               /\ old.exclusive => ~nameLikeMask(old.eventMask, new.eventMask)
               /\ new.subscriber = old.subscriber =>
                    /\ ~nameLikeMask(new.eventMask, old.eventMask)
                    /\ ~nameLikeMask(old.eventMask, new.eventMask)
    BY <1>1 DEF Clashes
  <2> QED BY <1>1, <2>1 DEF IInv, NoClash
<1> QED BY <1>5, <1>6, <1>7 DEF IInv

\* No two subscriptions of the list are a reason to refuse each other, whatever
\* was subscribed and unsubscribed in between, and by whom.
THEOREM Invariance == Safe => []IInv
<1>1. Init => IInv
  BY BusAssumption, SMT DEF Init, IInv, ListOK, ExclusivesOnly, NoClash
<1>2. IInv /\ [Next]_vars => IInv'
  <2> SUFFICES ASSUME IInv, [Next]_vars PROVE IInv'
    OBVIOUS
  <2>1. ASSUME NEW mask \in Masks, NEW s \in Subscribers, NEW x \in BOOLEAN,
               subscribeEventMask(mask, s, x)
        PROVE  IInv'
    BY <2>1, SubscribeKeeps
  <2>2. ASSUME NEW mask \in Masks, NEW s \in Subscribers, unsubscribeEventMask(mask, s)
        PROVE  IInv'
    BY <2>2, EraseKeeps DEF unsubscribeEventMask, Erase
  <2>3. ASSUME NEW s \in Subscribers, unsubscribeAll(s)
        PROVE  IInv'
    BY <2>3, EraseKeeps DEF unsubscribeAll, Erase
  <2>4. ASSUME \/ \E uid \in Parents, s \in Subscribers : subscribeParent(uid, s)
               \/ \E uid \in Parents : unsubscribeParent(uid)
        PROVE  IInv'
    BY <2>4, EraseKeeps DEF subscribeParent, unsubscribeParent, Parent
  <2>5. ASSUME NEW name \in Names, NEW uid \in Parents, fireEvent(name, uid)
        PROVE  IInv'
    BY <2>5, EraseKeeps DEF fireEvent, Stack, bus
  <2>6. ASSUME Loop PROVE IInv'
    <3>1. UNCHANGED bus
      BY <2>6 DEF Loop, Deliver, Call, Advance, Finish, ParentReturns, Return, InTop, Stack
    <3> QED BY <3>1, EraseKeeps DEF bus
  <2>7. ASSUME UNCHANGED vars PROVE IInv'
    BY <2>7, EraseKeeps DEF vars, bus
  <2> QED BY <2>1, <2>2, <2>3, <2>4, <2>5, <2>6, <2>7 DEF Next, Program
<1> QED BY <1>1, <1>2, PTL DEF Safe

\* While exclusive masks are literal, an exclusively subscribed name has no other
\* subscription: EventManager.hpp:63, under what EventManager.cpp:58 asserts.
THEOREM ExclusiveStaysAlone ==
  ASSUME \A mask \in Exclusives : Literal(mask)
  PROVE  Safe => []ExclusiveIsAlone
<1>1. IInv => ExclusiveIsAlone
  BY LiteralLikes DEF IInv, ExclusivesOnly, NoClash, ExclusiveIsAlone, Likes
<1> QED BY <1>1, Invariance, PTL

\* While wildcards stand at the end of a mask, nobody has two masks for a name.
THEOREM OneMaskPerName ==
  ASSUME \A mask \in Masks : WellFormed(mask)
  PROVE  Safe => []OneMaskEach
<1>1. IInv => OneMaskEach
  <2> SUFFICES ASSUME IInv, NEW s \in m_eventSubscriptions, NEW t \in m_eventSubscriptions,
                      NEW name \in Names, s # t, s.subscriber = t.subscriber,
                      Likes(s, name), Likes(t, name)
               PROVE  FALSE
    BY DEF OneMaskEach
  <2>1. s.eventMask \in Masks /\ t.eventMask \in Masks
    BY DEF IInv, ListOK, Subscriptions
  <2>2. s.eventMask \in Seq(STRING) /\ t.eventMask \in Seq(STRING) /\ name \in Seq(STRING)
    BY <2>1, BusAssumption
  <2>3. nameLikeMask(s.eventMask, t.eventMask) \/ nameLikeMask(t.eventMask, s.eventMask)
    BY <2>1, <2>2, OneCoversTheOther DEF Likes
  <2> QED BY <2>3 DEF IInv, NoClash
<1> QED BY <1>1, Invariance, PTL

-----------------------------------------------------------------------------
(* What fireEvent has passed, it has told.                                 *)

Calls == [name : Names, parent : Parents, at : Nat,
          pc : {"loop", "handler", "parent"}, told : SUBSET Subscriptions]

\* Every subscription of the list up to the node a call stands at was told if it
\* likes the event; new ones are entered behind it.
Passed(call) ==
  /\ call.at <= created
  /\ \A s \in m_eventSubscriptions : Likes(s, call.name) /\ s.id <= call.at => s \in call.told

PassedAreTold == frames \in Seq(Calls) /\ \A i \in 1 .. Len(frames) : Passed(frames[i])

\* The program changes the list, and the calls stand where they stood.
LEMMA ListKeepsPassed ==
  ASSUME IInv, PassedAreTold, UNCHANGED frames, created' \in Nat, created' >= created,
         \A s \in m_eventSubscriptions' \ m_eventSubscriptions : s.id \in Nat /\ s.id > created
  PROVE  PassedAreTold'
<1>1. frames' \in Seq(Calls)
  BY DEF PassedAreTold
<1>2. ASSUME NEW i \in 1 .. Len(frames) PROVE Passed(frames[i])'
  <2>1. frames[i] \in Calls /\ Passed(frames[i]) /\ frames'[i] = frames[i]
    BY <1>2 DEF PassedAreTold
  <2>2. frames[i].at \in Nat /\ frames[i].at <= created /\ created \in Nat
    BY <2>1 DEF Calls, Passed, IInv, ListOK
  <2>3. frames[i].at <= created'
    BY <2>2, SMT
  <2>4. ASSUME NEW s \in m_eventSubscriptions', Likes(s, frames[i].name), s.id <= frames[i].at
        PROVE  s \in frames[i].told
    <3>1. CASE s \in m_eventSubscriptions
      BY <2>1, <2>4, <3>1 DEF Passed
    <3>2. CASE s \notin m_eventSubscriptions
      BY <2>2, <2>4, <3>2, SMT
    <3> QED BY <3>1, <3>2
  <2> QED BY <2>1, <2>3, <2>4 DEF Passed, Likes
<1> QED BY <1>1, <1>2 DEF PassedAreTold

\* A call goes on within fireEvent, and the list stays.
LEMMA TopKeepsPassed ==
  ASSUME PassedAreTold, frames # <<>>, UNCHANGED bus,
         NEW call \in Calls, Passed(call), frames' = [frames EXCEPT ![Len(frames)] = call]
  PROVE  PassedAreTold'
<1>1. frames' \in Seq(Calls) /\ Len(frames') = Len(frames)
  BY SMT DEF PassedAreTold
<1>2. \A i \in 1 .. Len(frames) : frames'[i] = frames[i] \/ frames'[i] = call
  BY SMT DEF PassedAreTold
<1>3. \A i \in 1 .. Len(frames) : Passed(frames[i])
  BY DEF PassedAreTold
<1>4. \A i \in 1 .. Len(frames') : Passed(frames'[i])
  BY <1>1, <1>2, <1>3
<1>5. created' = created /\ m_eventSubscriptions' = m_eventSubscriptions
  BY DEF bus
<1> QED BY <1>1, <1>4, <1>5 DEF PassedAreTold, Passed, Likes

\* A sequence without its last element.
LEMMA FrontOfStack ==
  ASSUME NEW S, NEW q \in Seq(S), q # <<>>
  PROVE  LET f == SubSeq(q, 1, Len(q) - 1)
         IN  /\ f \in Seq(S) /\ Len(f) = Len(q) - 1
             /\ \A i \in 1 .. Len(q) - 1 : i \in 1 .. Len(q) /\ f[i] = q[i]
<1>1. Len(q) \in Nat /\ Len(q) > 0 /\ \A i \in 1 .. Len(q) : q[i] \in S
  BY SMT
<1> DEFINE n == Len(q) - 1
<1>2. n \in Nat /\ \A i \in 1 .. n : i \in 1 .. Len(q) /\ q[i] \in S
  BY <1>1, SMT
<1> DEFINE f == SubSeq(q, 1, n)
<1>3. f \in Seq(S) /\ Len(f) = (IF 1 <= n THEN n - 1 + 1 ELSE 0)
      /\ \A i \in 1 .. n - 1 + 1 : f[i] = q[1 + i - 1]
  <2>1. 1 \in Int /\ n \in Int
    BY <1>2, SMT
  <2> HIDE DEF n
  <2> QED BY <1>2, <2>1, SubSeqProperties
<1> HIDE DEF n, f
<1>4. Len(f) = n /\ \A i \in 1 .. n : f[i] = q[i]
  BY <1>2, <1>3, SMT
<1> QED BY <1>2, <1>3, <1>4 DEF n, f

\* A call begins or returns.
LEMMA StackKeepsPassed ==
  ASSUME IInv, PassedAreTold, UNCHANGED bus,
         \/ \E name \in Names, uid \in Parents :
              frames' = Append(frames, [name |-> name, parent |-> uid, at |-> 0,
                                        pc |-> "loop", told |-> {}])
         \/ frames # <<>> /\ frames' = SubSeq(frames, 1, Len(frames) - 1)
  PROVE  PassedAreTold'
<1>1. created' = created /\ m_eventSubscriptions' = m_eventSubscriptions
  BY DEF bus
<1>2. CASE \E name \in Names, uid \in Parents :
             frames' = Append(frames, [name |-> name, parent |-> uid, at |-> 0,
                                       pc |-> "loop", told |-> {}])
  <2>1. PICK name \in Names, uid \in Parents :
               frames' = Append(frames, [name |-> name, parent |-> uid, at |-> 0,
                                         pc |-> "loop", told |-> {}])
    BY <1>2
  <2> DEFINE call == [name |-> name, parent |-> uid, at |-> 0, pc |-> "loop", told |-> {}]
  <2>2. call \in Calls /\ call.at = 0
    BY DEF Calls
  <2>3. Passed(call)
    <3>1. created \in Nat /\ \A s \in m_eventSubscriptions : s.id \in Nat /\ s.id > 0
      BY BusAssumption, SMT DEF IInv, ListOK, Subscriptions
    <3> QED BY <2>2, <3>1, SMT DEF Passed
  <2> HIDE DEF call
  <2>4. frames' = Append(frames, call)
    BY <2>1 DEF call
  <2>5. frames' \in Seq(Calls) /\ Len(frames') = Len(frames) + 1
        /\ \A i \in 1 .. Len(frames) + 1 :
             frames'[i] = call \/ (i \in 1 .. Len(frames) /\ frames'[i] = frames[i])
    BY <2>2, <2>4, SMT DEF PassedAreTold
  <2>6. \A i \in 1 .. Len(frames') : Passed(frames'[i])
    BY <2>3, <2>5 DEF PassedAreTold
  <2> QED BY <1>1, <2>5, <2>6 DEF PassedAreTold, Passed, Likes
<1>3. CASE frames # <<>> /\ frames' = SubSeq(frames, 1, Len(frames) - 1)
  <2>1. frames' \in Seq(Calls) /\ Len(frames') = Len(frames) - 1
        /\ \A i \in 1 .. Len(frames) - 1 : i \in 1 .. Len(frames) /\ frames'[i] = frames[i]
    <3>1. frames \in Seq(Calls)
      BY DEF PassedAreTold
    <3> QED BY <1>3, <3>1, FrontOfStack
  <2>2. \A i \in 1 .. Len(frames') : Passed(frames'[i])
    BY <2>1 DEF PassedAreTold
  <2> QED BY <1>1, <2>1, <2>2 DEF PassedAreTold, Passed, Likes
<1> QED BY <1>2, <1>3

\* The node called is the next that likes the event, so no node between was
\* passed over.
LEMMA DeliverKeepsPassed ==
  ASSUME IInv, PassedAreTold, Deliver
  PROVE  PassedAreTold'
<1>1. PICK s \in Ahead(Top) : (\A t \in Ahead(Top) : s.id <= t.id) /\ Call(s)
  BY DEF Deliver
<1>2. frames # <<>> /\ Top \in Calls /\ Passed(Top) /\ UNCHANGED bus
  <2>1. frames # <<>> /\ UNCHANGED bus
    BY <1>1 DEF Deliver, At, Call, InTop, Stack
  <2>2. Len(frames) \in 1 .. Len(frames) /\ frames[Len(frames)] \in Calls
    BY <2>1, SMT DEF PassedAreTold
  <2> QED BY <2>1, <2>2 DEF PassedAreTold, Top
<1> DEFINE call == [Top EXCEPT !.at = s.id, !.pc = "handler", !.told = @ \cup {s}]
<1>3. s \in m_eventSubscriptions /\ s \in Subscriptions /\ s.id \in Nat /\ s.id <= created
  BY <1>1, SMT DEF Ahead, IInv, ListOK, Subscriptions
<1>4. call \in Calls /\ call.at = s.id /\ call.told = Top.told \cup {s} /\ call.name = Top.name
  BY <1>2, <1>3 DEF Calls
<1> HIDE DEF call
<1>5. Passed(call)
  <2>1. ASSUME NEW t \in m_eventSubscriptions, Likes(t, Top.name), t.id <= s.id
        PROVE  t \in Top.told \cup {s}
    <3>1. t.id \in Nat /\ Top.at \in Nat
      BY <1>2, SMT DEF IInv, ListOK, Subscriptions, Calls
    <3>2. CASE t.id <= Top.at
      BY <1>2, <2>1, <3>2 DEF Passed
    <3>3. CASE t.id > Top.at
      <4>1. t \in Ahead(Top)
        BY <2>1, <3>3 DEF Ahead, Likes
      <4>2. t.id = s.id
        BY <1>1, <1>3, <2>1, <3>1, <4>1, SMT
      <4> QED BY <1>3, <4>2 DEF IInv, ListOK
    <3> QED BY <3>1, <3>2, <3>3, SMT
  <2> QED BY <1>3, <1>4, <2>1 DEF Passed
<1>6. frames' = [frames EXCEPT ![Len(frames)] = call]
  BY <1>1 DEF Call, InTop, Stack, call
<1> QED BY <1>2, <1>4, <1>5, <1>6, TopKeepsPassed

\* Only the place in the code changes.
LEMMA GoesOn ==
  ASSUME PassedAreTold, frames # <<>>, UNCHANGED bus, NEW pc \in {"loop", "handler", "parent"},
         frames' = [frames EXCEPT ![Len(frames)] = [Top EXCEPT !.pc = pc]]
  PROVE  PassedAreTold'
<1> DEFINE call == [Top EXCEPT !.pc = pc]
<1>1. Top \in Calls /\ Passed(Top)
  <2>1. Len(frames) \in 1 .. Len(frames) /\ frames[Len(frames)] \in Calls
    BY SMT DEF PassedAreTold
  <2> QED BY <2>1 DEF PassedAreTold, Top
<1>2. call \in Calls /\ call.at = Top.at /\ call.told = Top.told /\ call.name = Top.name
  BY <1>1 DEF Calls
<1>3. frames' = [frames EXCEPT ![Len(frames)] = call]
  OBVIOUS
<1> HIDE DEF call
<1>4. Passed(call)
  BY <1>1, <1>2 DEF Passed
<1> QED BY <1>2, <1>3, <1>4, TopKeepsPassed

LEMMA NextKeepsPassed ==
  ASSUME IInv, PassedAreTold, [Next]_vars
  PROVE  PassedAreTold'
<1>0. created \in Nat
  BY BusAssumption, SMT DEF IInv, ListOK
<1>1. ASSUME NEW mask \in Masks, NEW s \in Subscribers, NEW x \in BOOLEAN,
             subscribeEventMask(mask, s, x)
      PROVE  PassedAreTold'
  <2> DEFINE new == [id |-> created + 1, eventMask |-> mask, subscriber |-> s, exclusive |-> x]
  <2>1. UNCHANGED frames /\ created' = created + 1
        /\ m_eventSubscriptions' = m_eventSubscriptions \cup {new}
    BY <1>1 DEF subscribeEventMask
  <2>2. new.id \in Nat /\ new.id > created /\ created' \in Nat /\ created' >= created
    BY <1>0, <2>1, SMT
  <2> HIDE DEF new
  <2> QED BY <2>1, <2>2, ListKeepsPassed
<1>2. ASSUME UNCHANGED <<frames, created>>, m_eventSubscriptions' \subseteq m_eventSubscriptions
      PROVE  PassedAreTold'
  <2>1. created' \in Nat /\ created' >= created
    BY <1>0, <1>2, SMT
  <2> QED BY <1>2, <2>1, ListKeepsPassed
<1>3. ASSUME \/ \E mask \in Masks, s \in Subscribers : unsubscribeEventMask(mask, s)
             \/ \E s \in Subscribers : unsubscribeAll(s)
      PROVE  PassedAreTold'
  BY <1>2, <1>3 DEF unsubscribeEventMask, unsubscribeAll, Erase
<1>4. ASSUME \/ \E uid \in Parents, s \in Subscribers : subscribeParent(uid, s)
             \/ \E uid \in Parents : unsubscribeParent(uid)
      PROVE  PassedAreTold'
  BY <1>2, <1>4 DEF subscribeParent, unsubscribeParent, Parent
<1>5. ASSUME NEW name \in Names, NEW uid \in Parents, fireEvent(name, uid)
      PROVE  PassedAreTold'
  BY <1>5, StackKeepsPassed DEF fireEvent, Stack
<1>6. ASSUME Advance PROVE PassedAreTold'
  <2>1. frames # <<>>
    BY <1>6 DEF Advance, At
  <2>2. CASE frames' = [frames EXCEPT ![Len(frames)] = [Top EXCEPT !.pc = "loop"]] /\ UNCHANGED bus
    BY <2>1, <2>2, GoesOn
  <2>3. CASE UNCHANGED <<bus, frames>>
    BY <1>2, <2>3 DEF bus
  <2> QED BY <1>6, <2>2, <2>3 DEF Advance, InTop, Stack
<1>7. ASSUME Finish \/ ParentReturns PROVE PassedAreTold'
  <2>1. frames # <<>> /\ UNCHANGED bus
    BY <1>7 DEF Finish, ParentReturns, At, InTop, Return, Stack
  <2>2. CASE frames' = [frames EXCEPT ![Len(frames)] = [Top EXCEPT !.pc = "parent"]]
    BY <2>1, <2>2, GoesOn
  <2>3. CASE frames' = SubSeq(frames, 1, Len(frames) - 1)
    BY <2>1, <2>3, StackKeepsPassed
  <2> QED BY <1>7, <2>2, <2>3 DEF Finish, ParentReturns, InTop, Return, Stack
<1>8. ASSUME UNCHANGED vars PROVE PassedAreTold'
  BY <1>2, <1>8 DEF vars, bus
<1> QED BY <1>1, <1>3, <1>4, <1>5, <1>6, <1>7, <1>8, DeliverKeepsPassed DEF Next, Program, Loop

\* No program code runs while the loop looks for the next node.
LEMMA ProgramWaits ==
  ASSUME Program, frames # <<>>
  PROVE  Top.pc # "loop"
BY DEF Program, subscribeEventMask, unsubscribeEventMask, unsubscribeAll, Erase,
       subscribeParent, unsubscribeParent, Parent, fireEvent, Running

\* Whoever is subscribed to an event when its loop ends was told of it, for any
\* number of subscriptions and nested events: EventManager.cpp:42-46.
THEOREM NobodyIsEverSkipped == Safe => NobodyIsSkipped
<1>1. Init => PassedAreTold
  BY SMT DEF Init, PassedAreTold
<1>2. IInv /\ PassedAreTold /\ [Next]_vars => PassedAreTold'
  BY NextKeepsPassed
<1>3. IInv /\ PassedAreTold /\ [Next]_vars =>
        [At("loop") /\ (Len(frames') < Len(frames) \/ frames'[Len(frames)].pc = "parent") =>
           \A s \in m_eventSubscriptions : Likes(s, Top.name) => s \in Top.told]_vars
  <2> SUFFICES ASSUME IInv, PassedAreTold, Next, At("loop"),
                      Len(frames') < Len(frames) \/ frames'[Len(frames)].pc = "parent",
                      NEW s \in m_eventSubscriptions, Likes(s, Top.name)
               PROVE  s \in Top.told
    OBVIOUS
  <2>1. frames # <<>> /\ Top \in Calls /\ Passed(Top) /\ Top.pc = "loop"
    <3>1. frames # <<>> /\ Top.pc = "loop"
      BY DEF At
    <3>2. Len(frames) \in 1 .. Len(frames) /\ frames[Len(frames)] \in Calls
      BY <3>1, SMT DEF PassedAreTold
    <3> QED BY <3>1, <3>2 DEF PassedAreTold, Top
  <2>2. Ahead(Top) = {}
    <3>1. CASE Finish
      BY <3>1 DEF Finish
    <3>2. CASE Deliver
      <4>1. PICK t \in Ahead(Top) : Call(t)
        BY <3>2 DEF Deliver
      <4>2. frames' = [frames EXCEPT ![Len(frames)] =
                         [Top EXCEPT !.at = t.id, !.pc = "handler", !.told = @ \cup {t}]]
        BY <4>1 DEF Call, InTop, Stack
      <4>3. Len(frames') = Len(frames) /\ frames'[Len(frames)].pc = "handler"
        BY <2>1, <4>2, SMT DEF PassedAreTold, Calls
      <4> QED BY <4>3, SMT DEF PassedAreTold
    <3>3. CASE Advance \/ ParentReturns
      BY <2>1, <3>3 DEF Advance, ParentReturns, At
    <3>4. CASE Program
      BY <2>1, <3>4, ProgramWaits
    <3> QED BY <3>1, <3>2, <3>3, <3>4 DEF Next, Loop
  <2>3. s.id \in Nat /\ Top.at \in Nat
    BY <2>1, SMT DEF IInv, ListOK, Subscriptions, Calls
  <2>4. ~(s.id > Top.at)
    BY <2>2 DEF Ahead, Likes
  <2>5. s.id <= Top.at
    BY <2>3, <2>4, SMT
  <2> QED BY <2>1, <2>5 DEF Passed
<1> QED BY <1>1, <1>2, <1>3, Invariance, PTL DEF Safe, NobodyIsSkipped
===============================================================================
