------------------------- MODULE TimeoutManagerProofs -------------------------
(***************************************************************************)
(* Theorems about TimeoutManager for every value of its constants but one: *)
(* only the first callback of a pass uses the manager, or none does        *)
(* (OneCallback).  What becomes of the multiset when a later one does is   *)
(* shown by TimeoutManagerLost.                                            *)
(***************************************************************************)
EXTENDS TimeoutManager, FiniteSetTheorems, SequenceTheorems, TLAPS

OneCallback == Callbacks # "any"

-----------------------------------------------------------------------------
(* The inductive invariant.  In a callback that uses the manager nothing of   *)
(* this pass is freed yet, and m_iterator is at the first node; the later     *)
(* ones only look ahead, where every node is that of a pending timeout.       *)

\* The first node that is still to be looked at.
First == IF pc = "out" THEN 1
         ELSE IF m_iterator = End THEN Len(m_timeouts) + 1
         ELSE IF pc = "callback" THEN m_iterator + 1 ELSE m_iterator

Rest == First .. Len(m_timeouts)

\* The nodes whose timeouts are not freed.
Whole == IF pc = "callback" THEN m_iterator .. Len(m_timeouts) ELSE Rest

Infos == [firets : Nat, receiver : Receivers \cup {Nobody}]
Statuses == {"unused", "pending", "fired", "dropped", "zombie"}

Typed ==
  /\ now \in 1 .. MaxTime /\ start \in 0 .. MaxTime
  /\ heap \in [Addrs -> Infos] /\ live \subseteq Addrs
  /\ m_timeouts \in Seq(Addrs) /\ m_iterator \in 0 .. Len(m_timeouts)
  /\ pc \in {"out", "fire", "callback"} /\ p \in Addrs /\ fired \in BOOLEAN
  /\ ticket \in [Tickets -> [status : Statuses, addr : Addrs, due : Nat,
                             receiver : Receivers \cup {Nobody}]]
  /\ ub = "none"

PassFine ==
  /\ pc = "out" => m_iterator = End
  /\ pc # "out" => start <= now
  /\ pc # "out" /\ ~fired => m_iterator = (IF m_timeouts = <<>> THEN End ELSE 1)
  /\ pc = "callback" => /\ m_iterator # End /\ m_timeouts[m_iterator] = p
                        /\ heap[p].firets <= start

\* Each node has a timeout of its own, in the order of the seconds.
NodesFine ==
  /\ \A i, k \in 1 .. Len(m_timeouts) : m_timeouts[i] = m_timeouts[k] => i = k
  /\ live = {m_timeouts[i] : i \in Whole}
  /\ \A i, k \in Whole : i <= k => Key(heap, m_timeouts, i) <= Key(heap, m_timeouts, k)

Pending == {t \in Tickets : ticket[t].status = "pending"}

\* What is ahead are the pending timeouts.
PendingFine ==
  /\ \A t \in Pending :
       /\ \E i \in Rest : m_timeouts[i] = ticket[t].addr
       /\ heap[ticket[t].addr].firets = ticket[t].due
       /\ heap[ticket[t].addr].receiver = ticket[t].receiver
  /\ \A i \in Rest : \E t \in Pending : ticket[t].addr = m_timeouts[i]

\* Who holds an address is the last who was given it.
TicketsFine ==
  /\ \A t \in Pending : \A u \in Tickets :
       ticket[u].status # "unused" /\ ticket[u].addr = ticket[t].addr => u <= t
  /\ \A t, u \in Tickets : ticket[t].status # "unused" /\ ticket[u].status = "unused" => t < u
  /\ \A t \in Tickets : ticket[t].status # "zombie"

IInv == Typed /\ PassFine /\ NodesFine /\ PendingFine /\ TicketsFine

-----------------------------------------------------------------------------
(* The pass. *)

LEMMA InitIInv ==
  ASSUME Init
  PROVE  IInv
<1>1. m_timeouts = <<>> /\ m_timeouts \in Seq(Addrs) /\ Len(m_timeouts) = 0
  BY SMT DEF Init
<1>2. 1 .. Len(m_timeouts) = {} /\ 0 \in 0 .. Len(m_timeouts)
  BY <1>1, SMT
<1>3. (CHOOSE a \in Addrs : TRUE) \in Addrs
  BY ProgramAssumption
<1>4. 1 \in 1 .. MaxTime /\ 0 \in 0 .. MaxTime
  BY ProgramAssumption, SMT
<1>5. Typed
  <2>1. Blank \in Infos
    BY DEF Blank, Infos
  <2>2. now \in 1 .. MaxTime /\ start \in 0 .. MaxTime /\ live \subseteq Addrs /\ ub = "none" /\ p \in Addrs
        /\ fired \in BOOLEAN /\ pc = "out" /\ m_iterator \in 0 .. Len(m_timeouts)
    BY <1>2, <1>3, <1>4 DEF Init, End
  <2>3. heap \in [Addrs -> Infos]
    BY <2>1 DEF Init
  <2>4. ticket \in [Tickets -> [status : Statuses, addr : Addrs, due : Nat,
                             receiver : Receivers \cup {Nobody}]]
    BY <2>2, SMT DEF Init, Statuses
  <2> QED BY <1>1, <2>2, <2>3, <2>4 DEF Typed
<1>6. Rest = {} /\ Whole = {} /\ Pending = {}
  BY <1>2, SMT DEF Init, Rest, First, Whole, Pending
<1>7. \A t \in Tickets : ticket[t].status = "unused"
  BY SMT DEF Init
<1>8. PassFine
  BY DEF Init, PassFine
<1>9. NodesFine
  BY <1>2, <1>6 DEF Init, NodesFine
<1> QED BY <1>5, <1>6, <1>7, <1>8, <1>9 DEF IInv, PendingFine, TicketsFine

LEMMA TickStep ==
  ASSUME IInv, Tick
  PROVE  IInv'
<1>1. UNCHANGED <<heap, live, m_timeouts, m_iterator, pc, start, p, fired, ticket, ub>> /\ now' = now + 1
      /\ now < MaxTime
  BY DEF Tick, memory, tree, firing
<1>2. now' \in 1 .. MaxTime /\ (start <= now => start <= now')
  BY <1>1, ProgramAssumption, SMT DEF IInv, Typed
<1>3. Rest' = Rest /\ Whole' = Whole /\ Pending' = Pending
  BY <1>1 DEF Rest, First, Whole, Pending
<1>4. Typed'
  BY <1>1, <1>2 DEF IInv, Typed
<1>5. PassFine'
  BY <1>1, <1>2 DEF IInv, PassFine
<1>6. NodesFine'
  BY <1>1, <1>3 DEF IInv, NodesFine, Key
<1> QED BY <1>1, <1>3, <1>4, <1>5, <1>6 DEF IInv, PendingFine, TicketsFine

LEMMA BeginStep ==
  ASSUME IInv, Begin
  PROVE  IInv'
<1>1. UNCHANGED <<now, heap, live, m_timeouts, p, ticket, ub>> /\ pc = "out" /\ pc' = "fire"
      /\ start' = now /\ fired' = FALSE
      /\ m_iterator' = (IF m_timeouts = <<>> THEN End ELSE 1)
  BY DEF Begin, memory
<1>2. Len(m_timeouts) \in Nat /\ (m_timeouts = <<>> <=> Len(m_timeouts) = 0)
  BY SMT DEF IInv, Typed
<1>3. m_iterator' \in 0 .. Len(m_timeouts)' /\ start' \in 0 .. MaxTime /\ start' <= now'
  BY <1>1, <1>2, SMT DEF IInv, Typed, End
<1>4. First = 1 /\ First' = 1
  BY <1>1, <1>2, SMT DEF First, End
<1>5. Rest' = Rest /\ Whole' = Rest /\ Whole = Rest /\ Pending' = Pending
  BY <1>1, <1>4 DEF Rest, Whole, Pending
<1>6. Typed'
  BY <1>1, <1>3 DEF IInv, Typed
<1>7. PassFine'
  BY <1>1, <1>3 DEF IInv, PassFine
<1>8. NodesFine'
  BY <1>1, <1>5 DEF IInv, NodesFine, Key
<1> QED BY <1>1, <1>5, <1>6, <1>7, <1>8 DEF IInv, PendingFine, TicketsFine

\* The node at which the loop calls is that of one pending timeout, and it is the one Fire picks.
LEMMA FireFacts ==
  ASSUME IInv, Fire
  PROVE  /\ m_iterator \in 1 .. Len(m_timeouts) /\ First = m_iterator
         /\ p' = m_timeouts[m_iterator] /\ p' \in live /\ heap[p'].firets <= start
         /\ pc' = "callback" /\ UNCHANGED <<now, heap, live, m_timeouts, m_iterator, start, fired, ub>>
         /\ \E t \in Pending : /\ ticket[t].addr = p'
                               /\ \A u \in Pending : ticket[u].addr = p' => u = t
                               /\ ticket' = [ticket EXCEPT ![t].status = "fired"]
<1>1. pc = "fire" /\ m_iterator # End /\ p' = m_timeouts[m_iterator]
      /\ UNCHANGED <<now, heap, live, m_timeouts, m_iterator, start, fired>>
  BY DEF Fire, AtDue, Iterating, memory, tree
<1>2. m_iterator \in 1 .. Len(m_timeouts) /\ First = m_iterator /\ m_iterator \in Rest /\ Whole = Rest
  BY <1>1, SMT DEF IInv, Typed, First, End, Rest, Whole
<1>3. p' \in live /\ heap[p'].firets <= start
  BY <1>1, <1>2 DEF IInv, NodesFine, Fire, AtDue, Key
<1>4. PICK t \in Pending : ticket[t].addr = p'
  BY <1>1, <1>2 DEF IInv, PendingFine
<1>5. \A u \in Pending : ticket[u].addr = p' => u = t
  <2>1. SUFFICES ASSUME NEW u \in Pending, ticket[u].addr = p' PROVE u = t
    OBVIOUS
  <2>2. u <= t /\ t <= u
    BY <1>4, <2>1 DEF IInv, TicketsFine, Pending
  <2>3. u \in Nat /\ t \in Nat
    BY ProgramAssumption DEF Pending
  <2> QED BY <2>2, <2>3, SMT
<1>6. DEFINE mine == {v \in Tickets : /\ ticket[v].addr = p'
                                      /\ ticket[v].status \in {"pending", "dropped"}}
<1>7. (CHOOSE u \in mine : \A v \in mine : v <= u) = t
  <2>1. t \in mine /\ \A v \in mine : v <= t
    BY <1>4 DEF IInv, TicketsFine, Pending
  <2>2. ASSUME NEW u \in mine, \A v \in mine : v <= u PROVE u = t
    <3>1. u <= t /\ t <= u
      BY <2>1, <2>2
    <3>2. u \in Nat /\ t \in Nat
      BY ProgramAssumption DEF Pending
    <3> QED BY <3>1, <3>2, SMT
  <2> HIDE DEF mine
  <2> QED BY <2>1, <2>2
<1>8. pc' = "callback" /\ ub' = ub
      /\ ticket' = [ticket EXCEPT ![t].status = IF @ = "dropped" THEN "zombie" ELSE "fired"]
  BY <1>3, <1>7 DEF Fire
<1>9. ticket' = [ticket EXCEPT ![t].status = "fired"]
  BY <1>8 DEF Pending
<1> QED BY <1>1, <1>2, <1>3, <1>4, <1>5, <1>8, <1>9

LEMMA StutterStep ==
  ASSUME IInv, UNCHANGED vars
  PROVE  IInv'
<1>1. UNCHANGED <<now, heap, live, m_timeouts, m_iterator, pc, start, p, fired, ticket, ub>>
  BY DEF vars, memory, tree, firing
<1>2. Rest' = Rest /\ Whole' = Whole /\ Pending' = Pending
  BY <1>1 DEF Rest, First, Whole, Pending
<1>3. Typed'
  BY <1>1 DEF IInv, Typed
<1>4. NodesFine'
  BY <1>1, <1>2 DEF IInv, NodesFine, Key
<1>5. PendingFine' /\ TicketsFine'
  BY <1>1, <1>2 DEF IInv, PendingFine, TicketsFine
<1> QED BY <1>1, <1>3, <1>4, <1>5 DEF IInv, PassFine

LEMMA FireStep ==
  ASSUME IInv, Fire
  PROVE  IInv'
<1>1. PICK t \in Pending :
         /\ ticket[t].addr = p' /\ \A u \in Pending : ticket[u].addr = p' => u = t
         /\ ticket' = [ticket EXCEPT ![t].status = "fired"]
  BY FireFacts
<1>2. /\ m_iterator \in 1 .. Len(m_timeouts) /\ First = m_iterator
      /\ p' = m_timeouts[m_iterator] /\ p' \in live /\ heap[p'].firets <= start
      /\ pc' = "callback" /\ UNCHANGED <<now, heap, live, m_timeouts, m_iterator, start, fired, ub>>
      /\ pc = "fire"
  BY FireFacts DEF Fire
<1>3. t \in Tickets /\ ticket[t].status = "pending"
  BY DEF Pending
<1>4. /\ ticket' \in [Tickets -> [status : Statuses, addr : Addrs, due : Nat,
                             receiver : Receivers \cup {Nobody}]]
      /\ \A u \in Tickets : /\ ticket'[u].addr = ticket[u].addr /\ ticket'[u].due = ticket[u].due
                            /\ ticket'[u].receiver = ticket[u].receiver
                            /\ ticket'[u].status = IF u = t THEN "fired" ELSE ticket[u].status
  BY <1>1, <1>3, SMT DEF IInv, Typed, Statuses
<1>5. Pending' = Pending \ {t}
  BY <1>3, <1>4 DEF Pending
<1>6. First' = m_iterator + 1 /\ Whole' = Rest /\ Whole = Rest /\ Rest' = Rest \ {m_iterator}
      /\ Rest = m_iterator .. Len(m_timeouts)
  <2>1. First' = m_iterator + 1
    BY <1>2, SMT DEF First, End
  <2>2. m_iterator \in 1 .. Len(m_timeouts) /\ Len(m_timeouts) \in Nat
    BY <1>2, SMT DEF IInv, Typed
  <2>3. (m_iterator + 1) .. Len(m_timeouts) = (m_iterator .. Len(m_timeouts)) \ {m_iterator}
    BY <2>2, SMT
  <2> QED BY <1>2, <2>1, <2>3 DEF Whole, Rest
<1>7. \A i \in Rest : i \in 1 .. Len(m_timeouts)
  BY <1>2, <1>6, SMT
<1>8. Typed'
  BY <1>2, <1>4 DEF IInv, Typed
<1>9. PassFine'
  <2>1. m_iterator # End
    BY <1>2, SMT DEF End
  <2> QED BY <1>2, <2>1 DEF IInv, PassFine
<1>10. NodesFine'
  BY <1>2, <1>6 DEF IInv, NodesFine, Key
<1>11. PendingFine'
  <2>1. ASSUME NEW u \in Pending' PROVE \E i \in Rest' : m_timeouts[i] = ticket[u].addr
    <3>1. u \in Pending /\ u # t
      BY <1>5
    <3>2. PICK i \in Rest : m_timeouts[i] = ticket[u].addr
      BY <3>1 DEF IInv, PendingFine
    <3>3. i # m_iterator
      BY <1>1, <1>2, <3>1, <3>2
    <3> QED BY <1>6, <3>2, <3>3
  <2>2. ASSUME NEW i \in Rest' PROVE \E u \in Pending' : ticket[u].addr = m_timeouts[i]
    <3>1. i \in Rest /\ i # m_iterator
      BY <1>6
    <3>2. PICK u \in Pending : ticket[u].addr = m_timeouts[i]
      BY <3>1 DEF IInv, PendingFine
    <3>3. u # t
      BY <1>1, <1>2, <1>7, <3>1, <3>2 DEF IInv, NodesFine
    <3> QED BY <1>5, <3>2, <3>3
  <2>3. \A u \in Pending' : u \in Tickets /\ u \in Pending
    BY <1>5 DEF Pending
  <2> QED BY <1>2, <1>4, <2>1, <2>2, <2>3 DEF IInv, PendingFine
<1>12. TicketsFine'
  <2>1. \A u \in Pending' : u \in Tickets /\ u \in Pending
    BY <1>5 DEF Pending
  <2> QED BY <1>3, <1>4, <2>1 DEF IInv, TicketsFine
<1> QED BY <1>8, <1>9, <1>10, <1>11, <1>12 DEF IInv

\* What delete leaves at other addresses, and that anything is left.
LEMMA DeleteFacts ==
  ASSUME IInv, NEW addrs \in SUBSET Addrs, NEW how, how \in Freed, Delete(addrs, how)
  PROVE  /\ heap' \in [Addrs -> Infos] /\ live' = live \ addrs
         /\ \A a \in Addrs \ addrs : heap'[a] = heap[a]
<1>1. \A a \in Addrs : heap[a] \in Infos
  BY DEF IInv, Typed
<1>2. how \in {"all", "zero", "huge", "nothing"} /\ MaxUInt \in Nat /\ 0 \in Nat
  BY ProgramAssumption, SMT
<1>3. \A info \in Infos : FreedInfo(info, how) \in Infos
  BY <1>2, SMT DEF FreedInfo, Infos
<1> QED BY <1>1, <1>3 DEF Delete

LEMMA ReturnStep ==
  ASSUME IInv, Return
  PROVE  IInv'
<1>1. /\ pc = "callback" /\ pc' = "fire" /\ fired' = TRUE
      /\ UNCHANGED <<now, m_timeouts, start, p, ticket>>
      /\ m_iterator' = (IF m_iterator \in {End, Len(m_timeouts)} THEN End ELSE m_iterator + 1)
  BY DEF Return
<1>2. m_iterator \in 1 .. Len(m_timeouts) /\ Len(m_timeouts) \in Nat /\ m_timeouts[m_iterator] = p
      /\ m_iterator # End
  BY <1>1, SMT DEF IInv, Typed, PassFine, End
<1>3. m_iterator \in Whole
  BY <1>1, <1>2, SMT DEF Whole
<1>4. p \in live /\ {p} \in SUBSET Addrs
  BY <1>2, <1>3 DEF IInv, NodesFine, Typed
<1>5. PICK how \in Freed : Delete({p}, how)
  BY <1>4 DEF Return
<1>6. heap' \in [Addrs -> Infos] /\ live' = live \ {p} /\ \A a \in Addrs \ {p} : heap'[a] = heap[a]
  BY <1>4, <1>5, DeleteFacts
<1>7. ub' = "none"
  BY <1>2, <1>4 DEF Return, IInv, Typed
<1>8. m_iterator' \in 0 .. Len(m_timeouts)
  BY <1>1, <1>2, SMT DEF End
<1>9. First = m_iterator + 1 /\ First' = First
  BY <1>1, <1>2, SMT DEF First, End
<1>10. Rest' = Rest /\ Whole' = Rest /\ Rest = Whole \ {m_iterator} /\ Pending' = Pending
  <2>1. (m_iterator + 1) .. Len(m_timeouts) = (m_iterator .. Len(m_timeouts)) \ {m_iterator}
    BY <1>2, SMT
  <2> QED BY <1>1, <1>9, <2>1 DEF Whole, Rest, Pending
<1>11. \A i \in Whole : i \in 1 .. Len(m_timeouts)
  BY <1>1, <1>2, SMT DEF Whole
<1>12. \A i \in Rest : m_timeouts[i] # p /\ m_timeouts[i] \in Addrs
  <2>1. \A i \in Rest : i \in 1 .. Len(m_timeouts) /\ i # m_iterator
    BY <1>10, <1>11
  <2>2. \A i \in 1 .. Len(m_timeouts) : m_timeouts[i] \in Addrs
    BY SMT DEF IInv, Typed
  <2> QED BY <1>2, <2>1, <2>2 DEF IInv, NodesFine
<1>13. Typed'
  BY <1>1, <1>6, <1>7, <1>8 DEF IInv, Typed
<1>14. PassFine'
  BY <1>1 DEF IInv, PassFine
<1>15. NodesFine'
  <2>1. live' = {m_timeouts[i] : i \in Rest}
    BY <1>2, <1>6, <1>10, <1>12 DEF IInv, NodesFine
  <2>2. \A i \in Rest : Key(heap, m_timeouts, i)' = Key(heap, m_timeouts, i)
    BY <1>1, <1>6, <1>12 DEF Key
  <2> QED BY <1>1, <1>10, <2>1, <2>2 DEF IInv, NodesFine
<1>16. PendingFine'
  <2>1. \A t \in Pending : ticket[t].addr # p /\ ticket[t].addr \in Addrs
    BY <1>12 DEF IInv, PendingFine
  <2> QED BY <1>1, <1>6, <1>10, <2>1 DEF IInv, PendingFine
<1>17. TicketsFine'
  BY <1>1, <1>10 DEF IInv, TicketsFine
<1> QED BY <1>13, <1>14, <1>15, <1>16, <1>17 DEF IInv

\* Erasing what is in front of a node moves the others to the front.
LEMMA SuffixFacts ==
  ASSUME NEW S, NEW q \in Seq(S), NEW from \in 1 .. Len(q)
  PROVE  /\ SubSeq(q, from, Len(q)) \in Seq(S)
         /\ Len(SubSeq(q, from, Len(q))) = Len(q) - (from - 1)
         /\ \A i \in 1 .. Len(q) - (from - 1) : SubSeq(q, from, Len(q))[i] = q[(from - 1) + i]
BY SMT

LEMMA FinishStep ==
  ASSUME IInv, Finish
  PROVE  IInv'
<1>1. /\ pc = "fire" /\ pc' = "out" /\ m_iterator' = End /\ start' = 0 /\ fired' = FALSE
      /\ p' = (CHOOSE a \in Addrs : TRUE) /\ UNCHANGED <<now, live, ticket, ub>>
  BY DEF Finish
<1>2. m_timeouts \in Seq(Addrs) /\ Len(m_timeouts) \in Nat /\ m_iterator \in 0 .. Len(m_timeouts)
      /\ heap \in [Addrs -> Infos] /\ p' \in Addrs
  BY <1>1, ProgramAssumption, SMT DEF IInv, Typed
<1>3. PICK off \in 0 .. Len(m_timeouts) :
         /\ First = off + 1 /\ m_timeouts' \in Seq(Addrs)
         /\ Len(m_timeouts') = Len(m_timeouts) - off
         /\ \A i \in 1 .. Len(m_timeouts) - off : m_timeouts'[i] = m_timeouts[off + i]
  <2>1. CASE m_iterator = End
    <3>1. m_timeouts' = <<>>
      BY <2>1 DEF Finish, Iterating
    <3>2. First = Len(m_timeouts) + 1
      BY <1>1, <2>1 DEF First
    <3>3. m_timeouts' \in Seq(Addrs) /\ Len(m_timeouts') = Len(m_timeouts) - Len(m_timeouts)
          /\ 1 .. Len(m_timeouts) - Len(m_timeouts) = {} /\ Len(m_timeouts) \in 0 .. Len(m_timeouts)
      BY <1>2, <3>1, SMT
    <3> QED BY <3>2, <3>3
  <2>2. CASE m_iterator # End
    <3>1. m_timeouts' = SubSeq(m_timeouts, m_iterator, Len(m_timeouts))
      BY <2>2 DEF Finish, Iterating
    <3>2. First = m_iterator
      BY <1>1, <2>2 DEF First
    <3>3. m_iterator \in 1 .. Len(m_timeouts) /\ m_iterator - 1 \in 0 .. Len(m_timeouts)
          /\ m_iterator = (m_iterator - 1) + 1
      BY <1>2, <2>2, SMT DEF End
    <3> QED BY <1>2, <3>1, <3>2, <3>3, SuffixFacts
  <2> QED BY <2>1, <2>2
<1>4. PICK n \in Nat : n = Len(m_timeouts)
  BY <1>2
<1>5. First' = 1 /\ Rest' = 1 .. n - off /\ Whole' = 1 .. n - off
      /\ Rest = (off + 1) .. n /\ Whole = (off + 1) .. n
  BY <1>1, <1>3, <1>4 DEF First, Rest, Whole
<1>6. /\ \A i \in Rest' : off + i \in Rest /\ m_timeouts'[i] = m_timeouts[off + i]
      /\ \A i \in Rest : i - off \in Rest' /\ off + (i - off) = i /\ i \in 1 .. n
      /\ \A i, k \in Rest' : /\ i <= k => off + i <= off + k
                             /\ off + i = off + k => i = k
  <2>1. off \in Nat /\ off <= n
    BY <1>3, <1>4, SMT
  <2>2. \A i \in Rest' : off + i \in Rest
    BY <1>5, <2>1, SMT
  <2>3. \A i \in Rest : i - off \in Rest' /\ off + (i - off) = i /\ i \in 1 .. n
    BY <1>5, <2>1, SMT
  <2>4. \A i, k \in Rest' : /\ i <= k => off + i <= off + k
                            /\ off + i = off + k => i = k
    BY <1>5, <2>1, SMT
  <2> QED BY <1>3, <1>4, <1>5, <2>2, <2>3, <2>4
<1>7. live = {m_timeouts[i] : i \in Rest} /\ Pending' = Pending
  BY <1>1, <1>5 DEF IInv, NodesFine, Pending
<1>8. \A i \in Rest' : m_timeouts'[i] \in live
  BY <1>6, <1>7
<1>9. \A a \in Addrs : heap'[a] = IF a \in live THEN heap[a] ELSE Blank
  <2>1. Rest' = 1 .. Len(m_timeouts')
    BY <1>3, <1>4, <1>5
  <2> QED BY <1>8, <2>1 DEF Finish
<1>10. Typed'
  <2>1. Blank \in Infos
    BY DEF Blank, Infos
  <2>2. heap' \in [Addrs -> Infos]
    BY <1>2, <1>9, <2>1 DEF Finish
  <2>3. m_iterator' \in 0 .. Len(m_timeouts') /\ start' \in 0 .. MaxTime
    <3>1. Len(m_timeouts') \in Nat
      BY <1>3, SMT
    <3> QED BY <1>1, <3>1, ProgramAssumption, SMT DEF End
  <2> QED BY <1>1, <1>2, <1>3, <2>2, <2>3 DEF IInv, Typed
<1>11. PassFine'
  BY <1>1 DEF PassFine
<1>12. NodesFine'
  <2>1. \A i, k \in Rest' : m_timeouts'[i] = m_timeouts'[k] => i = k
    <3>1. \A i \in Rest : i \in 1 .. Len(m_timeouts)
      BY <1>4, <1>6
    <3> QED BY <1>6, <3>1 DEF IInv, NodesFine
  <2>2. live' = {m_timeouts'[i] : i \in Rest'}
    BY <1>1, <1>6, <1>7
  <2>3. \A i \in Rest' : Key(heap, m_timeouts, i)' = Key(heap, m_timeouts, off + i)
    <3>1. \A i \in Rest' : m_timeouts'[i] \in live /\ m_timeouts'[i] \in Addrs
      BY <1>8 DEF IInv, Typed
    <3> QED BY <1>6, <1>9, <3>1 DEF Key
  <2>4. \A i, k \in Rest' : i <= k => Key(heap, m_timeouts, i)' <= Key(heap, m_timeouts, k)'
    <3>1. SUFFICES ASSUME NEW i \in Rest', NEW k \in Rest', i <= k
                   PROVE  Key(heap, m_timeouts, i)' <= Key(heap, m_timeouts, k)'
      OBVIOUS
    <3>2. off + i \in Whole /\ off + k \in Whole /\ off + i <= off + k
      BY <1>5, <1>6, <3>1
    <3> QED BY <2>3, <3>2 DEF IInv, NodesFine
  <2>5. Rest' = 1 .. Len(m_timeouts') /\ Whole' = Rest'
    BY <1>3, <1>4, <1>5
  <2> QED BY <2>1, <2>2, <2>4, <2>5 DEF NodesFine
<1>13. PendingFine'
  <2>1. ASSUME NEW t \in Pending
        PROVE  /\ \E i \in Rest' : m_timeouts'[i] = ticket[t].addr
               /\ heap'[ticket[t].addr] = heap[ticket[t].addr]
    <3>1. PICK i \in Rest : m_timeouts[i] = ticket[t].addr
      BY DEF IInv, PendingFine
    <3>2. i - off \in Rest' /\ m_timeouts'[i - off] = ticket[t].addr
      BY <1>6, <3>1
    <3>3. ticket[t].addr \in live /\ live \subseteq Addrs
      BY <1>7, <3>1 DEF IInv, Typed
    <3> QED BY <1>9, <3>2, <3>3
  <2>2. ASSUME NEW i \in Rest' PROVE \E t \in Pending : ticket[t].addr = m_timeouts'[i]
    BY <1>6 DEF IInv, PendingFine
  <2> QED BY <1>1, <1>7, <2>1, <2>2 DEF IInv, PendingFine
<1>14. TicketsFine'
  BY <1>1, <1>7 DEF IInv, TicketsFine
<1> QED BY <1>10, <1>11, <1>12, <1>13, <1>14 DEF IInv

-----------------------------------------------------------------------------
(* The operations. *)

\* Whoever uses the manager finds it whole: between two passes, or in the first callback
\* of one, at the first node.
LEMMA UseFacts ==
  ASSUME OneCallback, IInv, NEW op, May(op)
  PROVE  /\ Len(m_timeouts) \in Nat /\ Whole = 1 .. Len(m_timeouts) /\ Rest = First .. Len(m_timeouts)
         /\ \/ pc = "out" /\ m_iterator = 0 /\ First = 1
            \/ pc = "callback" /\ m_iterator = 1 /\ First = 2 /\ ~fired /\ 1 <= Len(m_timeouts)
               /\ m_timeouts[1] = p
<1>1. Len(m_timeouts) \in Nat /\ (m_timeouts = <<>> <=> Len(m_timeouts) = 0)
  BY SMT DEF IInv, Typed
<1>2. pc = "out" \/ (pc = "callback" /\ ~fired)
  BY ProgramAssumption DEF OneCallback, May
<1>3. CASE pc = "out"
  BY <1>1, <1>3, SMT DEF IInv, PassFine, End, First, Whole, Rest
<1>4. CASE pc = "callback" /\ ~fired
  <2>1. m_iterator = 1 /\ m_timeouts # <<>> /\ m_timeouts[1] = p
    BY <1>4 DEF IInv, PassFine
  <2>2. 1 <= Len(m_timeouts)
    BY <1>1, <2>1, SMT
  <2>3. First = 2
    BY <1>4, <2>1, SMT DEF First, End
  <2> QED BY <1>1, <1>4, <2>1, <2>2, <2>3 DEF Whole, Rest
<1> QED BY <1>2, <1>3, <1>4

\* A new node goes in front of those behind it.
Inserted(new, S, q, g, e) ==
  /\ new \in Seq(S) /\ Len(new) = Len(q) + 1
  /\ \A i \in 1 .. g : new[i] = q[i]
  /\ new[g + 1] = e
  /\ \A i \in g + 1 .. Len(q) : new[i + 1] = q[i]

LEMMA InsertFacts ==
  ASSUME NEW S, NEW q \in Seq(S), NEW g \in 0 .. Len(q), NEW e \in S
  PROVE  Inserted(InsertAt(q, g + 1, e), S, q, g, e)
<1>1. g \in Nat /\ Len(q) \in Nat /\ g <= Len(q) /\ g + 1 \in 1 .. Len(q) + 1 /\ g \in 0 .. Len(q)
  BY SMT
<1>2. PICK front : front = SubSeq(q, 1, g)
  OBVIOUS
<1>3. PICK back : back = SubSeq(q, g + 1, Len(q))
  OBVIOUS
<1>4. /\ front \in Seq(S) /\ Len(front) = g
      /\ \A i \in 1 .. g : front[i] = q[i]
  BY <1>1, <1>2, SMT
<1>5. /\ back \in Seq(S) /\ Len(back) = Len(q) - g
      /\ \A i \in 1 .. Len(q) - g : back[i] = q[g + i]
  BY <1>1, <1>3, SMT
<1>6. PICK mid : mid = front \o <<e>>
  OBVIOUS
<1>7. /\ mid \in Seq(S) /\ Len(mid) = g + 1
      /\ \A i \in 1 .. g : mid[i] = q[i]
      /\ mid[g + 1] = e
  BY <1>1, <1>4, <1>6, SMT
<1>8. PICK all : all = mid \o back
  OBVIOUS
<1>9. /\ all \in Seq(S) /\ Len(all) = Len(q) + 1
      /\ \A i \in 1 .. g + 1 : all[i] = mid[i]
      /\ \A i \in 1 .. Len(q) - g : all[(g + 1) + i] = q[g + i]
  BY <1>1, <1>5, <1>7, <1>8, SMT
<1>10. ASSUME NEW i \in g + 1 .. Len(q) PROVE all[i + 1] = q[i]
  <2>1. i - g \in 1 .. Len(q) - g /\ (g + 1) + (i - g) = i + 1 /\ g + (i - g) = i
    BY <1>1, SMT
  <2> QED BY <1>9, <2>1
<1>11. InsertAt(q, g + 1, e) = all
  <2>1. (g + 1) - 1 = g
    BY <1>1, SMT
  <2>2. SubSeq(q, 1, (g + 1) - 1) = front
    BY <1>2, <2>1
  <2>3. InsertAt(q, g + 1, e) = (front \o <<e>>) \o back
    BY <1>3, <2>2 DEF InsertAt
  <2> QED BY <1>6, <1>8, <2>3
<1>12. g + 1 \in 1 .. g + 1 /\ \A i \in 1 .. g : i \in 1 .. g + 1
  BY <1>1, SMT
<1>13. Inserted(all, S, q, g, e)
  BY <1>7, <1>9, <1>10, <1>12 DEF Inserted
<1> QED BY <1>11, <1>13

\* Where each old position goes when one is put behind position g.
LEMMA InsertPlaces ==
  ASSUME NEW n \in Nat, NEW g \in 0 .. n
  PROVE  \E up \in [1 .. n -> 1 .. n + 1] :
           /\ \A i \in 1 .. n : up[i] = IF i <= g THEN i ELSE i + 1
           /\ \A i, k \in 1 .. n : up[i] <= up[k] => i <= k
           /\ \A i \in 1 .. n : up[i] <= g + 1 => i <= g
           /\ \A i \in 1 .. n : g + 1 <= up[i] => g + 1 <= i
           /\ \A k \in 1 .. n + 1 : k = g + 1 \/ \E i \in 1 .. n : up[i] = k
<1>1. PICK up : up = [i \in 1 .. n |-> IF i <= g THEN i ELSE i + 1]
  OBVIOUS
<1>2. up \in [1 .. n -> 1 .. n + 1]
  BY <1>1, SMT
<1>3. \A i \in 1 .. n : up[i] = IF i <= g THEN i ELSE i + 1
  BY <1>1
<1>4. /\ \A i, k \in 1 .. n : up[i] <= up[k] => i <= k
      /\ \A i \in 1 .. n : up[i] <= g + 1 => i <= g
      /\ \A i \in 1 .. n : g + 1 <= up[i] => g + 1 <= i
  BY <1>3, SMT
<1>5. ASSUME NEW k \in 1 .. n + 1, k # g + 1 PROVE \E i \in 1 .. n : up[i] = k
  <2>1. CASE k <= g
    <3>1. k \in 1 .. n /\ up[k] = k
      BY <1>3, <2>1, SMT
    <3> QED BY <3>1
  <2>2. CASE ~(k <= g)
    <3>1. k - 1 \in 1 .. n /\ ~(k - 1 <= g) /\ (k - 1) + 1 = k
      BY <1>5, <2>2, SMT
    <3>2. up[k - 1] = k
      BY <1>3, <3>1
    <3> QED BY <3>1, <3>2
  <2> QED BY <2>1, <2>2
<1> QED BY <1>2, <1>3, <1>4, <1>5

LEMMA ScheduleStep ==
  ASSUME OneCallback, IInv, NEW delta \in Deltas, NEW receiver \in Receivers,
         scheduleTimeout(delta, receiver)
  PROVE  IInv'
<1>1. May("schedule") /\ UNCHANGED <<now, pc, start, p, fired, ub>>
  BY DEF scheduleTimeout, firing
<1>2. PICK t \in Tickets, a \in Addrs \ live :
        /\ ticket[t].status = "unused"
        /\ \A u \in Tickets : ticket[u].status = "unused" => t <= u
        /\ heap' = [heap EXCEPT ![a] = [firets |-> now + delta, receiver |-> receiver]]
        /\ live' = live \cup {a}
        /\ ticket' = [ticket EXCEPT ![t] = [status |-> "pending", addr |-> a,
                                            due |-> now + delta, receiver |-> receiver]]
        /\ \E g \in Gaps(heap', m_timeouts, now + delta) :
             /\ m_timeouts' = InsertAt(m_timeouts, g + 1, a)
             /\ m_iterator' = (IF m_iterator > g THEN m_iterator + 1 ELSE m_iterator)
  BY DEF scheduleTimeout
<1>3. PICK g \in Gaps(heap', m_timeouts, now + delta) :
        /\ m_timeouts' = InsertAt(m_timeouts, g + 1, a)
        /\ m_iterator' = (IF m_iterator > g THEN m_iterator + 1 ELSE m_iterator)
  BY <1>2
<1>4. PICK n \in Nat : n = Len(m_timeouts)
  BY SMT DEF IInv, Typed
<1>5. PICK key \in Nat : key = now + delta
  BY ProgramAssumption, SMT DEF IInv, Typed
<1>6. now <= key
  BY <1>5, ProgramAssumption, SMT DEF IInv, Typed
<1>7. g \in 0 .. n /\ (g > 0 => Key(heap', m_timeouts, g) <= key)
      /\ (g < n => key < Key(heap', m_timeouts, g + 1))
  BY <1>3, <1>4, <1>5 DEF Gaps
<1>8. /\ Whole = 1 .. n /\ Rest = First .. n
      /\ \/ pc = "out" /\ m_iterator = 0 /\ First = 1
         \/ pc = "callback" /\ m_iterator = 1 /\ First = 2 /\ ~fired /\ 1 <= n /\ m_timeouts[1] = p
  BY <1>1, <1>4, UseFacts
<1>9. /\ m_timeouts \in Seq(Addrs) /\ heap \in [Addrs -> Infos] /\ live \subseteq Addrs
      /\ a \in Addrs /\ a \notin live /\ t \in Tickets
      /\ ticket \in [Tickets -> [status : Statuses, addr : Addrs, due : Nat,
                                 receiver : Receivers \cup {Nobody}]]
  BY DEF IInv, Typed
<1>10. \A i \in 1 .. n : m_timeouts[i] \in live /\ m_timeouts[i] \in Addrs /\ m_timeouts[i] # a
  BY <1>8, <1>9 DEF IInv, NodesFine
<1>11. /\ heap' \in [Addrs -> Infos]
       /\ heap'[a].firets = key /\ heap'[a].receiver = receiver
       /\ \A b \in Addrs : b # a => heap'[b] = heap[b]
  <2>1. [firets |-> key, receiver |-> receiver] \in Infos
    BY SMT DEF Infos
  <2> QED BY <1>2, <1>5, <1>9, <2>1
<1>12. /\ m_timeouts' \in Seq(Addrs) /\ Len(m_timeouts') = n + 1
       /\ \A i \in 1 .. g : m_timeouts'[i] = m_timeouts[i]
       /\ m_timeouts'[g + 1] = a
       /\ \A i \in g + 1 .. n : m_timeouts'[i + 1] = m_timeouts[i]
  <2>1. PICK q \in Seq(Addrs) : q = m_timeouts
    BY <1>9
  <2>2. g \in 0 .. Len(q)
    BY <1>4, <1>7, <2>1
  <2>4. a \in Addrs
    BY <1>9
  <2>3. Inserted(InsertAt(q, g + 1, a), Addrs, q, g, a)
    BY <2>1, <2>2, <2>4, InsertFacts
  <2> QED BY <1>3, <1>4, <2>1, <2>3 DEF Inserted
<1>13. PICK up \in [1 .. n -> 1 .. n + 1] :
         /\ \A i \in 1 .. n : up[i] = IF i <= g THEN i ELSE i + 1
         /\ \A i, k \in 1 .. n : up[i] <= up[k] => i <= k
         /\ \A i \in 1 .. n : up[i] <= g + 1 => i <= g
         /\ \A i \in 1 .. n : g + 1 <= up[i] => g + 1 <= i
         /\ \A k \in 1 .. n + 1 : k = g + 1 \/ \E i \in 1 .. n : up[i] = k
  <2>1. g \in 0 .. n
    BY <1>7
  <2> QED BY <2>1, InsertPlaces
<1>14. \A i \in 1 .. n : m_timeouts'[up[i]] = m_timeouts[i]
  <2>1. SUFFICES ASSUME NEW i \in 1 .. n PROVE m_timeouts'[up[i]] = m_timeouts[i]
    OBVIOUS
  <2>2. i \in 1 .. g \/ (i \in g + 1 .. n /\ ~(i <= g))
    BY <1>7, SMT
  <2>3. i \in 1 .. g => i <= g
    BY <1>7, SMT
  <2> QED BY <1>12, <1>13, <2>2, <2>3
<1>15. First <= g + 1
  <2>1. CASE pc = "out"
    BY <1>7, <1>8, <2>1, SMT
  <2>2. CASE pc = "callback" /\ g = 0
    <3>1. key < heap[p].firets
      <4>1. 0 < n /\ 0 + 1 = 1
        BY <1>8, <2>2, SMT
      <4>2. 1 \in 1 .. n
        BY <4>1, SMT
      <4> QED BY <1>7, <1>8, <1>10, <1>11, <2>2, <4>1, <4>2 DEF Key
    <3>2. heap[p].firets <= start /\ start <= now /\ heap[p].firets \in Nat /\ start \in Nat /\ now \in Nat
      <4>1. p \in Addrs /\ start \in Nat /\ now \in Nat
        BY SMT DEF IInv, Typed
      <4>2. heap[p] \in Infos
        BY <1>9, <4>1
      <4> QED BY <2>2, <4>1, <4>2 DEF IInv, PassFine, Infos
    <3> QED BY <1>6, <3>1, <3>2, SMT
  <2>3. CASE pc = "callback" /\ g # 0
    BY <1>7, <1>8, <2>3, SMT
  <2> QED BY <1>8, <2>1, <2>2, <2>3
<1>16. m_iterator' = m_iterator
  BY <1>3, <1>7, <1>8, <1>15, SMT
<1>17. First' = First /\ Whole' = 1 .. n + 1 /\ Rest' = First .. n + 1
  <2>1. First' = First
    BY <1>1, <1>8, <1>16, SMT DEF First, End
  <2> QED BY <1>1, <1>8, <1>12, <1>16, <2>1 DEF Whole, Rest
<1>18. First \in 1 .. 2
  BY <1>8, SMT
<1>19. /\ g + 1 \in Rest' /\ \A i \in Rest : i \in 1 .. n /\ up[i] \in Rest'
       /\ \A i \in 1 .. n : up[i] \in Rest' => i \in Rest
  <2>1. g + 1 \in Rest'
    BY <1>7, <1>15, <1>17, <1>18, SMT
  <2>2. ASSUME NEW i \in Rest PROVE i \in 1 .. n /\ up[i] \in Rest'
    <3>1. i \in 1 .. n /\ First <= i
      BY <1>8, <1>18, SMT
    <3>2. up[i] \in 1 .. n + 1 /\ (up[i] = i \/ up[i] = i + 1)
      BY <1>13, <3>1
    <3> QED BY <1>17, <1>18, <3>1, <3>2, SMT
  <2>3. ASSUME NEW i \in 1 .. n, up[i] \in Rest' PROVE i \in Rest
    <3>1. CASE i <= g
      <4>1. up[i] = i
        BY <1>13, <3>1
      <4> QED BY <1>8, <1>17, <1>18, <2>3, <4>1, SMT
    <3>2. CASE ~(i <= g)
      BY <1>7, <1>8, <1>15, <1>18, <3>2, SMT
    <3> QED BY <3>1, <3>2
  <2> QED BY <2>1, <2>2, <2>3
<1>20. \A j \in 1 .. n + 1 : j = g + 1 \/ \E i \in 1 .. n : j = up[i]
  BY <1>13
<1>21. \A i \in 1 .. n : Key(heap', m_timeouts', up[i]) = Key(heap, m_timeouts, i)
  BY <1>10, <1>11, <1>14 DEF Key
<1>22. Key(heap', m_timeouts', g + 1) = key
  BY <1>11, <1>12 DEF Key
<1>23. \A i \in 1 .. n : Key(heap, m_timeouts, i) \in Nat
  BY <1>9, <1>10 DEF Key, Infos
<1>24. Typed'
  <2>1. ticket' \in [Tickets -> [status : Statuses, addr : Addrs, due : Nat,
                                 receiver : Receivers \cup {Nobody}]]
    <3>1. [status |-> "pending", addr |-> a, due |-> key, receiver |-> receiver]
             \in [status : Statuses, addr : Addrs, due : Nat, receiver : Receivers \cup {Nobody}]
      BY <1>9 DEF Statuses
    <3> QED BY <1>2, <1>5, <1>9, <3>1
  <2>2. m_iterator' \in 0 .. Len(m_timeouts')
    BY <1>8, <1>12, <1>16, SMT
  <2> QED BY <1>1, <1>2, <1>9, <1>11, <1>12, <2>1, <2>2 DEF IInv, Typed
<1>25. PassFine'
  <2>1. m_timeouts' # <<>>
    <3>1. Len(m_timeouts') # 0
      BY <1>12, SMT
    <3> QED BY <3>1, SMT
  <2>2. pc = "callback" => m_timeouts'[1] = p /\ heap'[p] = heap[p]
    <3>1. SUFFICES ASSUME pc = "callback" PROVE m_timeouts'[1] = p /\ heap'[p] = heap[p]
      OBVIOUS
    <3>2. 1 \in 1 .. g /\ 1 \in 1 .. n
      BY <1>7, <1>8, <1>15, <3>1, SMT
    <3> QED BY <1>8, <1>10, <1>11, <1>12, <3>1, <3>2
  <2> QED BY <1>1, <1>8, <1>16, <2>1, <2>2 DEF IInv, PassFine
<1>26. NodesFine'
  <2>4. ASSUME NEW j \in 1 .. n + 1, j # g + 1 PROVE m_timeouts'[j] # a
    <3>1. PICK i \in 1 .. n : j = up[i]
      BY <1>20, <2>4
    <3> QED BY <1>10, <1>14, <3>1
  <2>1. ASSUME NEW j \in 1 .. n + 1, NEW l \in 1 .. n + 1, m_timeouts'[j] = m_timeouts'[l] PROVE j = l
    <3>1. CASE j = g + 1 \/ l = g + 1
      BY <1>12, <2>1, <2>4, <3>1
    <3>2. CASE j # g + 1 /\ l # g + 1
      <4>1. PICK i \in 1 .. n, k \in 1 .. n : j = up[i] /\ l = up[k]
        BY <1>20, <3>2
      <4>2. i = k
        BY <1>4, <1>14, <2>1, <4>1 DEF IInv, NodesFine
      <4> QED BY <4>1, <4>2
    <3> QED BY <3>1, <3>2
  <2>2. live' = {m_timeouts'[j] : j \in 1 .. n + 1}
    <3>1. g + 1 \in 1 .. n + 1
      BY <1>7, SMT
    <3>2. live = {m_timeouts[i] : i \in 1 .. n}
      BY <1>8 DEF IInv, NodesFine
    <3>3. \A i \in 1 .. n : up[i] \in 1 .. n + 1
      BY <1>13
    <3>4. ASSUME NEW j \in 1 .. n + 1 PROVE m_timeouts'[j] \in live \cup {a}
      <4>1. CASE j # g + 1
        <5>1. PICK i \in 1 .. n : j = up[i]
          BY <1>20, <4>1
        <5> QED BY <1>10, <1>14, <5>1
      <4> QED BY <1>12, <4>1
    <3>5. ASSUME NEW b \in live \cup {a} PROVE \E j \in 1 .. n + 1 : m_timeouts'[j] = b
      <4>1. CASE b \in live
        <5>1. PICK i \in 1 .. n : m_timeouts[i] = b
          BY <3>2, <4>1
        <5> QED BY <1>14, <3>3, <5>1
      <4> QED BY <1>12, <3>1, <4>1
    <3> QED BY <1>2, <3>4, <3>5
  <2>3. ASSUME NEW j \in 1 .. n + 1, NEW l \in 1 .. n + 1, j <= l
        PROVE  Key(heap', m_timeouts', j) <= Key(heap', m_timeouts', l)
    <3>1. \A i, k \in 1 .. n : i <= k => Key(heap, m_timeouts, i) <= Key(heap, m_timeouts, k)
      BY <1>8 DEF IInv, NodesFine
    <3>2. CASE j = g + 1 /\ l = g + 1
      BY <1>5, <1>22, <3>2, SMT
    <3>3. CASE j = g + 1 /\ l # g + 1
      <4>1. PICK k \in 1 .. n : l = up[k]
        BY <1>20, <3>3
      <4>2. g + 1 <= k
        BY <1>13, <2>3, <3>3, <4>1
      <4>3. g < n /\ g + 1 \in 1 .. n
        BY <1>7, <4>2, SMT
      <4>4. key < Key(heap, m_timeouts, g + 1)
        BY <1>7, <1>10, <1>11, <4>3 DEF Key
      <4>5. Key(heap, m_timeouts, g + 1) <= Key(heap, m_timeouts, k)
        BY <3>1, <4>2, <4>3
      <4>6. key <= Key(heap, m_timeouts, k)
        BY <1>5, <1>23, <4>3, <4>4, <4>5, SMT
      <4> QED BY <1>21, <1>22, <3>3, <4>1, <4>6
    <3>4. CASE j # g + 1 /\ l = g + 1
      <4>1. PICK i \in 1 .. n : j = up[i]
        BY <1>20, <3>4
      <4>2. i <= g
        BY <1>13, <2>3, <3>4, <4>1
      <4>3. g > 0 /\ g \in 1 .. n
        BY <1>7, <4>2, SMT
      <4>4. Key(heap, m_timeouts, g) <= key
        BY <1>7, <1>10, <1>11, <4>3 DEF Key
      <4>5. Key(heap, m_timeouts, i) <= Key(heap, m_timeouts, g)
        BY <3>1, <4>2, <4>3
      <4>6. Key(heap, m_timeouts, i) <= key
        BY <1>5, <1>23, <4>3, <4>4, <4>5, SMT
      <4> QED BY <1>21, <1>22, <3>4, <4>1, <4>6
    <3>5. CASE j # g + 1 /\ l # g + 1
      <4>1. PICK i \in 1 .. n, k \in 1 .. n : j = up[i] /\ l = up[k]
        BY <1>20, <3>5
      <4>2. i <= k
        BY <1>13, <2>3, <4>1
      <4> QED BY <1>21, <3>1, <4>1, <4>2
    <3> QED BY <3>2, <3>3, <3>4, <3>5
  <2> QED BY <1>12, <1>17, <2>1, <2>2, <2>3 DEF NodesFine, Key
<1>27. /\ \A u \in Tickets : u # t => ticket'[u] = ticket[u]
       /\ ticket'[t].status = "pending" /\ ticket'[t].addr = a /\ ticket'[t].due = key
       /\ ticket'[t].receiver = receiver
  BY <1>2, <1>5, <1>9
<1>28. Pending' = Pending \cup {t} /\ t \notin Pending
  BY <1>2, <1>27 DEF Pending
<1>29. \A u \in Pending : ticket[u].addr \in live /\ u # t /\ u \in Tickets
  <2>1. \A u \in Pending : \E i \in 1 .. n : m_timeouts[i] = ticket[u].addr
    BY <1>19 DEF IInv, PendingFine
  <2> QED BY <1>10, <1>28, <2>1 DEF Pending
<1>30. PendingFine'
  <2>1. ASSUME NEW u \in Pending
        PROVE  /\ \E j \in Rest' : m_timeouts'[j] = ticket'[u].addr
               /\ heap'[ticket'[u].addr].firets = ticket'[u].due
               /\ heap'[ticket'[u].addr].receiver = ticket'[u].receiver
    <3>1. PICK i \in Rest : m_timeouts[i] = ticket[u].addr
      BY DEF IInv, PendingFine
    <3>2. up[i] \in Rest' /\ m_timeouts'[up[i]] = ticket[u].addr
      BY <1>14, <1>19, <3>1
    <3>3. ticket[u].addr # a /\ ticket[u].addr \in Addrs
      BY <1>9, <1>29
    <3> QED BY <1>11, <1>27, <1>29, <3>2, <3>3 DEF IInv, PendingFine
  <2>2. /\ \E j \in Rest' : m_timeouts'[j] = ticket'[t].addr
        /\ heap'[ticket'[t].addr].firets = ticket'[t].due
        /\ heap'[ticket'[t].addr].receiver = ticket'[t].receiver
    BY <1>11, <1>12, <1>19, <1>27
  <2>3. ASSUME NEW j \in Rest' PROVE \E u \in Pending' : ticket'[u].addr = m_timeouts'[j]
    <3>1. CASE j = g + 1
      BY <1>12, <1>27, <1>28, <3>1
    <3>2. CASE j # g + 1
      <4>1. j \in 1 .. n + 1
        BY <1>17, <1>18, SMT
      <4>2. PICK i \in 1 .. n : j = up[i]
        BY <1>20, <3>2, <4>1
      <4>3. PICK u \in Pending : ticket[u].addr = m_timeouts[i]
        BY <1>19, <4>2 DEF IInv, PendingFine
      <4> QED BY <1>14, <1>27, <1>28, <1>29, <4>2, <4>3
    <3> QED BY <3>1, <3>2
  <2> QED BY <1>28, <2>1, <2>2, <2>3 DEF PendingFine
<1>31. TicketsFine'
  <2>1. \A u, v \in Tickets : u \in Nat /\ v \in Nat
    BY ProgramAssumption
  <2>2. \A u \in Tickets : ticket[u].status # "unused" => u < t
    BY <1>2 DEF IInv, TicketsFine
  <2>3. ASSUME NEW v \in Pending', NEW u \in Tickets,
               ticket'[u].status # "unused" /\ ticket'[u].addr = ticket'[v].addr
        PROVE  u <= v
    <3>1. CASE v = t /\ u = t
      BY <2>1, <3>1, SMT
    <3>2. CASE v = t /\ u # t
      <4>1. u < t
        BY <1>27, <2>2, <2>3, <3>2
      <4> QED BY <2>1, <3>2, <4>1, SMT
    <3>3. CASE v # t
      <4>1. v \in Pending /\ ticket'[v] = ticket[v] /\ ticket[v].addr # a
        BY <1>9, <1>27, <1>28, <1>29, <3>3
      <4>2. u # t
        BY <1>27, <2>3, <4>1
      <4> QED BY <1>27, <2>3, <4>1, <4>2 DEF IInv, TicketsFine
    <3> QED BY <3>1, <3>2, <3>3
  <2>4. ASSUME NEW u \in Tickets, NEW v \in Tickets,
               ticket'[u].status # "unused", ticket'[v].status = "unused"
        PROVE  u < v
    <3>1. v # t /\ ticket[v].status = "unused"
      BY <1>27, <2>4
    <3>2. CASE u = t
      <4>1. t <= v
        BY <1>2, <3>1
      <4> QED BY <2>1, <3>1, <3>2, <4>1, SMT
    <3>3. CASE u # t
      BY <1>27, <2>4, <3>1, <3>3 DEF IInv, TicketsFine
    <3> QED BY <3>2, <3>3
  <2>5. \A u \in Tickets : ticket'[u].status # "zombie"
    BY <1>27 DEF IInv, TicketsFine
  <2> QED BY <2>3, <2>4, <2>5 DEF TicketsFine
<1> QED BY <1>24, <1>25, <1>26, <1>30, <1>31 DEF IInv

\* In a multiset in order, find() of the first key ends at the first node.
LEMMA FindsFirst ==
  ASSUME NEW h, NEW q, NEW n \in Nat, n = Len(q), NEW k \in Nat, 1 <= n, Key(h, q, 1) = k,
         \A i \in 1 .. n : Key(h, q, i) \in Nat /\ k <= Key(h, q, i),
         NEW f \in Finds(h, q, k)
  PROVE  f = 1
<1>1. PICK i \in 1 .. n + 1 : /\ i > 1 => Key(h, q, i - 1) < k
                              /\ f = IF i > n \/ Key(h, q, i) # k THEN End ELSE i
  BY DEF Finds, LowerBounds
<1>2. ~(i > 1)
  <2>1. SUFFICES ASSUME i > 1 PROVE FALSE
    OBVIOUS
  <2>2. i - 1 \in 1 .. n
    BY <2>1, SMT
  <2>3. PICK key \in Nat : key = Key(h, q, i - 1)
    BY <2>2
  <2>4. key < k /\ k <= key
    BY <1>1, <2>1, <2>2, <2>3
  <2> QED BY <2>4, SMT
<1>3. i = 1 /\ ~(i > n)
  BY <1>2, SMT
<1> QED BY <1>1, <1>3

\* Without some of the nodes that are ahead, and without their timeouts, the invariant holds.
Leaves(hit, m, at) ==
  /\ hit \subseteq Rest /\ m \in Nat
  /\ at \in [1 .. m -> (1 .. Len(m_timeouts)) \ hit]
  /\ {at[l] : l \in 1 .. m} = (1 .. Len(m_timeouts)) \ hit
  /\ \A l, k \in 1 .. m : l < k => at[l] < at[k]
  /\ m_timeouts' = [l \in 1 .. m |-> m_timeouts[at[l]]]

LEMMA LeavesFacts ==
  ASSUME OneCallback, IInv, NEW op, May(op), NEW hit, NEW m, NEW at, Leaves(hit, m, at)
  PROVE  /\ m_timeouts' \in Seq(Addrs) /\ Len(m_timeouts') = m /\ m \in Nat
         /\ \A l \in 1 .. m : /\ at[l] \in 1 .. Len(m_timeouts) /\ at[l] \notin hit
                              /\ m_timeouts'[l] = m_timeouts[at[l]]
         /\ \A i \in 1 .. Len(m_timeouts) : i \notin hit => \E l \in 1 .. m : at[l] = i
         /\ \A l, k \in 1 .. m : l <= k => at[l] <= at[k]
         /\ \A l, k \in 1 .. m : at[l] = at[k] => l = k
         /\ \A l \in 1 .. m : (First <= l) = (First <= at[l])
         /\ pc = "callback" => 1 <= m /\ at[1] = 1
<1>1. m \in Nat /\ at \in [1 .. m -> (1 .. Len(m_timeouts)) \ hit]
      /\ {at[l] : l \in 1 .. m} = (1 .. Len(m_timeouts)) \ hit /\ hit \subseteq Rest
      /\ m_timeouts' = [l \in 1 .. m |-> m_timeouts[at[l]]]
      /\ \A l, k \in 1 .. m : l < k => at[l] < at[k]
  BY DEF Leaves
<1>2. PICK n \in Nat : n = Len(m_timeouts)
  BY SMT DEF IInv, Typed
<1>3. \A l \in 1 .. m : at[l] \in 1 .. n /\ at[l] \notin hit
  BY <1>1, <1>2
<1>4. \A l \in 1 .. m : at[l] \in Int
  BY <1>3, SMT
<1>5. /\ \A l, k \in 1 .. m : l <= k => at[l] <= at[k]
      /\ \A l, k \in 1 .. m : at[l] = at[k] => l = k
  <2>1. SUFFICES ASSUME NEW l \in 1 .. m, NEW k \in 1 .. m
                 PROVE  (l <= k => at[l] <= at[k]) /\ (at[l] = at[k] => l = k)
    OBVIOUS
  <2>2. l < k \/ k < l \/ l = k
    BY <1>1, SMT
  <2>3. (l < k => at[l] < at[k]) /\ (k < l => at[k] < at[l])
    BY <1>1
  <2>4. PICK x \in Int, y \in Int : x = at[l] /\ y = at[k]
    BY <1>4
  <2>5. (l < k => x < y) /\ (k < l => y < x) /\ l \in Int /\ k \in Int
    BY <2>3, <2>4, SMT
  <2>6. (l <= k => x <= y \/ l = k) /\ (x = y => l = k)
    BY <2>2, <2>5, SMT
  <2>7. l = k => at[l] <= at[k]
    BY <1>4, SMT
  <2> QED BY <2>4, <2>6, <2>7
<1>6. \A i \in 1 .. n : m_timeouts[i] \in Addrs
  BY <1>2, SMT DEF IInv, Typed
<1>7. m_timeouts' \in Seq(Addrs) /\ Len(m_timeouts') = m
  <2>1. m_timeouts' \in [1 .. m -> Addrs]
    BY <1>1, <1>3, <1>6
  <2> QED BY <1>1, <2>1, SMT
<1>8. \A l \in 1 .. m : m_timeouts'[l] = m_timeouts[at[l]]
  BY <1>1
<1>9. /\ Rest = First .. n
      /\ \/ pc = "out" /\ First = 1
         \/ pc = "callback" /\ First = 2 /\ 1 <= n
  BY <1>2, UseFacts
<1>10. pc = "callback" => 1 <= m /\ at[1] = 1
  <2>1. SUFFICES ASSUME pc = "callback" PROVE 1 <= m /\ at[1] = 1
    OBVIOUS
  <2>2. First = 2 /\ 1 \in 1 .. n /\ 1 \notin Rest
    BY <1>9, <2>1, SMT
  <2>3. PICK l \in 1 .. m : at[l] = 1
    BY <1>1, <1>2, <2>2
  <2>4. 1 \in 1 .. m /\ 1 <= m /\ 1 <= l
    BY <1>1, <2>3, SMT
  <2>5. at[1] <= 1 /\ at[1] \in 1 .. n
    BY <1>3, <1>5, <2>3, <2>4
  <2> QED BY <2>4, <2>5, SMT
<1>11. ASSUME NEW l \in 1 .. m PROVE (First <= l) = (First <= at[l])
  <2>1. CASE pc = "out"
    <3>1. First <= l /\ First <= at[l]
      BY <1>1, <1>3, <1>9, <2>1, SMT
    <3> QED BY <3>1
  <2>2. CASE pc = "callback"
    <3>1. First = 2 /\ 1 \in 1 .. m /\ at[1] = 1 /\ l \in Nat /\ 1 <= l
      BY <1>1, <1>9, <1>10, <2>2, SMT
    <3>2. l = 1 <=> at[l] = 1
      BY <1>5, <3>1
    <3>3. at[l] \in 1 .. n
      BY <1>3
    <3>4. First <= l <=> First <= at[l]
      BY <3>1, <3>2, <3>3, SMT
    <3> QED BY <3>4
  <2> QED BY <1>9, <2>1, <2>2
<1> QED BY <1>1, <1>2, <1>3, <1>5, <1>7, <1>8, <1>10, <1>11

LEMMA LeaveStep ==
  ASSUME OneCallback, IInv, NEW op, May(op), NEW hit, NEW m, NEW at, Leaves(hit, m, at),
         m_iterator' = m_iterator,
         NEW how \in Freed, Delete({m_timeouts[i] : i \in hit}, how),
         Mark({t \in Pending : \E i \in hit : ticket[t].addr = m_timeouts[i]}, "dropped"),
         UNCHANGED <<now, firing, ub>>
  PROVE  IInv'
<1>1. /\ m_timeouts' \in Seq(Addrs) /\ Len(m_timeouts') = m /\ m \in Nat
      /\ \A l \in 1 .. m : /\ at[l] \in 1 .. Len(m_timeouts) /\ at[l] \notin hit
                           /\ m_timeouts'[l] = m_timeouts[at[l]]
      /\ \A i \in 1 .. Len(m_timeouts) : i \notin hit => \E l \in 1 .. m : at[l] = i
      /\ \A l, k \in 1 .. m : l <= k => at[l] <= at[k]
      /\ \A l, k \in 1 .. m : at[l] = at[k] => l = k
      /\ \A l \in 1 .. m : (First <= l) = (First <= at[l])
      /\ pc = "callback" => 1 <= m /\ at[1] = 1
  BY LeavesFacts
<1>2. PICK n \in Nat : n = Len(m_timeouts)
  BY SMT DEF IInv, Typed
<1>3. UNCHANGED <<now, pc, start, p, fired, ub>>
  BY DEF firing
<1>4. /\ Whole = 1 .. n /\ Rest = First .. n
      /\ \/ pc = "out" /\ m_iterator = 0 /\ First = 1
         \/ pc = "callback" /\ m_iterator = 1 /\ First = 2 /\ ~fired /\ 1 <= n /\ m_timeouts[1] = p
  BY <1>2, UseFacts
<1>5. hit \subseteq Rest /\ \A i \in Rest : i \in 1 .. n
  BY <1>2, <1>4, SMT DEF Leaves
<1>6. \A i, k \in 1 .. n : m_timeouts[i] = m_timeouts[k] => i = k
  BY <1>2 DEF IInv, NodesFine
<1>7. PICK gone \in SUBSET Addrs : gone = {m_timeouts[i] : i \in hit}
  <2>1. \A i \in 1 .. n : m_timeouts[i] \in Addrs
    BY <1>2, SMT DEF IInv, Typed
  <2> QED BY <1>5, <2>1
<1>8. heap' \in [Addrs -> Infos] /\ live' = live \ gone /\ \A a \in Addrs \ gone : heap'[a] = heap[a]
  BY <1>7, DeleteFacts
<1>9. \A i \in 1 .. n : /\ m_timeouts[i] \in Addrs /\ m_timeouts[i] \in live
                        /\ (i \in hit) = (m_timeouts[i] \in gone)
  <2>1. \A i \in 1 .. n : m_timeouts[i] \in Addrs
    BY <1>2, SMT DEF IInv, Typed
  <2>2. \A i \in 1 .. n : m_timeouts[i] \in live
    BY <1>4 DEF IInv, NodesFine
  <2> QED BY <1>5, <1>6, <1>7, <2>1, <2>2
<1>10. First' = First /\ Whole' = 1 .. m /\ Rest' = First .. m
  <2>1. First' = First
    BY <1>1, <1>3, <1>4, SMT DEF First, End
  <2> QED BY <1>1, <1>3, <1>4, <2>1 DEF Whole, Rest
<1>11. /\ \A l \in Rest' : l \in 1 .. m /\ at[l] \in Rest /\ at[l] \notin hit
       /\ \A i \in Rest : i \notin hit => \E l \in Rest' : at[l] = i
  <2>1. First \in 1 .. 2
    BY <1>4, SMT
  <2>2. \A l \in 1 .. m : (l \in Rest') = (First <= l)
    BY <1>1, <1>10, <2>1, SMT
  <2>3. \A i \in 1 .. n : (i \in Rest) = (First <= i)
    BY <1>4, <2>1, SMT
  <2>4. \A l \in Rest' : l \in 1 .. m
    BY <1>1, <1>10, <2>1, SMT
  <2>5. ASSUME NEW l \in Rest' PROVE at[l] \in Rest /\ at[l] \notin hit
    <3>1. l \in 1 .. m /\ First <= l
      BY <2>2, <2>4
    <3>2. at[l] \in 1 .. n /\ at[l] \notin hit /\ (First <= at[l]) = (First <= l)
      BY <1>1, <1>2, <3>1
    <3> QED BY <2>3, <3>1, <3>2
  <2>6. ASSUME NEW i \in Rest, i \notin hit PROVE \E l \in Rest' : at[l] = i
    <3>1. i \in 1 .. n /\ First <= i
      BY <1>5, <2>3
    <3>2. PICK l \in 1 .. m : at[l] = i
      BY <1>1, <1>2, <2>6, <3>1
    <3>3. First <= l
      BY <1>1, <3>1, <3>2
    <3> QED BY <2>2, <3>2, <3>3
  <2> QED BY <2>4, <2>5, <2>6
<1>12. \A l \in 1 .. m : Key(heap, m_timeouts, l)' = Key(heap, m_timeouts, at[l])
  BY <1>1, <1>2, <1>8, <1>9 DEF Key
<1>13. /\ ticket \in [Tickets -> [status : Statuses, addr : Addrs, due : Nat,
                                  receiver : Receivers \cup {Nobody}]]
       /\ \A u \in Tickets : /\ ticket'[u].addr = ticket[u].addr /\ ticket'[u].due = ticket[u].due
                             /\ ticket'[u].receiver = ticket[u].receiver
                             /\ ticket'[u].status = IF u \in Pending /\ ticket[u].addr \in gone
                                                    THEN "dropped" ELSE ticket[u].status
       /\ ticket' \in [Tickets -> [status : Statuses, addr : Addrs, due : Nat,
                                   receiver : Receivers \cup {Nobody}]]
  <2>1. ticket \in [Tickets -> [status : Statuses, addr : Addrs, due : Nat,
                                receiver : Receivers \cup {Nobody}]]
    BY DEF IInv, Typed
  <2>2. PICK ts : ts = {t \in Pending : \E i \in hit : ticket[t].addr = m_timeouts[i]}
    OBVIOUS
  <2>3. \A u \in Tickets : (u \in ts) = (u \in Pending /\ ticket[u].addr \in gone)
    BY <1>7, <2>2
  <2>4. ticket' = [t \in Tickets |-> IF t \in ts THEN [ticket[t] EXCEPT !.status = "dropped"]
                                                 ELSE ticket[t]]
    BY <2>2 DEF Mark
  <2>5. "dropped" \in Statuses
    BY DEF Statuses
  <2> QED BY <2>1, <2>3, <2>4, <2>5, SMT
<1>14. Pending' = {u \in Pending : ticket[u].addr \notin gone}
  BY <1>13 DEF Pending
<1>15. Typed'
  <2>1. m_iterator' \in 0 .. Len(m_timeouts')
    BY <1>1, <1>4, SMT
  <2>2. live' \subseteq Addrs
    BY <1>8 DEF IInv, Typed
  <2> QED BY <1>1, <1>3, <1>8, <1>13, <2>1, <2>2 DEF IInv, Typed
<1>16. PassFine'
  <2>1. pc = "callback" => m_timeouts' # <<>> /\ m_timeouts'[1] = p /\ heap'[p] = heap[p]
    <3>1. SUFFICES ASSUME pc = "callback"
                   PROVE  m_timeouts' # <<>> /\ m_timeouts'[1] = p /\ heap'[p] = heap[p]
      OBVIOUS
    <3>2. 1 \in 1 .. m /\ m # 0 /\ 1 \in 1 .. n
      BY <1>1, <1>4, <3>1, SMT
    <3>3. m_timeouts'[1] = p /\ 1 \notin hit
      BY <1>1, <1>4, <3>1, <3>2
    <3>4. m_timeouts' # <<>>
      BY <1>1, <3>2, SMT
    <3> QED BY <1>4, <1>8, <1>9, <3>1, <3>2, <3>3, <3>4
  <2> QED BY <1>3, <1>4, <2>1 DEF IInv, PassFine
<1>17. NodesFine'
  <2>1. \A l, k \in 1 .. m : m_timeouts'[l] = m_timeouts'[k] => l = k
    BY <1>1, <1>2, <1>6
  <2>2. live' = {m_timeouts'[l] : l \in 1 .. m}
    <3>1. ASSUME NEW l \in 1 .. m PROVE m_timeouts'[l] \in live \ gone
      BY <1>1, <1>2, <1>9
    <3>2. ASSUME NEW a \in live \ gone PROVE \E l \in 1 .. m : m_timeouts'[l] = a
      <4>1. PICK i \in 1 .. n : m_timeouts[i] = a
        BY <1>4 DEF IInv, NodesFine
      <4>2. i \notin hit
        BY <1>9, <4>1
      <4>3. PICK l \in 1 .. m : at[l] = i
        BY <1>1, <1>2, <4>2
      <4> QED BY <1>1, <4>1, <4>3
    <3> QED BY <1>8, <3>1, <3>2
  <2>3. \A l, k \in 1 .. m : l <= k => Key(heap, m_timeouts, l)' <= Key(heap, m_timeouts, k)'
    <3>1. \A i, k \in 1 .. n : i <= k => Key(heap, m_timeouts, i) <= Key(heap, m_timeouts, k)
      BY <1>4 DEF IInv, NodesFine
    <3> QED BY <1>1, <1>2, <1>12, <3>1
  <2> QED BY <1>1, <1>10, <2>1, <2>2, <2>3 DEF NodesFine
<1>18. PendingFine'
  <2>1. ASSUME NEW u \in Pending'
        PROVE  /\ \E l \in Rest' : m_timeouts'[l] = ticket'[u].addr
               /\ heap'[ticket'[u].addr].firets = ticket'[u].due
               /\ heap'[ticket'[u].addr].receiver = ticket'[u].receiver
    <3>1. u \in Pending /\ ticket[u].addr \notin gone /\ u \in Tickets
      BY <1>14 DEF Pending
    <3>2. PICK i \in Rest : m_timeouts[i] = ticket[u].addr
      BY <3>1 DEF IInv, PendingFine
    <3>3. i \notin hit
      BY <1>5, <1>9, <3>1, <3>2
    <3>4. PICK l \in Rest' : at[l] = i
      BY <1>11, <3>3
    <3>5. m_timeouts'[l] = ticket[u].addr
      BY <1>1, <1>11, <3>2, <3>4
    <3>6. heap'[ticket[u].addr] = heap[ticket[u].addr]
      BY <1>8, <1>13, <3>1
    <3> QED BY <1>13, <3>1, <3>5, <3>6 DEF IInv, PendingFine
  <2>2. ASSUME NEW l \in Rest' PROVE \E u \in Pending' : ticket'[u].addr = m_timeouts'[l]
    <3>1. at[l] \in Rest /\ at[l] \notin hit /\ l \in 1 .. m
      BY <1>11
    <3>2. PICK u \in Pending : ticket[u].addr = m_timeouts[at[l]]
      BY <3>1 DEF IInv, PendingFine
    <3>3. ticket[u].addr \notin gone
      BY <1>5, <1>9, <3>1, <3>2
    <3>4. u \in Pending' /\ u \in Tickets
      BY <1>14, <3>3 DEF Pending
    <3> QED BY <1>1, <1>13, <3>1, <3>2, <3>4
  <2> QED BY <2>1, <2>2 DEF PendingFine
<1>19. TicketsFine'
  <2>1. \A u \in Pending' : u \in Pending /\ u \in Tickets
    BY <1>14 DEF Pending
  <2>2. \A u \in Tickets : (ticket'[u].status = "unused") = (ticket[u].status = "unused")
    <3>1. \A u \in Pending : ticket[u].status # "unused"
      BY DEF Pending
    <3> QED BY <1>13, <3>1
  <2> QED BY <1>13, <2>1, <2>2 DEF IInv, TicketsFine
<1> QED BY <1>15, <1>16, <1>17, <1>18, <1>19 DEF IInv

\* What is ahead of the iterator is all that is still to be looked at.
LEMMA AheadFacts ==
  ASSUME OneCallback, IInv, NEW op, May(op), NEW i \in 1 .. Len(m_timeouts)
  PROVE  (Iterating => Ahead(i)) <=> i \in Rest
<1>1. PICK n \in Nat : n = Len(m_timeouts)
  BY SMT DEF IInv, Typed
<1>2. /\ Whole = 1 .. n /\ Rest = First .. n
      /\ \/ pc = "out" /\ m_iterator = 0 /\ First = 1
         \/ pc = "callback" /\ m_iterator = 1 /\ First = 2 /\ 1 <= n
  BY <1>1, UseFacts
<1>3. CASE pc = "out"
  <2>1. ~Iterating /\ i \in Rest
    BY <1>1, <1>2, <1>3, SMT DEF Iterating, End
  <2> QED BY <2>1
<1>4. CASE pc = "callback"
  <2>1. Iterating /\ m_iterator = 1 /\ 1 \in 1 .. n /\ 1 <= i
    BY <1>1, <1>2, <1>4, SMT DEF Iterating, End
  <2>2. i \in Rest <=> i # 1
    BY <1>1, <1>2, <1>4, SMT
  <2>3. m_timeouts[1] # m_timeouts[i] <=> i # 1
    BY <1>1, <2>1 DEF IInv, NodesFine
  <2>4. Key(heap, m_timeouts, 1) <= Key(heap, m_timeouts, i)
    BY <1>1, <1>2, <2>1 DEF IInv, NodesFine
  <2> QED BY <2>1, <2>2, <2>3, <2>4 DEF Ahead
<1> QED BY <1>2, <1>3, <1>4

\* The iterator is found again where it was.
LEMMA FoundAgain ==
  ASSUME OneCallback, IInv, NEW op, May(op), NEW hit, NEW m, NEW at, Leaves(hit, m, at), Iterating,
         m_iterator' \in Finds(heap, m_timeouts', Key(heap, m_timeouts, m_iterator))
  PROVE  m_iterator' = m_iterator
<1>1. /\ m_timeouts' \in Seq(Addrs) /\ Len(m_timeouts') = m /\ m \in Nat
      /\ \A l \in 1 .. m : /\ at[l] \in 1 .. Len(m_timeouts) /\ at[l] \notin hit
                           /\ m_timeouts'[l] = m_timeouts[at[l]]
      /\ pc = "callback" => 1 <= m /\ at[1] = 1
  BY LeavesFacts
<1>2. PICK n \in Nat : n = Len(m_timeouts)
  BY SMT DEF IInv, Typed
<1>3. Whole = 1 .. n /\ pc = "callback" /\ m_iterator = 1 /\ 1 <= n
  BY <1>2, UseFacts DEF Iterating, End
<1>4. 1 <= m /\ at[1] = 1 /\ 1 \in 1 .. m /\ 1 \in 1 .. n
  BY <1>1, <1>3, SMT
<1>5. PICK q : q = m_timeouts'
  OBVIOUS
<1>6. \A l \in 1 .. m : Key(heap, q, l) = Key(heap, m_timeouts, at[l])
  BY <1>1, <1>5 DEF Key
<1>7. \A i \in 1 .. n : Key(heap, m_timeouts, i) \in Nat
  <2>1. \A i \in 1 .. n : m_timeouts[i] \in Addrs
    BY <1>2, SMT DEF IInv, Typed
  <2> QED BY <2>1 DEF Key, IInv, Typed, Infos
<1>8. \A i \in 1 .. n : Key(heap, m_timeouts, 1) <= Key(heap, m_timeouts, i)
  <2>1. \A i \in 1 .. n : 1 <= i
    BY SMT
  <2> QED BY <1>3, <1>4, <2>1 DEF IInv, NodesFine
<1>9. PICK k \in Nat : k = Key(heap, m_timeouts, 1)
  BY <1>4, <1>7
<1>10. Key(heap, q, 1) = k
  BY <1>4, <1>6, <1>9
<1>11. \A l \in 1 .. m : Key(heap, q, l) \in Nat /\ k <= Key(heap, q, l)
  BY <1>1, <1>2, <1>6, <1>7, <1>8, <1>9
<1>12. m_iterator' \in Finds(heap, q, k) /\ m = Len(q) /\ m \in Nat
  BY <1>1, <1>3, <1>5, <1>9
<1>13. m_iterator' = 1
  BY <1>4, <1>10, <1>11, <1>12, FindsFirst
<1> QED BY <1>3, <1>13

\* What dropReceiver erases: the pending timeouts of the receiver.
LEMMA ReceiverFacts ==
  ASSUME OneCallback, IInv, NEW receiver \in Receivers, dropReceiver(receiver)
  PROVE  \E hit, m, at :
           /\ Leaves(hit, m, at) /\ UNCHANGED ub
           /\ \A i \in 1 .. Len(m_timeouts) :
                i \in hit <=> i \in Rest /\ heap[m_timeouts[i]].receiver = receiver
           /\ IF Iterating /\ hit # {}
              THEN m_iterator' \in Finds(heap, m_timeouts', Key(heap, m_timeouts, m_iterator))
              ELSE UNCHANGED m_iterator
           /\ \E how \in Freed : Delete({m_timeouts[i] : i \in hit}, how)
<1>1. May("dropReceiver")
  BY DEF dropReceiver
<1>2. PICK n \in Nat : n = Len(m_timeouts)
  BY SMT DEF IInv, Typed
<1>3. PICK hit : hit = {i \in 1 .. n : /\ heap[m_timeouts[i]].receiver = receiver
                                       /\ Iterating => Ahead(i)}
  OBVIOUS
<1>4. Whole = 1 .. n /\ Rest = First .. n /\ First \in 1 .. 2
  BY <1>1, <1>2, UseFacts, SMT
<1>5. \A i \in 1 .. n : i \in hit <=> i \in Rest /\ heap[m_timeouts[i]].receiver = receiver
  BY <1>1, <1>2, <1>3, AheadFacts
<1>6. hit \subseteq Rest /\ hit \subseteq 1 .. n
  BY <1>3, <1>5
<1>7. {m_timeouts[i] : i \in hit} \subseteq live
      /\ ~ \E i, l \in hit : i # l /\ m_timeouts[i] = m_timeouts[l]
  BY <1>2, <1>4, <1>6 DEF IInv, NodesFine
<1>8. /\ ub' = ub
      /\ \E at \in Left(m_timeouts, hit) :
           m_timeouts' = [l \in DOMAIN at |-> m_timeouts[at[l]]]
      /\ IF Iterating /\ hit # {}
         THEN m_iterator' \in Finds(heap, m_timeouts', Key(heap, m_timeouts, m_iterator))
         ELSE UNCHANGED m_iterator
      /\ \E how \in Freed : Delete({m_timeouts[i] : i \in hit}, how)
  BY <1>2, <1>3, <1>7 DEF dropReceiver
<1>9. PICK at \in Left(m_timeouts, hit) : m_timeouts' = [l \in DOMAIN at |-> m_timeouts[at[l]]]
  BY <1>8
<1>10. PICK m : m = Cardinality((1 .. n) \ hit)
  OBVIOUS
<1>11. m \in Nat
  <2>1. IsFiniteSet(1 .. n)
    BY FS_Interval, SMT
  <2>2. IsFiniteSet((1 .. n) \ hit)
    BY <2>1, FS_Subset
  <2> QED BY <1>10, <2>2, FS_CardinalityType
<1>12. /\ at \in [1 .. m -> (1 .. n) \ hit] /\ DOMAIN at = 1 .. m
       /\ {at[l] : l \in DOMAIN at} = (1 .. n) \ hit
       /\ \A l, k \in DOMAIN at : l < k => at[l] < at[k]
  BY <1>2, <1>9, <1>10 DEF Left
<1>13. Leaves(hit, m, at)
  BY <1>2, <1>6, <1>9, <1>11, <1>12 DEF Leaves
<1> QED BY <1>2, <1>5, <1>8, <1>13

LEMMA DropReceiverStep ==
  ASSUME OneCallback, IInv, NEW receiver \in Receivers, dropReceiver(receiver)
  PROVE  IInv'
<1>1. PICK hit, m, at :
         /\ Leaves(hit, m, at) /\ UNCHANGED ub
         /\ \A i \in 1 .. Len(m_timeouts) :
              i \in hit <=> i \in Rest /\ heap[m_timeouts[i]].receiver = receiver
         /\ IF Iterating /\ hit # {}
            THEN m_iterator' \in Finds(heap, m_timeouts', Key(heap, m_timeouts, m_iterator))
            ELSE UNCHANGED m_iterator
         /\ \E how \in Freed : Delete({m_timeouts[i] : i \in hit}, how)
  BY ReceiverFacts
<1>2. May("dropReceiver") /\ UNCHANGED <<now, firing>>
      /\ Mark({t \in Tickets : ticket[t].status = "pending" /\ ticket[t].receiver = receiver}, "dropped")
  BY DEF dropReceiver
<1>3. m_iterator' = m_iterator
  BY <1>1, <1>2, FoundAgain
<1>4. PICK how \in Freed : Delete({m_timeouts[i] : i \in hit}, how)
  BY <1>1
<1>5. hit \subseteq Rest /\ \A i \in Rest : i \in 1 .. Len(m_timeouts)
  BY <1>1, <1>2, UseFacts, SMT DEF Leaves
<1>6. {t \in Tickets : ticket[t].status = "pending" /\ ticket[t].receiver = receiver}
        = {t \in Pending : \E i \in hit : ticket[t].addr = m_timeouts[i]}
  <2>1. ASSUME NEW t \in Pending
        PROVE  ticket[t].receiver = receiver <=> \E i \in hit : ticket[t].addr = m_timeouts[i]
    <3>1. PICK i \in Rest : m_timeouts[i] = ticket[t].addr
      BY DEF IInv, PendingFine
    <3>2. heap[ticket[t].addr].receiver = ticket[t].receiver
      BY DEF IInv, PendingFine
    <3>3. ASSUME NEW k \in hit, ticket[t].addr = m_timeouts[k] PROVE ticket[t].receiver = receiver
      BY <1>1, <1>5, <3>2, <3>3
    <3>4. ASSUME ticket[t].receiver = receiver PROVE i \in hit
      BY <1>1, <1>5, <3>1, <3>2, <3>4
    <3> QED BY <3>1, <3>3, <3>4
  <2> QED BY <2>1 DEF Pending
<1>7. Mark({t \in Pending : \E i \in hit : ticket[t].addr = m_timeouts[i]}, "dropped")
  BY <1>2, <1>6
<1>8. UNCHANGED <<now, firing, ub>>
  BY <1>1, <1>2
<1> QED BY <1>1, <1>2, <1>3, <1>4, <1>7, <1>8, LeaveStep

\* dropTimeout's walk finds the node of a timeout that is in the multiset.
LEMMA WalkFacts ==
  ASSUME OneCallback, IInv, NEW op, May(op), NEW i \in 1 .. Len(m_timeouts), NEW a, m_timeouts[i] = a,
         NEW from \in LowerBounds(heap, m_timeouts, heap[a].firets)
  PROVE  Walk(a, from) = i
<1>1. PICK n \in Nat : n = Len(m_timeouts)
  BY SMT DEF IInv, Typed
<1>2. \A k, l \in 1 .. n : k <= l => Key(heap, m_timeouts, k) <= Key(heap, m_timeouts, l)
  <2>1. Whole = 1 .. n
    BY <1>1, UseFacts
  <2> QED BY <2>1 DEF IInv, NodesFine
<1>3. \A l \in 1 .. n : Key(heap, m_timeouts, l) \in Nat
  <2>1. \A l \in 1 .. n : m_timeouts[l] \in Addrs
    BY <1>1, SMT DEF IInv, Typed
  <2> QED BY <2>1 DEF Key, IInv, Typed, Infos
<1>4. PICK key \in Nat : key = heap[a].firets /\ key = Key(heap, m_timeouts, i)
  BY <1>1, <1>3 DEF Key
<1>5. /\ from \in 1 .. n + 1
      /\ from > 1 => Key(heap, m_timeouts, from - 1) < key
      /\ from <= n => key <= Key(heap, m_timeouts, from)
  BY <1>1, <1>4 DEF LowerBounds
<1>6. i \in 1 .. n
  BY <1>1
<1>7. from <= i
  <2>1. SUFFICES ASSUME ~(from <= i) PROVE FALSE
    OBVIOUS
  <2>2. from > 1 /\ from - 1 \in 1 .. n /\ i <= from - 1
    BY <1>5, <1>6, <2>1, SMT
  <2>3. PICK x \in Nat : x = Key(heap, m_timeouts, from - 1)
    BY <1>3, <2>2
  <2>4. x < key /\ key <= x
    BY <1>2, <1>4, <1>5, <1>6, <2>2, <2>3
  <2> QED BY <2>4, SMT
<1>8. i \in from .. n /\ from \in 1 .. n /\ from <= n /\ \A l \in from .. i : l \in 1 .. n /\ from <= l /\ l <= i
  BY <1>5, <1>6, <1>7, SMT
<1>9. \A l \in from .. i : Key(heap, m_timeouts, l) = key
  <2>1. SUFFICES ASSUME NEW l \in from .. i PROVE Key(heap, m_timeouts, l) = key
    OBVIOUS
  <2>2. PICK x \in Nat, y \in Nat : x = Key(heap, m_timeouts, from) /\ y = Key(heap, m_timeouts, l)
    BY <1>3, <1>8
  <2>3. key <= x /\ x <= y /\ y <= key
    BY <1>2, <1>4, <1>5, <1>6, <1>8, <2>2
  <2>4. y = key
    BY <2>3, SMT
  <2> QED BY <2>2, <2>4
<1>10. DEFINE stops == {k \in from .. Len(m_timeouts) :
                          /\ m_timeouts[k] = a
                          /\ \A l \in from .. k : Key(heap, m_timeouts, l) = heap[a].firets}
<1>11. stops = {i}
  <2>1. i \in stops
    BY <1>1, <1>4, <1>8, <1>9
  <2>2. ASSUME NEW k \in stops PROVE k = i
    <3>1. k \in 1 .. n
      BY <1>1, <1>5, SMT
    <3> QED BY <1>1, <1>6, <3>1 DEF IInv, NodesFine
  <2> QED BY <2>1, <2>2
<1>12. (CHOOSE k \in stops : \A l \in stops : k <= l) = i
  <2>1. i <= i
    BY <1>6, SMT
  <2> HIDE DEF stops
  <2> QED BY <1>11, <2>1
<1> QED BY <1>11, <1>12 DEF Walk

\* What is left when one is taken out.
LEMMA RemoveFacts ==
  ASSUME NEW S, NEW q \in Seq(S), NEW n \in Nat, n = Len(q), NEW i \in 1 .. n
  PROVE  RemoveAt(q, i) = [l \in 1 .. n - 1 |-> q[IF l < i THEN l ELSE l + 1]]
<1>1. PICK front : front = SubSeq(q, 1, i - 1)
  OBVIOUS
<1>2. PICK back : back = SubSeq(q, i + 1, n)
  OBVIOUS
<1>3. i \in Nat /\ 1 <= i /\ i <= n
  BY SMT
<1>4. /\ front \in Seq(S) /\ Len(front) = i - 1
      /\ \A l \in 1 .. i - 1 : front[l] = q[l]
  BY <1>1, <1>3, SMT
<1>5. /\ back \in Seq(S) /\ Len(back) = n - i
      /\ \A l \in 1 .. n - i : back[l] = q[i + l]
  BY <1>2, <1>3, SMT
<1>6. PICK all : all = front \o back
  OBVIOUS
<1>7. /\ all \in Seq(S) /\ Len(all) = n - 1
      /\ \A l \in 1 .. n - 1 : all[l] = IF l <= i - 1 THEN front[l] ELSE back[l - (i - 1)]
  <2>1. front \in Seq(S) /\ back \in Seq(S)
    BY <1>4, <1>5
  <2>2. /\ front \o back \in Seq(S) /\ Len(front \o back) = Len(front) + Len(back)
        /\ \A l \in 1 .. Len(front) + Len(back) :
             (front \o back)[l] = IF l <= Len(front) THEN front[l] ELSE back[l - Len(front)]
    BY <2>1, ConcatProperties
  <2>3. Len(front) = i - 1 /\ Len(front) + Len(back) = n - 1
    BY <1>3, <1>4, <1>5, SMT
  <2> QED BY <1>6, <2>2, <2>3
<1>8. ASSUME NEW l \in 1 .. n - 1 PROVE all[l] = q[IF l < i THEN l ELSE l + 1]
  <2>1. CASE l < i
    <3>1. l <= i - 1 /\ l \in 1 .. i - 1
      BY <1>3, <2>1, SMT
    <3> QED BY <1>4, <1>7, <2>1, <3>1
  <2>2. CASE ~(l < i)
    <3>1. ~(l <= i - 1) /\ l - (i - 1) \in 1 .. n - i /\ i + (l - (i - 1)) = l + 1
      BY <1>3, <2>2, SMT
    <3> QED BY <1>5, <1>7, <2>2, <3>1
  <2> QED BY <2>1, <2>2
<1>9. all = [l \in 1 .. n - 1 |-> all[l]]
  <2>1. DOMAIN all = 1 .. n - 1
    BY <1>7, SMT
  <2>2. all \in [1 .. n - 1 -> S]
    BY <1>7, SMT
  <2> QED BY <2>2
<1>10. all = [l \in 1 .. n - 1 |-> q[IF l < i THEN l ELSE l + 1]]
  BY <1>8, <1>9
<1> QED BY <1>1, <1>2, <1>6, <1>10 DEF RemoveAt

LEMMA LeavesOne ==
  ASSUME OneCallback, IInv, NEW i \in Rest, i \in 1 .. Len(m_timeouts),
         m_timeouts' = RemoveAt(m_timeouts, i)
  PROVE  \E m, at : Leaves({i}, m, at)
<1>1. PICK n \in Nat : n = Len(m_timeouts)
  BY SMT DEF IInv, Typed
<1>2. PICK q \in Seq(Addrs) : q = m_timeouts
  BY DEF IInv, Typed
<1>3. PICK m : m = n - 1
  OBVIOUS
<1>4. PICK at : at = [l \in 1 .. m |-> IF l < i THEN l ELSE l + 1]
  OBVIOUS
<1>5. i \in 1 .. n /\ m \in Nat
  BY <1>1, <1>3, SMT
<1>6. at \in [1 .. m -> (1 .. n) \ {i}] /\ \A l, k \in 1 .. m : l < k => at[l] < at[k]
  BY <1>3, <1>4, <1>5, SMT
<1>7. ASSUME NEW k \in (1 .. n) \ {i} PROVE \E l \in 1 .. m : at[l] = k
  <2>1. CASE k < i
    <3>1. k \in 1 .. m
      BY <1>3, <1>5, <2>1, SMT
    <3> QED BY <1>4, <2>1, <3>1
  <2>2. CASE ~(k < i)
    <3>1. k - 1 \in 1 .. m /\ ~(k - 1 < i) /\ (k - 1) + 1 = k
      BY <1>3, <1>5, <2>2, SMT
    <3> QED BY <1>4, <3>1
  <2> QED BY <2>1, <2>2
<1>8. {at[l] : l \in 1 .. m} = (1 .. n) \ {i}
  BY <1>6, <1>7
<1>9. m_timeouts' = [l \in 1 .. m |-> m_timeouts[at[l]]]
  <2>1. RemoveAt(q, i) = [l \in 1 .. n - 1 |-> q[IF l < i THEN l ELSE l + 1]]
    BY <1>1, <1>2, <1>5, RemoveFacts
  <2>2. [l \in 1 .. m |-> q[at[l]]] = [l \in 1 .. n - 1 |-> q[IF l < i THEN l ELSE l + 1]]
    BY <1>3, <1>4
  <2> QED BY <1>2, <2>1, <2>2
<1>10. {i} \subseteq Rest
  OBVIOUS
<1>11. Leaves({i}, m, at)
  BY <1>1, <1>5, <1>6, <1>8, <1>9, <1>10 DEF Leaves
<1> QED BY <1>11

\* No two pending timeouts have the same address.
LEMMA PendingAlone ==
  ASSUME IInv, NEW t \in Pending, NEW u \in Pending, ticket[u].addr = ticket[t].addr
  PROVE  u = t
<1>1. u <= t /\ t <= u
  BY DEF IInv, TicketsFine, Pending
<1>2. u \in Nat /\ t \in Nat
  BY ProgramAssumption DEF Pending
<1> QED BY <1>1, <1>2, SMT

LEMMA DropTimeoutStep ==
  ASSUME OneCallback, IInv, NEW t \in Tickets, dropTimeout(t)
  PROVE  IInv'
<1>1. May("drop") /\ Held(t) /\ UNCHANGED <<now, firing, ub>>
      /\ Mark({t} \cap {u \in Tickets : ticket[u].status = "pending"}, "dropped")
  BY DEF dropTimeout
<1>2. PICK n \in Nat : n = Len(m_timeouts)
  BY SMT DEF IInv, Typed
<1>3. /\ Whole = 1 .. n /\ Rest = First .. n
      /\ \/ pc = "out" /\ m_iterator = 0 /\ First = 1
         \/ pc = "callback" /\ m_iterator = 1 /\ First = 2 /\ 1 <= n /\ m_timeouts[1] = p
  BY <1>1, <1>2, UseFacts
<1>4. \A i \in Rest : i \in 1 .. n
  BY <1>3, SMT
<1>5. PICK a : a = ticket[t].addr
  OBVIOUS
<1>6. PICK from \in LowerBounds(heap, m_timeouts, heap[a].firets), how \in Freed :
        LET i == Walk(a, from)
            rest == RemoveAt(m_timeouts, i)
        IN IF i = 0 \/ (Iterating /\ ~Ahead(i))
           THEN UNCHANGED <<memory, tree>>
           ELSE /\ m_timeouts' = rest
                /\ IF Iterating
                   THEN m_iterator' \in Finds(heap, rest, Key(heap, m_timeouts, m_iterator))
                   ELSE UNCHANGED m_iterator
                /\ Delete({a}, how)
  BY <1>5 DEF dropTimeout
<1>7. CASE t \in Pending
  <2>1. PICK i \in Rest : m_timeouts[i] = a
    BY <1>5, <1>7 DEF IInv, PendingFine
  <2>2. i \in 1 .. Len(m_timeouts)
    BY <1>2, <1>4
  <2>3. Walk(a, from) = i
    BY <1>1, <2>1, <2>2, WalkFacts
  <2>4. i # 0 /\ (Iterating => Ahead(i))
    <3>1. Iterating => Ahead(i)
      BY <1>1, <2>2, AheadFacts
    <3> QED BY <2>2, <3>1, SMT
  <2>5. /\ m_timeouts' = RemoveAt(m_timeouts, i)
        /\ IF Iterating
           THEN m_iterator' \in Finds(heap, m_timeouts', Key(heap, m_timeouts, m_iterator))
           ELSE UNCHANGED m_iterator
        /\ Delete({a}, how)
    BY <1>6, <2>3, <2>4
  <2>6. PICK m, at : Leaves({i}, m, at)
    BY <2>2, <2>5, LeavesOne
  <2>7. m_iterator' = m_iterator
    BY <1>1, <2>5, <2>6, FoundAgain
  <2>8. Delete({m_timeouts[k] : k \in {i}}, how)
    <3>1. {m_timeouts[k] : k \in {i}} = {a}
      BY <2>1
    <3> QED BY <2>5, <3>1
  <2>9. Mark({u \in Pending : \E k \in {i} : ticket[u].addr = m_timeouts[k]}, "dropped")
    <3>1. \A u \in Pending : ticket[u].addr = a => u = t
      BY <1>5, <1>7, PendingAlone
    <3>2. {t} \cap {u \in Tickets : ticket[u].status = "pending"}
            = {u \in Pending : \E k \in {i} : ticket[u].addr = m_timeouts[k]}
      BY <1>5, <1>7, <2>1, <3>1 DEF Pending
    <3> QED BY <1>1, <3>2
  <2> QED BY <1>1, <2>6, <2>7, <2>8, <2>9, LeaveStep
<1>8. CASE t \notin Pending
  <2>1. pc = "callback" /\ a = p
    BY <1>1, <1>5, <1>8 DEF Held, Pending
  <2>2. 1 \in 1 .. Len(m_timeouts) /\ m_timeouts[1] = a /\ Iterating /\ m_iterator = 1
    BY <1>2, <1>3, <2>1, SMT DEF Iterating, End
  <2>3. Walk(a, from) = 1
    BY <1>1, <2>2, WalkFacts
  <2>4. ~Ahead(1)
    BY <2>2 DEF Ahead
  <2>5. UNCHANGED <<memory, tree>>
    BY <1>6, <2>2, <2>3, <2>4
  <2>6. ticket' = ticket
    <3>1. {t} \cap {u \in Tickets : ticket[u].status = "pending"} = {}
      BY <1>8 DEF Pending
    <3>2. ticket' = [u \in Tickets |-> ticket[u]]
      BY <1>1, <3>1 DEF Mark
    <3> QED BY <3>2 DEF IInv, Typed
  <2>7. UNCHANGED vars
    BY <1>1, <2>5, <2>6 DEF vars
  <2> QED BY <2>7, StutterStep
<1> QED BY <1>7, <1>8

LEMMA NextStep ==
  ASSUME OneCallback, IInv, [Next]_vars
  PROVE  IInv'
<1>1. CASE UNCHANGED vars
  BY <1>1, StutterStep
<1>2. ASSUME NEW delta \in Deltas, NEW r \in Receivers, scheduleTimeout(delta, r) PROVE IInv'
  BY <1>2, ScheduleStep
<1>3. ASSUME NEW t \in Tickets, dropTimeout(t) PROVE IInv'
  BY <1>3, DropTimeoutStep
<1>4. ASSUME NEW r \in Receivers, dropReceiver(r) PROVE IInv'
  BY <1>4, DropReceiverStep
<1>5. CASE FireTimeouts
  BY <1>5, BeginStep, FireStep, ReturnStep, FinishStep DEF FireTimeouts
<1>6. CASE Tick
  BY <1>6, TickStep
<1> QED BY <1>1, <1>2, <1>3, <1>4, <1>5, <1>6 DEF Next, Program

-----------------------------------------------------------------------------
(* The theorems. *)

\* In every state the nodes ahead are those of the pending timeouts, each once
\* and in order, and nothing that was freed is ahead.
THEOREM Invariance == OneCallback => (Safe => []IInv)
<1>1. OneCallback /\ IInv /\ [Next]_vars => IInv'
  BY NextStep
<1>2. ASSUME OneCallback PROVE Safe => []IInv
  BY <1>1, <1>2, InitIInv, PTL DEF Safe
<1> QED BY <1>2

\* Iterating, callbacks and deletions never use freed memory or end(), for any
\* number of timeouts and whatever the first callback schedules and drops.
THEOREM NothingUndefined == OneCallback => (Safe => []NoUndefined)
<1>1. IInv => NoUndefined
  BY DEF IInv, Typed, NoUndefined
<1>2. ASSUME OneCallback PROVE Safe => []NoUndefined
  BY <1>1, <1>2, Invariance, PTL
<1> QED BY <1>2

\* A timeout is in front of the loop until it is fired or dropped, and when a
\* pass is over no memory is held for any other.
THEOREM NoneIsLostNorLeaked == OneCallback => (Safe => []NoneLostNorLeaked)
<1>1. ASSUME IInv PROVE NoneLostNorLeaked
  <2>1. \A i \in Rest : i \in 1 .. Len(m_timeouts) /\ i >= m_iterator
    <3>1. m_iterator \in 0 .. Len(m_timeouts) /\ Len(m_timeouts) \in Nat
          /\ (pc = "out" => m_iterator = 0)
      BY <1>1, SMT DEF IInv, Typed, PassFine, End
    <3> QED BY <3>1, SMT DEF Rest, First, End
  <2>2. Types
    <3>1. \A t \in Tickets : ticket[t].status \in Statuses
      BY <1>1 DEF IInv, Typed
    <3>2. ub \in {"none", "double free", "fires freed", "++end"}
      BY <1>1 DEF IInv, Typed
    <3> QED BY <1>1, <3>1, <3>2 DEF Types, IInv, Typed, Infos, Statuses
  <2>3. ASSUME NEW t \in Tickets, ticket[t].status = "pending"
        PROVE  \E i \in 1 .. Len(m_timeouts) : m_timeouts[i] = ticket[t].addr /\ i >= m_iterator
    <3>1. PICK i \in Rest : m_timeouts[i] = ticket[t].addr
      BY <1>1, <2>3 DEF IInv, PendingFine, Pending
    <3> QED BY <2>1, <3>1
  <2>4. ASSUME pc = "out" PROVE live = {ticket[t].addr : t \in Pending}
    <3>1. live = {m_timeouts[i] : i \in Rest}
      BY <1>1, <2>4 DEF IInv, NodesFine, Whole
    <3> QED BY <1>1, <3>1 DEF IInv, PendingFine
  <2> QED BY <2>2, <2>3, <2>4 DEF NoneLostNorLeaked, Pending
<1>2. ASSUME OneCallback PROVE Safe => []NoneLostNorLeaked
  BY <1>1, <1>2, Invariance, PTL
<1> QED BY <1>2

\* A timeout that was dropped, by itself or with its receiver, does not fire,
\* though its address may be given to another.
THEOREM DroppedAreNotFired == OneCallback => (Safe => []DroppedStaysDropped)
<1>1. IInv => DroppedStaysDropped
  BY DEF IInv, TicketsFine, DroppedStaysDropped
<1>2. ASSUME OneCallback PROVE Safe => []DroppedStaysDropped
  BY <1>1, <1>2, Invariance, PTL
<1> QED BY <1>2

\* Each step but Fire leaves every timeout pending or not fired.
LEMMA OnlyFireFires ==
  ASSUME OneCallback, IInv, [Next]_vars, ~Fire, NEW t \in Tickets, ticket[t].status = "pending"
  PROVE  ticket'[t].status # "fired"
<1>1. \A ts : Mark(ts, "dropped") => ticket'[t].status # "fired"
  BY SMT DEF IInv, Typed, Mark
<1>2. CASE UNCHANGED vars
  BY <1>2 DEF vars
<1>3. ASSUME NEW delta \in Deltas, NEW r \in Receivers, scheduleTimeout(delta, r)
      PROVE  ticket'[t].status # "fired"
  <2>1. PICK u \in Tickets, a \in Addrs : ticket[u].status = "unused"
           /\ ticket' = [ticket EXCEPT ![u] = [status |-> "pending", addr |-> a,
                                               due |-> now + delta, receiver |-> r]]
    BY <1>3 DEF scheduleTimeout
  <2>2. u # t
    BY <2>1
  <2> QED BY <2>1, <2>2 DEF IInv, Typed
<1>4. ASSUME NEW u \in Tickets, dropTimeout(u) PROVE ticket'[t].status # "fired"
  BY <1>1, <1>4 DEF dropTimeout
<1>5. ASSUME NEW r \in Receivers, dropReceiver(r) PROVE ticket'[t].status # "fired"
  BY <1>1, <1>5 DEF dropReceiver
<1>6. CASE Begin \/ Return \/ Finish \/ Tick
  BY <1>6 DEF Begin, Return, Finish, Tick
<1> QED BY <1>2, <1>3, <1>4, <1>5, <1>6 DEF Next, Program, FireTimeouts

\* A timeout fires when its second has come, and none that is due before it is
\* still pending then, in whatever order they were scheduled.
THEOREM TimeoutsFireInOrder == OneCallback => (Safe => FiredInOrder)
<1>1. ASSUME OneCallback, IInv, [Next]_vars, NEW t \in Tickets,
             ticket[t].status = "pending" /\ ticket'[t].status = "fired"
      PROVE  /\ ticket[t].due <= now
             /\ \A u \in Tickets : ticket'[u].status = "pending" => ticket[u].due >= ticket[t].due
  <2>1. Fire
    BY <1>1, OnlyFireFires
  <2>2. PICK w \in Pending :
           /\ ticket[w].addr = p' /\ \A u \in Pending : ticket[u].addr = p' => u = w
           /\ ticket' = [ticket EXCEPT ![w].status = "fired"]
    BY <1>1, <2>1, FireFacts
  <2>3. /\ m_iterator \in 1 .. Len(m_timeouts) /\ First = m_iterator
        /\ p' = m_timeouts[m_iterator] /\ heap[p'].firets <= start /\ pc = "fire"
    BY <1>1, <2>1, FireFacts DEF Fire
  <2>4. w \in Tickets /\ w = t
    <3>1. w \in Tickets
      BY DEF Pending
    <3>2. \A u \in Tickets : u # w => ticket'[u] = ticket[u]
      BY <1>1, <2>2, <3>1 DEF IInv, Typed
    <3> QED BY <1>1, <3>1, <3>2
  <2>5. \A u \in Pending : ticket[u].due = heap[ticket[u].addr].firets /\ ticket[u].due \in Nat
    BY <1>1 DEF IInv, PendingFine, Typed, Pending
  <2>6. ticket[t].due = Key(heap, m_timeouts, m_iterator)
    BY <2>2, <2>3, <2>4, <2>5 DEF Key
  <2>7. ticket[t].due <= now
    <3>1. ticket[t].due <= start /\ start <= now /\ start \in Int /\ now \in Int
      <4>1. start \in Int /\ now \in Int
        BY <1>1, SMT DEF IInv, Typed
      <4>2. start <= now
        BY <1>1, <2>3 DEF IInv, PassFine
      <4> QED BY <2>2, <2>3, <2>4, <2>5, <4>1, <4>2
    <3>2. PICK due \in Nat : due = ticket[t].due
      BY <2>4, <2>5
    <3>3. due <= now
      BY <3>1, <3>2, SMT
    <3> QED BY <3>2, <3>3
  <2>8. Rest = m_iterator .. Len(m_timeouts) /\ Whole = Rest /\ m_iterator \in Rest
        /\ \A i \in Rest : m_iterator <= i
    BY <2>3, SMT DEF Rest, Whole
  <2>9. ASSUME NEW u \in Tickets, ticket'[u].status = "pending" PROVE ticket[u].due >= ticket[t].due
    <3>1. u \in Pending
      <4>1. u # w => ticket'[u] = ticket[u]
        BY <1>1, <2>2, <2>4 DEF IInv, Typed
      <4>2. u # w
        BY <1>1, <2>4, <2>9
      <4> QED BY <2>9, <4>1, <4>2 DEF Pending
    <3>2. PICK i \in Rest : m_timeouts[i] = ticket[u].addr
      BY <1>1, <3>1 DEF IInv, PendingFine
    <3>3. ticket[u].due = Key(heap, m_timeouts, i)
      BY <2>5, <3>1, <3>2 DEF Key
    <3>4. ticket[t].due <= ticket[u].due
      BY <1>1, <2>6, <2>8, <3>2, <3>3 DEF IInv, NodesFine
    <3>5. PICK x \in Nat, y \in Nat : x = ticket[t].due /\ y = ticket[u].due
      BY <2>2, <2>4, <2>5, <3>1
    <3>6. y >= x
      BY <3>4, <3>5, SMT
    <3> QED BY <3>5, <3>6
  <2> QED BY <2>7, <2>9
<1>2. DEFINE InOrder == \A t \in Tickets :
                          ticket[t].status = "pending" /\ ticket'[t].status = "fired" =>
                            /\ ticket[t].due <= now
                            /\ \A u \in Tickets : ticket'[u].status = "pending" =>
                                                  ticket[u].due >= ticket[t].due
<1>3. ASSUME OneCallback PROVE IInv /\ [Next]_vars => [InOrder]_vars
  BY <1>1, <1>3
<1>4. ASSUME OneCallback PROVE Safe => FiredInOrder
  BY <1>3, <1>4, Invariance, PTL DEF Safe, FiredInOrder
<1> QED BY <1>4

\* When a pass ends, every timeout is later than the second the pass began in.
THEOREM AllThatWereDueAreFired == OneCallback => (Safe => AllDueAreFired)
<1>1. ASSUME OneCallback, IInv, [Next]_vars, pc = "fire" /\ pc' = "out", NEW t \in Tickets,
             ticket[t].status = "pending"
      PROVE  ticket[t].due > start
  <2>1. Finish
    BY <1>1 DEF Next, Program, FireTimeouts, scheduleTimeout, dropTimeout, dropReceiver, Begin, Fire,
                Return, Tick, vars, firing
  <2>2. PICK i \in Rest : m_timeouts[i] = ticket[t].addr
    BY <1>1 DEF IInv, PendingFine, Pending
  <2>3. Iterating /\ Rest = m_iterator .. Len(m_timeouts) /\ Whole = Rest /\ m_iterator \in Rest
        /\ m_iterator <= i
    <3>1. Len(m_timeouts) \in Nat /\ m_iterator \in 0 .. Len(m_timeouts)
      BY <1>1, SMT DEF IInv, Typed
    <3>2. Iterating
      BY <1>1, <2>2, <3>1, SMT DEF Iterating, Rest, First
    <3> QED BY <1>1, <2>2, <3>1, <3>2, SMT DEF Iterating, Rest, First, Whole
  <2>4. ~(Key(heap, m_timeouts, m_iterator) <= start)
    BY <2>1, <2>3 DEF Finish, AtDue
  <2>5. Key(heap, m_timeouts, m_iterator) <= Key(heap, m_timeouts, i)
    BY <1>1, <2>3 DEF IInv, NodesFine
  <2>6. ticket[t].due = Key(heap, m_timeouts, i)
    BY <1>1, <2>2 DEF IInv, PendingFine, Pending, Key
  <2>7. /\ Key(heap, m_timeouts, m_iterator) \in Nat /\ Key(heap, m_timeouts, i) \in Nat
        /\ start \in Nat
    <3>1. \A k \in Rest : k \in 1 .. Len(m_timeouts)
      <4>1. m_iterator # 0 /\ m_iterator \in 0 .. Len(m_timeouts) /\ Len(m_timeouts) \in Nat
        BY <1>1, <2>3, SMT DEF IInv, Typed, Iterating, End
      <4> QED BY <2>3, <4>1, SMT
    <3>2. \A k \in 1 .. Len(m_timeouts) : m_timeouts[k] \in Addrs
      BY <1>1, SMT DEF IInv, Typed
    <3>3. start \in Nat
      BY <1>1, SMT DEF IInv, Typed
    <3> QED BY <1>1, <2>3, <3>1, <3>2, <3>3 DEF Key, IInv, Typed, Infos
  <2>8. PICK x \in Nat, y \in Nat : x = Key(heap, m_timeouts, m_iterator) /\ y = Key(heap, m_timeouts, i)
    BY <2>7
  <2>9. y > start
    BY <2>4, <2>5, <2>7, <2>8, SMT
  <2> QED BY <2>6, <2>8, <2>9
<1>2. DEFINE AllFired == pc = "fire" /\ pc' = "out" =>
                           \A t \in Tickets : ticket[t].status = "pending" => ticket[t].due > start
<1>3. ASSUME OneCallback PROVE IInv /\ [Next]_vars => [AllFired]_vars
  BY <1>1, <1>3
<1>4. ASSUME OneCallback PROVE Safe => AllDueAreFired
  BY <1>3, <1>4, Invariance, PTL DEF Safe, AllDueAreFired
<1> QED BY <1>4

\* deltaNext, asked after a pass, is the time to the next timeout; for one that is
\* overdue it is longer than any delta the program asks for.
THEOREM SleepsAreRight == OneCallback => (Safe => []SleepIsRight)
<1>1. ASSUME IInv, pc = "out", Pending = {} PROVE DeltaNext = MaxUInt
  <2>1. Rest = {} /\ Rest = 1 .. Len(m_timeouts)
    BY <1>1 DEF IInv, PendingFine, Rest, First
  <2>2. m_timeouts = <<>>
    BY <1>1, <2>1, SMT DEF IInv, Typed
  <2> QED BY <2>2 DEF DeltaNext
<1>2. ASSUME IInv, pc = "out", NEW t \in Pending,
             \A u \in Pending : ticket[t].due <= ticket[u].due
      PROVE  IF ticket[t].due >= now
             THEN DeltaNext = ticket[t].due - now
             ELSE \A d \in Deltas : DeltaNext > d
  <2>1. Rest = 1 .. Len(m_timeouts) /\ Whole = Rest
    BY <1>2 DEF Rest, First, Whole
  <2>2. PICK i \in Rest : m_timeouts[i] = ticket[t].addr
    BY <1>2 DEF IInv, PendingFine
  <2>3. m_timeouts # <<>> /\ 1 \in Rest /\ 1 <= i
    BY <1>2, <2>1, <2>2, SMT DEF IInv, Typed
  <2>4. PICK u \in Pending : ticket[u].addr = m_timeouts[1]
    BY <1>2, <2>3 DEF IInv, PendingFine
  <2>5. ticket[u].due = Key(heap, m_timeouts, 1) /\ ticket[t].due = Key(heap, m_timeouts, i)
    BY <1>2, <2>2, <2>4 DEF IInv, PendingFine, Key
  <2>6. Key(heap, m_timeouts, 1) <= Key(heap, m_timeouts, i)
    BY <1>2, <2>1, <2>3 DEF IInv, NodesFine
  <2>7. ticket[t].due <= ticket[u].due
    BY <1>2, <2>4
  <2>8. ticket[t].due \in Nat /\ ticket[u].due \in Nat
    BY <1>2, <2>4 DEF IInv, Typed, Pending
  <2>9. PICK due \in Nat : due = ticket[t].due
    BY <2>8
  <2>10. Key(heap, m_timeouts, 1) = due
    <3>1. PICK x \in Nat : x = ticket[u].due
      BY <2>8
    <3>2. x <= due /\ due <= x
      BY <2>5, <2>6, <2>7, <2>9, <3>1
    <3>3. x = due
      BY <3>2, SMT
    <3> QED BY <2>5, <3>1, <3>3
  <2>11. DeltaNext = IF due >= now THEN due - now ELSE MaxUInt + 1 - (now - due)
    BY <2>3, <2>10 DEF DeltaNext
  <2>12. ASSUME NEW d \in Deltas, ~(due >= now) PROVE MaxUInt + 1 - (now - due) > d
    <3>1. d \in Nat /\ MaxTime \in Nat /\ MaxUInt \in Nat /\ MaxTime + d < MaxUInt
      BY ProgramAssumption
    <3>2. now \in Nat /\ now <= MaxTime
      BY <1>2, <3>1, SMT DEF IInv, Typed
    <3> QED BY <3>1, <3>2, SMT
  <2> QED BY <2>9, <2>11, <2>12
<1>3. ASSUME IInv PROVE SleepIsRight
  BY <1>1, <1>2, <1>3 DEF SleepIsRight, Pending
<1>4. ASSUME OneCallback PROVE Safe => []SleepIsRight
  BY <1>3, <1>4, Invariance, PTL
<1> QED BY <1>4
=============================================================================
