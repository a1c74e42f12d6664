------------------------------ MODULE ProxyProofs ------------------------------
(***************************************************************************)
(* Theorems about ProxiedNetworkManager and ProxiedTcpSocket: the cursor   *)
(* of a proxy set and the turns of its proxies, for any sets and any       *)
(* number of proxies; and the negotiation with a proxy, for any length of  *)
(* its answers, of the data and of what it sends out of turn, however the  *)
(* stream is cut.                                                          *)
(***************************************************************************)
EXTENDS ProxiedNetworkManager, SequenceTheorems, TLAPS

-----------------------------------------------------------------------------
(* The inductive invariant of the pool. *)

Exists(set) == set \in DOMAIN m_proxyPool
Count(set)  == IF Exists(set) THEN m_proxyPool[set].proxies ELSE 0

\* The proxy of a set that is used next.
Upcoming(set) ==
  IF Exists(set) /\ m_proxyPool[set].nextProxy \in Proxies THEN m_proxyPool[set].nextProxy ELSE 1

\* Every proxy is in the set Every too, which is bounded; a cursor nobody has set
\* is that of a set a connection was asked of too early.
PoolFine ==
  /\ DOMAIN m_proxyPool \subseteq Sets /\ m_currentSet \in Sets
  /\ m_proxyPool \in [DOMAIN m_proxyPool -> [proxies : Nat, nextProxy : Nat]]
  /\ \A set \in DOMAIN m_proxyPool :
       \/ m_proxyPool[set].nextProxy \in 0 .. m_proxyPool[set].proxies
       \/ m_proxyPool[set].nextProxy = Singular /\ set \in early
  /\ \A set \in Sets : Count(set) <= Count(Every)
  /\ Count(Every) <= MaxProxies

\* From the proxy that comes next back to another one, around the list: what this
\* one still waits for is on the way.
TurnsFine ==
  /\ owed \in [Sets -> [Proxies -> SUBSET Proxies]]
  /\ \A set \in Sets : \A at \in Proxies : \A other \in owed[set][at] :
       /\ other <= Count(set)
       /\ IF at < Upcoming(set) THEN other < at \/ Upcoming(set) <= other
          ELSE Upcoming(set) <= other /\ other < at

PoolInv == PoolFine /\ TurnsFine

-----------------------------------------------------------------------------
(* The inductive invariant of the socket. *)

\* What the proxy sent and the socket has not done with.
Stream == m_buffer \o inbox

Typed ==
  /\ base \in {"new", "connecting", "up", "gone"}
  /\ m_proxyStatus \in {"NONE", "WAIT_VID", "WAIT_USERAUTH", "WAIT_CONN"}
  /\ m_buffer \in Seq(Bytes) /\ Len(m_buffer) < ConnLen
  /\ m_finalClientEndpoint \in BOOLEAN /\ (~m_finalClientEndpoint => m_buffer = <<>>)
  /\ asked \in Seq({"vid", "auth", "conn"}) /\ answered \in 0 .. Len(asked)
  /\ inbox \in Seq(Bytes) /\ junk \in 0 .. MaxJunk /\ data \in 0 .. MaxData
  /\ calls \in Seq(Outcomes \cup {"connectionEstablished"}) /\ relayed \in Seq(Bytes)
  /\ good \in BOOLEAN /\ cut \in BOOLEAN /\ ub \in BOOLEAN

\* Nothing has happened to a socket that is not connected.
Fresh ==
  base \in {"new", "connecting"} =>
    /\ m_proxyStatus = "NONE" /\ m_buffer = <<>> /\ m_finalClientEndpoint
    /\ asked = <<>> /\ answered = 0 /\ inbox = <<>> /\ data = 0 /\ good
    /\ calls = <<>> /\ relayed = <<>>

Negotiating == base = "up" /\ m_finalClientEndpoint

\* The request the status waits for is the last one, and only that one can be
\* unanswered.
InStep ==
  Negotiating =>
    /\ calls = <<>> /\ relayed = <<>>
    /\ \/ m_proxyStatus = "WAIT_VID" /\ asked = <<"vid">>
       \/ m_proxyStatus = "WAIT_USERAUTH" /\ asked = <<"vid", "auth">>
       \/ m_proxyStatus = "WAIT_CONN" /\ asked \in {<<"vid", "conn">>, <<"vid", "auth", "conn">>}
    /\ answered \in {Len(asked) - 1, Len(asked)}

\* What the stream holds before the answer and, if the socket would take it for a
\* good one, with it.
NotAnswered ==
  Negotiating /\ answered < Len(asked) =>
    good /\ data = 0 /\ \A i \in 1 .. Len(Stream) : Stream[i] = Junk

VidAnswered ==
  Negotiating /\ answered = Len(asked) /\ m_proxyStatus = "WAIT_VID" =>
    /\ data = 0
    /\ Len(Stream) >= 2 /\ Stream[1] = 5 /\ Stream[2] \in {0, 2} =>
         good /\ \A i \in 3 .. Len(Stream) : Stream[i] = Junk

UserauthAnswered ==
  Negotiating /\ answered = Len(asked) /\ m_proxyStatus = "WAIT_USERAUTH" =>
    /\ data = 0
    /\ \A i \in 1 .. Len(Stream) - 1 :
         Stream[i] = 1 /\ Stream[i + 1] = 0 =>
           good /\ \A k \in i + 2 .. Len(Stream) : Stream[k] = Junk

ConnAnswered ==
  Negotiating /\ answered = Len(asked) /\ m_proxyStatus = "WAIT_CONN" =>
    /\ Len(Stream) >= ConnLen
    /\ Stream[1] = 5 /\ Stream[2] = 0 =>
         /\ good /\ Len(Stream) = ConnLen + data
         /\ \A i \in 1 .. data : Stream[ConnLen + i] = DataFrom + i

\* Once the endpoints are exchanged, all that was sent are the data.
Relaying ==
  base = "up" /\ ~m_finalClientEndpoint =>
    /\ calls = <<"connectionEstablished">> /\ Granted /\ answered = Len(asked)
    /\ Len(relayed) + Len(inbox) = data
    /\ \A i \in 1 .. Len(inbox) : inbox[i] = DataFrom + (Len(relayed) + i)

InOrder == \A i \in 1 .. Len(relayed) : relayed[i] = DataFrom + i

SocketInv ==
  /\ Typed /\ Fresh /\ InStep /\ NotAnswered /\ VidAnswered /\ UserauthAnswered /\ ConnAnswered
  /\ Relaying /\ InOrder /\ EstablishedWhenGranted

-----------------------------------------------------------------------------
(* The pool. *)

ProxySet == [proxies : Nat, nextProxy : Nat]

\* A proxy more in some of the sets; one that is new starts at the end of its list.
GrowsBy(old, new, some) ==
  /\ DOMAIN new = DOMAIN old \cup some
  /\ new \in [DOMAIN new -> ProxySet]
  /\ \A t \in DOMAIN old : t \notin some => new[t] = old[t]
  /\ \A t \in some :
       /\ t \in DOMAIN old => /\ new[t].proxies = old[t].proxies + 1
                              /\ new[t].nextProxy = old[t].nextProxy
       /\ t \notin DOMAIN old => new[t] = [proxies |-> 1, nextProxy |-> 0]

LEMMA AddFacts ==
  ASSUME NEW sets, NEW set, sets \in [DOMAIN sets -> ProxySet]
  PROVE  GrowsBy(sets, Add(sets, set), {set})
<1>1. CASE set \in DOMAIN sets
  <2>1. Add(sets, set) = [sets EXCEPT ![set].proxies = @ + 1]
    BY <1>1 DEF Add
  <2>2. sets[set].proxies \in Nat /\ sets[set].nextProxy \in Nat
    BY <1>1 DEF ProxySet
  <2>3. [sets[set] EXCEPT !.proxies = @ + 1] = [proxies |-> sets[set].proxies + 1, nextProxy |-> sets[set].nextProxy]
    BY <1>1 DEF ProxySet
  <2>4. Add(sets, set) = [sets EXCEPT ![set] = [proxies |-> sets[set].proxies + 1, nextProxy |-> sets[set].nextProxy]]
    BY <2>1, <2>3
  <2>5. [proxies |-> sets[set].proxies + 1, nextProxy |-> sets[set].nextProxy] \in ProxySet
    BY <2>2, SMT DEF ProxySet
  <2> QED BY <1>1, <2>4, <2>5 DEF GrowsBy
<1>2. CASE set \notin DOMAIN sets
  <2> DEFINE r == [proxies |-> 1, nextProxy |-> 0]
  <2>1. r \in ProxySet
    BY SMT DEF ProxySet
  <2>2. Add(sets, set) = [t \in DOMAIN sets \cup {set} |-> IF t = set THEN r ELSE sets[t]]
    BY <1>2 DEF Add, End, With
  <2> HIDE DEF r
  <2>3. /\ DOMAIN Add(sets, set) = DOMAIN sets \cup {set}
        /\ Add(sets, set)[set] = r
        /\ \A t \in DOMAIN sets : t # set => Add(sets, set)[t] = sets[t]
    BY <1>2, <2>2
  <2>4. Add(sets, set) \in [DOMAIN Add(sets, set) -> ProxySet]
    BY <2>1, <2>2
  <2> QED BY <1>2, <2>3, <2>4 DEF r, GrowsBy
<1> QED BY <1>1, <1>2

\* A proxy goes into two sets.
LEMMA GrowsTwice ==
  ASSUME NEW old, NEW mid, NEW new, NEW set, NEW other, set # other,
         GrowsBy(old, mid, {set}), GrowsBy(mid, new, {other})
  PROVE  GrowsBy(old, new, {set, other})
<1>1. /\ DOMAIN mid = DOMAIN old \cup {set}
      /\ DOMAIN new = DOMAIN mid \cup {other} /\ new \in [DOMAIN new -> ProxySet]
  BY DEF GrowsBy
<1>2. /\ \A t \in DOMAIN old : t # set => mid[t] = old[t]
      /\ \A t \in DOMAIN mid : t # other => new[t] = mid[t]
  BY DEF GrowsBy
<1>3. /\ set \in DOMAIN old => /\ mid[set].proxies = old[set].proxies + 1
                               /\ mid[set].nextProxy = old[set].nextProxy
      /\ set \notin DOMAIN old => mid[set] = [proxies |-> 1, nextProxy |-> 0]
      /\ other \in DOMAIN mid => /\ new[other].proxies = mid[other].proxies + 1
                                 /\ new[other].nextProxy = mid[other].nextProxy
      /\ other \notin DOMAIN mid => new[other] = [proxies |-> 1, nextProxy |-> 0]
  BY DEF GrowsBy
<1>4. \A t \in DOMAIN old : t \notin {set, other} => new[t] = old[t]
  BY <1>1, <1>2
<1>5. \A t \in {set, other} :
       /\ t \in DOMAIN old => /\ new[t].proxies = old[t].proxies + 1
                              /\ new[t].nextProxy = old[t].nextProxy
       /\ t \notin DOMAIN old => new[t] = [proxies |-> 1, nextProxy |-> 0]
  <2>1. new[set] = mid[set]
    BY <1>1, <1>2
  <2>2. other \in DOMAIN old => other \in DOMAIN mid /\ mid[other] = old[other]
    BY <1>1, <1>2
  <2>3. other \notin DOMAIN old => other \notin DOMAIN mid
    BY <1>1
  <2> QED BY <1>3, <2>1, <2>2, <2>3
<1> QED BY <1>1, <1>4, <1>5 DEF GrowsBy

LEMMA InitPoolInv ==
  ASSUME PoolInit
  PROVE  PoolInv
<1>1. m_proxyPool = <<>> /\ m_currentSet = Initial /\ early = {} /\ owed = NothingOwed
  BY DEF PoolInit
<1>2. DOMAIN m_proxyPool = {} /\ m_proxyPool \in [DOMAIN m_proxyPool -> [proxies : Nat, nextProxy : Nat]]
  BY <1>1, SMT
<1>3. \A set \in Sets : Count(set) = 0
  BY <1>2 DEF Count, Exists
<1>4. PoolFine
  BY <1>1, <1>2, <1>3, PoolAssumption, SMT DEF PoolFine
<1>5. TurnsFine
  BY <1>1 DEF TurnsFine, NothingOwed
<1> QED BY <1>4, <1>5 DEF PoolInv


\* A cursor keeps its place when a set grows, and no turn is lost.
LEMMA AddProxyStep ==
  ASSUME PoolInv, NEW set \in Sets, addProxy(set)
  PROVE  PoolInv'
<1>1. /\ Room /\ UNCHANGED <<m_currentSet, early, owed>>
      /\ m_proxyPool' = IF set = Every THEN Add(m_proxyPool, Every)
                        ELSE Add(Add(m_proxyPool, set), Every)
  BY DEF addProxy
<1>2. m_proxyPool \in [DOMAIN m_proxyPool -> ProxySet] /\ Every \in Sets
  BY PoolAssumption DEF PoolInv, PoolFine, ProxySet
<1> DEFINE Grows == {set, Every}
<1>3. /\ DOMAIN m_proxyPool' = DOMAIN m_proxyPool \cup Grows
      /\ m_proxyPool' \in [DOMAIN m_proxyPool' -> ProxySet]
      /\ \A t \in DOMAIN m_proxyPool : t \notin Grows => m_proxyPool'[t] = m_proxyPool[t]
      /\ \A t \in Grows :
           /\ t \in DOMAIN m_proxyPool =>
                /\ m_proxyPool'[t].proxies = m_proxyPool[t].proxies + 1
                /\ m_proxyPool'[t].nextProxy = m_proxyPool[t].nextProxy
           /\ t \notin DOMAIN m_proxyPool => m_proxyPool'[t] = [proxies |-> 1, nextProxy |-> 0]
  <2>1. CASE set = Every
    <3>1. GrowsBy(m_proxyPool, m_proxyPool', {Every})
      BY <1>1, <1>2, <2>1, AddFacts
    <3>2. {Every} = Grows
      BY <2>1
    <3> QED BY <3>1, <3>2 DEF GrowsBy
  <2>2. CASE set # Every
    <3> DEFINE mid == Add(m_proxyPool, set)
    <3>1. GrowsBy(m_proxyPool, mid, {set})
      BY <1>2, AddFacts
    <3>2. m_proxyPool' = Add(mid, Every)
      BY <1>1, <2>2
    <3> HIDE DEF mid
    <3>3. mid \in [DOMAIN mid -> ProxySet]
      BY <3>1 DEF GrowsBy
    <3>4. GrowsBy(mid, m_proxyPool', {Every})
      BY <3>2, <3>3, AddFacts
    <3>5. GrowsBy(m_proxyPool, m_proxyPool', {set, Every})
      BY <2>2, <3>1, <3>4, GrowsTwice
    <3> QED BY <3>5 DEF GrowsBy
  <2> QED BY <2>1, <2>2
<1> HIDE DEF Grows
<1>4. \A t \in DOMAIN m_proxyPool : m_proxyPool[t].proxies \in Nat /\ m_proxyPool[t].nextProxy \in Nat
  BY <1>2 DEF ProxySet
<1>5. \A t \in Sets : /\ Count(t) \in Nat
                      /\ Count(t)' = IF t \in Grows THEN Count(t) + 1 ELSE Count(t)
  BY <1>3, <1>4, SMT DEF Count, Exists
<1>6. \A t \in Sets : Upcoming(t)' = Upcoming(t)
  <2>1. 0 \notin Proxies
    BY SMT DEF Proxies
  <2>2. ASSUME NEW t \in Sets PROVE Upcoming(t)' = Upcoming(t)
    <3>1. CASE t \in DOMAIN m_proxyPool
      <4>1. t \in DOMAIN m_proxyPool' /\ m_proxyPool'[t].nextProxy = m_proxyPool[t].nextProxy
        BY <1>3, <3>1
      <4> QED BY <3>1, <4>1 DEF Upcoming, Exists, Proxies
    <3>2. CASE t \notin DOMAIN m_proxyPool
      <4>1. t \in DOMAIN m_proxyPool' => m_proxyPool'[t].nextProxy = 0
        BY <1>3, <3>2
      <4> QED BY <2>1, <3>2, <4>1 DEF Upcoming, Exists, Proxies
    <3> QED BY <3>1, <3>2
  <2> QED BY <2>2
<1>7. PoolFine'
  <2>1. DOMAIN m_proxyPool' \subseteq Sets /\ m_currentSet' \in Sets
    BY <1>1, <1>2, <1>3 DEF PoolInv, PoolFine, Grows
  <2>2. ASSUME NEW t \in DOMAIN m_proxyPool'
        PROVE  \/ m_proxyPool'[t].nextProxy \in 0 .. m_proxyPool'[t].proxies
               \/ m_proxyPool'[t].nextProxy = Singular /\ t \in early'
    <3>1. CASE t \in DOMAIN m_proxyPool
      <4>1. /\ m_proxyPool'[t].proxies \in {m_proxyPool[t].proxies, m_proxyPool[t].proxies + 1}
            /\ m_proxyPool'[t].nextProxy = m_proxyPool[t].nextProxy
        BY <1>3, <3>1
      <4>2. \/ m_proxyPool[t].nextProxy \in 0 .. m_proxyPool[t].proxies
            \/ m_proxyPool[t].nextProxy = Singular /\ t \in early
        BY <3>1 DEF PoolInv, PoolFine
      <4> QED BY <1>1, <1>4, <3>1, <4>1, <4>2, SMT
    <3>2. CASE t \notin DOMAIN m_proxyPool
      <4>1. m_proxyPool'[t] = [proxies |-> 1, nextProxy |-> 0]
        BY <1>3, <2>2, <3>2
      <4> QED BY <4>1, SMT
    <3> QED BY <3>1, <3>2
  <2>3. \A t \in Sets : Count(t)' <= Count(Every)'
    <3>1. \A t \in Sets : Count(t) <= Count(Every)
      BY DEF PoolInv, PoolFine
    <3>2. Every \in Grows
      BY DEF Grows
    <3> QED BY <1>2, <1>5, <3>1, <3>2, SMT
  <2>4. Count(Every)' <= MaxProxies
    <3>1. Count(Every) < MaxProxies
      BY <1>1, PoolAssumption, SMT DEF Count, Exists, Room
    <3>2. Count(Every)' = Count(Every) + 1
      BY <1>2, <1>5 DEF Grows
    <3> QED BY <1>2, <1>5, <3>1, <3>2, PoolAssumption, SMT
  <2> QED BY <1>3, <2>1, <2>2, <2>3, <2>4 DEF PoolFine, ProxySet
<1>8. TurnsFine'
  <2>1. ASSUME NEW t \in Sets, NEW at \in Proxies, NEW other \in owed[t][at]
        PROVE  other <= Count(t)'
    <3>1. other <= Count(t) /\ other \in Nat
      <4>1. owed[t][at] \subseteq Proxies
        BY DEF PoolInv, TurnsFine
      <4>2. other \in Nat
        BY <4>1, SMT DEF Proxies
      <4> QED BY <4>2 DEF PoolInv, TurnsFine
    <3> QED BY <1>5, <3>1, SMT
  <2> QED BY <1>1, <1>6, <2>1 DEF PoolInv, TurnsFine, Proxies
<1> QED BY <1>7, <1>8 DEF PoolInv

LEMMA ClearStep ==
  ASSUME PoolInv, clearProxies
  PROVE  PoolInv'
<1>1. m_proxyPool' = <<>> /\ m_currentSet' = m_currentSet /\ owed' = NothingOwed
  BY DEF clearProxies
<1>2. DOMAIN m_proxyPool' = {} /\ m_proxyPool' \in [DOMAIN m_proxyPool' -> [proxies : Nat, nextProxy : Nat]]
  BY <1>1, SMT
<1>3. \A set \in Sets : Count(set)' = 0
  BY <1>2 DEF Count, Exists
<1>4. PoolFine'
  BY <1>1, <1>2, <1>3, PoolAssumption, SMT DEF PoolInv, PoolFine
<1>5. TurnsFine'
  BY <1>1 DEF TurnsFine, NothingOwed, Proxies
<1> QED BY <1>4, <1>5 DEF PoolInv

LEMMA ActivateStep ==
  ASSUME PoolInv, NEW set \in Sets, activateSet(set)
  PROVE  PoolInv'
<1>1. m_currentSet' = set /\ UNCHANGED <<m_proxyPool, early, owed>>
  BY DEF activateSet
<1>2. \A t \in Sets : Count(t)' = Count(t) /\ Upcoming(t)' = Upcoming(t)
  BY <1>1 DEF Count, Upcoming, Exists, Proxies
<1>3. Every \in Sets
  BY PoolAssumption
<1> QED BY <1>1, <1>2, <1>3 DEF PoolInv, PoolFine, TurnsFine, Proxies, Singular

\* The set that operator[] makes has no proxy, and a connection was asked of it.
LEMMA DirectStep ==
  ASSUME PoolInv, ConnectDirectly
  PROVE  PoolInv'
<1>1. /\ m_proxyPool' = usesProxies /\ early' = early \cup {m_currentSet}
      /\ UNCHANGED <<m_currentSet, owed>>
  BY DEF ConnectDirectly
<1>2. Singular \in Nat /\ Singular \notin Proxies
  BY PoolAssumption, SMT DEF Singular, Proxies
<1>3. Every \in Sets /\ m_currentSet \in Sets
  BY PoolAssumption DEF PoolInv, PoolFine
<1>4. CASE Exists(m_currentSet)
  <2>1. m_proxyPool' = m_proxyPool
    BY <1>1, <1>4 DEF usesProxies, Exists
  <2>2. \A t \in Sets : Count(t)' = Count(t) /\ Upcoming(t)' = Upcoming(t)
    BY <2>1 DEF Count, Upcoming, Exists, Proxies
  <2> QED BY <1>1, <1>3, <2>1, <2>2 DEF PoolInv, PoolFine, TurnsFine, Proxies, Singular
<1>5. CASE ~Exists(m_currentSet)
  <2> DEFINE r == [proxies |-> 0, nextProxy |-> Singular]
  <2>1. m_proxyPool' = [t \in DOMAIN m_proxyPool \cup {m_currentSet} |->
                          IF t = m_currentSet THEN r ELSE m_proxyPool[t]]
    BY <1>1, <1>5 DEF usesProxies, Exists, With
  <2>2. r \in ProxySet
    BY <1>2, SMT DEF ProxySet
  <2>3. r.proxies = 0 /\ r.nextProxy = Singular
    OBVIOUS
  <2> HIDE DEF r
  <2>4. m_proxyPool \in [DOMAIN m_proxyPool -> ProxySet]
    BY DEF PoolInv, PoolFine, ProxySet
  <2>5. /\ DOMAIN m_proxyPool' = DOMAIN m_proxyPool \cup {m_currentSet}
        /\ m_proxyPool' \in [DOMAIN m_proxyPool' -> ProxySet]
        /\ m_proxyPool'[m_currentSet] = r
        /\ \A t \in DOMAIN m_proxyPool : m_proxyPool'[t] = m_proxyPool[t]
    BY <1>5, <2>1, <2>2, <2>4 DEF Exists
  <2>6. \A t \in Sets : Count(t)' = Count(t) /\ Upcoming(t)' = Upcoming(t)
    BY <1>2, <1>5, <2>3, <2>5 DEF Count, Upcoming, Exists, Proxies
  <2>7. \A t \in DOMAIN m_proxyPool' :
          \/ m_proxyPool'[t].nextProxy \in 0 .. m_proxyPool'[t].proxies
          \/ m_proxyPool'[t].nextProxy = Singular /\ t \in early'
    BY <1>1, <1>5, <2>3, <2>5 DEF PoolInv, PoolFine, Exists
  <2> QED BY <1>1, <1>3, <2>5, <2>6, <2>7 DEF PoolInv, PoolFine, TurnsFine, Proxies, Singular, ProxySet
<1> QED BY <1>4, <1>5


\* The proxy that is taken is the upcoming one, and is owed nothing.
LEMMA TakenIsUpcoming ==
  ASSUME PoolInv, NEW at \in Proxies, getNextProxy(at)
  PROVE  /\ Exists(m_currentSet) /\ Active = m_proxyPool[m_currentSet]
         /\ at = Upcoming(m_currentSet) /\ at <= Count(m_currentSet)
         /\ Count(m_currentSet) = Active.proxies /\ Active.proxies \in Nat
         /\ owed[m_currentSet][at] = {}
<1> DEFINE c == m_currentSet
<1>1. c \in Sets /\ Active.proxies > 0 /\ Active.nextProxy # Singular
      /\ at = IF Active.nextProxy = 0 THEN 1 ELSE Active.nextProxy
  BY DEF getNextProxy, PoolInv, PoolFine, End
<1>2. Exists(c)
  <2>1. CASE ~Exists(c)
    <3>1. Active = [proxies |-> 0, nextProxy |-> Singular]
      BY <2>1 DEF Active, usesProxies, Exists, With
    <3> QED BY <1>1, <3>1, SMT
  <2> QED BY <2>1
<1>3. Active = m_proxyPool[c] /\ Count(c) = Active.proxies
  BY <1>2 DEF Active, usesProxies, Exists, Count
<1>4. Active.proxies \in Nat /\ Active.nextProxy \in 0 .. Active.proxies
  BY <1>1, <1>2, <1>3 DEF PoolInv, PoolFine, Exists
<1>5. Active.proxies <= MaxProxies
  <2>1. Count(c) <= Count(Every) /\ Count(Every) <= MaxProxies
    BY <1>1 DEF PoolInv, PoolFine
  <2>2. Count(Every) \in Nat
    BY SMT DEF Count, Exists, PoolInv, PoolFine
  <2> QED BY <1>3, <1>4, <2>1, <2>2, PoolAssumption, SMT
<1>6. at = Upcoming(c) /\ at <= Active.proxies
  <2>1. Active.nextProxy \in Proxies <=> Active.nextProxy # 0
    BY <1>4, <1>5, PoolAssumption, SMT DEF Proxies
  <2>2. at = Upcoming(c)
    BY <1>1, <1>2, <1>3, <2>1 DEF Upcoming
  <2>3. at <= Active.proxies
    BY <1>1, <1>4, SMT
  <2> QED BY <2>2, <2>3
<1>7. owed[c][at] = {}
  <2> SUFFICES ASSUME NEW other \in owed[c][at] PROVE FALSE
    OBVIOUS
  <2>1. owed[c][at] \subseteq Proxies
    BY <1>1 DEF PoolInv, TurnsFine
  <2>2. other \in Nat /\ at \in Nat
    BY <2>1, SMT DEF Proxies
  <2>3. IF at < Upcoming(c) THEN other < at \/ Upcoming(c) <= other
        ELSE Upcoming(c) <= other /\ other < at
    BY <1>1 DEF PoolInv, TurnsFine
  <2> QED BY <1>6, <2>2, <2>3, SMT
<1> QED BY <1>2, <1>3, <1>4, <1>6, <1>7

LEMMA TakeStep ==
  ASSUME PoolInv, NEW at \in Proxies, getNextProxy(at)
  PROVE  PoolInv'
<1>0. PICK c \in Sets : c = m_currentSet
  BY DEF PoolInv, PoolFine
<1> DEFINE n == Count(c)
           next == Following(at)
<1>1. /\ Exists(c) /\ Active = m_proxyPool[c] /\ at = Upcoming(c) /\ at <= n
      /\ n = Active.proxies /\ n \in Nat /\ c \in Sets
  BY <1>0, TakenIsUpcoming
<1>2. /\ m_proxyPool' = [m_proxyPool EXCEPT ![c].nextProxy = next]
      /\ owed' = [owed EXCEPT ![c] =
                   [other \in Proxies |-> (IF other = at THEN 1 .. Active.proxies ELSE @[other]) \ {at}]]
      /\ UNCHANGED <<m_currentSet, early>>
  BY <1>0 DEF getNextProxy
<1>3. at \in Nat /\ at >= 1 /\ n <= MaxProxies /\ MaxProxies \in Nat
  <2>1. n <= Count(Every) /\ Count(Every) <= MaxProxies
    BY <1>1 DEF PoolInv, PoolFine
  <2>2. Count(Every) \in Nat
    BY SMT DEF Count, Exists, PoolInv, PoolFine
  <2> QED BY <1>1, <2>1, <2>2, PoolAssumption, SMT DEF Proxies
<1>4. next = IF at = n THEN 0 ELSE at + 1
  BY <1>1 DEF Following, End
<1> HIDE DEF n, next
<1>5. next \in 0 .. n /\ next \in Nat
  BY <1>1, <1>3, <1>4, SMT
<1>6. m_proxyPool \in [DOMAIN m_proxyPool -> ProxySet] /\ c \in DOMAIN m_proxyPool
  BY <1>1 DEF PoolInv, PoolFine, ProxySet, Exists
<1>7. /\ DOMAIN m_proxyPool' = DOMAIN m_proxyPool
      /\ m_proxyPool' \in [DOMAIN m_proxyPool' -> ProxySet]
      /\ m_proxyPool'[c].nextProxy = next /\ m_proxyPool'[c].proxies = m_proxyPool[c].proxies
      /\ \A t \in DOMAIN m_proxyPool : t # c => m_proxyPool'[t] = m_proxyPool[t]
  <2>1. m_proxyPool[c] \in ProxySet
    BY <1>6
  <2>2. /\ [m_proxyPool[c] EXCEPT !.nextProxy = next] \in ProxySet
        /\ [m_proxyPool[c] EXCEPT !.nextProxy = next].nextProxy = next
        /\ [m_proxyPool[c] EXCEPT !.nextProxy = next].proxies = m_proxyPool[c].proxies
    BY <1>5, <2>1 DEF ProxySet
  <2>3. m_proxyPool' = [m_proxyPool EXCEPT ![c] = [m_proxyPool[c] EXCEPT !.nextProxy = next]]
    BY <1>2
  <2> QED BY <1>6, <2>2, <2>3
<1>8. \A t \in Sets : Count(t)' = Count(t)
  BY <1>6, <1>7 DEF Count, Exists
<1>9. \A t \in Sets : t # c => Upcoming(t)' = Upcoming(t)
  BY <1>7 DEF Upcoming, Exists, Proxies
<1> DEFINE u == Upcoming(c)'
<1>10. u = IF at = n THEN 1 ELSE at + 1
  <2>1. next \in Proxies <=> at # n
    BY <1>1, <1>3, <1>4, SMT DEF Proxies
  <2>2. u = IF next \in Proxies THEN next ELSE 1
    BY <1>6, <1>7 DEF Upcoming, Exists, Proxies
  <2> QED BY <1>4, <2>1, <2>2
<1>11. PoolFine'
  <2>1. \A t \in DOMAIN m_proxyPool' :
          \/ m_proxyPool'[t].nextProxy \in 0 .. m_proxyPool'[t].proxies
          \/ m_proxyPool'[t].nextProxy = Singular /\ t \in early'
    <3>1. n = m_proxyPool'[c].proxies
      BY <1>1, <1>7
    <3> QED BY <1>2, <1>5, <1>7, <3>1 DEF PoolInv, PoolFine
  <2>2. Every \in Sets
    BY PoolAssumption
  <2> QED BY <1>2, <1>7, <1>8, <2>1, <2>2 DEF PoolInv, PoolFine, ProxySet
<1> HIDE DEF u
<1>12. /\ owed' \in [Sets -> [Proxies -> SUBSET Proxies]]
       /\ \A t \in Sets : t # c => owed'[t] = owed[t]
       /\ \A x \in Proxies : owed'[c][x] = (IF x = at THEN 1 .. n ELSE owed[c][x]) \ {at}
  <2>1. owed \in [Sets -> [Proxies -> SUBSET Proxies]]
    BY DEF PoolInv, TurnsFine
  <2> DEFINE row == [other \in Proxies |-> (IF other = at THEN 1 .. n ELSE owed[c][other]) \ {at}]
  <2>2. 1 .. n \subseteq Proxies
    BY <1>1, <1>3, SMT DEF Proxies
  <2>3. row \in [Proxies -> SUBSET Proxies]
    BY <1>1, <2>1, <2>2
  <2>4. owed' = [owed EXCEPT ![c] = row]
    BY <1>1, <1>2
  <2>5. \A x \in Proxies : row[x] = (IF x = at THEN 1 .. n ELSE owed[c][x]) \ {at}
    OBVIOUS
  <2> HIDE DEF row
  <2> QED BY <1>1, <2>1, <2>3, <2>4, <2>5
<1>13. ASSUME NEW x \in Proxies, NEW other \in owed'[c][x]
       PROVE  /\ other <= n
              /\ IF x < u THEN other < x \/ u <= other ELSE u <= other /\ other < x
  <2>1. x \in Nat /\ x >= 1 /\ other # at
    BY <1>12, SMT DEF Proxies
  <2>2. CASE x = at
    <3>1. other \in 1 .. n
      BY <1>12, <2>2
    <3> QED BY <1>1, <1>3, <1>10, <2>1, <2>2, <3>1, SMT
  <2>3. CASE x # at
    <3>1. other \in owed[c][x]
      BY <1>12, <2>3
    <3>2. owed[c][x] \subseteq Proxies
      BY <1>1 DEF PoolInv, TurnsFine
    <3>3. other \in Nat /\ other >= 1
      BY <3>1, <3>2, SMT DEF Proxies
    <3>4. /\ other <= n
          /\ IF x < at THEN other < x \/ at <= other ELSE at <= other /\ other < x
      BY <1>1, <3>1 DEF PoolInv, TurnsFine, n
    <3> QED BY <1>1, <1>3, <1>10, <2>1, <2>3, <3>3, <3>4, SMT
  <2> QED BY <2>2, <2>3
<1>14. TurnsFine'
  <2>1. ASSUME NEW t \in Sets, NEW x \in Proxies, NEW other \in owed'[t][x]
        PROVE  /\ other <= Count(t)'
               /\ IF x < Upcoming(t)' THEN other < x \/ Upcoming(t)' <= other
                  ELSE Upcoming(t)' <= other /\ other < x
    <3>1. CASE t = c
      <4>1. Count(t)' = n /\ Upcoming(t)' = u
        <5>1. Upcoming(t)' = Upcoming(c)'
          BY <3>1
        <5>2. Count(t)' = Count(t) /\ Count(t) = n
          BY <1>8, <3>1 DEF n
        <5> QED BY <5>1, <5>2 DEF u
      <4> QED BY <1>13, <2>1, <3>1, <4>1
    <3>2. CASE t # c
      BY <1>8, <1>9, <1>12, <2>1, <3>2 DEF PoolInv, TurnsFine
    <3> QED BY <3>1, <3>2
  <2> QED BY <1>12, <2>1 DEF TurnsFine, Proxies
<1> QED BY <1>11, <1>14 DEF PoolInv

LEMMA NextPoolInv ==
  ASSUME PoolInv, [PoolNext]_allVars
  PROVE  PoolInv'
<1>1. ASSUME UNCHANGED pool PROVE PoolInv'
  <2>1. \A t \in Sets : Count(t)' = Count(t) /\ Upcoming(t)' = Upcoming(t)
    BY <1>1 DEF pool, Count, Upcoming, Exists, Proxies
  <2>2. Every \in Sets
    BY PoolAssumption
  <2> QED BY <1>1, <2>1, <2>2 DEF pool, PoolInv, PoolFine, TurnsFine, Proxies, Singular
<1>2. CASE \E set \in Sets : addProxy(set) \/ activateSet(set)
  BY <1>2, AddProxyStep, ActivateStep
<1>3. CASE clearProxies
  BY <1>3, ClearStep
<1>4. CASE connectStream
  <2>1. CASE ConnectDirectly
    BY <2>1, DirectStep
  <2>2. CASE ConnectByProxy
    BY <2>2, TakeStep DEF ConnectByProxy
  <2>3. CASE ReadsSingular
    BY <1>1, <2>3 DEF ReadsSingular
  <2> QED BY <1>4, <2>1, <2>2, <2>3 DEF connectStream
<1>5. CASE Kept(Life) \/ Kept(Done) \/ UNCHANGED allVars
  BY <1>1, <1>5 DEF Kept, allVars
<1> QED BY <1>2, <1>3, <1>4, <1>5 DEF PoolNext

\* CursorIsValid, for any sets and any number of proxies: no addition, clearing
\* or activation leaves a cursor pointing outside its list, except the one that
\* operator[] makes when a connection is asked of a set without proxies.
THEOREM CursorsAreValid == Safe => []CursorIsValid
<1>1. PoolInv => CursorIsValid
  BY DEF PoolInv, PoolFine, CursorIsValid
<1>2. PoolInit => PoolInv
  BY InitPoolInv
<1>3. PoolInv /\ [PoolNext]_allVars => PoolInv'
  BY NextPoolInv
<1> QED BY <1>1, <1>2, <1>3, PTL DEF Safe

\* ProxiesTakeTurns, for any sets and any number of proxies: what a proxy still
\* waits for lies between the cursor and that proxy on the way around the list,
\* so nothing does when the cursor is back, although sets grow meanwhile and
\* other sets are active.
THEOREM TurnsAreTaken == Safe => ProxiesTakeTurns
<1>1. PoolInv => (\A at \in Proxies : getNextProxy(at) => owed[m_currentSet][at] = {})
  BY TakenIsUpcoming
<1>2. PoolInit => PoolInv
  BY InitPoolInv
<1>3. PoolInv /\ [PoolNext]_allVars => PoolInv'
  BY NextPoolInv
<1> QED BY <1>1, <1>2, <1>3, PTL DEF Safe, ProxiesTakeTurns


-----------------------------------------------------------------------------
(* What dataRead cuts the stream into. *)

\* The bytes looked at and the rest are the stream.
Splits(bytes, rest) ==
  /\ bytes \in Seq(Bytes) /\ rest \in Seq(Bytes) /\ Len(bytes) >= 1
  /\ Len(Stream) = Len(bytes) + Len(rest)
  /\ \A i \in 1 .. Len(bytes) : Stream[i] = bytes[i]
  /\ \A i \in 1 .. Len(rest) : Stream[Len(bytes) + i] = rest[i]

LEMMA StreamFacts ==
  ASSUME NEW b \in Seq(Bytes), NEW q \in Seq(Bytes)
  PROVE  /\ b \o q \in Seq(Bytes) /\ Len(b \o q) = Len(b) + Len(q)
         /\ Len(b) \in Nat /\ Len(q) \in Nat
         /\ \A i \in 1 .. Len(b) : (b \o q)[i] = b[i]
         /\ \A i \in 1 .. Len(q) : (b \o q)[Len(b) + i] = q[i]
<1>1. /\ b \o q \in Seq(Bytes) /\ Len(b \o q) = Len(b) + Len(q)
      /\ \A i \in 1 .. Len(b) + Len(q) : (b \o q)[i] = IF i <= Len(b) THEN b[i] ELSE q[i - Len(b)]
  BY ConcatProperties
<1>2. Len(b) \in Nat /\ Len(q) \in Nat
  BY SMT
<1>3. ASSUME NEW i \in 1 .. Len(b) PROVE (b \o q)[i] = b[i]
  <2>1. i \in 1 .. Len(b) + Len(q) /\ i <= Len(b)
    BY <1>2, SMT
  <2> QED BY <1>1, <2>1
<1>4. ASSUME NEW i \in 1 .. Len(q) PROVE (b \o q)[Len(b) + i] = q[i]
  <2>1. Len(b) + i \in 1 .. Len(b) + Len(q) /\ ~(Len(b) + i <= Len(b)) /\ Len(b) + i - Len(b) = i
    BY <1>2, SMT
  <2> QED BY <1>1, <2>1
<1> QED BY <1>1, <1>2, <1>3, <1>4

LEMMA CutFacts ==
  ASSUME NEW q \in Seq(Bytes), NEW n \in 1 .. Len(q)
  PROVE  /\ SubSeq(q, 1, n) \in Seq(Bytes) /\ Len(SubSeq(q, 1, n)) = n
         /\ SubSeq(q, n + 1, Len(q)) \in Seq(Bytes) /\ Len(SubSeq(q, n + 1, Len(q))) = Len(q) - n
         /\ \A i \in 1 .. n : SubSeq(q, 1, n)[i] = q[i]
         /\ \A i \in 1 .. Len(q) - n : SubSeq(q, n + 1, Len(q))[i] = q[n + i]
<1> DEFINE l == Len(q)
           m == n + 1
           f == SubSeq(q, 1, n)
           g == SubSeq(q, m, l)
<1>1. /\ l \in Nat /\ n \in Nat /\ n >= 1 /\ n <= l /\ m = n + 1
      /\ \A i \in 1 .. l : q[i] \in Bytes
  BY SMT
<1>2. /\ 1 \in Int /\ m \in Int /\ n \in Int /\ l \in Int
      /\ (\A i \in 1 .. n : q[i] \in Bytes) /\ (\A i \in m .. l : q[i] \in Bytes)
  BY <1>1, SMT
<1> HIDE DEF m, l
<1>3. f \in Seq(Bytes) /\ Len(f) = (IF 1 <= n THEN n - 1 + 1 ELSE 0)
      /\ \A i \in 1 .. n - 1 + 1 : f[i] = q[1 + i - 1]
  BY <1>2, SubSeqProperties
<1>4. g \in Seq(Bytes) /\ Len(g) = (IF m <= l THEN l - m + 1 ELSE 0)
      /\ \A i \in 1 .. l - m + 1 : g[i] = q[m + i - 1]
  BY <1>2, SubSeqProperties
<1> HIDE DEF f, g
<1>5. Len(f) = n /\ \A i \in 1 .. n : f[i] = q[i]
  BY <1>1, <1>3, SMT
<1>6. Len(g) = l - n /\ \A i \in 1 .. l - n : g[i] = q[n + i]
  BY <1>1, <1>4, SMT
<1> QED BY <1>3, <1>4, <1>5, <1>6 DEF f, g, m, l

LEMMA ReadSplits ==
  ASSUME Typed, NEW n \in 1 .. Len(inbox)
  PROVE  Splits(m_buffer \o SubSeq(inbox, 1, n), SubSeq(inbox, n + 1, Len(inbox)))
<1> DEFINE chunk == SubSeq(inbox, 1, n)
           rest == SubSeq(inbox, n + 1, Len(inbox))
           bytes == m_buffer \o chunk
<1>1. /\ inbox \in Seq(Bytes) /\ m_buffer \in Seq(Bytes) /\ Len(inbox) \in Nat /\ n \in Nat
      /\ n >= 1 /\ n <= Len(inbox)
  BY SMT DEF Typed
<1>2. /\ chunk \in Seq(Bytes) /\ Len(chunk) = n /\ rest \in Seq(Bytes) /\ Len(rest) = Len(inbox) - n
      /\ \A i \in 1 .. n : chunk[i] = inbox[i]
      /\ \A i \in 1 .. Len(inbox) - n : rest[i] = inbox[n + i]
  BY <1>1, CutFacts
<1> HIDE DEF chunk, rest
<1>3. /\ bytes \in Seq(Bytes) /\ Len(bytes) = Len(m_buffer) + Len(chunk) /\ Len(m_buffer) \in Nat
      /\ \A i \in 1 .. Len(m_buffer) : bytes[i] = m_buffer[i]
      /\ \A i \in 1 .. Len(chunk) : bytes[Len(m_buffer) + i] = chunk[i]
  BY <1>1, <1>2, StreamFacts
<1>4. /\ Len(Stream) = Len(m_buffer) + Len(inbox)
      /\ \A i \in 1 .. Len(m_buffer) : Stream[i] = m_buffer[i]
      /\ \A i \in 1 .. Len(inbox) : Stream[Len(m_buffer) + i] = inbox[i]
  BY <1>1, StreamFacts DEF Stream
<1> HIDE DEF bytes
<1> DEFINE b == Len(m_buffer)
<1>5. Len(bytes) = b + n /\ Len(bytes) >= 1 /\ Len(Stream) = Len(bytes) + Len(rest)
  BY <1>1, <1>2, <1>3, <1>4, SMT
<1> HIDE DEF b
<1>6. ASSUME NEW i \in 1 .. Len(bytes) PROVE Stream[i] = bytes[i]
  <2>1. CASE i <= b
    <3>1. i \in 1 .. b
      BY <1>1, <1>3, <1>5, <2>1, SMT DEF b
    <3> QED BY <1>3, <1>4, <3>1 DEF b
  <2>2. CASE ~(i <= b)
    <3>1. i - b \in 1 .. n /\ i - b \in 1 .. Len(inbox) /\ b + (i - b) = i
      BY <1>1, <1>3, <1>5, <2>2, SMT DEF b
    <3>2. Stream[b + (i - b)] = inbox[i - b]
      BY <1>4, <3>1 DEF b
    <3>3. bytes[b + (i - b)] = chunk[i - b]
      BY <1>2, <1>3, <3>1 DEF b
    <3> QED BY <1>2, <3>1, <3>2, <3>3
  <2> QED BY <2>1, <2>2
<1>7. ASSUME NEW i \in 1 .. Len(rest) PROVE Stream[Len(bytes) + i] = rest[i]
  <2>1. i \in 1 .. Len(inbox) - n /\ n + i \in 1 .. Len(inbox) /\ Len(bytes) + i = b + (n + i)
    BY <1>1, <1>2, <1>3, <1>5, SMT DEF b
  <2>2. Stream[b + (n + i)] = inbox[n + i]
    BY <1>4, <2>1 DEF b
  <2> QED BY <1>2, <2>1, <2>2
<1>8. Splits(bytes, rest)
  BY <1>2, <1>3, <1>5, <1>6, <1>7 DEF Splits
<1> QED BY <1>8 DEF bytes, rest, chunk


-----------------------------------------------------------------------------
(* What the socket does with the bytes.                                    *)

\* What is left is put together again.
LEMMA Glue ==
  ASSUME NEW bytes, NEW rest, Splits(bytes, rest)
  PROVE  /\ Len(bytes \o rest) = Len(Stream) /\ Len(Stream) \in Nat
         /\ \A i \in 1 .. Len(Stream) : (bytes \o rest)[i] = Stream[i]
<1>1. /\ bytes \in Seq(Bytes) /\ rest \in Seq(Bytes) /\ Len(Stream) = Len(bytes) + Len(rest)
      /\ \A i \in 1 .. Len(bytes) : Stream[i] = bytes[i]
      /\ \A i \in 1 .. Len(rest) : Stream[Len(bytes) + i] = rest[i]
  BY DEF Splits
<1>2. /\ Len(bytes \o rest) = Len(bytes) + Len(rest) /\ Len(bytes) \in Nat /\ Len(rest) \in Nat
      /\ \A i \in 1 .. Len(bytes) : (bytes \o rest)[i] = bytes[i]
      /\ \A i \in 1 .. Len(rest) : (bytes \o rest)[Len(bytes) + i] = rest[i]
  BY <1>1, StreamFacts
<1>3. ASSUME NEW i \in 1 .. Len(Stream) PROVE (bytes \o rest)[i] = Stream[i]
  <2>1. CASE i <= Len(bytes)
    <3>1. i \in 1 .. Len(bytes)
      BY <1>1, <1>2, <2>1, SMT
    <3> QED BY <1>1, <1>2, <3>1
  <2>2. CASE ~(i <= Len(bytes))
    <3>1. i - Len(bytes) \in 1 .. Len(rest) /\ Len(bytes) + (i - Len(bytes)) = i
      BY <1>1, <1>2, <2>2, SMT
    <3>2. /\ (bytes \o rest)[Len(bytes) + (i - Len(bytes))] = rest[i - Len(bytes)]
          /\ Stream[Len(bytes) + (i - Len(bytes))] = rest[i - Len(bytes)]
      BY <1>1, <1>2, <3>1
    <3> QED BY <3>1, <3>2
  <2> QED BY <2>1, <2>2
<1>4. Len(Stream) \in Nat
  BY <1>1, <1>2, SMT
<1> QED BY <1>1, <1>2, <1>3, <1>4

\* After a complete answer, or with a part of one thrown away, the rest remains.
LEMMA Rest ==
  ASSUME NEW bytes, NEW rest, Splits(bytes, rest), m_buffer' = <<>>, inbox' = rest
  PROVE  /\ Len(Stream') = Len(Stream) - Len(bytes) /\ Len(Stream) \in Nat /\ Len(bytes) \in Nat
         /\ \A i \in 1 .. Len(Stream') : Stream'[i] = Stream[Len(bytes) + i]
<1>1. /\ bytes \in Seq(Bytes) /\ rest \in Seq(Bytes) /\ Len(Stream) = Len(bytes) + Len(rest)
      /\ \A i \in 1 .. Len(rest) : Stream[Len(bytes) + i] = rest[i]
  BY DEF Splits
<1>2. Stream' = rest
  BY <1>1, ConcatEmptySeq DEF Stream
<1>3. Len(bytes) \in Nat /\ Len(rest) \in Nat
  BY <1>1, SMT
<1>4. Len(rest) = Len(Stream) - Len(bytes) /\ Len(Stream) \in Nat
  BY <1>1, <1>3, SMT
<1> QED BY <1>1, <1>2, <1>3, <1>4

\* The socket is gone: nothing more is said of the stream.
LEMMA GoneStep ==
  ASSUME SocketInv, base' = "gone", inbox' \in Seq(Bytes), ub' \in BOOLEAN, cut' = cut,
         UNCHANGED <<m_proxyStatus, m_buffer, m_finalClientEndpoint, asked, answered, junk, data,
                     good, relayed>>,
         calls' = calls \/ \E outcome \in Outcomes : calls' = Append(calls, outcome)
  PROVE  SocketInv'
<1>1. calls \in Seq(Outcomes \cup {"connectionEstablished"})
  BY DEF SocketInv, Typed
<1>2. EstablishedWhenGranted' /\ calls' \in Seq(Outcomes \cup {"connectionEstablished"})
  <2>1. CASE calls' = calls
    BY <1>1, <2>1 DEF SocketInv, EstablishedWhenGranted, Granted
  <2>2. ASSUME NEW outcome \in Outcomes, calls' = Append(calls, outcome)
        PROVE  EstablishedWhenGranted' /\ calls' \in Seq(Outcomes \cup {"connectionEstablished"})
    <3>1. /\ calls' \in Seq(Outcomes \cup {"connectionEstablished"})
          /\ Len(calls') = Len(calls) + 1
          /\ \A i \in 1 .. Len(calls) : calls'[i] = calls[i]
          /\ calls'[Len(calls) + 1] = outcome
      BY <1>1, <2>2, AppendProperties
    <3>2. Len(calls) \in Nat /\ DOMAIN calls = 1 .. Len(calls) /\ DOMAIN calls' = 1 .. Len(calls')
      BY <1>1, <3>1, SMT
    <3>3. \A i \in DOMAIN calls' : i \in DOMAIN calls \/ i = Len(calls) + 1
      BY <3>1, <3>2, SMT
    <3>4. outcome # "connectionEstablished"
      BY DEF Outcomes
    <3> QED BY <3>1, <3>2, <3>3, <3>4 DEF SocketInv, EstablishedWhenGranted, Granted
  <2> QED BY <2>1, <2>2
<1>3. Typed'
  BY <1>2 DEF SocketInv, Typed, Bytes, Outcomes
<1>4. /\ Fresh' /\ InStep' /\ NotAnswered' /\ VidAnswered' /\ UserauthAnswered' /\ ConnAnswered'
      /\ Relaying'
  BY DEF Fresh, InStep, NotAnswered, VidAnswered, UserauthAnswered, ConnAnswered, Relaying, Negotiating
<1>5. InOrder'
  BY DEF SocketInv, InOrder
<1> QED BY <1>2, <1>3, <1>4, <1>5 DEF SocketInv

\* Part of an answer is kept.
LEMMA WaitsStep ==
  ASSUME SocketInv, Negotiating, NEW bytes, NEW rest, Splits(bytes, rest), Len(bytes) < ConnLen,
         Waits(bytes), inbox' = rest, UNCHANGED <<answered, junk, data, good>>
  PROVE  SocketInv'
<1>1. /\ m_buffer' = bytes
      /\ UNCHANGED <<base, m_proxyStatus, m_finalClientEndpoint, asked, calls, relayed, cut, ub>>
  BY DEF Waits, endpoint
<1>2. bytes \in Seq(Bytes) /\ rest \in Seq(Bytes)
  BY DEF Splits
<1>3. /\ Len(Stream') = Len(Stream) /\ Len(Stream) \in Nat
      /\ \A i \in 1 .. Len(Stream) : Stream'[i] = Stream[i]
  BY <1>1, Glue DEF Stream
<1>4. Typed'
  BY <1>1, <1>2 DEF SocketInv, Typed, Negotiating, Bytes, Outcomes
<1>5. Fresh' /\ InStep' /\ Relaying' /\ InOrder' /\ EstablishedWhenGranted'
  BY <1>1 DEF SocketInv, Fresh, InStep, Relaying, InOrder, EstablishedWhenGranted, Granted, Negotiating
<1>6. NotAnswered'
  BY <1>1, <1>3 DEF SocketInv, NotAnswered, Negotiating
<1>7. VidAnswered'
  <2>1. Len(Stream) >= 2 => Stream'[1] = Stream[1] /\ Stream'[2] = Stream[2]
    BY <1>3, SMT
  <2>2. \A i \in 3 .. Len(Stream) : Stream'[i] = Stream[i]
    BY <1>3, SMT
  <2> QED BY <1>1, <1>3, <2>1, <2>2 DEF SocketInv, VidAnswered, Negotiating
<1>8. UserauthAnswered'
  <2> SUFFICES ASSUME Negotiating', answered' = Len(asked'), m_proxyStatus' = "WAIT_USERAUTH",
                      NEW i \in 1 .. Len(Stream') - 1, Stream'[i] = 1, Stream'[i + 1] = 0
               PROVE  good' /\ \A k \in i + 2 .. Len(Stream') : Stream'[k] = Junk
    BY <1>1 DEF SocketInv, UserauthAnswered, Negotiating
  <2>1. /\ i \in 1 .. Len(Stream) - 1 /\ i \in 1 .. Len(Stream) /\ i + 1 \in 1 .. Len(Stream)
        /\ \A k \in i + 2 .. Len(Stream) : k \in 1 .. Len(Stream)
    BY <1>3, SMT
  <2>2. Stream[i] = 1 /\ Stream[i + 1] = 0
    BY <1>3, <2>1
  <2>3. good /\ \A k \in i + 2 .. Len(Stream) : Stream[k] = Junk
    BY <1>1, <2>1, <2>2 DEF SocketInv, UserauthAnswered, Negotiating
  <2> QED BY <1>3, <2>1, <2>3
<1>9. ConnAnswered'
  <2> SUFFICES ASSUME Negotiating', answered' = Len(asked'), m_proxyStatus' = "WAIT_CONN"
               PROVE  /\ Len(Stream') >= ConnLen
                      /\ Stream'[1] = 5 /\ Stream'[2] = 0 =>
                           /\ good' /\ Len(Stream') = ConnLen + data'
                           /\ \A i \in 1 .. data' : Stream'[ConnLen + i] = DataFrom + i
    BY DEF ConnAnswered
  <2>1. /\ Len(Stream) >= ConnLen
        /\ Stream[1] = 5 /\ Stream[2] = 0 =>
             /\ good /\ Len(Stream) = ConnLen + data
             /\ \A i \in 1 .. data : Stream[ConnLen + i] = DataFrom + i
    BY <1>1 DEF SocketInv, ConnAnswered, Negotiating
  <2>2. 1 \in 1 .. Len(Stream) /\ 2 \in 1 .. Len(Stream)
    BY <1>3, <2>1, ProxyAssumption, SMT
  <2>3. data \in Nat
    BY SMT, ProxyAssumption DEF SocketInv, Typed
  <2>4. Len(Stream) = ConnLen + data => \A i \in 1 .. data : ConnLen + i \in 1 .. Len(Stream)
    BY <1>3, <2>3, ProxyAssumption, SMT
  <2> QED BY <1>3, <2>1, <2>2, <2>4
<1> QED BY <1>4, <1>5, <1>6, <1>7, <1>8, <1>9 DEF SocketInv

LEMMA AppendIs ==
  ASSUME NEW s, NEW u, NEW c, NEW S, s \in Seq(S), u \in Seq(S), c \in S,
         Len(u) = Len(s) + 1, \A i \in 1 .. Len(s) : u[i] = s[i], u[Len(s) + 1] = c
  PROVE  Append(s, c) = u
<1>1. /\ Append(s, c) \in Seq(S) /\ Len(Append(s, c)) = Len(s) + 1
      /\ \A i \in 1 .. Len(s) : Append(s, c)[i] = s[i]
      /\ Append(s, c)[Len(s) + 1] = c
  BY AppendProperties
<1> DEFINE t == Append(s, c)
<1> HIDE DEF t
<1>2. \A i \in 1 .. Len(t) : t[i] = u[i]
  <2>1. Len(s) \in Nat
    BY SMT
  <2>2. \A i \in 1 .. Len(t) : i \in 1 .. Len(s) \/ i = Len(s) + 1
    BY <1>1, <2>1, SMT DEF t
  <2> QED BY <1>1, <2>2 DEF t
<1>3. t = u
  BY <1>1, <1>2, SeqEqual DEF t
<1> QED BY <1>3 DEF t

\* The requests one after the other.
LEMMA Requests ==
  /\ Append(<<"vid">>, "auth") = <<"vid", "auth">>
  /\ Append(<<"vid">>, "conn") = <<"vid", "conn">>
  /\ Append(<<"vid", "auth">>, "conn") = <<"vid", "auth", "conn">>
<1> DEFINE S == {"vid", "auth", "conn"}
           one == <<"vid">>
           auth == <<"vid", "auth">>
           conn == <<"vid", "conn">>
           all == <<"vid", "auth", "conn">>
<1>1. "auth" \in S /\ "conn" \in S /\ one \in Seq(S) /\ auth \in Seq(S) /\ conn \in Seq(S) /\ all \in Seq(S)
  BY SMT
<1>2. /\ Len(one) = 1 /\ Len(auth) = 2 /\ Len(conn) = 2 /\ Len(all) = 3
      /\ one[1] = "vid" /\ auth[1] = "vid" /\ auth[2] = "auth" /\ conn[1] = "vid" /\ conn[2] = "conn"
      /\ all[1] = "vid" /\ all[2] = "auth" /\ all[3] = "conn"
  BY SMT
<1> HIDE DEF S, one, auth, conn, all
<1>3. /\ Len(auth) = Len(one) + 1 /\ Len(conn) = Len(one) + 1 /\ Len(all) = Len(auth) + 1
      /\ \A i \in 1 .. Len(one) : auth[i] = one[i] /\ conn[i] = one[i]
      /\ \A i \in 1 .. Len(auth) : all[i] = auth[i]
      /\ auth[Len(one) + 1] = "auth" /\ conn[Len(one) + 1] = "conn" /\ all[Len(auth) + 1] = "conn"
  BY <1>2, SMT
<1>4. Append(one, "auth") = auth
  BY <1>1, <1>3, AppendIs
<1>5. Append(one, "conn") = conn
  BY <1>1, <1>3, AppendIs
<1>6. Append(auth, "conn") = all
  BY <1>1, <1>3, AppendIs
<1> QED BY <1>4, <1>5, <1>6 DEF one, auth, conn, all

\* An answer is accepted and the next request sent: what is left was sent out of
\* turn.
LEMMA StepStep ==
  ASSUME SocketInv, Negotiating, NEW bytes, NEW rest, Splits(bytes, rest), NEW status, NEW request,
         Step(status, request), inbox' = rest, UNCHANGED <<answered, junk, data, good>>,
         \/ status = "WAIT_USERAUTH" /\ request = "auth" /\ m_proxyStatus = "WAIT_VID"
         \/ status = "WAIT_CONN" /\ request = "conn" /\ m_proxyStatus \in {"WAIT_VID", "WAIT_USERAUTH"},
         answered = Len(asked), good, data = 0,
         \A i \in Len(bytes) + 1 .. Len(Stream) : Stream[i] = Junk
  PROVE  SocketInv'
<1>1. /\ m_proxyStatus' = status /\ asked' = Append(asked, request) /\ m_buffer' = <<>>
      /\ UNCHANGED <<base, m_finalClientEndpoint, calls, relayed, cut, ub>>
  BY DEF Step, Asks, endpoint
<1>2. rest \in Seq(Bytes)
  BY DEF Splits
<1>3. /\ calls = <<>> /\ relayed = <<>>
      /\ \/ m_proxyStatus = "WAIT_VID" /\ asked = <<"vid">>
         \/ m_proxyStatus = "WAIT_USERAUTH" /\ asked = <<"vid", "auth">>
         \/ m_proxyStatus = "WAIT_CONN"
  BY DEF SocketInv, InStep
<1>4. /\ \/ status = "WAIT_USERAUTH" /\ asked' = <<"vid", "auth">>
         \/ status = "WAIT_CONN" /\ asked' \in {<<"vid", "conn">>, <<"vid", "auth", "conn">>}
      /\ answered' = Len(asked') - 1 /\ answered' \in Nat
  <2>1. /\ Len(<<"vid">>) = 1 /\ Len(<<"vid", "auth">>) = 2 /\ Len(<<"vid", "conn">>) = 2
        /\ Len(<<"vid", "auth", "conn">>) = 3
    OBVIOUS
  <2>2. CASE m_proxyStatus = "WAIT_VID" /\ status = "WAIT_USERAUTH" /\ request = "auth"
    <3>1. asked = <<"vid">> /\ asked' = <<"vid", "auth">>
      BY <1>1, <1>3, <2>2, Requests
    <3> QED BY <2>1, <2>2, <3>1, SMT
  <2>3. CASE m_proxyStatus = "WAIT_VID" /\ status = "WAIT_CONN" /\ request = "conn"
    <3>1. asked = <<"vid">> /\ asked' = <<"vid", "conn">>
      BY <1>1, <1>3, <2>3, Requests
    <3> QED BY <2>1, <2>3, <3>1, SMT
  <2>4. CASE m_proxyStatus = "WAIT_USERAUTH" /\ status = "WAIT_CONN" /\ request = "conn"
    <3>1. asked = <<"vid", "auth">> /\ asked' = <<"vid", "auth", "conn">>
      BY <1>1, <1>3, <2>4, Requests
    <3> QED BY <2>1, <2>4, <3>1, SMT
  <2> QED BY <2>2, <2>3, <2>4
<1>5. asked' \in Seq({"vid", "auth", "conn"}) /\ answered' \in 0 .. Len(asked')
  BY <1>4, SMT
<1>6. /\ Len(Stream') = Len(Stream) - Len(bytes) /\ Len(Stream) \in Nat /\ Len(bytes) \in Nat
      /\ \A i \in 1 .. Len(Stream') : Stream'[i] = Stream[Len(bytes) + i]
  BY <1>1, Rest
<1>7. Typed'
  <2>1. m_buffer' \in Seq(Bytes') /\ Len(m_buffer') < ConnLen
    BY <1>1, ProxyAssumption, SMT
  <2>2. inbox' \in Seq(Bytes')
    BY <1>2 DEF Bytes
  <2>3. m_proxyStatus' \in {"NONE", "WAIT_VID", "WAIT_USERAUTH", "WAIT_CONN"}
    BY <1>1, <1>4
  <2> QED BY <1>1, <1>5, <2>1, <2>2, <2>3 DEF SocketInv, Typed, Bytes, Outcomes
<1>8. Negotiating' /\ base = "up" /\ m_finalClientEndpoint
  BY <1>1 DEF Negotiating
<1>9. answered' < Len(asked') /\ answered' # Len(asked')
  BY <1>4, SMT
<1>10. NotAnswered'
  <2>1. \A i \in 1 .. Len(Stream') : Len(bytes) + i \in Len(bytes) + 1 .. Len(Stream)
    BY <1>6, SMT
  <2> QED BY <1>6, <2>1 DEF NotAnswered
<1>11. InStep'
  BY <1>1, <1>3, <1>4 DEF InStep
<1>12. Fresh' /\ VidAnswered' /\ UserauthAnswered' /\ ConnAnswered' /\ Relaying'
  BY <1>1, <1>8, <1>9 DEF Fresh, VidAnswered, UserauthAnswered, ConnAnswered, Relaying
<1>13. InOrder' /\ EstablishedWhenGranted'
  BY <1>1, <1>3 DEF SocketInv, InOrder, EstablishedWhenGranted
<1> QED BY <1>7, <1>10, <1>11, <1>12, <1>13 DEF SocketInv

\* A request that is unanswered lets nothing through that the socket would take
\* for its answer.
LEMMA AnsweredFirst ==
  ASSUME SocketInv, Negotiating, NEW bytes, NEW rest, Splits(bytes, rest), bytes[1] # Junk
  PROVE  answered = Len(asked)
<1>1. Stream[1] = bytes[1] /\ 1 \in 1 .. Len(Stream)
  BY SMT DEF Splits
<1>2. ~(answered < Len(asked)) /\ answered \in 0 .. Len(asked) /\ Len(asked) \in Nat
  BY <1>1, SMT DEF SocketInv, NotAnswered, Typed
<1> QED BY <1>2, SMT

\* Half an answer to user and password is thrown away.
LEMMA CutStep ==
  ASSUME SocketInv, Negotiating, m_proxyStatus = "WAIT_USERAUTH",
         NEW bytes, NEW rest, Splits(bytes, rest), Len(bytes) = 1, inbox' = rest,
         cut' = TRUE, m_buffer' = <<>>,
         UNCHANGED <<base, m_proxyStatus, m_finalClientEndpoint, asked, endpoint, ub>>,
         UNCHANGED <<answered, junk, data, good>>
  PROVE  SocketInv'
<1>1. rest \in Seq(Bytes)
  BY DEF Splits
<1>2. /\ Len(Stream') = Len(Stream) - 1 /\ Len(Stream) \in Nat
      /\ \A i \in 1 .. Len(Stream') : Stream'[i] = Stream[1 + i]
  BY Rest
<1>3. Typed'
  <2>1. m_buffer' \in Seq(Bytes') /\ Len(m_buffer') < ConnLen
    BY ProxyAssumption, SMT
  <2>2. inbox' \in Seq(Bytes')
    BY <1>1 DEF Bytes
  <2> QED BY <2>1, <2>2 DEF SocketInv, Typed, Bytes, Outcomes, endpoint
<1>4. /\ Fresh' /\ InStep' /\ VidAnswered' /\ ConnAnswered' /\ Relaying' /\ InOrder'
      /\ EstablishedWhenGranted'
  BY DEF SocketInv, Fresh, InStep, VidAnswered, ConnAnswered, Relaying, InOrder,
         EstablishedWhenGranted, Granted, Negotiating, endpoint
<1>5. NotAnswered'
  <2>1. \A i \in 1 .. Len(Stream') : 1 + i \in 1 .. Len(Stream)
    BY <1>2, SMT
  <2> QED BY <1>2, <2>1 DEF SocketInv, NotAnswered, Negotiating
<1>6. UserauthAnswered'
  <2> SUFFICES ASSUME answered = Len(asked)
               PROVE  /\ data' = 0
                      /\ \A i \in 1 .. Len(Stream') - 1 :
                           Stream'[i] = 1 /\ Stream'[i + 1] = 0 =>
                             good' /\ \A k \in i + 2 .. Len(Stream') : Stream'[k] = Junk
    BY DEF UserauthAnswered
  <2>1. /\ data = 0
        /\ \A i \in 1 .. Len(Stream) - 1 :
             Stream[i] = 1 /\ Stream[i + 1] = 0 =>
               good /\ \A k \in i + 2 .. Len(Stream) : Stream[k] = Junk
    BY DEF SocketInv, UserauthAnswered
  <2>2. ASSUME NEW i \in 1 .. Len(Stream') - 1, Stream'[i] = 1, Stream'[i + 1] = 0
        PROVE  good' /\ \A k \in i + 2 .. Len(Stream') : Stream'[k] = Junk
    <3> DEFINE j == 1 + i
    <3>1. /\ j \in 1 .. Len(Stream) - 1 /\ i \in 1 .. Len(Stream') /\ i + 1 \in 1 .. Len(Stream')
          /\ 1 + (i + 1) = j + 1
          /\ \A k \in i + 2 .. Len(Stream') : k \in 1 .. Len(Stream') /\ 1 + k \in j + 2 .. Len(Stream)
      BY <1>2, SMT
    <3>2. Stream[j] = 1 /\ Stream[j + 1] = 0
      BY <1>2, <2>2, <3>1
    <3> HIDE DEF j
    <3>3. good /\ \A k \in j + 2 .. Len(Stream) : Stream[k] = Junk
      BY <2>1, <3>1, <3>2
    <3> QED BY <1>2, <3>1, <3>3
  <2> QED BY <2>1, <2>2
<1> QED BY <1>3, <1>4, <1>5, <1>6 DEF SocketInv

\* What the program's endpoint is told when the endpoints are exchanged.
LEMMA Told ==
  /\ Append(<<>>, "connectionEstablished") = <<"connectionEstablished">>
  /\ <<>> \o <<"connectionEstablished", "connectionClosed">> =
       <<"connectionEstablished", "connectionClosed">>
  /\ <<"connectionEstablished">> \in Seq(Outcomes \cup {"connectionEstablished"})
  /\ <<"connectionEstablished", "connectionClosed">> \in Seq(Outcomes \cup {"connectionEstablished"})
  /\ \A i \in DOMAIN <<"connectionEstablished">> : i = 1
  /\ \A i \in DOMAIN <<"connectionEstablished", "connectionClosed">> :
       <<"connectionEstablished", "connectionClosed">>[i] = "connectionEstablished" => i = 1
<1> DEFINE S == Outcomes \cup {"connectionEstablished"}
           none == <<>>
           one == <<"connectionEstablished">>
           two == <<"connectionEstablished", "connectionClosed">>
<1>1. none \in Seq(S) /\ one \in Seq(S) /\ two \in Seq(S) /\ "connectionEstablished" \in S
  BY SMT DEF Outcomes
<1>2. /\ Len(none) = 0 /\ Len(one) = 1 /\ one[1] = "connectionEstablished"
      /\ Len(two) = 2 /\ two[2] # "connectionEstablished"
  BY SMT
<1>3. DOMAIN one = 1 .. Len(one) /\ DOMAIN two = 1 .. Len(two)
  BY SMT
<1> HIDE DEF S, none, one, two
<1>4. Len(one) = Len(none) + 1 /\ (\A i \in 1 .. Len(none) : one[i] = none[i]) /\ one[Len(none) + 1] = "connectionEstablished"
  BY <1>2, SMT
<1>5. Append(none, "connectionEstablished") = one
  BY <1>1, <1>4, AppendIs
<1>6. none \o two = two
  BY <1>1, ConcatEmptySeq DEF none
<1>7. \A i \in DOMAIN one : i = 1
  BY <1>2, <1>3, SMT
<1>8. \A i \in DOMAIN two : i = 1 \/ i = 2
  BY <1>2, <1>3, SMT
<1>9. \A i \in DOMAIN two : two[i] = "connectionEstablished" => i = 1
  BY <1>2, <1>8
<1> QED BY <1>1, <1>5, <1>6, <1>7, <1>9 DEF S, none, one, two

\* The proxy has connected: what followed its answer is relayed at once, and the
\* rest is data too.
LEMMA PivotStep ==
  ASSUME SocketInv, Negotiating, m_proxyStatus = "WAIT_CONN",
         NEW bytes, NEW rest, Splits(bytes, rest), Len(bytes) >= ConnLen,
         bytes[1] = 5, bytes[2] = 0, Pivot(SubSeq(bytes, ConnLen + 1, Len(bytes))), inbox' = rest,
         UNCHANGED <<answered, junk, data, good>>
  PROVE  SocketInv'
<1> DEFINE tail == SubSeq(bytes, ConnLen + 1, Len(bytes))
<1>1. /\ bytes \in Seq(Bytes) /\ rest \in Seq(Bytes) /\ Len(Stream) = Len(bytes) + Len(rest)
      /\ Len(bytes) \in Nat /\ Len(rest) \in Nat
      /\ \A i \in 1 .. Len(bytes) : Stream[i] = bytes[i]
      /\ \A i \in 1 .. Len(rest) : Stream[Len(bytes) + i] = rest[i]
  BY SMT DEF Splits
<1>2. answered = Len(asked)
  BY AnsweredFirst DEF Junk
<1>3. /\ good /\ Len(Stream) = ConnLen + data
      /\ \A i \in 1 .. data : Stream[ConnLen + i] = DataFrom + i
  <2>1. 1 \in 1 .. Len(bytes) /\ 2 \in 1 .. Len(bytes)
    BY <1>1, ProxyAssumption, SMT
  <2> QED BY <1>1, <1>2, <2>1 DEF SocketInv, ConnAnswered
<1>4. data \in Nat /\ ConnLen \in Nat /\ ConnLen \in 1 .. Len(bytes) /\ ConnLen > 4
  BY <1>1, ProxyAssumption, SMT DEF SocketInv, Typed
<1>5. /\ tail \in Seq(Bytes) /\ Len(tail) = Len(bytes) - ConnLen
      /\ \A i \in 1 .. Len(bytes) - ConnLen : tail[i] = bytes[ConnLen + i]
  BY <1>1, <1>4, CutFacts
<1>6. /\ calls = <<>> /\ relayed = <<>>
      /\ asked \in {<<"vid", "conn">>, <<"vid", "auth", "conn">>}
  BY DEF SocketInv, InStep
<1>7. Granted' /\ answered' = Len(asked')
  <2>1. UNCHANGED <<asked, answered, good>>
    BY DEF Pivot
  <2>2. answered > 0 /\ asked[answered] = "conn"
    <3>1. CASE asked = <<"vid", "conn">>
      BY <1>2, <3>1, SMT
    <3>2. CASE asked = <<"vid", "auth", "conn">>
      BY <1>2, <3>2, SMT
    <3> QED BY <1>6, <3>1, <3>2
  <2> QED BY <1>2, <1>3, <2>1, <2>2 DEF Granted
<1> HIDE DEF tail
<1>8. relayed \o tail = tail
  BY <1>5, <1>6, ConcatEmptySeq
<1>9. /\ m_finalClientEndpoint' = FALSE /\ m_buffer' = <<>>
      /\ UNCHANGED <<m_proxyStatus, asked, cut>>
      /\ relayed' \in {relayed, tail}
      /\ \/ /\ calls' = <<"connectionEstablished">> /\ relayed' = tail
            /\ UNCHANGED <<base, ub>>
         \/ /\ calls' = <<"connectionEstablished", "connectionClosed">>
            /\ base' = "gone" /\ ub' = TRUE
  <2>1. Pivot(tail)
    BY DEF tail
  <2> QED BY <1>6, <1>8, <2>1, Told DEF Pivot
<1>10. Typed'
  <2>1. m_buffer' \in Seq(Bytes') /\ Len(m_buffer') < ConnLen
    BY <1>9, ProxyAssumption, SMT
  <2>2. inbox' \in Seq(Bytes') /\ relayed' \in Seq(Bytes')
    BY <1>1, <1>5, <1>9 DEF Bytes, SocketInv, Typed
  <2>3. calls' \in Seq(Outcomes \cup {"connectionEstablished"})
    BY <1>9, Told
  <2>4. base' \in {"new", "connecting", "up", "gone"} /\ ub' \in BOOLEAN
    BY <1>9 DEF SocketInv, Typed
  <2> QED BY <1>9, <2>1, <2>2, <2>3, <2>4 DEF SocketInv, Typed, Bytes, Outcomes
<1>11. Fresh' /\ ~Negotiating'
  BY <1>9 DEF Fresh, Negotiating
<1>12. InStep' /\ NotAnswered' /\ VidAnswered' /\ UserauthAnswered' /\ ConnAnswered'
  BY <1>11 DEF InStep, NotAnswered, VidAnswered, UserauthAnswered, ConnAnswered
<1>13. EstablishedWhenGranted'
  <2>1. \A i \in DOMAIN calls' : calls'[i] = "connectionEstablished" => i = 1
    BY <1>9, Told
  <2> QED BY <1>7, <2>1 DEF EstablishedWhenGranted
<1>14. InOrder'
  <2>1. CASE relayed' = relayed
    BY <2>1 DEF SocketInv, InOrder
  <2>2. CASE relayed' = tail
    <3>1. \A i \in 1 .. Len(tail) : /\ i \in 1 .. Len(bytes) - ConnLen /\ i \in 1 .. data
                                    /\ ConnLen + i \in 1 .. Len(bytes)
      BY <1>1, <1>3, <1>4, <1>5, SMT
    <3> QED BY <1>1, <1>3, <1>5, <2>2, <3>1 DEF InOrder
  <2> QED BY <1>9, <2>1, <2>2
<1>15. Relaying'
  <2> SUFFICES ASSUME calls' = <<"connectionEstablished">>, relayed' = tail
               PROVE  /\ Len(relayed') + Len(inbox') = data'
                      /\ \A i \in 1 .. Len(inbox') : inbox'[i] = DataFrom + (Len(relayed') + i)
    BY <1>7, <1>9 DEF Relaying
  <2>1. Len(tail) + Len(rest) = data /\ Len(tail) \in Nat
    <3>1. /\ Len(bytes) \in Nat /\ Len(rest) \in Nat /\ data \in Nat /\ ConnLen \in Nat
          /\ Len(bytes) + Len(rest) = ConnLen + data /\ Len(tail) = Len(bytes) - ConnLen
      BY <1>1, <1>3, <1>4, <1>5
    <3>2. ConnLen <= Len(bytes)
      BY <1>1, <1>4, SMT
    <3> QED BY <3>1, <3>2, SMT
  <2>2. ASSUME NEW i \in 1 .. Len(rest) PROVE rest[i] = DataFrom + (Len(tail) + i)
    <3>1. Len(tail) + i \in 1 .. data /\ ConnLen + (Len(tail) + i) = Len(bytes) + i
      BY <1>1, <1>4, <1>5, <2>1, SMT
    <3>2. Stream[ConnLen + (Len(tail) + i)] = DataFrom + (Len(tail) + i)
      BY <1>3, <3>1
    <3> QED BY <1>1, <3>1, <3>2
  <2> QED BY <2>1, <2>2
<1> QED BY <1>10, <1>11, <1>12, <1>13, <1>14, <1>15 DEF SocketInv

\* Data are relayed as they arrive.
LEMMA RelayStep ==
  ASSUME SocketInv, base = "up", ~m_finalClientEndpoint, NEW n \in 1 .. Len(inbox),
         Relay(SubSeq(inbox, 1, n)), inbox' = SubSeq(inbox, n + 1, Len(inbox)),
         UNCHANGED <<answered, junk, data, good>>
  PROVE  SocketInv'
<1> DEFINE chunk == SubSeq(inbox, 1, n)
           rest == SubSeq(inbox, n + 1, Len(inbox))
<1>1. inbox \in Seq(Bytes) /\ relayed \in Seq(Bytes) /\ n \in Nat /\ Len(inbox) \in Nat /\ n <= Len(inbox)
  BY SMT DEF SocketInv, Typed
<1>2. /\ chunk \in Seq(Bytes) /\ Len(chunk) = n /\ rest \in Seq(Bytes) /\ Len(rest) = Len(inbox) - n
      /\ \A i \in 1 .. n : chunk[i] = inbox[i]
      /\ \A i \in 1 .. Len(inbox) - n : rest[i] = inbox[n + i]
  BY <1>1, CutFacts
<1>3. relayed' = relayed \o chunk /\ inbox' = rest /\ UNCHANGED <<socket, asked, calls, cut, ub>>
  BY DEF Relay
<1> HIDE DEF chunk, rest
<1>4. /\ relayed' \in Seq(Bytes) /\ Len(relayed') = Len(relayed) + n /\ Len(relayed) \in Nat
      /\ \A i \in 1 .. Len(relayed) : relayed'[i] = relayed[i]
      /\ \A i \in 1 .. n : relayed'[Len(relayed) + i] = inbox[i]
  BY <1>1, <1>2, <1>3, StreamFacts
<1>5. /\ calls = <<"connectionEstablished">> /\ Granted /\ answered = Len(asked)
      /\ Len(relayed) + Len(inbox) = data
      /\ \A i \in 1 .. Len(inbox) : inbox[i] = DataFrom + (Len(relayed) + i)
  BY DEF SocketInv, Relaying
<1>6. Typed'
  BY <1>2, <1>3, <1>4 DEF SocketInv, Typed, Bytes, Outcomes, socket
<1>7. /\ Fresh' /\ InStep' /\ NotAnswered' /\ VidAnswered' /\ UserauthAnswered' /\ ConnAnswered'
  BY <1>3 DEF Fresh, InStep, NotAnswered, VidAnswered, UserauthAnswered, ConnAnswered, Negotiating, socket
<1>8. EstablishedWhenGranted'
  BY <1>3 DEF SocketInv, EstablishedWhenGranted, Granted
<1>9. InOrder'
  <2>1. ASSUME NEW i \in 1 .. Len(relayed') PROVE relayed'[i] = DataFrom + i
    <3>1. CASE i <= Len(relayed)
      <4>1. i \in 1 .. Len(relayed)
        BY <1>4, <3>1, SMT
      <4> QED BY <1>4, <4>1 DEF SocketInv, InOrder
    <3>2. CASE ~(i <= Len(relayed))
      <4>1. i - Len(relayed) \in 1 .. n /\ Len(relayed) + (i - Len(relayed)) = i
            /\ i - Len(relayed) \in 1 .. Len(inbox)
        BY <1>1, <1>4, <3>2, SMT
      <4>2. /\ relayed'[Len(relayed) + (i - Len(relayed))] = inbox[i - Len(relayed)]
            /\ inbox[i - Len(relayed)] = DataFrom + (Len(relayed) + (i - Len(relayed)))
        BY <1>4, <1>5, <4>1
      <4> QED BY <4>1, <4>2
    <3> QED BY <3>1, <3>2
  <2> QED BY <2>1 DEF InOrder
<1>10. Relaying'
  <2>1. Len(relayed') + Len(inbox') = data
    <3>1. /\ Len(inbox) \in Nat /\ n \in Nat /\ Len(relayed) \in Nat
          /\ Len(relayed') = Len(relayed) + n /\ Len(inbox') = Len(inbox) - n
          /\ Len(relayed) + Len(inbox) = data
      BY <1>1, <1>2, <1>3, <1>4, <1>5
    <3> DEFINE a == Len(relayed)
               b == Len(inbox)
               c == Len(relayed')
               d == Len(inbox')
    <3> HIDE DEF a, b, c, d
    <3>2. b \in Nat /\ n \in Nat /\ a \in Nat /\ c = a + n /\ d = b - n /\ a + b = data
      BY <3>1 DEF a, b, c, d
    <3>3. c + d = data
      BY <3>2, SMT
    <3> QED BY <3>3 DEF c, d
  <2>2. ASSUME NEW i \in 1 .. Len(rest) PROVE rest[i] = DataFrom + (Len(relayed') + i)
    <3>1. i \in 1 .. Len(inbox) - n /\ n + i \in 1 .. Len(inbox)
          /\ Len(relayed) + (n + i) = Len(relayed') + i
      BY <1>1, <1>2, <1>4, SMT
    <3> QED BY <1>2, <1>5, <3>1
  <2> QED BY <1>3, <1>5, <2>1, <2>2 DEF Relaying, Granted
<1> QED BY <1>6, <1>7, <1>8, <1>9, <1>10 DEF SocketInv

LEMMA AbortStep ==
  ASSUME SocketInv, \E outcome \in Outcomes : Abort(outcome), inbox' \in Seq(Bytes),
         UNCHANGED <<answered, junk, data, good>>
  PROVE  SocketInv'
<1>1. PICK outcome \in Outcomes : Abort(outcome)
  OBVIOUS
<1> QED BY <1>1, GoneStep DEF Abort

\* The answer to the methods offered.
LEMMA WaitVidStep ==
  ASSUME SocketInv, Negotiating, m_proxyStatus = "WAIT_VID",
         NEW bytes, NEW rest, Splits(bytes, rest), WaitVid(bytes), inbox' = rest,
         UNCHANGED <<answered, junk, data, good>>
  PROVE  SocketInv'
<1> DEFINE none == Len(bytes) = 2 /\ bytes[1] = 5 /\ bytes[2] = 0
           user == Len(bytes) = 2 /\ bytes[1] = 5 /\ bytes[2] = 2 /\ HasUser
           part == Len(bytes) \in {1, 3, 4}
<1>1. CASE none \/ user
  <2>1. Len(bytes) = 2 /\ bytes[1] = 5 /\ bytes[2] \in {0, 2}
    BY <1>1
  <2>2. answered = Len(asked)
    BY <2>1, AnsweredFirst DEF Junk
  <2>3. /\ Len(Stream) >= 2 /\ Stream[1] = bytes[1] /\ Stream[2] = bytes[2] /\ Len(bytes) + 1 = 3
    BY <2>1, SMT DEF Splits
  <2>4. data = 0 /\ good /\ \A i \in 3 .. Len(Stream) : Stream[i] = Junk
    BY <2>1, <2>2, <2>3 DEF SocketInv, VidAnswered
  <2>5. \/ Step("WAIT_CONN", "conn")
        \/ Step("WAIT_USERAUTH", "auth")
    <3>1. CASE none
      BY <3>1 DEF WaitVid
    <3>2. CASE user
      BY <3>2 DEF WaitVid
    <3> QED BY <1>1, <3>1, <3>2
  <2> QED BY <2>2, <2>3, <2>4, <2>5, StepStep
<1>2. CASE part
  <2>1. Waits(bytes)
    BY <1>2 DEF WaitVid
  <2>2. Len(bytes) < ConnLen
    BY <1>2, ProxyAssumption, SMT
  <2> QED BY <2>1, <2>2, WaitsStep
<1>3. CASE ~none /\ ~user /\ ~part
  <2>1. \E outcome \in Outcomes : Abort(outcome)
    BY <1>3 DEF WaitVid
  <2> QED BY <2>1, AbortStep DEF Splits
<1> QED BY <1>1, <1>2, <1>3

\* The answer to user and password.
LEMMA WaitUserauthStep ==
  ASSUME SocketInv, Negotiating, m_proxyStatus = "WAIT_USERAUTH",
         NEW bytes, NEW rest, Splits(bytes, rest), WaitUserauth(bytes), inbox' = rest,
         UNCHANGED <<answered, junk, data, good>>
  PROVE  SocketInv'
<1>1. CASE bytes = <<1, 0>>
  <2>1. Len(bytes) = 2 /\ bytes[1] = 1 /\ bytes[2] = 0
    BY <1>1
  <2>2. answered = Len(asked)
    BY <2>1, AnsweredFirst DEF Junk
  <2>3. /\ 1 \in 1 .. Len(Stream) - 1 /\ Stream[1] = 1 /\ Stream[1 + 1] = 0
        /\ 1 + 2 = 3 /\ Len(bytes) + 1 = 3
    BY <2>1, SMT DEF Splits
  <2>4. data = 0 /\ good /\ \A i \in 1 + 2 .. Len(Stream) : Stream[i] = Junk
    BY <2>2, <2>3 DEF SocketInv, UserauthAnswered
  <2>5. Step("WAIT_CONN", "conn")
    BY <1>1 DEF WaitUserauth
  <2> QED BY <2>2, <2>3, <2>4, <2>5, StepStep
<1>2. CASE bytes # <<1, 0>> /\ Len(bytes) = 1
  <2>1. /\ cut' = TRUE /\ m_buffer' = <<>>
        /\ UNCHANGED <<base, m_proxyStatus, m_finalClientEndpoint, asked, endpoint, ub>>
    BY <1>2 DEF WaitUserauth
  <2> QED BY <1>2, <2>1, CutStep
<1>3. CASE bytes # <<1, 0>> /\ Len(bytes) # 1
  <2>1. \E outcome \in Outcomes : Abort(outcome)
    BY <1>3 DEF WaitUserauth
  <2> QED BY <2>1, AbortStep DEF Splits
<1> QED BY <1>1, <1>2, <1>3

\* The answer to the connect request.
LEMMA WaitConnStep ==
  ASSUME SocketInv, Negotiating, m_proxyStatus = "WAIT_CONN",
         NEW bytes, NEW rest, Splits(bytes, rest), WaitConn(bytes), inbox' = rest,
         UNCHANGED <<answered, junk, data, good>>
  PROVE  SocketInv'
<1> DEFINE part == Len(bytes) < ConnLen
           granted == Len(bytes) >= ConnLen /\ bytes[1] = 5 /\ bytes[2] = 0
<1>1. CASE part
  <2>1. ~(Len(bytes) >= ConnLen)
    BY <1>1, ProxyAssumption, SMT DEF Splits
  <2>2. Waits(bytes)
    BY <1>1, <2>1 DEF WaitConn
  <2> QED BY <1>1, <2>2, WaitsStep
<1>2. CASE granted
  <2>1. ~part
    BY <1>2, ProxyAssumption, SMT DEF Splits
  <2>2. Pivot(SubSeq(bytes, ConnLen + 1, Len(bytes)))
    BY <1>2, <2>1 DEF WaitConn
  <2> QED BY <1>2, <2>2, PivotStep
<1>3. CASE ~part /\ ~granted
  <2>1. \E outcome \in Outcomes : Abort(outcome)
    BY <1>3 DEF WaitConn
  <2> QED BY <2>1, AbortStep DEF Splits
<1> QED BY <1>1, <1>2, <1>3

LEMMA ReadStep ==
  ASSUME SocketInv, NEW n \in 1 .. Len(inbox), dataRead(n)
  PROVE  SocketInv'
<1> DEFINE chunk == SubSeq(inbox, 1, n)
           rest == SubSeq(inbox, n + 1, Len(inbox))
<1>1. base = "up" /\ inbox' = rest /\ UNCHANGED <<answered, junk, data, good>>
  BY DEF dataRead
<1>2. Splits(m_buffer \o chunk, rest)
  BY ReadSplits DEF SocketInv
<1>3. CASE ~m_finalClientEndpoint
  <2>1. Relay(chunk)
    BY <1>3 DEF dataRead
  <2> QED BY <1>1, <1>3, <2>1, RelayStep
<1>4. CASE m_finalClientEndpoint
  <2>1. Negotiating
    BY <1>1, <1>4 DEF Negotiating
  <2>2. m_proxyStatus \in {"WAIT_VID", "WAIT_USERAUTH", "WAIT_CONN"}
    BY <2>1 DEF SocketInv, InStep
  <2>3. CASE m_proxyStatus = "WAIT_VID"
    <3>1. WaitVid(m_buffer \o chunk)
      BY <1>4, <2>3 DEF dataRead
    <3> QED BY <1>1, <1>2, <2>1, <2>3, <3>1, WaitVidStep
  <2>4. CASE m_proxyStatus = "WAIT_USERAUTH"
    <3>1. WaitUserauth(m_buffer \o chunk)
      BY <1>4, <2>4 DEF dataRead
    <3> QED BY <1>1, <1>2, <2>1, <2>4, <3>1, WaitUserauthStep
  <2>5. CASE m_proxyStatus = "WAIT_CONN"
    <3>1. WaitConn(m_buffer \o chunk)
      BY <1>4, <2>5 DEF dataRead
    <3> QED BY <1>1, <1>2, <2>1, <2>5, <3>1, WaitConnStep
  <2> QED BY <2>2, <2>3, <2>4, <2>5
<1> QED BY <1>3, <1>4 DEF SocketInv, Typed

-----------------------------------------------------------------------------
(* What the proxy sends. *)

\* Something more at the end of the stream.
LEMMA SentFacts ==
  ASSUME Typed, NEW bytes \in Seq(Bytes), inbox' = inbox \o bytes, m_buffer' = m_buffer
  PROVE  /\ inbox' \in Seq(Bytes) /\ Len(inbox') = Len(inbox) + Len(bytes) /\ Len(inbox) \in Nat
         /\ \A i \in 1 .. Len(inbox) : inbox'[i] = inbox[i]
         /\ \A i \in 1 .. Len(bytes) : inbox'[Len(inbox) + i] = bytes[i]
         /\ Len(Stream') = Len(Stream) + Len(bytes) /\ Len(Stream) \in Nat /\ Len(bytes) \in Nat
         /\ \A i \in 1 .. Len(Stream) : Stream'[i] = Stream[i]
         /\ \A i \in 1 .. Len(bytes) : Stream'[Len(Stream) + i] = bytes[i]
<1>1. m_buffer \in Seq(Bytes) /\ inbox \in Seq(Bytes)
  BY DEF Typed
<1>2. Stream' = Stream \o bytes
  BY <1>1, ConcatAssociative DEF Stream
<1>3. Stream \in Seq(Bytes)
  BY <1>1, StreamFacts DEF Stream
<1> QED BY <1>1, <1>2, <1>3, StreamFacts

\* Only what accepts is taken for an acceptance.
LEMMA AnswerFacts ==
  ASSUME NEW well \in BOOLEAN, NEW bytes
  PROVE  /\ bytes \in Answers("vid", well) =>
              bytes \in Seq(Bytes) /\ Len(bytes) = 2 /\ (bytes[1] = 5 /\ bytes[2] \in {0, 2} => well)
         /\ bytes \in Answers("auth", well) =>
              bytes \in Seq(Bytes) /\ Len(bytes) = 2 /\ (bytes[1] = 1 /\ bytes[2] = 0 => well)
         /\ bytes \in Answers("conn", well) =>
              bytes \in Seq(Bytes) /\ Len(bytes) = ConnLen /\ (bytes[1] = 5 /\ bytes[2] = 0 => well)
<1>1. 0 \in Bytes /\ 1 \in Bytes /\ 2 \in Bytes /\ 5 \in Bytes /\ 255 \in Bytes
  BY DEF Bytes
<1>2. ASSUME NEW a \in Bytes, NEW b \in Bytes, bytes = <<a, b>>
      PROVE  bytes \in Seq(Bytes) /\ Len(bytes) = 2 /\ bytes[1] = a /\ bytes[2] = b
  BY <1>2, SMT
<1>3. ASSUME bytes \in Answers("vid", well)
      PROVE  bytes \in Seq(Bytes) /\ Len(bytes) = 2 /\ (bytes[1] = 5 /\ bytes[2] \in {0, 2} => well)
  <2>1. IF well THEN bytes = <<5, 0>> \/ bytes = <<5, 2>> ELSE bytes = <<0, 0>> \/ bytes = <<5, 255>>
    BY <1>3 DEF Answers
  <2>2. CASE bytes = <<5, 0>> /\ well
    BY <1>1, <1>2, <2>2
  <2>3. CASE bytes = <<5, 2>> /\ well
    BY <1>1, <1>2, <2>3
  <2>4. CASE bytes = <<0, 0>>
    BY <1>1, <1>2, <2>4
  <2>5. CASE bytes = <<5, 255>>
    BY <1>1, <1>2, <2>5
  <2> QED BY <2>1, <2>2, <2>3, <2>4, <2>5
<1>4. ASSUME bytes \in Answers("auth", well)
      PROVE  bytes \in Seq(Bytes) /\ Len(bytes) = 2 /\ (bytes[1] = 1 /\ bytes[2] = 0 => well)
  <2>1. IF well THEN bytes = <<1, 0>> ELSE bytes = <<0, 0>> \/ bytes = <<1, 1>>
    BY <1>4 DEF Answers
  <2>2. CASE bytes = <<1, 0>> /\ well
    BY <1>1, <1>2, <2>2
  <2>3. CASE bytes = <<0, 0>>
    BY <1>1, <1>2, <2>3
  <2>4. CASE bytes = <<1, 1>>
    BY <1>1, <1>2, <2>4
  <2> QED BY <2>1, <2>2, <2>3, <2>4
<1>5. ASSUME bytes \in Answers("conn", well)
      PROVE  bytes \in Seq(Bytes) /\ Len(bytes) = ConnLen /\ (bytes[1] = 5 /\ bytes[2] = 0 => well)
  <2> DEFINE answer(version, reply) ==
               [i \in 1 .. ConnLen |-> CASE i = 1 -> version [] i = 2 -> reply [] OTHER -> 0]
  <2>1. PICK version \in IF well THEN {5} ELSE {0, 5}, reply \in IF well THEN {0} ELSE {1} :
          bytes = answer(version, reply)
    BY <1>5 DEF Answers
  <2>2. version \in Bytes /\ reply \in Bytes /\ (~well => reply = 1)
    BY <1>1, <2>1
  <2>3. ConnLen \in Nat /\ 1 \in 1 .. ConnLen /\ 2 \in 1 .. ConnLen
    BY ProxyAssumption, SMT
  <2>4. \A i \in 1 .. ConnLen : (CASE i = 1 -> version [] i = 2 -> reply [] OTHER -> 0) \in Bytes
    <3> SUFFICES ASSUME NEW i \in 1 .. ConnLen
                 PROVE  (CASE i = 1 -> version [] i = 2 -> reply [] OTHER -> 0) \in Bytes
      OBVIOUS
    <3>1. CASE i = 1
      BY <2>2, <3>1
    <3>2. CASE i = 2
      BY <2>2, <3>2
    <3>3. CASE i # 1 /\ i # 2
      BY <1>1, <3>3
    <3> QED BY <3>1, <3>2, <3>3
  <2>5. bytes \in [1 .. ConnLen -> Bytes]
    BY <2>1, <2>4
  <2>6. bytes \in Seq(Bytes) /\ Len(bytes) = ConnLen
    BY <2>3, <2>5, SMT
  <2>7. bytes[2] = reply
    BY <2>1, <2>3
  <2> QED BY <2>2, <2>6, <2>7
<1> QED BY <1>3, <1>4, <1>5

LEMMA AnswersStep ==
  ASSUME SocketInv, ProxyAnswers
  PROVE  SocketInv'
<1>0. PICK well \in BOOLEAN :
        \E bytes \in Answers(asked[answered'], well) : Sends(bytes) /\ good' = (good /\ well)
  BY DEF ProxyAnswers
<1>1. PICK bytes \in Answers(asked[answered'], well) : Sends(bytes) /\ good' = (good /\ well)
  BY <1>0
<1>2. /\ base = "up" /\ inbox' = inbox \o bytes
      /\ answered < Len(asked) /\ answered' = answered + 1
      /\ UNCHANGED <<base, m_proxyStatus, m_buffer, m_finalClientEndpoint, asked, calls, relayed, cut, ub>>
      /\ UNCHANGED <<junk, data>>
  BY <1>1 DEF ProxyAnswers, Sends, socket, endpoint
<1>3. answered \in Nat /\ Len(asked) \in Nat
  BY SMT DEF SocketInv, Typed
<1>4. Negotiating
  <2>1. answered # Len(asked)
    BY <1>2, <1>3, SMT
  <2> QED BY <1>2, <2>1 DEF SocketInv, Relaying, Negotiating, Typed
<1>5. answered' = Len(asked)
  BY <1>2, <1>3, <1>4, SMT DEF SocketInv, InStep
<1>6. good /\ data = 0 /\ \A i \in 1 .. Len(Stream) : Stream[i] = Junk
  BY <1>2, <1>4 DEF SocketInv, NotAnswered
<1>7. \/ m_proxyStatus = "WAIT_VID" /\ asked[answered'] = "vid"
      \/ m_proxyStatus = "WAIT_USERAUTH" /\ asked[answered'] = "auth"
      \/ m_proxyStatus = "WAIT_CONN" /\ asked[answered'] = "conn"
  <2>1. CASE m_proxyStatus = "WAIT_VID" /\ asked = <<"vid">>
    BY <1>5, <2>1, SMT
  <2>2. CASE m_proxyStatus = "WAIT_USERAUTH" /\ asked = <<"vid", "auth">>
    BY <1>5, <2>2, SMT
  <2>3. CASE m_proxyStatus = "WAIT_CONN" /\ asked = <<"vid", "conn">>
    BY <1>5, <2>3, SMT
  <2>4. CASE m_proxyStatus = "WAIT_CONN" /\ asked = <<"vid", "auth", "conn">>
    BY <1>5, <2>4, SMT
  <2> QED BY <1>4, <2>1, <2>2, <2>3, <2>4 DEF SocketInv, InStep
<1>8. /\ bytes \in Seq(Bytes) /\ Len(bytes) >= 2
      /\ asked[answered'] # "conn" => Len(bytes) = 2
      /\ asked[answered'] = "conn" => Len(bytes) = ConnLen
  BY <1>1, <1>7, AnswerFacts, ProxyAssumption, SMT
<1>9. /\ inbox' \in Seq(Bytes)
      /\ Len(Stream') = Len(Stream) + Len(bytes) /\ Len(Stream) \in Nat /\ Len(bytes) \in Nat
      /\ \A i \in 1 .. Len(Stream) : Stream'[i] = Stream[i]
      /\ \A i \in 1 .. Len(bytes) : Stream'[Len(Stream) + i] = bytes[i]
  BY <1>2, <1>8, SentFacts DEF SocketInv
<1>10. 1 \in 1 .. Len(bytes) /\ 2 \in 1 .. Len(bytes)
  BY <1>8, <1>9, SMT
<1>11. ASSUME Stream'[1] # Junk
       PROVE  Len(Stream) = 0 /\ Stream'[1] = bytes[1] /\ Stream'[2] = bytes[2]
  <2>1. ~(1 \in 1 .. Len(Stream))
    BY <1>6, <1>9, <1>11
  <2>2. Len(Stream) = 0 /\ Len(Stream) + 1 = 1 /\ Len(Stream) + 2 = 2
    BY <1>9, <2>1, SMT
  <2> QED BY <1>9, <1>10, <2>2
<1>12. Typed'
  <2>1. answered' \in 0 .. Len(asked')
    BY <1>2, <1>3, <1>5, SMT
  <2> QED BY <1>1, <1>2, <1>9, <2>1 DEF SocketInv, Typed, Bytes, Outcomes
<1>13. Fresh' /\ Relaying' /\ InOrder' /\ NotAnswered' /\ InStep' /\ EstablishedWhenGranted'
  <2>1. answered' = Len(asked') /\ ~(answered' < Len(asked'))
    BY <1>2, <1>3, <1>5, SMT
  <2> QED BY <1>2, <1>4, <2>1 DEF SocketInv, Fresh, Relaying, InOrder, NotAnswered, InStep,
                              EstablishedWhenGranted, Negotiating
<1>14. VidAnswered'
  <2> SUFFICES ASSUME m_proxyStatus = "WAIT_VID", Stream'[1] = 5, Stream'[2] \in {0, 2}
               PROVE  good' /\ \A i \in 3 .. Len(Stream') : Stream'[i] = Junk
    BY <1>2, <1>6 DEF VidAnswered
  <2>1. asked[answered'] = "vid" /\ Len(Stream) = 0 /\ bytes[1] = 5 /\ bytes[2] \in {0, 2}
    BY <1>7, <1>11 DEF Junk
  <2>2. well
    BY <1>1, <2>1, AnswerFacts
  <2>3. Len(Stream') = 2
    BY <1>8, <1>9, <2>1, SMT
  <2>4. \A i \in 3 .. Len(Stream') : FALSE
    BY <2>3, SMT
  <2> QED BY <1>1, <1>6, <2>2, <2>4
<1>15. UserauthAnswered'
  <2> SUFFICES ASSUME m_proxyStatus = "WAIT_USERAUTH", NEW i \in 1 .. Len(Stream') - 1,
                      Stream'[i] = 1, Stream'[i + 1] = 0
               PROVE  good' /\ \A k \in i + 2 .. Len(Stream') : Stream'[k] = Junk
    BY <1>2, <1>6 DEF UserauthAnswered
  <2>1. asked[answered'] = "auth" /\ Len(bytes) = 2
    BY <1>7, <1>8
  <2>2. ~(i \in 1 .. Len(Stream))
    BY <1>6, <1>9 DEF Junk
  <2>3. i = Len(Stream) + 1 /\ i + 1 = Len(Stream) + 2 /\ i + 1 = Len(Stream')
    BY <1>9, <2>1, <2>2, SMT
  <2>4. bytes[1] = 1 /\ bytes[2] = 0
    BY <1>9, <1>10, <2>3
  <2>5. well
    BY <1>1, <2>1, <2>4, AnswerFacts
  <2>6. \A k \in i + 2 .. Len(Stream') : FALSE
    BY <1>9, <2>3, SMT
  <2> QED BY <1>1, <1>6, <2>5, <2>6
<1>16. ConnAnswered'
  <2> SUFFICES ASSUME m_proxyStatus = "WAIT_CONN"
               PROVE  /\ Len(Stream') >= ConnLen
                      /\ Stream'[1] = 5 /\ Stream'[2] = 0 =>
                           /\ good' /\ Len(Stream') = ConnLen + data'
                           /\ \A i \in 1 .. data' : Stream'[ConnLen + i] = DataFrom + i
    BY <1>2 DEF ConnAnswered
  <2>1. asked[answered'] = "conn" /\ Len(bytes) = ConnLen
    BY <1>7, <1>8
  <2>2. Len(Stream') >= ConnLen
    BY <1>9, <2>1, SMT
  <2>3. ASSUME Stream'[1] = 5, Stream'[2] = 0
        PROVE  good' /\ Len(Stream') = ConnLen + data'
    <3>1. Len(Stream) = 0 /\ bytes[1] = 5 /\ bytes[2] = 0
      BY <1>11, <2>3 DEF Junk
    <3>2. well
      BY <1>1, <2>1, <3>1, AnswerFacts
    <3>3. Len(Stream') = ConnLen + data'
      BY <1>2, <1>6, <1>9, <2>1, <3>1, SMT
    <3> QED BY <1>1, <1>6, <3>2, <3>3
  <2>4. \A i \in 1 .. data' : FALSE
    BY <1>2, <1>6, SMT
  <2> QED BY <2>2, <2>3, <2>4
<1> QED BY <1>12, <1>13, <1>14, <1>15, <1>16 DEF SocketInv

\* A byte of the data.
LEMMA DataStep ==
  ASSUME SocketInv, ProxySendsData
  PROVE  SocketInv'
<1> DEFINE byte == DataFrom + data'
           bytes == <<byte>>
<1>1. /\ Granted /\ data < MaxData /\ data' = data + 1 /\ base = "up" /\ inbox' = inbox \o bytes
      /\ UNCHANGED <<base, m_proxyStatus, m_buffer, m_finalClientEndpoint, asked, calls, relayed, cut, ub>>
      /\ UNCHANGED <<answered, junk, good>>
  BY DEF ProxySendsData, Sends, socket, endpoint
<1>2. data \in Nat /\ MaxData \in Nat /\ answered \in Nat /\ Len(asked) \in Nat
  BY ProxyAssumption, SMT DEF SocketInv, Typed
<1>3. byte \in Bytes /\ data' \in 0 .. MaxData
  BY <1>1, <1>2, SMT DEF Bytes, DataFrom
<1> HIDE DEF byte
<1>4. bytes \in Seq(Bytes) /\ Len(bytes) = 1 /\ bytes[1] = byte
  BY <1>3, SMT
<1> HIDE DEF bytes
<1>5. /\ inbox' \in Seq(Bytes) /\ Len(inbox') = Len(inbox) + 1 /\ Len(inbox) \in Nat
      /\ \A i \in 1 .. Len(inbox) : inbox'[i] = inbox[i]
      /\ inbox'[Len(inbox) + 1] = byte
      /\ Len(Stream') = Len(Stream) + 1 /\ Len(Stream) \in Nat
      /\ \A i \in 1 .. Len(Stream) : Stream'[i] = Stream[i]
      /\ Stream'[Len(Stream) + 1] = byte
  <2>1. 1 \in 1 .. Len(bytes)
    BY <1>4, SMT
  <2> QED BY <1>1, <1>4, <2>1, SentFacts DEF SocketInv
<1>6. Typed'
  BY <1>1, <1>3, <1>5 DEF SocketInv, Typed, Bytes, Outcomes
<1>7. Fresh' /\ InStep' /\ InOrder' /\ EstablishedWhenGranted'
  BY <1>1 DEF SocketInv, Fresh, InStep, InOrder, EstablishedWhenGranted, Granted, Negotiating
<1>8. Negotiating => answered = Len(asked) /\ m_proxyStatus = "WAIT_CONN"
  <2> SUFFICES ASSUME Negotiating
               PROVE  answered = Len(asked) /\ m_proxyStatus = "WAIT_CONN"
    OBVIOUS
  <2>1. answered > 0 /\ asked[answered] = "conn" /\ answered \in {Len(asked) - 1, Len(asked)}
    BY <1>1 DEF Granted, SocketInv, InStep
  <2>2. CASE m_proxyStatus = "WAIT_VID" /\ asked = <<"vid">>
    BY <1>2, <2>1, <2>2, SMT
  <2>3. CASE m_proxyStatus = "WAIT_USERAUTH" /\ asked = <<"vid", "auth">>
    <3>1. answered \in {1, 2}
      BY <1>2, <2>1, <2>3, SMT
    <3> QED BY <2>1, <2>3, <3>1
  <2>4. CASE m_proxyStatus = "WAIT_CONN" /\ asked = <<"vid", "conn">>
    <3>1. answered \in {1, 2} /\ Len(asked) = 2
      BY <1>2, <2>1, <2>4, SMT
    <3> QED BY <2>1, <2>4, <3>1
  <2>5. CASE m_proxyStatus = "WAIT_CONN" /\ asked = <<"vid", "auth", "conn">>
    <3>1. answered \in {1, 2, 3} /\ Len(asked) = 3
      BY <1>2, <2>1, <2>5, SMT
    <3> QED BY <2>1, <2>5, <3>1
  <2> QED BY <2>2, <2>3, <2>4, <2>5 DEF SocketInv, InStep
<1>9. NotAnswered' /\ VidAnswered' /\ UserauthAnswered'
  <2>1. ~(answered < Len(asked)) \/ ~Negotiating
    BY <1>2, <1>8, SMT
  <2> QED BY <1>1, <1>8, <2>1 DEF NotAnswered, VidAnswered, UserauthAnswered, Negotiating
<1>10. ConnAnswered'
  <2> SUFFICES ASSUME Negotiating
               PROVE  /\ Len(Stream') >= ConnLen
                      /\ Stream'[1] = 5 /\ Stream'[2] = 0 =>
                           /\ good' /\ Len(Stream') = ConnLen + data'
                           /\ \A i \in 1 .. data' : Stream'[ConnLen + i] = DataFrom + i
    BY <1>1 DEF ConnAnswered, Negotiating
  <2>1. /\ Len(Stream) >= ConnLen
        /\ Stream[1] = 5 /\ Stream[2] = 0 =>
             /\ good /\ Len(Stream) = ConnLen + data
             /\ \A i \in 1 .. data : Stream[ConnLen + i] = DataFrom + i
    BY <1>8 DEF SocketInv, ConnAnswered
  <2>2. 1 \in 1 .. Len(Stream) /\ 2 \in 1 .. Len(Stream) /\ ConnLen \in Nat
    BY <1>5, <2>1, ProxyAssumption, SMT
  <2>3. Len(Stream') >= ConnLen
    BY <1>5, <2>1, <2>2, SMT
  <2>4. ASSUME Stream'[1] = 5, Stream'[2] = 0
        PROVE  /\ good' /\ Len(Stream') = ConnLen + data'
               /\ \A i \in 1 .. data' : Stream'[ConnLen + i] = DataFrom + i
    <3>1. /\ good /\ Len(Stream) = ConnLen + data
          /\ \A i \in 1 .. data : Stream[ConnLen + i] = DataFrom + i
      BY <1>5, <2>1, <2>2, <2>4
    <3>2. Len(Stream') = ConnLen + data'
      BY <1>1, <1>2, <1>5, <2>2, <3>1, SMT
    <3>3. ASSUME NEW i \in 1 .. data' PROVE Stream'[ConnLen + i] = DataFrom + i
      <4>1. CASE i <= data
        <5>1. i \in 1 .. data /\ ConnLen + i \in 1 .. Len(Stream)
          BY <1>2, <2>2, <3>1, <4>1, SMT
        <5> QED BY <1>5, <3>1, <5>1
      <4>2. CASE ~(i <= data)
        <5>1. i = data' /\ ConnLen + i = Len(Stream) + 1
          BY <1>1, <1>2, <2>2, <3>1, <4>2, SMT
        <5> QED BY <1>5, <5>1 DEF byte
      <4> QED BY <4>1, <4>2
    <3> QED BY <1>1, <3>1, <3>2, <3>3
  <2> QED BY <2>3, <2>4
<1>11. Relaying'
  <2> SUFFICES ASSUME ~m_finalClientEndpoint
               PROVE  /\ calls' = <<"connectionEstablished">> /\ Granted' /\ answered' = Len(asked')
                      /\ Len(relayed') + Len(inbox') = data'
                      /\ \A i \in 1 .. Len(inbox') : inbox'[i] = DataFrom + (Len(relayed') + i)
    BY <1>1 DEF Relaying
  <2>1. /\ calls = <<"connectionEstablished">> /\ Granted /\ answered = Len(asked)
        /\ Len(relayed) + Len(inbox) = data
        /\ \A i \in 1 .. Len(inbox) : inbox[i] = DataFrom + (Len(relayed) + i)
    BY <1>1 DEF SocketInv, Relaying
  <2> DEFINE r == Len(relayed)
             q == Len(inbox)
  <2>2. r \in Nat /\ q \in Nat /\ r + q = data
    BY <1>5, <2>1, SMT DEF SocketInv, Typed
  <2> HIDE DEF r, q
  <2>3. r + (q + 1) = data'
    BY <1>1, <2>2, SMT
  <2>4. ASSUME NEW i \in 1 .. q + 1 PROVE inbox'[i] = DataFrom + (r + i)
    <3>1. CASE i \in 1 .. q
      BY <1>5, <2>1, <3>1 DEF q, r
    <3>2. CASE i \notin 1 .. q
      <4>1. i = q + 1
        BY <2>2, <3>2, SMT
      <4> QED BY <1>5, <2>3, <4>1 DEF q, byte
    <3> QED BY <3>1, <3>2
  <2> QED BY <1>1, <1>5, <2>1, <2>3, <2>4 DEF Granted, r, q
<1> QED BY <1>6, <1>7, <1>9, <1>10, <1>11 DEF SocketInv

\* A byte out of turn, before the proxy has granted the connection.
LEMMA JunkStep ==
  ASSUME SocketInv, ProxySendsJunk
  PROVE  SocketInv'
<1> DEFINE bytes == <<Junk>>
<1>1. /\ ~Granted /\ junk < MaxJunk /\ junk' = junk + 1 /\ base = "up" /\ inbox' = inbox \o bytes
      /\ UNCHANGED <<base, m_proxyStatus, m_buffer, m_finalClientEndpoint, asked, calls, relayed, cut, ub>>
      /\ UNCHANGED <<answered, data, good>>
  BY DEF ProxySendsJunk, Sends, socket, endpoint
<1>2. junk' \in 0 .. MaxJunk /\ data \in Nat
  BY <1>1, ProxyAssumption, SMT DEF SocketInv, Typed
<1>3. Junk \in Bytes
  BY DEF Bytes
<1>4. bytes \in Seq(Bytes) /\ Len(bytes) = 1 /\ bytes[1] = Junk
  BY <1>3, SMT
<1> HIDE DEF bytes
<1>5. /\ inbox' \in Seq(Bytes)
      /\ Len(Stream') = Len(Stream) + 1 /\ Len(Stream) \in Nat
      /\ \A i \in 1 .. Len(Stream) : Stream'[i] = Stream[i]
      /\ Stream'[Len(Stream) + 1] = Junk
  <2>1. 1 \in 1 .. Len(bytes)
    BY <1>4, SMT
  <2> QED BY <1>1, <1>4, <2>1, SentFacts DEF SocketInv
<1>6. ASSUME NEW i \in 1 .. Len(Stream'), Stream'[i] # Junk
      PROVE  i \in 1 .. Len(Stream) /\ Stream'[i] = Stream[i]
  <2>1. i # Len(Stream) + 1
    BY <1>5, <1>6
  <2>2. i \in 1 .. Len(Stream)
    BY <1>5, <2>1, SMT
  <2> QED BY <1>5, <2>2
<1>7. ASSUME NEW i \in 1 .. Len(Stream'), i \in 1 .. Len(Stream) => Stream[i] = Junk
      PROVE  Stream'[i] = Junk
  BY <1>6, <1>7
<1>8. Typed'
  BY <1>1, <1>2, <1>5 DEF SocketInv, Typed, Bytes, Outcomes
<1>9. Fresh' /\ InStep' /\ InOrder' /\ EstablishedWhenGranted'
  BY <1>1 DEF SocketInv, Fresh, InStep, InOrder, EstablishedWhenGranted, Granted, Negotiating
<1>10. Relaying'
  BY <1>1 DEF SocketInv, Relaying
<1>11. NotAnswered'
  BY <1>1, <1>7 DEF SocketInv, NotAnswered, Negotiating
<1>12. VidAnswered'
  <2> SUFFICES ASSUME Negotiating, answered = Len(asked), m_proxyStatus = "WAIT_VID"
               PROVE  /\ data = 0
                      /\ Len(Stream') >= 2 /\ Stream'[1] = 5 /\ Stream'[2] \in {0, 2} =>
                           good /\ \A i \in 3 .. Len(Stream') : Stream'[i] = Junk
    BY <1>1 DEF VidAnswered, Negotiating
  <2>1. ASSUME Len(Stream') >= 2, Stream'[1] = 5, Stream'[2] \in {0, 2}
        PROVE  good /\ \A i \in 3 .. Len(Stream') : Stream'[i] = Junk
    <3>1. 1 \in 1 .. Len(Stream') /\ 2 \in 1 .. Len(Stream')
      BY <1>5, <2>1, SMT
    <3>2. 2 \in 1 .. Len(Stream) /\ Stream[1] = 5 /\ Stream[2] \in {0, 2}
      BY <1>6, <2>1, <3>1 DEF Junk
    <3>3. Len(Stream) >= 2
      BY <1>5, <3>2, SMT
    <3>4. good /\ \A i \in 3 .. Len(Stream) : Stream[i] = Junk
      BY <3>2, <3>3 DEF SocketInv, VidAnswered
    <3>5. \A i \in 3 .. Len(Stream') : i \in 1 .. Len(Stream') /\ (i \in 1 .. Len(Stream) => i \in 3 .. Len(Stream))
      BY <1>5, SMT
    <3> QED BY <1>7, <3>4, <3>5
  <2> QED BY <2>1 DEF SocketInv, VidAnswered
<1>13. UserauthAnswered'
  <2> SUFFICES ASSUME Negotiating, answered = Len(asked), m_proxyStatus = "WAIT_USERAUTH"
               PROVE  /\ data = 0
                      /\ \A i \in 1 .. Len(Stream') - 1 :
                           Stream'[i] = 1 /\ Stream'[i + 1] = 0 =>
                             good /\ \A k \in i + 2 .. Len(Stream') : Stream'[k] = Junk
    BY <1>1 DEF UserauthAnswered, Negotiating
  <2>1. ASSUME NEW i \in 1 .. Len(Stream') - 1, Stream'[i] = 1, Stream'[i + 1] = 0
        PROVE  good /\ \A k \in i + 2 .. Len(Stream') : Stream'[k] = Junk
    <3>1. i \in 1 .. Len(Stream') /\ i + 1 \in 1 .. Len(Stream')
      BY <1>5, SMT
    <3>2. i + 1 \in 1 .. Len(Stream) /\ Stream[i] = 1 /\ Stream[i + 1] = 0
      BY <1>6, <2>1, <3>1 DEF Junk
    <3>3. i \in 1 .. Len(Stream) - 1
      BY <1>5, <3>2, SMT
    <3>4. good /\ \A k \in i + 2 .. Len(Stream) : Stream[k] = Junk
      BY <3>2, <3>3 DEF SocketInv, UserauthAnswered
    <3>5. \A k \in i + 2 .. Len(Stream') :
            k \in 1 .. Len(Stream') /\ (k \in 1 .. Len(Stream) => k \in i + 2 .. Len(Stream))
      BY <1>5, SMT
    <3> QED BY <1>7, <3>4, <3>5
  <2> QED BY <2>1 DEF SocketInv, UserauthAnswered
<1>14. ConnAnswered'
  <2> SUFFICES ASSUME Negotiating, answered = Len(asked), m_proxyStatus = "WAIT_CONN"
               PROVE  /\ Len(Stream') >= ConnLen
                      /\ ~(Stream'[1] = 5 /\ Stream'[2] = 0)
    BY <1>1 DEF ConnAnswered, Negotiating
  <2>1. Len(Stream) >= ConnLen /\ (Stream[1] = 5 /\ Stream[2] = 0 => good)
    BY DEF SocketInv, ConnAnswered
  <2>2. answered > 0 /\ asked[answered] = "conn"
    <3>1. CASE asked = <<"vid", "conn">>
      BY <3>1, SMT
    <3>2. CASE asked = <<"vid", "auth", "conn">>
      BY <3>2, SMT
    <3> QED BY <3>1, <3>2 DEF SocketInv, InStep
  <2>3. ~good
    BY <1>1, <2>2 DEF Granted
  <2>4. 1 \in 1 .. Len(Stream) /\ 2 \in 1 .. Len(Stream) /\ Len(Stream') >= ConnLen
    BY <1>5, <2>1, ProxyAssumption, SMT
  <2> QED BY <1>5, <2>1, <2>3, <2>4
<1> QED BY <1>8, <1>9, <1>10, <1>11, <1>12, <1>13, <1>14 DEF SocketInv

-----------------------------------------------------------------------------
(* The other steps, and the theorems about the socket. *)

\* The first request.
LEMMA EstablishedStep ==
  ASSUME SocketInv, connectionEstablished
  PROVE  SocketInv'
<1>1. /\ base = "connecting" /\ base' = "up" /\ m_proxyStatus' = "WAIT_VID"
      /\ asked' = Append(asked, "vid") /\ m_buffer' = m_buffer
      /\ UNCHANGED <<m_finalClientEndpoint, answered, inbox, junk, data, good, calls, relayed, cut, ub>>
  BY DEF connectionEstablished, Asks, proxy, endpoint
<1>2. /\ m_buffer = <<>> /\ m_finalClientEndpoint /\ asked = <<>> /\ answered = 0 /\ inbox = <<>>
      /\ data = 0 /\ good /\ calls = <<>> /\ relayed = <<>>
  BY <1>1 DEF SocketInv, Fresh
<1>3. asked' = <<"vid">>
  <2> DEFINE S == {"vid", "auth", "conn"}
             none == <<>>
             one == <<"vid">>
  <2>1. "vid" \in S /\ none \in Seq(S) /\ one \in Seq(S) /\ Len(none) = 0 /\ Len(one) = 1 /\ one[1] = "vid"
    BY SMT
  <2> HIDE DEF S, none, one
  <2>2. /\ Len(one) = Len(none) + 1 /\ (\A i \in 1 .. Len(none) : one[i] = none[i])
        /\ one[Len(none) + 1] = "vid"
    BY <2>1, SMT
  <2>3. Append(none, "vid") = one
    BY <2>1, <2>2, AppendIs
  <2> QED BY <1>1, <1>2, <2>3 DEF none, one
<1>4. asked' \in Seq({"vid", "auth", "conn"}) /\ Len(asked') = 1 /\ answered' = 0
  BY <1>1, <1>2, <1>3, SMT
<1>5. Typed'
  <2>1. answered' \in 0 .. Len(asked')
    BY <1>4, SMT
  <2> QED BY <1>1, <1>4, <2>1 DEF SocketInv, Typed, Bytes, Outcomes
<1>6. Negotiating' /\ answered' < Len(asked') /\ answered' # Len(asked') /\ answered' = Len(asked') - 1
  BY <1>1, <1>2, <1>4, SMT DEF Negotiating
<1>7. InStep'
  BY <1>1, <1>2, <1>3, <1>6 DEF InStep
<1>8. NotAnswered'
  <2>1. Stream' = <<>>
    <3>1. <<>> \in Seq(Bytes)
      BY SMT
    <3> QED BY <1>1, <1>2, <3>1, ConcatEmptySeq DEF Stream
  <2>2. \A i \in 1 .. Len(Stream') : FALSE
    BY <2>1, SMT
  <2> QED BY <1>1, <1>2, <2>2 DEF NotAnswered
<1>9. /\ Fresh' /\ VidAnswered' /\ UserauthAnswered' /\ ConnAnswered' /\ Relaying'
  BY <1>1, <1>6, <1>2 DEF Fresh, VidAnswered, UserauthAnswered, ConnAnswered, Relaying
<1>10. InOrder' /\ EstablishedWhenGranted'
  BY <1>1, <1>2 DEF SocketInv, InOrder, EstablishedWhenGranted
<1> QED BY <1>5, <1>7, <1>8, <1>9, <1>10 DEF SocketInv

LEMMA SameSocket ==
  ASSUME SocketInv, UNCHANGED vars
  PROVE  SocketInv'
<1>1. UNCHANGED <<base, m_proxyStatus, m_buffer, m_finalClientEndpoint, asked, answered, inbox, junk,
                  data, good, calls, relayed, cut, ub>>
  BY DEF vars, socket, proxy, endpoint
<1>2. Typed' /\ Stream' = Stream
  BY <1>1 DEF SocketInv, Typed, Stream, Bytes, Outcomes
<1> QED BY <1>1, <1>2 DEF SocketInv, Fresh, InStep, NotAnswered, VidAnswered, UserauthAnswered,
                        ConnAnswered, Relaying, InOrder, EstablishedWhenGranted, Granted, Negotiating

\* Only `base' or `ub' changes, and the socket is not negotiating.
LEMMA ConnectStep ==
  ASSUME SocketInv, base = "new", base' \in {"new", "connecting"}, ub' \in BOOLEAN,
         UNCHANGED <<m_proxyStatus, m_buffer, m_finalClientEndpoint, asked, proxy, endpoint, cut>>
  PROVE  SocketInv'
<1>1. UNCHANGED <<m_proxyStatus, m_buffer, m_finalClientEndpoint, asked, answered, inbox, junk, data,
                  good, calls, relayed, cut>>
  BY DEF proxy, endpoint
<1>2. Typed'
  BY <1>1 DEF SocketInv, Typed, Bytes, Outcomes
<1>3. base' # "up"
  OBVIOUS
<1> QED BY <1>1, <1>2, <1>3 DEF SocketInv, Fresh, InStep, NotAnswered, VidAnswered, UserauthAnswered,
              ConnAnswered, Relaying, InOrder, EstablishedWhenGranted, Granted, Negotiating

\* The TcpSocket ends.
LEMMA EndsStep ==
  ASSUME SocketInv, NEW outcome \in Outcomes, Ends(outcome)
  PROVE  SocketInv'
<1>1. /\ base' = "gone" /\ calls' = Append(calls, outcome) /\ ub' \in {TRUE, ub}
      /\ UNCHANGED <<m_proxyStatus, m_buffer, m_finalClientEndpoint, asked, relayed, cut>>
  <2>1. CASE m_finalClientEndpoint
    BY <2>1 DEF Ends, Abort
  <2>2. CASE ~m_finalClientEndpoint
    BY <2>2 DEF Ends
  <2> QED BY <2>1, <2>2
<1>2. UNCHANGED <<answered, inbox, junk, data, good>>
  BY DEF Ends, proxy
<1>3. ub' \in BOOLEAN /\ inbox' \in Seq(Bytes)
  BY <1>1, <1>2 DEF SocketInv, Typed
<1> QED BY <1>1, <1>2, <1>3, GoneStep

LEMMA InitSocketInv == PoolInit => SocketInv
<1> SUFFICES ASSUME PoolInit PROVE SocketInv
  OBVIOUS
<1>1. /\ base = "new" /\ m_proxyStatus = "NONE" /\ m_buffer = <<>> /\ m_finalClientEndpoint = TRUE
      /\ asked = <<>> /\ answered = 0 /\ inbox = <<>> /\ junk = 0 /\ data = 0 /\ good = TRUE
      /\ calls = <<>> /\ relayed = <<>> /\ cut = FALSE /\ ub = FALSE
  BY DEF PoolInit, Init
<1>2. Typed
  <2>1. (\A S : <<>> \in Seq(S)) /\ Len(<<>>) = 0
    BY SMT
  <2>2. 0 < ConnLen /\ 0 \in 0 .. 0 /\ 0 \in 0 .. MaxJunk /\ 0 \in 0 .. MaxData
    BY ProxyAssumption, SMT
  <2> QED BY <1>1, <2>1, <2>2 DEF Typed
<1>3. InOrder /\ EstablishedWhenGranted
  BY <1>1, SMT DEF InOrder, EstablishedWhenGranted
<1> QED BY <1>1, <1>2, <1>3 DEF SocketInv, Fresh, InStep, NotAnswered, VidAnswered, UserauthAnswered,
                              ConnAnswered, Relaying, Negotiating

LEMMA NextSocketInv == SocketInv /\ [PoolNext]_allVars => SocketInv'
<1> SUFFICES ASSUME SocketInv, [PoolNext]_allVars PROVE SocketInv'
  OBVIOUS
<1>1. ASSUME UNCHANGED vars PROVE SocketInv'
  BY <1>1, SameSocket
<1>2. ASSUME NEW set \in Sets, addProxy(set) \/ activateSet(set) PROVE SocketInv'
  BY <1>1, <1>2 DEF addProxy, activateSet, Before
<1>3. CASE clearProxies
  BY <1>1, <1>3 DEF clearProxies, Before
<1>4. CASE connectStream
  <2>1. CASE ConnectDirectly
    BY <1>1, <2>1 DEF ConnectDirectly, Before
  <2>2. CASE ReadsSingular
    <3>1. base = "new" /\ base' = base /\ ub' = TRUE
          /\ UNCHANGED <<m_proxyStatus, m_buffer, m_finalClientEndpoint, asked, proxy, endpoint, cut>>
      BY <2>2 DEF ReadsSingular, socket
    <3> QED BY <3>1, ConnectStep
  <2>3. CASE ConnectByProxy
    <3>1. CASE Connect
      <4>1. base = "new" /\ base' = "connecting" /\ ub' \in BOOLEAN
            /\ UNCHANGED <<m_proxyStatus, m_buffer, m_finalClientEndpoint, asked, proxy, endpoint, cut>>
        BY <3>1 DEF Connect, SocketInv, Typed
      <4> QED BY <4>1, ConnectStep
    <3>2. CASE ConnectTakenForFailed
      <4>1. /\ base' = "gone" /\ ub' = TRUE
            /\ calls' = calls \/ calls' = Append(calls, "connectionClosed")
            /\ UNCHANGED <<m_proxyStatus, m_buffer, m_finalClientEndpoint, asked, answered, inbox, junk,
                           data, good, relayed, cut>>
        BY <3>2 DEF ConnectTakenForFailed, proxy
      <4>2. inbox' \in Seq(Bytes) /\ "connectionClosed" \in Outcomes
        BY <4>1 DEF SocketInv, Typed, Outcomes
      <4> QED BY <4>1, <4>2, GoneStep
    <3>3. CASE ConnectTakenForMade
      <4>1. /\ base' = "gone" /\ calls' = calls
            /\ UNCHANGED <<m_proxyStatus, m_buffer, m_finalClientEndpoint, asked, answered, inbox, junk,
                           data, good, relayed, cut, ub>>
        BY <3>3 DEF ConnectTakenForMade, proxy, endpoint
      <4>2. inbox' \in Seq(Bytes) /\ ub' \in BOOLEAN
        BY <4>1 DEF SocketInv, Typed
      <4> QED BY <4>1, <4>2, GoneStep
    <3> QED BY <1>1, <2>3, <3>1, <3>2, <3>3 DEF ConnectByProxy
  <2> QED BY <1>4, <2>1, <2>2, <2>3 DEF connectStream
<1>5. CASE Life
  <2>1. CASE Read
    BY <2>1, ReadStep DEF Read
  <2>2. CASE \E outcome \in Outcomes : Ends(outcome)
    BY <2>2, EndsStep
  <2> QED BY <1>5, <2>1, <2>2, EstablishedStep, AnswersStep, DataStep, JunkStep DEF Life
<1>6. CASE Done \/ UNCHANGED allVars
  BY <1>1, <1>6 DEF Done, allVars
<1> QED BY <1>2, <1>3, <1>4, <1>5, <1>6 DEF PoolNext, Kept

\* EstablishedWhenGranted, for any length of the proxy's answers and whatever it
\* sends out of turn, however the stream is cut: by the time the socket finds an
\* acceptance in the stream, the proxy has been asked and has accepted.
THEOREM EndpointsAreExchangedWhenGranted == Safe => []EstablishedWhenGranted
<1>1. SocketInv => EstablishedWhenGranted
  BY DEF SocketInv
<1> QED BY <1>1, InitSocketInv, NextSocketInv, PTL DEF Safe

\* DataIsWhole, likewise: the length of the stream tells which byte is the first
\* one behind the proxy's answer, so that it is the first one relayed.
\* Every connect answer has ConnLen bytes here, see Answers.
THEOREM RelayedDataIsWhole == Safe => []DataIsWhole
<1>1. SocketInv => DataIsWhole
  <2> SUFFICES ASSUME SocketInv PROVE DataIsWhole
    OBVIOUS
  <2>1. SocketTypes
    BY DEF SocketInv, Typed, SocketTypes
  <2>2. \A i \in 1 .. Len(relayed) : relayed[i] = DataFrom + i
    BY DEF SocketInv, InOrder
  <2>3. base = "up" /\ ~m_finalClientEndpoint => Len(relayed) + Len(inbox) = data
    BY DEF SocketInv, Relaying
  <2> QED BY <2>1, <2>2, <2>3 DEF DataIsWhole
<1> QED BY <1>1, InitSocketInv, NextSocketInv, PTL DEF Safe

================================================================================
