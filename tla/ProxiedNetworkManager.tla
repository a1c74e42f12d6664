------------------------- MODULE ProxiedNetworkManager -------------------------
(***************************************************************************)
(* The proxy pool (src/src/ProxiedNetworkManager.cpp): sets of proxies, an *)
(* active set, a cursor through each set, and connectStream, which takes   *)
(* the next proxy of the active set for the socket it creates.  One of     *)
(* those sockets is followed, in ProxiedTcpSocket; it keeps a copy of its  *)
(* proxy's address, so nothing that happens to the pool later concerns it. *)
(*                                                                         *)
(* A list of proxies only grows, until clearProxies, so it is its length   *)
(* and a proxy is its position.                                            *)
(***************************************************************************)
EXTENDS ProxiedTcpSocket

CONSTANTS Sets,      \* the sets the program uses
          Every,     \* the set -1, into which every proxy goes
          Initial,   \* the set 0, active at first
          MaxProxies \* bound: proxies in a set

ASSUME PoolAssumption ==
  {Every, Initial} \subseteq Sets /\ Every # Initial /\ MaxProxies \in Nat \ {0}

VARIABLES
  m_proxyPool,  \* set |-> [proxies, nextProxy], for the sets that exist
  m_currentSet,
  early,        \* history: sets a connection was asked of before their first proxy
  owed          \* history: by set and proxy, the proxies of the set that were
                \* there when this one was used last and were not used since

pool    == <<m_proxyPool, m_currentSet, early, owed>>
allVars == <<vars, pool>>

Proxies  == 1 .. MaxProxies
End      == 0                \* end() of the set's list
Singular == MaxProxies + 1   \* an iterator nobody has set

NothingOwed == [set \in Sets |-> [at \in Proxies |-> {}]]

PoolInit ==
  /\ Init
  /\ m_proxyPool = <<>> /\ m_currentSet = Initial
  /\ early = {} /\ owed = NothingOwed

-----------------------------------------------------------------------------
(* The pool. *)

\* The pool is only followed up to the creation of the socket that is followed.
Before == base = "new" /\ ~ub /\ UNCHANGED vars

\* The map with an entry more.
With(sets, set, entry) ==
  [s \in DOMAIN sets \cup {set} |-> IF s = set THEN entry ELSE sets[s]]

\* Mutant: the set is made by operator[] and its cursor is not set.
AddUnset(sets, set) ==
  IF set \in DOMAIN sets THEN [sets EXCEPT ![set].proxies = @ + 1]
  ELSE With(sets, set, [proxies |-> 1, nextProxy |-> Singular])

\* A new set is copied into the pool by ProxySet's operator=, which sets the
\* cursor; a set that exists keeps the cursor it has.
Add(sets, set) ==
  IF set \in DOMAIN sets THEN [sets EXCEPT ![set].proxies = @ + 1]
  ELSE With(sets, set, [proxies |-> 1, nextProxy |-> End])

Room == Every \in DOMAIN m_proxyPool => m_proxyPool[Every].proxies < MaxProxies

\* An address that cannot be parsed is refused and changes nothing.
addProxy(set) ==
  /\ Before /\ Room
  /\ m_proxyPool' = (IF set = Every THEN Add(m_proxyPool, Every)
                     ELSE Add(Add(m_proxyPool, set), Every))
  /\ UNCHANGED <<m_currentSet, early, owed>>

clearProxies ==
  /\ Before /\ m_proxyPool # <<>>
  /\ m_proxyPool' = <<>> /\ early' = {} /\ owed' = NothingOwed
  /\ UNCHANGED m_currentSet

activateSet(set) ==
  /\ Before /\ set \in DOMAIN m_proxyPool /\ m_currentSet' = set
  /\ UNCHANGED <<m_proxyPool, early, owed>>

-----------------------------------------------------------------------------
(* connectStream *)

\* usesProxies looks the active set up with operator[], which makes one that
\* does not exist, without proxies and with a cursor nobody has set.
usesProxies ==
  IF m_currentSet \in DOMAIN m_proxyPool THEN m_proxyPool
  ELSE With(m_proxyPool, m_currentSet, [proxies |-> 0, nextProxy |-> Singular])

Active == usesProxies[m_currentSet]

\* Without proxies, NetworkManager::connectStream connects directly.
ConnectDirectly ==
  /\ Before /\ Active.proxies = 0
  /\ m_proxyPool' = usesProxies /\ early' = early \cup {m_currentSet}
  /\ UNCHANGED <<m_currentSet, owed>>

\* Mutant: the cursor goes round one proxy too early.
FollowingEarly(at) == IF at + 1 >= Active.proxies THEN End ELSE at + 1

Following(at) == IF at = Active.proxies THEN End ELSE at + 1

\* The cursor at end() goes back to begin() before it is read.
getNextProxy(at) ==
  /\ Active.proxies > 0 /\ Active.nextProxy # Singular
  /\ at = IF Active.nextProxy = End THEN 1 ELSE Active.nextProxy
  /\ m_proxyPool' = [m_proxyPool EXCEPT ![m_currentSet].nextProxy = Following(at)]
  /\ owed' = [owed EXCEPT ![m_currentSet] =
                [other \in Proxies |->
                   (IF other = at THEN 1 .. Active.proxies ELSE @[other]) \ {at}]]
  /\ UNCHANGED <<m_currentSet, early>>

\* An iterator nobody has set is no end() of the list, and is dereferenced.
ReadsSingular ==
  /\ base = "new" /\ ~ub /\ ub' = TRUE
  /\ Active.proxies > 0 /\ Active.nextProxy = Singular
  /\ UNCHANGED <<socket, asked, proxy, endpoint, cut, pool>>

\* ProxiedTcpSocket::connect ends without a return statement.  If connectStream
\* reads FALSE it closes the socket, which deletes it, and deletes it again.
ConnectTakenForFailed ==
  /\ base = "new" /\ ~ub /\ base' = "gone" /\ ub' = TRUE
  /\ calls' \in {calls, Append(calls, "connectionClosed")}
  /\ UNCHANGED <<m_proxyStatus, m_buffer, m_finalClientEndpoint, asked, proxy, relayed, cut>>

\* If it reads TRUE though the connection failed at once, the program gets a
\* socket that the loop knows nothing of.
ConnectTakenForMade ==
  /\ base = "new" /\ ~ub /\ base' = "gone"
  /\ UNCHANGED <<m_proxyStatus, m_buffer, m_finalClientEndpoint, asked, proxy, endpoint, cut, ub>>

\* The socket that is created is another one, or the one followed.
ConnectByProxy ==
  /\ base = "new" /\ ~ub
  /\ \E at \in Proxies : getNextProxy(at)
  /\ \/ UNCHANGED vars
     \/ Connect \/ ConnectTakenForFailed \/ ConnectTakenForMade

connectStream == ConnectDirectly \/ ConnectByProxy \/ ReadsSingular

-----------------------------------------------------------------------------
Kept(action) == action /\ UNCHANGED pool

PoolNext == \/ \E set \in Sets : addProxy(set) \/ activateSet(set)
            \/ clearProxies \/ connectStream
            \/ Kept(Life) \/ Kept(Done)

Safe == PoolInit /\ [][PoolNext]_allVars

\* The connection is established or ends, the loop reads what arrives, and the
\* proxy answers.
Spec == /\ Safe /\ WF_allVars(Kept(connectionEstablished))
        /\ WF_allVars(Kept(Read)) /\ WF_allVars(Kept(ProxyAnswers))

-----------------------------------------------------------------------------
(* Properties. *)

\* The cursor of a set with proxies stands at one of them or at the end of the
\* list, whatever was added, cleared and activated, unless the program asked for
\* a connection while the set had no proxy: then the next one reads a cursor
\* nobody has set.
CursorIsValid ==
  \A set \in DOMAIN m_proxyPool :
    m_proxyPool[set].proxies > 0 =>
      m_proxyPool[set].nextProxy \in 0 .. m_proxyPool[set].proxies \/ set \in early

\* Between two uses of a proxy of a set, every proxy that was in the set at the
\* first of them has been used, whatever was added to the set and whichever set
\* was active meanwhile.
ProxiesTakeTurns ==
  [][\A at \in Proxies : getNextProxy(at) => owed[m_currentSet][at] = {}]_allVars
================================================================================
