------------------------- MODULE NameResolutionProofs -------------------------
(***************************************************************************)
(* Theorems about NameResolution for every set of requests and resolvers   *)
(* and any depth of calls: the queries of libudns, the facility's set, the *)
(* entries in memory and the requests agree, and a resolver that cancelled *)
(* is not called.                                                          *)
(***************************************************************************)
EXTENDS NameResolution, FiniteSetTheorems, SequenceTheorems, TLAPS

Frames == [kind : Loops \cup Callbacks, n : Nat]

\* The positions of the callbacks that were given an answer.
Results == {i \in DOMAIN frames : frames[i].kind = "result"}

\* An answer is on the stack once, and only of a request that was told.
AnsweredOnce ==
  /\ \A i \in Results : frames[i].n \in Requests /\ request[frames[i].n].status = "told"
  /\ \A i, k \in Results : frames[i].n = frames[k].n => i = k

IInv == OneAccount /\ CancelledStayQuiet /\ AnsweredOnce /\ IsFiniteSet(scheduled)

-----------------------------------------------------------------------------
(* The stack.                                                              *)

LEMMA PushFacts ==
  ASSUME NEW S, NEW q \in Seq(S), NEW e \in S
  PROVE  /\ Append(q, e) \in Seq(S) /\ Append(q, e) # <<>>
         /\ Len(q) \in Nat /\ Len(q) + 1 \notin DOMAIN q
         /\ DOMAIN Append(q, e) = DOMAIN q \cup {Len(q) + 1}
         /\ \A i \in DOMAIN q : Append(q, e)[i] = q[i]
         /\ Append(q, e)[Len(q) + 1] = e
BY SMT

LEMMA PopFacts ==
  ASSUME NEW S, NEW q \in Seq(S), q # <<>>
  PROVE  LET f == SubSeq(q, 1, Len(q) - 1)
         IN  /\ f \in Seq(S) /\ Len(q) \in DOMAIN q /\ q[Len(q)] \in S
             /\ DOMAIN f = DOMAIN q \ {Len(q)}
             /\ \A i \in DOMAIN f : f[i] = q[i]
<1> DEFINE n == Len(q) - 1
           f == SubSeq(q, 1, n)
<1>1. /\ n \in Nat /\ DOMAIN q = 1 .. n + 1 /\ Len(q) = n + 1
      /\ \A i \in 1 .. n + 1 : q[i] \in S
  BY SMT
<1>2. \A i \in 1 .. n : q[i] \in S
  BY <1>1, SMT
<1>3. 1 \in Int /\ n \in Int
  BY <1>1, SMT
<1> HIDE DEF n
<1>4. f \in Seq(S) /\ Len(f) = (IF 1 <= n THEN n - 1 + 1 ELSE 0)
      /\ \A i \in 1 .. n - 1 + 1 : f[i] = q[1 + i - 1]
  BY <1>2, <1>3, SubSeqProperties
<1> HIDE DEF f
<1>5. DOMAIN f = 1 .. n /\ \A i \in 1 .. n : f[i] = q[i]
  BY <1>1, <1>4, SMT
<1>6. Len(q) \in DOMAIN q /\ q[Len(q)] \in S /\ 1 .. n = DOMAIN q \ {Len(q)}
  BY <1>1, SMT
<1> QED BY <1>4, <1>5, <1>6 DEF f, n

LEMMA FrameIsTyped ==
  ASSUME NEW kind \in Loops \cup Callbacks, NEW n \in Nat
  PROVE  Frame(kind, n) \in Frames /\ Frame(kind, n).kind = kind /\ Frame(kind, n).n = n
BY DEF Frame, Frames

\* The allocator has an address that is not in use.
LEMMA NewTimeoutIsNew ==
  ASSUME IsFiniteSet(scheduled), frames \in Seq(Frames)
  PROVE  NewTimeout \in Nat \ {TIMEOUT_EMPTY} /\ NewTimeout \notin scheduled
<1> DEFINE n == Len(frames) + Cardinality(scheduled) + 1
<1>1. n \in Nat /\ n > Cardinality(scheduled) /\ Cardinality(scheduled) \in Nat
  BY FS_CardinalityType, SMT
<1>2. IsFiniteSet(1 .. n) /\ Cardinality(1 .. n) = n
  <2>1. 1 \in Int /\ n \in Int /\ ~(1 > n) /\ n - 1 + 1 = n
    BY <1>1, SMT
  <2> HIDE DEF n
  <2> QED BY <2>1, FS_Interval
<1> HIDE DEF n
<1>3. \E t \in 1 .. n : t \notin scheduled
  <2>1. SUFFICES ASSUME 1 .. n \subseteq scheduled PROVE FALSE
    OBVIOUS
  <2>2. Cardinality(1 .. n) <= Cardinality(scheduled)
    BY <2>1, FS_Subset
  <2> QED BY <1>1, <1>2, <2>2, SMT
<1>4. NewTimeout = CHOOSE t \in 1 .. n : t \notin scheduled
  BY DEF NewTimeout, n
<1>5. NewTimeout \in 1 .. n /\ NewTimeout \notin scheduled
  BY <1>3, <1>4
<1> QED BY <1>1, <1>5, SMT DEF TIMEOUT_EMPTY

-----------------------------------------------------------------------------
(* The steps.                                                              *)

Waiting == {r \in Requests : request[r].status = "waiting"}
ResultsOf == {frames[i].n : i \in Results}

\* What the invariant says, in the words the steps are about.
LEMMA Account ==
  ASSUME IInv
  PROVE  /\ active = Waiting /\ m_pendingResolutions = active
         /\ entries = active \cup ResultsOf
BY DEF IInv, OneAccount, Waiting, ResultsOf, Results

LEMMA AccountAfter ==
  ASSUME Types', CancelledStayQuiet', AnsweredOnce', IsFiniteSet(scheduled'),
         active' = Waiting', m_pendingResolutions' = active',
         entries' = active' \cup ResultsOf'
  PROVE  IInv'
BY DEF IInv, OneAccount, Waiting, ResultsOf, Results

\* Requests are numbers.
LEMMA Numbers == Requests \subseteq Nat
BY RequestsAssumption

\* A call is entered for a request, or as one of the loop's calls.
LEMMA PushStep ==
  ASSUME IInv, NEW kind \in (Loops \cup Callbacks) \ {"result"}, NEW n \in Nat,
         frames' = Append(frames, Frame(kind, n)),
         \A r \in Requests : request[r].status = "told" => request'[r].status = "told"
  PROVE  /\ frames' \in Seq(Frames) /\ Results' = Results /\ AnsweredOnce'
         /\ ResultsOf' = ResultsOf
<1>1. frames \in Seq(Frames)
  BY DEF IInv, OneAccount, Types, Frames
<1> DEFINE f == Frame(kind, n)
<1>2. f \in Frames /\ f.kind # "result"
  BY FrameIsTyped
<1> HIDE DEF f
<1>3. /\ frames' \in Seq(Frames) /\ DOMAIN frames' = DOMAIN frames \cup {Len(frames) + 1}
      /\ \A i \in DOMAIN frames : frames'[i] = frames[i]
      /\ frames'[Len(frames) + 1] = f
  <2>1. frames' = Append(frames, f)
    BY DEF f
  <2> QED BY <1>1, <1>2, <2>1, PushFacts
<1>4. Results' = Results /\ \A i \in Results : frames'[i] = frames[i]
  BY <1>2, <1>3 DEF Results
<1>5. AnsweredOnce'
  <2>1. \A i \in Results' : frames'[i].n \in Requests /\ request'[frames'[i].n].status = "told"
    BY <1>4 DEF IInv, AnsweredOnce
  <2>2. ASSUME NEW i \in Results', NEW k \in Results', frames'[i].n = frames'[k].n
        PROVE  i = k
    <3>1. i \in Results /\ k \in Results /\ frames[i].n = frames[k].n
      BY <1>4, <2>2
    <3> QED BY <3>1 DEF IInv, AnsweredOnce
  <2> QED BY <2>1, <2>2 DEF AnsweredOnce
<1>6. ResultsOf' = ResultsOf
  BY <1>4 DEF ResultsOf
<1> QED BY <1>3, <1>4, <1>5, <1>6

\* A call returns.
LEMMA PopStep ==
  ASSUME IInv, frames # <<>>, frames' = Rest,
         \A r \in Requests : request[r].status = "told" => request'[r].status = "told"
  PROVE  /\ frames' \in Seq(Frames) /\ AnsweredOnce'
         /\ ResultsOf' = (IF Top.kind = "result" THEN ResultsOf \ {Top.n} ELSE ResultsOf)
<1>1. frames \in Seq(Frames)
  BY DEF IInv, OneAccount, Types, Frames
<1>2. /\ frames' \in Seq(Frames) /\ DOMAIN frames' = DOMAIN frames \ {Len(frames)}
      /\ \A i \in DOMAIN frames' : frames'[i] = frames[i]
      /\ Len(frames) \in DOMAIN frames
  BY <1>1, PopFacts DEF Rest
<1>3. Results' = Results \ {Len(frames)} /\ \A i \in Results' : frames'[i] = frames[i]
  BY <1>2 DEF Results
<1>4. AnsweredOnce'
  BY <1>3 DEF IInv, AnsweredOnce
<1>5. Top.kind = "result" <=> Len(frames) \in Results
  BY <1>2 DEF Top, Results
<1> QED BY <1>2, <1>3, <1>4, <1>5 DEF IInv, AnsweredOnce, ResultsOf, Top

\* The types of what Became and the calls leave.
LEMMA BecameFacts ==
  ASSUME Types, NEW rs \in SUBSET Requests, NEW status \in Statuses, Became(rs, status)
  PROVE  /\ request' \in [Requests -> [status : Statuses, resolver : Resolvers \cup {Nobody}]]
         /\ \A r \in Requests : request'[r].status = IF r \in rs THEN status ELSE request[r].status
BY DEF Types, Became

LEMMA AsksFacts ==
  ASSUME IInv, NEW r \in Requests, NEW who \in Resolvers, NEW status \in {"waiting", "told"},
         Asks(r, who, status)
  PROVE  /\ request' \in [Requests -> [status : Statuses, resolver : Resolvers \cup {Nobody}]]
         /\ \A q \in Requests : request'[q].status = IF q = r THEN status ELSE request[q].status
         /\ request[r].status = "new" /\ CancelledStayQuiet'
         /\ \A q \in Requests : request[q].status = "told" => request'[q].status = "told"
<1>1. request' = [request EXCEPT ![r] = [status |-> status, resolver |-> who]]
      /\ request[r].status = "new"
  BY DEF Asks
<1>2. /\ request' \in [Requests -> [status : Statuses, resolver : Resolvers \cup {Nobody}]]
      /\ \A q \in Requests : request'[q].status = IF q = r THEN status ELSE request[q].status
  BY <1>1 DEF IInv, OneAccount, Types, Statuses
<1> QED BY <1>1, <1>2 DEF IInv, CancelledStayQuiet

LEMMA ResolveStep ==
  ASSUME IInv, NEW r \in Requests, NEW who \in Resolvers,
         ResolveLiteral(r, who) \/ ResolveFails(r, who) \/ ResolveSubmit(r, who)
  PROVE  IInv'
<1>0. r \in Nat
  BY Numbers
<1>1. ASSUME NEW kind \in {"literal", "failed"}, Asks(r, who, "told"),
             frames' = Append(frames, Frame(kind, r)), UNCHANGED <<own, active, scheduled>>
      PROVE  IInv'
  <2>1. frames' \in Seq(Frames) /\ AnsweredOnce' /\ ResultsOf' = ResultsOf
    <3>1. kind \in (Loops \cup Callbacks) \ {"result"}
      BY DEF Callbacks
    <3> QED BY <1>0, <1>1, <3>1, AsksFacts, PushStep
  <2>2. Waiting' = Waiting
    BY <1>1, AsksFacts DEF Waiting
  <2>3. Types' /\ CancelledStayQuiet'
    BY <1>1, <2>1, AsksFacts DEF IInv, OneAccount, Types, Frames, own
  <2>4. IsFiniteSet(scheduled)
    BY DEF IInv
  <2> QED BY <1>1, <2>1, <2>2, <2>3, <2>4, Account, AccountAfter DEF own
<1>2. CASE ResolveSubmit(r, who)
  <2>1. Asks(r, who, "waiting") /\ frames' = Append(frames, Frame("resolveName", r))
    BY <1>2 DEF ResolveSubmit
  <2>2. frames' \in Seq(Frames) /\ AnsweredOnce' /\ ResultsOf' = ResultsOf
    <3>1. "resolveName" \in (Loops \cup Callbacks) \ {"result"}
      BY DEF Loops
    <3> QED BY <1>0, <2>1, <3>1, AsksFacts, PushStep
  <2>3. Waiting' = Waiting \cup {r}
    BY <2>1, AsksFacts DEF Waiting
  <2>4. Types' /\ CancelledStayQuiet'
    BY <1>2, <2>1, <2>2, AsksFacts DEF ResolveSubmit, IInv, OneAccount, Types, Frames
  <2>5. IsFiniteSet(scheduled')
    BY <1>2 DEF ResolveSubmit, IInv
  <2> QED BY <1>2, <2>2, <2>3, <2>4, <2>5, Account, AccountAfter DEF ResolveSubmit
<1> QED BY <1>1, <1>2 DEF ResolveLiteral, ResolveFails

\* Queries end without an answer: cancelled, or with the facility.
LEMMA CancelStep ==
  ASSUME IInv, NEW hit \in SUBSET m_pendingResolutions,
         NEW status \in {"cancelled", "forgotten"},
         Cancel(hit), Became(hit, status), UNCHANGED frames,
         facility' \in {"alive", "deleted"}, scheduled' \subseteq scheduled,
         m_timeout' \in scheduled' \cup {TIMEOUT_EMPTY}
  PROVE  IInv'
<1>1. hit \subseteq Waiting /\ hit \in SUBSET Requests
  BY Account DEF Waiting
<1>2. /\ request' \in [Requests -> [status : Statuses, resolver : Resolvers \cup {Nobody}]]
      /\ \A r \in Requests : request'[r].status = IF r \in hit THEN status ELSE request[r].status
  <2>1. Types /\ status \in Statuses
    BY DEF Statuses, IInv, OneAccount
  <2> QED BY <1>1, <2>1, BecameFacts
<1>3. Waiting' = Waiting \ hit
  BY <1>2 DEF Waiting
<1>4. ResultsOf' = ResultsOf /\ AnsweredOnce' /\ ResultsOf \cap hit = {}
  BY <1>1, <1>2 DEF IInv, AnsweredOnce, ResultsOf, Results, Waiting
<1>5. Types' /\ CancelledStayQuiet'
  BY <1>2 DEF IInv, OneAccount, Types, Cancel, CancelledStayQuiet
<1>6. IsFiniteSet(scheduled')
  BY FS_Subset DEF IInv
<1> QED BY <1>1, <1>3, <1>4, <1>5, <1>6, Account, AccountAfter DEF Cancel

LEMMA EnterStep ==
  ASSUME IInv, NEW kind \in {"pollRead", "timeoutFired"}, NEW n \in Nat, Enter(kind, n)
  PROVE  IInv'
<1>1. frames' = Append(frames, Frame(kind, n)) /\ UNCHANGED <<own, active, scheduled, request>>
  BY SMT DEF Enter
<1>2. frames' \in Seq(Frames) /\ AnsweredOnce' /\ ResultsOf' = ResultsOf
  <2>1. kind \in (Loops \cup Callbacks) \ {"result"}
    BY DEF Loops
  <2> QED BY <1>1, <2>1, PushStep
<1>3. Waiting' = Waiting /\ Types' /\ CancelledStayQuiet'
  BY <1>1, <1>2 DEF Waiting, IInv, OneAccount, Types, Frames, CancelledStayQuiet, own
<1>4. IsFiniteSet(scheduled')
  BY <1>1 DEF IInv
<1> QED BY <1>1, <1>2, <1>3, <1>4, Account, AccountAfter DEF own

\* The resolver is called through an entry that exists.
LEMMA ResultStep ==
  ASSUME IInv, NEW r \in Requests, processResult(r)
  PROVE  IInv'
<1>1. r \in active /\ r \in entries /\ r \in Waiting /\ r \in Nat
  BY Account, Numbers DEF processResult
<1>2. Became({r}, "told")
  BY <1>1 DEF processResult
<1>3. /\ request' \in [Requests -> [status : Statuses, resolver : Resolvers \cup {Nobody}]]
      /\ \A q \in Requests : request'[q].status = IF q = r THEN "told" ELSE request[q].status
  <2>1. Types /\ {r} \in SUBSET Requests /\ "told" \in Statuses
    BY DEF Statuses, IInv, OneAccount
  <2>2. \A q \in Requests : q \in {r} <=> q = r
    OBVIOUS
  <2> QED BY <1>2, <2>1, <2>2, BecameFacts
<1> DEFINE f == Frame("result", r)
<1>4. f \in Frames /\ f.kind = "result" /\ f.n = r
  BY <1>1, FrameIsTyped DEF Callbacks
<1>5. frames' = Append(frames, f) /\ frames \in Seq(Frames)
  BY DEF processResult, IInv, OneAccount, Types, Frames
<1> HIDE DEF f
<1>6. /\ frames' \in Seq(Frames) /\ DOMAIN frames' = DOMAIN frames \cup {Len(frames) + 1}
      /\ \A i \in DOMAIN frames : frames'[i] = frames[i]
      /\ frames'[Len(frames) + 1] = f
  BY <1>4, <1>5, PushFacts
<1>7. Results' = Results \cup {Len(frames) + 1}
      /\ \A i \in Results : frames'[i] = frames[i]
  BY <1>4, <1>6 DEF Results
<1>8. \A i \in Results : frames[i].n # r /\ frames[i].n \in Requests
                         /\ request'[frames[i].n].status = "told"
  BY <1>1, <1>3 DEF IInv, AnsweredOnce, Waiting
<1>9. AnsweredOnce' /\ ResultsOf' = ResultsOf \cup {r}
  <2>1. \A i \in Results' : frames'[i].n \in Requests /\ request'[frames'[i].n].status = "told"
    BY <1>3, <1>4, <1>6, <1>7, <1>8
  <2>2. \A i, k \in Results' : frames'[i].n = frames'[k].n => i = k
    BY <1>4, <1>6, <1>7, <1>8 DEF IInv, AnsweredOnce
  <2>3. ResultsOf' = ResultsOf \cup {r}
    BY <1>4, <1>6, <1>7 DEF ResultsOf
  <2> QED BY <2>1, <2>2, <2>3 DEF AnsweredOnce
<1>10. Waiting' = Waiting \ {r}
  BY <1>3 DEF Waiting
<1>11. Types' /\ CancelledStayQuiet'
  BY <1>3, <1>6 DEF IInv, OneAccount, Types, Frames, processResult, CancelledStayQuiet
<1>12. IsFiniteSet(scheduled')
  BY DEF processResult, IInv
<1> QED BY <1>1, <1>9, <1>10, <1>11, <1>12, Account, AccountAfter DEF processResult

LEMMA CallbackReturnsStep ==
  ASSUME IInv, CallbackReturns
  PROVE  IInv'
<1>1. frames # <<>> /\ frames \in Seq(Frames) /\ Top.kind \in Callbacks
      /\ UNCHANGED <<facility, m_pendingResolutions, m_timeout, active, scheduled, request>>
      /\ entries' = (IF Top.kind = "result" THEN entries \ {Top.n} ELSE entries)
  BY DEF CallbackReturns, In, IInv, OneAccount, Types, Frames
<1>2. Waiting' = Waiting /\ CancelledStayQuiet'
  BY <1>1 DEF Waiting, IInv, CancelledStayQuiet
<1>3. CASE Top.kind # "failed"
  <2>1. frames' = Rest
    BY <1>3 DEF CallbackReturns
  <2>2. /\ frames' \in Seq(Frames) /\ AnsweredOnce'
        /\ ResultsOf' = (IF Top.kind = "result" THEN ResultsOf \ {Top.n} ELSE ResultsOf)
    BY <1>1, <2>1, PopStep
  <2>3. Top.kind = "result" => Top.n \in ResultsOf /\ Top.n \notin Waiting
    <3>1. Len(frames) \in DOMAIN frames
      BY <1>1, PopFacts
    <3> QED BY <3>1 DEF Top, ResultsOf, Results, Waiting, IInv, AnsweredOnce
  <2>4. entries' = active' \cup ResultsOf'
    BY <1>1, <2>2, <2>3, Account
  <2>5. Types'
    BY <1>1, <2>2 DEF IInv, OneAccount, Types, Frames
  <2>6. IsFiniteSet(scheduled')
    BY <1>1 DEF IInv
  <2> QED BY <1>1, <1>2, <2>2, <2>4, <2>5, <2>6, Account, AccountAfter
<1>4. CASE Top.kind = "failed"
  <2>1. frames' = Append(Rest, Frame("resolveName", Top.n)) /\ UNCHANGED entries
    BY <1>1, <1>4 DEF CallbackReturns
  <2> DEFINE f == Frame("resolveName", Top.n)
             q == Rest
  <2>2. /\ q \in Seq(Frames) /\ DOMAIN q = DOMAIN frames \ {Len(frames)}
        /\ \A i \in DOMAIN q : q[i] = frames[i]
        /\ Len(frames) \in DOMAIN frames /\ Top \in Frames
    BY <1>1, PopFacts DEF Rest, Top
  <2>3. f \in Frames /\ f.kind # "result"
    <3>1. "resolveName" \in Loops \cup Callbacks /\ Top.n \in Nat
      BY <2>2 DEF Loops, Frames
    <3> QED BY <3>1, FrameIsTyped
  <2> HIDE DEF f, q
  <2>4. frames' = Append(q, f)
    BY <2>1 DEF f, q
  <2>5. /\ frames' \in Seq(Frames) /\ DOMAIN frames' = DOMAIN q \cup {Len(q) + 1}
        /\ Len(q) + 1 \notin DOMAIN q
        /\ \A i \in DOMAIN q : frames'[i] = q[i]
        /\ frames'[Len(q) + 1] = f
    BY <2>2, <2>3, <2>4, PushFacts
  <2>6. Results' = Results /\ \A i \in Results : frames'[i] = frames[i]
    <3>1. \A i \in Results : i # Len(frames)
      BY <1>4 DEF Results, Top
    <3> QED BY <2>2, <2>3, <2>5, <3>1 DEF Results
  <2>7. AnsweredOnce'
    BY <1>1, <2>6 DEF IInv, AnsweredOnce
  <2>8. ResultsOf' = ResultsOf
    BY <2>6 DEF ResultsOf
  <2>9. Types'
    BY <1>1, <2>1, <2>5 DEF IInv, OneAccount, Types, Frames
  <2>10. IsFiniteSet(scheduled')
    BY <1>1 DEF IInv
  <2> QED BY <1>1, <1>2, <2>1, <2>7, <2>8, <2>9, <2>10, Account, AccountAfter
<1> QED BY <1>3, <1>4

\* A call of the loop or of the program returns, and may have set the timeout.
LEMMA LoopReturnsStep ==
  ASSUME IInv, ResolveReturns \/ TimeoutReturns \/ ReadReturns
  PROVE  IInv'
<1>1. /\ frames # <<>> /\ Top.kind \in Loops /\ frames' = Rest
      /\ UNCHANGED <<facility, m_pendingResolutions, entries, active, request>>
  BY DEF ResolveReturns, TimeoutReturns, ReadReturns, In, Loops, own
<1>2. frames' \in Seq(Frames) /\ AnsweredOnce' /\ ResultsOf' = ResultsOf
  BY <1>1, PopStep DEF Loops
<1>3. Waiting' = Waiting /\ CancelledStayQuiet'
  BY <1>1 DEF Waiting, IInv, CancelledStayQuiet
<1>4. scheduled \subseteq Nat \ {TIMEOUT_EMPTY} /\ IsFiniteSet(scheduled)
      /\ m_timeout \in scheduled \cup {TIMEOUT_EMPTY} /\ frames \in Seq(Frames)
  BY DEF IInv, OneAccount, Types, Frames
<1>5. NewTimeout \in Nat \ {TIMEOUT_EMPTY}
  BY <1>4, NewTimeoutIsNew
<1>6. /\ scheduled' \subseteq scheduled \cup {NewTimeout}
      /\ m_timeout' \in scheduled' \cup {TIMEOUT_EMPTY}
  BY <1>4 DEF ResolveReturns, TimeoutReturns, ReadReturns, own
<1>7. IsFiniteSet(scheduled')
  <2>1. IsFiniteSet(scheduled \cup {NewTimeout})
    BY <1>4, FS_AddElement
  <2> QED BY <1>6, <2>1, FS_Subset
<1>8. Types'
  BY <1>1, <1>2, <1>4, <1>5, <1>6 DEF IInv, OneAccount, Types, Frames
<1> QED BY <1>1, <1>2, <1>3, <1>7, <1>8, Account, AccountAfter

LEMMA StutterStep ==
  ASSUME IInv, UNCHANGED vars
  PROVE  IInv'
<1>1. UNCHANGED <<facility, m_pendingResolutions, m_timeout, entries, active, scheduled,
                  request, frames>>
  BY DEF vars, own
<1>2. Results' = Results
  BY <1>1 DEF Results
<1>3. Types'
  BY <1>1 DEF IInv, OneAccount, Types
<1>4. OneAccount'
  BY <1>1, <1>3 DEF IInv, OneAccount
<1>5. AnsweredOnce'
  BY <1>1, <1>2 DEF IInv, AnsweredOnce
<1> QED BY <1>1, <1>4, <1>5 DEF IInv, CancelledStayQuiet

\* In every state the accounts agree, cancelled requests stay quiet, and each result
\* on the stack of calls is that of one request that was told.
THEOREM Invariance == Safe => []IInv
<1>1. Init => IInv
  <2> SUFFICES ASSUME Init PROVE IInv
    OBVIOUS
  <2>1. Types /\ Results = {}
    BY DEF Init, Types, Statuses, Results, TIMEOUT_EMPTY
  <2>2. OneAccount
    <3>1. {frames[i].n : i \in {k \in DOMAIN frames : frames[k].kind = "result"}} = {}
      BY <2>1 DEF Results
    <3>2. {r \in Requests : request[r].status = "waiting"} = {}
      BY DEF Init
    <3> QED BY <2>1, <3>1, <3>2 DEF Init, OneAccount
  <2>3. CancelledStayQuiet /\ AnsweredOnce /\ IsFiniteSet(scheduled)
    BY <2>1, FS_EmptySet DEF Init, CancelledStayQuiet, AnsweredOnce
  <2> QED BY <2>2, <2>3 DEF IInv
<1>2. IInv /\ [Next]_vars => IInv'
  <2> SUFFICES ASSUME IInv, [Next]_vars PROVE IInv'
    OBVIOUS
  <2>0. m_timeout \in scheduled \cup {TIMEOUT_EMPTY} /\ facility \in {"alive", "deleted"}
        /\ scheduled \subseteq Nat
    BY DEF IInv, OneAccount, Types
  <2>1. ASSUME NEW r \in Requests, NEW who \in Resolvers,
               ResolveLiteral(r, who) \/ ResolveSubmit(r, who) \/ ResolveFails(r, who)
        PROVE  IInv'
    BY <2>1, ResolveStep
  <2>2. ASSUME NEW who \in Resolvers, cancelResolutions(who)
        PROVE  IInv'
    <3> DEFINE hit == {r \in m_pendingResolutions : request[r].resolver = who}
    <3>1. hit \in SUBSET m_pendingResolutions
      OBVIOUS
    <3>2. Cancel(hit) /\ Became(hit, "cancelled") /\ UNCHANGED <<facility, m_timeout, scheduled, frames>>
      BY <2>2 DEF cancelResolutions
    <3> HIDE DEF hit
    <3> QED BY <2>0, <3>1, <3>2, CancelStep
  <2>3. CASE Delete
    <3>1. /\ Cancel(m_pendingResolutions) /\ Became(m_pendingResolutions, "forgotten")
          /\ UNCHANGED frames /\ facility' = "deleted" /\ scheduled' \subseteq scheduled
          /\ m_timeout' = TIMEOUT_EMPTY
      BY <2>3 DEF Delete
    <3> QED BY <3>1, CancelStep
  <2>4. CASE Timer \/ pollRead
    <3>1. \E kind \in {"pollRead", "timeoutFired"}, n \in Nat : Enter(kind, n)
      BY <2>0, <2>4 DEF Timer, timeoutFired, pollRead
    <3> QED BY <3>1, EnterStep
  <2>5. CASE Returns
    BY <2>5, CallbackReturnsStep, LoopReturnsStep DEF Returns
  <2>6. ASSUME NEW r \in Requests, processResult(r) PROVE IInv'
    BY <2>6, ResultStep
  <2>7. CASE UNCHANGED vars
    BY <2>7, StutterStep
  <2> QED BY <2>1, <2>2, <2>3, <2>4, <2>5, <2>6, <2>7 DEF Next, Program, Done
<1> QED BY <1>1, <1>2, PTL DEF Safe

\* libudns, m_pendingResolutions, the memory and the requests agree, however the
\* calls nest: UdnsResolvingFacility.cpp:142-246.
THEOREM AccountsAgree == Safe => []OneAccount
<1>1. IInv => OneAccount
  BY DEF IInv
<1> QED BY <1>1, Invariance, PTL

\* A resolver is not called for what it cancelled: NameResolution.hpp:88.
THEOREM CancelledAreNotCalled == Safe => []CancelledStayQuiet
<1>1. IInv => CancelledStayQuiet
  BY DEF IInv
<1> QED BY <1>1, Invariance, PTL

\* The part of "safe to `delete'" (NameResolution.hpp:102) that holds: no query and
\* no entry outlives the facility, so libudns calls no deleted one.
DeletedIsQuiet == facility = "deleted" => active = {} /\ entries = {} /\ frames = <<>>

\* DeletedIsQuiet, for any number of requests: the destructor cancels all that are
\* pending (UdnsResolvingFacility.cpp), and nothing is active that is not pending.
THEOREM NoQueryOutlivesTheFacility == Safe => []DeletedIsQuiet
<1>1. Init => DeletedIsQuiet
  BY DEF Init, DeletedIsQuiet
<1>2. IInv /\ DeletedIsQuiet /\ [Next]_vars => DeletedIsQuiet'
  <2> SUFFICES ASSUME IInv, DeletedIsQuiet, [Next]_vars PROVE DeletedIsQuiet'
    OBVIOUS
  <2>1. CASE facility = "deleted"
    <3>1. frames = <<>> /\ active = {} /\ entries = {}
      BY <2>1 DEF DeletedIsQuiet
    <3>2. UNCHANGED vars
      BY <2>1, <3>1 DEF Next, Program, ResolveLiteral, ResolveSubmit, ResolveFails, Asks, Running,
           cancelResolutions, Delete, Timer, timeoutFired, pollRead, Enter, Returns, In,
           CallbackReturns, ResolveReturns, TimeoutReturns, ReadReturns, Done, processResult
    <3> QED BY <3>1, <3>2 DEF vars, own, DeletedIsQuiet
  <2>2. CASE facility # "deleted" /\ facility' = "deleted"
    <3>1. Delete
      BY <2>2 DEF Next, Program, ResolveLiteral, ResolveSubmit, ResolveFails, vars, own,
           cancelResolutions, Timer, timeoutFired, pollRead, Enter, Returns,
           CallbackReturns, ResolveReturns, TimeoutReturns, ReadReturns, Done, processResult
    <3>2. frames' = <<>> /\ active' = active \ m_pendingResolutions
          /\ entries' = entries \ m_pendingResolutions
      BY <3>1 DEF Delete, Cancel
    <3>3. ResultsOf = {} /\ m_pendingResolutions = active /\ entries = active \cup ResultsOf
      BY <3>1, Account DEF Delete, ResultsOf, Results
    <3> QED BY <3>2, <3>3 DEF DeletedIsQuiet
  <2>3. CASE facility' # "deleted"
    BY <2>3 DEF DeletedIsQuiet
  <2> QED BY <2>1, <2>2, <2>3
<1> QED BY <1>1, <1>2, Invariance, PTL DEF Safe
===============================================================================
