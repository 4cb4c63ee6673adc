-------------------------- MODULE ConnectionProofs --------------------------
(* Proofs about Connection for any endpoints, priorities, timeouts and calls, *)
(* and sessions that the server closes at any time: what holds until the      *)
(* network fails under an established session.                                *)
EXTENDS Connection, FiniteSetTheorems, SequenceTheorems, TLAPS

\* An established session has a client and a server id until 'close' is
\* handled, and a socket in another stage belongs to no session: every pending
\* statement is in the queue of a client whose socket has not been closed.
Session ==
    /\ queue \in Seq(Calls \cup {CloseCall})
    /\ DOMAIN call = Calls
    /\ serverId => phase = "established" /\ hasClient
    /\ phase = "established" /\ over # "closed" => serverId
    /\ phase = "negotiating" /\ over # "closed" => hasClient
    /\ phase = "established" => over # "erred"
    /\ opened = "none" => phase = "none" /\ over = "closed"
    /\ opened = "resolved" => phase = "established"
    /\ \A c \in Calls : call[c] = "pending" =>
          InSequence(c, queue) /\ over # "closed" /\ phase = "established"

SessionInv == ~lost => Session

LEMMA SessionInit == Init => SessionInv
  BY DEF Init, SessionInv, Session, InSequence

LEMMA AppendKeeps ==
    ASSUME NEW S, NEW s \in Seq(S), NEW d \in S, NEW c
    PROVE  InSequence(c, Append(s, d)) <=> (InSequence(c, s) \/ c = d)
  <1>1. /\ DOMAIN s = 1 .. Len(s) /\ DOMAIN Append(s, d) = 1 .. Len(s) + 1
        /\ \A i \in 1 .. Len(s) : Append(s, d)[i] = s[i]
        /\ Append(s, d)[Len(s) + 1] = d /\ Len(s) \in Nat
    OBVIOUS
  <1>2. ASSUME InSequence(c, Append(s, d)) PROVE InSequence(c, s) \/ c = d
    <2>1. PICK i \in 1 .. Len(s) + 1 : Append(s, d)[i] = c
      BY <1>1, <1>2 DEF InSequence
    <2>2. CASE i = Len(s) + 1
      BY <1>1, <2>1, <2>2
    <2>3. CASE i # Len(s) + 1
      <3>1. i \in 1 .. Len(s)
        BY <1>1, <2>3
      <3> QED
        BY <1>1, <2>1, <3>1 DEF InSequence
    <2> QED
      BY <2>2, <2>3
  <1>3. ASSUME InSequence(c, s) \/ c = d PROVE InSequence(c, Append(s, d))
    <2>1. \A i \in 1 .. Len(s) : i \in 1 .. Len(s) + 1
      BY <1>1
    <2>2. Len(s) + 1 \in 1 .. Len(s) + 1
      BY <1>1
    <2> QED
      BY <1>1, <1>3, <2>1, <2>2 DEF InSequence
  <1> QED
    BY <1>2, <1>3

LEMMA TailKeeps ==
    ASSUME NEW S, NEW s \in Seq(S), s # <<>>, NEW c, c # Head(s), InSequence(c, s)
    PROVE  InSequence(c, Tail(s))
  <1>1. PICK i \in 1 .. Len(s) : s[i] = c
    BY DEF InSequence
  <1>2. i # 1
    BY <1>1
  <1>3. /\ i - 1 \in 1 .. Len(Tail(s)) /\ Tail(s)[i - 1] = c
        /\ DOMAIN Tail(s) = 1 .. Len(Tail(s))
    BY <1>1, <1>2
  <1> QED
    BY <1>3 DEF InSequence

\* A step that leaves the queue and the statements alone.
LEMMA SocketStep ==
    ASSUME Session,
           Open \/ OpenNothing \/ Negotiate \/ ServerEnds \/ Wait
    PROVE  Session'
  <1> USE DEF Session
  <1>1. CASE Open
    BY <1>1 DEF Open, CanOpen, IsOpen, Connect, clientVars
  <1>2. CASE OpenNothing
    BY <1>2 DEF OpenNothing, socketVars, clientVars
  <1>3. CASE OnReady
    BY <1>3 DEF OnReady, promiseVars
  <1>4. CASE OnRefused
    BY <1>4 DEF OnRefused, Alive, Fail, clientVars, promiseVars
  <1>5. CASE OnTimeout
    BY <1>5 DEF OnTimeout, Alive, Fail, clientVars, promiseVars
  <1>6. CASE OnDenied
    BY <1>6 DEF OnDenied, Alive, Fail, clientVars, promiseVars
  <1>7. CASE OnUnknownCapability
    BY <1>7 DEF OnUnknownCapability, Alive, Fail, clientVars, promiseVars
  <1>8. CASE OnAuthenticated
    BY <1>8 DEF OnAuthenticated, Alive
  <1>9. CASE ServerEnds
    BY <1>9 DEF ServerEnds, Alive, clientVars, promiseVars
  <1>10. CASE Wait
    BY <1>10 DEF Wait, socketVars, clientVars, promiseVars
  <1> QED
    BY <1>1, <1>2, <1>3, <1>4, <1>5, <1>6, <1>7, <1>8, <1>9, <1>10
    DEF Negotiate

\* The 'close' event rejects a workload before anything is reset.
LEMMA CloseEventStep ==
    ASSUME Session, OnClose
    PROVE  Session'
  <1> USE DEF Session
  <1>1. CASE OnCloseActive
    <2>1. /\ queue' = <<>> /\ over' = "closed"
          /\ UNCHANGED <<phase, hasClient, serverId, opened>>
          /\ call' = [c \in Calls |-> IF InSequence(c, queue) THEN "rejected" ELSE call[c]]
      BY <1>1 DEF OnCloseActive, Rejects
    <2>2. \A c \in Calls : call'[c] # "pending"
      BY <2>1
    <2> QED
      BY <2>1, <2>2
  <1>2. CASE OnCloseIdle
    <2>1. queue = <<>>
      BY <1>2 DEF OnCloseIdle, IsActive
    <2>2. \A c \in Calls : call[c] # "pending"
      BY <2>1 DEF InSequence
    <2> QED
      BY <1>2, <2>2 DEF OnCloseIdle, Reset, IsOpen
  <1>3. CASE OnCloseGiveUp
    <2>1. phase # "established"
      BY <1>3 DEF OnCloseGiveUp, Closes, IsOpen
    <2> QED
      BY <1>3, <2>1 DEF OnCloseGiveUp, Reset, Failures
  <1>4. CASE OnCloseFailover
    <2>1. phase # "established"
      BY <1>4 DEF OnCloseFailover, Closes, IsOpen
    <2> QED
      BY <1>4, <2>1 DEF OnCloseFailover, Closes, Connect, clientVars, promiseVars
  <1> QED
    BY <1>1, <1>2, <1>3, <1>4 DEF OnClose

LEMMA CallStep ==
    ASSUME Session, (\E c \in Calls : Execute(c)) \/ Close \/ OnAnswer \/ OnCloseAnswer
    PROVE  Session'
  <1> USE DEF Session
  <1>1. ASSUME NEW c \in Calls, Execute(c) PROVE Session'
    <2>1. CASE IsOpen
      <3>1. /\ queue' = Append(queue, c)
            /\ call' = [call EXCEPT ![c] = IF over = "closed" THEN "unheard" ELSE "pending"]
            /\ UNCHANGED <<hasClient, serverId, opened, phase, over>>
        BY <1>1, <2>1 DEF Execute, socketVars
      <3>2. \A d : InSequence(d, queue') <=> (InSequence(d, queue) \/ d = c)
        BY <3>1, AppendKeeps
      <3>3. queue' \in Seq(Calls \cup {CloseCall}) /\ DOMAIN call' = Calls
        BY <3>1
      <3>4. ASSUME NEW d \in Calls, call'[d] = "pending"
            PROVE  InSequence(d, queue') /\ over # "closed" /\ phase = "established"
        <4>1. CASE d = c
          BY <2>1, <3>1, <3>2, <3>4, <4>1 DEF IsOpen
        <4>2. CASE d # c
          BY <3>1, <3>2, <3>4, <4>2
        <4> QED
          BY <4>1, <4>2
      <3> QED
        BY <3>1, <3>3, <3>4
    <2>2. CASE ~IsOpen
      <3>1. /\ queue' = queue /\ call' = [call EXCEPT ![c] = "rejected"]
            /\ UNCHANGED <<hasClient, serverId, opened, phase, over>>
        BY <1>1, <2>2 DEF Execute, socketVars
      <3>2. \A d \in Calls : call'[d] = "pending" => call[d] = "pending"
        BY <3>1
      <3> QED
        BY <3>1, <3>2
    <2> QED
      BY <2>1, <2>2
  <1>2. CASE Close
    <2>1. UNCHANGED <<hasClient, serverId, opened, phase, over, call>>
      BY <1>2 DEF Close, socketVars
    <2>2. queue' = queue \/ queue' = Append(queue, CloseCall)
      BY <1>2 DEF Close
    <2>3. \A d : InSequence(d, queue) => InSequence(d, queue')
      <3>1. CloseCall \in Calls \cup {CloseCall}
        OBVIOUS
      <3>2. \A d : InSequence(d, Append(queue, CloseCall))
                      <=> (InSequence(d, queue) \/ d = CloseCall)
        BY <3>1, AppendKeeps
      <3> QED
        BY <2>2, <3>2
    <2>4. queue' \in Seq(Calls \cup {CloseCall})
      BY <2>2
    <2> QED
      BY <2>1, <2>3, <2>4
  <1>3. CASE OnAnswer \/ OnCloseAnswer
    <2>1. /\ queue # <<>> /\ queue' = Tail(queue) /\ phase = "established" /\ over = "no"
          /\ UNCHANGED <<hasClient, serverId, opened, phase>>
          /\ over' \in {"no", "ended"}
      BY <1>3 DEF OnAnswer, OnCloseAnswer, Answering, Alive, DestroySocket, socketVars
    <2>2. \/ call' = [call EXCEPT ![Head(queue)] = "answered"]
          \/ call' = call /\ Head(queue) = CloseCall
      BY <1>3 DEF OnAnswer, OnCloseAnswer
    <2>3. \A c \in Calls : call'[c] = "pending" => call[c] = "pending" /\ c # Head(queue)
      BY <2>2, ConnectionAssumption DEF ConnectionAssumption
    <2>4. \A c \in Calls : call'[c] = "pending" => InSequence(c, queue')
      BY <2>1, <2>3, TailKeeps
    <2>5. queue' \in Seq(Calls \cup {CloseCall}) /\ DOMAIN call' = Calls
      BY <2>1, <2>2
    <2> QED
      BY <2>1, <2>3, <2>4, <2>5
  <1> QED
    BY <1>1, <1>2, <1>3

\* Once the network has failed it has failed.
LEMMA LostForGood == lost /\ [Next]_vars => lost'
  <1> SUFFICES ASSUME lost, [Next]_vars PROVE lost'
    OBVIOUS
  <1> USE DEF historyVars
  <1>1. CASE Open \/ OpenNothing
    BY <1>1 DEF Open, OpenNothing
  <1>2. CASE Negotiate
    BY <1>2 DEF Negotiate, OnReady, OnRefused, OnTimeout, OnDenied,
                OnUnknownCapability, OnAuthenticated
  <1>3. CASE ServerEnds \/ NetworkFails \/ Wait
    BY <1>3 DEF ServerEnds, NetworkFails, Wait
  <1>4. CASE OnClose
    BY <1>4 DEF OnClose, OnCloseActive, OnCloseIdle, OnCloseGiveUp, OnCloseFailover
  <1>5. CASE (\E c \in Calls : Execute(c)) \/ Close \/ OnAnswer \/ OnCloseAnswer
    BY <1>5 DEF Execute, Close, OnAnswer, OnCloseAnswer
  <1>6. CASE UNCHANGED vars
    BY <1>6 DEF vars
  <1> QED
    BY <1>1, <1>2, <1>3, <1>4, <1>5, <1>6 DEF Next

LEMMA SessionStep == SessionInv /\ [Next]_vars => SessionInv'
  <1> SUFFICES ASSUME SessionInv, [Next]_vars, ~lost' PROVE Session'
    BY DEF SessionInv
  <1>1. Session
    BY LostForGood DEF SessionInv
  <1>2. CASE Open \/ OpenNothing \/ Negotiate \/ ServerEnds \/ Wait
    BY <1>1, <1>2, SocketStep
  <1>3. CASE NetworkFails
    BY <1>3 DEF NetworkFails
  <1>4. CASE OnClose
    BY <1>1, <1>4, CloseEventStep
  <1>5. CASE (\E c \in Calls : Execute(c)) \/ Close \/ OnAnswer \/ OnCloseAnswer
    BY <1>1, <1>5, CallStep
  <1>6. CASE UNCHANGED vars
    BY <1>1, <1>6 DEF vars, Session, socketVars, clientVars, promiseVars
  <1> QED
    BY <1>2, <1>3, <1>4, <1>5, <1>6 DEF Next

LEMMA SessionInvariant == Spec => []SessionInv
  <1>1. SessionInv /\ [Next]_vars => SessionInv'
    BY SessionStep
  <1> QED
    BY <1>1, SessionInit, PTL DEF Spec

\* As long as the network holds, a statement that is pending is in the queue
\* of the client, and the end of the socket settles it.
THEOREM NothingStranded == Spec => []NoCallStranded
  <1>1. SessionInv => NoCallStranded
    BY DEF SessionInv, Session, NoCallStranded
  <1> QED
    BY <1>1, SessionInvariant, PTL

\* As long as the network holds, a session is never moved to another socket.
THEOREM StaysClosed == Spec => []SessionStaysClosed
  <1>1. SessionInv => SessionStaysClosed
    BY DEF SessionInv, Session, SessionStaysClosed
  <1> QED
    BY <1>1, SessionInvariant, PTL

-----------------------------------------------------------------------------
(* close().                                                                 *)

\* Only a session is being closed, and none after it was closed.
Closing ==
    /\ isClosing => hasClient /\ serverId
    /\ isClosing /\ over = "no" => closing = "pending"
    /\ closing # "none" => phase = "established"
    /\ closing = "resolved" => over # "no"

ClosingInv == ~lost => Session /\ Closing

\* No step but close() and what follows it touches a session that is closed.
LEMMA ClosingStep ==
    ASSUME Session, Closing, [Next]_vars, ~lost'
    PROVE  Closing'
  <1> USE DEF Closing
  <1>1. CASE Open \/ OpenNothing
    <2>1. ~isClosing /\ CanOpen
      BY <1>1 DEF Open, OpenNothing, CanOpen, IsOpen, Session
    <2> QED
      BY <1>1, <2>1 DEF Open, OpenNothing, flagVars
  <1>2. CASE Negotiate
    <2>1. phase # "established" /\ ~serverId /\ ~isClosing /\ closing = "none"
      BY <1>2 DEF Negotiate, OnReady, OnRefused, OnTimeout, OnDenied,
                  OnUnknownCapability, OnAuthenticated, Session
    <2>2. closing' = closing /\ isClosing' = isClosing
      BY <1>2 DEF Negotiate, OnReady, OnRefused, OnTimeout, OnDenied,
                  OnUnknownCapability, OnAuthenticated, promiseVars, flagVars
    <2> QED
      BY <2>1, <2>2
  <1>3. CASE ServerEnds
    BY <1>3 DEF ServerEnds, clientVars, flagVars, promiseVars
  <1>4. CASE NetworkFails
    BY <1>4 DEF NetworkFails
  <1>5. CASE Wait
    BY <1>5 DEF Wait, socketVars, clientVars, flagVars, promiseVars
  <1>6. CASE OnCloseActive
    <2>1. phase = "established" /\ phase' = phase
      BY <1>6 DEF OnCloseActive, IsOpen, Session
    <2>2. over' = "closed" /\ closing' \in {"rejected", closing}
      BY <1>6 DEF OnCloseActive
    <2>3. isClosing' => hasClient' /\ serverId'
      BY <1>6 DEF OnCloseActive, flagVars
    <2> QED
      BY <2>1, <2>2, <2>3
  <1>7. CASE OnCloseIdle
    BY <1>7 DEF OnCloseIdle, Reset
  <1>8. CASE OnCloseGiveUp
    BY <1>8 DEF OnCloseGiveUp, Reset
  <1>9. CASE OnCloseFailover
    <2>1. phase # "established"
      BY <1>9 DEF OnCloseFailover, Closes, IsOpen, Session
    <2>2. ~isClosing /\ closing = "none"
      BY <2>1 DEF Session
    <2> QED
      BY <1>9, <2>2 DEF OnCloseFailover, promiseVars
  <1>10. ASSUME NEW c \in Calls, Execute(c) PROVE Closing'
    BY <1>10 DEF Execute, socketVars, flagVars
  <1>11. CASE Close
    <2>1. phase = "established" /\ closing = "none"
      BY <1>11 DEF Close, Session
    <2>2. CASE ~IsOpen \/ isClosing \/ ~Alive
      <3>1. over # "no"
        BY <2>1, <2>2 DEF IsOpen, Alive, Session
      <3> QED
        BY <1>11, <2>1, <2>2, <3>1 DEF Close, socketVars
    <2>3. CASE ~(~IsOpen \/ isClosing \/ ~Alive)
      BY <1>11, <2>1, <2>3 DEF Close, IsOpen, socketVars
    <2> QED
      BY <2>2, <2>3
  <1>12. CASE OnAnswer
    BY <1>12 DEF OnAnswer, socketVars, flagVars
  <1>13. CASE OnCloseAnswer
    BY <1>13 DEF OnCloseAnswer, Answering, DestroySocket
  <1>14. CASE UNCHANGED vars
    BY <1>14 DEF vars, socketVars, clientVars, flagVars, promiseVars
  <1> QED
    BY <1>1, <1>2, <1>3, <1>4, <1>5, <1>6, <1>7, <1>8, <1>9, <1>10, <1>11, <1>12,
       <1>13, <1>14
    DEF Next, OnClose

\* As long as the network holds, close() resolves when the socket is gone, and
\* no other takes its place until the connection is opened again.
THEOREM Closed == Spec => []CloseIsFinal
  <1>1. Init => ClosingInv
    BY SessionInit DEF Init, SessionInv, ClosingInv, Closing
  <1>2. ClosingInv /\ [Next]_vars => ClosingInv'
    <2>1. SUFFICES ASSUME ClosingInv, [Next]_vars, ~lost' PROVE Session' /\ Closing'
      BY DEF ClosingInv
    <2>2. ~lost /\ Session /\ Closing
      BY <2>1, LostForGood DEF ClosingInv
    <2>3. Session'
      BY <2>1, <2>2, SessionStep DEF SessionInv
    <2> QED
      BY <2>1, <2>2, <2>3, ClosingStep
  <1>3. ClosingInv => CloseIsFinal
    BY DEF ClosingInv, Closing, CloseIsFinal, Alive
  <1> QED
    BY <1>1, <1>2, <1>3, PTL DEF Spec

-----------------------------------------------------------------------------
(* The lists of endpoints.                                                  *)

Entries == [endpoint : Endpoints, age : Ages]

\* An endpoint is in one of two lists.
Somewhere(e, list, entries) ==
    InSequence(e, list) \/ \E i \in DOMAIN entries : entries[i].endpoint = e

\* Two lists that have every endpoint, and no room for one twice.
Complete(list, entries) ==
    /\ list \in Seq(Endpoints) /\ entries \in Seq(Entries)
    /\ Len(list) + Len(entries) = Cardinality(Endpoints)
    /\ \A e \in Endpoints : Somewhere(e, list, entries)

\* The longest ago first.
ByAge(entries) ==
    \A i, j \in DOMAIN entries : i < j => entries[i].age >= entries[j].age

LEMMA AgesType == Ages \subseteq Nat /\ 0 \in Ages /\ RetryAfter + 1 \in Ages
  BY ConnectionAssumption DEF ConnectionAssumption, Ages

\* How many entries can be retried is a position in the list.
LEMMA RetryableType ==
    ASSUME NEW u \in Seq(Entries)
    PROVE  Retryable(u) \in 0 .. Len(u)
  <1> DEFINE R == {i \in DOMAIN u : \A j \in 1 .. i : CanRetry(u[j])}
  <1>1. R \in SUBSET (1 .. Len(u)) /\ Len(u) \in Nat
    OBVIOUS
  <1>2. IsFiniteSet(1 .. Len(u)) /\ Cardinality(1 .. Len(u)) = Len(u)
    <2>1. \A n \in Nat : IsFiniteSet(1 .. n) /\ Cardinality(1 .. n) = n
      <3> TAKE n \in Nat
      <3>1. Cardinality(1 .. n) = IF 1 > n THEN 0 ELSE n - 1 + 1
        BY FS_Interval
      <3> QED
        BY <3>1, FS_Interval
    <2> QED
      BY <1>1, <2>1
  <1>3. Cardinality(R) <= Len(u) /\ IsFiniteSet(R)
    BY <1>1, <1>2, FS_Subset
  <1>4. Cardinality(R) \in Nat
    BY <1>3, FS_CardinalityType
  <1> QED
    BY <1>1, <1>3, <1>4 DEF Retryable

\* update() cuts the list in two.
LEMMA CutProperties ==
    ASSUME NEW u \in Seq(Entries)
    PROVE  /\ Retryable(u) \in 0 .. Len(u)
           /\ Recovered(u) \in Seq(Endpoints) /\ Len(Recovered(u)) = Retryable(u)
           /\ \A i \in 1 .. Retryable(u) : Recovered(u)[i] = u[i].endpoint
           /\ StillUnavailable(u) \in Seq(Entries)
           /\ Len(StillUnavailable(u)) = Len(u) - Retryable(u)
           /\ \A i \in 1 .. Len(u) - Retryable(u) :
                 StillUnavailable(u)[i] = u[i + Retryable(u)]
  <1> DEFINE k == Retryable(u)
             es == EndpointsOf(u)
  <1>1. k \in 0 .. Len(u) /\ Len(u) \in Nat
    BY RetryableType
  <1>2. \A i \in 1 .. Len(u) : u[i] \in Entries /\ es[i] = u[i].endpoint /\ es[i] \in Endpoints
    <2>1. \A i \in 1 .. Len(u) : u[i] \in Entries /\ i \in DOMAIN u
      OBVIOUS
    <2>2. \A n \in Entries : n.endpoint \in Endpoints
      BY DEF Entries
    <2> QED
      BY <2>1, <2>2 DEF EndpointsOf
  <1> HIDE DEF k, es
  <1>3. /\ SubSeq(es, 1, k) \in Seq(Endpoints)
        /\ Len(SubSeq(es, 1, k)) = IF 1 <= k THEN k - 1 + 1 ELSE 0
        /\ \A i \in 1 .. k - 1 + 1 : SubSeq(es, 1, k)[i] = es[1 + i - 1]
    <2>1. \A i \in 1 .. k : es[i] \in Endpoints
      BY <1>1, <1>2
    <2> QED
      BY <1>1, <2>1, SubSeqProperties
  <1>4. /\ SubSeq(u, k + 1, Len(u)) \in Seq(Entries)
        /\ Len(SubSeq(u, k + 1, Len(u))) = IF k + 1 <= Len(u) THEN Len(u) - (k + 1) + 1 ELSE 0
        /\ \A i \in 1 .. Len(u) - (k + 1) + 1 :
              SubSeq(u, k + 1, Len(u))[i] = u[k + 1 + i - 1]
    <2>1. \A i \in k + 1 .. Len(u) : u[i] \in Entries
      BY <1>1, <1>2
    <2>2. k + 1 \in Int /\ Len(u) \in Int
      BY <1>1
    <2> QED
      BY <2>1, <2>2, SubSeqProperties
  <1>5. Recovered(u) = SubSeq(es, 1, k) /\ StillUnavailable(u) = SubSeq(u, k + 1, Len(u))
    BY DEF Recovered, StillUnavailable, k, es
  <1>6. Len(Recovered(u)) = k /\ \A i \in 1 .. k : Recovered(u)[i] = u[i].endpoint
    BY <1>1, <1>2, <1>3, <1>5
  <1>7. /\ Len(StillUnavailable(u)) = Len(u) - k
        /\ \A i \in 1 .. Len(u) - k : StillUnavailable(u)[i] = u[i + k]
    BY <1>1, <1>4, <1>5
  <1> QED
    BY <1>1, <1>3, <1>4, <1>5, <1>6, <1>7 DEF k

\* What is in a list that was put together from two.
LEMMA ConcatMembers ==
    ASSUME NEW S, NEW s \in Seq(S), NEW t \in Seq(S), NEW e
    PROVE  InSequence(e, s \o t) <=> InSequence(e, s) \/ InSequence(e, t)
  <1>1. /\ s \o t \in Seq(S) /\ Len(s \o t) = Len(s) + Len(t)
        /\ \A i \in 1 .. Len(s) + Len(t) :
              (s \o t)[i] = IF i <= Len(s) THEN s[i] ELSE t[i - Len(s)]
    BY ConcatProperties
  <1>2. DOMAIN (s \o t) = 1 .. Len(s) + Len(t) /\ Len(s) \in Nat /\ Len(t) \in Nat
    BY <1>1
  <1>3. ASSUME InSequence(e, s \o t) PROVE InSequence(e, s) \/ InSequence(e, t)
    <2>1. PICK i \in 1 .. Len(s) + Len(t) : (s \o t)[i] = e
      BY <1>2, <1>3 DEF InSequence
    <2>2. CASE i <= Len(s)
      BY <1>1, <1>2, <2>1, <2>2 DEF InSequence
    <2>3. CASE ~(i <= Len(s))
      <3>1. i - Len(s) \in 1 .. Len(t) /\ t[i - Len(s)] = e
        BY <1>1, <1>2, <2>1, <2>3
      <3> QED
        BY <3>1 DEF InSequence
    <2> QED
      BY <2>2, <2>3
  <1>4. ASSUME InSequence(e, s) PROVE InSequence(e, s \o t)
    <2>1. PICK i \in 1 .. Len(s) : s[i] = e
      BY <1>4 DEF InSequence
    <2>2. i \in 1 .. Len(s) + Len(t) /\ (s \o t)[i] = e
      BY <1>1, <1>2, <2>1
    <2> QED
      BY <1>2, <2>2 DEF InSequence
  <1>5. ASSUME InSequence(e, t) PROVE InSequence(e, s \o t)
    <2>1. PICK i \in 1 .. Len(t) : t[i] = e
      BY <1>5 DEF InSequence
    <2>2. i + Len(s) \in 1 .. Len(s) + Len(t) /\ ~(i + Len(s) <= Len(s))
          /\ (i + Len(s)) - Len(s) = i
      BY <1>2, <2>1
    <2>3. (s \o t)[i + Len(s)] = e
      BY <1>1, <2>1, <2>2
    <2> QED
      BY <1>2, <2>2, <2>3 DEF InSequence
  <1> QED
    BY <1>3, <1>4, <1>5

\* update() moves endpoints from one list to the other.
LEMMA CutKeeps ==
    ASSUME NEW s, NEW u, Complete(s, u)
    PROVE  Complete(s \o Recovered(u), StillUnavailable(u))
  <1> USE DEF Complete
  <1> DEFINE k == Retryable(u)
  <1>1. /\ k \in 0 .. Len(u)
        /\ Recovered(u) \in Seq(Endpoints) /\ Len(Recovered(u)) = k
        /\ \A i \in 1 .. k : Recovered(u)[i] = u[i].endpoint
        /\ StillUnavailable(u) \in Seq(Entries)
        /\ Len(StillUnavailable(u)) = Len(u) - k
        /\ \A i \in 1 .. Len(u) - k : StillUnavailable(u)[i] = u[i + k]
    BY CutProperties
  <1>2. s \o Recovered(u) \in Seq(Endpoints) /\ Len(s \o Recovered(u)) = Len(s) + k
    <2>1. s \in Seq(Endpoints) /\ Recovered(u) \in Seq(Endpoints)
      BY <1>1
    <2>2. Len(s \o Recovered(u)) = Len(s) + Len(Recovered(u))
      BY <2>1, ConcatProperties
    <2> QED
      BY <1>1, <2>1, <2>2
  <1>3. Len(s) \in Nat /\ Len(u) \in Nat /\ DOMAIN u = 1 .. Len(u)
    OBVIOUS
  <1> HIDE DEF k
  <1>4. ASSUME NEW e \in Endpoints
        PROVE  Somewhere(e, s \o Recovered(u), StillUnavailable(u))
    <2>1. CASE InSequence(e, s)
      BY <1>1, <2>1, ConcatMembers DEF Somewhere
    <2>2. ASSUME NEW i \in 1 .. Len(u), u[i].endpoint = e
          PROVE  Somewhere(e, s \o Recovered(u), StillUnavailable(u))
      <3>1. CASE i <= k
        <4>1. i \in 1 .. k /\ DOMAIN Recovered(u) = 1 .. k
          BY <1>1, <1>3, <3>1
        <4>2. InSequence(e, Recovered(u))
          BY <1>1, <2>2, <4>1 DEF InSequence
        <4> QED
          BY <1>1, <4>2, ConcatMembers DEF Somewhere
      <3>2. CASE ~(i <= k)
        <4>1. /\ i - k \in 1 .. Len(u) - k /\ (i - k) + k = i
              /\ DOMAIN StillUnavailable(u) = 1 .. Len(u) - k
          BY <1>1, <1>3, <3>2
        <4>2. StillUnavailable(u)[i - k].endpoint = e
          BY <1>1, <2>2, <4>1
        <4> QED
          BY <4>1, <4>2 DEF Somewhere
      <3> QED
        BY <3>1, <3>2
    <2>3. InSequence(e, s) \/ \E i \in 1 .. Len(u) : u[i].endpoint = e
      BY <1>3 DEF Somewhere
    <2> QED
      BY <2>1, <2>2, <2>3
  <1> QED
    BY <1>1, <1>2, <1>3, <1>4

\* sort() changes the order only.
LEMMA SortKeeps ==
    ASSUME NEW s, NEW u, Complete(s, u), NEW t \in Sorts(s)
    PROVE  Complete(t, u) /\ Len(t) = Len(s)
  <1> USE DEF Complete
  <1>1. {s[i] : i \in DOMAIN s} \subseteq Endpoints /\ Len(s) \in Nat
    OBVIOUS
  <1>2. t \in [1 .. Len(s) -> Endpoints] /\ \A e \in Endpoints : InSequence(e, s) <=> InSequence(e, t)
    BY <1>1 DEF Sorts
  <1>3. t \in Seq(Endpoints) /\ Len(t) = Len(s)
    BY <1>1, <1>2
  <1> QED
    BY <1>2, <1>3 DEF Somewhere

\* The endpoint that failed goes to the end of the other list.
LEMMA ShiftKeeps ==
    ASSUME NEW s, NEW u, Complete(s, u), s # <<>>
    PROVE  /\ Complete(Tail(s), Append(u, [endpoint |-> Head(s), age |-> 0]))
           /\ Head(s) \in Endpoints
  <1> USE DEF Complete
  <1> DEFINE n == [endpoint |-> Head(s), age |-> 0]
  <1>1. /\ Head(s) \in Endpoints /\ Tail(s) \in Seq(Endpoints) /\ Len(Tail(s)) = Len(s) - 1
    BY HeadTailProperties
  <1>2. n \in Entries
    BY <1>1, AgesType DEF Entries
  <1>3. /\ Append(u, n) \in Seq(Entries) /\ Len(Append(u, n)) = Len(u) + 1
        /\ \A i \in 1 .. Len(u) : Append(u, n)[i] = u[i]
        /\ Append(u, n)[Len(u) + 1] = n
    BY <1>2, AppendProperties
  <1>4. n.endpoint = Head(s)
    OBVIOUS
  <1>5. /\ Len(u) \in Nat /\ Len(s) \in Nat /\ DOMAIN u = 1 .. Len(u)
        /\ DOMAIN Append(u, n) = 1 .. Len(u) + 1
    BY <1>3
  <1> HIDE DEF n
  <1>6. ASSUME NEW e \in Endpoints
        PROVE  Somewhere(e, Tail(s), Append(u, n))
    <2>1. CASE e = Head(s)
      <3>1. Len(u) + 1 \in DOMAIN Append(u, n)
        BY <1>5
      <3> QED
        BY <1>3, <1>4, <2>1, <3>1 DEF Somewhere
    <2>2. CASE InSequence(e, s) /\ e # Head(s)
      BY <2>2, TailKeeps DEF Somewhere
    <2>3. ASSUME NEW i \in DOMAIN u, u[i].endpoint = e
          PROVE  Somewhere(e, Tail(s), Append(u, n))
      <3>1. i \in 1 .. Len(u) /\ i \in DOMAIN Append(u, n)
        BY <1>5
      <3> QED
        BY <1>3, <2>3, <3>1 DEF Somewhere
    <2> QED
      BY <2>1, <2>2, <2>3 DEF Somewhere
  <1> QED
    BY <1>1, <1>3, <1>5, <1>6 DEF n

\* Time changes ages only, and up to the limit.
LEMMA OlderProperties ==
    ASSUME NEW u \in Seq(Entries), NEW time \in Nat
    PROVE  /\ Older(u, time) \in Seq(Entries) /\ Len(Older(u, time)) = Len(u)
           /\ \A i \in 1 .. Len(u) :
                 /\ Older(u, time)[i].endpoint = u[i].endpoint
                 /\ Older(u, time)[i].age =
                       IF u[i].age + time > RetryAfter THEN RetryAfter + 1
                       ELSE u[i].age + time
  <1> DEFINE o == Older(u, time)
             older(n) == IF n.age + time > RetryAfter THEN RetryAfter + 1 ELSE n.age + time
  <1>1. \A i \in 1 .. Len(u) : o[i] = [u[i] EXCEPT !.age = older(u[i])]
    <2> TAKE i \in 1 .. Len(u)
    <2>1. i \in DOMAIN u
      OBVIOUS
    <2> QED
      BY <2>1 DEF Older
  <1>2. \A n \in Entries : older(n) \in Ages
    BY ConnectionAssumption DEF ConnectionAssumption, Entries, Ages
  <1>3. \A n \in Entries : /\ [n EXCEPT !.age = older(n)] \in Entries
                           /\ [n EXCEPT !.age = older(n)].endpoint = n.endpoint
                           /\ [n EXCEPT !.age = older(n)].age = older(n)
    <2> TAKE n \in Entries
    <2>1. older(n) \in Ages
      BY <1>2
    <2> HIDE DEF older
    <2> QED
      BY <2>1 DEF Entries
  <1>4. \A i \in 1 .. Len(u) : u[i] \in Entries
    OBVIOUS
  <1>5. DOMAIN o = 1 .. Len(u) /\ Len(u) \in Nat
    BY DEF Older
  <1>6. \A i \in 1 .. Len(u) :
           o[i] \in Entries /\ o[i].endpoint = u[i].endpoint /\ o[i].age = older(u[i])
    <2> HIDE DEF o, older
    <2> QED
      BY <1>1, <1>3, <1>4
  <1>7. o = [i \in 1 .. Len(u) |-> o[i]]
    BY <1>5 DEF Older
  <1>8. o \in Seq(Entries) /\ Len(o) = Len(u)
    <2> HIDE DEF o
    <2>1. o \in [1 .. Len(u) -> Entries]
      BY <1>6, <1>7
    <2> QED
      BY <1>5, <2>1
  <1> QED
    BY <1>6, <1>8

LEMMA EntryAge ==
    ASSUME NEW u \in Seq(Entries), NEW i \in 1 .. Len(u)
    PROVE  u[i].age \in Nat
  <1>1. u[i] \in Entries
    OBVIOUS
  <1>2. \A n \in Entries : n.age \in Ages
    BY DEF Entries
  <1> QED
    BY <1>1, <1>2, AgesType

LEMMA OlderKeeps ==
    ASSUME NEW s, NEW u, Complete(s, u), ByAge(u), NEW time \in Nat
    PROVE  Complete(s, Older(u, time)) /\ ByAge(Older(u, time))
  <1> DEFINE o == Older(u, time)
  <1>1. /\ u \in Seq(Entries) /\ o \in Seq(Entries) /\ Len(o) = Len(u)
        /\ \A i \in 1 .. Len(u) :
              /\ o[i].endpoint = u[i].endpoint
              /\ o[i].age = IF u[i].age + time > RetryAfter THEN RetryAfter + 1
                            ELSE u[i].age + time
    BY OlderProperties DEF Complete
  <1>2. DOMAIN o = 1 .. Len(u) /\ DOMAIN u = 1 .. Len(u)
    BY <1>1
  <1>3. \A i \in 1 .. Len(u) : u[i].age \in Nat
    BY <1>1, EntryAge
  <1> HIDE DEF o
  <1>4. Complete(s, o)
    BY <1>1, <1>2 DEF Complete, Somewhere
  <1>5. ByAge(o)
    <2> SUFFICES ASSUME NEW i \in 1 .. Len(u), NEW j \in 1 .. Len(u), i < j
                 PROVE  o[i].age >= o[j].age
      BY <1>2 DEF ByAge
    <2>1. u[i].age >= u[j].age /\ u[i].age \in Nat /\ u[j].age \in Nat
      BY <1>2, <1>3 DEF ByAge
    <2>2. RetryAfter \in Nat /\ time \in Nat
      BY ConnectionAssumption DEF ConnectionAssumption
    <2>3. /\ o[i].age = IF u[i].age + time > RetryAfter THEN RetryAfter + 1
                        ELSE u[i].age + time
          /\ o[j].age = IF u[j].age + time > RetryAfter THEN RetryAfter + 1
                        ELSE u[j].age + time
      BY <1>1
    <2> QED
      BY <2>1, <2>2, <2>3
  <1> QED
    BY <1>4, <1>5 DEF o

LEMMA ShiftByAge ==
    ASSUME NEW u \in Seq(Entries), ByAge(u), NEW e \in Endpoints
    PROVE  ByAge(Append(u, [endpoint |-> e, age |-> 0]))
  <1> DEFINE n == [endpoint |-> e, age |-> 0]
             a == Append(u, n)
  <1>1. n \in Entries /\ n.age = 0
    BY AgesType DEF Entries
  <1> HIDE DEF n
  <1>2. /\ a \in Seq(Entries) /\ Len(a) = Len(u) + 1
        /\ \A i \in 1 .. Len(u) : a[i] = u[i]
        /\ a[Len(u) + 1] = n
    BY <1>1, AppendProperties
  <1>3. DOMAIN a = 1 .. Len(u) + 1 /\ DOMAIN u = 1 .. Len(u) /\ Len(u) \in Nat
    BY <1>2
  <1>4. \A i \in 1 .. Len(u) : u[i].age \in Nat
    BY EntryAge
  <1> HIDE DEF a
  <1>5. ASSUME NEW i \in 1 .. Len(u) + 1, NEW j \in 1 .. Len(u) + 1, i < j
        PROVE  a[i].age >= a[j].age
    <2>1. i \in 1 .. Len(u) /\ a[i] = u[i]
      BY <1>2, <1>3, <1>5
    <2>2. CASE j = Len(u) + 1
      BY <1>1, <1>2, <1>4, <2>1, <2>2
    <2>3. CASE j # Len(u) + 1
      <3>1. j \in 1 .. Len(u) /\ a[j] = u[j]
        BY <1>2, <1>3, <2>3
      <3> QED
        BY <1>3, <1>5, <2>1, <3>1 DEF ByAge
    <2> QED
      BY <2>2, <2>3
  <1> QED
    BY <1>3, <1>5 DEF ByAge, a, n

LEMMA CutByAge ==
    ASSUME NEW u \in Seq(Entries), ByAge(u)
    PROVE  ByAge(StillUnavailable(u))
  <1> DEFINE k == Retryable(u)
             t == StillUnavailable(u)
  <1>1. /\ k \in 0 .. Len(u)
        /\ t \in Seq(Entries) /\ Len(t) = Len(u) - k
        /\ \A i \in 1 .. Len(u) - k : t[i] = u[i + k]
    BY CutProperties
  <1>2. DOMAIN t = 1 .. Len(u) - k /\ DOMAIN u = 1 .. Len(u) /\ Len(u) \in Nat
    BY <1>1
  <1> HIDE DEF k, t
  <1>3. ASSUME NEW i \in 1 .. Len(u) - k, NEW j \in 1 .. Len(u) - k, i < j
        PROVE  t[i].age >= t[j].age
    <2>1. i + k \in 1 .. Len(u) /\ j + k \in 1 .. Len(u) /\ i + k < j + k
      BY <1>1, <1>2, <1>3
    <2>2. u[i + k].age >= u[j + k].age
      BY <1>2, <2>1 DEF ByAge
    <2> QED
      BY <1>1, <2>2
  <1> QED
    BY <1>2, <1>3 DEF ByAge, t

\* What the 'close' event makes of the lists.
LEMMA ShiftedKeeps ==
    ASSUME Complete(available, unavailable), ByAge(unavailable), available # <<>>
    PROVE  /\ Complete(Shifted.available, Shifted.unavailable)
           /\ ByAge(Shifted.unavailable)
           /\ Complete(RemainingAvailable, RemainingUnavailable)
           /\ ByAge(RemainingUnavailable)
  <1>1. Complete(Shifted.available, Shifted.unavailable) /\ ByAge(Shifted.unavailable)
    <2>1. CASE retry
      BY <2>1 DEF Shifted
    <2>2. CASE ~retry
      <3>1. /\ Shifted.available = Tail(available)
            /\ Shifted.unavailable
                 = Append(unavailable, [endpoint |-> Head(available), age |-> 0])
        BY <2>2 DEF Shifted
      <3>2. Head(available) \in Endpoints
        BY ShiftKeeps
      <3>3. ByAge(Append(unavailable, [endpoint |-> Head(available), age |-> 0]))
        BY <3>2, ShiftByAge DEF Complete
      <3> QED
        BY <3>1, <3>3, ShiftKeeps
    <2> QED
      BY <2>1, <2>2
  <1> QED
    BY <1>1, CutKeeps, CutByAge DEF RemainingAvailable, RemainingUnavailable, Complete

LEMMA EndpointsOfMembers ==
    ASSUME NEW u \in Seq(Entries)
    PROVE  /\ EndpointsOf(u) \in Seq(Endpoints) /\ Len(EndpointsOf(u)) = Len(u)
           /\ \A e : InSequence(e, EndpointsOf(u)) <=> \E i \in DOMAIN u : u[i].endpoint = e
  <1>1. \A i \in 1 .. Len(u) : u[i] \in Entries
    OBVIOUS
  <1>2. \A n \in Entries : n.endpoint \in Endpoints
    BY DEF Entries
  <1>3. DOMAIN u = 1 .. Len(u) /\ Len(u) \in Nat
    OBVIOUS
  <1>4. EndpointsOf(u) = [i \in 1 .. Len(u) |-> u[i].endpoint]
    BY <1>3 DEF EndpointsOf
  <1>5. EndpointsOf(u) \in [1 .. Len(u) -> Endpoints]
    BY <1>1, <1>2, <1>4
  <1>6. EndpointsOf(u) \in Seq(Endpoints) /\ Len(EndpointsOf(u)) = Len(u)
    BY <1>3, <1>5
  <1>7. DOMAIN EndpointsOf(u) = DOMAIN u /\ \A i \in DOMAIN u : EndpointsOf(u)[i] = u[i].endpoint
    BY <1>3, <1>4
  <1> QED
    BY <1>6, <1>7 DEF InSequence

\* Where the endpoints are; a socket that has not been closed came from one.
EndpointsInv ==
    /\ Complete(available, unavailable)
    /\ ByAge(unavailable)
    /\ over # "closed" => available # <<>>

LEMMA EndpointsInit == Init => EndpointsInv
  <1> SUFFICES ASSUME Init PROVE EndpointsInv
    OBVIOUS
  <1>1. Cardinality(Endpoints) \in Nat
    BY ConnectionAssumption, FS_CardinalityType DEF ConnectionAssumption
  <1>2. /\ available \in [1 .. Cardinality(Endpoints) -> Endpoints]
        /\ \A e \in Endpoints : InSequence(e, available)
        /\ unavailable = <<>> /\ over = "closed"
    BY DEF Init
  <1>3. available \in Seq(Endpoints) /\ Len(available) = Cardinality(Endpoints)
    BY <1>1, <1>2
  <1>4. unavailable \in Seq(Entries) /\ Len(unavailable) = 0 /\ DOMAIN unavailable = {}
    BY <1>2
  <1> QED
    BY <1>1, <1>2, <1>3, <1>4 DEF EndpointsInv, Complete, Somewhere, ByAge

\* A new attempt, from whatever is available.
LEMMA OpenEndpoints ==
    ASSUME EndpointsInv, NEW list \in Sorts(available \o Recovered(unavailable)),
           available \o Recovered(unavailable) # <<>>
    PROVE  /\ Complete(list, StillUnavailable(unavailable)) /\ list # <<>>
           /\ ByAge(StillUnavailable(unavailable))
  <1>1. Complete(available \o Recovered(unavailable), StillUnavailable(unavailable))
    BY CutKeeps DEF EndpointsInv
  <1>2. Complete(list, StillUnavailable(unavailable))
        /\ Len(list) = Len(available \o Recovered(unavailable))
    BY <1>1, SortKeeps
  <1>3. list # <<>>
    BY <1>1, <1>2 DEF Complete
  <1> QED
    BY <1>2, <1>3, CutByAge DEF EndpointsInv, Complete

LEMMA EndpointsStep ==
    ASSUME EndpointsInv, [Next]_vars
    PROVE  EndpointsInv'
  <1> USE DEF EndpointsInv
  <1>1. CASE Open
    <2>1. PICK list \in Sorts(available \o Recovered(unavailable)) : Connect(list)
      BY <1>1 DEF Open
    <2>2. /\ available \o Recovered(unavailable) # <<>>
          /\ available' = list /\ unavailable' = StillUnavailable(unavailable)
      BY <1>1, <2>1 DEF Open, Connect
    <2> QED
      BY <2>2, OpenEndpoints
  <1>2. ASSUME NEW time \in Nat, Elapse(time), available' = available, over # "closed"
        PROVE  EndpointsInv'
    BY <1>2, OlderKeeps DEF Elapse
  <1>3. CASE OnTimeout \/ Wait
    <2>1. \A delay \in 0 .. MaxDelay : ConnectTimeout + delay \in Nat
      BY ConnectionAssumption DEF ConnectionAssumption
    <2>2. RetryAfter + 1 \in Nat
      BY ConnectionAssumption DEF ConnectionAssumption
    <2> QED
      BY <1>2, <1>3, <2>1, <2>2 DEF OnTimeout, Wait, Alive
  <1>4. ASSUME UNCHANGED endpointVars, over' = "closed" \/ over # "closed" \/ over' = over
        PROVE  EndpointsInv'
    BY <1>4 DEF endpointVars
  <1>5. CASE OnReady \/ OnRefused \/ OnDenied \/ OnUnknownCapability \/ OnAuthenticated
    BY <1>4, <1>5 DEF OnReady, OnRefused, OnDenied, OnUnknownCapability, OnAuthenticated, Alive
  <1>6. CASE OpenNothing \/ ServerEnds \/ NetworkFails
    BY <1>4, <1>6 DEF OpenNothing, ServerEnds, NetworkFails, Alive, socketVars
  <1>7. CASE OnCloseActive \/ OnCloseIdle
    BY <1>4, <1>7 DEF OnCloseActive, OnCloseIdle
  <1>8. CASE OnCloseGiveUp \/ OnCloseFailover
    <2>1. over # "closed" /\ available # <<>>
      BY <1>8 DEF OnCloseGiveUp, OnCloseFailover, Closes
    <2>2. Complete(RemainingAvailable, RemainingUnavailable) /\ ByAge(RemainingUnavailable)
      BY <2>1, ShiftedKeeps
    <2>3. available' = RemainingAvailable /\ unavailable' = RemainingUnavailable
      BY <1>8 DEF OnCloseGiveUp, OnCloseFailover, Connect
    <2>4. over' = "closed" \/ RemainingAvailable # <<>>
      BY <1>8 DEF OnCloseGiveUp, OnCloseFailover, GivesUp
    <2> QED
      BY <2>2, <2>3, <2>4
  <1>9. CASE (\E c \in Calls : Execute(c)) \/ Close \/ OnAnswer \/ OnCloseAnswer
    BY <1>4, <1>9 DEF Execute, Close, OnAnswer, OnCloseAnswer, Answering, Alive, socketVars
  <1>10. CASE UNCHANGED vars
    BY <1>4, <1>10 DEF vars, socketVars
  <1> QED
    BY <1>1, <1>3, <1>5, <1>6, <1>7, <1>8, <1>9, <1>10 DEF Next, Negotiate, OnClose

LEMMA EndpointsInvariant == Spec => []EndpointsInv
  <1>1. EndpointsInv /\ [Next]_vars => EndpointsInv'
    BY EndpointsStep
  <1> QED
    BY <1>1, EndpointsInit, PTL DEF Spec

\* Each endpoint is in one of the lists of a connection, once, and the list of
\* the unavailable ones is in the order in which they failed, for any number of
\* endpoints and any order of failures, retries, timeouts and recoveries.
THEOREM EndpointsStay == Spec => []EndpointsKept
  <1>1. EndpointsInv => EndpointsKept
    <2> SUFFICES ASSUME EndpointsInv PROVE EndpointsKept
      OBVIOUS
    <2> DEFINE es == EndpointsOf(unavailable)
               all == available \o es
    <2>1. /\ available \in Seq(Endpoints) /\ unavailable \in Seq(Entries)
          /\ es \in Seq(Endpoints) /\ Len(es) = Len(unavailable)
          /\ \A e : InSequence(e, es) <=> \E i \in DOMAIN unavailable : unavailable[i].endpoint = e
      BY EndpointsOfMembers DEF EndpointsInv, Complete
    <2> HIDE DEF es
    <2>2. Len(all) = Cardinality(Endpoints)
      <3>1. Len(all) = Len(available) + Len(es)
        BY <2>1, ConcatProperties
      <3> QED
        BY <2>1, <3>1 DEF EndpointsInv, Complete
    <2>3. \A e \in Endpoints : InSequence(e, all)
      BY <2>1, ConcatMembers DEF EndpointsInv, Complete, Somewhere
    <2>4. EndpointsConserved
      BY <2>2, <2>3 DEF EndpointsInv, EndpointsConserved, Alive, es
    <2>5. OldestFirst
      BY DEF EndpointsInv, OldestFirst, ByAge
    <2> QED
      BY <2>4, <2>5 DEF EndpointsKept
  <1> QED
    BY <1>1, EndpointsInvariant, PTL

-----------------------------------------------------------------------------
(* Types.                                                                   *)

\* From 'ready' until 'close', a socket has a client.
Types ==
    /\ phase \in {"none", "connecting", "negotiating", "established"}
    /\ over \in {"no", "ended", "erred", "closed"}
    /\ hasClient \in BOOLEAN /\ serverId \in BOOLEAN
    /\ ~hasClient => ~serverId /\ queue = <<>>
    /\ isClosing \in BOOLEAN /\ retry \in BOOLEAN /\ capabilityUnknown \in BOOLEAN
    /\ error \in {"none", "refused", "denied", "capability", "timeout", "reset", "nomore"}
    /\ opened \in {"none", "pending", "resolved"} \cup Failures
    /\ closing \in {"none", "pending", "resolved", "rejected"}
    /\ call \in [Calls -> {"idle", "pending", "unheard", "answered", "rejected"}]
    /\ opens \in 0 .. MaxOpens
    /\ attempted \subseteq Endpoints /\ timedOut \subseteq Endpoints
    /\ lost \in BOOLEAN
    /\ phase \in {"negotiating", "established"} /\ over # "closed" => hasClient

LEMMA TypesInit == Init => Types
  <1>1. Init => phase = "none" /\ over = "closed" /\ queue = <<>>
    BY DEF Init
  <1>2. Init => opens \in 0 .. MaxOpens
    BY ConnectionAssumption DEF ConnectionAssumption, Init
  <1>3. Init => call \in [Calls -> {"idle", "pending", "unheard", "answered", "rejected"}]
    BY DEF Init
  <1>4. Init => /\ hasClient = FALSE /\ serverId = FALSE
                /\ isClosing \in BOOLEAN /\ retry \in BOOLEAN /\ capabilityUnknown \in BOOLEAN
                /\ lost \in BOOLEAN
                /\ error = "none" /\ opened = "none" /\ closing = "none"
                /\ attempted = {} /\ timedOut = {}
    BY DEF Init
  <1> QED
    BY <1>1, <1>2, <1>3, <1>4 DEF Types

Queued == queue \in Seq(Calls \cup {CloseCall})

LEMMA QueuedStep == Queued /\ [Next]_vars => Queued'
  <1> SUFFICES ASSUME Queued, [Next]_vars PROVE Queued'
    OBVIOUS
  <1> USE DEF Queued
  <1>1. CASE \E c \in Calls : Execute(c)
    BY <1>1 DEF Execute, clientVars
  <1>2. CASE Close
    BY <1>2 DEF Close, clientVars
  <1>3. CASE OnAnswer \/ OnCloseAnswer
    <2>1. queue # <<>> /\ queue' = Tail(queue)
      BY <1>3 DEF OnAnswer, OnCloseAnswer, Answering
    <2> QED
      BY <2>1
  <1>4. CASE Open \/ OpenNothing \/ OnReady \/ OnRefused \/ OnTimeout \/ OnDenied
             \/ OnUnknownCapability \/ OnAuthenticated \/ ServerEnds \/ NetworkFails
             \/ Wait \/ OnClose
    <2>1. queue' = queue \/ queue' = <<>>
      BY <1>4 DEF Open, OpenNothing, OnReady, OnRefused, OnTimeout, OnDenied,
         OnUnknownCapability, OnAuthenticated, ServerEnds, NetworkFails, Wait, OnClose,
         OnCloseActive, OnCloseIdle, OnCloseGiveUp, OnCloseFailover, Reset, clientVars
    <2>2. <<>> \in Seq(Calls \cup {CloseCall})
      OBVIOUS
    <2> QED
      BY <2>1, <2>2
  <1>5. CASE UNCHANGED vars
    BY <1>5 DEF vars, clientVars
  <1> QED
    BY <1>1, <1>2, <1>3, <1>4, <1>5 DEF Next, Negotiate

\* The head of the list of endpoints is an endpoint.
LEMMA CurrentEndpoint ==
    ASSUME EndpointsInv, over # "closed"
    PROVE  Head(available) \in Endpoints
  BY HeadTailProperties DEF EndpointsInv, Complete

LEMMA TypesStep ==
    ASSUME Types, EndpointsInv, EndpointsInv', [Next]_vars
    PROVE  Types'
  <1> USE DEF Types
  <1>1. CASE Open
    <2>1. PICK list \in Sorts(available \o Recovered(unavailable)) :
             /\ Connect(list)
             /\ attempted' = {Head(list)} \cup
                   {e \in Endpoints :
                       InSequence(e, EndpointsOf(StillUnavailable(unavailable)))}
      BY <1>1 DEF Open
    <2>2. available' = list /\ over' = "no" /\ phase' = "connecting"
      BY <2>1 DEF Connect
    <2>3. attempted' \subseteq Endpoints
      BY <2>1, <2>2, HeadTailProperties DEF EndpointsInv, Complete
    <2>4. opens' \in 0 .. MaxOpens
      BY <1>1, ConnectionAssumption DEF ConnectionAssumption, Open, CanOpen
    <2> QED
      BY <1>1, <2>2, <2>3, <2>4 DEF Open, clientVars, flagVars
  <1>2. CASE OpenNothing
    <2>1. opens' \in 0 .. MaxOpens
      BY <1>2, ConnectionAssumption DEF ConnectionAssumption, OpenNothing, CanOpen
    <2>2. UNCHANGED <<available, unavailable, phase, over, hasClient, queue, serverId,
                      isClosing, retry, error, capabilityUnknown, call, lost>>
      BY <1>2 DEF OpenNothing, endpointVars, socketVars, clientVars, flagVars
    <2>3. /\ opened' = "failed" /\ closing' = "none"
          /\ attempted' \subseteq Endpoints /\ timedOut' = {}
      BY <1>2 DEF OpenNothing
    <2> QED
      BY <2>1, <2>2, <2>3 DEF Failures
  <1>3. CASE OnReady
    <2>1. UNCHANGED <<available, unavailable, over, serverId, isClosing, retry, error,
                      capabilityUnknown, opened, closing, call, opens, attempted,
                      timedOut, lost>>
      BY <1>3 DEF OnReady, endpointVars, flagVars, promiseVars, historyVars
    <2>2. phase' = "negotiating" /\ hasClient' = TRUE /\ queue' = <<>>
      BY <1>3 DEF OnReady
    <2> QED
      BY <2>1, <2>2
  <1>4. CASE OnRefused \/ OnDenied \/ OnUnknownCapability \/ OnTimeout
    <2>1. UNCHANGED <<phase, hasClient, queue, serverId, isClosing, opened, closing, call,
                      opens, attempted, lost>>
      BY <1>4 DEF OnRefused, OnDenied, OnUnknownCapability, OnTimeout, clientVars,
                  promiseVars, historyVars
    <2>2. timedOut' \subseteq Endpoints
      <3>1. timedOut' = timedOut \/ (over = "no" /\ timedOut' = timedOut \cup {Head(available)})
        BY <1>4 DEF OnRefused, OnDenied, OnUnknownCapability, OnTimeout, Alive, historyVars
      <3> QED
        BY <3>1, CurrentEndpoint
    <2>3. /\ over = "no" /\ over' = "erred"
          /\ error' \in {"refused", "denied", "capability", "timeout"}
          /\ retry' \in BOOLEAN /\ capabilityUnknown' \in BOOLEAN
      BY <1>4 DEF OnRefused, OnDenied, OnUnknownCapability, OnTimeout, Alive, Fail
    <2> QED
      BY <2>1, <2>2, <2>3
  <1>5. CASE OnAuthenticated
    <2>1. UNCHANGED <<available, unavailable, over, hasClient, queue, isClosing, retry, error,
                      capabilityUnknown, closing, call, opens, attempted, timedOut, lost>>
      BY <1>5 DEF OnAuthenticated, endpointVars, flagVars, historyVars
    <2>2. /\ phase = "negotiating" /\ over = "no" /\ phase' = "established"
          /\ serverId' = TRUE /\ opened' \in {"resolved", opened}
      BY <1>5 DEF OnAuthenticated, Alive
    <2> QED
      BY <2>1, <2>2
  <1>6. CASE ServerEnds \/ NetworkFails \/ Wait
    <2>1. UNCHANGED <<available, phase, hasClient, queue, serverId, isClosing, retry,
                      capabilityUnknown, opened, closing, call, opens, attempted, timedOut>>
      BY <1>6 DEF ServerEnds, NetworkFails, Wait, endpointVars, socketVars, clientVars,
                  flagVars, promiseVars, historyVars
    <2>2. /\ over = "no" /\ over' \in {"no", "ended", "erred"}
          /\ error' \in {"reset", error} /\ lost' \in BOOLEAN
      BY <1>6 DEF ServerEnds, NetworkFails, Wait, Alive, Fail, socketVars, flagVars, historyVars
    <2> QED
      BY <2>1, <2>2
  <1>7. CASE OnCloseActive
    <2>1. UNCHANGED <<available, unavailable, phase, hasClient, serverId, isClosing, retry,
                      error, capabilityUnknown, opened, opens, attempted, timedOut, lost>>
      BY <1>7 DEF OnCloseActive, endpointVars, flagVars, historyVars
    <2>2. /\ over' = "closed" /\ queue' = <<>>
          /\ call' = [c \in Calls |-> IF Rejects(c) THEN "rejected" ELSE call[c]]
          /\ closing' \in {"rejected", closing}
      BY <1>7 DEF OnCloseActive
    <2>3. call' \in [Calls -> {"idle", "pending", "unheard", "answered", "rejected"}]
      BY <2>2
    <2> QED
      BY <2>1, <2>2, <2>3
  <1>8. CASE OnCloseIdle \/ OnCloseGiveUp
    <2>1. UNCHANGED <<phase, closing, call, opens, attempted, timedOut, lost>>
      BY <1>8 DEF OnCloseIdle, OnCloseGiveUp, historyVars
    <2>2. /\ over' = "closed" /\ hasClient' = FALSE /\ queue' = <<>> /\ serverId' = FALSE
          /\ isClosing' = FALSE /\ retry' = FALSE /\ capabilityUnknown' = FALSE
      BY <1>8 DEF OnCloseIdle, OnCloseGiveUp, Reset
    <2>3. error' \in {"none", "refused", "denied", "capability", "timeout", "reset", "nomore"}
      BY <1>8 DEF OnCloseIdle, OnCloseGiveUp
    <2>4. opened' \in {"none", "pending", "resolved"} \cup Failures
      BY <1>8 DEF OnCloseIdle, OnCloseGiveUp, Failures
    <2>6. /\ phase' \in {"none", "connecting", "negotiating", "established"}
          /\ closing' \in {"none", "pending", "resolved", "rejected"}
          /\ call' \in [Calls -> {"idle", "pending", "unheard", "answered", "rejected"}]
          /\ opens' \in 0 .. MaxOpens
          /\ attempted' \subseteq Endpoints /\ timedOut' \subseteq Endpoints
          /\ lost' \in BOOLEAN
      BY <2>1
    <2> QED
      BY <2>2, <2>3, <2>4, <2>6
  <1>9. CASE OnCloseFailover
    <2>1. available' = RemainingAvailable /\ over' = "no" /\ phase' = "connecting"
      BY <1>9 DEF OnCloseFailover, Connect
    <2>2. attempted' \subseteq Endpoints
      BY <1>9, <2>1, HeadTailProperties DEF OnCloseFailover, EndpointsInv, Complete
    <2>3. UNCHANGED <<hasClient, queue, serverId, isClosing, error, capabilityUnknown,
                      opened, closing, call, opens, timedOut, lost>>
      BY <1>9 DEF OnCloseFailover, clientVars, promiseVars
    <2>4. retry' = FALSE
      BY <1>9 DEF OnCloseFailover, ClearRetry
    <2>5. over' = "no" /\ phase' = "connecting"
      BY <2>1
    <2>6. ~hasClient' => ~serverId' /\ queue' = <<>>
      BY <2>3
    <2>7. /\ hasClient' \in BOOLEAN /\ serverId' \in BOOLEAN /\ isClosing' \in BOOLEAN
          /\ error' \in {"none", "refused", "denied", "capability", "timeout", "reset", "nomore"}
          /\ capabilityUnknown' \in BOOLEAN /\ lost' \in BOOLEAN
      BY <2>3
    <2>8. /\ opened' \in {"none", "pending", "resolved"} \cup Failures
          /\ closing' \in {"none", "pending", "resolved", "rejected"}
          /\ call' \in [Calls -> {"idle", "pending", "unheard", "answered", "rejected"}]
          /\ opens' \in 0 .. MaxOpens /\ timedOut' \subseteq Endpoints
      BY <2>3
    <2> QED
      BY <2>2, <2>4, <2>5, <2>6, <2>7, <2>8
  <1>10. ASSUME NEW c \in Calls, Execute(c)
         PROVE  Types'
    <2>1. UNCHANGED <<available, unavailable, phase, over, hasClient, serverId, isClosing,
                      retry, error, capabilityUnknown, opened, closing, opens, attempted,
                      timedOut, lost>>
      BY <1>10 DEF Execute, endpointVars, socketVars, flagVars, historyVars
    <2>2. \/ queue' = Append(queue, c) /\ hasClient
          \/ queue' = queue
      BY <1>10 DEF Execute, IsOpen
    <2>3. call' \in [Calls -> {"idle", "pending", "unheard", "answered", "rejected"}]
      BY <1>10 DEF Execute
    <2> QED
      BY <2>1, <2>2, <2>3
  <1>11. CASE Close
    <2>1. UNCHANGED <<available, unavailable, phase, over, hasClient, serverId,
                      retry, error, capabilityUnknown, opened, call, opens, attempted,
                      timedOut, lost>>
      BY <1>11 DEF Close, endpointVars, socketVars, historyVars
    <2>2. \/ queue' = Append(queue, CloseCall) /\ hasClient
          \/ queue' = queue
      BY <1>11 DEF Close, IsOpen
    <2>3. closing' \in {"resolved", "pending"} /\ isClosing' \in BOOLEAN
      BY <1>11 DEF Close
    <2> QED
      BY <2>1, <2>2, <2>3
  <1>12. CASE OnAnswer \/ OnCloseAnswer
    <2>1. UNCHANGED <<available, unavailable, phase, hasClient, serverId,
                      retry, error, capabilityUnknown, opened, opens, attempted,
                      timedOut, lost>>
      BY <1>12 DEF OnAnswer, OnCloseAnswer, endpointVars, socketVars, flagVars, historyVars
    <2>2. queue # <<>> /\ queue' = Tail(queue)
      BY <1>12 DEF OnAnswer, OnCloseAnswer, Answering
    <2>3. /\ call' \in [Calls -> {"idle", "pending", "unheard", "answered", "rejected"}]
          /\ closing' \in {"none", "pending", "resolved", "rejected"}
          /\ isClosing' \in BOOLEAN
          /\ over' = over \/ (over' = "ended" /\ over = "no")
      BY <1>12 DEF OnAnswer, OnCloseAnswer, Answering, Alive, DestroySocket, socketVars, flagVars
    <2> QED
      BY <2>1, <2>2, <2>3
  <1>13. CASE UNCHANGED vars
    BY <1>13
    DEF vars, endpointVars, socketVars, clientVars, flagVars, promiseVars, historyVars
  <1> QED
    BY <1>1, <1>2, <1>3, <1>4, <1>5, <1>6, <1>7, <1>8, <1>9, <1>10, <1>11, <1>12, <1>13
    DEF Next, Negotiate, OnClose

LEMMA TypesInvariant == Spec => [](Queued /\ Types)
  <1>1. Init => Queued
    BY DEF Init, Queued
  <1>2. ASSUME Types, EndpointsInv, EndpointsInv', [Next]_vars PROVE Types'
    BY <1>2, TypesStep
  <1> QED
    BY <1>1, <1>2, QueuedStep, TypesInit, EndpointsInvariant, PTL DEF Spec

\* Every variable of a connection keeps its type: no endpoint is taken from an
\* empty list, and without a client there is no server id and nothing queued.
THEOREM ConnectionTypes == Spec => []TypeOK
  <1>1. Queued /\ Types /\ EndpointsInv => TypeOK
    BY DEF Queued, Types, EndpointsInv, Complete, Entries, TypeOK
  <1> QED
    BY <1>1, TypesInvariant, EndpointsInvariant, PTL

-----------------------------------------------------------------------------
(* The order in which endpoints are tried.                                  *)

\* No endpoint that was not tried is behind a less important one.
Ranked(list) ==
    \A i, j \in DOMAIN list :
        i < j /\ list[j] \notin attempted => Priority[list[i]] >= Priority[list[j]]

\* The unavailable endpoints were tried.
Tried(entries) == \A i \in DOMAIN entries : entries[i].endpoint \in attempted

\* What open() knows while it goes through the endpoints: there is a socket and
\* no session, and what was not tried is available and in order.
Trying ==
    /\ opened = "none" => phase = "none" /\ over = "closed" /\ ~serverId
    /\ opened = "pending" =>
          /\ over # "closed" /\ ~serverId
          /\ Head(available) \in attempted
          /\ Tried(unavailable)
          /\ Ranked(available)
    /\ FailsAfterAll

LEMMA TryingOrder ==
    ASSUME EndpointsInv, Trying
    PROVE  EveryEndpointTried
  <1>1. ASSUME opened = "pending", NEW e \in Endpoints \ attempted
        PROVE  Priority[e] <= Priority[Head(available)]
    <2>1. available \in Seq(Endpoints) /\ available # <<>>
      BY <1>1 DEF EndpointsInv, Complete, Trying
    <2>2. InSequence(e, available)
      BY <1>1 DEF EndpointsInv, Complete, Somewhere, Trying, Tried
    <2>3. PICK j \in DOMAIN available : available[j] = e
      BY <2>2 DEF InSequence
    <2>4. 1 \in DOMAIN available /\ available[1] = Head(available)
      BY <2>1
    <2>5. j # 1
      BY <1>1, <2>3, <2>4 DEF Trying
    <2>6. 1 < j
      BY <2>1, <2>5
    <2>7. Priority[Head(available)] >= Priority[e]
      BY <1>1, <2>3, <2>4, <2>6 DEF Trying, Ranked
    <2>8. Priority[e] \in Nat /\ Priority[Head(available)] \in Nat
      BY <2>1, HeadTailProperties, ConnectionAssumption DEF ConnectionAssumption
    <2> QED
      BY <2>7, <2>8
  <1> QED
    BY <1>1 DEF EveryEndpointTried, PriorityOrder, Trying

\* The endpoint that failed was tried; what recovers was tried too.
LEMMA ShiftedTried ==
    ASSUME EndpointsInv, Trying, opened = "pending"
    PROVE  /\ Tried(Shifted.unavailable)
           /\ Tried(RemainingUnavailable)
           /\ Ranked(RemainingAvailable)
  <1>0. /\ available \in Seq(Endpoints) /\ unavailable \in Seq(Entries)
        /\ available # <<>> /\ Head(available) \in attempted
        /\ Tried(unavailable) /\ Ranked(available)
    BY DEF EndpointsInv, Complete, Trying
  <1>1. /\ Tried(Shifted.unavailable) /\ Ranked(Shifted.available)
        /\ Shifted.available \in Seq(Endpoints) /\ Shifted.unavailable \in Seq(Entries)
    <2>1. CASE retry
      BY <1>0, <2>1 DEF Shifted
    <2>2. CASE ~retry
      <3> DEFINE n == [endpoint |-> Head(available), age |-> 0]
      <3>1. Shifted.available = Tail(available) /\ Shifted.unavailable = Append(unavailable, n)
        BY <2>2 DEF Shifted
      <3>2. n \in Entries /\ n.endpoint = Head(available)
        BY <1>0, HeadTailProperties, AgesType DEF Entries
      <3> HIDE DEF n
      <3>3. /\ Append(unavailable, n) \in Seq(Entries)
            /\ DOMAIN Append(unavailable, n) = 1 .. Len(unavailable) + 1
            /\ \A i \in 1 .. Len(unavailable) : Append(unavailable, n)[i] = unavailable[i]
            /\ Append(unavailable, n)[Len(unavailable) + 1] = n
        BY <1>0, <3>2
      <3>4. \A i \in 1 .. Len(unavailable) + 1 :
               \/ i = Len(unavailable) + 1
               \/ (i \in DOMAIN unavailable /\ i \in 1 .. Len(unavailable))
        BY <1>0
      <3>5. Tried(Append(unavailable, n))
        BY <1>0, <3>2, <3>3, <3>4 DEF Tried
      <3>6. /\ Tail(available) \in Seq(Endpoints)
            /\ \A i \in DOMAIN Tail(available) :
                  /\ i \in Nat /\ i + 1 \in DOMAIN available
                  /\ Tail(available)[i] = available[i + 1]
        BY <1>0
      <3>7. Ranked(Tail(available))
        <4> SUFFICES ASSUME NEW i \in DOMAIN Tail(available), NEW j \in DOMAIN Tail(available),
                            i < j, Tail(available)[j] \notin attempted
                     PROVE  Priority[Tail(available)[i]] >= Priority[Tail(available)[j]]
          BY DEF Ranked
        <4>1. i + 1 < j + 1
          BY <3>6
        <4> QED
          BY <1>0, <3>6, <4>1 DEF Ranked
      <3> QED
        BY <3>1, <3>3, <3>5, <3>6, <3>7
    <2> QED
      BY <2>1, <2>2
  <1> DEFINE s == Shifted.available
             u == Shifted.unavailable
             r == Recovered(u)
             t == StillUnavailable(u)
             k == Retryable(u)
  <1>2. /\ k \in 0 .. Len(u) /\ r \in Seq(Endpoints) /\ Len(r) = k
        /\ \A i \in 1 .. k : r[i] = u[i].endpoint
        /\ t \in Seq(Entries) /\ Len(t) = Len(u) - k
        /\ \A i \in 1 .. Len(u) - k : t[i] = u[i + k]
    BY <1>1, CutProperties
  <1>3. /\ RemainingAvailable = s \o r /\ RemainingUnavailable = t
        /\ s \in Seq(Endpoints) /\ u \in Seq(Entries) /\ Tried(u) /\ Ranked(s)
    BY <1>1 DEF RemainingAvailable, RemainingUnavailable
  <1> HIDE DEF s, u, r, t, k
  <1>4. \A i \in 1 .. k : r[i] \in attempted
    <2>1. \A i \in 1 .. k : i \in DOMAIN u
      BY <1>2, <1>3
    <2> QED
      BY <1>2, <1>3, <2>1 DEF Tried
  <1>5. Tried(t)
    <2>1. \A i \in DOMAIN t : i \in 1 .. Len(u) - k /\ i + k \in DOMAIN u
      BY <1>2, <1>3
    <2> QED
      BY <1>2, <1>3, <2>1 DEF Tried
  <1>6. Ranked(s \o r)
    <2>1. /\ Len(s \o r) = Len(s) + Len(r) /\ s \o r \in Seq(Endpoints)
          /\ \A i \in 1 .. Len(s) + Len(r) :
                (s \o r)[i] = IF i <= Len(s) THEN s[i] ELSE r[i - Len(s)]
      BY <1>2, <1>3, ConcatProperties
    <2>2. DOMAIN (s \o r) = 1 .. Len(s) + k /\ DOMAIN s = 1 .. Len(s)
          /\ Len(s) \in Nat /\ k \in Nat
      BY <1>2, <1>3, <2>1
    <2> SUFFICES ASSUME NEW i \in 1 .. Len(s) + k, NEW j \in 1 .. Len(s) + k, i < j,
                        (s \o r)[j] \notin attempted
                 PROVE  Priority[(s \o r)[i]] >= Priority[(s \o r)[j]]
      BY <2>2 DEF Ranked
    <2>3. CASE j <= Len(s)
      <3>1. i \in DOMAIN s /\ j \in DOMAIN s /\ (s \o r)[i] = s[i] /\ (s \o r)[j] = s[j]
        BY <1>2, <2>1, <2>2, <2>3
      <3> QED
        BY <1>3, <3>1 DEF Ranked
    <2>4. CASE ~(j <= Len(s))
      <3>1. j - Len(s) \in 1 .. k /\ (s \o r)[j] = r[j - Len(s)]
        BY <1>2, <2>1, <2>2, <2>4
      <3> QED
        BY <1>4, <3>1
    <2> QED
      BY <2>3, <2>4
  <1> QED
    BY <1>1, <1>3, <1>5, <1>6 DEF t

\* A step of the socket that leaves the endpoints where they are.
LEMMA TryingUntouched ==
    ASSUME Trying, phase # "none", over # "closed", over' # "closed",
           UNCHANGED <<opened, attempted, serverId, available>>,
           \A i \in DOMAIN unavailable' :
               i \in DOMAIN unavailable /\ unavailable'[i].endpoint = unavailable[i].endpoint
    PROVE  Trying'
  BY DEF Trying, Ranked, Tried, FailsAfterAll

LEMMA OpenTrying ==
    ASSUME Types, EndpointsInv, Trying, Open
    PROVE  Trying'
  <1> DEFINE still == StillUnavailable(unavailable)
  <1>1. PICK list \in Sorts(available \o Recovered(unavailable)) :
           /\ Connect(list)
           /\ attempted' = {Head(list)} \cup
                 {e \in Endpoints : InSequence(e, EndpointsOf(still))}
    BY DEF Open
  <1>2. /\ opened' = "pending" /\ over' = "no" /\ unavailable' = still
        /\ available' = list /\ serverId' = serverId
    BY <1>1 DEF Open, Connect, clientVars
  <1>3. ~serverId
    BY DEF Open, CanOpen, IsOpen, Types, TypeOK, Trying
  <1>4. Tried(unavailable)'
    <2>1. still \in Seq(Entries)
      BY CutProperties DEF EndpointsInv, Complete
    <2>2. \A i \in DOMAIN still : still[i].endpoint \in Endpoints
      <3>1. \A i \in DOMAIN still : still[i] \in Entries
        BY <2>1
      <3> QED
        BY <3>1 DEF Entries
    <2>3. \A i \in DOMAIN still : InSequence(still[i].endpoint, EndpointsOf(still))
      BY <2>1, EndpointsOfMembers
    <2> QED
      BY <1>1, <1>2, <2>2, <2>3 DEF Tried
  <1>5. Ranked(available)'
    <2>1. \A i, j \in DOMAIN list : i < j => Priority[list[i]] >= Priority[list[j]]
      BY DEF Sorts
    <2> QED
      BY <1>2, <2>1 DEF Ranked
  <1> QED
    BY <1>1, <1>2, <1>3, <1>4, <1>5 DEF Trying, FailsAfterAll, Failures

\* An empty list of available endpoints means that all are unavailable.
LEMMA AllUnavailable ==
    ASSUME NEW s, NEW u, Complete(s, u), s = <<>>, NEW e \in Endpoints
    PROVE  \E i \in DOMAIN u : u[i].endpoint = e
  BY DEF Complete, Somewhere, InSequence

LEMMA TryingStep ==
    ASSUME Types, EndpointsInv, EndpointsInv', Trying, [Next]_vars
    PROVE  Trying'
  <1>1. CASE Open
    BY <1>1, OpenTrying
  <1>2. CASE OpenNothing
    <2>1. /\ opened' = "failed"
          /\ attempted' = {e \in Endpoints : InSequence(e, EndpointsOf(unavailable))}
          /\ available \o Recovered(unavailable) = <<>>
      BY <1>2 DEF OpenNothing
    <2>2. Complete(available \o Recovered(unavailable), StillUnavailable(unavailable))
      BY CutKeeps DEF EndpointsInv
    <2>3. available = <<>>
      <3>1. /\ available \in Seq(Endpoints) /\ Recovered(unavailable) \in Seq(Endpoints)
        BY CutProperties DEF EndpointsInv, Complete
      <3>2. Len(available \o Recovered(unavailable)) = Len(available) + Len(Recovered(unavailable))
        BY <3>1, ConcatProperties
      <3>3. Len(available \o Recovered(unavailable)) = 0
        BY <2>1
      <3>4. Len(available) = 0
        BY <3>1, <3>2, <3>3
      <3> QED
        BY <3>1, <3>4
    <2>4. \A e \in Endpoints : InSequence(e, EndpointsOf(unavailable))
      <3>1. Complete(available, unavailable) /\ unavailable \in Seq(Entries)
        BY DEF EndpointsInv, Complete
      <3>2. \A e \in Endpoints : \E i \in DOMAIN unavailable : unavailable[i].endpoint = e
        BY <2>3, <3>1, AllUnavailable
      <3> QED
        BY <3>1, <3>2, EndpointsOfMembers
    <2> QED
      BY <2>1, <2>4 DEF Trying, FailsAfterAll
  <1>3. CASE OnReady \/ OnRefused \/ OnDenied \/ OnUnknownCapability \/ ServerEnds \/ NetworkFails
    <2>1. /\ phase # "none" /\ over = "no" /\ over' # "closed"
          /\ UNCHANGED <<opened, attempted, serverId, available, unavailable>>
      BY <1>3
      DEF OnReady, OnRefused, OnDenied, OnUnknownCapability, ServerEnds, NetworkFails, Alive,
          Fail, endpointVars, clientVars, promiseVars, historyVars
    <2> QED
      BY <2>1, TryingUntouched
  <1>4. CASE OnTimeout \/ Wait
    <2>1. /\ phase # "none" /\ over = "no" /\ over' # "closed"
          /\ UNCHANGED <<opened, attempted, serverId, available>>
      BY <1>4 DEF OnTimeout, Wait, Alive, Fail, socketVars, clientVars, promiseVars, historyVars
    <2>2. PICK time \in Nat : Elapse(time)
      <3>1. \A delay \in 0 .. MaxDelay : ConnectTimeout + delay \in Nat
        BY ConnectionAssumption DEF ConnectionAssumption
      <3>2. RetryAfter + 1 \in Nat
        BY ConnectionAssumption DEF ConnectionAssumption
      <3> QED
        BY <1>4, <3>1, <3>2 DEF OnTimeout, Wait
    <2>3. \A i \in DOMAIN unavailable' :
             i \in DOMAIN unavailable /\ unavailable'[i].endpoint = unavailable[i].endpoint
      <3>1. unavailable \in Seq(Entries)
        BY DEF EndpointsInv, Complete
      <3>2. /\ unavailable' \in Seq(Entries) /\ Len(unavailable') = Len(unavailable)
            /\ \A i \in 1 .. Len(unavailable) :
                  unavailable'[i].endpoint = unavailable[i].endpoint
        BY <2>2, <3>1, OlderProperties DEF Elapse
      <3> QED
        BY <3>1, <3>2
    <2> QED
      BY <2>1, <2>3, TryingUntouched
  <1>5. CASE OnAuthenticated
    <2>1. /\ phase = "negotiating" /\ UNCHANGED attempted
          /\ opened' = IF opened = "pending" THEN "resolved" ELSE opened
      BY <1>5 DEF OnAuthenticated, historyVars
    <2> QED
      BY <2>1 DEF Trying, FailsAfterAll, Failures
  <1>6. CASE OnCloseActive \/ OnCloseIdle
    <2>1. /\ serverId /\ UNCHANGED attempted
          /\ opened' = opened \/ opened = "pending"
      BY <1>6 DEF OnCloseActive, OnCloseIdle, IsOpen, historyVars
    <2> QED
      BY <2>1 DEF Trying, FailsAfterAll
  <1>7. CASE OnCloseGiveUp
    <2>1. over # "closed" /\ UNCHANGED attempted
      BY <1>7 DEF OnCloseGiveUp, Closes, historyVars
    <2>2. CASE opened # "pending"
      <3>1. opened' = opened
        BY <1>7, <2>2 DEF OnCloseGiveUp
      <3> QED
        BY <2>1, <2>2, <3>1 DEF Trying, FailsAfterAll
    <2>3. CASE opened = "pending"
      <3>1. Complete(RemainingAvailable, RemainingUnavailable) /\ RemainingAvailable = <<>>
        BY <1>7, <2>1, ShiftedKeeps DEF EndpointsInv, OnCloseGiveUp, GivesUp
      <3>2. Tried(RemainingUnavailable)
        BY <2>3, ShiftedTried
      <3>3. Endpoints \subseteq attempted
        BY <3>1, <3>2, AllUnavailable DEF Tried
      <3>4. attempted' = Endpoints
        BY <2>1, <3>3 DEF Types
      <3>5. opened' # "none" /\ opened' # "pending"
        BY <1>7, <2>3 DEF OnCloseGiveUp
      <3> QED
        BY <3>4, <3>5 DEF Trying, FailsAfterAll
    <2> QED
      BY <2>2, <2>3
  <1>8. CASE OnCloseFailover
    <2>1. /\ over # "closed" /\ over' = "no"
          /\ available' = RemainingAvailable /\ unavailable' = RemainingUnavailable
          /\ attempted' = attempted \cup {Head(RemainingAvailable)}
          /\ UNCHANGED <<opened, serverId>>
      BY <1>8 DEF OnCloseFailover, Closes, Connect, clientVars, promiseVars
    <2>2. FailsAfterAll'
      <3>1. available' # <<>> /\ available' \in Seq(Endpoints)
        BY <2>1 DEF EndpointsInv, Complete
      <3>2. Head(RemainingAvailable) \in Endpoints
        BY <2>1, <3>1, HeadTailProperties
      <3> QED
        BY <2>1, <3>2 DEF Trying, FailsAfterAll
    <2>3. ASSUME opened = "pending"
          PROVE  Tried(unavailable)' /\ Ranked(available)'
      BY <2>1, <2>3, ShiftedTried DEF Tried, Ranked
    <2> QED
      BY <2>1, <2>2, <2>3 DEF Trying
  <1>9. CASE (\E c \in Calls : Execute(c)) \/ Close
    <2>1. opened' = "resolved"
      BY <1>9 DEF Execute, Close
    <2> QED
      BY <2>1 DEF Trying, FailsAfterAll, Failures
  <1>10. CASE OnAnswer \/ OnCloseAnswer
    <2>1. /\ phase # "none" /\ over = "no" /\ over' # "closed"
          /\ UNCHANGED <<opened, attempted, serverId, available, unavailable>>
      BY <1>10 DEF OnAnswer, OnCloseAnswer, Answering, Alive, DestroySocket, endpointVars,
                   socketVars, historyVars
    <2> QED
      BY <2>1, TryingUntouched
  <1>11. CASE UNCHANGED vars
    BY <1>11
    DEF vars, endpointVars, socketVars, clientVars, promiseVars, historyVars, Trying, Tried,
        Ranked, FailsAfterAll
  <1> QED
    BY <1>1, <1>2, <1>3, <1>4, <1>5, <1>6, <1>7, <1>8, <1>9, <1>10, <1>11
    DEF Next, Negotiate, OnClose

\* open() tries an endpoint after every more important one, and fails after it
\* tried all of them, for any number of endpoints and any priorities.
THEOREM AllTried == Spec => []EveryEndpointTried
  <1>1. Init => Trying
    BY DEF Init, Trying, FailsAfterAll, Failures
  <1>2. ASSUME Types, EndpointsInv, EndpointsInv', Trying, [Next]_vars PROVE Trying'
    BY <1>2, TryingStep
  <1>3. EndpointsInv /\ Trying => EveryEndpointTried
    BY TryingOrder
  <1> QED
    BY <1>1, <1>2, <1>3, EndpointsInvariant, TypesInvariant, PTL DEF Spec
=============================================================================
