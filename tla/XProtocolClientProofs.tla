----------------------- MODULE XProtocolClientProofs -----------------------
(* Proofs about XProtocolClient, for any number of calls of any kinds, any   *)
(* replies, expected or not, and a connection lost at any time.              *)
EXTENDS XProtocolClient, FiniteSetTheorems, SequenceTheorems, TLAPS

\* How many calls have left the queue.
Answered == Len(issued) - Len(workQueue)

\* The calls that left the queue are the oldest ones, and exactly those have
\* been settled; the queue holds the rest, in order.
QueueInv ==
    /\ issued \in Seq(Ops) /\ workQueue \in Seq(Ops)
    /\ \A i, j \in 1 .. Len(issued) : issued[i] = issued[j] => i = j
    /\ Len(workQueue) <= Len(issued)
    /\ \A i \in 1 .. Len(workQueue) : workQueue[i] = issued[Answered + i]
    /\ DOMAIN outcome = Ops
    /\ \A i \in 1 .. Len(issued) : Settled(issued[i]) <=> i <= Answered
    /\ \A o \in Ops : Settled(o) => o \in Issued

LEMMA QueueInit == Init => QueueInv
  BY DEF Init, QueueInv, Answered, Settled, Pending, Rejected, Issued

\* A call that is made joins the end of both sequences, unsettled.
LEMMA SendStep ==
    ASSUME QueueInv, NEW o \in Ops, NEW k, NEW c, Send(o, k, c)
    PROVE  QueueInv'
  <1> USE DEF QueueInv
  <1>1. /\ issued' = Append(issued, o) /\ workQueue' = Append(workQueue, o)
        /\ outcome' = outcome /\ o \notin Issued
    BY DEF Send, Push
  <1>2. /\ issued' \in Seq(Ops) /\ workQueue' \in Seq(Ops)
        /\ Len(issued') = Len(issued) + 1 /\ Len(workQueue') = Len(workQueue) + 1
        /\ \A i \in 1 .. Len(issued) : issued'[i] = issued[i]
        /\ \A i \in 1 .. Len(workQueue) : workQueue'[i] = workQueue[i]
        /\ issued'[Len(issued) + 1] = o /\ workQueue'[Len(workQueue) + 1] = o
    BY <1>1
  <1>3. Answered' = Answered
    BY <1>2 DEF Answered
  <1>4. \A i \in 1 .. Len(issued) : issued[i] # o
    BY <1>1 DEF Issued
  <1>5. ~Settled(o)
    BY <1>1
  <1>6. \A i, j \in 1 .. Len(issued') : issued'[i] = issued'[j] => i = j
    BY <1>2, <1>4
  <1>7. \A i \in 1 .. Len(workQueue') : workQueue'[i] = issued'[Answered' + i]
    <2> TAKE i \in 1 .. Len(workQueue')
    <2>1. CASE i = Len(workQueue) + 1
      BY <1>2, <1>3, <2>1 DEF Answered
    <2>2. CASE i # Len(workQueue) + 1
      <3>1. i \in 1 .. Len(workQueue) /\ Answered + i \in 1 .. Len(issued)
        BY <1>2, <2>2 DEF Answered
      <3> QED
        BY <1>2, <1>3, <3>1
    <2> QED
      BY <2>1, <2>2
  <1>8. \A i \in 1 .. Len(issued') : Settled(issued[i])' <=> i <= Answered'
    <2> TAKE i \in 1 .. Len(issued')
    <2>1. CASE i = Len(issued) + 1
      BY <1>1, <1>2, <1>3, <1>5, <2>1 DEF Answered, Settled
    <2>2. CASE i # Len(issued) + 1
      <3>1. i \in 1 .. Len(issued) /\ issued'[i] = issued[i]
        BY <1>2, <2>2
      <3> QED
        BY <1>1, <1>3, <3>1 DEF Settled
    <2> QED
      BY <2>1, <2>2
  <1>9. \A p \in Ops : Settled(p)' => p \in Issued'
    <2>1. \A p \in Ops : Settled(p)' <=> Settled(p)
      BY <1>1 DEF Settled
    <2>2. Issued \subseteq Issued'
      <3>1. DOMAIN issued = 1 .. Len(issued) /\ DOMAIN issued' = 1 .. Len(issued) + 1
        BY <1>2
      <3>2. \A i \in DOMAIN issued : i \in DOMAIN issued' /\ issued'[i] = issued[i]
        BY <1>2, <3>1
      <3> QED
        BY <3>2 DEF Issued
    <2> QED
      BY <2>1, <2>2
  <1>10. Len(workQueue') <= Len(issued') /\ DOMAIN outcome' = Ops
    BY <1>1, <1>2
  <1> QED
    BY <1>2, <1>6, <1>7, <1>8, <1>9, <1>10 DEF QueueInv

\* The front call leaves the queue and is settled.
LEMMA DoneStep ==
    ASSUME QueueInv, workQueue # <<>>, issued' = issued,
           NEW r, r.status # "pending", Done(Current, r)
    PROVE  QueueInv'
  <1> USE DEF QueueInv
  <1>1. workQueue' = Tail(workQueue) /\ outcome' = [outcome EXCEPT ![Current] = r]
    BY DEF Done
  <1>2. Len(workQueue) \in Nat /\ Len(workQueue) >= 1 /\ Len(issued) \in Nat
    OBVIOUS
  <1>3. Current = workQueue[1] /\ Current \in Ops
    BY <1>2 DEF Current
  <1>4. /\ workQueue' \in Seq(Ops) /\ Len(workQueue') = Len(workQueue) - 1
        /\ \A i \in 1 .. Len(workQueue') : workQueue'[i] = workQueue[i + 1]
    BY <1>1, <1>2
  <1>5. Answered' = Answered + 1 /\ Answered \in Nat
    BY <1>2, <1>4 DEF Answered
  <1>6. Current = issued[Answered + 1] /\ Answered + 1 \in 1 .. Len(issued)
    BY <1>2, <1>3, <1>5 DEF Answered
  <1>7. \A p \in Ops : Settled(p)' <=> (p = Current \/ Settled(p))
    BY <1>1, <1>3 DEF Settled
  <1>8. \A i \in 1 .. Len(issued) : Settled(issued[i])' <=> i <= Answered'
    <2> TAKE i \in 1 .. Len(issued)
    <2>1. issued[i] \in Ops
      OBVIOUS
    <2>2. issued[i] = Current <=> i = Answered + 1
      BY <1>6
    <2>3. Settled(issued[i])' <=> (i = Answered + 1 \/ Settled(issued[i]))
      BY <1>7, <2>1, <2>2 DEF Settled
    <2> QED
      BY <1>5, <2>3
  <1>9. \A i \in 1 .. Len(workQueue') : workQueue'[i] = issued'[Answered' + i]
    <2> TAKE i \in 1 .. Len(workQueue')
    <2>1. i + 1 \in 1 .. Len(workQueue)
      BY <1>2, <1>4
    <2>2. workQueue'[i] = issued[Answered + (i + 1)]
      BY <1>4, <2>1
    <2> QED
      BY <1>5, <2>2
  <1>10. \A p \in Ops : Settled(p)' => p \in Issued'
    BY <1>6, <1>7 DEF Issued
  <1> QED
    BY <1>1, <1>4, <1>8, <1>9, <1>10, <1>2

\* The whole queue is rejected.
LEMMA CloseStep ==
    ASSUME QueueInv, HandleServerClose
    PROVE  QueueInv'
  <1> USE DEF QueueInv
  <1>1. /\ issued' = issued /\ workQueue' = <<>>
        /\ outcome' = [o \in Ops |-> IF LoseCall(o) THEN Rejected("gone") ELSE outcome[o]]
    BY DEF HandleServerClose
  <1>2. Answered' = Len(issued) /\ Len(issued) \in Nat /\ Len(workQueue) \in Nat
    BY <1>1 DEF Answered
  <1>3. \A p \in Ops : Settled(p)' <=> (IsQueued(p) \/ Settled(p))
    BY <1>1 DEF Settled, LoseCall, Rejected
  <1>4. \A i \in 1 .. Len(issued) : Settled(issued[i])'
    <2> TAKE i \in 1 .. Len(issued)
    <2>1. issued[i] \in Ops
      OBVIOUS
    <2>2. CASE i <= Answered
      BY <1>1, <1>3, <2>1, <2>2 DEF Settled
    <2>3. CASE ~(i <= Answered)
      <3>1. i - Answered \in 1 .. Len(workQueue) /\ Answered + (i - Answered) = i
        BY <1>2, <2>3 DEF Answered
      <3>2. workQueue[i - Answered] = issued[i]
        BY <3>1
      <3>3. DOMAIN workQueue = 1 .. Len(workQueue)
        OBVIOUS
      <3>4. IsQueued(issued[i])
        BY <3>1, <3>2, <3>3 DEF IsQueued
      <3> QED
        BY <1>1, <1>3, <2>1, <3>4 DEF Settled
    <2> QED
      BY <2>2, <2>3
  <1>5. \A p \in Ops : IsQueued(p) => p \in Issued
    <2> SUFFICES ASSUME NEW p \in Ops, IsQueued(p) PROVE p \in Issued
      OBVIOUS
    <2>1. PICK i \in 1 .. Len(workQueue) : workQueue[i] = p
      BY DEF IsQueued
    <2>2. Answered + i \in 1 .. Len(issued) /\ issued[Answered + i] = p
      BY <2>1, <1>2 DEF Answered
    <2> QED
      BY <2>2 DEF Issued
  <1> QED
    BY <1>1, <1>2, <1>3, <1>4, <1>5 DEF Issued

\* Nothing else touches the queue or a promise.
LEMMA OtherStep ==
    ASSUME QueueInv, UNCHANGED <<issued, workQueue, outcome>>
    PROVE  QueueInv'
  BY DEF QueueInv, Answered, Settled, Issued

LEMMA ReplyStep ==
    ASSUME QueueInv, HandleMessage
    PROVE  QueueInv'
  <1>1. CASE OnColumnMetaData
    BY <1>1, OtherStep DEF OnColumnMetaData
  <1>2. CASE OnRow
    BY <1>2, OtherStep DEF OnRow
  <1>3. CASE OnRowCursor
    BY <1>3, OtherStep DEF OnRowCursor
  <1>4. CASE OnFetchDone
    BY <1>4, OtherStep DEF OnFetchDone
  <1>5. CASE OnFetchDoneMoreResultsets
    BY <1>5, OtherStep DEF OnFetchDoneMoreResultsets
  <1>6. CASE OnNotice
    BY <1>6, OtherStep DEF OnNotice
  <1>7. CASE OnStmtExecuteOk
    <2>1. workQueue # <<>> /\ issued' = issued /\ Done(Current, Fulfilled(Gathered(H)))
      BY <1>7 DEF OnStmtExecuteOk, Handled
    <2> QED
      BY <2>1, DoneStep DEF Fulfilled
  <1>8. CASE OnOk
    <2>1. workQueue # <<>> /\ issued' = issued /\ Done(Current, Fulfilled(Gathered(H)))
      BY <1>8 DEF OnOk, Handled
    <2> QED
      BY <2>1, DoneStep DEF Fulfilled
  <1>9. CASE OnError
    <2>1. workQueue # <<>> /\ issued' = issued /\ Done(Current, Rejected("error"))
      BY <1>9 DEF OnError, Handled
    <2> QED
      BY <2>1, DoneStep DEF Rejected
  <1>10. CASE OnAuthenticateContinue
    <2>1. \/ UNCHANGED <<issued, workQueue, outcome>>
          \/ workQueue # <<>> /\ issued' = issued /\ Done(Current, Rejected("plugin"))
      BY <1>10 DEF OnAuthenticateContinue, Handled
    <2> QED
      BY <2>1, OtherStep, DoneStep DEF Rejected
  <1>11. CASE OnUnexpected
    <2>1. workQueue # <<>> /\ issued' = issued /\ Done(Current, Rejected("unexpected"))
      BY <1>11 DEF OnUnexpected
    <2> QED
      BY <2>1, DoneStep DEF Rejected
  <1>12. CASE OnEmptyQueue
    BY <1>12, OtherStep DEF OnEmptyQueue
  <1>13. CASE OnGlobalNotice
    BY <1>13, OtherStep DEF OnGlobalNotice, clientVars
  <1> QED
    BY <1>1, <1>2, <1>3, <1>4, <1>5, <1>6, <1>7, <1>8, <1>9, <1>10, <1>11, <1>12, <1>13
    DEF HandleMessage

\* The server writes to the socket, and to nothing of the client's.
LEMMA ServerStep ==
    ASSUME Serve \/ ServerGlobalNotice \/ ServerOther \/ ServerCloses
    PROVE  UNCHANGED <<issued, workQueue, outcome>>
  BY DEF Serve, ServerOk, ServerAuthenticates, ServerFails, ServerColumn, ServerRow,
         ServerFetchDone, ServerNotice, ServerExecuteOk, ServerGlobalNotice, ServerOther,
         ServerCloses, Finish, Continues, clientVars

LEMMA QueueStep == QueueInv /\ [Next]_vars => QueueInv'
  <1> SUFFICES ASSUME QueueInv, [Next]_vars PROVE QueueInv'
    OBVIOUS
  <1>1. CASE \E o \in Ops, k \in Kinds, c \in Cursors : Send(o, k, c)
    BY <1>1, SendStep
  <1>2. CASE Serve \/ ServerGlobalNotice \/ ServerOther \/ ServerCloses
    BY <1>2, ServerStep, OtherStep
  <1>3. CASE HandleMessage
    BY <1>3, ReplyStep
  <1>4. CASE HandleServerClose
    BY <1>4, CloseStep
  <1>5. CASE UNCHANGED vars
    BY <1>5, OtherStep DEF vars, clientVars
  <1> QED
    BY <1>1, <1>2, <1>3, <1>4, <1>5 DEF Next

LEMMA QueueInvariant == Spec => []QueueInv
  BY QueueInit, QueueStep, PTL DEF Spec

\* Promises settle in the order the calls were made, whatever the server
\* sends: a stray message ends the front handler, it never skips one.
THEOREM Ordered == Spec => []SettledInOrder
  <1>1. QueueInv => SettledInOrder
    <2> SUFFICES ASSUME QueueInv PROVE SettledInOrder
      OBVIOUS
    <2>1. Answered \in 0 .. Len(issued)
      BY DEF QueueInv, Answered
    <2>2. DOMAIN issued = 1 .. Len(issued)
      BY DEF QueueInv
    <2>3. workQueue = SubSeq(issued, Answered + 1, Len(issued))
      <3> DEFINE s == SubSeq(issued, Answered + 1, Len(issued))
      <3> HIDE DEF s
      <3>1. /\ s \in Seq(Ops) /\ Len(s) = Len(workQueue)
            /\ \A i \in 1 .. Len(s) : s[i] = issued[Answered + i]
        BY <2>1 DEF QueueInv, Answered, s
      <3>2. workQueue \in Seq(Ops) /\ \A i \in 1 .. Len(s) : workQueue[i] = s[i]
        BY <3>1 DEF QueueInv
      <3>3. s = workQueue
        BY <3>1, <3>2
      <3> QED
        BY <3>3 DEF s
    <2> QED
      BY <2>1, <2>2, <2>3 DEF QueueInv, SettledInOrder
  <1> QED
    BY <1>1, QueueInvariant, PTL

\* A call in the queue is pending.
LEMMA QueuedPending ==
    ASSUME QueueInv, NEW i \in 1 .. Len(workQueue)
    PROVE  workQueue[i] \in Ops /\ ~Settled(workQueue[i])
  <1>1. Answered + i \in 1 .. Len(issued) /\ ~(Answered + i <= Answered)
    BY DEF QueueInv, Answered
  <1>2. workQueue[i] = issued[Answered + i]
    BY DEF QueueInv
  <1> QED
    BY <1>1, <1>2 DEF QueueInv

LEMMA DoneOnce ==
    ASSUME QueueInv, workQueue # <<>>, NEW r, Done(Current, r), NEW o \in Ops, Settled(o)
    PROVE  outcome'[o] = outcome[o]
  <1>1. 1 \in 1 .. Len(workQueue) /\ Current = workQueue[1]
    BY DEF QueueInv, Current
  <1>2. ~Settled(Current)
    BY <1>1, QueuedPending
  <1> QED
    BY <1>2 DEF Done, QueueInv

\* What was settled is left alone by every step.
LEMMA SettledStays ==
    ASSUME QueueInv, [Next]_vars, NEW o \in Ops, Settled(o)
    PROVE  outcome'[o] = outcome[o]
  <1>1. CASE \E p \in Ops, k \in Kinds, c \in Cursors : Send(p, k, c)
    BY <1>1 DEF Send
  <1>2. CASE Serve \/ ServerGlobalNotice \/ ServerOther \/ ServerCloses
    BY <1>2, ServerStep
  <1>3. CASE HandleMessage
    <2>1. \/ outcome' = outcome
          \/ workQueue # <<>> /\ \E r : Done(Current, r)
      BY <1>3 DEF HandleMessage, Handled, clientVars,
         OnColumnMetaData, OnRow, OnRowCursor, OnFetchDone, OnFetchDoneMoreResultsets,
         OnNotice, OnStmtExecuteOk, OnOk, OnError, OnAuthenticateContinue,
         OnUnexpected, OnEmptyQueue, OnGlobalNotice
    <2> QED
      BY <2>1, DoneOnce
  <1>4. CASE HandleServerClose
    <2>1. ~IsQueued(o)
      <3>1. DOMAIN workQueue = 1 .. Len(workQueue)
        BY DEF QueueInv
      <3> QED
        BY <3>1, QueuedPending DEF IsQueued
    <2> QED
      BY <1>4, <2>1 DEF HandleServerClose, LoseCall
  <1>5. CASE UNCHANGED vars
    BY <1>5 DEF vars, clientVars
  <1> QED
    BY <1>1, <1>2, <1>3, <1>4, <1>5 DEF Next

\* A promise is settled at most once, by one reply or by the lost connection.
THEOREM NeverTwice == Spec => SettledOnce
  <1>1. ASSUME QueueInv, [Next]_vars, NEW o \in Ops, Settled(o)
        PROVE  outcome'[o] = outcome[o]
    BY <1>1, SettledStays
  <1>2. QueueInv /\ [Next]_vars => [\A o \in Ops : Settled(o) => outcome'[o] = outcome[o]]_vars
    BY <1>1
  <1> QED
    BY <1>2, QueueInvariant, PTL DEF Spec, SettledOnce

-----------------------------------------------------------------------------
(* Types.                                                                   *)

Results == [rows : Seq(Nat), columns : Seq(Nat), notices : Nat]

Messages ==
    [type : {"Ok", "Capabilities", "AuthenticateContinue", "AuthenticateOk", "Error",
             "ColumnMetaData", "Row", "FetchDone", "FetchDoneMoreResultsets", "Notice",
             "StmtExecuteOk", "GlobalNotice", "Other"},
     op : Ops]

Handlers ==
    [results : Seq(Nat), resultIndex : Nat \ {0}, current : Nat, metadata : Seq(Nat),
     notices : Nat, metadataCalled : BOOLEAN, metadataCalls : Nat,
     pushed : [1 .. MaxSets -> Nat], sources : SUBSET Ops]

\* results has no hole: FetchDoneMoreResultsets sees to it.
NoHole(h) == Len(h.results) \in {h.resultIndex - 1, h.resultIndex}

\* What the two ends keep, whatever the messages.
Types ==
    /\ kind \in [Ops -> AllKinds]
    /\ cursor \in [Ops -> AllCursors]
    /\ handler \in [Ops -> Handlers]
    /\ \A o \in Ops : NoHole(handler[o])
    /\ outcome \in [Ops -> [status : Statuses \ {"sending"}, result : Results]]
    /\ crashed \in BOOLEAN
    /\ requests \in Seq([type : {"request", "continue"}, op : Ops])
    /\ replies \in Seq(Messages)
    /\ Len(replies) <= MaxInFlight
    /\ phase \in Phases
    /\ answer \in [Ops -> [status : Statuses, result : Results]]
    /\ closed \in {"no", "server", "client", "handled", "gone"}

\* What is assumed of the constants, one by one.
LEMMA Bounds ==
    MaxSets \in Nat \ {0} /\ MaxInFlight \in Nat \ {0} /\ Kinds \subseteq AllKinds
    /\ Cursors \subseteq AllCursors
  BY ClientAssumption DEF ClientAssumption

LEMMA NoResultType == NoResult \in Results
  BY DEF NoResult, Results

LEMMA NewHandlerType == NewHandler \in Handlers /\ NoHole(NewHandler)
  <1>1. /\ <<>> \in Seq(Nat) /\ 1 \in Nat \ {0} /\ 0 \in Nat /\ {} \in SUBSET Ops
        /\ [set \in 1 .. MaxSets |-> 0] \in [1 .. MaxSets -> Nat] /\ Len(<<>>) = 0
    OBVIOUS
  <1> QED
    BY <1>1 DEF NewHandler, Handlers, NoHole

LEMMA TypesInit == Init => Types
  <1> SUFFICES ASSUME Init PROVE Types
    OBVIOUS
  <1>1. /\ kind \in [Ops -> AllKinds] /\ cursor \in [Ops -> AllCursors]
        /\ crashed \in BOOLEAN /\ phase \in Phases /\ closed = "no"
        /\ requests = <<>> /\ replies = <<>>
    BY DEF Init, AllKinds, AllCursors, Phases
  <1>2. handler \in [Ops -> Handlers] /\ \A o \in Ops : NoHole(handler[o])
    BY NewHandlerType DEF Init
  <1>3. Pending \in [status : Statuses \ {"sending"}, result : Results]
    BY NoResultType DEF Pending, Rejected, Statuses
  <1>4. /\ outcome \in [Ops -> [status : Statuses \ {"sending"}, result : Results]]
        /\ answer \in [Ops -> [status : Statuses, result : Results]]
    BY <1>3 DEF Init
  <1>5. Len(<<>>) <= MaxInFlight
    BY Bounds
  <1> QED
    BY <1>1, <1>2, <1>4, <1>5 DEF Types

\* The last count of a sequence of counts is increased.
LEMMA AddToProperties ==
    ASSUME NEW counts \in Seq(Nat)
    PROVE  /\ AddTo(counts) \in Seq(Nat) /\ Len(AddTo(counts)) = Len(counts)
           /\ \A i \in 1 .. Len(counts) : i # Len(counts) => AddTo(counts)[i] = counts[i]
           /\ counts # <<>> => AddTo(counts)[Len(counts)] = counts[Len(counts)] + 1
  <1>1. DOMAIN counts = 1 .. Len(counts) /\ Len(counts) \in Nat
    OBVIOUS
  <1>2. AddTo(counts) =
          [i \in 1 .. Len(counts) |-> IF i = Len(counts) THEN counts[i] + 1 ELSE counts[i]]
    BY <1>1 DEF AddTo, Increment
  <1>3. \A i \in 1 .. Len(counts) : counts[i] \in Nat
    OBVIOUS
  <1>4. AddTo(counts) \in [1 .. Len(counts) -> Nat]
    BY <1>2, <1>3
  <1>5. AddTo(counts) \in Seq(Nat) /\ Len(AddTo(counts)) = Len(counts)
    BY <1>1, <1>4
  <1>6. \A i \in 1 .. Len(counts) :
           AddTo(counts)[i] = IF i = Len(counts) THEN counts[i] + 1 ELSE counts[i]
    BY <1>2
  <1>7. counts # <<>> => Len(counts) \in 1 .. Len(counts)
    OBVIOUS
  <1> QED
    BY <1>5, <1>6, <1>7

\* What the server has sent of a result stays a result.
LEMMA DraftTypes ==
    ASSUME NEW d \in Results
    PROVE  /\ [d EXCEPT !.columns = Append(@, 1), !.rows = Append(@, 0)] \in Results
           /\ [d EXCEPT !.columns = AddTo(@)] \in Results
           /\ [d EXCEPT !.rows = AddTo(@)] \in Results
           /\ [d EXCEPT !.notices = 1] \in Results
  <1>1. d.rows \in Seq(Nat) /\ d.columns \in Seq(Nat)
    BY DEF Results
  <1>2. /\ Append(d.columns, 1) \in Seq(Nat) /\ Append(d.rows, 0) \in Seq(Nat)
        /\ AddTo(d.columns) \in Seq(Nat) /\ AddTo(d.rows) \in Seq(Nat)
    BY <1>1, AddToProperties
  <1> QED
    BY <1>2 DEF Results

LEMMA OneTaken ==
    ASSUME NEW S, NEW s \in Seq(S), Len(s) >= 1
    PROVE  Tail(s) \in Seq(S) /\ Len(Tail(s)) = Len(s) - 1
  OBVIOUS

\* What is left when two requests are taken.
LEMMA TwoTaken ==
    ASSUME NEW S, NEW s \in Seq(S), Len(s) > 1
    PROVE  Tail(Tail(s)) \in Seq(S) /\ Len(Tail(Tail(s))) = Len(s) - 2
  <1>1. Len(s) \in Nat
    OBVIOUS
  <1>2. Tail(s) \in Seq(S) /\ Len(Tail(s)) = Len(s) - 1
    BY <1>1, OneTaken
  <1>3. Len(Tail(s)) >= 1
    BY <1>1, <1>2
  <1>4. Tail(Tail(s)) \in Seq(S) /\ Len(Tail(Tail(s))) = Len(Tail(s)) - 1
    BY <1>2, <1>3, OneTaken
  <1> QED
    BY <1>1, <1>2, <1>4

\* The request the server answers, and what it has said of it.
LEMMA ServingType ==
    ASSUME Types, CanReply
    PROVE  /\ Serving \in Ops /\ requests # <<>> /\ Draft \in Results
           /\ Tail(requests) \in Seq([type : {"request", "continue"}, op : Ops])
  <1>1. /\ Head(requests) \in [type : {"request", "continue"}, op : Ops]
        /\ Tail(requests) \in Seq([type : {"request", "continue"}, op : Ops])
        /\ requests # <<>>
    BY HeadTailProperties DEF Types, CanReply
  <1> QED
    BY <1>1 DEF Serving, Draft, Types

\* One more reply, and what was decided or sent so far.
LEMMA ReplyTypes ==
    ASSUME Types, CanReply, NEW m \in Messages, replies' = Append(replies, m),
           NEW a \in [status : Statuses, result : Results],
           answer' = [answer EXCEPT ![Serving] = a] \/ answer' = answer,
           requests' \in Seq([type : {"request", "continue"}, op : Ops]),
           phase' \in Phases,
           UNCHANGED clientVars, closed' = closed
    PROVE  Types'
  <1>1. replies' \in Seq(Messages) /\ Len(replies') <= MaxInFlight
    BY Bounds DEF Types, CanReply
  <1>2. answer' \in [Ops -> [status : Statuses, result : Results]]
    BY DEF Types
  <1>3. UNCHANGED <<kind, cursor, handler, outcome, crashed>>
    BY DEF clientVars
  <1> QED
    BY <1>1, <1>2, <1>3 DEF Types, NoHole

\* The server keeps the types.
LEMMA ServeTypes ==
    ASSUME Types, Serve \/ ServerGlobalNotice \/ ServerOther
    PROVE  Types'
  <1> DEFINE Answers == [status : Statuses, result : Results]
  <1>1. CanReply
    BY DEF Serve, ServerOk, ServerAuthenticates, ServerFails, ServerColumn, ServerRow,
       ServerFetchDone, ServerNotice, ServerExecuteOk, ServerGlobalNotice, ServerOther, Request
  <1>2. /\ Serving \in Ops /\ Draft \in Results /\ requests # <<>>
        /\ Tail(requests) \in Seq([type : {"request", "continue"}, op : Ops])
    BY <1>1, ServingType
  <1>3. /\ \A d \in Results : /\ Fulfilled(d) \in Answers
                              /\ [status |-> "sending", result |-> d] \in Answers
        /\ Rejected("error") \in Answers
    BY NoResultType DEF Fulfilled, Rejected, Statuses
  <1>4. \A type \in {"Ok", "Capabilities", "AuthenticateContinue", "AuthenticateOk", "Error",
             "ColumnMetaData", "Row", "FetchDone", "FetchDoneMoreResultsets", "Notice",
             "StmtExecuteOk", "GlobalNotice", "Other"} : Message(type, Serving) \in Messages
    BY <1>2 DEF Message, Messages
  <1>5. requests \in Seq([type : {"request", "continue"}, op : Ops]) /\ phase \in Phases
        /\ \A p \in {"idle", "wait", "columns", "rows", "sets", "done"} : p \in Phases
    BY DEF Types, Phases
  <1> HIDE DEF Answers
  <1>6. ASSUME NEW type, NEW d \in Results, Finish(type, Fulfilled(d)),
               Message(type, Serving) \in Messages
        PROVE  Types'
    BY <1>1, <1>2, <1>3, <1>5, <1>6, ReplyTypes DEF Finish, Reply, Answers
  <1>7. ASSUME NEW type, NEW next \in Phases, NEW d \in Results, Continues(type, next, d),
               Message(type, Serving) \in Messages
        PROVE  Types'
    <2>1. /\ replies' = Append(replies, Message(type, Serving)) /\ requests' = requests
          /\ phase' = next /\ UNCHANGED clientVars /\ closed' = closed
          /\ answer' = [answer EXCEPT ![Serving] = [status |-> "sending", result |-> d]]
      BY <1>7 DEF Continues, Reply, Sending
    <2> QED
      BY <1>1, <1>2, <1>3, <1>5, <1>7, <2>1, ReplyTypes DEF Answers
  <1>8. CASE ServerOk
    <2>1. PICK k \in DOMAIN OneMessage : Finish(OneMessage[k], Fulfilled(NoResult))
      BY <1>8 DEF ServerOk
    <2>2. OneMessage[k] \in {"Ok", "Capabilities"}
      BY DEF OneMessage
    <2> QED
      BY <1>4, <1>6, <2>1, <2>2, NoResultType
  <1>9. CASE ServerAuthenticates
    <2>1. CASE /\ Reply("AuthenticateContinue") /\ phase' = "wait"
               /\ UNCHANGED <<clientVars, requests, answer, closed>>
      BY <1>1, <1>2, <1>3, <1>4, <1>5, <2>1, NoResultType, ReplyTypes DEF Reply, Answers
    <2>2. CASE /\ Reply("AuthenticateOk") /\ Len(requests) > 1
               /\ requests' = Tail(Tail(requests)) /\ phase' = "idle"
               /\ answer' = [answer EXCEPT ![Serving] = Fulfilled(Draft)]
               /\ UNCHANGED <<clientVars, closed>>
      <3>1. requests' \in Seq([type : {"request", "continue"}, op : Ops])
        BY <1>5, <2>2, TwoTaken
      <3> QED
        BY <1>1, <1>2, <1>3, <1>4, <1>5, <2>2, <3>1, ReplyTypes DEF Reply, Answers
    <2> QED
      BY <1>9, <2>1, <2>2 DEF ServerAuthenticates
  <1>10. CASE ServerFails
    <2>1. /\ Reply("Error") /\ phase' = "idle"
          /\ answer' = [answer EXCEPT ![Serving] = Rejected("error")]
          /\ UNCHANGED <<clientVars, closed>>
          /\ phase = "wait" => Len(requests) > 1
          /\ requests' = IF phase = "wait" THEN Tail(Tail(requests)) ELSE Tail(requests)
      BY <1>10 DEF ServerFails
    <2>2. requests' \in Seq([type : {"request", "continue"}, op : Ops])
      BY <1>2, <1>5, <2>1, TwoTaken
    <2> QED
      BY <1>1, <1>2, <1>3, <1>4, <1>5, <2>1, <2>2, ReplyTypes DEF Reply, Answers
  <1>11. CASE ServerColumn
    BY <1>2, <1>4, <1>5, <1>7, <1>11, DraftTypes DEF ServerColumn
  <1>12. CASE ServerRow
    BY <1>2, <1>4, <1>5, <1>7, <1>12, DraftTypes DEF ServerRow
  <1>13. CASE ServerFetchDone
    BY <1>2, <1>4, <1>5, <1>7, <1>13 DEF ServerFetchDone
  <1>14. CASE ServerNotice
    BY <1>2, <1>4, <1>5, <1>7, <1>14, DraftTypes DEF ServerNotice
  <1>15. CASE ServerExecuteOk
    BY <1>2, <1>4, <1>6, <1>15 DEF ServerExecuteOk
  <1>16. CASE ServerGlobalNotice \/ ServerOther
    <2>1. /\ UNCHANGED <<clientVars, requests, phase, answer, closed>>
          /\ Reply("GlobalNotice") \/ Reply("Other")
      BY <1>16 DEF ServerGlobalNotice, ServerOther
    <2> QED
      BY <1>1, <1>2, <1>3, <1>4, <1>5, <2>1, NoResultType, ReplyTypes DEF Reply, Answers
  <1> QED
    BY <1>8, <1>9, <1>10, <1>11, <1>12, <1>13, <1>14, <1>15, <1>16 DEF Serve

\* The front handler has gathered something more.
LEMMA GatherTypes ==
    ASSUME Types, QueueInv, workQueue # <<>>, replies # <<>>,
           NEW h \in Handlers, NoHole(h), Gather(h)
    PROVE  handler' \in [Ops -> Handlers] /\ \A o \in Ops : NoHole(handler'[o])
  <1>1. Current \in Ops
    BY HeadTailProperties DEF QueueInv, Current
  <1>2. Head(replies).op \in Ops
    <2>1. Head(replies) \in Messages
      BY HeadTailProperties DEF Types
    <2> QED
      BY <2>1 DEF Messages
  <1> DEFINE g == [h EXCEPT !.sources = @ \cup {Head(replies).op}]
  <1>3. g \in Handlers /\ g.results = h.results /\ g.resultIndex = h.resultIndex
    BY <1>2 DEF Handlers
  <1>4. handler' = [handler EXCEPT ![Current] = g]
    BY DEF Gather
  <1> HIDE DEF g
  <1> QED
    BY <1>1, <1>3, <1>4 DEF Types, NoHole

\* The handler at the front of the queue.
LEMMA CurrentType ==
    ASSUME Types, QueueInv, workQueue # <<>>
    PROVE  Current \in Ops /\ H \in Handlers /\ NoHole(H)
  <1>1. Current \in Ops
    BY HeadTailProperties DEF QueueInv, Current
  <1> QED
    BY <1>1 DEF Types, H

\* What a promise is settled with is a result.
LEMMA GatheredType ==
    ASSUME NEW h \in Handlers
    PROVE  Gathered(h) \in Results
  <1>1. /\ h.metadata \in Seq(Nat) /\ h.results \in Seq(Nat) /\ h.notices \in Nat
    BY DEF Handlers
  <1> DEFINE rows == [i \in DOMAIN h.metadata |-> IF Assigned(h, i) THEN h.results[i] ELSE 0]
  <1>2. \A i \in DOMAIN h.metadata : (IF Assigned(h, i) THEN h.results[i] ELSE 0) \in Nat
    <2> TAKE i \in DOMAIN h.metadata
    <2>1. i \in Nat /\ i >= 1 /\ Len(h.results) \in Nat
      BY <1>1
    <2>2. Assigned(h, i) => i \in 1 .. Len(h.results)
      BY <2>1 DEF Assigned
    <2> QED
      BY <1>1, <2>2
  <1>3. DOMAIN h.metadata = 1 .. Len(h.metadata) /\ Len(h.metadata) \in Nat
    BY <1>1
  <1>4. rows \in [1 .. Len(h.metadata) -> Nat]
    BY <1>2, <1>3
  <1>5. rows \in Seq(Nat)
    BY <1>3, <1>4
  <1> QED
    BY <1>1, <1>5 DEF Gathered, Results

\* A row more in the last set, which may be its first.
LEMMA RowTypes ==
    ASSUME NEW h \in Handlers, NoHole(h)
    PROVE  LET rows == IF Assigned(h, h.resultIndex) THEN h.results ELSE Append(h.results, 0)
               g == [h EXCEPT !.results = Increment(rows, h.resultIndex)]
           IN g \in Handlers /\ NoHole(g)
  <1> DEFINE rows == IF Assigned(h, h.resultIndex) THEN h.results ELSE Append(h.results, 0)
             more == Increment(rows, h.resultIndex)
             g == [h EXCEPT !.results = more]
  <1>1. h.results \in Seq(Nat) /\ h.resultIndex \in Nat \ {0}
    BY DEF Handlers
  <1>2. rows \in Seq(Nat) /\ Len(rows) = h.resultIndex
    <2>1. CASE Assigned(h, h.resultIndex)
      BY <1>1, <2>1 DEF Assigned, NoHole
    <2>2. CASE ~Assigned(h, h.resultIndex)
      <3>1. Len(h.results) = h.resultIndex - 1
        BY <1>1, <2>2 DEF Assigned, NoHole
      <3> QED
        BY <1>1, <2>2, <3>1
    <2> QED
      BY <2>1, <2>2
  <1> HIDE DEF rows
  <1>3. more \in [1 .. h.resultIndex -> Nat]
    <2>1. DOMAIN rows = 1 .. h.resultIndex /\ h.resultIndex \in 1 .. h.resultIndex
      BY <1>1, <1>2
    <2>2. \A i \in 1 .. h.resultIndex : rows[i] \in Nat
      BY <1>2, <2>1
    <2>3. more = [i \in 1 .. h.resultIndex |->
                     IF i = h.resultIndex THEN rows[i] + 1 ELSE rows[i]]
      BY <2>1 DEF Increment
    <2> HIDE DEF more
    <2> QED
      BY <2>2, <2>3
  <1> HIDE DEF more
  <1>4. more \in Seq(Nat) /\ Len(more) = h.resultIndex
    BY <1>1, <1>3
  <1>5. g \in Handlers /\ g.results = more /\ g.resultIndex = h.resultIndex
    BY <1>4 DEF Handlers
  <1>6. NoHole(g)
    BY <1>4, <1>5 DEF NoHole
  <1> QED
    BY <1>5, <1>6 DEF g, more, rows

\* What FetchDoneMoreResultsets leaves: a buffer for every set up to this one.
LEMMA EmptySetProperties ==
    ASSUME NEW h \in Handlers, NoHole(h)
    PROVE  /\ EmptySet(h) \in Seq(Nat) /\ Len(EmptySet(h)) = h.resultIndex
           /\ \A i \in 1 .. Len(h.results) : EmptySet(h)[i] = h.results[i]
           /\ Len(h.results) # h.resultIndex => EmptySet(h)[h.resultIndex] = 0
  <1>1. h.results \in Seq(Nat) /\ h.resultIndex \in Nat \ {0} /\ Len(h.results) \in Nat
    BY DEF Handlers
  <1>2. CASE Assigned(h, h.resultIndex)
    <2>1. Len(h.results) = h.resultIndex
      BY <1>1, <1>2 DEF Assigned, NoHole
    <2> QED
      BY <1>1, <1>2, <2>1 DEF EmptySet
  <1>3. CASE ~Assigned(h, h.resultIndex)
    <2>1. Len(h.results) = h.resultIndex - 1
      BY <1>1, <1>3 DEF Assigned, NoHole
    <2>2. EmptySet(h) = Append(h.results, 0)
      BY <1>3 DEF EmptySet
    <2> QED
      BY <1>1, <2>1, <2>2
  <1> QED
    BY <1>2, <1>3

\* A count that is not there is not counted.
LEMMA Incremented ==
    ASSUME NEW S, NEW f \in [S -> Nat], NEW i
    PROVE  Increment(f, i) \in [S -> Nat]
  <1>1. \A j \in S : f[j] \in Nat /\ f[j] + 1 \in Nat
    OBVIOUS
  <1> QED
    BY <1>1 DEF Increment

\* What the handlers for messages change in a handler besides its results.
LEMMA HandlerUpdates ==
    ASSUME NEW h \in Handlers, NoHole(h)
    PROVE  /\ LET g == [h EXCEPT !.current = @ + 1, !.metadataCalled = FALSE]
              IN g \in Handlers /\ NoHole(g)
           /\ LET g == [h EXCEPT !.metadata = Append(@, h.current), !.current = 0]
              IN g \in Handlers /\ NoHole(g)
           /\ LET g == [h EXCEPT !.notices = @ + 1]
              IN g \in Handlers /\ NoHole(g)
           /\ \A called \in BOOLEAN, calls \in Nat, pushed \in [1 .. MaxSets -> Nat] :
                 LET g == [h EXCEPT !.metadataCalled = called, !.metadataCalls = calls,
                                    !.pushed = pushed]
                 IN g \in Handlers /\ NoHole(g)
  <1>1. /\ h.current + 1 \in Nat /\ Append(h.metadata, h.current) \in Seq(Nat)
        /\ h.notices + 1 \in Nat
    BY DEF Handlers
  <1>2. [h EXCEPT !.current = @ + 1, !.metadataCalled = FALSE] \in Handlers
    BY <1>1 DEF Handlers
  <1>3. [h EXCEPT !.metadata = Append(@, h.current), !.current = 0] \in Handlers
    BY <1>1 DEF Handlers
  <1>4. [h EXCEPT !.notices = @ + 1] \in Handlers
    BY <1>1 DEF Handlers
  <1>5. \A called \in BOOLEAN, calls \in Nat, pushed \in [1 .. MaxSets -> Nat] :
           [h EXCEPT !.metadataCalled = called, !.metadataCalls = calls,
                     !.pushed = pushed] \in Handlers
    BY DEF Handlers
  <1> QED
    BY <1>2, <1>3, <1>4, <1>5 DEF NoHole, Handlers

\* What HandleMessage does to the variables of Types besides handler and outcome.
LEMMA HandleTypes ==
    ASSUME Types, QueueInv, HandleMessage
    PROVE  Types'
  <1>1. replies # <<>> /\ Consume
    BY DEF HandleMessage, OnColumnMetaData, OnRow, OnRowCursor, OnFetchDone,
       OnFetchDoneMoreResultsets, OnNotice, OnStmtExecuteOk, OnOk, OnError,
       OnAuthenticateContinue, OnUnexpected, OnEmptyQueue, OnGlobalNotice, Handled, Received
  <1>2. /\ replies' \in Seq(Messages) /\ Len(replies') <= MaxInFlight
        /\ phase' = phase /\ answer' = answer
    <2>1. replies' \in Seq(Messages) /\ Len(replies') = Len(replies) - 1 /\ Len(replies) \in Nat
      BY <1>1, HeadTailProperties DEF Consume, Types
    <2> QED
      BY <1>1, <2>1, Bounds DEF Consume, Types
  <1> DEFINE Handled2 == handler' \in [Ops -> Handlers] /\ \A o \in Ops : NoHole(handler'[o])
             Settles == outcome' \in [Ops -> [status : Statuses \ {"sending"}, result : Results]]
             Rest == /\ kind' = kind /\ cursor' = cursor /\ crashed' \in BOOLEAN
                     /\ requests' \in Seq([type : {"request", "continue"}, op : Ops])
                     /\ closed' \in {"no", "server", "client", "handled", "gone"}
  <1>3. ASSUME Handled2, Settles, Rest PROVE Types'
    BY <1>2, <1>3 DEF Types, NoHole
  <1>4. outcome' = outcome => Settles
    BY DEF Types
  <1>5. handler' = handler => Handled2
    BY DEF Types, NoHole
  <1>6. UNCHANGED <<kind, cursor, crashed, requests, closed>> => Rest
    BY DEF Types
  <1> HIDE DEF Handled2, Settles, Rest
  <1>7. ASSUME workQueue # <<>>, NEW h, Gather(h), h \in Handlers, NoHole(h) PROVE Handled2
    BY <1>1, <1>7, GatherTypes DEF Handled2
  <1>8. workQueue # <<>> => Current \in Ops /\ H \in Handlers /\ NoHole(H)
    BY CurrentType
  <1>9. ASSUME workQueue # <<>>, NEW r \in [status : Statuses \ {"sending"}, result : Results],
               Done(Current, r)
        PROVE  Settles
    BY <1>8, <1>9 DEF Done, Settles, Types
  <1>10. /\ \A why \in {"error", "plugin", "unexpected"} :
               Rejected(why) \in [status : Statuses \ {"sending"}, result : Results]
         /\ workQueue # <<>> =>
               Fulfilled(Gathered(H)) \in [status : Statuses \ {"sending"}, result : Results]
    BY <1>8, GatheredType, NoResultType DEF Rejected, Fulfilled, Statuses
  <1>11. CASE OnColumnMetaData
    <2>1. workQueue # <<>> /\ Gather(NewColumn(H)) /\ outcome' = outcome
          /\ UNCHANGED <<kind, cursor, crashed, requests, closed>>
      BY <1>11 DEF OnColumnMetaData, Handled
    <2>2. NewColumn(H) \in Handlers /\ NoHole(NewColumn(H))
      BY <1>8, <2>1, HandlerUpdates DEF NewColumn
    <2> QED
      BY <1>3, <1>4, <1>6, <1>7, <2>1, <2>2
  <1>12. CASE OnRow
    <2> DEFINE rows == IF Assigned(H, H.resultIndex) THEN H.results ELSE Append(H.results, 0)
               g == [H EXCEPT !.results = Increment(rows, H.resultIndex)]
    <2>1. workQueue # <<>> /\ Gather(g) /\ outcome' = outcome
          /\ UNCHANGED <<kind, cursor, crashed, requests, closed>>
      BY <1>12 DEF OnRow, Handled
    <2>2. g \in Handlers /\ NoHole(g)
      BY <1>8, <2>1, RowTypes
    <2> HIDE DEF g
    <2> QED
      BY <1>3, <1>4, <1>6, <1>7, <2>1, <2>2
  <1>13. CASE OnRowCursor
    <2> DEFINE g == [H EXCEPT !.metadataCalled = @ \/ CallMetadata(H),
                        !.metadataCalls = IF CallMetadata(H) THEN @ + 1 ELSE @,
                        !.pushed = IF cursor[Current] = "meta" THEN @
                                   ELSE Increment(@, H.resultIndex)]
    <2>1. workQueue # <<>> /\ Gather(g) /\ outcome' = outcome
          /\ kind' = kind /\ cursor' = cursor /\ crashed' \in BOOLEAN
          /\ requests' = requests /\ closed' = closed
      BY <1>13 DEF OnRowCursor, Handled
    <2>2. g \in Handlers /\ NoHole(g)
      <3>1. H \in Handlers
        BY <1>8, <2>1
      <3>2. /\ (H.metadataCalled \/ CallMetadata(H)) \in BOOLEAN
            /\ (IF CallMetadata(H) THEN H.metadataCalls + 1 ELSE H.metadataCalls) \in Nat
        BY <3>1 DEF Handlers
      <3>3. (IF cursor[Current] = "meta" THEN H.pushed
             ELSE Increment(H.pushed, H.resultIndex)) \in [1 .. MaxSets -> Nat]
        <4>1. H.pushed \in [1 .. MaxSets -> Nat]
          BY <3>1 DEF Handlers
        <4> QED
          BY <4>1, Incremented
      <3> QED
        BY <1>8, <2>1, <3>2, <3>3, HandlerUpdates
    <2> HIDE DEF g
    <2>3. Rest
      BY <2>1 DEF Rest, Types
    <2> QED
      BY <1>3, <1>4, <1>7, <2>1, <2>2, <2>3
  <1>14. CASE OnFetchDone
    <2> DEFINE g == [H EXCEPT !.metadata = Append(@, H.current), !.current = ClearMetadata(H)]
    <2>1. workQueue # <<>> /\ Gather(g) /\ outcome' = outcome
          /\ UNCHANGED <<kind, cursor, crashed, requests, closed>>
      BY <1>14 DEF OnFetchDone, Handled
    <2>2. g \in Handlers /\ NoHole(g)
      BY <1>8, <2>1, HandlerUpdates DEF ClearMetadata
    <2> HIDE DEF g
    <2> QED
      BY <1>3, <1>4, <1>6, <1>7, <2>1, <2>2
  <1>15. CASE OnFetchDoneMoreResultsets
    <2> DEFINE g == [H EXCEPT !.metadata = Append(@, H.current), !.current = ClearMetadata(H),
                        !.results = EmptySet(H), !.resultIndex = @ + 1]
    <2>1. workQueue # <<>> /\ Gather(g) /\ outcome' = outcome
          /\ UNCHANGED <<kind, cursor, crashed, requests, closed>>
      BY <1>15 DEF OnFetchDoneMoreResultsets, Handled
    <2>2. g \in Handlers /\ NoHole(g)
      <3>1. EmptySet(H) \in Seq(Nat) /\ Len(EmptySet(H)) = H.resultIndex /\ H \in Handlers
        BY <1>8, <2>1, EmptySetProperties
      <3>2. Append(H.metadata, H.current) \in Seq(Nat) /\ H.resultIndex + 1 \in Nat \ {0}
        BY <3>1 DEF Handlers
      <3>3. /\ g \in Handlers /\ g.results = EmptySet(H) /\ g.resultIndex = H.resultIndex + 1
            /\ H.resultIndex \in Nat
        BY <3>1, <3>2 DEF Handlers, ClearMetadata
      <3> HIDE DEF g
      <3> QED
        BY <3>1, <3>3 DEF NoHole
    <2> HIDE DEF g
    <2> QED
      BY <1>3, <1>4, <1>6, <1>7, <2>1, <2>2
  <1>16. CASE OnNotice
    <2> DEFINE g == [H EXCEPT !.notices = @ + 1]
    <2>1. workQueue # <<>> /\ Gather(g) /\ outcome' = outcome
          /\ UNCHANGED <<kind, cursor, crashed, requests, closed>>
      BY <1>16 DEF OnNotice, Handled
    <2>2. g \in Handlers /\ NoHole(g)
      BY <1>8, <2>1, HandlerUpdates
    <2> HIDE DEF g
    <2> QED
      BY <1>3, <1>4, <1>6, <1>7, <2>1, <2>2
  <1>17. CASE OnStmtExecuteOk \/ OnOk \/ OnError
    <2>1. workQueue # <<>> /\ Gather(H)
          /\ UNCHANGED <<kind, cursor, crashed, requests, closed>>
          /\ (Done(Current, Fulfilled(Gathered(H))) \/ Done(Current, Rejected("error")))
      BY <1>17 DEF OnStmtExecuteOk, OnOk, OnError, Handled
    <2>2. Settles
      BY <1>9, <1>10, <2>1
    <2> QED
      BY <1>3, <1>6, <1>7, <1>8, <2>1, <2>2
  <1>18. CASE OnAuthenticateContinue
    <2>1. workQueue # <<>> /\ Gather(H) /\ kind' = kind /\ cursor' = cursor /\ crashed' = crashed
      BY <1>18 DEF OnAuthenticateContinue, Handled
    <2>2. CASE /\ requests' = Append(requests, Message("continue", Current))
               /\ UNCHANGED <<workQueue, outcome, closed>>
      <3>1. Message("continue", Current) \in [type : {"request", "continue"}, op : Ops]
        BY <1>8, <2>1 DEF Message
      <3>2. requests' \in Seq([type : {"request", "continue"}, op : Ops])
        BY <2>2, <3>1, AppendProperties DEF Types
      <3>3. Rest
        BY <2>1, <2>2, <3>2 DEF Rest, Types
      <3> QED
        BY <1>3, <1>4, <1>7, <1>8, <2>1, <2>2, <3>3
    <2>3. CASE Done(Current, Rejected("plugin")) /\ closed' = "client" /\ UNCHANGED requests
      <3>1. Rest
        BY <2>1, <2>3 DEF Rest, Types
      <3>2. Settles
        BY <1>9, <1>10, <2>1, <2>3
      <3> QED
        BY <1>3, <1>7, <1>8, <2>1, <3>1, <3>2
    <2> QED
      BY <1>18, <2>2, <2>3 DEF OnAuthenticateContinue
  <1>19. CASE OnUnexpected
    <2>1. workQueue # <<>> /\ handler' = handler /\ Done(Current, Rejected("unexpected"))
          /\ UNCHANGED <<kind, cursor, crashed, requests, closed>>
      BY <1>19 DEF OnUnexpected
    <2>2. Settles
      BY <1>9, <1>10, <2>1
    <2> QED
      BY <1>3, <1>5, <1>6, <2>1, <2>2
  <1>20. CASE OnEmptyQueue \/ OnGlobalNotice
    <2>1. /\ handler' = handler /\ outcome' = outcome
          /\ kind' = kind /\ cursor' = cursor /\ crashed' \in {crashed, TRUE}
          /\ requests' = requests /\ closed' = closed
      BY <1>20 DEF OnEmptyQueue, OnGlobalNotice, clientVars
    <2>2. Rest
      BY <2>1 DEF Rest, Types
    <2> QED
      BY <1>3, <1>4, <1>5, <2>1, <2>2
  <1> QED
    BY <1>11, <1>12, <1>13, <1>14, <1>15, <1>16, <1>17, <1>18, <1>19, <1>20 DEF HandleMessage

LEMMA TypesStep ==
    ASSUME Types, QueueInv, [Next]_vars
    PROVE  Types'
  <1>1. CASE \E o \in Ops, k \in Kinds, c \in Cursors : Send(o, k, c)
    <2>1. PICK o \in Ops, k \in Kinds, c \in Cursors : Send(o, k, c)
      BY <1>1
    <2>2. /\ kind' = [kind EXCEPT ![o] = k] /\ cursor' = [cursor EXCEPT ![o] = c]
          /\ requests' = Append(requests, Message("request", o))
          /\ UNCHANGED <<handler, outcome, crashed, replies, phase, answer, closed>>
      BY <2>1 DEF Send
    <2>3. kind' \in [Ops -> AllKinds] /\ cursor' \in [Ops -> AllCursors]
      BY <2>2, Bounds DEF Types
    <2>4. Message("request", o) \in [type : {"request", "continue"}, op : Ops]
      BY DEF Message
    <2>5. requests' \in Seq([type : {"request", "continue"}, op : Ops])
      BY <2>2, <2>4, AppendProperties DEF Types
    <2> QED
      BY <2>2, <2>3, <2>5 DEF Types, NoHole
  <1>2. CASE Serve \/ ServerGlobalNotice \/ ServerOther
    BY <1>2, ServeTypes
  <1>3. CASE ServerCloses
    BY <1>3 DEF ServerCloses, Types, NoHole, clientVars
  <1>4. CASE HandleMessage
    BY <1>4, HandleTypes
  <1>5. CASE HandleServerClose
    <2>1. /\ outcome' = [o \in Ops |-> IF LoseCall(o) THEN Rejected("gone") ELSE outcome[o]]
          /\ closed' \in {"gone", "handled"}
          /\ UNCHANGED <<kind, cursor, handler, crashed, requests, replies, phase, answer>>
      BY <1>5 DEF HandleServerClose
    <2>2. Rejected("gone") \in [status : Statuses \ {"sending"}, result : Results]
      BY NoResultType DEF Rejected, Statuses
    <2>3. outcome' \in [Ops -> [status : Statuses \ {"sending"}, result : Results]]
      BY <2>1, <2>2 DEF Types
    <2> QED
      BY <2>1, <2>3 DEF Types, NoHole
  <1>6. CASE UNCHANGED vars
    BY <1>6 DEF vars, clientVars, serverVars, Types, NoHole
  <1> QED
    BY <1>1, <1>2, <1>3, <1>4, <1>5, <1>6 DEF Next

LEMMA TypesInvariant == Spec => []Types
  <1>1. ASSUME Types, QueueInv, [Next]_vars PROVE Types'
    BY <1>1, TypesStep
  <1> QED
    BY <1>1, TypesInit, QueueInvariant, PTL DEF Spec

\* Every variable keeps its type, whatever the server sends, and the results
\* of a reply have no hole: a set without rows is there when the next begins.
THEOREM ClientTypes == Spec => []TypeOK
  <1>1. Types /\ QueueInv => TypeOK
    <2> SUFFICES ASSUME Types, QueueInv PROVE TypeOK
      OBVIOUS
    <2>1. \A o \in Ops : outcome[o].status \in Statuses \ {"sending"}
      BY DEF Types
    <2>2. Len(replies) <= MaxInFlight + 1
      BY Bounds DEF Types
    <2> QED
      BY <2>1, <2>2 DEF Types, TypeOK, QueueInv, NoHole
  <1> QED
    BY <1>1, TypesInvariant, QueueInvariant, PTL

-----------------------------------------------------------------------------
(* What is under way, and what each end knows of it.                        *)

\* Where the server is: which call it answers, and what it has said of it.
States == [at : Nat, phase : Phases, draft : Results]
Beginning(i) == [at |-> i, phase |-> "idle", draft |-> NoResult]

Ends(type) == type \in {"Ok", "Capabilities", "AuthenticateOk", "Error", "StmtExecuteOk"}
Describing(p) == p \in {"columns", "rows"}

\* What the server decides with the last message of a reply.
Decided(s, type) == IF type = "Error" THEN Rejected("error") ELSE Fulfilled(s.draft)

\* A part of a result takes the server from one state to the next.
Describes(s, type, t) ==
    \/ /\ type = "ColumnMetaData" /\ s.phase \in {"idle", "sets"} /\ Len(s.draft.rows) < MaxSets
       /\ t.phase = "columns"
       /\ t.draft = [s.draft EXCEPT !.columns = Append(@, 1), !.rows = Append(@, 0)]
    \/ /\ type = "ColumnMetaData" /\ s.phase = "columns" /\ t.phase = "columns"
       /\ t.draft = [s.draft EXCEPT !.columns = AddTo(@)]
    \/ /\ type = "Row" /\ Describing(s.phase) /\ t.phase = "rows"
       /\ t.draft = [s.draft EXCEPT !.rows = AddTo(@)]
    \/ /\ type = "FetchDone" /\ Describing(s.phase) /\ t.phase = "done" /\ t.draft = s.draft
    \/ /\ type = "FetchDoneMoreResultsets" /\ Describing(s.phase)
       /\ t.phase = "sets" /\ t.draft = s.draft

\* A message after which the reply to a call of a kind goes on.
Continued(s, type, k, t) ==
    /\ t.at = s.at
    /\ \/ k = "result" /\ Describes(s, type, t)
       \/ /\ type = "Notice" /\ k \in {"result", "authenticate"} /\ s.draft.notices = 0
          /\ t.phase = s.phase /\ t.draft = [s.draft EXCEPT !.notices = 1]
       \/ /\ type = "AuthenticateContinue" /\ k = "authenticate"
          /\ s.phase = "idle" /\ t.phase = "wait" /\ t.draft = s.draft

\* The last message of a reply.
Ended(s, type, k, t) ==
    /\ t = Beginning(s.at + 1)
    /\ \/ type = "Error"
       \/ type = "Ok" /\ k = "ok"
       \/ type = "Capabilities" /\ k = "capabilities"
       \/ type = "AuthenticateOk" /\ k = "authenticate"
       \/ type = "StmtExecuteOk" /\ k = "result" /\ ~Describing(s.phase)

Says(s, m, t) ==
    \/ m.type = "GlobalNotice" /\ t = s
    \/ /\ m.op = issued[s.at]
       /\ \/ m.type = "Other" /\ t = s
          \/ Continued(s, m.type, kind[m.op], t)
          \/ Ended(s, m.type, kind[m.op], t) /\ answer[m.op] = Decided(s, m.type)

\* What the server can have said of a call of a kind.
Shape(s, k) ==
    LET n == Len(s.draft.rows)
    IN /\ Len(s.draft.columns) = n /\ n <= MaxSets
       /\ s.phase \in {"idle", "wait"} => n = 0
       /\ s.phase \notin {"idle", "wait"} => n >= 1
       /\ s.phase = "columns" => s.draft.rows[n] = 0
       /\ k \in {"ok", "capabilities"} => s.phase = "idle" /\ s.draft.notices = 0
       /\ k = "authenticate" => s.phase \in {"idle", "wait"}
       /\ k = "result" => s.phase # "wait"

\* The sets that have rows, and the number of rows of each set there may be.
Filled(rows) == {i \in DOMAIN rows : rows[i] > 0}
PerSet(rows) == [set \in 1 .. MaxSets |-> IF set \in DOMAIN rows THEN rows[set] ELSE 0]

\* A handler with a cursor has gathered what the server had said.
Knows(h, c, s) ==
    LET rows == s.draft.rows
        columns == s.draft.columns
        n == Len(rows)
    IN /\ h.notices = s.draft.notices
       /\ h.resultIndex = IF n = 0 THEN 1 ELSE IF s.phase = "sets" THEN n + 1 ELSE n
       /\ h.current = IF Describing(s.phase) THEN columns[n] ELSE 0
       /\ h.metadata = IF Describing(s.phase) THEN SubSeq(columns, 1, n - 1) ELSE columns
       /\ c = "none" =>
             /\ Len(h.results) <= n
             /\ \A i \in 1 .. n : rows[i] = IF i <= Len(h.results) THEN h.results[i] ELSE 0
       /\ c # "none" /\ ~crashed => h.pushed = PerSet(rows)
       /\ c = "both" =>
             /\ h.metadataCalls = Cardinality(Filled(rows))
             /\ Describing(s.phase) => (h.metadataCalled <=> rows[n] > 0)

\* The requests from the b-th call on.
Requests(b) ==
    [i \in 1 .. Len(issued) - b + 1 |-> Message("request", issued[b + i - 1])]

InFlight(i) == i \in DOMAIN replies /\ replies[i].type = "AuthenticateContinue"

\* What the server, at the b-th call, has to read.
Awaiting(b) ==
    /\ \/ /\ requests = Requests(b)
          /\ phase = "wait" => \E i \in DOMAIN replies : InFlight(i)
       \/ /\ requests = Append(Requests(b), Message("continue", issued[b]))
          /\ phase = "wait" /\ b = Len(issued) /\ kind[issued[b]] = "authenticate"
          /\ \A i \in DOMAIN replies : ~InFlight(i)
    /\ \A i \in DOMAIN replies : InFlight(i) =>
          /\ phase = "wait" /\ b = Len(issued) /\ requests = Requests(b)
          /\ \A j \in DOMAIN replies : j > i => replies[j].type = "GlobalNotice"

\* Where the server is.
Located(now) ==
    /\ now.at \in 1 .. Len(issued) + 1 /\ now.phase = phase
    /\ now.at <= Len(issued) => now.draft = answer[issued[now.at]].result
    /\ now.at = Len(issued) + 1 => now = Beginning(now.at)
    /\ \A i \in 1 .. Len(issued) :
          /\ i < now.at => answer[issued[i]].status \in {"resolved", "error"}
          /\ i = now.at => answer[issued[i]].status \in {"pending", "sending"}
          /\ i > now.at => answer[issued[i]] = Pending

\* s[i] is where the server was when it sent the i-th reply under way, and the
\* last one is where it is.
Explains(s) ==
    /\ s \in Seq(States) /\ Len(s) = Len(replies) + 1
    /\ s[1].at = Answered + 1
    /\ Located(s[Len(s)])
    /\ Awaiting(s[Len(s)].at)
    /\ \A i \in 1 .. Len(replies) :
          /\ Says(s[i], replies[i], s[i + 1])
          /\ s[i].at \in 1 .. Len(issued) /\ s[i].at <= s[Len(s)].at
          /\ Ends(replies[i].type) => s[i].at < s[Len(s)].at
    /\ \A i \in 1 .. Len(s) : s[i].at <= Len(issued) => Shape(s[i], kind[issued[s[i].at]])
    /\ Answered < Len(issued) =>
          Knows(handler[issued[Answered + 1]], cursor[issued[Answered + 1]], s[1])

\* Nothing is known of a call before its reply begins, and authentication has
\* the connection to itself.
Quiet ==
    /\ \A o \in Ops : answer[o].status = "pending" => answer[o] = Pending
    /\ \A i \in 1 .. Len(issued) : i > Answered + 1 => handler[issued[i]] = NewHandler
    /\ \A o \in Ops : o \notin Issued => handler[o] = NewHandler /\ answer[o] = Pending
    /\ \A i \in 1 .. Len(issued) :
          i > Answered /\ kind[issued[i]] = "authenticate" =>
              i = Len(issued) /\ i = Answered + 1

\* A call has consumed its own messages, and is settled as the server decided.
Own(o) ==
    /\ handler[o].sources \subseteq {o}
    /\ outcome[o].status \in {"resolved", "error"} =>
          /\ outcome[o].status = answer[o].status
          /\ outcome[o].result.columns = answer[o].result.columns
          /\ outcome[o].result.notices = answer[o].result.notices
          /\ cursor[o] = "none" => outcome[o].result.rows = answer[o].result.rows
          /\ outcome[o].status = "resolved" =>
                /\ cursor[o] # "none" => handler[o].pushed = PerSet(answer[o].result.rows)
                /\ cursor[o] = "both" =>
                      handler[o].metadataCalls = Cardinality(Filled(answer[o].result.rows))

\* As long as the server has sent nothing the handlers do not know.
Pipe ==
    /\ closed \in {"no", "server"} => Quiet /\ \E s : Explains(s)
    /\ closed = "client" =>
          workQueue = <<>> /\ \A i \in DOMAIN replies : replies[i].type = "GlobalNotice"
    /\ closed \in {"handled", "gone"} => replies = <<>>
    /\ \A o \in Ops : Own(o)

PipeInv == Expected => Pipe

LEMMA BeginningType ==
    ASSUME NEW i \in Nat
    PROVE  Beginning(i) \in States
  BY NoResultType DEF Beginning, States, Phases

\* Before its reply begins, nothing is known of a call.
LEMMA BeginningKnown ==
    ASSUME NEW i, NEW k, NEW c
    PROVE  Shape(Beginning(i), k) /\ Knows(NewHandler, c, Beginning(i))
  <1>1. /\ Beginning(i).phase = "idle" /\ Beginning(i).draft.rows = <<>>
        /\ Beginning(i).draft.columns = <<>> /\ Beginning(i).draft.notices = 0
    BY DEF Beginning, NoResult
  <1>2. Len(<<>>) = 0 /\ DOMAIN <<>> = {}
    OBVIOUS
  <1>3. Filled(<<>>) = {} /\ PerSet(<<>>) = [set \in 1 .. MaxSets |-> 0]
    BY <1>2 DEF Filled, PerSet
  <1>4. Cardinality({}) = 0
    BY FS_EmptySet
  <1>5. 0 <= MaxSets /\ \A j \in 1 .. 0 : FALSE
    BY Bounds
  <1>6. Shape(Beginning(i), k)
    BY <1>1, <1>2, <1>5 DEF Shape
  <1>7. Knows(NewHandler, c, Beginning(i))
    BY <1>1, <1>2, <1>3, <1>4, <1>5 DEF Knows, NewHandler, Describing
  <1> QED
    BY <1>6, <1>7

LEMMA PipeInit == Init => PipeInv
  <1> SUFFICES ASSUME Init PROVE Pipe
    BY DEF PipeInv
  <1>1. /\ issued = <<>> /\ workQueue = <<>> /\ closed = "no" /\ replies = <<>>
        /\ requests = <<>> /\ phase = "idle"
        /\ \A o \in Ops : handler[o] = NewHandler /\ outcome[o] = Pending /\ answer[o] = Pending
    BY DEF Init
  <1>2. Answered = 0 /\ Len(issued) = 0 /\ Len(replies) = 0
    BY <1>1 DEF Answered
  <1>3. Quiet
    BY <1>1, <1>2 DEF Quiet
  <1> DEFINE s == <<Beginning(1)>>
  <1>4. s \in Seq(States) /\ Len(s) = 1 /\ s[1] = Beginning(1)
    BY BeginningType
  <1>5. Beginning(1).at = 1 /\ Beginning(1).phase = "idle"
    BY DEF Beginning
  <1> HIDE DEF s
  <1>6. Explains(s)
    <2>1. Requests(1) = <<>>
      BY <1>2 DEF Requests
    <2>2. Awaiting(1)
      BY <1>1, <2>1 DEF Awaiting
    <2>3. Located(s[1])
      BY <1>1, <1>2, <1>4, <1>5 DEF Located
    <2>4. /\ s[Len(s)] = Beginning(1) /\ Len(s) = Len(replies) + 1 /\ s[1].at = Answered + 1
          /\ ~(Answered < Len(issued)) /\ 1 .. Len(replies) = {}
          /\ \A i \in 1 .. Len(s) : ~(s[i].at <= Len(issued))
      BY <1>2, <1>4, <1>5
    <2> QED
      BY <1>4, <1>5, <2>2, <2>3, <2>4 DEF Explains
  <1>7. \A o \in Ops : Own(o)
    BY <1>1 DEF Own, NewHandler, Pending, Rejected
  <1> QED
    BY <1>1, <1>3, <1>6, <1>7 DEF Pipe

-----------------------------------------------------------------------------
(* The server's steps.                                                      *)

\* What was said stays said.
LEMMA SaysStill ==
    ASSUME NEW u, NEW m, NEW v, Says(u, m, v), issued'[u.at] = issued[u.at],
           kind'[issued[u.at]] = kind[issued[u.at]],
           Ends(m.type) => answer'[issued[u.at]] = answer[issued[u.at]]
    PROVE  Says(u, m, v)'
  <1>1. ASSUME NEW k, Ended(u, m.type, k, v) PROVE Ends(m.type)
    BY <1>1 DEF Ended, Ends
  <1> QED
    BY <1>1 DEF Says

\* Facts about sequences that are cited over and over.
LEMMA FunctionIsSequence ==
    ASSUME NEW S, NEW n \in Nat, NEW f \in [1 .. n -> S]
    PROVE  f \in Seq(S) /\ Len(f) = n
  OBVIOUS

LEMMA TailElements ==
    ASSUME NEW S, NEW q \in Seq(S), Len(q) >= 1
    PROVE  /\ Tail(q) \in Seq(S) /\ Len(Tail(q)) = Len(q) - 1
           /\ \A i \in 1 .. Len(q) - 1 : Tail(q)[i] = q[i + 1]
  OBVIOUS

\* What the server has to read begins with the call it is at.
LEMMA RequestsProperties ==
    ASSUME issued \in Seq(Ops), NEW b \in 1 .. Len(issued)
    PROVE  /\ Requests(b) \in Seq([type : {"request"}, op : Ops])
           /\ Len(Requests(b)) = Len(issued) - b + 1
           /\ Requests(b)[1] = Message("request", issued[b])
           /\ Tail(Requests(b)) = Requests(b + 1)
  <1>1. Len(issued) \in Nat /\ b \in Nat /\ b >= 1 /\ b <= Len(issued)
    OBVIOUS
  <1> DEFINE n == Len(issued) - b + 1
  <1>2. n \in Nat /\ n >= 1 /\ \A i \in 1 .. n : b + i - 1 \in 1 .. Len(issued)
    BY <1>1
  <1>3. \A j \in 1 .. Len(issued) : Message("request", issued[j]) \in [type : {"request"}, op : Ops]
    BY DEF Message
  <1>4. Requests(b) = [i \in 1 .. n |-> Message("request", issued[b + i - 1])]
    BY DEF Requests
  <1>5. Requests(b + 1) = [i \in 1 .. n - 1 |-> Message("request", issued[b + i])]
    <2>1. Len(issued) - (b + 1) + 1 = n - 1 /\ \A i \in 1 .. n - 1 : (b + 1) + i - 1 = b + i
      BY <1>1
    <2> QED
      BY <2>1 DEF Requests
  <1> HIDE DEF n
  <1>6. Requests(b) \in [1 .. n -> [type : {"request"}, op : Ops]]
    BY <1>2, <1>3, <1>4
  <1>7. Requests(b) \in Seq([type : {"request"}, op : Ops]) /\ Len(Requests(b)) = n
    BY <1>2, <1>6, FunctionIsSequence
  <1>8. Requests(b)[1] = Message("request", issued[b])
    BY <1>1, <1>2, <1>4
  <1>9. Tail(Requests(b)) = Requests(b + 1)
    <2>1. \A i \in 1 .. n - 1 : i + 1 \in 1 .. n /\ b + (i + 1) - 1 = b + i
                                /\ b + i \in 1 .. Len(issued)
      BY <1>1, <1>2
    <2>2. Requests(b + 1) \in [1 .. n - 1 -> [type : {"request"}, op : Ops]] /\ n - 1 \in Nat
      BY <1>2, <1>3, <1>5, <2>1
    <2>3. /\ Requests(b + 1) \in Seq([type : {"request"}, op : Ops])
          /\ Len(Requests(b + 1)) = n - 1
      BY <2>2, FunctionIsSequence
    <2>4. /\ Tail(Requests(b)) \in Seq([type : {"request"}, op : Ops])
          /\ Len(Tail(Requests(b))) = n - 1
          /\ \A i \in 1 .. n - 1 : Tail(Requests(b))[i] = Requests(b)[i + 1]
      BY <1>2, <1>7, TailElements
    <2>5. \A i \in 1 .. n - 1 : Requests(b)[i + 1] = Requests(b + 1)[i]
      BY <1>4, <1>5, <2>1
    <2> QED
      BY <2>3, <2>4, <2>5, SeqEqual
  <1> QED
    BY <1>7, <1>8, <1>9 DEF n

\* The server turns to the call it is at.
LEMMA ServingIt ==
    ASSUME Types, QueueInv, NEW s, Explains(s), CanReply
    PROVE  /\ s[Len(s)].at \in 1 .. Len(issued) /\ Serving = issued[s[Len(s)].at]
           /\ Serving \in Ops /\ ~Settled(Serving) /\ Draft = s[Len(s)].draft
           /\ s[Len(s)].at >= Answered + 1
           /\ Tail(requests) = Requests(s[Len(s)].at + 1) \/ Len(requests) > 1
           /\ Head(requests).type = "request"
  <1> DEFINE b == s[Len(s)].at
  <1>0. Len(s) \in Nat /\ Len(s) >= 1 /\ s \in Seq(States) /\ Len(s) = Len(replies) + 1
    BY DEF Explains, Types
  <1>1. b \in 1 .. Len(issued) + 1 /\ Len(issued) \in Nat
    BY DEF Explains, Located, QueueInv
  <1>2. requests # <<>>
    BY DEF CanReply
  <1> HIDE DEF b
  <1>3. b \in 1 .. Len(issued)
    <2> SUFFICES ASSUME b = Len(issued) + 1 PROVE FALSE
      BY <1>1
    <2>1. requests = Requests(b)
      BY <1>1 DEF Explains, Awaiting, b
    <2>2. Requests(b) = <<>>
      BY <1>1 DEF Requests
    <2> QED
      BY <1>2, <2>1, <2>2
  <1>4. /\ Requests(b) \in Seq([type : {"request"}, op : Ops])
        /\ Len(Requests(b)) = Len(issued) - b + 1
        /\ Requests(b)[1] = Message("request", issued[b])
        /\ Tail(Requests(b)) = Requests(b + 1)
    BY <1>1, <1>3, RequestsProperties DEF QueueInv
  <1>5. Head(requests) = Message("request", issued[b])
    <2>1. CASE requests = Requests(b)
      BY <1>3, <1>4, <2>1
    <2>2. CASE requests = Append(Requests(b), Message("continue", issued[b]))
      <3>1. Len(Requests(b)) >= 1 /\ Len(Requests(b)) \in Nat
        BY <1>3, <1>4
      <3>2. Append(Requests(b), Message("continue", issued[b]))[1] = Requests(b)[1]
        BY <1>4, <3>1
      <3> QED
        BY <1>4, <2>2, <3>2
    <2> QED
      BY <2>1, <2>2 DEF Explains, Awaiting, b
  <1>6. Serving = issued[b] /\ Head(requests).type = "request"
    BY <1>5 DEF Serving, Message
  <1>7. b >= Answered + 1
    <2>1. CASE Len(s) = 1
      BY <2>1, <1>1 DEF Explains, b, Answered, QueueInv
    <2>2. CASE Len(s) # 1
      <3>1. 1 \in 1 .. Len(replies)
        BY <1>0, <2>2
      <3>2. s[1].at <= b /\ s[1].at = Answered + 1
        BY <3>1 DEF Explains, b
      <3> QED
        BY <1>1, <3>2 DEF Answered, QueueInv
    <2> QED
      BY <2>1, <2>2
  <1>8. ~Settled(Serving) /\ Serving \in Ops
    <2>1. ~(b <= Answered) /\ issued[b] \in Ops
      BY <1>1, <1>3, <1>7 DEF Answered, QueueInv
    <2> QED
      BY <1>3, <1>6, <2>1 DEF QueueInv
  <1>9. Draft = s[Len(s)].draft
    BY <1>3, <1>6 DEF Explains, Located, Draft, b
  <1>10. Tail(requests) = Requests(b + 1) \/ Len(requests) > 1
    <2>1. CASE requests = Requests(b)
      BY <1>4, <2>1
    <2>2. CASE requests = Append(Requests(b), Message("continue", issued[b]))
      <3>1. Len(requests) = Len(Requests(b)) + 1
        BY <1>4, <2>2
      <3> QED
        BY <1>3, <1>4, <3>1
    <2> QED
      BY <2>1, <2>2 DEF Explains, Awaiting, b
  <1> QED
    BY <1>3, <1>6, <1>7, <1>8, <1>9, <1>10 DEF b

\* Another call is another name.
LEMMA OtherName ==
    ASSUME QueueInv, NEW i \in 1 .. Len(issued), NEW j \in 1 .. Len(issued)
    PROVE  issued[i] \in Ops /\ (issued[i] = issued[j] <=> i = j)
  BY DEF QueueInv

\* The server goes on with the same call.
LEMMA StillAt ==
    ASSUME Types, QueueInv, NEW now, Located(now), now.at \in 1 .. Len(issued),
           NEW t, NEW a, answer' = [answer EXCEPT ![issued[now.at]] = a], issued' = issued,
           t.at = now.at, t.phase = phase', t.draft = a.result,
           a.status \in {"pending", "sending"}
    PROVE  Located(t)'
  <1>1. /\ Len(issued) \in Nat /\ DOMAIN answer = Ops
        /\ \A i \in 1 .. Len(issued) : issued[i] \in Ops
        /\ \A i \in 1 .. Len(issued) : issued[i] = issued[now.at] <=> i = now.at
    BY OtherName DEF QueueInv, Types
  <1>2. \A i \in 1 .. Len(issued) :
           answer'[issued[i]] = IF i = now.at THEN a ELSE answer[issued[i]]
    BY <1>1
  <1>3. ~(now.at = Len(issued) + 1) /\ now.at \in 1 .. Len(issued) + 1
    BY <1>1
  <1> QED
    BY <1>1, <1>2, <1>3 DEF Located

\* The server turns to the next call.
LEMMA MovedOn ==
    ASSUME Types, QueueInv, NEW now, Located(now), now.at \in 1 .. Len(issued),
           NEW a, answer' = [answer EXCEPT ![issued[now.at]] = a], issued' = issued,
           phase' = "idle", a.status \in {"resolved", "error"}
    PROVE  Located(Beginning(now.at + 1))'
  <1> DEFINE b == now.at
             t == Beginning(b + 1)
  <1>1. /\ Len(issued) \in Nat /\ DOMAIN answer = Ops
        /\ \A i \in 1 .. Len(issued) : issued[i] \in Ops
        /\ \A i \in 1 .. Len(issued) : issued[i] = issued[b] <=> i = b
    BY OtherName DEF QueueInv, Types
  <1>2. \A i \in 1 .. Len(issued) :
           answer'[issued[i]] = IF i = b THEN a ELSE answer[issued[i]]
    BY <1>1
  <1>3. t.at = b + 1 /\ t.phase = "idle" /\ t.draft = NoResult
    BY DEF Beginning
  <1>4. b \in Nat /\ b >= 1 /\ b <= Len(issued)
    BY <1>1
  <1>5. b + 1 <= Len(issued) => answer[issued[b + 1]] = Pending
    BY <1>1, <1>4 DEF Located
  <1>6. b + 1 <= Len(issued) => answer'[issued[b + 1]].result = NoResult
    BY <1>1, <1>2, <1>4, <1>5 DEF Pending, Rejected
  <1>7. \A i \in 1 .. Len(issued) :
          /\ i < b + 1 => answer'[issued[i]].status \in {"resolved", "error"}
          /\ i = b + 1 => answer'[issued[i]].status \in {"pending", "sending"}
          /\ i > b + 1 => answer'[issued[i]] = Pending
    <2> TAKE i \in 1 .. Len(issued)
    <2>1. CASE i < b
      BY <1>2, <1>4, <2>1 DEF Located
    <2>2. CASE i = b
      BY <1>2, <1>4, <2>2
    <2>3. CASE i > b
      BY <1>2, <1>4, <2>3 DEF Located, Pending, Rejected
    <2> QED
      BY <1>4, <2>1, <2>2, <2>3
  <1>8. t = Beginning(t.at)
    BY <1>3
  <1> HIDE DEF t
  <1> QED
    BY <1>1, <1>3, <1>4, <1>6, <1>7, <1>8 DEF Located, t

\* Another reply is under way, and the server is at t.
LEMMA ReplyKeeps ==
    ASSUME Types, QueueInv, Quiet, NEW s, Explains(s), CanReply,
           NEW m, replies' = Append(replies, m), NEW t \in States,
           NEW a, answer' = [answer EXCEPT ![Serving] = a],
           a.status = "pending" => a = Pending,
           UNCHANGED clientVars,
           Says(s[Len(s)], m, t)', Located(t)', Awaiting(t.at)',
           t.at \in {s[Len(s)].at, s[Len(s)].at + 1},
           Ends(m.type) => t.at = s[Len(s)].at + 1,
           t.at <= Len(issued) => Shape(t, kind[issued[t.at]])
    PROVE  Quiet' /\ Explains(Append(s, t))'
  <1> DEFINE b == s[Len(s)].at
             n == Len(replies)
             q == Append(s, t)
  <1> PICK p : p = Append(replies, m)
    OBVIOUS
  <1>1. /\ s \in Seq(States) /\ Len(s) = n + 1 /\ n \in Nat /\ replies \in Seq(Messages)
        /\ s[1].at = Answered + 1
    BY DEF Explains, Types
  <1>2. UNCHANGED <<issued, kind, cursor, workQueue, handler, outcome, crashed>>
    BY DEF clientVars
  <1>3. /\ b \in 1 .. Len(issued) /\ Serving = issued[b] /\ Serving \in Ops /\ ~Settled(Serving)
        /\ b \in Nat /\ Len(issued) \in Nat /\ b <= Len(issued)
    <2>1. b \in 1 .. Len(issued) /\ Serving = issued[b] /\ Serving \in Ops /\ ~Settled(Serving)
      BY ServingIt
    <2> QED
      BY <2>1 DEF QueueInv
  <1>4. Answered' = Answered
    BY <1>2 DEF Answered
  <1>5. \A o \in Ops : o # Serving => answer'[o] = answer[o]
    BY DEF Types
  <1>6. /\ q \in Seq(States) /\ Len(q) = n + 2 /\ q[n + 2] = t /\ q[n + 1] = s[n + 1]
        /\ \A i \in 1 .. n + 1 : q[i] = s[i]
    BY <1>1
  <1>7. /\ Len(p) = n + 1 /\ p[n + 1] = m /\ \A i \in 1 .. n : p[i] = replies[i]
    BY <1>1
  <1>8. /\ \A i \in 1 .. n :
              /\ Says(s[i], replies[i], s[i + 1])
              /\ s[i].at \in 1 .. Len(issued) /\ s[i].at <= b
              /\ Ends(replies[i].type) => s[i].at < b
        /\ \A i \in 1 .. Len(s) : s[i].at <= Len(issued) => Shape(s[i], kind[issued[s[i].at]])
    BY DEF Explains
  <1>9. s[n + 1].at = b
    BY <1>1
  <1> HIDE DEF b, q
  <1>10. Quiet'
    <2>1. \A o \in Ops : answer'[o].status = "pending" => answer'[o] = Pending
      BY <1>3, <1>5 DEF Quiet, Types
    <2>2. \A o \in Ops : o \notin Issued => o # Serving
      BY <1>3 DEF Issued
    <2>3. Issued' = Issued
      BY <1>2 DEF Issued
    <2> QED
      BY <1>2, <1>4, <1>5, <2>1, <2>2, <2>3 DEF Quiet
  <1>11. \A i \in 1 .. n + 1 :
            /\ Says(q[i], p[i], q[i + 1])'
            /\ q[i].at \in 1 .. Len(issued) /\ q[i].at <= t.at
            /\ Ends(p[i].type) => q[i].at < t.at
    <2> TAKE i \in 1 .. n + 1
    <2>1. CASE i = n + 1
      <3>1. q[i] = s[n + 1] /\ p[i] = m /\ q[i + 1] = t
        BY <1>1, <1>6, <1>7, <2>1
      <3>2. Says(q[i], p[i], q[i + 1])'
        <4>1. s[n + 1] = s[Len(s)]
          BY <1>1
        <4> QED
          BY <3>1, <4>1
      <3>3. q[i].at = b /\ b \in 1 .. Len(issued) /\ b <= t.at /\ (Ends(m.type) => b < t.at)
        BY <1>3, <1>9, <3>1 DEF b
      <3> QED
        BY <3>1, <3>2, <3>3
    <2>2. CASE i \in 1 .. n
      <3>0. PICK r : r = replies[i]
        OBVIOUS
      <3>1. q[i] = s[i] /\ p[i] = r /\ q[i + 1] = s[i + 1]
        BY <1>1, <1>6, <1>7, <2>2, <3>0
      <3>2. /\ Says(s[i], r, s[i + 1])
            /\ s[i].at \in 1 .. Len(issued) /\ s[i].at <= b
            /\ Ends(r.type) => s[i].at < b
        BY <1>8, <2>2, <3>0
      <3>3. Ends(r.type) => answer'[issued[s[i].at]] = answer[issued[s[i].at]]
        BY <1>3, <1>5, <3>2, OtherName
      <3>4. Says(s[i], r, s[i + 1])'
        BY <1>2, <3>2, <3>3, SaysStill
      <3>5. s[i].at <= t.at /\ (Ends(r.type) => s[i].at < t.at)
        BY <1>3, <3>2 DEF b
      <3> QED
        BY <3>1, <3>2, <3>4, <3>5
    <2> QED
      BY <1>1, <2>1, <2>2
  <1>12. \A i \in 1 .. n + 2 : q[i].at <= Len(issued) => Shape(q[i], kind[issued[q[i].at]])
    <2> TAKE i \in 1 .. n + 2
    <2>1. CASE i = n + 2
      BY <1>6, <2>1
    <2>2. CASE i \in 1 .. n + 1
      BY <1>1, <1>6, <1>8, <2>2
    <2> QED
      BY <1>1, <2>1, <2>2
  <1>13. q[1] = s[1]
    BY <1>1, <1>6
  <1>14. Explains(q)'
    <2>1. /\ replies' = p /\ issued' = issued /\ kind' = kind /\ handler' = handler
          /\ cursor' = cursor /\ crashed' = crashed
      BY <1>2
    <2>2. q[Len(q)] = t /\ Len(p) = n + 1 /\ Len(q) = Len(p) + 1
      BY <1>1, <1>6, <1>7
    <2>3. (Answered < Len(issued) =>
              Knows(handler[issued[Answered + 1]], cursor[issued[Answered + 1]], q[1]))'
      <3>1. Answered < Len(issued) =>
               Knows(handler[issued[Answered + 1]], cursor[issued[Answered + 1]], s[1])
        BY DEF Explains
      <3> QED
        BY <1>4, <1>13, <2>1, <3>1 DEF Knows
    <2> QED
      BY <1>1, <1>4, <1>6, <1>11, <1>12, <1>13, <2>1, <2>2, <2>3 DEF Explains
  <1> QED
    BY <1>10, <1>14 DEF q

\* What a server that can reply has read.
LEMMA Reading ==
    ASSUME Types, QueueInv, NEW s, Explains(s), CanReply
    PROVE  LET b == s[Len(s)].at
           IN /\ phase # "wait" =>
                    /\ requests = Requests(b) /\ Tail(requests) = Requests(b + 1)
                    /\ \A i \in DOMAIN replies : ~InFlight(i)
              /\ phase = "wait" => b = Len(issued) /\ kind[issued[b]] = "authenticate"
              /\ phase = "wait" /\ Len(requests) > 1 =>
                    /\ Tail(Tail(requests)) = Requests(b + 1)
                    /\ \A i \in DOMAIN replies : ~InFlight(i)
  <1> DEFINE b == s[Len(s)].at
  <1>1. /\ b \in 1 .. Len(issued) /\ Awaiting(b) /\ b \in Nat /\ Len(issued) \in Nat
        /\ Located(s[Len(s)])
    <2>1. b \in 1 .. Len(issued)
      BY ServingIt
    <2> QED
      BY <2>1 DEF Explains, QueueInv
  <1>2. Shape(s[Len(s)], kind[issued[b]]) /\ kind[issued[b]] \in AllKinds /\ s[Len(s)].phase = phase
    <2>1. Len(s) \in 1 .. Len(s) /\ b <= Len(issued) /\ issued[b] \in Ops
      BY <1>1 DEF Explains, Types, QueueInv
    <2> QED
      BY <1>1, <2>1 DEF Explains, Types, Located
  <1> HIDE DEF b
  <1>3. /\ Requests(b) \in Seq([type : {"request"}, op : Ops])
        /\ Len(Requests(b)) = Len(issued) - b + 1
        /\ Tail(Requests(b)) = Requests(b + 1)
    BY <1>1, RequestsProperties DEF QueueInv
  <1>4. CASE phase # "wait"
    BY <1>1, <1>3, <1>4 DEF Awaiting, b
  <1>5. CASE phase = "wait"
    <2>1. b = Len(issued)
      BY <1>1, <1>5 DEF Awaiting
    <2>2. kind[issued[b]] = "authenticate"
      BY <1>2, <1>5 DEF Shape, AllKinds
    <2>3. ASSUME Len(requests) > 1
          PROVE  /\ Tail(Tail(requests)) = Requests(b + 1)
                 /\ \A i \in DOMAIN replies : ~InFlight(i)
      <3>1. Len(Requests(b)) = 1
        BY <1>1, <1>3, <2>1
      <3>2. /\ requests = Append(Requests(b), Message("continue", issued[b]))
            /\ \A i \in DOMAIN replies : ~InFlight(i)
        <4>1. ASSUME requests = Requests(b) PROVE FALSE
          <5>1. Len(requests) = Len(Requests(b))
            BY <4>1
          <5>2. Len(requests) = 1
            BY <3>1, <5>1
          <5> QED
            BY <2>3, <5>2
        <4> QED
          BY <1>1, <4>1 DEF Awaiting
      <3>3. Len(requests) = 2 /\ requests \in Seq([type : {"request", "continue"}, op : Ops])
        BY <1>3, <3>1, <3>2 DEF Types
      <3>4. /\ Tail(Tail(requests)) \in Seq([type : {"request", "continue"}, op : Ops])
            /\ Len(Tail(Tail(requests))) = 0
        BY <3>3, TwoTaken
      <3>5. Tail(Tail(requests)) = <<>>
        BY <3>4, EmptySeq
      <3>6. Requests(b + 1) = <<>>
        BY <1>1, <2>1 DEF Requests
      <3> QED
        BY <3>2, <3>5, <3>6
    <2> QED
      BY <1>5, <2>1, <2>2, <2>3 DEF b
  <1> QED
    BY <1>4, <1>5

\* What the new reply does to what has to be read.
LEMMA AwaitingStep ==
    ASSUME NEW b, Awaiting(b), replies \in Seq(Messages), NEW m, replies' = Append(replies, m),
           issued' = issued, kind' = kind
    PROVE  /\ m.type = "GlobalNotice" /\ requests' = requests /\ phase' = phase => Awaiting(b)'
           /\ /\ \A i \in DOMAIN replies : ~InFlight(i)
              /\ m.type # "AuthenticateContinue"
              => /\ requests' = requests /\ (phase' = "wait" <=> phase = "wait") => Awaiting(b)'
                 /\ requests' = Requests(b + 1) /\ phase' # "wait" => Awaiting(b + 1)'
           /\ /\ \A i \in DOMAIN replies : ~InFlight(i)
              /\ m.type = "AuthenticateContinue" /\ phase # "wait" /\ phase' = "wait"
              /\ requests' = requests /\ b = Len(issued)
              => Awaiting(b)'
  <1>0. PICK n : n = Len(replies)
    OBVIOUS
  <1>1. /\ DOMAIN replies = 1 .. n /\ DOMAIN replies' = 1 .. n + 1
        /\ n \in Nat
        /\ \A i \in 1 .. n : replies'[i] = replies[i]
        /\ replies'[n + 1] = m
    BY <1>0
  <1>2. Requests(b)' = Requests(b) /\ Requests(b + 1)' = Requests(b + 1)
    BY DEF Requests
  <1>3. \A i \in 1 .. n : InFlight(i)' <=> InFlight(i)
    BY <1>1 DEF InFlight
  <1>4. InFlight(n + 1)' <=> m.type = "AuthenticateContinue"
    <2>1. n + 1 \in DOMAIN replies'
      BY <1>1
    <2> QED
      BY <1>1, <2>1 DEF InFlight
  <1>5. ASSUME m.type = "GlobalNotice", requests' = requests, phase' = phase
        PROVE  Awaiting(b)'
    <2>1. (\E i \in DOMAIN replies : InFlight(i)) => (\E i \in DOMAIN replies : InFlight(i))'
      BY <1>1, <1>3
    <2>2. (\A i \in DOMAIN replies : ~InFlight(i)) => (\A i \in DOMAIN replies : ~InFlight(i))'
      BY <1>1, <1>3, <1>4, <1>5
    <2>3. ASSUME NEW i \in DOMAIN replies', InFlight(i)'
          PROVE  /\ phase = "wait" /\ b = Len(issued) /\ requests = Requests(b)
                 /\ \A j \in DOMAIN replies' : j > i => replies'[j].type = "GlobalNotice"
      <3>1. i \in 1 .. n /\ InFlight(i)
        BY <1>1, <1>3, <1>4, <1>5, <2>3
      <3> QED
        BY <1>1, <1>5, <3>1 DEF Awaiting
    <2> QED
      BY <1>2, <1>5, <2>1, <2>2, <2>3 DEF Awaiting
  <1>6. ASSUME \A i \in DOMAIN replies : ~InFlight(i), m.type # "AuthenticateContinue"
        PROVE  (\A i \in DOMAIN replies : ~InFlight(i))'
    BY <1>1, <1>3, <1>4, <1>6
  <1>7. ASSUME \A i \in DOMAIN replies : ~InFlight(i), m.type # "AuthenticateContinue",
               requests' = requests, phase' = "wait" <=> phase = "wait"
        PROVE  Awaiting(b)'
    BY <1>2, <1>6, <1>7 DEF Awaiting
  <1>8. ASSUME \A i \in DOMAIN replies : ~InFlight(i), m.type # "AuthenticateContinue",
               requests' = Requests(b + 1), phase' # "wait"
        PROVE  Awaiting(b + 1)'
    BY <1>2, <1>6, <1>8 DEF Awaiting
  <1>9. ASSUME \A i \in DOMAIN replies : ~InFlight(i), m.type = "AuthenticateContinue",
               phase # "wait", phase' = "wait", requests' = requests, b = Len(issued)
        PROVE  Awaiting(b)'
    <2>1. InFlight(n + 1)' /\ n + 1 \in DOMAIN replies'
      BY <1>1, <1>4, <1>9
    <2>2. \A i \in DOMAIN replies' : InFlight(i)' => i = n + 1
      BY <1>1, <1>3, <1>9
    <2>3. requests = Requests(b)
      BY <1>9 DEF Awaiting
    <2>4. \A j \in DOMAIN replies' : ~(j > n + 1)
      BY <1>1
    <2> QED
      BY <1>2, <1>9, <2>1, <2>2, <2>3, <2>4 DEF Awaiting
  <1> QED
    BY <1>5, <1>7, <1>8, <1>9

\* The reply goes on.
LEMMA GoesOn ==
    ASSUME Types, QueueInv, Quiet, NEW s, Explains(s), CanReply,
           NEW type, ~Ends(type), NEW t \in States, t.at = s[Len(s)].at,
           replies' = Append(replies, Message(type, Serving)),
           phase' = t.phase,
           NEW a, answer' = [answer EXCEPT ![Serving] = a], a.result = t.draft,
           a.status \in {"pending", "sending"}, a.status = "pending" => a = Pending,
           UNCHANGED clientVars,
           \/ type \in {"GlobalNotice", "Other"} /\ t = s[Len(s)]
           \/ Continued(s[Len(s)], type, kind[Serving], t),
           Shape(t, kind[Serving]), Awaiting(t.at)'
    PROVE  Quiet' /\ \E q : Explains(q)'
  <1>1. PICK now : now = s[Len(s)]
    OBVIOUS
  <1>2. PICK m : m = Message(type, Serving)
    OBVIOUS
  <1>3. /\ now.at \in 1 .. Len(issued) /\ Serving = issued[now.at] /\ Located(now)
        /\ now.at <= Len(issued)
    <2>1. now.at \in 1 .. Len(issued) /\ Serving = issued[now.at]
      BY <1>1, ServingIt
    <2> QED
      BY <1>1, <2>1 DEF Explains, QueueInv
  <1>4. UNCHANGED <<issued, kind>>
    BY DEF clientVars
  <1>5. m.type = type /\ m.op = issued[now.at]
    BY <1>2, <1>3 DEF Message
  <1>6. Says(now, m, t)'
    BY <1>1, <1>3, <1>4, <1>5 DEF Says
  <1>7. Located(t)'
    BY <1>1, <1>3, <1>4, StillAt
  <1> QED
    BY <1>1, <1>2, <1>3, <1>5, <1>6, <1>7, ReplyKeeps

\* The reply ends.
LEMMA Finishes ==
    ASSUME Types, QueueInv, Quiet, NEW s, Explains(s), CanReply,
           NEW type,
           replies' = Append(replies, Message(type, Serving)), phase' = "idle",
           requests' = Requests(s[Len(s)].at + 1),
           answer' = [answer EXCEPT ![Serving] = Decided(s[Len(s)], type)],
           UNCHANGED clientVars,
           Ended(s[Len(s)], type, kind[Serving], Beginning(s[Len(s)].at + 1)),
           \A i \in DOMAIN replies : ~InFlight(i)
    PROVE  Quiet' /\ \E q : Explains(q)'
  <1>1. PICK now : now = s[Len(s)]
    OBVIOUS
  <1>2. PICK m : m = Message(type, Serving)
    OBVIOUS
  <1>3. PICK t : t = Beginning(now.at + 1)
    OBVIOUS
  <1>4. PICK a : a = Decided(now, type)
    OBVIOUS
  <1>5. /\ now.at \in 1 .. Len(issued) /\ Serving = issued[now.at] /\ Located(now)
        /\ Awaiting(now.at) /\ Serving \in Ops
    <2>1. now.at \in 1 .. Len(issued) /\ Serving = issued[now.at] /\ Serving \in Ops
      BY <1>1, ServingIt
    <2> QED
      BY <1>1, <2>1 DEF Explains
  <1>6. UNCHANGED <<issued, kind>>
    BY DEF clientVars
  <1>7. m.type = type /\ m.op = issued[now.at]
    BY <1>2, <1>5 DEF Message
  <1>8. Ends(type) /\ type # "AuthenticateContinue"
    BY DEF Ended, Ends
  <1>9. answer'[issued[now.at]] = a
    BY <1>1, <1>4, <1>5 DEF Types
  <1>10. Says(now, m, t)'
    BY <1>1, <1>3, <1>4, <1>5, <1>6, <1>7, <1>9 DEF Says
  <1>11. a.status \in {"resolved", "error"}
    BY <1>4 DEF Decided, Rejected, Fulfilled
  <1>12. Located(t)'
    BY <1>1, <1>3, <1>4, <1>5, <1>6, <1>11, MovedOn
  <1>13. t.at = now.at + 1 /\ t \in States
    <2>1. now.at + 1 \in Nat
      BY <1>5
    <2> QED
      BY <1>3, <2>1, BeginningType DEF Beginning
  <1>14. Awaiting(t.at)'
    <2>1. Awaiting(now.at + 1)'
      BY <1>1, <1>2, <1>5, <1>6, <1>7, <1>8, AwaitingStep DEF Types
    <2> QED
      BY <1>13, <2>1
  <1>15. t.at <= Len(issued) => Shape(t, kind[issued[t.at]])
    BY <1>3, <1>5, BeginningKnown
  <1> QED
    BY <1>1, <1>2, <1>4, <1>7, <1>8, <1>10, <1>11, <1>12, <1>13, <1>14, <1>15, ReplyKeeps

\* What a server that can reply knows of the call it serves.
LEMMA ServingNow ==
    ASSUME Types, QueueInv, Quiet, NEW s, Explains(s), CanReply
    PROVE  LET now == s[Len(s)]
           IN /\ now \in States /\ now.phase = phase /\ now.draft = answer[Serving].result
              /\ Shape(now, kind[Serving]) /\ kind[Serving] \in AllKinds
              /\ answer[Serving].status \in {"pending", "sending"}
              /\ answer[Serving].status = "pending" => answer[Serving] = Pending
              /\ answer = [answer EXCEPT ![Serving] = answer[Serving]]
              /\ kind[Serving] = "authenticate" => now.at = Len(issued)
  <1> DEFINE now == s[Len(s)]
  <1>1. /\ now.at \in 1 .. Len(issued) /\ Serving = issued[now.at] /\ Serving \in Ops
        /\ now.at >= Answered + 1 /\ Draft = now.draft
    BY ServingIt
  <1>2. Len(s) \in 1 .. Len(s) /\ now \in States /\ Located(now) /\ now.at <= Len(issued)
    BY <1>1 DEF Explains, Types, QueueInv
  <1>3. Shape(now, kind[Serving])
    BY <1>1, <1>2 DEF Explains
  <1> HIDE DEF now
  <1>4. now.phase = phase /\ answer[Serving].status \in {"pending", "sending"}
    BY <1>1, <1>2 DEF Located
  <1>5. kind[Serving] = "authenticate" => now.at = Len(issued)
    <2>1. now.at > Answered
      BY <1>1 DEF QueueInv, Answered
    <2> QED
      BY <1>1, <2>1 DEF Quiet
  <1>6. /\ kind[Serving] \in AllKinds
        /\ answer = [answer EXCEPT ![Serving] = answer[Serving]]
        /\ answer[Serving].status = "pending" => answer[Serving] = Pending
    BY <1>1 DEF Types, Quiet
  <1> QED
    BY <1>1, <1>2, <1>3, <1>4, <1>5, <1>6 DEF now, Draft

\* A part of a result leads to a state that makes sense.
LEMMA DescribesShape ==
    ASSUME NEW now \in States, NEW type, NEW t, Describes(now, type, t), Shape(now, "result")
    PROVE  Shape(t, "result") /\ t.draft \in Results /\ t.phase \in Phases \ {"idle", "wait"}
  <1>1. /\ now.draft \in Results /\ now.draft.rows \in Seq(Nat) /\ now.draft.columns \in Seq(Nat)
        /\ MaxSets \in Nat
    BY Bounds DEF States, Results
  <1> DEFINE n == Len(now.draft.rows)
  <1>2. n \in Nat /\ Len(now.draft.columns) = n /\ n <= MaxSets
    BY <1>1 DEF Shape
  <1>3. t.draft \in Results
    BY <1>1, DraftTypes DEF Describes
  <1>4. Describing(now.phase) => n >= 1
    BY DEF Describing, Shape
  <1>5. t.phase \in Phases \ {"idle", "wait"}
    BY DEF Describes, Phases
  <1>6. Shape(t, "result")
    <2>1. ASSUME type = "ColumnMetaData", n < MaxSets, t.phase = "columns",
                 t.draft = [now.draft EXCEPT !.columns = Append(@, 1), !.rows = Append(@, 0)]
          PROVE  Shape(t, "result")
      <3>1. t.draft.rows = Append(now.draft.rows, 0) /\ t.draft.columns = Append(now.draft.columns, 1)
        BY <1>1, <2>1 DEF Results
      <3>2. /\ Len(t.draft.rows) = n + 1 /\ Len(t.draft.columns) = n + 1
            /\ t.draft.rows[n + 1] = 0
        <4>1. PICK r \in Seq(Nat), c \in Seq(Nat) : r = now.draft.rows /\ c = now.draft.columns
          BY <1>1
        <4>2. /\ Len(Append(r, 0)) = Len(r) + 1 /\ Len(Append(c, 1)) = Len(c) + 1
              /\ Append(r, 0)[Len(r) + 1] = 0
          OBVIOUS
        <4>3. Len(r) = n /\ Len(c) = n
          BY <1>2, <4>1
        <4> QED
          BY <3>1, <4>1, <4>2, <4>3
      <3> QED
        BY <1>1, <1>2, <2>1, <3>2 DEF Shape
    <2>2. ASSUME now.phase = "columns", t.phase = "columns",
                 t.draft = [now.draft EXCEPT !.columns = AddTo(@)]
          PROVE  Shape(t, "result")
      <3>1. t.draft.rows = now.draft.rows /\ t.draft.columns = AddTo(now.draft.columns)
        BY <1>1, <2>2 DEF Results
      <3>2. Len(t.draft.columns) = n
        BY <1>1, <1>2, <3>1, AddToProperties
      <3> QED
        BY <1>2, <2>2, <3>1, <3>2 DEF Shape
    <2>3. ASSUME Describing(now.phase), t.phase = "rows",
                 t.draft = [now.draft EXCEPT !.rows = AddTo(@)]
          PROVE  Shape(t, "result")
      <3>1. t.draft.columns = now.draft.columns /\ t.draft.rows = AddTo(now.draft.rows)
        BY <1>1, <2>3 DEF Results
      <3>2. Len(t.draft.rows) = n
        BY <1>1, <3>1, AddToProperties
      <3> QED
        BY <1>2, <1>4, <2>3, <3>1, <3>2 DEF Shape
    <2>4. ASSUME Describing(now.phase), t.phase \in {"done", "sets"}, t.draft = now.draft
          PROVE  Shape(t, "result")
      BY <1>2, <1>4, <2>4 DEF Shape
    <2> QED
      BY <2>1, <2>2, <2>3, <2>4 DEF Describes
  <1> QED
    BY <1>3, <1>5, <1>6

\* The server goes on with a result.
LEMMA ResultGoesOn ==
    ASSUME Types, QueueInv, Quiet, NEW s, Explains(s), Request("result"),
           NEW type, type # "AuthenticateContinue", ~Ends(type), NEW p \in Phases \ {"wait"},
           NEW d \in Results, Continues(type, p, d),
           LET t == [at |-> s[Len(s)].at, phase |-> p, draft |-> d]
           IN Continued(s[Len(s)], type, "result", t) /\ Shape(t, "result")
    PROVE  Quiet' /\ \E q : Explains(q)'
  <1>1. PICK now : now = s[Len(s)]
    OBVIOUS
  <1>2. PICK t : t = [at |-> now.at, phase |-> p, draft |-> d]
    OBVIOUS
  <1>3. PICK a : a = [status |-> "sending", result |-> d]
    OBVIOUS
  <1>4. CanReply /\ kind[Serving] = "result"
    BY DEF Request
  <1>5. now.phase = phase /\ Shape(now, "result") /\ now \in States
    BY <1>1, <1>4, ServingNow
  <1>6. phase # "wait"
    BY <1>5 DEF Shape
  <1>7. (\A i \in DOMAIN replies : ~InFlight(i)) /\ Awaiting(now.at)
    BY <1>1, <1>4, <1>6, Reading DEF Explains
  <1>8. /\ replies' = Append(replies, Message(type, Serving)) /\ phase' = p
        /\ answer' = [answer EXCEPT ![Serving] = a] /\ requests' = requests
        /\ UNCHANGED clientVars
    BY <1>3 DEF Continues, Reply, Sending
  <1>9. t \in States /\ t.at = now.at /\ t.phase = p /\ t.draft = d
    BY <1>2, <1>5 DEF States
  <1>10. Awaiting(t.at)'
    <2>1. PICK m : m = Message(type, Serving)
      OBVIOUS
    <2>2. m.type = type /\ replies' = Append(replies, m) /\ issued' = issued /\ kind' = kind
      BY <1>8, <2>1 DEF Message, clientVars
    <2>3. replies \in Seq(Messages) /\ (phase' = "wait" <=> phase = "wait")
      BY <1>6, <1>8 DEF Types
    <2>4. Awaiting(now.at)'
      BY <1>7, <1>8, <2>2, <2>3, AwaitingStep
    <2> QED
      BY <1>9, <2>4
  <1>11. a.result = t.draft /\ a.status = "sending"
    BY <1>3, <1>9
  <1>12. Continued(now, type, kind[Serving], t) /\ Shape(t, kind[Serving])
    BY <1>1, <1>2, <1>4
  <1> QED
    BY <1>1, <1>4, <1>8, <1>9, <1>10, <1>11, <1>12, GoesOn

\* One more column, of a new set or of the one that is described.
LEMMA Column ==
    ASSUME Types, QueueInv, Quiet, NEW s, Explains(s),
           ServerColumn \/ ServerRow \/ ServerFetchDone
    PROVE  Quiet' /\ \E q : Explains(q)'
  <1>1. PICK now : now = s[Len(s)]
    OBVIOUS
  <1>2. Request("result") /\ CanReply /\ kind[Serving] = "result"
    BY DEF ServerColumn, ServerRow, ServerFetchDone, Request
  <1>3. now.phase = phase /\ Shape(now, "result") /\ now \in States /\ now.draft = Draft
    BY <1>1, <1>2, ServingNow DEF Draft
  <1>4. \E type, p, d : /\ Continues(type, p, d)
                        /\ Describes(now, type, [at |-> now.at, phase |-> p, draft |-> d])
    <2>1. CASE ServerColumn
      <3>1. CASE /\ phase \in {"idle", "sets"} /\ Len(Draft.columns) < MaxSets
                 /\ Continues("ColumnMetaData", "columns",
                        [Draft EXCEPT !.columns = Append(@, 1), !.rows = Append(@, 0)])
        <4>1. Len(now.draft.rows) < MaxSets
          BY <1>3, <3>1 DEF Shape
        <4> QED
          BY <1>3, <3>1, <4>1 DEF Describes
      <3>2. CASE /\ phase = "columns"
                 /\ Continues("ColumnMetaData", "columns", [Draft EXCEPT !.columns = AddTo(@)])
        BY <1>3, <3>2 DEF Describes
      <3> QED
        BY <2>1, <3>1, <3>2 DEF ServerColumn
    <2>2. CASE ServerRow
      BY <1>3, <2>2 DEF ServerRow, Describes, Describing
    <2>3. CASE ServerFetchDone
      BY <1>3, <2>3 DEF ServerFetchDone, Describes, Describing
    <2> QED
      BY <2>1, <2>2, <2>3
  <1>5. PICK type, p, d : /\ Continues(type, p, d)
                          /\ Describes(now, type, [at |-> now.at, phase |-> p, draft |-> d])
    BY <1>4
  <1>6. PICK t : t = [at |-> now.at, phase |-> p, draft |-> d]
    OBVIOUS
  <1>7. Shape(t, "result") /\ d \in Results /\ p \in Phases \ {"wait"}
    BY <1>3, <1>5, <1>6, DescribesShape
  <1>8. type # "AuthenticateContinue" /\ ~Ends(type)
    BY <1>5 DEF Describes, Ends
  <1>9. Continued(now, type, "result", t)
    BY <1>5, <1>6 DEF Continued
  <1> QED
    BY <1>1, <1>2, <1>5, <1>6, <1>7, <1>8, <1>9, ResultGoesOn

\* A notice leaves the sets of a result as they are.
LEMMA NoticeShape ==
    ASSUME NEW now \in States, NEW k \in {"result", "authenticate"}, Shape(now, k),
           NEW t, t.phase = now.phase, t.draft = [now.draft EXCEPT !.notices = 1]
    PROVE  Shape(t, k) /\ t.draft \in Results
  <1>1. now.draft \in Results
    BY DEF States
  <1>2. t.draft.rows = now.draft.rows /\ t.draft.columns = now.draft.columns
    BY <1>1 DEF Results
  <1>3. Shape(t, k)
    BY <1>2 DEF Shape
  <1> QED
    BY <1>1, <1>3, DraftTypes

\* A notice about a call, or a global one, or one the client does not know.
LEMMA NoticeKeeps ==
    ASSUME Types, QueueInv, Quiet, NEW s, Explains(s),
           ServerNotice \/ ServerGlobalNotice \/ ServerOther
    PROVE  Quiet' /\ \E q : Explains(q)'
  <1>1. PICK now : now = s[Len(s)]
    OBVIOUS
  <1>2. CanReply
    BY DEF ServerNotice, ServerGlobalNotice, ServerOther, Request
  <1>3. /\ now.phase = phase /\ Shape(now, kind[Serving]) /\ now \in States
        /\ now.draft = Draft /\ now.draft = answer[Serving].result
        /\ answer[Serving].status \in {"pending", "sending"}
        /\ answer[Serving].status = "pending" => answer[Serving] = Pending
        /\ answer = [answer EXCEPT ![Serving] = answer[Serving]]
    BY <1>1, <1>2, ServingNow DEF Draft
  <1>4. Awaiting(now.at) /\ replies \in Seq(Messages)
    BY <1>1 DEF Explains, Types
  <1>5. CASE Request("result") /\ ServerNotice
    <2>1. PICK d : d = [now.draft EXCEPT !.notices = 1]
      OBVIOUS
    <2>2. PICK t : t = [at |-> now.at, phase |-> phase, draft |-> d]
      OBVIOUS
    <2>3. kind[Serving] = "result" /\ now.draft.notices = 0 /\ Continues("Notice", phase, d)
      BY <1>3, <1>5, <2>1 DEF ServerNotice, Request
    <2>4. Shape(t, "result") /\ d \in Results /\ phase \in Phases \ {"wait"}
      <3>1. phase \in Phases \ {"wait"}
        BY <1>3, <2>3 DEF Types, Shape
      <3> QED
        BY <1>3, <2>1, <2>2, <2>3, <3>1, NoticeShape
    <2>5. Continued(now, "Notice", "result", t)
      BY <1>3, <2>1, <2>2, <2>3 DEF Continued
    <2>6. ~Ends("Notice")
      BY DEF Ends
    <2> QED
      BY <1>1, <1>5, <2>2, <2>3, <2>4, <2>5, <2>6, ResultGoesOn
  <1>6. CASE ~Request("result") /\ ServerNotice
    <2>1. PICK d : d = [now.draft EXCEPT !.notices = 1]
      OBVIOUS
    <2>2. PICK t : t = [at |-> now.at, phase |-> phase, draft |-> d]
      OBVIOUS
    <2>3. PICK a : a = [status |-> "sending", result |-> d]
      OBVIOUS
    <2>4. /\ kind[Serving] = "authenticate" /\ now.draft.notices = 0 /\ phase = "wait"
          /\ Len(requests) > 1
          /\ replies' = Append(replies, Message("Notice", Serving)) /\ phase' = phase
          /\ answer' = [answer EXCEPT ![Serving] = a] /\ requests' = requests
          /\ UNCHANGED clientVars
      BY <1>3, <1>6, <2>1, <2>3 DEF ServerNotice, Request, Continues, Reply, Sending
    <2>5. Shape(t, "authenticate") /\ d \in Results /\ t \in States
          /\ t.at = now.at /\ t.phase = phase' /\ t.draft = d
      <3>1. Shape(t, "authenticate") /\ d \in Results
        BY <1>3, <2>1, <2>2, <2>4, NoticeShape
      <3> QED
        BY <1>3, <2>2, <2>4, <3>1 DEF States
    <2>6. \A i \in DOMAIN replies : ~InFlight(i)
      BY <1>2, <2>4, Reading
    <2>7. Awaiting(t.at)'
      <3>1. PICK m : m = Message("Notice", Serving)
        OBVIOUS
      <3>2. m.type = "Notice" /\ replies' = Append(replies, m) /\ issued' = issued /\ kind' = kind
        BY <2>4, <3>1 DEF Message, clientVars
      <3>3. Awaiting(now.at)'
        BY <1>4, <2>4, <2>6, <3>2, AwaitingStep
      <3> QED
        BY <2>5, <3>3
    <2>8. Continued(now, "Notice", kind[Serving], t)
      BY <1>3, <2>1, <2>2, <2>4 DEF Continued
    <2>9. ~Ends("Notice") /\ a.status = "sending" /\ a.result = t.draft
      BY <2>3, <2>5 DEF Ends
    <2> QED
      BY <1>1, <1>2, <2>4, <2>5, <2>7, <2>8, <2>9, GoesOn
  <1>7. CASE ServerGlobalNotice \/ ServerOther
    <2>1. PICK type \in {"GlobalNotice", "Other"} :
             /\ replies' = Append(replies, Message(type, Serving))
             /\ type = "Other" => Request("result")
      BY <1>7 DEF ServerGlobalNotice, ServerOther, Reply
    <2>2. phase' = phase /\ requests' = requests /\ answer' = answer /\ UNCHANGED clientVars
      BY <1>7 DEF ServerGlobalNotice, ServerOther
    <2>3. PICK a : a = answer[Serving]
      OBVIOUS
    <2>4. Awaiting(now.at)'
      <3>1. PICK m : m = Message(type, Serving)
        OBVIOUS
      <3>2. m.type = type /\ replies' = Append(replies, m) /\ issued' = issued /\ kind' = kind
        BY <2>1, <2>2, <3>1 DEF Message, clientVars
      <3>3. CASE type = "GlobalNotice"
        BY <1>4, <2>2, <3>2, <3>3, AwaitingStep
      <3>4. CASE type = "Other"
        <4>1. phase # "wait"
          BY <1>3, <2>1, <3>4 DEF Request, Shape
        <4>2. \A i \in DOMAIN replies : ~InFlight(i)
          BY <1>2, <4>1, Reading
        <4> QED
          BY <1>4, <2>2, <3>2, <3>4, <4>2, AwaitingStep
      <3> QED
        BY <2>1, <3>3, <3>4
    <2>5. ~Ends(type)
      BY <2>1 DEF Ends
    <2>6. /\ answer' = [answer EXCEPT ![Serving] = a] /\ a.result = now.draft
          /\ a.status \in {"pending", "sending"}
          /\ a.status = "pending" => a = Pending
          /\ phase' = now.phase
      BY <1>3, <2>2, <2>3
    <2> QED
      BY <1>1, <1>2, <1>3, <2>1, <2>2, <2>4, <2>5, <2>6, GoesOn
  <1> QED
    BY <1>5, <1>6, <1>7

\* The last messages of replies, and the first message of an authentication.
LEMMA EndsKeep ==
    ASSUME Types, QueueInv, Quiet, NEW s, Explains(s),
           ServerOk \/ ServerFails \/ ServerExecuteOk \/ ServerAuthenticates
    PROVE  Quiet' /\ \E q : Explains(q)'
  <1>1. PICK now : now = s[Len(s)]
    OBVIOUS
  <1>2. CanReply
    BY DEF ServerOk, ServerFails, ServerExecuteOk, ServerAuthenticates, Request
  <1>3. /\ now.phase = phase /\ Shape(now, kind[Serving]) /\ now \in States
        /\ now.draft = Draft /\ now.draft = answer[Serving].result
        /\ answer[Serving].status \in {"pending", "sending"}
        /\ answer[Serving].status = "pending" => answer[Serving] = Pending
        /\ answer = [answer EXCEPT ![Serving] = answer[Serving]]
        /\ kind[Serving] = "authenticate" => now.at = Len(issued)
    BY <1>1, <1>2, ServingNow DEF Draft
  <1>4. Awaiting(now.at) /\ replies \in Seq(Messages)
    BY <1>1 DEF Explains, Types
  <1>5. /\ phase # "wait" => /\ Tail(requests) = Requests(now.at + 1)
                             /\ \A i \in DOMAIN replies : ~InFlight(i)
        /\ phase = "wait" => kind[Serving] = "authenticate"
        /\ phase = "wait" /\ Len(requests) > 1 =>
              /\ Tail(Tail(requests)) = Requests(now.at + 1)
              /\ \A i \in DOMAIN replies : ~InFlight(i)
    <2>1. Serving = issued[now.at]
      BY <1>1, <1>2, ServingIt
    <2> QED
      BY <1>1, <1>2, <2>1, Reading
  <1>6. CASE ServerAuthenticates /\ phase = "idle"
    <2>1. /\ kind[Serving] = "authenticate" /\ phase' = "wait" /\ requests' = requests
          /\ replies' = Append(replies, Message("AuthenticateContinue", Serving))
          /\ answer' = answer /\ UNCHANGED clientVars
      BY <1>6 DEF ServerAuthenticates, Request, Reply
    <2>2. PICK t : t = [at |-> now.at, phase |-> "wait", draft |-> now.draft]
      OBVIOUS
    <2>3. PICK a : a = answer[Serving]
      OBVIOUS
    <2>4. t \in States /\ t.at = now.at /\ t.phase = "wait" /\ t.draft = now.draft
      BY <1>3, <2>2 DEF States, Phases
    <2>5. Awaiting(t.at)'
      <3>1. PICK m : m = Message("AuthenticateContinue", Serving)
        OBVIOUS
      <3>2. /\ m.type = "AuthenticateContinue" /\ replies' = Append(replies, m)
            /\ issued' = issued /\ kind' = kind
        BY <2>1, <3>1 DEF Message, clientVars
      <3>3. Awaiting(now.at)'
        BY <1>3, <1>4, <1>5, <1>6, <2>1, <3>2, AwaitingStep
      <3> QED
        BY <2>4, <3>3
    <2>6. Continued(now, "AuthenticateContinue", kind[Serving], t) /\ Shape(t, kind[Serving])
      BY <1>3, <1>6, <2>1, <2>4 DEF Continued, Shape
    <2>7. /\ answer' = [answer EXCEPT ![Serving] = a] /\ a.result = t.draft
          /\ a.status \in {"pending", "sending"}
          /\ a.status = "pending" => a = Pending
          /\ phase' = t.phase
      BY <1>3, <2>1, <2>3, <2>4
    <2>8. ~Ends("AuthenticateContinue")
      BY DEF Ends
    <2> QED
      BY <1>1, <1>2, <2>1, <2>4, <2>5, <2>6, <2>7, <2>8, GoesOn
  <1>7. CASE ~(ServerAuthenticates /\ phase = "idle")
    <2>1. \E type :
             /\ replies' = Append(replies, Message(type, Serving)) /\ phase' = "idle"
             /\ requests' = Requests(now.at + 1)
             /\ answer' = [answer EXCEPT ![Serving] = Decided(now, type)]
             /\ UNCHANGED clientVars
             /\ Ended(now, type, kind[Serving], Beginning(now.at + 1))
             /\ \A i \in DOMAIN replies : ~InFlight(i)
      <3>1. CASE ServerOk
        <4>1. PICK k \in DOMAIN OneMessage :
                 Request(k) /\ Finish(OneMessage[k], Fulfilled(NoResult))
          BY <3>1 DEF ServerOk
        <4>2. /\ k \in {"ok", "capabilities"} /\ kind[Serving] = k
              /\ OneMessage["ok"] = "Ok" /\ OneMessage["capabilities"] = "Capabilities"
          BY <4>1 DEF OneMessage, Request
        <4>3. phase = "idle" /\ now.draft = NoResult
          <5>1. /\ now.phase = "idle" /\ now.draft.notices = 0
                /\ Len(now.draft.rows) = 0 /\ Len(now.draft.columns) = 0
            BY <1>3, <4>2 DEF Shape
          <5>2. now.draft \in Results /\ now.draft.rows \in Seq(Nat) /\ now.draft.columns \in Seq(Nat)
            BY <1>3 DEF States, Results
          <5>3. now.draft.rows = <<>> /\ now.draft.columns = <<>>
            BY <5>1, <5>2, EmptySeq
          <5> QED
            BY <1>3, <5>1, <5>2, <5>3 DEF Results, NoResult
        <4>4. PICK type : type = OneMessage[k]
          OBVIOUS
        <4>5. type # "Error" /\ Ended(now, type, kind[Serving], Beginning(now.at + 1))
          BY <4>2, <4>4 DEF Ended
        <4>6. Decided(now, type) = Fulfilled(NoResult)
          BY <4>3, <4>5 DEF Decided
        <4> QED
          BY <1>5, <4>1, <4>3, <4>4, <4>5, <4>6 DEF Finish, Reply
      <3>2. CASE ServerFails
        <4>1. /\ replies' = Append(replies, Message("Error", Serving)) /\ phase' = "idle"
              /\ answer' = [answer EXCEPT ![Serving] = Rejected("error")]
              /\ UNCHANGED clientVars
              /\ phase = "wait" => Len(requests) > 1
              /\ requests' = IF phase = "wait" THEN Tail(Tail(requests)) ELSE Tail(requests)
          BY <3>2 DEF ServerFails, Reply
        <4>2. requests' = Requests(now.at + 1) /\ \A i \in DOMAIN replies : ~InFlight(i)
          BY <1>5, <3>2 DEF ServerFails
        <4>3. /\ Ended(now, "Error", kind[Serving], Beginning(now.at + 1))
              /\ Decided(now, "Error") = Rejected("error")
          BY DEF Ended, Decided
        <4> QED
          BY <4>1, <4>2, <4>3
      <3>3. CASE ServerExecuteOk
        <4>1. /\ replies' = Append(replies, Message("StmtExecuteOk", Serving)) /\ phase' = "idle"
              /\ answer' = [answer EXCEPT ![Serving] = Fulfilled(now.draft)]
              /\ UNCHANGED clientVars /\ phase \in {"idle", "done"} /\ kind[Serving] = "result"
              /\ requests' = Tail(requests)
          BY <1>3, <3>3 DEF ServerExecuteOk, Finish, Reply, Request
        <4>2. /\ Ended(now, "StmtExecuteOk", kind[Serving], Beginning(now.at + 1))
              /\ Decided(now, "StmtExecuteOk") = Fulfilled(now.draft)
          BY <1>3, <4>1 DEF Ended, Decided, Describing
        <4> QED
          BY <1>5, <4>1, <4>2
      <3>4. CASE ServerAuthenticates
        <4>1. /\ replies' = Append(replies, Message("AuthenticateOk", Serving)) /\ phase' = "idle"
              /\ answer' = [answer EXCEPT ![Serving] = Fulfilled(now.draft)]
              /\ UNCHANGED clientVars /\ phase = "wait" /\ Len(requests) > 1
              /\ requests' = Tail(Tail(requests))
          BY <1>3, <1>7, <3>4 DEF ServerAuthenticates, Reply
        <4>2. /\ Ended(now, "AuthenticateOk", kind[Serving], Beginning(now.at + 1))
              /\ Decided(now, "AuthenticateOk") = Fulfilled(now.draft)
          BY <1>5, <4>1 DEF Ended, Decided
        <4> QED
          BY <1>5, <4>1, <4>2
      <3> QED
        BY <3>1, <3>2, <3>3, <3>4
    <2>2. PICK type :
             /\ replies' = Append(replies, Message(type, Serving)) /\ phase' = "idle"
             /\ requests' = Requests(now.at + 1)
             /\ answer' = [answer EXCEPT ![Serving] = Decided(now, type)]
             /\ UNCHANGED clientVars
             /\ Ended(now, type, kind[Serving], Beginning(now.at + 1))
             /\ \A i \in DOMAIN replies : ~InFlight(i)
      BY <2>1
    <2> QED
      BY <1>1, <1>2, <2>2, Finishes
  <1> QED
    BY <1>6, <1>7

\* The server's steps, which change nothing of a call that is settled.
LEMMA ServerKeeps ==
    ASSUME Types, QueueInv, Pipe, Serve \/ ServerGlobalNotice \/ ServerOther \/ ServerCloses
    PROVE  Pipe'
  <1>1. closed \in {"no", "server"} /\ UNCHANGED clientVars
    BY DEF Serve, ServerOk, ServerAuthenticates, ServerFails, ServerColumn, ServerRow,
         ServerFetchDone, ServerNotice, ServerExecuteOk, ServerGlobalNotice, ServerOther,
         ServerCloses, Finish, Continues, Request, CanReply, clientVars
  <1>2. PICK s : Explains(s)
    BY <1>1 DEF Pipe
  <1>3. Quiet
    BY <1>1 DEF Pipe
  <1>4. CASE ServerCloses
    <2>1. /\ closed' = "server" /\ UNCHANGED <<requests, replies, phase, answer>>
          /\ UNCHANGED <<issued, kind, cursor, workQueue, handler, outcome, crashed>>
      BY <1>1, <1>4 DEF ServerCloses, clientVars
    <2>2. Answered' = Answered /\ Issued' = Issued
      BY <2>1 DEF Answered, Issued
    <2>3. Quiet'
      BY <1>3, <2>1, <2>2 DEF Quiet
    <2>4. Explains(s)'
      <3>1. Awaiting(s[Len(s)].at)' /\ Located(s[Len(s)])'
        BY <1>2, <2>1 DEF Explains, Awaiting, Requests, InFlight, Located
      <3>2. \A i \in 1 .. Len(replies) : Says(s[i], replies[i], s[i + 1])'
        BY <1>2, <2>1 DEF Explains, Says
      <3>3. (Answered < Len(issued) =>
               Knows(handler[issued[Answered + 1]], cursor[issued[Answered + 1]], s[1]))'
        BY <1>2, <2>1, <2>2 DEF Explains, Knows
      <3> QED
        BY <1>2, <2>1, <2>2, <3>1, <3>2, <3>3 DEF Explains
    <2>5. \A o \in Ops : Own(o)'
      BY <2>1 DEF Pipe, Own
    <2> QED
      BY <2>1, <2>3, <2>4, <2>5 DEF Pipe
  <1>5. CASE Serve \/ ServerGlobalNotice \/ ServerOther
    <2>1. Quiet' /\ \E q : Explains(q)'
      BY <1>2, <1>3, <1>5, Column, NoticeKeeps, EndsKeep DEF Serve
    <2>2. closed' = closed /\ closed = "no" /\ CanReply
      BY <1>5 DEF Serve, ServerOk, ServerAuthenticates, ServerFails, ServerColumn, ServerRow,
         ServerFetchDone, ServerNotice, ServerExecuteOk, ServerGlobalNotice, ServerOther,
         Finish, Continues, Request, CanReply
    <2>3. \A o \in Ops : o # Serving => answer'[o] = answer[o]
      BY <1>5 DEF Serve, ServerOk, ServerAuthenticates, ServerFails, ServerColumn, ServerRow,
         ServerFetchDone, ServerNotice, ServerExecuteOk, ServerGlobalNotice, ServerOther,
         Finish, Continues, Sending, Types
    <2>4. ~Settled(Serving)
      BY <1>2, <2>2, ServingIt
    <2>5. \A o \in Ops : Own(o)'
      <3> TAKE o \in Ops
      <3>1. outcome' = outcome /\ handler' = handler /\ cursor' = cursor /\ Own(o)
        BY <1>1 DEF clientVars, Pipe
      <3>2. CASE o = Serving
        BY <2>4, <3>1, <3>2 DEF Own, Settled
      <3>3. CASE o # Serving
        BY <2>3, <3>1, <3>3 DEF Own
      <3> QED
        BY <3>2, <3>3
    <2> QED
      BY <2>1, <2>2, <2>5 DEF Pipe
  <1> QED
    BY <1>4, <1>5

-----------------------------------------------------------------------------
(* A call is made.                                                          *)

\* The server is at no call that has been answered.
LEMMA ServedLater ==
    ASSUME QueueInv, replies \in Seq(Messages), NEW s, Explains(s)
    PROVE  /\ s[Len(s)].at >= Answered + 1 /\ s[Len(s)].at \in 1 .. Len(issued) + 1
           /\ Len(s) = Len(replies) + 1 /\ Len(replies) \in Nat
           /\ Answered \in Nat /\ Answered <= Len(issued) /\ Len(issued) \in Nat
           /\ \A i \in 1 .. Len(s) : s[i].at <= Len(issued) \/ i = Len(s)
  <1>1. Len(s) = Len(replies) + 1 /\ Len(replies) \in Nat
    BY DEF Explains
  <1>2. s[Len(s)].at \in 1 .. Len(issued) + 1 /\ s[1].at = Answered + 1
    BY DEF Explains, Located
  <1>3. Answered \in Nat /\ Answered <= Len(issued) /\ Len(issued) \in Nat
    BY DEF QueueInv, Answered
  <1>4. \A i \in 1 .. Len(replies) : s[i].at \in 1 .. Len(issued) /\ s[i].at <= s[Len(s)].at
    BY DEF Explains
  <1>5. s[Len(s)].at >= Answered + 1
    <2>1. CASE Len(s) = 1
      BY <1>2, <1>3, <2>1
    <2>2. CASE Len(s) # 1
      <3>1. 1 \in 1 .. Len(replies)
        BY <1>1, <2>2
      <3> QED
        BY <1>2, <1>3, <1>4, <3>1
    <2> QED
      BY <2>1, <2>2
  <1>6. \A i \in 1 .. Len(s) : s[i].at <= Len(issued) \/ i = Len(s)
    BY <1>1, <1>3, <1>4
  <1> QED
    BY <1>1, <1>2, <1>3, <1>5, <1>6

\* The requests from the b-th call on, and one more.
LEMMA OneMoreRequest ==
    ASSUME issued \in Seq(Ops), NEW o \in Ops, issued' = Append(issued, o),
           NEW b \in 1 .. Len(issued) + 1
    PROVE  Requests(b)' = Append(Requests(b), Message("request", o))
  <1> DEFINE n == Len(issued) - b + 1
             M == [type : {"request"}, op : Ops]
  <1>1. Len(issued) \in Nat /\ n \in Nat /\ b \in Nat /\ b >= 1
    OBVIOUS
  <1>2. /\ Len(issued') = Len(issued) + 1 /\ issued'[Len(issued) + 1] = o
        /\ \A i \in 1 .. Len(issued) : issued'[i] = issued[i] /\ issued[i] \in Ops
    OBVIOUS
  <1>3. \A p \in Ops : Message("request", p) \in M
    BY DEF Message
  <1>4. Requests(b) = [i \in 1 .. n |-> Message("request", issued[b + i - 1])]
    BY DEF Requests
  <1>5. Requests(b)' = [i \in 1 .. n + 1 |-> Message("request", issued'[b + i - 1])]
    <2>1. Len(issued') - b + 1 = n + 1
      BY <1>1, <1>2
    <2> QED
      BY <2>1 DEF Requests
  <1>6. /\ \A i \in 1 .. n : b + i - 1 \in 1 .. Len(issued)
        /\ b + (n + 1) - 1 = Len(issued) + 1
    BY <1>1
  <1> HIDE DEF n, M
  <1>7. Requests(b) \in [1 .. n -> M]
    BY <1>2, <1>3, <1>4, <1>6
  <1>8. Requests(b) \in Seq(M) /\ Len(Requests(b)) = n
    BY <1>1, <1>7, FunctionIsSequence
  <1>9. \A i \in 1 .. n + 1 : Requests(b)'[i] =
            IF i = n + 1 THEN Message("request", o) ELSE Requests(b)[i]
    <2> TAKE i \in 1 .. n + 1
    <2>1. CASE i = n + 1
      BY <1>1, <1>2, <1>5, <1>6, <2>1
    <2>2. CASE i # n + 1
      <3>1. i \in 1 .. n
        BY <1>1, <2>2
      <3> QED
        BY <1>2, <1>4, <1>5, <1>6, <3>1, <2>2
    <2> QED
      BY <2>1, <2>2
  <1>10. Requests(b)' \in [1 .. n + 1 -> M]
    <2>1. \A i \in 1 .. n + 1 : Requests(b)'[i] \in M
      <3> TAKE i \in 1 .. n + 1
      <3>1. i # n + 1 => Requests(b)[i] \in M
        BY <1>1, <1>7
      <3> QED
        BY <1>3, <1>9, <3>1
    <2> QED
      BY <1>5, <2>1
  <1>11. Requests(b)' \in Seq(M) /\ Len(Requests(b)') = n + 1
    <2>1. n + 1 \in Nat
      BY <1>1
    <2> QED
      BY <1>10, <2>1, FunctionIsSequence
  <1>12. PICK m \in M : m = Message("request", o)
    BY <1>3
  <1>13. /\ Append(Requests(b), m) \in Seq(M) /\ Len(Append(Requests(b), m)) = n + 1
         /\ \A i \in 1 .. n + 1 : Append(Requests(b), m)[i] = IF i = n + 1 THEN m ELSE Requests(b)[i]
    BY <1>1, <1>8, <1>12
  <1> QED
    BY <1>9, <1>11, <1>12, <1>13, SeqEqual

\* Authentication has the connection to itself, so that a call finds the
\* server reading nothing but requests.
LEMMA SendsAlone ==
    ASSUME Types, QueueInv, Quiet, NEW s, Explains(s), ~Authenticating
    PROVE  /\ phase # "wait" /\ requests = Requests(s[Len(s)].at)
           /\ \A i \in DOMAIN replies : ~InFlight(i)
  <1> DEFINE b == s[Len(s)].at
  <1>1. /\ b >= Answered + 1 /\ b \in 1 .. Len(issued) + 1
        /\ Len(s) = Len(replies) + 1 /\ Len(replies) \in Nat
        /\ Answered \in Nat /\ Answered <= Len(issued) /\ Len(issued) \in Nat
    BY ServedLater DEF Types
  <1>2. \A i \in 1 .. Len(issued) : i > Answered => kind[issued[i]] # "authenticate"
    <2> SUFFICES ASSUME NEW i \in 1 .. Len(issued), i > Answered PROVE kind[issued[i]] # "authenticate"
      OBVIOUS
    <2>1. i - Answered \in DOMAIN workQueue /\ i - Answered \in 1 .. Len(workQueue)
          /\ Answered + (i - Answered) = i
      BY <1>1 DEF QueueInv, Answered
    <2>2. workQueue[i - Answered] = issued[i]
      BY <2>1 DEF QueueInv
    <2> QED
      BY <2>1, <2>2 DEF Authenticating
  <1>3. Awaiting(b) /\ Located(s[Len(s)]) /\ s[Len(s)].phase = phase
    BY DEF Explains, Located
  <1>4. b = Len(issued) + 1 => phase = "idle"
    BY <1>3 DEF Located, Beginning
  <1>5. b <= Len(issued) => phase # "wait"
    <2> SUFFICES ASSUME b <= Len(issued) PROVE phase # "wait"
      OBVIOUS
    <2>1. b \in 1 .. Len(issued) /\ b > Answered /\ Len(s) \in 1 .. Len(s)
      BY <1>1
    <2>2. kind[issued[b]] # "authenticate" /\ issued[b] \in Ops
      BY <1>2, <2>1 DEF QueueInv
    <2>3. Shape(s[Len(s)], kind[issued[b]])
      BY <2>1 DEF Explains
    <2>4. kind[issued[b]] \in AllKinds
      BY <2>2 DEF Types
    <2> QED
      BY <1>3, <2>2, <2>3, <2>4 DEF Shape, AllKinds
  <1>6. phase # "wait"
    BY <1>1, <1>4, <1>5
  <1> QED
    BY <1>3, <1>6 DEF Awaiting

\* What explained the messages under way still does.
LEMMA SendExplained ==
    ASSUME Types, QueueInv, Quiet, NEW s, Explains(s),
           NEW o \in Ops, NEW k, NEW c, Send(o, k, c)
    PROVE  Quiet' /\ Explains(s)'
  <1> DEFINE n == Len(issued)
             now == s[Len(s)]
  <1>1. /\ issued' = Append(issued, o) /\ o \notin Issued /\ ~Authenticating
        /\ kind' = [kind EXCEPT ![o] = k] /\ cursor' = [cursor EXCEPT ![o] = c]
        /\ workQueue' = Append(workQueue, o)
    BY DEF Send, Push
  <1>2. /\ requests' = Append(requests, Message("request", o))
        /\ handler' = handler /\ answer' = answer /\ replies' = replies /\ phase' = phase
        /\ crashed' = crashed
    BY DEF Send
  <1>20. k = "authenticate" => workQueue = <<>>
    BY DEF Send
  <1>3. /\ Len(issued') = n + 1 /\ n \in Nat /\ issued'[n + 1] = o
        /\ \A i \in 1 .. n : issued'[i] = issued[i] /\ issued[i] \in Ops /\ issued[i] # o
    <2>1. \A i \in 1 .. n : issued[i] # o
      BY <1>1 DEF Issued, QueueInv
    <2> QED
      BY <1>1, <2>1 DEF QueueInv
  <1>4. Answered' = Answered
    <2>1. Len(workQueue') = Len(workQueue) + 1 /\ Len(workQueue) \in Nat
      BY <1>1 DEF QueueInv
    <2> QED
      BY <1>3, <2>1 DEF Answered
  <1>5. /\ now.at >= Answered + 1 /\ now.at \in 1 .. n + 1
        /\ Len(s) = Len(replies) + 1 /\ Len(replies) \in Nat
        /\ Answered \in Nat /\ Answered <= n
        /\ \A i \in 1 .. Len(s) : s[i].at <= n \/ i = Len(s)
    BY ServedLater DEF Types
  <1>6. answer[o] = Pending /\ handler[o] = NewHandler
    BY <1>1 DEF Quiet
  <1>7. \A p \in Ops : p # o => kind'[p] = kind[p] /\ cursor'[p] = cursor[p]
    BY <1>1 DEF Types
  <1>8. kind'[o] = k /\ cursor'[o] = c
    BY <1>1 DEF Types
  <1>9. Located(now) /\ Awaiting(now.at)
    BY DEF Explains
  <1>10. now.at = n + 1 => now = Beginning(n + 1)
    BY <1>9 DEF Located
  <1>11. \A i \in 1 .. Len(s) : s[i].at = n + 1 => s[i] = Beginning(n + 1)
    BY <1>3, <1>5, <1>10
  <1>12. Quiet'
    <2>1. Issued' = Issued \cup {o}
      <3>1. DOMAIN issued' = 1 .. n + 1 /\ DOMAIN issued = 1 .. n
        BY <1>1, <1>3 DEF QueueInv
      <3> QED
        BY <1>3, <3>1 DEF Issued
    <2>2. \A i \in 1 .. n + 1 : i > Answered + 1 => handler[issued'[i]] = NewHandler
      <3> SUFFICES ASSUME NEW i \in 1 .. n + 1, i > Answered + 1
                   PROVE  handler[issued'[i]] = NewHandler
        OBVIOUS
      <3>1. CASE i = n + 1
        BY <1>3, <1>6, <3>1
      <3>2. CASE i \in 1 .. n
        BY <1>3, <3>2 DEF Quiet
      <3> QED
        BY <1>3, <3>1, <3>2
    <2>3. ASSUME NEW i \in 1 .. n + 1, i > Answered, kind'[issued'[i]] = "authenticate"
          PROVE  i = n + 1 /\ i = Answered + 1
      <3>1. CASE i = n + 1
        <4>1. workQueue = <<>>
          BY <1>20, <1>3, <1>8, <2>3, <3>1
        <4>2. Answered = n
          BY <1>3, <4>1 DEF Answered
        <4> QED
          BY <3>1, <4>2
      <3>2. CASE i \in 1 .. n
        <4>1. kind[issued[i]] = "authenticate"
          BY <1>3, <1>7, <2>3, <3>2
        <4>2. i - Answered \in DOMAIN workQueue /\ i - Answered \in 1 .. Len(workQueue)
              /\ Answered + (i - Answered) = i
          BY <1>3, <1>5, <2>3, <3>2 DEF QueueInv, Answered
        <4>3. workQueue[i - Answered] = issued[i]
          BY <4>2 DEF QueueInv
        <4> QED
          BY <1>1, <4>1, <4>2, <4>3 DEF Authenticating
      <3> QED
        BY <1>3, <3>1, <3>2
    <2> QED
      BY <1>2, <1>3, <1>4, <2>1, <2>2, <2>3 DEF Quiet
  <1>13. Located(now)'
    <2>1. PICK t : t = now
      OBVIOUS
    <2>2. Located(t) /\ (t.at = n + 1 => t = Beginning(n + 1)) /\ t.at \in 1 .. n + 1
      BY <1>5, <1>9, <1>10, <2>1
    <2>3. \A i \in 1 .. n + 1 : answer[issued'[i]] = IF i = n + 1 THEN Pending ELSE answer[issued[i]]
      BY <1>3, <1>6
    <2>4. Pending.status = "pending" /\ Pending.result = NoResult
      BY DEF Pending, Rejected
    <2>5. t.at = n + 1 => t.draft = NoResult
      BY <2>2 DEF Beginning
    <2>6. t.at <= n + 1 => t.draft = answer[issued'[t.at]].result
      <3>1. CASE t.at = n + 1
        BY <2>3, <2>4, <2>5, <3>1, <2>2
      <3>2. CASE t.at # n + 1
        <4>1. t.at <= n
          BY <1>3, <2>2, <3>2
        <4> QED
          BY <2>2, <2>3, <3>2, <4>1 DEF Located
      <3> QED
        BY <3>1, <3>2
    <2>7. \A i \in 1 .. n + 1 :
             /\ i < t.at => answer[issued'[i]].status \in {"resolved", "error"}
             /\ i = t.at => answer[issued'[i]].status \in {"pending", "sending"}
             /\ i > t.at => answer[issued'[i]] = Pending
      <3> TAKE i \in 1 .. n + 1
      <3>1. CASE i = n + 1
        BY <1>3, <2>2, <2>3, <2>4, <3>1
      <3>2. CASE i # n + 1
        <4>1. i \in 1 .. n
          BY <1>3, <3>2
        <4> QED
          BY <2>2, <2>3, <3>2, <4>1 DEF Located
      <3> QED
        BY <3>1, <3>2
    <2>8. t.phase = phase /\ t.at \in 1 .. (n + 1) + 1 /\ t.at # (n + 1) + 1
      BY <1>3, <2>2 DEF Located
    <2>9. Located(t)'
      BY <1>2, <1>3, <2>6, <2>7, <2>8 DEF Located
    <2> QED
      BY <2>1, <2>9
  <1>14. Awaiting(now.at)'
    <2>1. PICK b : b = now.at
      OBVIOUS
    <2>2. /\ phase # "wait" /\ requests = Requests(b)
          /\ \A i \in DOMAIN replies : ~InFlight(i)
      BY <1>1, <2>1, SendsAlone
    <2>3. Requests(b)' = Append(Requests(b), Message("request", o))
      BY <1>1, <1>5, <2>1, OneMoreRequest DEF QueueInv
    <2>4. (\A i \in DOMAIN replies : ~InFlight(i))'
      BY <1>2, <2>2 DEF InFlight
    <2>5. requests' = Requests(b)' /\ phase' # "wait"
      BY <1>2, <2>2, <2>3
    <2>6. Awaiting(b)'
      BY <2>4, <2>5 DEF Awaiting
    <2> QED
      BY <2>1, <2>6
  <1>15. \A i \in 1 .. Len(replies) :
            /\ Says(s[i], replies[i], s[i + 1])'
            /\ s[i].at \in 1 .. n + 1
    <2> TAKE i \in 1 .. Len(replies)
    <2>1. PICK u, m, v : u = s[i] /\ m = replies[i] /\ v = s[i + 1]
      OBVIOUS
    <2>2. Says(u, m, v) /\ u.at \in 1 .. n
      BY <2>1 DEF Explains
    <2>3. issued'[u.at] = issued[u.at] /\ kind'[issued[u.at]] = kind[issued[u.at]]
      BY <1>3, <1>7, <2>2
    <2>4. Says(u, m, v)'
      BY <1>2, <2>2, <2>3, SaysStill
    <2> QED
      BY <1>2, <1>3, <2>1, <2>2, <2>4
  <1>16. \A i \in 1 .. Len(s) : s[i].at <= n + 1 => Shape(s[i], kind'[issued'[s[i].at]])
    <2> SUFFICES ASSUME NEW i \in 1 .. Len(s), s[i].at <= n + 1
                 PROVE  Shape(s[i], kind'[issued'[s[i].at]])
      OBVIOUS
    <2>1. CASE s[i].at = n + 1
      BY <1>11, <2>1, BeginningKnown
    <2>2. CASE s[i].at # n + 1
      <3>1. s[i].at \in 1 .. n
        <4>1. i \in 1 .. Len(replies) \/ i = Len(s)
          BY <1>5
        <4>2. i \in 1 .. Len(replies) => s[i].at \in 1 .. n
          BY DEF Explains
        <4> QED
          BY <1>3, <1>5, <2>2, <4>1, <4>2
      <3>2. Shape(s[i], kind[issued[s[i].at]])
        BY <3>1, <1>3 DEF Explains
      <3> QED
        BY <1>3, <1>7, <3>1, <3>2
    <2> QED
      BY <2>1, <2>2
  <1>17. (Answered < Len(issued) =>
            Knows(handler[issued[Answered + 1]], cursor[issued[Answered + 1]], s[1]))'
    <2>1. PICK t : t = s[1]
      OBVIOUS
    <2>2. PICK h, d : h = handler[issued'[Answered + 1]] /\ d = cursor'[issued'[Answered + 1]]
      OBVIOUS
    <2>3. t.at = Answered + 1
      BY <2>1 DEF Explains
    <2>4. Knows(h, d, t)
      <3>1. CASE Answered = n
        <4>1. 1 \in 1 .. Len(s)
          BY <1>5
        <4>2. t = Beginning(n + 1)
          BY <1>11, <2>1, <2>3, <3>1, <4>1
        <4>3. h = NewHandler
          BY <1>3, <1>6, <2>2, <3>1
        <4> QED
          BY <4>2, <4>3, BeginningKnown
      <3>2. CASE Answered # n
        <4>1. Answered + 1 \in 1 .. n /\ Answered < n
          BY <1>3, <1>5, <3>2
        <4>2. h = handler[issued[Answered + 1]] /\ d = cursor[issued[Answered + 1]]
          BY <1>3, <1>7, <2>2, <4>1
        <4> QED
          BY <2>1, <4>1, <4>2 DEF Explains
      <3> QED
        BY <3>1, <3>2
    <2>5. Knows(h, d, t)'
      BY <1>2, <2>4 DEF Knows
    <2> QED
      BY <1>2, <1>4, <2>1, <2>2, <2>5
  <1>18. /\ s \in Seq(States) /\ Len(s) = Len(replies) + 1 /\ s[1].at = Answered + 1
         /\ \A i \in 1 .. Len(replies) :
               /\ s[i].at <= s[Len(s)].at
               /\ Ends(replies[i].type) => s[i].at < s[Len(s)].at
    BY DEF Explains
  <1>19. Explains(s)'
    <2>1. (\A i \in 1 .. Len(s) : s[i].at <= Len(issued) => Shape(s[i], kind[issued[s[i].at]]))'
      BY <1>3, <1>16
    <2>2. (\A i \in 1 .. Len(replies) :
             /\ Says(s[i], replies[i], s[i + 1])
             /\ s[i].at \in 1 .. Len(issued) /\ s[i].at <= s[Len(s)].at
             /\ Ends(replies[i].type) => s[i].at < s[Len(s)].at)'
      BY <1>2, <1>3, <1>15, <1>18
    <2>3. (Located(s[Len(s)]) /\ Awaiting(s[Len(s)].at))'
      BY <1>13, <1>14
    <2>4. (s \in Seq(States) /\ Len(s) = Len(replies) + 1 /\ s[1].at = Answered + 1)'
      BY <1>2, <1>4, <1>18
    <2> QED
      BY <1>17, <2>1, <2>2, <2>3, <2>4 DEF Explains
  <1> QED
    BY <1>12, <1>19

LEMMA SendKeeps ==
    ASSUME Types, QueueInv, Pipe, NEW o \in Ops, NEW k, NEW c, Send(o, k, c)
    PROVE  Pipe'
  <1>1. closed' = closed /\ closed \in {"no", "server", "handled"} /\ replies' = replies
    BY DEF Send
  <1>2. ASSUME closed \in {"no", "server"} PROVE Quiet' /\ \E s : Explains(s)'
    BY <1>2, SendExplained DEF Pipe
  <1>3. \A p \in Ops : Own(p)'
    <2> TAKE p \in Ops
    <2>1. Own(p) /\ outcome' = outcome /\ handler' = handler /\ answer' = answer
      BY DEF Pipe, Send
    <2>2. CASE p = o
      <3>1. ~Settled(o)
        BY DEF QueueInv, Send
      <3> QED
        BY <2>1, <2>2, <3>1 DEF Own, Settled
    <2>3. CASE p # o
      <3>1. cursor'[p] = cursor[p]
        BY <2>3 DEF Send, Types
      <3> QED
        BY <2>1, <3>1 DEF Own
    <2> QED
      BY <2>2, <2>3
  <1> QED
    BY <1>1, <1>2, <1>3 DEF Pipe

-----------------------------------------------------------------------------
(* What a message adds to what a handler knows.                             *)

\* A sequence with a last element.
LEMMA NotEmpty ==
    ASSUME NEW S, NEW q \in Seq(S), Len(q) >= 1
    PROVE  q # <<>>
  OBVIOUS

\* All the counts but the last.
LEMMA AllButLast ==
    ASSUME NEW q \in Seq(Nat)
    PROVE  /\ \A x \in Nat : SubSeq(Append(q, x), 1, Len(q)) = q
           /\ Len(q) >= 1 =>
                 /\ Append(SubSeq(q, 1, Len(q) - 1), q[Len(q)]) = q
                 /\ SubSeq(AddTo(q), 1, Len(q) - 1) = SubSeq(q, 1, Len(q) - 1)
  <1>1. Len(q) \in Nat /\ 1 \in Int /\ Len(q) \in Int /\ Len(q) - 1 \in Int
    OBVIOUS
  <1>2. ASSUME NEW x \in Nat PROVE SubSeq(Append(q, x), 1, Len(q)) = q
    <2>1. PICK r : r = Append(q, x)
      OBVIOUS
    <2>2. \A i \in 1 .. Len(q) : r[i] = q[i] /\ r[i] \in Nat
      BY <2>1, <1>2
    <2>3. PICK u : u = SubSeq(r, 1, Len(q))
      OBVIOUS
    <2>4. /\ u \in Seq(Nat) /\ Len(u) = IF 1 <= Len(q) THEN Len(q) - 1 + 1 ELSE 0
          /\ \A i \in 1 .. Len(q) - 1 + 1 : u[i] = r[1 + i - 1]
      BY <1>1, <2>2, <2>3, SubSeqProperties
    <2>5. Len(u) = Len(q) /\ \A i \in 1 .. Len(u) : u[i] = q[i]
      BY <1>1, <2>2, <2>4
    <2> QED
      BY <2>1, <2>3, <2>4, <2>5, SeqEqual
  <1>3. ASSUME Len(q) >= 1
        PROVE  /\ Append(SubSeq(q, 1, Len(q) - 1), q[Len(q)]) = q
               /\ SubSeq(AddTo(q), 1, Len(q) - 1) = SubSeq(q, 1, Len(q) - 1)
    <2>1. PICK n \in Nat : n = Len(q)
      BY <1>1
    <2>2. n >= 1 /\ n - 1 \in Int /\ q[n] \in Nat /\ \A i \in 1 .. n - 1 : q[i] \in Nat
      BY <1>3, <2>1
    <2>3. PICK u : u = SubSeq(q, 1, n - 1)
      OBVIOUS
    <2>4. /\ u \in Seq(Nat) /\ Len(u) = IF 1 <= n - 1 THEN n - 1 - 1 + 1 ELSE 0
          /\ \A i \in 1 .. n - 1 - 1 + 1 : u[i] = q[1 + i - 1]
      BY <1>1, <2>2, <2>3, SubSeqProperties
    <2>5. Len(u) = n - 1 /\ \A i \in 1 .. n - 1 : u[i] = q[i]
      BY <2>2, <2>4
    <2>6. PICK w : w = Append(u, q[n])
      OBVIOUS
    <2>7. /\ w \in Seq(Nat) /\ Len(w) = Len(u) + 1
          /\ \A i \in 1 .. Len(u) : w[i] = u[i]
          /\ w[Len(u) + 1] = q[n]
      BY <2>2, <2>4, <2>6, AppendProperties
    <2>8. Len(w) = n /\ \A i \in 1 .. n : w[i] = q[i]
      BY <2>2, <2>5, <2>7
    <2>9. w = q
      BY <2>1, <2>7, <2>8, SeqEqual
    <2>10. PICK v : v = SubSeq(AddTo(q), 1, n - 1)
      OBVIOUS
    <2>11. \A i \in 1 .. n - 1 : AddTo(q)[i] = q[i] /\ AddTo(q)[i] \in Nat
      <3>1. \A i \in 1 .. n - 1 : i \in 1 .. n /\ i # n
        BY <2>2
      <3>2. \A i \in 1 .. n : i # n => AddTo(q)[i] = q[i]
        BY <2>1, AddToProperties
      <3> QED
        BY <2>2, <3>1, <3>2
    <2>12. /\ v \in Seq(Nat) /\ Len(v) = IF 1 <= n - 1 THEN n - 1 - 1 + 1 ELSE 0
           /\ \A i \in 1 .. n - 1 - 1 + 1 : v[i] = AddTo(q)[1 + i - 1]
      BY <1>1, <2>2, <2>10, <2>11, SubSeqProperties
    <2>13. Len(v) = n - 1 /\ \A i \in 1 .. n - 1 : v[i] = q[i]
      BY <2>2, <2>11, <2>12
    <2>14. v = u
      BY <2>4, <2>5, <2>12, <2>13, SeqEqual
    <2> QED
      BY <2>1, <2>3, <2>6, <2>9, <2>10, <2>14
  <1> QED
    BY <1>2, <1>3

\* Another set without rows changes neither what was pushed nor which sets
\* have rows; another row is one more of its set.
LEMMA CountRows ==
    ASSUME NEW rows \in Seq(Nat)
    PROVE  /\ Cardinality(Filled(rows)) \in Nat
           /\ Len(rows) < MaxSets =>
                 /\ PerSet(Append(rows, 0)) = PerSet(rows)
                 /\ Filled(Append(rows, 0)) = Filled(rows)
           /\ Len(rows) >= 1 /\ Len(rows) <= MaxSets =>
                 /\ PerSet(AddTo(rows)) = Increment(PerSet(rows), Len(rows))
                 /\ Cardinality(Filled(AddTo(rows))) =
                       IF rows[Len(rows)] = 0 THEN Cardinality(Filled(rows)) + 1
                       ELSE Cardinality(Filled(rows))
  <1>1. PICK n \in Nat : n = Len(rows)
    OBVIOUS
  <1>2. DOMAIN rows = 1 .. n /\ (\A i \in 1 .. n : rows[i] \in Nat) /\ MaxSets \in Nat
    BY <1>1, Bounds
  <1>3. IsFiniteSet(Filled(rows))
    <2>1. Filled(rows) \in SUBSET (1 .. n) /\ IsFiniteSet(1 .. n)
      BY <1>2, FS_Interval DEF Filled
    <2> QED
      BY <2>1, FS_Subset
  <1>4. Cardinality(Filled(rows)) \in Nat
    BY <1>3, FS_CardinalityType
  <1>5. ASSUME n < MaxSets
        PROVE  PerSet(Append(rows, 0)) = PerSet(rows) /\ Filled(Append(rows, 0)) = Filled(rows)
    <2>1. PICK r : r = Append(rows, 0)
      OBVIOUS
    <2>2. DOMAIN r = 1 .. n + 1 /\ r[n + 1] = 0 /\ \A i \in 1 .. n : r[i] = rows[i]
      BY <1>1, <2>1
    <2>3. Filled(r) = Filled(rows)
      <3>1. \A i : i \in 1 .. n + 1 /\ r[i] > 0 <=> i \in 1 .. n /\ rows[i] > 0
        BY <2>2
      <3> QED
        BY <1>2, <2>2, <3>1 DEF Filled
    <2>4. \A i \in 1 .. MaxSets :
             (IF i \in 1 .. n + 1 THEN r[i] ELSE 0) = (IF i \in 1 .. n THEN rows[i] ELSE 0)
      BY <2>2
    <2>5. PerSet(r) = PerSet(rows)
      BY <1>2, <2>2, <2>4 DEF PerSet
    <2> QED
      BY <2>1, <2>3, <2>5
  <1>6. ASSUME n >= 1, n <= MaxSets
        PROVE  /\ PerSet(AddTo(rows)) = Increment(PerSet(rows), n)
               /\ Cardinality(Filled(AddTo(rows))) =
                       IF rows[n] = 0 THEN Cardinality(Filled(rows)) + 1
                       ELSE Cardinality(Filled(rows))
    <2>1. PICK r : r = AddTo(rows)
      OBVIOUS
    <2>2. /\ r \in Seq(Nat) /\ Len(r) = n /\ rows # <<>>
          /\ \A i \in 1 .. n : i # n => r[i] = rows[i]
          /\ r[n] = rows[n] + 1
      <3>1. rows # <<>>
        BY <1>1, <1>6
      <3> QED
        BY <1>1, <2>1, <3>1, AddToProperties
    <2>3. DOMAIN r = 1 .. n /\ n \in 1 .. n /\ rows[n] \in Nat /\ n \in 1 .. MaxSets
      BY <1>2, <1>6, <2>2
    <2>4. PerSet(r) = Increment(PerSet(rows), n)
      <3>1. \A i \in 1 .. MaxSets :
               (IF i \in 1 .. n THEN r[i] ELSE 0) =
               (IF i = n THEN (IF i \in 1 .. n THEN rows[i] ELSE 0) + 1
                ELSE IF i \in 1 .. n THEN rows[i] ELSE 0)
        BY <2>2, <2>3
      <3>2. PICK f : f = PerSet(rows)
        OBVIOUS
      <3>3. f = [i \in 1 .. MaxSets |-> IF i \in 1 .. n THEN rows[i] ELSE 0]
        BY <1>2, <3>2 DEF PerSet
      <3>4. Increment(f, n) = [i \in 1 .. MaxSets |-> IF i = n THEN f[i] + 1 ELSE f[i]]
        BY <2>3, <3>3 DEF Increment
      <3>5. PerSet(r) = [i \in 1 .. MaxSets |-> IF i \in 1 .. n THEN r[i] ELSE 0]
        BY <2>3 DEF PerSet
      <3>6. \A i \in 1 .. MaxSets :
               (IF i \in 1 .. n THEN r[i] ELSE 0) = (IF i = n THEN f[i] + 1 ELSE f[i])
        BY <3>1, <3>3
      <3> QED
        BY <3>2, <3>4, <3>5, <3>6
    <2>5. Filled(r) = Filled(rows) \cup {n}
      <3>1. \A i : i \in 1 .. n /\ r[i] > 0 <=> (i \in 1 .. n /\ rows[i] > 0) \/ i = n
        BY <2>2, <2>3
      <3> QED
        BY <1>2, <2>3, <3>1 DEF Filled
    <2>6. n \in Filled(rows) <=> rows[n] # 0
      BY <1>2, <2>3 DEF Filled
    <2>7. Cardinality(Filled(rows) \cup {n}) =
             IF n \in Filled(rows) THEN Cardinality(Filled(rows)) ELSE Cardinality(Filled(rows)) + 1
      BY <1>3, FS_AddElement
    <2> QED
      BY <2>1, <2>4, <2>5, <2>6, <2>7
  <1> QED
    BY <1>1, <1>4, <1>5, <1>6

\* The columns of a set are described.
LEMMA KnowsColumn ==
    ASSUME NEW h \in Handlers, NoHole(h), NEW c, NEW now \in States, NEW t \in States,
           Shape(now, "result"), Shape(t, "result"), Knows(h, c, now), crashed' = crashed,
           Describes(now, "ColumnMetaData", t)
    PROVE  Knows(NewColumn(h), c, t)'
  <1>1. PICK rows \in Seq(Nat), columns \in Seq(Nat) :
           rows = now.draft.rows /\ columns = now.draft.columns
    BY DEF States, Results
  <1>2. PICK n \in Nat : n = Len(rows) /\ n = Len(columns) /\ n <= MaxSets
    BY <1>1 DEF Shape
  <1>3. PICK g : g = NewColumn(h)
    OBVIOUS
  <1>4. /\ g.current = h.current + 1 /\ g.metadataCalled = FALSE
        /\ g.results = h.results /\ g.resultIndex = h.resultIndex /\ g.metadata = h.metadata
        /\ g.notices = h.notices /\ g.pushed = h.pushed /\ g.metadataCalls = h.metadataCalls
    BY <1>3 DEF NewColumn, Handlers
  <1>5. /\ h.notices = now.draft.notices
        /\ h.resultIndex = IF n = 0 THEN 1 ELSE IF now.phase = "sets" THEN n + 1 ELSE n
        /\ h.current = IF Describing(now.phase) THEN columns[n] ELSE 0
        /\ h.metadata = IF Describing(now.phase) THEN SubSeq(columns, 1, n - 1) ELSE columns
    BY <1>1, <1>2 DEF Knows
  <1>6. /\ c = "none" =>
              /\ Len(h.results) <= n
              /\ \A i \in 1 .. n : rows[i] = IF i <= Len(h.results) THEN h.results[i] ELSE 0
        /\ c # "none" /\ ~crashed => h.pushed = PerSet(rows)
        /\ c = "both" => h.metadataCalls = Cardinality(Filled(rows))
    BY <1>1, <1>2 DEF Knows
  <1>7. t.phase = "columns" /\ Describing(t.phase)
    BY DEF Describes, Describing
  <1>8. now.draft \in Results /\ t.draft \in Results
    BY DEF States
  <1>9. CASE /\ now.phase \in {"idle", "sets"} /\ Len(now.draft.rows) < MaxSets
             /\ t.draft = [now.draft EXCEPT !.columns = Append(@, 1), !.rows = Append(@, 0)]
    <2>1. /\ t.draft.rows = Append(rows, 0) /\ t.draft.columns = Append(columns, 1)
          /\ t.draft.notices = now.draft.notices
      BY <1>1, <1>8, <1>9 DEF Results
    <2>2. PICK r, m : r = Append(rows, 0) /\ m = Append(columns, 1)
      OBVIOUS
    <2>3. /\ Len(r) = n + 1 /\ Len(m) = n + 1 /\ r[n + 1] = 0 /\ m[n + 1] = 1
          /\ \A i \in 1 .. n : r[i] = rows[i]
      <3>1. 0 \in Nat /\ 1 \in Nat
        OBVIOUS
      <3>2. /\ Len(r) = Len(rows) + 1 /\ r[Len(rows) + 1] = 0
            /\ \A i \in 1 .. Len(rows) : r[i] = rows[i]
        BY <2>2, <3>1, AppendProperties
      <3>3. Len(m) = Len(columns) + 1 /\ m[Len(columns) + 1] = 1
        BY <2>2, <3>1, AppendProperties
      <3> QED
        BY <1>2, <3>2, <3>3
    <2>4. PerSet(r) = PerSet(rows) /\ Filled(r) = Filled(rows)
      BY <1>1, <1>2, <1>9, <2>2, CountRows
    <2>5. SubSeq(m, 1, n) = columns
      BY <1>2, <2>2, AllButLast
    <2>6. /\ ~Describing(now.phase) /\ h.current = 0 /\ h.metadata = columns
          /\ h.resultIndex = n + 1
      <3>1. now.phase = "idle" => n = 0
        BY <1>1, <1>2 DEF Shape
      <3> QED
        BY <1>5, <1>9, <3>1 DEF Describing
    <2>7. c = "none" =>
             /\ Len(h.results) <= n + 1
             /\ \A i \in 1 .. n + 1 : r[i] = IF i <= Len(h.results) THEN h.results[i] ELSE 0
      <3> SUFFICES ASSUME c = "none"
                   PROVE  /\ Len(h.results) <= n + 1
                          /\ \A i \in 1 .. n + 1 :
                                r[i] = IF i <= Len(h.results) THEN h.results[i] ELSE 0
        OBVIOUS
      <3>1. PICK z \in Nat : z = Len(h.results) /\ z <= n
        BY <1>6 DEF Handlers
      <3>2. \A i \in 1 .. n + 1 : r[i] = IF i <= z THEN h.results[i] ELSE 0
        <4> TAKE i \in 1 .. n + 1
        <4>1. CASE i = n + 1
          BY <2>3, <3>1, <4>1
        <4>2. CASE i # n + 1
          <5>1. i \in 1 .. n
            BY <4>2
          <5> QED
            BY <1>6, <2>3, <3>1, <5>1
        <4> QED
          BY <4>1, <4>2
      <3> QED
        BY <3>1, <3>2
    <2>8. n + 1 - 1 = n /\ n + 1 # 0 /\ 0 + 1 = 1 /\ t.phase # "sets" /\ ~(0 > 0)
      BY <1>7
    <2>9. PICK k : k = n + 1
      OBVIOUS
    <2>10. /\ k = Len(r) /\ g.notices = t.draft.notices
           /\ g.resultIndex = IF k = 0 THEN 1 ELSE IF t.phase = "sets" THEN k + 1 ELSE k
           /\ g.current = m[k] /\ g.metadata = SubSeq(m, 1, k - 1)
      BY <1>4, <1>5, <2>1, <2>3, <2>5, <2>6, <2>8, <2>9
    <2>11. c = "none" =>
              /\ Len(g.results) <= k
              /\ \A i \in 1 .. k : r[i] = IF i <= Len(g.results) THEN g.results[i] ELSE 0
      BY <1>4, <2>7, <2>9
    <2>12. /\ c # "none" /\ ~crashed' => g.pushed = PerSet(r)
           /\ c = "both" => g.metadataCalls = Cardinality(Filled(r))
      BY <1>4, <1>6, <2>4
    <2>13. c = "both" /\ Describing(t.phase) => (g.metadataCalled <=> r[k] > 0)
      BY <1>4, <2>3, <2>8, <2>9
    <2>14. Knows(g, c, t)'
      BY <1>7, <2>1, <2>2, <2>10, <2>11, <2>12, <2>13 DEF Knows
    <2> QED
      BY <1>3, <2>14
  <1>10. CASE now.phase = "columns" /\ t.draft = [now.draft EXCEPT !.columns = AddTo(@)]
    <2>1. /\ t.draft.rows = rows /\ t.draft.columns = AddTo(columns)
          /\ t.draft.notices = now.draft.notices
      BY <1>1, <1>8, <1>10 DEF Results
    <2>2. n >= 1 /\ rows[n] = 0
      BY <1>1, <1>2, <1>10 DEF Shape
    <2>3. AddTo(columns)[n] = columns[n] + 1
      <3>1. columns # <<>>
        BY <1>2, <2>2
      <3> QED
        BY <1>2, <3>1, AddToProperties
    <2>4. SubSeq(AddTo(columns), 1, n - 1) = SubSeq(columns, 1, n - 1)
      BY <1>2, <2>2, AllButLast
    <2>5. Describing(now.phase) /\ now.phase # "sets" /\ n # 0 /\ t.phase # "sets" /\ ~(0 > 0)
      BY <1>7, <1>10, <2>2 DEF Describing
    <2>6. PICK m : m = AddTo(columns)
      OBVIOUS
    <2>7. /\ g.notices = t.draft.notices
          /\ g.resultIndex = IF n = 0 THEN 1 ELSE IF t.phase = "sets" THEN n + 1 ELSE n
          /\ g.current = m[n] /\ g.metadata = SubSeq(m, 1, n - 1)
      BY <1>4, <1>5, <2>1, <2>3, <2>4, <2>5, <2>6
    <2>8. c = "none" =>
             /\ Len(g.results) <= n
             /\ \A i \in 1 .. n : rows[i] = IF i <= Len(g.results) THEN g.results[i] ELSE 0
      <3>1. g.results = h.results
        BY <1>4
      <3> QED
        BY <1>6, <3>1
    <2>9. /\ c # "none" /\ ~crashed' => g.pushed = PerSet(rows)
          /\ c = "both" => g.metadataCalls = Cardinality(Filled(rows))
      BY <1>4, <1>6
    <2>10. c = "both" /\ Describing(t.phase) => (g.metadataCalled <=> rows[n] > 0)
      BY <1>4, <2>2, <2>5
    <2>11. Knows(g, c, t)'
      BY <1>2, <1>7, <2>1, <2>6, <2>7, <2>8, <2>9, <2>10 DEF Knows
    <2> QED
      BY <1>3, <2>11
  <1> QED
    BY <1>9, <1>10 DEF Describes

\* A set ends, and perhaps there is another.
LEMMA KnowsFetchDone ==
    ASSUME NEW h \in Handlers, NoHole(h), NEW c, NEW now \in States, NEW t \in States,
           Shape(now, "result"), Knows(h, c, now), crashed' = crashed, NEW type,
           Describes(now, type, t), NEW g,
           \/ /\ type = "FetchDone"
              /\ g = [h EXCEPT !.metadata = Append(@, h.current), !.current = ClearMetadata(h)]
           \/ /\ type = "FetchDoneMoreResultsets"
              /\ g = [h EXCEPT !.metadata = Append(@, h.current), !.current = ClearMetadata(h),
                               !.results = EmptySet(h), !.resultIndex = @ + 1]
    PROVE  Knows(g, c, t)'
  <1>1. PICK rows \in Seq(Nat), columns \in Seq(Nat) :
           rows = now.draft.rows /\ columns = now.draft.columns
    BY DEF States, Results
  <1>2. PICK n \in Nat : n = Len(rows) /\ n = Len(columns) /\ n <= MaxSets
    BY <1>1 DEF Shape
  <1>3. t.draft = now.draft /\ Describing(now.phase) /\ ~Describing(t.phase) /\ now.phase # "sets"
    BY DEF Describes, Describing
  <1>4. n >= 1
    BY <1>1, <1>2, <1>3 DEF Shape, Describing
  <1>5. /\ h.notices = now.draft.notices /\ h.resultIndex = n
        /\ h.current = columns[n] /\ h.metadata = SubSeq(columns, 1, n - 1)
    BY <1>1, <1>2, <1>3, <1>4 DEF Knows
  <1>6. /\ c = "none" =>
              /\ Len(h.results) <= n
              /\ \A i \in 1 .. n : rows[i] = IF i <= Len(h.results) THEN h.results[i] ELSE 0
        /\ c # "none" /\ ~crashed => h.pushed = PerSet(rows)
        /\ c = "both" => h.metadataCalls = Cardinality(Filled(rows))
    BY <1>1, <1>2 DEF Knows
  <1>7. /\ g.metadata = Append(h.metadata, h.current) /\ g.current = 0
        /\ g.notices = h.notices /\ g.pushed = h.pushed /\ g.metadataCalls = h.metadataCalls
    BY DEF Handlers, ClearMetadata
  <1>8. g.metadata = columns
    BY <1>2, <1>4, <1>5, <1>7, AllButLast
  <1>9. CASE type = "FetchDone"
    <2>1. g.results = h.results /\ g.resultIndex = h.resultIndex /\ t.phase = "done"
      BY <1>9 DEF Handlers, Describes
    <2>2. /\ g.notices = t.draft.notices
          /\ g.resultIndex = IF n = 0 THEN 1 ELSE IF t.phase = "sets" THEN n + 1 ELSE n
      BY <1>3, <1>4, <1>5, <1>7, <2>1
    <2>3. c = "none" =>
             /\ Len(g.results) <= n
             /\ \A i \in 1 .. n : rows[i] = IF i <= Len(g.results) THEN g.results[i] ELSE 0
      BY <1>6, <2>1
    <2>4. /\ c # "none" /\ ~crashed' => g.pushed = PerSet(rows)
          /\ c = "both" => g.metadataCalls = Cardinality(Filled(rows))
      BY <1>6, <1>7
    <2>5. rows = t.draft.rows /\ columns = t.draft.columns
      BY <1>1, <1>3
    <2> QED
      BY <1>2, <1>3, <1>7, <1>8, <2>2, <2>3, <2>4, <2>5 DEF Knows
  <1>10. CASE type = "FetchDoneMoreResultsets"
    <2>1. g.results = EmptySet(h) /\ g.resultIndex = h.resultIndex + 1 /\ t.phase = "sets"
      BY <1>10 DEF Handlers, Describes
    <2>2. PICK e \in Seq(Nat) : e = EmptySet(h) /\ Len(e) = n
      BY <1>5, EmptySetProperties
    <2>3. PICK z \in Nat : z = Len(h.results)
      <3>1. h.results \in Seq(Nat)
        BY DEF Handlers
      <3>2. Len(h.results) \in Nat
        BY <3>1
      <3> QED
        BY <3>2
    <2>4. (\A i \in 1 .. z : e[i] = h.results[i]) /\ (z # n => e[n] = 0) /\ z \in {n - 1, n}
      BY <1>5, <2>2, <2>3, EmptySetProperties DEF NoHole
    <2>5. c = "none" => \A i \in 1 .. n : rows[i] = IF i <= Len(e) THEN e[i] ELSE 0
      <3> SUFFICES ASSUME c = "none", NEW i \in 1 .. n PROVE rows[i] = e[i]
        BY <2>2
      <3>1. rows[i] = IF i <= z THEN h.results[i] ELSE 0
        BY <1>6, <2>3
      <3>2. CASE i <= z
        <4>1. i \in 1 .. z
          BY <3>2
        <4> QED
          BY <2>4, <3>1, <3>2, <4>1
      <3>3. CASE ~(i <= z)
        <4>1. z = n - 1 /\ i = n
          BY <2>4, <3>3
        <4>2. e[i] = 0
          BY <2>4, <4>1
        <4> QED
          BY <3>1, <3>3, <4>2
      <3> QED
        BY <3>2, <3>3
    <2>6. /\ g.notices = t.draft.notices
          /\ g.resultIndex = IF n = 0 THEN 1 ELSE IF t.phase = "sets" THEN n + 1 ELSE n
      BY <1>3, <1>4, <1>5, <1>7, <2>1
    <2>7. c = "none" =>
             /\ Len(g.results) <= n
             /\ \A i \in 1 .. n : rows[i] = IF i <= Len(g.results) THEN g.results[i] ELSE 0
      BY <2>1, <2>2, <2>5
    <2>8. /\ c # "none" /\ ~crashed' => g.pushed = PerSet(rows)
          /\ c = "both" => g.metadataCalls = Cardinality(Filled(rows))
      BY <1>6, <1>7
    <2>9. rows = t.draft.rows /\ columns = t.draft.columns
      BY <1>1, <1>3
    <2> QED
      BY <1>2, <1>3, <1>7, <1>8, <2>6, <2>7, <2>8, <2>9 DEF Knows
  <1> QED
    BY <1>9, <1>10

\* A row goes into the buffer, or to a callback.
LEMMA KnowsRow ==
    ASSUME NEW h \in Handlers, NoHole(h), NEW c, NEW now \in States, NEW t \in States,
           Shape(now, "result"), Knows(h, c, now), ~crashed, Describes(now, "Row", t), NEW g,
           \/ /\ c = "none" /\ crashed' = crashed
              /\ LET rows == IF Assigned(h, h.resultIndex) THEN h.results ELSE Append(h.results, 0)
                 IN g = [h EXCEPT !.results = Increment(rows, h.resultIndex)]
           \/ /\ c # "none" /\ crashed' = (c = "meta")
              /\ g.results = h.results /\ g.resultIndex = h.resultIndex
              /\ g.current = h.current /\ g.metadata = h.metadata /\ g.notices = h.notices
              /\ c # "meta" => g.pushed = Increment(h.pushed, h.resultIndex)
              /\ c = "both" => /\ g.metadataCalled = TRUE
                               /\ g.metadataCalls = IF h.metadataCalled THEN h.metadataCalls
                                                    ELSE h.metadataCalls + 1
    PROVE  Knows(g, c, t)'
  <1>1. PICK rows \in Seq(Nat), columns \in Seq(Nat) :
           rows = now.draft.rows /\ columns = now.draft.columns
    BY DEF States, Results
  <1>2. PICK n \in Nat : n = Len(rows) /\ n = Len(columns) /\ n <= MaxSets
    BY <1>1 DEF Shape
  <1>3. /\ t.draft = [now.draft EXCEPT !.rows = AddTo(@)] /\ now.draft \in Results
        /\ Describing(now.phase) /\ t.phase = "rows" /\ Describing(t.phase)
        /\ now.phase # "sets" /\ t.phase # "sets"
    BY DEF Describes, Describing, States
  <1>4. n >= 1
    BY <1>1, <1>2, <1>3 DEF Shape, Describing
  <1>5. PICK r : r = AddTo(rows)
    OBVIOUS
  <1>6. r = t.draft.rows /\ columns = t.draft.columns /\ t.draft.notices = now.draft.notices
    BY <1>1, <1>3, <1>5 DEF Results
  <1>7. /\ n = Len(r) /\ r[n] = rows[n] + 1 /\ rows[n] \in Nat
        /\ \A i \in 1 .. n : i # n => r[i] = rows[i]
    <2>1. rows # <<>> /\ rows[n] \in Nat
      <3>1. n \in 1 .. Len(rows)
        BY <1>2, <1>4
      <3>2. rows # <<>>
        BY <1>2, <1>4, NotEmpty
      <3> QED
        BY <3>1, <3>2
    <2> QED
      BY <1>2, <1>5, <2>1, AddToProperties
  <1>8. /\ h.notices = now.draft.notices /\ h.resultIndex = n
        /\ h.current = columns[n] /\ h.metadata = SubSeq(columns, 1, n - 1)
    BY <1>1, <1>2, <1>3, <1>4 DEF Knows
  <1>9. /\ PerSet(r) = Increment(PerSet(rows), n)
        /\ Cardinality(Filled(r)) = IF rows[n] = 0 THEN Cardinality(Filled(rows)) + 1
                                    ELSE Cardinality(Filled(rows))
    BY <1>2, <1>4, <1>5, CountRows
  <1>10. CASE c = "none"
    <2>1. PICK q : q = IF Assigned(h, h.resultIndex) THEN h.results ELSE Append(h.results, 0)
      OBVIOUS
    <2>2. g = [h EXCEPT !.results = Increment(q, n)] /\ crashed' = crashed
      BY <1>8, <1>10, <2>1
    <2>3. /\ g.results = Increment(q, n) /\ g.resultIndex = h.resultIndex
          /\ g.current = h.current /\ g.metadata = h.metadata /\ g.notices = h.notices
      BY <2>2 DEF Handlers
    <2>4. PICK z \in Nat : z = Len(h.results) /\ z \in {n - 1, n} /\ h.results \in Seq(Nat)
      <3>1. h.results \in Seq(Nat)
        BY DEF Handlers
      <3>2. Len(h.results) \in Nat
        BY <3>1
      <3> QED
        BY <1>8, <3>1, <3>2 DEF NoHole
    <2>5. \A i \in 1 .. n : rows[i] = IF i <= z THEN h.results[i] ELSE 0
      BY <1>1, <1>2, <1>10, <2>4 DEF Knows
    <2>6. q \in Seq(Nat) /\ Len(q) = n /\ \A i \in 1 .. n : q[i] = rows[i]
      <3>1. CASE z = n
        <4>1. q = h.results
          BY <1>8, <2>1, <2>4, <3>1 DEF Assigned
        <4>2. \A i \in 1 .. n : i <= z
          BY <3>1
        <4> QED
          BY <2>4, <2>5, <3>1, <4>1, <4>2
      <3>2. CASE z = n - 1
        <4>1. q = Append(h.results, 0)
          BY <1>8, <2>1, <2>4, <3>2 DEF Assigned
        <4>2. /\ q \in Seq(Nat) /\ Len(q) = z + 1 /\ q[z + 1] = 0
              /\ \A i \in 1 .. z : q[i] = h.results[i]
          <5>1. 0 \in Nat
            OBVIOUS
          <5> QED
            BY <2>4, <4>1, <5>1, AppendProperties
        <4>3. \A i \in 1 .. n : i = n \/ (i \in 1 .. z /\ i <= z)
          BY <3>2
        <4>4. z + 1 = n /\ ~(n <= z) /\ n \in 1 .. n
          BY <1>4, <3>2
        <4> QED
          BY <2>5, <4>2, <4>3, <4>4
      <3> QED
        BY <2>4, <3>1, <3>2
    <2>7. Increment(q, n) = [i \in 1 .. n |-> IF i = n THEN q[i] + 1 ELSE q[i]]
      <3>1. DOMAIN q = 1 .. n
        BY <2>6
      <3> QED
        BY <3>1 DEF Increment
    <2>8. PICK e : e = Increment(q, n)
      OBVIOUS
    <2>9. Len(e) = n
      <3>1. e \in [1 .. n -> Nat]
        <4>1. \A i \in 1 .. n : q[i] \in Nat
          BY <2>6
        <4> QED
          BY <2>7, <2>8, <4>1
      <3> QED
        BY <3>1, FunctionIsSequence
    <2>10. \A i \in 1 .. n : e[i] = r[i]
      BY <1>7, <2>6, <2>7, <2>8
    <2>11. /\ Len(g.results) <= n
           /\ \A i \in 1 .. n : r[i] = IF i <= Len(g.results) THEN g.results[i] ELSE 0
      BY <2>3, <2>8, <2>9, <2>10
    <2>12. /\ g.notices = t.draft.notices
           /\ g.resultIndex = IF n = 0 THEN 1 ELSE IF t.phase = "sets" THEN n + 1 ELSE n
           /\ g.current = columns[n] /\ g.metadata = SubSeq(columns, 1, n - 1)
      BY <1>3, <1>4, <1>6, <1>8, <2>3
    <2> QED
      BY <1>3, <1>6, <1>7, <1>10, <2>11, <2>12 DEF Knows
  <1>11. CASE c # "none"
    <2>1. /\ g.notices = t.draft.notices
          /\ g.resultIndex = IF n = 0 THEN 1 ELSE IF t.phase = "sets" THEN n + 1 ELSE n
          /\ g.current = columns[n] /\ g.metadata = SubSeq(columns, 1, n - 1)
      BY <1>3, <1>4, <1>6, <1>8, <1>11
    <2>2. ~crashed' => g.pushed = PerSet(r)
      <3>1. h.pushed = PerSet(rows)
        BY <1>1, <1>2, <1>11 DEF Knows
      <3> QED
        BY <1>8, <1>9, <1>11, <3>1
    <2>3. c = "both" => g.metadataCalls = Cardinality(Filled(r)) /\ g.metadataCalled /\ r[n] > 0
      <3> SUFFICES ASSUME c = "both"
                   PROVE  g.metadataCalls = Cardinality(Filled(r)) /\ g.metadataCalled /\ r[n] > 0
        OBVIOUS
      <3>1. h.metadataCalls = Cardinality(Filled(rows)) /\ (h.metadataCalled <=> rows[n] > 0)
        BY <1>1, <1>2, <1>3 DEF Knows
      <3>2. rows[n] > 0 <=> rows[n] # 0
        BY <1>7
      <3>3. g.metadataCalls = IF h.metadataCalled THEN h.metadataCalls ELSE h.metadataCalls + 1
        BY <1>11
      <3>4. g.metadataCalls = Cardinality(Filled(r))
        BY <1>9, <3>1, <3>2, <3>3
      <3>5. g.metadataCalled /\ r[n] > 0
        BY <1>7, <1>11
      <3> QED
        BY <3>4, <3>5
    <2> QED
      BY <1>3, <1>6, <1>7, <1>11, <2>1, <2>2, <2>3 DEF Knows
  <1> QED
    BY <1>10, <1>11

\* A notice about a call.
LEMMA KnowsNotice ==
    ASSUME NEW h \in Handlers, NEW c, NEW now \in States, NEW t,
           Knows(h, c, now), crashed' = crashed, now.draft.notices = 0,
           t.phase = now.phase, t.draft = [now.draft EXCEPT !.notices = 1]
    PROVE  Knows([h EXCEPT !.notices = @ + 1], c, t)'
  <1>1. PICK g : g = [h EXCEPT !.notices = @ + 1]
    OBVIOUS
  <1>2. now.draft \in Results
    BY DEF States
  <1>3. t.draft.rows = now.draft.rows /\ t.draft.columns = now.draft.columns
    BY <1>2 DEF Results
  <1>4. g.notices = t.draft.notices
    BY <1>1, <1>2 DEF Knows, Handlers, Results
  <1>5. /\ g.results = h.results /\ g.resultIndex = h.resultIndex
        /\ g.current = h.current /\ g.metadata = h.metadata
        /\ g.pushed = h.pushed /\ g.metadataCalls = h.metadataCalls
        /\ g.metadataCalled = h.metadataCalled
    BY <1>1 DEF Handlers
  <1>6. Knows(g, c, t)'
    BY <1>3, <1>4, <1>5 DEF Knows
  <1> QED
    BY <1>1, <1>6

\* The challenge of an authentication tells nothing of the reply.
LEMMA KnowsChallenge ==
    ASSUME NEW h, NEW c, NEW now, NEW t, Knows(h, c, now), crashed' = crashed,
           now.phase = "idle", t.phase = "wait", t.draft = now.draft
    PROVE  Knows(h, c, t)'
  BY DEF Knows, Describing

\* What a promise is fulfilled with is what the server has said.
LEMMA GatheredIsSaid ==
    ASSUME NEW h \in Handlers, NoHole(h), NEW c, NEW now \in States, NEW k, Shape(now, k),
           Knows(h, c, now), ~crashed, ~Describing(now.phase)
    PROVE  /\ Gathered(h).columns = now.draft.columns
           /\ Gathered(h).notices = now.draft.notices
           /\ c = "none" => Gathered(h).rows = now.draft.rows
           /\ c # "none" => h.pushed = PerSet(now.draft.rows)
           /\ c = "both" => h.metadataCalls = Cardinality(Filled(now.draft.rows))
  <1>1. PICK rows \in Seq(Nat), columns \in Seq(Nat) :
           rows = now.draft.rows /\ columns = now.draft.columns
    BY DEF States, Results
  <1>2. PICK n \in Nat : n = Len(rows) /\ n = Len(columns)
    BY <1>1 DEF Shape
  <1>3. h.metadata = columns /\ h.notices = now.draft.notices
    BY <1>1 DEF Knows
  <1>4. ASSUME c = "none" PROVE Gathered(h).rows = rows
    <2>1. Gathered(h).rows =
             [i \in DOMAIN h.metadata |-> IF Assigned(h, i) THEN h.results[i] ELSE 0]
      BY DEF Gathered
    <2>2. DOMAIN h.metadata = 1 .. n /\ DOMAIN rows = 1 .. n
      <3>1. DOMAIN columns = 1 .. Len(columns) /\ DOMAIN rows = 1 .. Len(rows)
        OBVIOUS
      <3> QED
        BY <1>2, <1>3, <3>1
    <2>3. \A i \in 1 .. n : rows[i] = IF i <= Len(h.results) THEN h.results[i] ELSE 0
      BY <1>1, <1>2, <1>4 DEF Knows
    <2>4. rows = [i \in 1 .. n |-> rows[i]]
      <3>1. rows = [i \in 1 .. Len(rows) |-> rows[i]]
        OBVIOUS
      <3> QED
        BY <1>2, <3>1
    <2> QED
      BY <2>1, <2>2, <2>3, <2>4 DEF Assigned
  <1>5. /\ c # "none" => h.pushed = PerSet(rows)
        /\ c = "both" => h.metadataCalls = Cardinality(Filled(rows))
    BY <1>1 DEF Knows
  <1> QED
    BY <1>1, <1>3, <1>4, <1>5 DEF Gathered

-----------------------------------------------------------------------------
(* The client's steps.                                                      *)

\* The front handler gets the message the server sent at the first state.
LEMMA FrontMessage ==
    ASSUME Types, QueueInv, Quiet, NEW s, Explains(s), replies # <<>>
    PROVE  /\ s[1] \in States /\ s[2] \in States /\ s[1].at = Answered + 1
           /\ Says(s[1], Head(replies), s[2]) /\ Head(replies) \in Messages
           /\ s[1].at \in 1 .. Len(issued) /\ issued[s[1].at] = Current
           /\ workQueue # <<>> /\ Current \in Ops /\ ~Settled(Current)
           /\ H \in Handlers /\ NoHole(H) /\ kind[Current] \in AllKinds
           /\ Shape(s[1], kind[Current])
           /\ s[2].at = s[1].at => Shape(s[2], kind[Current])
           /\ Knows(H, cursor[Current], s[1])
           /\ Head(replies).type # "GlobalNotice" => Head(replies).op = Current
  <1>1. s \in Seq(States) /\ Len(s) = Len(replies) + 1 /\ Len(replies) \in Nat
        /\ replies \in Seq(Messages)
    BY DEF Explains, Types
  <1>2. Len(replies) >= 1
    BY <1>1, EmptySeq
  <1>3. 1 \in 1 .. Len(replies) /\ 1 \in 1 .. Len(s) /\ 2 \in 1 .. Len(s) /\ 1 + 1 = 2
    BY <1>1, <1>2
  <1>4. s[1] \in States /\ s[2] \in States /\ Head(replies) = replies[1]
        /\ Head(replies) \in Messages
    <2>1. Head(replies) = replies[1] /\ replies[1] \in Messages
      BY <1>1, <1>3
    <2> QED
      BY <1>1, <1>3, <2>1
  <1>5. /\ Says(s[1], Head(replies), s[2]) /\ s[1].at = Answered + 1
        /\ s[1].at \in 1 .. Len(issued)
    BY <1>3, <1>4 DEF Explains
  <1>6. /\ Len(workQueue) \in Nat /\ Len(issued) \in Nat /\ Len(workQueue) <= Len(issued)
        /\ Answered = Len(issued) - Len(workQueue)
    BY DEF QueueInv, Answered
  <1>7. 1 \in 1 .. Len(workQueue) /\ workQueue # <<>> /\ Answered < Len(issued)
        /\ Answered + 1 <= Len(issued)
    <2>1. Len(workQueue) >= 1
      BY <1>5, <1>6
    <2>2. workQueue # <<>>
      BY <2>1, NotEmpty DEF QueueInv
    <2> QED
      BY <1>5, <1>6, <2>1, <2>2
  <1>8. Current = workQueue[1] /\ workQueue[1] = issued[Answered + 1] /\ Current \in Ops
    <2>1. workQueue[1] = issued[Answered + 1] /\ Head(workQueue) = workQueue[1]
          /\ workQueue[1] \in Ops
      BY <1>7 DEF QueueInv
    <2> QED
      BY <2>1 DEF Current
  <1>9. ~Settled(Current)
    BY <1>7, <1>8, QueuedPending
  <1>10. H \in Handlers /\ NoHole(H) /\ kind[Current] \in AllKinds
    BY <1>8 DEF Types, H
  <1>11. Shape(s[1], kind[Current]) /\ (s[2].at = s[1].at => Shape(s[2], kind[Current]))
    BY <1>3, <1>5, <1>7, <1>8 DEF Explains
  <1>12. Knows(H, cursor[Current], s[1])
    BY <1>7, <1>8 DEF Explains, H
  <1>13. Head(replies).type # "GlobalNotice" => Head(replies).op = Current
    BY <1>5, <1>8 DEF Says
  <1> QED
    BY <1>4, <1>5, <1>7, <1>8, <1>9, <1>10, <1>11, <1>12, <1>13

\* The rest of what is under way is explained by the rest of the states.
LEMMA RestExplained ==
    ASSUME Types, QueueInv, NEW s, Explains(s), replies # <<>>, replies' = Tail(replies),
           UNCHANGED <<issued, kind, answer, phase>>,
           s[2].at = Answered' + 1, Awaiting(s[Len(s)].at)',
           (Answered < Len(issued) =>
              Knows(handler[issued[Answered + 1]], cursor[issued[Answered + 1]], s[2]))'
    PROVE  Explains(Tail(s))'
  <1> DEFINE n == Len(replies)
  <1>1. s \in Seq(States) /\ Len(s) = n + 1 /\ n \in Nat /\ replies \in Seq(Messages)
    BY DEF Explains, Types
  <1>2. n >= 1
    BY <1>1, EmptySeq
  <1>3. PICK q : q = Tail(s)
    OBVIOUS
  <1>4. PICK p : p = Tail(replies)
    OBVIOUS
  <1>5. q \in Seq(States) /\ Len(q) = n /\ \A i \in 1 .. n : q[i] = s[i + 1]
    BY <1>1, <1>2, <1>3, TailElements
  <1>6. Len(p) = n - 1 /\ \A i \in 1 .. n - 1 : p[i] = replies[i + 1]
    BY <1>1, <1>2, <1>4, TailElements
  <1> HIDE DEF n
  <1>7. q[n] = s[n + 1] /\ q[1] = s[2] /\ n \in 1 .. n /\ 1 \in 1 .. n
    BY <1>1, <1>2, <1>5
  <1>8. PICK b, now : b = s[Len(s)].at /\ now = s[Len(s)]
    OBVIOUS
  <1>9. now = q[n] /\ b = now.at
    BY <1>1, <1>7, <1>8
  <1>10. \A i \in 1 .. n :
            /\ Says(s[i], replies[i], s[i + 1])
            /\ s[i].at \in 1 .. Len(issued) /\ s[i].at <= b
            /\ Ends(replies[i].type) => s[i].at < b
    BY <1>8 DEF Explains, n
  <1>11. \A i \in 1 .. n - 1 :
            /\ Says(q[i], p[i], q[i + 1])'
            /\ q[i].at \in 1 .. Len(issued) /\ q[i].at <= b
            /\ Ends(p[i].type) => q[i].at < b
    <2> TAKE i \in 1 .. n - 1
    <2>1. i + 1 \in 1 .. n /\ i \in 1 .. n
      BY <1>1
    <2>2. PICK u, m, v : u = s[i + 1] /\ m = replies[i + 1] /\ v = s[(i + 1) + 1]
      OBVIOUS
    <2>3. q[i] = u /\ p[i] = m /\ q[i + 1] = v
      BY <1>5, <1>6, <2>1, <2>2
    <2>4. /\ Says(u, m, v) /\ u.at \in 1 .. Len(issued) /\ u.at <= b
          /\ Ends(m.type) => u.at < b
      BY <1>10, <2>1, <2>2
    <2>5. Says(u, m, v)'
      BY <2>4, SaysStill
    <2> QED
      BY <2>3, <2>4, <2>5
  <1>12. \A i \in 1 .. n : q[i].at <= Len(issued) => Shape(q[i], kind[issued[q[i].at]])
    <2> TAKE i \in 1 .. n
    <2>1. i + 1 \in 1 .. Len(s)
      BY <1>1
    <2> QED
      BY <1>5, <2>1 DEF Explains
  <1>13. Located(now)'
    BY <1>8 DEF Explains, Located
  <1>14. Awaiting(b)'
    BY <1>8
  <1>15. PICK t : t = s[2]
    OBVIOUS
  <1>16. (Answered < Len(issued) =>
             Knows(handler[issued[Answered + 1]], cursor[issued[Answered + 1]], t))'
    BY <1>15
  <1>17. t = q[1] /\ t.at = Answered' + 1
    BY <1>7, <1>15
  <1>18. /\ replies' = p /\ issued' = issued /\ kind' = kind /\ Len(p) = n - 1
         /\ Len(q) = Len(p) + 1 /\ now = q[Len(q)] /\ b = q[Len(q)].at
    BY <1>1, <1>4, <1>5, <1>6, <1>9
  <1>19. Explains(q)'
    BY <1>5, <1>11, <1>12, <1>13, <1>14, <1>16, <1>17, <1>18 DEF Explains
  <1> QED
    BY <1>3, <1>19

\* What the server has to read is not told by any other message.
LEMMA StillAwaiting ==
    ASSUME NEW b, Awaiting(b), replies \in Seq(Messages), replies # <<>>,
           Head(replies).type # "AuthenticateContinue", replies' = Tail(replies),
           UNCHANGED <<issued, kind, requests, phase>>
    PROVE  Awaiting(b)'
  <1>1. PICK n \in Nat : n = Len(replies) /\ n >= 1
    <2>1. Len(replies) \in Nat
      OBVIOUS
    <2> QED
      BY <2>1, EmptySeq
  <1>2. PICK p : p = Tail(replies)
    OBVIOUS
  <1>3. DOMAIN replies = 1 .. n /\ DOMAIN p = 1 .. n - 1
        /\ \A i \in 1 .. n - 1 : p[i] = replies[i + 1]
    <2>1. p \in Seq(Messages) /\ Len(p) = n - 1 /\ \A i \in 1 .. n - 1 : p[i] = replies[i + 1]
      BY <1>1, <1>2, TailElements
    <2>2. DOMAIN replies = 1 .. Len(replies) /\ DOMAIN p = 1 .. Len(p)
      BY <2>1
    <2> QED
      BY <1>1, <2>1, <2>2
  <1>4. replies' = p
    BY <1>2
  <1>5. Requests(b)' = Requests(b)
    BY DEF Requests
  <1>6. \A i \in 1 .. n - 1 : InFlight(i)' <=> InFlight(i + 1)
    <2> TAKE i \in 1 .. n - 1
    <2>1. i + 1 \in 1 .. n
      BY <1>1
    <2> QED
      BY <1>3, <1>4, <2>1 DEF InFlight
  <1>7. \A i \in 1 .. n : InFlight(i) => i - 1 \in 1 .. n - 1 /\ (i - 1) + 1 = i
    <2> SUFFICES ASSUME NEW i \in 1 .. n, InFlight(i)
                 PROVE  i - 1 \in 1 .. n - 1 /\ (i - 1) + 1 = i
      OBVIOUS
    <2>1. i # 1
      BY <1>1, <1>3 DEF InFlight
    <2> QED
      BY <1>1, <2>1
  <1>8. (\E i \in DOMAIN replies : InFlight(i)) => (\E i \in DOMAIN replies : InFlight(i))'
    <2> SUFFICES ASSUME NEW i \in 1 .. n, InFlight(i)
                 PROVE  (\E j \in DOMAIN replies : InFlight(j))'
      BY <1>3
    <2>1. PICK j : j = i - 1
      OBVIOUS
    <2>2. j \in 1 .. n - 1 /\ InFlight(j + 1)
      BY <1>7, <2>1
    <2>3. InFlight(j)' /\ j \in DOMAIN replies'
      BY <1>3, <1>4, <1>6, <2>2
    <2> QED
      BY <2>3
  <1>9. (\A i \in DOMAIN replies : ~InFlight(i)) => (\A i \in DOMAIN replies : ~InFlight(i))'
    <2> SUFFICES ASSUME \A i \in 1 .. n : ~InFlight(i), NEW i \in 1 .. n - 1
                 PROVE  ~InFlight(i)'
      BY <1>3, <1>4
    <2>1. i + 1 \in 1 .. n
      BY <1>1
    <2> QED
      BY <1>6, <2>1
  <1>10. ASSUME NEW i \in 1 .. n - 1, InFlight(i)'
         PROVE  /\ phase = "wait" /\ b = Len(issued) /\ requests = Requests(b)
                /\ \A j \in 1 .. n - 1 : j > i => p[j].type = "GlobalNotice"
    <2>1. i + 1 \in 1 .. n /\ InFlight(i + 1)
      BY <1>1, <1>6, <1>10
    <2>2. /\ phase = "wait" /\ b = Len(issued) /\ requests = Requests(b)
          /\ \A j \in 1 .. n : j > i + 1 => replies[j].type = "GlobalNotice"
      BY <1>3, <2>1 DEF Awaiting
    <2>3. \A j \in 1 .. n - 1 : j > i => j + 1 \in 1 .. n /\ j + 1 > i + 1
      BY <1>1
    <2> QED
      BY <1>3, <2>2, <2>3
  <1>11. \/ /\ requests = Requests(b)
            /\ phase = "wait" => \E i \in DOMAIN replies : InFlight(i)
         \/ /\ requests = Append(Requests(b), Message("continue", issued[b]))
            /\ phase = "wait" /\ b = Len(issued) /\ kind[issued[b]] = "authenticate"
            /\ \A i \in DOMAIN replies : ~InFlight(i)
    BY DEF Awaiting
  <1>12. (\A i \in DOMAIN replies : InFlight(i) =>
            /\ phase = "wait" /\ b = Len(issued) /\ requests = Requests(b)
            /\ \A j \in DOMAIN replies : j > i => replies[j].type = "GlobalNotice")'
    BY <1>3, <1>4, <1>5, <1>10
  <1> QED
    BY <1>5, <1>8, <1>9, <1>11, <1>12 DEF Awaiting

\* A handler gathers a part of its reply.
LEMMA GatherKeeps ==
    ASSUME Types, QueueInv, Pipe, closed \in {"no", "server"}, NEW s, Explains(s),
           NEW type, Handled(type), Awaiting(s[Len(s)].at)',
           NEW g, Gather(g), g.sources = H.sources,
           UNCHANGED <<issued, kind, cursor, workQueue, outcome, closed>>,
           s[2].at = s[1].at,
           NEW k \in Handlers, k = [g EXCEPT !.sources = @ \cup {Head(replies).op}],
           Knows(k, cursor[Current], s[2])'
    PROVE  Pipe'
  <1>1. /\ replies # <<>> /\ Head(replies).type = type /\ replies' = Tail(replies)
        /\ phase' = phase /\ answer' = answer
    BY DEF Handled, Received, Consume
  <1>2. Quiet
    BY DEF Pipe
  <1>3. /\ s[1].at = Answered + 1 /\ Answered + 1 \in 1 .. Len(issued)
        /\ issued[Answered + 1] = Current /\ Current \in Ops /\ ~Settled(Current)
        /\ Head(replies).op = Current
    <2>1. type # "GlobalNotice"
      <3>1. kind[Current] \in AllKinds
        BY CurrentType DEF Handled, Types
      <3> QED
        BY <3>1 DEF Handles, AllKinds, Handled
    <2> QED
      BY <1>1, <1>2, <2>1, FrontMessage
  <1>4. handler' = [handler EXCEPT ![Current] = k]
    BY DEF Gather
  <1>5. /\ handler'[Current] = k
        /\ \A o \in Ops : o # Current => handler'[o] = handler[o]
    BY <1>3, <1>4 DEF Types
  <1>6. Answered' = Answered /\ Issued' = Issued
    BY DEF Answered, Issued
  <1>7. Quiet'
    <2>1. \A i \in 1 .. Len(issued) :
             i > Answered + 1 => issued[i] # Current /\ issued[i] \in Ops
      BY <1>3, OtherName DEF QueueInv
    <2>2. \A o \in Ops : o \notin Issued => o # Current
      BY <1>3 DEF Issued
    <2> QED
      BY <1>1, <1>2, <1>5, <1>6, <2>1, <2>2 DEF Quiet
  <1>8. \E q : Explains(q)'
    <2>2. PICK t : t = s[2]
      OBVIOUS
    <2>3. Knows(k, cursor[Current], t)'
      BY <2>2
    <2>4. (Answered < Len(issued) =>
              Knows(handler[issued[Answered + 1]], cursor[issued[Answered + 1]], t))'
      <3>1. PICK c : c = cursor'[Current]
        OBVIOUS
      <3>2. Current' = Current
        BY DEF Current
      <3>3. Knows(k, c, t)'
        BY <2>3, <3>1, <3>2
      <3>4. issued'[Answered' + 1] = Current
        BY <1>3, <1>6
      <3> QED
        BY <1>5, <3>1, <3>3, <3>4
    <2>5. (Answered < Len(issued) =>
              Knows(handler[issued[Answered + 1]], cursor[issued[Answered + 1]], s[2]))'
      BY <2>2, <2>4
    <2>6. s[2].at = Answered' + 1
      BY <1>3, <1>6
    <2>7. Explains(Tail(s))'
      BY <1>1, <2>5, <2>6, RestExplained
    <2> QED
      BY <2>7
  <1>9. \A o \in Ops : Own(o)'
    <2> TAKE o \in Ops
    <2>1. Own(o)
      BY DEF Pipe
    <2>2. CASE o = Current
      <3>1. k.sources = g.sources \cup {Current}
        <4>1. k.sources = g.sources \cup {Head(replies).op}
          BY DEF Handlers
        <4> QED
          BY <1>3, <4>1
      <3>2. H.sources \subseteq {Current}
        BY <2>1, <2>2 DEF Own, H
      <3> QED
        BY <1>3, <1>5, <2>2, <3>1, <3>2 DEF Own, Settled
    <2>3. CASE o # Current
      BY <1>1, <1>5, <2>1, <2>3 DEF Own
    <2> QED
      BY <2>2, <2>3
  <1> QED
    BY <1>7, <1>8, <1>9 DEF Pipe

\* The front call is answered.
LEMMA AnswerKeeps ==
    ASSUME Types, QueueInv, Pipe, closed \in {"no", "server"}, NEW s, Explains(s),
           NEW type, Handled(type), Ends(type), ~crashed, crashed' = crashed,
           Gather(H), NEW r, Done(Current, r), r.status \in {"resolved", "error"},
           r = IF type = "Error" THEN Rejected("error") ELSE Fulfilled(Gathered(H)),
           UNCHANGED <<issued, kind, cursor, requests, closed>>,
           Ended(s[1], type, kind[Current], s[2]),
           answer[Current] = Decided(s[1], type)
    PROVE  Pipe'
  <1>1. /\ replies # <<>> /\ Head(replies).type = type /\ replies' = Tail(replies)
        /\ phase' = phase /\ answer' = answer
    BY DEF Handled, Received, Consume
  <1>2. Quiet
    BY DEF Pipe
  <1>3. /\ s[1].at = Answered + 1 /\ Answered + 1 \in 1 .. Len(issued)
        /\ issued[Answered + 1] = Current /\ Current \in Ops /\ ~Settled(Current)
        /\ Head(replies).op = Current /\ H \in Handlers /\ NoHole(H) /\ workQueue # <<>>
        /\ Shape(s[1], kind[Current]) /\ Knows(H, cursor[Current], s[1]) /\ s[1] \in States
        /\ kind[Current] \in AllKinds
    <2>1. type # "GlobalNotice"
      BY DEF Ends
    <2> QED
      BY <1>1, <1>2, <2>1, FrontMessage
  <1>4. PICK k : k = [H EXCEPT !.sources = @ \cup {Head(replies).op}]
    OBVIOUS
  <1>5. /\ handler'[Current] = k
        /\ \A o \in Ops : o # Current => handler'[o] = handler[o]
    BY <1>3, <1>4 DEF Gather, Types
  <1>6. workQueue' = Tail(workQueue) /\ outcome' = [outcome EXCEPT ![Current] = r]
    BY DEF Done
  <1>7. Answered' = Answered + 1 /\ Answered \in Nat /\ Len(issued) \in Nat
    <2>1. Len(workQueue) \in Nat /\ Len(workQueue) >= 1 /\ Len(workQueue) <= Len(issued)
      BY <1>3, EmptySeq DEF QueueInv
    <2>2. Len(workQueue') = Len(workQueue) - 1
      BY <1>6, <2>1, TailElements DEF QueueInv
    <2>3. Len(issued) \in Nat
      BY DEF QueueInv
    <2> QED
      BY <2>1, <2>2, <2>3 DEF Answered
  <1>8. \A i \in 1 .. Len(issued) : i > Answered + 1 => issued[i] # Current /\ issued[i] \in Ops
    BY <1>3, OtherName DEF QueueInv
  <1>9. Quiet'
    <2>1. Issued' = Issued
      BY DEF Issued
    <2>2. \A o \in Ops : o \notin Issued => o # Current
      BY <1>3 DEF Issued
    <2>3. \A i \in 1 .. Len(issued) : i > Answered' + 1 => handler'[issued[i]] = NewHandler
      BY <1>2, <1>5, <1>7, <1>8 DEF Quiet
    <2>4. \A i \in 1 .. Len(issued) : i > Answered' => kind[issued[i]] # "authenticate"
      BY <1>2, <1>7 DEF Quiet
    <2> QED
      BY <1>1, <1>2, <1>5, <2>1, <2>2, <2>3, <2>4 DEF Quiet
  <1>10. s[2] = Beginning(s[1].at + 1)
    BY DEF Ended
  <1>11. PICK t : t = s[2]
    OBVIOUS
  <1>12. t = Beginning(Answered' + 1) /\ t.at = Answered' + 1
    <2>1. s[1].at + 1 = Answered' + 1
      BY <1>3, <1>7
    <2> QED
      BY <1>10, <1>11, <2>1 DEF Beginning
  <1>13. \E q : Explains(q)'
    <2>1. Awaiting(s[Len(s)].at)'
      <3>1. PICK b : b = s[Len(s)].at
        OBVIOUS
      <3>2. Awaiting(b) /\ replies \in Seq(Messages) /\ type # "AuthenticateContinue"
        BY <3>1 DEF Explains, Types, Ends
      <3>3. Awaiting(b)'
        BY <1>1, <3>2, StillAwaiting
      <3> QED
        BY <3>1, <3>3
    <2>2. (Answered < Len(issued) =>
              Knows(handler[issued[Answered + 1]], cursor[issued[Answered + 1]], t))'
      <3> SUFFICES ASSUME Answered' < Len(issued)
                   PROVE  Knows(handler[issued[Answered + 1]], cursor[issued[Answered + 1]], t)'
        OBVIOUS
      <3>1. PICK j : j = Answered' + 1
        OBVIOUS
      <3>2. j \in 1 .. Len(issued) /\ j > Answered + 1
        BY <1>7, <3>1
      <3>3. handler'[issued[j]] = NewHandler
        BY <1>2, <1>5, <1>8, <3>2 DEF Quiet
      <3>4. PICK c : c = cursor'[issued[j]]
        OBVIOUS
      <3>5. Knows(NewHandler, c, t)
        BY <1>12, BeginningKnown
      <3>6. Knows(NewHandler, c, t)'
        BY <3>5 DEF Knows
      <3> QED
        BY <3>1, <3>3, <3>4, <3>6
    <2>3. (Answered < Len(issued) =>
              Knows(handler[issued[Answered + 1]], cursor[issued[Answered + 1]], s[2]))'
      BY <1>11, <2>2
    <2>4. s[2].at = Answered' + 1
      BY <1>11, <1>12
    <2>5. Explains(Tail(s))'
      BY <1>1, <2>1, <2>3, <2>4, RestExplained
    <2> QED
      BY <2>5
  <1>14. \A o \in Ops : Own(o)'
    <2> TAKE o \in Ops
    <2>1. Own(o)
      BY DEF Pipe
    <2>2. CASE o = Current
      <3>1. k.sources \subseteq {Current}
        <4>1. k.sources = H.sources \cup {Current}
          BY <1>3, <1>4 DEF Handlers
        <4>2. H.sources \subseteq {Current}
          BY <2>1, <2>2 DEF Own, H
        <4> QED
          BY <4>1, <4>2
      <3>2. outcome'[o] = r /\ answer'[o] = Decided(s[1], type)
        BY <1>1, <1>3, <1>6, <2>2 DEF Types
      <3>3. /\ k.pushed = H.pushed /\ k.metadataCalls = H.metadataCalls
        BY <1>3, <1>4 DEF Handlers
      <3>4. CASE type = "Error"
        BY <1>5, <2>2, <3>1, <3>2, <3>4 DEF Own, Decided, Rejected
      <3>5. CASE type # "Error"
        <4>1. ~Describing(s[1].phase)
          BY <1>3, <3>5 DEF Ended, Shape, Describing
        <4>2. PICK now : now = s[1]
          OBVIOUS
        <4>3. /\ Gathered(H).columns = now.draft.columns
              /\ Gathered(H).notices = now.draft.notices
              /\ cursor[Current] = "none" => Gathered(H).rows = now.draft.rows
              /\ cursor[Current] # "none" => H.pushed = PerSet(now.draft.rows)
              /\ cursor[Current] = "both" =>
                    H.metadataCalls = Cardinality(Filled(now.draft.rows))
          BY <1>3, <4>1, <4>2, GatheredIsSaid
        <4>4. /\ outcome'[o].status = "resolved" /\ outcome'[o].result = Gathered(H)
              /\ answer'[o].status = "resolved" /\ answer'[o].result = now.draft
          BY <3>2, <3>5, <4>2 DEF Decided, Fulfilled
        <4>5. /\ handler'[o].sources \subseteq {o} /\ handler'[o].pushed = H.pushed
              /\ handler'[o].metadataCalls = H.metadataCalls /\ cursor'[o] = cursor[Current]
          BY <1>5, <2>2, <3>1, <3>3
        <4> QED
          BY <4>3, <4>4, <4>5 DEF Own
      <3> QED
        BY <3>4, <3>5
    <2>3. CASE o # Current
      <3>1. outcome'[o] = outcome[o]
        BY <1>6, <2>3 DEF Types
      <3> QED
        BY <1>1, <1>5, <2>1, <2>3, <3>1 DEF Own
    <2> QED
      BY <2>2, <2>3
  <1> QED
    BY <1>9, <1>13, <1>14 DEF Pipe

\* A handler also notes whose message it has got.
LEMMA SourcesAside ==
    ASSUME NEW g \in Handlers, NEW o \in Ops
    PROVE  LET k == [g EXCEPT !.sources = @ \cup {o}]
           IN k \in Handlers /\ \A c, t : Knows(g, c, t)' => Knows(k, c, t)'
  <1>1. PICK k : k = [g EXCEPT !.sources = @ \cup {o}]
    OBVIOUS
  <1>2. k \in Handlers
    BY <1>1 DEF Handlers
  <1>3. /\ k.results = g.results /\ k.resultIndex = g.resultIndex
        /\ k.current = g.current /\ k.metadata = g.metadata /\ k.notices = g.notices
        /\ k.pushed = g.pushed /\ k.metadataCalls = g.metadataCalls
        /\ k.metadataCalled = g.metadataCalled
    BY <1>1 DEF Handlers
  <1>4. ASSUME NEW c, NEW t, Knows(g, c, t)' PROVE Knows(k, c, t)'
    BY <1>3, <1>4 DEF Knows
  <1> QED
    BY <1>1, <1>2, <1>4

\* What a message for the front handler can be.
LEMMA MessageSays ==
    ASSUME Types, QueueInv, Quiet, NEW s, Explains(s), NEW type, Handled(type)
    PROVE  /\ type # "GlobalNotice"
           /\ \/ Continued(s[1], type, kind[Current], s[2])
              \/ /\ Ended(s[1], type, kind[Current], s[2])
                 /\ answer[Current] = Decided(s[1], type)
  <1>1. replies # <<>> /\ Head(replies).type = type /\ type \in Handles(kind[Current])
    BY DEF Handled, Received
  <1>2. kind[Current] \in AllKinds
    BY CurrentType DEF Handled, Types
  <1>3. type # "GlobalNotice" /\ type # "Other"
    BY <1>1, <1>2 DEF Handles, AllKinds
  <1> QED
    BY <1>1, <1>3, FrontMessage DEF Says

\* A message that is not the last of its reply, handled by gathering it.
LEMMA PartKeeps ==
    ASSUME Types, QueueInv, Pipe, closed \in {"no", "server"}, NEW s, Explains(s),
           NEW type, Handled(type), Awaiting(s[Len(s)].at)',
           NEW g \in Handlers, Gather(g), g.sources = H.sources,
           UNCHANGED <<issued, kind, cursor, workQueue, outcome, closed>>,
           Continued(s[1], type, kind[Current], s[2]),
           NEW c, c = cursor[Current], NEW t, t = s[2], Knows(g, c, t)'
    PROVE  Pipe'
  <1>1. replies # <<>>
    BY DEF Handled, Received
  <1>2. Head(replies).op \in Ops
    <2>1. Head(replies) \in Messages
      BY <1>1, HeadTailProperties DEF Types
    <2> QED
      BY <2>1 DEF Messages
  <1>3. PICK k : k = [g EXCEPT !.sources = @ \cup {Head(replies).op}]
    OBVIOUS
  <1>4. k \in Handlers /\ Knows(k, c, t)'
    BY <1>2, <1>3, SourcesAside
  <1>5. Knows(k, cursor[Current], s[2])'
    <2>1. c = cursor'[Current']
      BY DEF Current
    <2> QED
      BY <1>4, <2>1
  <1>6. s[2].at = s[1].at
    BY DEF Continued
  <1> QED
    BY <1>3, <1>4, <1>5, <1>6, GatherKeeps

\* Parts of a reply keep everything.
LEMMA PartsKeep ==
    ASSUME Types, QueueInv, Pipe, closed \in {"no", "server"}, NEW s, Explains(s),
           \/ OnColumnMetaData \/ OnRow \/ OnRowCursor \/ OnFetchDone
           \/ OnFetchDoneMoreResultsets \/ OnNotice
    PROVE  Pipe'
  <1>0. Quiet
    BY DEF Pipe
  <1>1. PICK type \in {"ColumnMetaData", "Row", "FetchDone", "FetchDoneMoreResultsets", "Notice"} :
           Handled(type)
    BY DEF OnColumnMetaData, OnRow, OnRowCursor, OnFetchDone, OnFetchDoneMoreResultsets, OnNotice
  <1>2. /\ replies # <<>> /\ Head(replies).type = type /\ replies' = Tail(replies)
        /\ phase' = phase /\ answer' = answer /\ ~crashed /\ workQueue # <<>>
    BY <1>1 DEF Handled, Received, Consume
  <1>3. UNCHANGED <<issued, kind, cursor, workQueue, outcome, requests, closed>>
    BY DEF OnColumnMetaData, OnRow, OnRowCursor, OnFetchDone, OnFetchDoneMoreResultsets, OnNotice
  <1>4. Awaiting(s[Len(s)].at)'
    <2>1. PICK b : b = s[Len(s)].at
      OBVIOUS
    <2>2. Awaiting(b) /\ replies \in Seq(Messages) /\ type # "AuthenticateContinue"
      BY <1>1, <2>1 DEF Explains, Types
    <2>3. Awaiting(b)'
      BY <1>2, <1>3, <2>2, StillAwaiting
    <2> QED
      BY <2>1, <2>3
  <1>5. PICK now, t : now = s[1] /\ t = s[2]
    OBVIOUS
  <1>6. Continued(now, type, kind[Current], t)
    BY <1>0, <1>1, <1>5, MessageSays DEF Ended
  <1>7. PICK h, c : h = H /\ c = cursor[Current]
    OBVIOUS
  <1>8. /\ now \in States /\ t \in States /\ h \in Handlers /\ NoHole(h)
        /\ Shape(now, kind[Current]) /\ Shape(t, kind[Current]) /\ Knows(h, c, now)
    <2>1. s[2].at = s[1].at
      BY <1>5, <1>6 DEF Continued
    <2> QED
      BY <1>0, <1>2, <1>5, <1>7, <2>1, FrontMessage
  <1>9. type # "Notice" => kind[Current] = "result" /\ Describes(now, type, t)
    BY <1>1, <1>6 DEF Continued
  <1>10. \E g \in Handlers : Gather(g) /\ g.sources = h.sources /\ Knows(g, c, t)'
    <2>1. CASE OnColumnMetaData
      <3>1. Gather(NewColumn(h)) /\ crashed' = crashed /\ Handled("ColumnMetaData")
        BY <1>7, <2>1 DEF OnColumnMetaData
      <3>2. type = "ColumnMetaData"
        BY <1>2, <3>1 DEF Handled, Received
      <3>3. Knows(NewColumn(h), c, t)'
        BY <1>8, <1>9, <3>1, <3>2, KnowsColumn
      <3>4. NewColumn(h) \in Handlers /\ NewColumn(h).sources = h.sources
        BY <1>8, HandlerUpdates DEF NewColumn, Handlers
      <3> QED
        BY <3>1, <3>3, <3>4
    <2>2. CASE OnRow
      <3>1. /\ Handled("Row") /\ c = "none" /\ crashed' = crashed
            /\ LET rows == IF Assigned(h, h.resultIndex) THEN h.results ELSE Append(h.results, 0)
               IN Gather([h EXCEPT !.results = Increment(rows, h.resultIndex)])
        BY <1>7, <2>2 DEF OnRow
      <3>2. type = "Row"
        BY <1>2, <3>1 DEF Handled, Received
      <3>3. PICK rows : rows = IF Assigned(h, h.resultIndex) THEN h.results ELSE Append(h.results, 0)
        OBVIOUS
      <3>4. PICK g : g = [h EXCEPT !.results = Increment(rows, h.resultIndex)]
        OBVIOUS
      <3>5. g \in Handlers
        BY <1>8, <3>3, <3>4, RowTypes
      <3>6. g.sources = h.sources
        BY <1>8, <3>4 DEF Handlers
      <3>7. Knows(g, c, t)'
        BY <1>2, <1>8, <1>9, <3>1, <3>2, <3>3, <3>4, KnowsRow
      <3> QED
        BY <3>1, <3>3, <3>4, <3>5, <3>6, <3>7
    <2>3. CASE OnRowCursor
      <3>1. PICK called, calls, pushed :
               /\ called = (h.metadataCalled \/ CallMetadata(h))
               /\ calls = IF CallMetadata(h) THEN h.metadataCalls + 1 ELSE h.metadataCalls
               /\ pushed = IF c = "meta" THEN h.pushed ELSE Increment(h.pushed, h.resultIndex)
        OBVIOUS
      <3>2. PICK g : g = [h EXCEPT !.metadataCalled = called, !.metadataCalls = calls,
                                   !.pushed = pushed]
        OBVIOUS
      <3>3. /\ Handled("Row") /\ c # "none" /\ crashed' = (c = "meta")
            /\ Gather(g)
        BY <1>7, <2>3, <3>1, <3>2 DEF OnRowCursor
      <3>4. type = "Row"
        BY <1>2, <3>3 DEF Handled, Received
      <3>5. called \in BOOLEAN /\ calls \in Nat /\ pushed \in [1 .. MaxSets -> Nat]
        <4>1. /\ h.metadataCalled \in BOOLEAN /\ h.metadataCalls \in Nat
              /\ h.pushed \in [1 .. MaxSets -> Nat]
          BY <1>8 DEF Handlers
        <4>2. Increment(h.pushed, h.resultIndex) \in [1 .. MaxSets -> Nat]
          BY <4>1, Incremented
        <4>3. CallMetadata(h) \in BOOLEAN
          BY DEF CallMetadata
        <4>4. called \in BOOLEAN
          BY <3>1, <4>1, <4>3
        <4>5. calls \in Nat
          BY <3>1, <4>1
        <4> QED
          BY <3>1, <4>1, <4>2, <4>4, <4>5
      <3>6. g \in Handlers
        BY <1>8, <3>2, <3>5, HandlerUpdates
      <3>7. /\ g.sources = h.sources /\ g.results = h.results
            /\ g.resultIndex = h.resultIndex /\ g.current = h.current
            /\ g.metadata = h.metadata /\ g.notices = h.notices
            /\ g.metadataCalled = called /\ g.metadataCalls = calls /\ g.pushed = pushed
        BY <1>8, <3>2 DEF Handlers
      <3>8. CallMetadata(h) <=> c \in {"both", "meta"} /\ ~h.metadataCalled
        BY <1>7 DEF CallMetadata
      <3>9. /\ c # "meta" => g.pushed = Increment(h.pushed, h.resultIndex)
            /\ c = "both" =>
                  /\ g.metadataCalled = TRUE
                  /\ g.metadataCalls = IF h.metadataCalled THEN h.metadataCalls
                                       ELSE h.metadataCalls + 1
        BY <3>1, <3>7, <3>8
      <3>10. Knows(g, c, t)'
        BY <1>2, <1>8, <1>9, <3>3, <3>4, <3>7, <3>9, KnowsRow
      <3> QED
        BY <3>3, <3>6, <3>7, <3>10
    <2>4. CASE OnFetchDone
      <3>1. PICK g : g = [h EXCEPT !.metadata = Append(@, h.current), !.current = ClearMetadata(h)]
        OBVIOUS
      <3>2. Gather(g) /\ crashed' = crashed /\ Handled("FetchDone")
        BY <1>7, <2>4, <3>1 DEF OnFetchDone
      <3>3. type = "FetchDone"
        BY <1>2, <3>2 DEF Handled, Received
      <3>4. Knows(g, c, t)'
        BY <1>8, <1>9, <3>1, <3>2, <3>3, KnowsFetchDone
      <3>5. g \in Handlers /\ g.sources = h.sources
        BY <1>8, <3>1, HandlerUpdates DEF ClearMetadata, Handlers
      <3> QED
        BY <3>2, <3>4, <3>5
    <2>5. CASE OnFetchDoneMoreResultsets
      <3>1. PICK g : g = [h EXCEPT !.metadata = Append(@, h.current), !.current = ClearMetadata(h),
                                   !.results = EmptySet(h), !.resultIndex = @ + 1]
        OBVIOUS
      <3>2. Gather(g) /\ crashed' = crashed /\ Handled("FetchDoneMoreResultsets")
        BY <1>7, <2>5, <3>1 DEF OnFetchDoneMoreResultsets
      <3>3. type = "FetchDoneMoreResultsets"
        BY <1>2, <3>2 DEF Handled, Received
      <3>4. Knows(g, c, t)'
        BY <1>8, <1>9, <3>1, <3>2, <3>3, KnowsFetchDone
      <3>5. /\ EmptySet(h) \in Seq(Nat) /\ Append(h.metadata, h.current) \in Seq(Nat)
            /\ h.resultIndex + 1 \in Nat \ {0}
        BY <1>8, EmptySetProperties DEF Handlers
      <3>6. g \in Handlers /\ g.sources = h.sources
        BY <1>8, <3>1, <3>5 DEF ClearMetadata, Handlers
      <3> QED
        BY <3>2, <3>4, <3>6
    <2>6. CASE OnNotice
      <3>1. PICK g : g = [h EXCEPT !.notices = @ + 1]
        OBVIOUS
      <3>2. Gather(g) /\ crashed' = crashed /\ Handled("Notice")
        BY <1>7, <2>6, <3>1 DEF OnNotice
      <3>3. type = "Notice"
        BY <1>2, <3>2 DEF Handled, Received
      <3>4. /\ t.phase = now.phase /\ t.draft = [now.draft EXCEPT !.notices = 1]
            /\ now.draft.notices = 0
        BY <1>6, <3>3 DEF Continued, Describes
      <3>5. Knows(g, c, t)'
        <4>1. h \in Handlers /\ now \in States /\ Knows(h, c, now) /\ crashed' = crashed
          BY <1>8, <3>2
        <4>2. Knows([h EXCEPT !.notices = @ + 1], c, t)'
          BY <3>4, <4>1, KnowsNotice
        <4> QED
          BY <3>1, <4>2
      <3>6. g \in Handlers /\ g.sources = h.sources
        BY <1>8, <3>1, HandlerUpdates DEF Handlers
      <3> QED
        BY <3>2, <3>5, <3>6
    <2> QED
      BY <2>1, <2>2, <2>3, <2>4, <2>5, <2>6
  <1>11. PICK g \in Handlers : Gather(g) /\ g.sources = h.sources /\ Knows(g, c, t)'
    BY <1>10
  <1> QED
    BY <1>1, <1>3, <1>4, <1>5, <1>6, <1>7, <1>11, PartKeeps

\* The last message of a reply settles its call as the server decided.
LEMMA AnswersKeep ==
    ASSUME Types, QueueInv, Pipe, closed \in {"no", "server"}, NEW s, Explains(s),
           OnStmtExecuteOk \/ OnOk \/ OnError
    PROVE  Pipe'
  <1>1. PICK type : Handled(type) /\ Ends(type)
    BY DEF OnStmtExecuteOk, OnOk, OnError, Ends
  <1>2. ~crashed /\ crashed' = crashed /\ Gather(H) /\ Head(replies).type = type
    BY <1>1 DEF OnStmtExecuteOk, OnOk, OnError, Handled, Received
  <1>3. UNCHANGED <<issued, kind, cursor, requests, closed>>
    BY DEF OnStmtExecuteOk, OnOk, OnError
  <1>4. PICK r : r = IF type = "Error" THEN Rejected("error") ELSE Fulfilled(Gathered(H))
    OBVIOUS
  <1>5. Done(Current, r) /\ r.status \in {"resolved", "error"}
    <2>1. CASE OnError
      <3>1. type = "Error"
        BY <1>2, <2>1 DEF OnError, Handled, Received
      <3> QED
        BY <1>4, <2>1, <3>1 DEF OnError, Rejected
    <2>2. CASE OnStmtExecuteOk \/ OnOk
      <3>1. type # "Error"
        BY <1>2, <2>2 DEF OnStmtExecuteOk, OnOk, Handled, Received
      <3> QED
        BY <1>4, <2>2, <3>1 DEF OnStmtExecuteOk, OnOk, Fulfilled
    <2> QED
      BY <2>1, <2>2
  <1>6. Ended(s[1], type, kind[Current], s[2]) /\ answer[Current] = Decided(s[1], type)
    <2>1. Quiet
      BY DEF Pipe
    <2> QED
      BY <1>1, <2>1, MessageSays DEF Continued, Describes, Ends
  <1> QED
    BY <1>1, <1>2, <1>3, <1>4, <1>5, <1>6, AnswerKeeps

\* The challenge of an authentication is answered, or the plug-in throws.
LEMMA ChallengeKeeps ==
    ASSUME Types, QueueInv, Pipe, closed \in {"no", "server"}, NEW s, Explains(s),
           OnAuthenticateContinue
    PROVE  Pipe'
  <1>0. Quiet
    BY DEF Pipe
  <1>1. Handled("AuthenticateContinue") /\ Gather(H) /\ UNCHANGED <<issued, kind, cursor, crashed>>
    BY DEF OnAuthenticateContinue
  <1>2. /\ replies # <<>> /\ Head(replies).type = "AuthenticateContinue"
        /\ replies' = Tail(replies) /\ phase' = phase /\ answer' = answer
        /\ workQueue # <<>>
    BY <1>1 DEF Handled, Received, Consume
  <1>3. PICK now, t, b : now = s[1] /\ t = s[2] /\ b = s[Len(s)].at
    OBVIOUS
  <1>4. Continued(now, "AuthenticateContinue", kind[Current], t)
    BY <1>0, <1>1, <1>3, MessageSays DEF Ended
  <1>5. /\ kind[Current] = "authenticate" /\ now.phase = "idle" /\ t.phase = "wait"
        /\ t.draft = now.draft
    BY <1>4 DEF Continued, Describes
  <1>6. /\ now.at = Answered + 1 /\ now.at \in 1 .. Len(issued) /\ issued[now.at] = Current
        /\ Current \in Ops /\ H \in Handlers /\ Knows(H, cursor[Current], now)
        /\ Head(replies).op = Current
    BY <1>0, <1>2, <1>3, FrontMessage
  <1>7. PICK n \in Nat : n = Len(replies) /\ n >= 1
    <2>1. Len(replies) \in Nat
      BY DEF Types
    <2> QED
      BY <1>2, <2>1, EmptySeq DEF Types
  <1>8. InFlight(1) /\ DOMAIN replies = 1 .. n
    <2>1. DOMAIN replies = 1 .. n /\ Head(replies) = replies[1] /\ 1 \in 1 .. n
      BY <1>2, <1>7 DEF Types
    <2> QED
      BY <1>2, <2>1 DEF InFlight
  <1>9. /\ phase = "wait" /\ b = Len(issued) /\ requests = Requests(b)
        /\ \A j \in 1 .. n : j > 1 => replies[j].type = "GlobalNotice"
    <2>1. Awaiting(b) /\ 1 \in DOMAIN replies
      BY <1>3, <1>8 DEF Explains, InFlight
    <2> QED
      BY <1>8, <2>1 DEF Awaiting
  <1>10. now.at = Len(issued) /\ now.at = b
    <2>1. now.at > Answered
      BY <1>6 DEF QueueInv, Answered
    <2>2. now.at = Len(issued)
      BY <1>0, <1>5, <1>6, <2>1 DEF Quiet
    <2> QED
      BY <1>9, <2>2
  <1>11. PICK p : p = Tail(replies)
    OBVIOUS
  <1>12. DOMAIN p = 1 .. n - 1 /\ \A i \in 1 .. n - 1 : p[i].type = "GlobalNotice"
    <2>1. p \in Seq(Messages) /\ Len(p) = n - 1 /\ \A i \in 1 .. n - 1 : p[i] = replies[i + 1]
      BY <1>7, <1>11, TailElements DEF Types
    <2>2. \A i \in 1 .. n - 1 : i + 1 \in 1 .. n /\ i + 1 > 1
      BY <1>7
    <2>3. DOMAIN p = 1 .. Len(p)
      BY <2>1
    <2> QED
      BY <1>9, <2>1, <2>2, <2>3
  <1>13. replies' = p
    BY <1>2, <1>11
  <1>14. CASE /\ requests' = Append(requests, Message("continue", Current))
              /\ UNCHANGED <<workQueue, outcome, closed>>
    <2>1. Awaiting(b)'
      <3>1. Requests(b)' = Requests(b)
        BY <1>1 DEF Requests
      <3>2. (\A i \in DOMAIN replies : ~InFlight(i))'
        BY <1>12, <1>13 DEF InFlight
      <3>3. requests' = Append(Requests(b)', Message("continue", issued'[b]))
        BY <1>1, <1>6, <1>9, <1>10, <1>14, <3>1
      <3>4. phase' = "wait" /\ b = Len(issued') /\ kind'[issued'[b]] = "authenticate"
        BY <1>1, <1>2, <1>5, <1>6, <1>9, <1>10
      <3> QED
        BY <3>2, <3>3, <3>4 DEF Awaiting
    <2>2. Awaiting(s[Len(s)].at)'
      BY <1>3, <2>1
    <2>3. PICK g, c : g = H /\ c = cursor[Current]
      OBVIOUS
    <2>4. Knows(g, c, t)'
      BY <1>1, <1>5, <1>6, <2>3, KnowsChallenge
    <2>5. UNCHANGED <<issued, kind, cursor, workQueue, outcome, closed>>
      BY <1>1, <1>14
    <2> QED
      BY <1>1, <1>3, <1>4, <1>6, <2>2, <2>3, <2>4, <2>5, PartKeeps
  <1>15. CASE Done(Current, Rejected("plugin")) /\ closed' = "client"
    <2>1. workQueue' = <<>>
      <3>0. workQueue \in Seq(Ops) /\ Len(workQueue) \in Nat /\ Len(issued) \in Nat
        BY DEF QueueInv
      <3>1. Len(workQueue) = 1
        <4>1. Answered + 1 = Len(issued)
          BY <1>6, <1>10
        <4>2. Len(issued) - Len(workQueue) + 1 = Len(issued)
          BY <4>1 DEF Answered
        <4>3. ASSUME NEW x \in Nat, NEW y \in Nat, x - y + 1 = x PROVE y = 1
          BY <4>3
        <4> QED
          BY <3>0, <4>2, <4>3
      <3>2. Tail(workQueue) \in Seq(Ops) /\ Len(Tail(workQueue)) = 0
        BY <3>0, <3>1, TailElements
      <3>3. Tail(workQueue) = <<>>
        BY <3>2, EmptySeq
      <3> QED
        BY <1>15, <3>3 DEF Done
    <2>2. \A o \in Ops : Own(o)'
      <3> TAKE o \in Ops
      <3>1. Own(o) /\ outcome' = [outcome EXCEPT ![Current] = Rejected("plugin")]
        BY <1>15 DEF Pipe, Done
      <3>2. handler' = [handler EXCEPT ![Current] = [H EXCEPT !.sources = @ \cup {Current}]]
        BY <1>1, <1>6 DEF Gather
      <3>3. CASE o = Current
        <4>1. handler'[o].sources = H.sources \cup {Current}
          BY <1>6, <3>2, <3>3 DEF Types, Handlers
        <4>2. outcome'[o].status = "plugin" /\ H.sources \subseteq {Current}
          BY <1>6, <3>1, <3>3 DEF Types, Rejected, Own, H
        <4> QED
          BY <3>3, <4>1, <4>2 DEF Own
      <3>4. CASE o # Current
        <4>1. handler'[o] = handler[o] /\ outcome'[o] = outcome[o]
          BY <3>1, <3>2, <3>4 DEF Types
        <4> QED
          BY <1>1, <1>2, <3>1, <4>1 DEF Own
      <3> QED
        BY <3>3, <3>4
    <2> QED
      BY <1>12, <1>13, <1>15, <2>1, <2>2 DEF Pipe
  <1> QED
    BY <1>14, <1>15 DEF OnAuthenticateContinue

\* A notice about no call passes the handlers by.
LEMMA GlobalKeeps ==
    ASSUME Types, QueueInv, Pipe, OnGlobalNotice
    PROVE  Pipe'
  <1>1. /\ replies # <<>> /\ Head(replies).type = "GlobalNotice" /\ replies' = Tail(replies)
        /\ UNCHANGED <<phase, answer, requests, closed>>
        /\ UNCHANGED <<issued, kind, cursor, workQueue, handler, outcome, crashed>>
    BY DEF OnGlobalNotice, Received, Consume, clientVars
  <1>2. Answered' = Answered /\ Issued' = Issued
    BY <1>1 DEF Answered, Issued
  <1>3. \A o \in Ops : Own(o)'
    BY <1>1 DEF Pipe, Own
  <1>4. ASSUME closed \in {"no", "server"} PROVE Quiet' /\ \E s : Explains(s)'
    <2>1. Quiet
      BY <1>4 DEF Pipe
    <2>2. Quiet'
      BY <1>1, <1>2, <2>1 DEF Quiet
    <2>3. PICK s : Explains(s)
      BY <1>4 DEF Pipe
    <2>4. s[2] = s[1] /\ s[1].at = Answered + 1 /\ Answered + 1 \in 1 .. Len(issued)
      BY <1>1, <2>1, <2>3, FrontMessage DEF Says, Continued, Describes, Ended
    <2>5. Awaiting(s[Len(s)].at)'
      <3>1. PICK b : b = s[Len(s)].at
        OBVIOUS
      <3>2. Awaiting(b) /\ replies \in Seq(Messages)
        BY <2>3, <3>1 DEF Explains, Types
      <3>3. Awaiting(b)'
        BY <1>1, <3>2, StillAwaiting
      <3> QED
        BY <3>1, <3>3
    <2>6. (Answered < Len(issued) =>
              Knows(handler[issued[Answered + 1]], cursor[issued[Answered + 1]], s[2]))'
      <3>1. PICK t : t = s[1]
        OBVIOUS
      <3>2. Answered < Len(issued) =>
               Knows(handler[issued[Answered + 1]], cursor[issued[Answered + 1]], t)
        BY <2>3, <3>1 DEF Explains
      <3>3. (Answered < Len(issued) =>
               Knows(handler[issued[Answered + 1]], cursor[issued[Answered + 1]], t))'
        BY <1>1, <1>2, <3>2 DEF Knows
      <3> QED
        BY <2>4, <3>1, <3>3
    <2>7. Explains(Tail(s))'
      BY <1>1, <1>2, <2>3, <2>4, <2>5, <2>6, RestExplained
    <2> QED
      BY <2>2, <2>7
  <1>5. ASSUME closed = "client" PROVE (\A i \in DOMAIN replies : replies[i].type = "GlobalNotice")'
    <2>1. PICK n \in Nat : n = Len(replies) /\ n >= 1
      <3>1. Len(replies) \in Nat
        BY DEF Types
      <3> QED
        BY <1>1, <3>1, EmptySeq DEF Types
    <2>2. PICK p : p = Tail(replies)
      OBVIOUS
    <2>3. p \in Seq(Messages) /\ Len(p) = n - 1 /\ \A i \in 1 .. n - 1 : p[i] = replies[i + 1]
      BY <2>1, <2>2, TailElements DEF Types
    <2>4. DOMAIN p = 1 .. n - 1 /\ DOMAIN replies = 1 .. n
      <3>1. DOMAIN p = 1 .. Len(p) /\ DOMAIN replies = 1 .. Len(replies)
        BY <2>3 DEF Types
      <3> QED
        BY <2>1, <2>3, <3>1
    <2>5. \A i \in 1 .. n - 1 : i + 1 \in 1 .. n
      BY <2>1
    <2>6. \A i \in 1 .. n - 1 : p[i].type = "GlobalNotice"
      BY <1>5, <2>3, <2>4, <2>5 DEF Pipe
    <2> QED
      BY <1>1, <2>2, <2>4, <2>6
  <1>6. closed \notin {"handled", "gone"}
    BY <1>1 DEF Pipe
  <1>7. closed \in {"no", "server", "client"}
    BY <1>6 DEF Types
  <1> QED
    BY <1>1, <1>3, <1>4, <1>5, <1>7 DEF Pipe

\* A message that is not a global notice finds the handler of its call.
LEMMA QueueServed ==
    ASSUME Types, QueueInv, Pipe, replies # <<>>, Head(replies).type # "GlobalNotice"
    PROVE  closed \in {"no", "server"} /\ workQueue # <<>>
  <1>1. closed # "client"
    <2>1. Len(replies) >= 1 /\ DOMAIN replies = 1 .. Len(replies) /\ Head(replies) = replies[1]
      BY EmptySeq DEF Types
    <2> QED
      BY <2>1 DEF Pipe
  <1>2. closed \in {"no", "server"}
    BY <1>1 DEF Pipe, Types
  <1>3. workQueue # <<>>
    BY <1>2, FrontMessage DEF Pipe
  <1> QED
    BY <1>2, <1>3

\* Whatever message comes.
LEMMA HandleKeeps ==
    ASSUME Types, QueueInv, Pipe, HandleMessage, Expected'
    PROVE  Pipe'
  <1>1. CASE OnGlobalNotice
    BY <1>1, GlobalKeeps
  <1>2. CASE OnUnexpected
    <2>1. workQueue # <<>> /\ Done(Current, Rejected("unexpected"))
      BY <1>2 DEF OnUnexpected
    <2>2. Current \in Ops
      BY <2>1, CurrentType
    <2>3. outcome'[Current].status = "unexpected"
      BY <2>1, <2>2 DEF Done, Rejected, Types
    <2> QED
      BY <2>2, <2>3 DEF Expected
  <1>3. CASE OnEmptyQueue
    BY <1>3, QueueServed DEF OnEmptyQueue
  <1>4. CASE /\ ~OnGlobalNotice /\ ~OnUnexpected /\ ~OnEmptyQueue
    <2>1. PICK type : Handled(type) /\ type # "GlobalNotice"
      BY <1>4 DEF HandleMessage, OnColumnMetaData, OnRow, OnRowCursor, OnFetchDone,
         OnFetchDoneMoreResultsets, OnNotice, OnStmtExecuteOk, OnOk, OnError,
         OnAuthenticateContinue
    <2>2. closed \in {"no", "server"}
      BY <2>1, QueueServed DEF Handled, Received
    <2>3. PICK s : Explains(s)
      BY <2>2 DEF Pipe
    <2> QED
      BY <1>4, <2>2, <2>3, PartsKeep, AnswersKeep, ChallengeKeeps DEF HandleMessage
  <1> QED
    BY <1>1, <1>2, <1>3, <1>4

\* When the connection is lost nothing is under way any more.
LEMMA CloseKeeps ==
    ASSUME Types, QueueInv, Pipe, HandleServerClose
    PROVE  Pipe'
  <1>1. /\ closed' \in {"gone", "handled"} /\ replies' = <<>>
        /\ UNCHANGED <<cursor, handler, answer>>
        /\ outcome' = [o \in Ops |-> IF LoseCall(o) THEN Rejected("gone") ELSE outcome[o]]
    BY DEF HandleServerClose
  <1>2. \A o \in Ops : Own(o)'
    BY <1>1 DEF Pipe, Own, Rejected
  <1> QED
    BY <1>1, <1>2 DEF Pipe

LEMMA PipeStep ==
    ASSUME Types, QueueInv, PipeInv, [Next]_vars
    PROVE  PipeInv'
  <1> SUFFICES ASSUME Expected' PROVE Pipe'
    BY DEF PipeInv
  <1>1. Expected
    <2> SUFFICES ASSUME NEW o \in Ops, outcome[o].status = "unexpected" PROVE FALSE
      BY DEF Expected
    <2>1. outcome'[o] = outcome[o]
      BY SettledStays DEF Settled
    <2> QED
      BY <2>1 DEF Expected
  <1>2. Pipe
    BY <1>1 DEF PipeInv
  <1>3. CASE \E o \in Ops, k \in Kinds, c \in Cursors : Send(o, k, c)
    BY <1>2, <1>3, SendKeeps
  <1>4. CASE Serve \/ ServerGlobalNotice \/ ServerOther \/ ServerCloses
    BY <1>2, <1>4, ServerKeeps
  <1>5. CASE HandleMessage
    BY <1>2, <1>5, HandleKeeps
  <1>6. CASE HandleServerClose
    BY <1>2, <1>6, CloseKeeps
  <1>7. CASE UNCHANGED vars
    <2>1. /\ UNCHANGED <<issued, kind, cursor, workQueue, handler, outcome, crashed>>
          /\ UNCHANGED <<requests, replies, phase, answer, closed>>
      BY <1>7 DEF vars, clientVars, serverVars
    <2>2. Answered' = Answered /\ Issued' = Issued
      BY <2>1 DEF Answered, Issued
    <2>3. ASSUME Quiet PROVE Quiet'
      BY <2>1, <2>2, <2>3 DEF Quiet
    <2>4. ASSUME NEW s, Explains(s) PROVE Explains(s)'
      <3>1. Awaiting(s[Len(s)].at)' /\ Located(s[Len(s)])'
        BY <2>1, <2>4 DEF Explains, Awaiting, Requests, InFlight, Located
      <3>2. \A i \in 1 .. Len(replies) : Says(s[i], replies[i], s[i + 1])'
        BY <2>1, <2>4 DEF Explains, Says
      <3>3. (Answered < Len(issued) =>
               Knows(handler[issued[Answered + 1]], cursor[issued[Answered + 1]], s[1]))'
        BY <2>1, <2>2, <2>4 DEF Explains, Knows
      <3> QED
        BY <2>1, <2>2, <2>4, <3>1, <3>2, <3>3 DEF Explains
    <2>5. \A o \in Ops : Own(o)'
      BY <1>2, <2>1 DEF Pipe, Own
    <2> QED
      BY <1>2, <2>1, <2>3, <2>4, <2>5 DEF Pipe
  <1> QED
    BY <1>3, <1>4, <1>5, <1>6, <1>7 DEF Next

LEMMA PipeInvariant == Spec => []PipeInv
  <1>1. ASSUME Types, QueueInv, PipeInv, [Next]_vars PROVE PipeInv'
    BY <1>1, PipeStep
  <1> QED
    BY <1>1, PipeInit, TypesInvariant, QueueInvariant, PTL DEF Spec

\* A call consumes its own reply, settles with what that reply said, and calls
\* its callbacks for it: whatever is in the pipeline, whenever the connection
\* is lost, and however the server cuts what it answers into messages.
THEOREM RepliesOwned == Spec => []OwnReplies
  <1>1. PipeInv => OwnReplies
    <2> SUFFICES ASSUME PipeInv, Expected PROVE OwnReplies
      BY DEF OwnReplies, OwnMessages, OwnAnswers, MetadataOncePerSet
    <2>1. \A o \in Ops : Own(o)
      BY DEF PipeInv, Pipe
    <2>2. OwnMessages
      BY <2>1 DEF OwnMessages, Own
    <2>3. OwnAnswers
      BY <2>1 DEF OwnAnswers, Own, PerSet
    <2>4. MetadataOncePerSet
      BY <2>1 DEF MetadataOncePerSet, Own, Filled
    <2> QED
      BY <2>2, <2>3, <2>4 DEF OwnReplies
  <1> QED
    BY <1>1, PipeInvariant, PTL

-----------------------------------------------------------------------------
(* When the listener throws.                                                *)

\* Which cursors there are.
CursorsGiven == \A o \in Ops : cursor[o] \in Cursors \cup {"none"}

LEMMA CursorsStep ==
    ASSUME Types, CursorsGiven, [Next]_vars
    PROVE  CursorsGiven'
  <1>1. CASE \E o \in Ops, k \in Kinds, c \in Cursors : Send(o, k, c)
    BY <1>1 DEF Send, CursorsGiven, Types
  <1>2. CASE ~\E o \in Ops, k \in Kinds, c \in Cursors : Send(o, k, c)
    <2>1. cursor' = cursor
      BY <1>2 DEF Next, vars, clientVars, Serve, ServerOk, ServerAuthenticates, ServerFails,
         ServerColumn, ServerRow, ServerFetchDone, ServerNotice, ServerExecuteOk,
         ServerGlobalNotice, ServerOther, ServerCloses, Finish, Continues, HandleMessage,
         OnColumnMetaData, OnRow, OnRowCursor, OnFetchDone, OnFetchDoneMoreResultsets,
         OnNotice, OnStmtExecuteOk, OnOk, OnError, OnAuthenticateContinue, OnUnexpected,
         OnEmptyQueue, OnGlobalNotice, HandleServerClose
    <2> QED
      BY <2>1 DEF CursorsGiven
  <1> QED
    BY <1>1, <1>2

\* The listener throws only for a cursor without a row callback, or for a
\* message that finds no handler, and the latter never comes.
LEMMA ThrowsStep ==
    ASSUME Types, QueueInv, PipeInv, CursorsGiven, "meta" \notin Cursors, NeverThrows,
           [Next]_vars
    PROVE  NeverThrows'
  <1> SUFFICES ASSUME Expected' PROVE ~crashed'
    BY DEF NeverThrows
  <1>1. Expected
    <2> SUFFICES ASSUME NEW o \in Ops, outcome[o].status = "unexpected" PROVE FALSE
      BY DEF Expected
    <2>1. outcome'[o] = outcome[o]
      BY SettledStays DEF Settled
    <2> QED
      BY <2>1 DEF Expected
  <1>2. ~crashed /\ Pipe
    BY <1>1 DEF NeverThrows, PipeInv
  <1>3. CASE OnRowCursor
    <2>1. Current \in Ops /\ crashed' = (cursor[Current] = "meta")
      BY <1>3, CurrentType DEF OnRowCursor, Handled
    <2>2. cursor[Current] # "meta"
      BY <2>1 DEF CursorsGiven
    <2> QED
      BY <2>1, <2>2
  <1>4. CASE OnEmptyQueue
    BY <1>2, <1>4, QueueServed DEF OnEmptyQueue
  <1>5. CASE ~OnRowCursor /\ ~OnEmptyQueue
    <2>1. crashed' = crashed
      BY <1>5 DEF Next, vars, clientVars, Send, Serve, ServerOk, ServerAuthenticates, ServerFails,
         ServerColumn, ServerRow, ServerFetchDone, ServerNotice, ServerExecuteOk,
         ServerGlobalNotice, ServerOther, ServerCloses, Finish, Continues, HandleMessage,
         OnColumnMetaData, OnRow, OnFetchDone, OnFetchDoneMoreResultsets,
         OnNotice, OnStmtExecuteOk, OnOk, OnError, OnAuthenticateContinue, OnUnexpected,
         OnGlobalNotice, HandleServerClose
    <2> QED
      BY <1>2, <2>1
  <1> QED
    BY <1>3, <1>4, <1>5

\* The data listener never throws, and the process lives, as long as no cursor
\* has a metadata callback and no row callback: there is always a handler for
\* a message the server sends.
THEOREM ListenerLives ==
    ASSUME "meta" \notin Cursors
    PROVE  Spec => []NeverThrows
  <1>1. Init => CursorsGiven /\ NeverThrows
    BY DEF Init, CursorsGiven, NeverThrows
  <1>2. ASSUME Types, CursorsGiven, [Next]_vars PROVE CursorsGiven'
    BY <1>2, CursorsStep
  <1>3. ASSUME Types, QueueInv, PipeInv, CursorsGiven, NeverThrows, [Next]_vars
        PROVE  NeverThrows'
    BY <1>3, ThrowsStep
  <1> QED
    BY <1>1, <1>2, <1>3, TypesInvariant, QueueInvariant, PipeInvariant, PTL DEF Spec

-----------------------------------------------------------------------------
(* The client as a pipeline of calls.                                       *)

\* What the server has told of each call, and what its caller was given.
Told ==
    [o \in Ops |-> IF answer[o].status = "sending" THEN Pending ELSE Carried(o, answer[o])]
Given == [o \in Ops |-> Carried(o, outcome[o])]

\* The steps of the pipeline.
Issues(o) ==
    /\ o \notin Issued /\ issued' = Append(issued, o)
    /\ Told' = Told /\ Given' = Given
Decides(i) ==
    /\ \A j \in DOMAIN issued : Told[issued[j]] = Pending <=> j >= i
    /\ Told' \in [Ops -> [status : {"resolved", "error", "gone"}, result : Results]
                             \cup {Pending}]
    /\ \A o \in Ops : Told'[o] # Told[o] <=> o = issued[i]
    /\ issued' = issued /\ Given' = Given
Oldest(i) == \A j \in DOMAIN issued : Given[issued[j]] = Pending <=> j >= i
Settles(i) ==
    /\ Oldest(i) /\ Told[issued[i]] # Pending
    /\ Given' = [Given EXCEPT ![issued[i]] = Told[issued[i]]]
    /\ issued' = issued /\ Told' = Told
Abandons(i) ==
    /\ Oldest(i)
    /\ Given' = [Given EXCEPT ![issued[i]] = Rejected("plugin")]
    /\ issued' = issued /\ Told' = Told
Loses ==
    /\ \E i \in DOMAIN issued : Given[issued[i]] = Pending
    /\ Given' = [o \in Ops |-> IF Given[o] = Pending /\ o \in Issued
                               THEN Rejected("gone") ELSE Given[o]]
    /\ issued' = issued /\ Told' = Told
Rests == issued' = issued /\ Told' = Told /\ Given' = Given
PipelineStep == [Pipeline!CallsNext]_(Pipeline!callVars)

LEMMA PipelineSteps ==
    /\ \A o \in Ops : Issues(o) => PipelineStep
    /\ \A i \in DOMAIN issued : Decides(i) \/ Settles(i) \/ Abandons(i) => PipelineStep
    /\ Loses \/ Rests => PipelineStep
  <1>1. ASSUME NEW o \in Ops, Issues(o) PROVE PipelineStep
    <2>1. Pipeline!Issue(o)
      BY <1>1 DEF Issues, Pipeline!Issue, Told, Given, Issued
    <2> QED
      BY <2>1 DEF PipelineStep, Pipeline!CallsNext
  <1>2. ASSUME NEW i \in DOMAIN issued, Decides(i) PROVE PipelineStep
    <2>1. Pipeline!Decide(i)
      BY <1>2 DEF Decides, Pipeline!Decide, Told, Given, Results
    <2> QED
      BY <2>1 DEF PipelineStep, Pipeline!CallsNext
  <1>3. ASSUME NEW i \in DOMAIN issued, Settles(i) PROVE PipelineStep
    <2>1. Pipeline!Settle(i)
      BY <1>3 DEF Settles, Oldest, Pipeline!Settle, Told, Given
    <2> QED
      BY <2>1 DEF PipelineStep, Pipeline!CallsNext
  <1>4. ASSUME NEW i \in DOMAIN issued, Abandons(i) PROVE PipelineStep
    <2>1. Pipeline!Abandon(i)
      BY <1>4 DEF Abandons, Oldest, Pipeline!Abandon, Told, Given
    <2> QED
      BY <2>1 DEF PipelineStep, Pipeline!CallsNext
  <1>5. ASSUME Loses PROVE PipelineStep
    <2>1. Pipeline!Lose
      BY <1>5 DEF Loses, Pipeline!Lose, Told, Given, Issued
    <2> QED
      BY <2>1 DEF PipelineStep, Pipeline!CallsNext
  <1>6. ASSUME Rests PROVE PipelineStep
    BY <1>6 DEF Rests, PipelineStep, Pipeline!callVars, Told, Given
  <1> QED
    BY <1>1, <1>2, <1>3, <1>4, <1>5, <1>6

\* A call that is not settled shows nothing yet, and neither does the server
\* of a call that was not made.
Unsettled == \A o \in Ops : ~Settled(o) => outcome[o] = Pending
Unmade == Expected => \A o \in Ops : o \notin Issued => answer[o] = Pending

\* Calls are settled at the front of the queue, or when the connection is lost.
LEMMA ShownOnlyOnce ==
    ASSUME Types, QueueInv, Unsettled, [Next]_vars
    PROVE  Unsettled'
  <1> DEFINE Left == workQueue # <<>> /\ \E r : Done(Current, r) /\ r.status # "pending"
  <1>1. CASE outcome' = outcome
    BY <1>1 DEF Unsettled, Settled
  <1>2. CASE Left
    <2>1. PICK r : Done(Current, r) /\ r.status # "pending"
      BY <1>2
    <2>2. Current \in Ops /\ outcome' = [outcome EXCEPT ![Current] = r]
      BY <1>2, <2>1, CurrentType DEF Done
    <2> QED
      BY <2>1, <2>2 DEF Unsettled, Settled, Types
  <1>3. CASE HandleServerClose
    BY <1>3 DEF HandleServerClose, Unsettled, Settled, Rejected
  <1>4. outcome' = outcome \/ Left \/ HandleServerClose
    <2>1. ASSUME HandleMessage PROVE outcome' = outcome \/ Left
      BY <2>1 DEF HandleMessage, OnColumnMetaData, OnRow, OnRowCursor, OnFetchDone,
         OnFetchDoneMoreResultsets, OnNotice, OnStmtExecuteOk, OnOk, OnError,
         OnAuthenticateContinue, OnUnexpected, OnEmptyQueue, OnGlobalNotice, Handled,
         Fulfilled, Rejected, clientVars
    <2> QED
      BY <2>1, ServerStep DEF Next, Send, vars, clientVars
  <1> QED
    BY <1>1, <1>2, <1>3, <1>4

\* Nothing is expected after something unexpected.
LEMMA ExpectedBefore ==
    ASSUME QueueInv, [Next]_vars, Expected'
    PROVE  Expected
  <1> SUFFICES ASSUME NEW o \in Ops, outcome[o].status = "unexpected" PROVE FALSE
    BY DEF Expected
  <1>1. outcome'[o] = outcome[o]
    BY SettledStays DEF Settled
  <1> QED
    BY <1>1 DEF Expected

LEMMA UnmadeStep ==
    ASSUME QueueInv, PipeInv', Unmade, [Next]_vars
    PROVE  Unmade'
  <1> SUFFICES ASSUME Expected', NEW o \in Ops, o \notin Issued' PROVE answer'[o] = Pending
    BY DEF Unmade, Pending
  <1>1. Pipe' /\ Expected
    BY ExpectedBefore DEF PipeInv
  <1>2. CASE closed' \in {"no", "server"}
    BY <1>1, <1>2 DEF Pipe, Quiet, Pending
  <1>3. CASE closed' \notin {"no", "server"}
    <2>1. answer' = answer
      BY <1>3 DEF Next, Send, Serve, ServerOk, ServerAuthenticates, ServerFails, ServerColumn,
         ServerRow, ServerFetchDone, ServerNotice, ServerExecuteOk, Request, CanReply, Finish,
         Continues, ServerGlobalNotice, ServerOther, ServerCloses, HandleMessage,
         OnColumnMetaData, OnRow, OnRowCursor, OnFetchDone, OnFetchDoneMoreResultsets,
         OnNotice, OnStmtExecuteOk, OnOk, OnError, OnAuthenticateContinue, OnUnexpected,
         OnEmptyQueue, OnGlobalNotice, Handled, Consume, HandleServerClose, vars, serverVars
    <2>2. o \notin Issued
      <3>1. issued' = issued \/ \E p \in Ops : issued' = Append(issued, p)
        BY ServerStep DEF Next, Send, HandleMessage, OnColumnMetaData, OnRow, OnRowCursor,
           OnFetchDone, OnFetchDoneMoreResultsets, OnNotice, OnStmtExecuteOk, OnOk, OnError,
           OnAuthenticateContinue, OnUnexpected, OnEmptyQueue, OnGlobalNotice, clientVars,
           HandleServerClose, vars
      <3>2. \A i \in DOMAIN issued : i \in DOMAIN issued' /\ issued'[i] = issued[i]
        BY <3>1 DEF QueueInv
      <3> QED
        BY <3>2 DEF Issued
    <2> QED
      BY <1>1, <2>1, <2>2 DEF Unmade
  <1> QED
    BY <1>2, <1>3

\* What has no result carries none.
LEMMA CarriedPending ==
    /\ \A o \in Ops : Carried(o, Pending) = Pending
    /\ \A o \in Ops : Carried(o, Rejected("plugin")) = Rejected("plugin")
    /\ \A o \in Ops : Carried(o, Rejected("gone")) = Rejected("gone")
  BY DEF Carried, Pending, Rejected, NoResult

LEMMA CarriedType ==
    ASSUME NEW o \in Ops, NEW S, NEW r \in [status : S, result : Results]
    PROVE  /\ Carried(o, r) \in [status : S, result : Results]
           /\ Carried(o, r).status = r.status
  <1>1. <<>> \in Seq(Nat)
    OBVIOUS
  <1> QED
    BY <1>1 DEF Carried, Results

\* A call made shows as one that nobody has answered.
LEMMA IssueStep ==
    ASSUME Types, QueueInv, Unsettled, Unmade, Expected,
           NEW o \in Ops, NEW k, NEW c, Send(o, k, c)
    PROVE  Issues(o)
  <1>1. /\ o \notin Issued /\ issued' = Append(issued, o)
        /\ cursor' = [cursor EXCEPT ![o] = c] /\ UNCHANGED <<outcome, answer>>
    BY DEF Send
  <1>2. ~Settled(o)
    BY <1>1 DEF QueueInv
  <1>3. answer[o] = Pending /\ outcome[o] = Pending
    BY <1>1, <1>2 DEF Unmade, Unsettled
  <1>4. \A p \in Ops : p # o => cursor'[p] = cursor[p]
    BY <1>1 DEF Types
  <1>5. \A p \in Ops : p # o => \A r : Carried(p, r)' = Carried(p, r)
    BY <1>4 DEF Carried
  <1>6. \A p \in Ops : Carried(p, Pending)' = Pending
    BY DEF Carried, Pending, Rejected, NoResult
  <1>7. Told' = Told
    <2>1. Told'[o] = Pending /\ Told[o] = Pending
      BY <1>1, <1>3, <1>6, CarriedPending DEF Told
    <2>2. \A p \in Ops : p # o => Told'[p] = Told[p]
      BY <1>1, <1>4 DEF Told, Carried
    <2> QED
      BY <2>1, <2>2 DEF Told
  <1>8. Given' = Given
    <2>1. Given'[o] = Pending /\ Given[o] = Pending
      BY <1>1, <1>3, <1>6, CarriedPending DEF Given
    <2>2. \A p \in Ops : p # o => Given'[p] = Given[p]
      BY <1>1, <1>4 DEF Given, Carried
    <2> QED
      BY <2>1, <2>2 DEF Given
  <1> QED
    BY <1>1, <1>7, <1>8 DEF Issues

\* What the server answers a call is seen with the last message.
LEMMA ServerShows ==
    ASSUME Types, QueueInv, Quiet, NEW s, Explains(s), CanReply,
           NEW a \in [status : Statuses, result : Results],
           answer' = [answer EXCEPT ![Serving] = a],
           UNCHANGED <<issued, cursor, outcome>>
    PROVE  /\ a.status = "sending" => Rests
           /\ a.status \in {"resolved", "error"} => Decides(s[Len(s)].at)
  <1> DEFINE b == s[Len(s)].at
             answers == [status : {"resolved", "error", "gone"}, result : Results]
  <1>1. b \in 1 .. Len(issued) /\ Serving = issued[b] /\ Serving \in Ops
    BY ServingIt
  <1>2. Located(s[Len(s)]) /\ DOMAIN issued = 1 .. Len(issued)
    BY DEF Explains, QueueInv
  <1> HIDE DEF b
  <1>3. \A i \in 1 .. Len(issued) :
          /\ i < b => answer[issued[i]].status \in {"resolved", "error"}
          /\ i = b => answer[issued[i]].status \in {"pending", "sending"}
          /\ i > b => answer[issued[i]] = Pending
    BY <1>2 DEF Located, b
  <1>4. \A o \in Ops : Told[o] = IF answer[o].status = "sending" THEN Pending
                                 ELSE Carried(o, answer[o])
    BY DEF Told
  <1>5. \A o \in Ops : o # Serving => Told'[o] = Told[o]
    BY <1>1 DEF Told, Carried, Types
  <1>6. Told[Serving] = Pending
    BY <1>1, <1>3, <1>4, CarriedPending DEF Quiet
  <1>7. Told'[Serving] = IF a.status = "sending" THEN Pending ELSE Carried(Serving, a)
    BY <1>1 DEF Told, Carried, Types
  <1>8. Given' = Given
    BY DEF Given, Carried
  <1>9. ASSUME a.status = "sending" PROVE Rests
    <2>1. Told' = Told
      BY <1>5, <1>6, <1>7, <1>9 DEF Told
    <2> QED
      BY <1>8, <2>1 DEF Rests
  <1>10. ASSUME a.status \in {"resolved", "error"} PROVE Decides(b)
    <2>1. Carried(Serving, a) \in answers /\ Carried(Serving, a) # Pending
      <3>1. a \in answers
        BY <1>10
      <3>2. Carried(Serving, a) \in answers /\ Carried(Serving, a).status = a.status
        BY <1>1, <3>1, CarriedType
      <3> QED
        BY <1>10, <3>2 DEF Pending, Rejected
    <2>2. Told'[Serving] # Told[Serving] /\ Told'[Serving] \in answers
      BY <1>6, <1>7, <1>10, <2>1
    <2>3. \A j \in 1 .. Len(issued) : Told[issued[j]] = Pending <=> j >= b
      <3> TAKE j \in 1 .. Len(issued)
      <3>1. issued[j] \in Ops /\ b \in Nat /\ Len(issued) \in Nat
        BY <1>1 DEF QueueInv
      <3>2. CASE j < b
        <4>1. answer[issued[j]] \in [status : Statuses, result : Results]
          BY <3>1 DEF Types
        <4>2. Carried(issued[j], answer[issued[j]]).status = answer[issued[j]].status
          BY <4>1 DEF Carried
        <4>3. answer[issued[j]].status \in {"resolved", "error"}
          BY <1>3, <3>2
        <4>4. Told[issued[j]] = Carried(issued[j], answer[issued[j]])
          BY <1>4, <3>1, <4>3
        <4> QED
          BY <3>1, <3>2, <4>2, <4>3, <4>4 DEF Pending, Rejected
      <3>3. CASE j = b
        BY <1>1, <1>6, <3>1, <3>3
      <3>4. CASE j > b
        <4>1. answer[issued[j]] = Pending /\ Pending.status # "sending"
          BY <1>3, <3>4 DEF Pending, Rejected
        <4> QED
          BY <1>4, <3>1, <3>4, <4>1, CarriedPending
      <3> QED
        BY <3>1, <3>2, <3>3, <3>4
    <2>4. \A o \in Ops : Told[o] \in answers \cup {Pending}
      <3> TAKE o \in Ops
      <3>1. answer[o] = Pending \/ answer[o].status \in {"sending", "resolved", "error"}
        <4>1. CASE o \notin Issued
          BY <4>1 DEF Quiet
        <4>2. CASE o \in Issued
          <5>1. PICK i \in 1 .. Len(issued) : issued[i] = o
            BY <1>2, <4>2 DEF Issued
          <5>2. i < b \/ i = b \/ i > b
            BY <1>1, <5>1 DEF QueueInv
          <5> QED
            BY <1>3, <5>1, <5>2 DEF Quiet
        <4> QED
          BY <4>1, <4>2
      <3>2. CASE answer[o] = Pending
        BY <1>4, <3>2, CarriedPending
      <3>3. CASE answer[o].status = "sending"
        BY <1>4, <3>3
      <3>4. CASE answer[o].status \in {"resolved", "error"}
        <4>1. answer[o] \in answers
          BY <3>4 DEF Types
        <4>2. Carried(o, answer[o]) \in answers
          BY <4>1, CarriedType
        <4>3. Told[o] = Carried(o, answer[o])
          BY <1>4, <3>4
        <4> QED
          BY <4>2, <4>3
      <3> QED
        BY <3>1, <3>2, <3>3, <3>4
    <2>5. Told' \in [Ops -> answers \cup {Pending}]
      <3>1. \A o \in Ops : Told'[o] \in answers \cup {Pending}
        BY <1>5, <2>2, <2>4
      <3>2. Told' = [o \in Ops |-> Told'[o]]
        BY DEF Told
      <3> QED
        BY <3>1, <3>2
    <2>6. \A o \in Ops : Told'[o] # Told[o] <=> o = issued[b]
      BY <1>1, <1>5, <2>2
    <2> QED
      BY <1>2, <1>8, <2>3, <2>5, <2>6 DEF Decides
  <1> QED
    BY <1>9, <1>10 DEF b

\* The server answers its calls in order, and what goes on does not show.
LEMMA ServeShows ==
    ASSUME Types, QueueInv, Pipe,
           Serve \/ ServerGlobalNotice \/ ServerOther \/ ServerCloses
    PROVE  Rests \/ \E i \in DOMAIN issued : Decides(i)
  <1>1. UNCHANGED <<issued, cursor, outcome>>
    BY DEF Serve, ServerOk, ServerAuthenticates, ServerFails, ServerColumn, ServerRow,
       ServerFetchDone, ServerNotice, ServerExecuteOk, ServerGlobalNotice, ServerOther,
       ServerCloses, Finish, Continues, clientVars
  <1>2. CASE answer' = answer
    BY <1>1, <1>2 DEF Rests, Told, Given, Carried
  <1>3. ASSUME Serve, answer' # answer
        PROVE  /\ CanReply
               /\ \E a \in [status : Statuses, result : Results] :
                     /\ a.status \in {"sending", "resolved", "error"}
                     /\ answer' = [answer EXCEPT ![Serving] = a]
    <2>1. CanReply
      BY <1>3 DEF Serve, ServerOk, ServerAuthenticates, ServerFails, ServerColumn, ServerRow,
         ServerFetchDone, ServerNotice, ServerExecuteOk, Request
    <2>2. Draft \in Results
      BY <2>1, ServingType
    <2>3. \A r \in Results : /\ Fulfilled(r) \in [status : Statuses, result : Results]
                             /\ Fulfilled(r).status = "resolved"
                             /\ [status |-> "sending", result |-> r]
                                   \in [status : Statuses, result : Results]
      BY DEF Fulfilled, Statuses
    <2>4. /\ Rejected("error") \in [status : Statuses, result : Results]
          /\ Rejected("error").status = "error"
      BY NoResultType DEF Rejected, Statuses
    <2>5. CASE ServerOk
      BY <2>1, <2>3, <2>5, NoResultType DEF ServerOk, Finish
    <2>6. CASE ServerAuthenticates
      BY <1>3, <2>1, <2>2, <2>3, <2>6 DEF ServerAuthenticates
    <2>7. CASE ServerFails
      BY <2>1, <2>4, <2>7 DEF ServerFails
    <2>8. CASE ServerColumn
      BY <2>1, <2>2, <2>3, <2>8, DraftTypes DEF ServerColumn, Continues, Sending
    <2>9. CASE ServerRow
      BY <2>1, <2>2, <2>3, <2>9, DraftTypes DEF ServerRow, Continues, Sending
    <2>10. CASE ServerFetchDone
      BY <2>1, <2>2, <2>3, <2>10 DEF ServerFetchDone, Continues, Sending
    <2>11. CASE ServerNotice
      BY <2>1, <2>2, <2>3, <2>11, DraftTypes DEF ServerNotice, Continues, Sending
    <2>12. CASE ServerExecuteOk
      BY <2>1, <2>2, <2>3, <2>12 DEF ServerExecuteOk, Finish
    <2> QED
      BY <1>3, <2>5, <2>6, <2>7, <2>8, <2>9, <2>10, <2>11, <2>12 DEF Serve
  <1>4. CASE Serve /\ answer' # answer
    <2>1. CanReply
      BY <1>3, <1>4
    <2>2. PICK a \in [status : Statuses, result : Results] :
             /\ a.status \in {"sending", "resolved", "error"}
             /\ answer' = [answer EXCEPT ![Serving] = a]
      BY <1>3, <1>4
    <2>3. PICK s : Quiet /\ Explains(s)
      BY <2>1 DEF Pipe, CanReply
    <2>4. s[Len(s)].at \in DOMAIN issued
      BY <2>1, <2>3, ServingIt DEF QueueInv
    <2>5. /\ a.status = "sending" => Rests
          /\ a.status \in {"resolved", "error"} => Decides(s[Len(s)].at)
      BY <1>1, <2>1, <2>2, <2>3, ServerShows
    <2> QED
      BY <2>2, <2>4, <2>5
  <1>5. CASE ~Serve
    BY <1>2, <1>5 DEF ServerGlobalNotice, ServerOther, ServerCloses
  <1> QED
    BY <1>2, <1>4, <1>5

\* The front call of the queue is the oldest one that is not settled.
LEMMA FrontIsOldest ==
    ASSUME Types, QueueInv, Unsettled
    PROVE  /\ Oldest(Answered + 1)
           /\ workQueue # <<>> =>
                 /\ Answered + 1 \in DOMAIN issued /\ Current = issued[Answered + 1]
                 /\ Current \in Ops /\ Given[Current] = Pending
  <1>1. DOMAIN issued = 1 .. Len(issued) /\ Answered \in Nat /\ Len(issued) \in Nat
    BY DEF QueueInv, Answered
  <1>2. \A o \in Ops : Given[o] = Carried(o, outcome[o])
    BY DEF Given
  <1>3. \A o \in Ops : Given[o] = Pending <=> ~Settled(o)
    <2> TAKE o \in Ops
    <2>1. ASSUME ~Settled(o) PROVE Given[o] = Pending
      BY <1>2, <2>1, CarriedPending DEF Unsettled
    <2>2. ASSUME Settled(o) PROVE Given[o] # Pending
      <3>1. outcome[o] \in [status : Statuses \ {"sending"}, result : Results]
        BY DEF Types
      <3>2. Given[o].status = outcome[o].status
        BY <1>2, <3>1 DEF Carried
      <3> QED
        BY <2>2, <3>2 DEF Settled, Pending, Rejected
    <2> QED
      BY <2>1, <2>2
  <1>4. Oldest(Answered + 1)
    <2>1. \A j \in 1 .. Len(issued) : issued[j] \in Ops /\ (Settled(issued[j]) <=> j <= Answered)
      BY DEF QueueInv
    <2>2. \A j \in 1 .. Len(issued) : j >= Answered + 1 <=> ~(j <= Answered)
      BY <1>1
    <2> QED
      BY <1>1, <1>3, <2>1, <2>2 DEF Oldest
  <1>5. ASSUME workQueue # <<>>
        PROVE  /\ Answered + 1 \in DOMAIN issued /\ Current = issued[Answered + 1]
               /\ Current \in Ops /\ Given[Current] = Pending
    <2>1. Len(workQueue) \in Nat /\ Len(workQueue) >= 1 /\ Len(workQueue) <= Len(issued)
      BY <1>5, EmptySeq DEF QueueInv
    <2>2. Answered + 1 \in 1 .. Len(issued)
      BY <1>1, <2>1 DEF Answered
    <2>3. Current = issued[Answered + 1]
      BY <2>1 DEF Current, QueueInv
    <2>4. issued[Answered + 1] \in Ops
      BY <2>2 DEF QueueInv
    <2> QED
      BY <1>1, <1>4, <2>2, <2>3, <2>4 DEF Oldest
  <1> QED
    BY <1>4, <1>5

\* A call that is settled with an answer gets what the server told.
LEMMA AnswerShows ==
    ASSUME Types, QueueInv, Unsettled, Types', Pipe', workQueue # <<>>,
           NEW r, r.status \in {"resolved", "error"}, Done(Current, r),
           UNCHANGED <<issued, cursor, answer>>
    PROVE  Settles(Answered + 1)
  <1>1. /\ Oldest(Answered + 1) /\ Answered + 1 \in DOMAIN issued
        /\ Current = issued[Answered + 1] /\ Current \in Ops
    BY FrontIsOldest
  <1>2. PICK o \in Ops : o = Current
    BY <1>1
  <1>3. outcome' = [outcome EXCEPT ![o] = r] /\ DOMAIN outcome = Ops
    BY <1>2 DEF Done, Types
  <1>4. Told' = Told
    BY DEF Told, Carried
  <1>5. outcome'[o] = r
    BY <1>3
  <1>6. Own(o)'
    BY DEF Pipe
  <1>7. /\ r.status = answer[o].status
        /\ r.result.columns = answer[o].result.columns
        /\ r.result.notices = answer[o].result.notices
        /\ cursor[o] = "none" => r.result.rows = answer[o].result.rows
    BY <1>5, <1>6 DEF Own
  <1>8. /\ r \in [status : Statuses \ {"sending"}, result : Results]
        /\ answer[o] \in [status : Statuses, result : Results]
    BY <1>5 DEF Types
  <1>9. Carried(o, r) = Carried(o, answer[o])
    <2>1. CASE cursor[o] = "none"
      <3>1. r.result.rows = answer[o].result.rows
        BY <1>7, <2>1
      <3>2. \A x \in Results : x = [rows |-> x.rows, columns |-> x.columns, notices |-> x.notices]
        BY DEF Results
      <3>3. r.result \in Results /\ answer[o].result \in Results
        BY <1>8
      <3>4. r.result = answer[o].result
        BY <1>7, <3>1, <3>2, <3>3
      <3>5. r = [status |-> r.status, result |-> r.result]
        BY <1>8
      <3>6. answer[o] = [status |-> answer[o].status, result |-> answer[o].result]
        BY <1>8
      <3> QED
        BY <1>7, <2>1, <3>4, <3>5, <3>6 DEF Carried
    <2>2. CASE cursor[o] # "none"
      <3>1. [r.result EXCEPT !.rows = <<>>] = [answer[o].result EXCEPT !.rows = <<>>]
        BY <1>7, <1>8 DEF Results
      <3>2. [r EXCEPT !.result.rows = <<>>] = [answer[o] EXCEPT !.result.rows = <<>>]
        BY <1>7, <1>8, <3>1
      <3> QED
        BY <2>2, <3>2 DEF Carried
    <2> QED
      BY <2>1, <2>2
  <1>10. Told[o] = Carried(o, r) /\ Told[o] # Pending
    <2>1. Told[o] = Carried(o, answer[o])
      BY <1>7 DEF Told
    <2>2. Carried(o, r).status = r.status
      BY <1>8 DEF Carried
    <2> QED
      BY <1>9, <2>1, <2>2 DEF Pending, Rejected
  <1>11. Given' = [Given EXCEPT ![o] = Told[o]]
    <2>1. \A p \in Ops : Given'[p] = IF p = o THEN Carried(o, r) ELSE Given[p]
      BY <1>3 DEF Given, Carried
    <2>2. DOMAIN Given = Ops /\ Given' = [p \in Ops |-> Given'[p]]
      BY DEF Given
    <2> QED
      BY <1>10, <2>1, <2>2 DEF Given
  <1> QED
    BY <1>1, <1>2, <1>4, <1>10, <1>11 DEF Settles

\* A plug-in that throws abandons the call.
LEMMA PluginShows ==
    ASSUME Types, QueueInv, Unsettled, workQueue # <<>>,
           Done(Current, Rejected("plugin")), UNCHANGED <<issued, cursor, answer>>
    PROVE  Abandons(Answered + 1)
  <1>1. /\ Oldest(Answered + 1) /\ Answered + 1 \in DOMAIN issued
        /\ Current = issued[Answered + 1] /\ Current \in Ops
    BY FrontIsOldest
  <1>2. Told' = Told
    BY DEF Told, Carried
  <1>3. PICK o \in Ops : o = Current
    BY <1>1
  <1>4. outcome' = [outcome EXCEPT ![o] = Rejected("plugin")] /\ DOMAIN outcome = Ops
    BY <1>3 DEF Done, Types
  <1>5. \A p \in Ops : Given'[p] = IF p = o THEN Rejected("plugin") ELSE Given[p]
    <2>1. \A p \in Ops : p # o => Given'[p] = Given[p]
      BY <1>4 DEF Given, Carried
    <2>2. Given'[o] = Carried(o, Rejected("plugin"))
      BY <1>4 DEF Given, Carried
    <2> QED
      BY <2>1, <2>2, CarriedPending
  <1>6. DOMAIN Given = Ops /\ Given' = [p \in Ops |-> Given'[p]]
    BY DEF Given
  <1>7. Given' = [Given EXCEPT ![o] = Rejected("plugin")]
    BY <1>5, <1>6 DEF Given
  <1> QED
    BY <1>1, <1>2, <1>3, <1>7 DEF Abandons

\* A lost connection gives up every call that waits.
LEMMA LossShows ==
    ASSUME Types, QueueInv, Unsettled, HandleServerClose
    PROVE  Loses \/ Rests
  <1>1. /\ UNCHANGED <<issued, cursor, answer>>
        /\ outcome' = [o \in Ops |-> IF LoseCall(o) THEN Rejected("gone") ELSE outcome[o]]
    BY DEF HandleServerClose
  <1>2. Told' = Told
    BY <1>1 DEF Told, Carried
  <1>3. \A o \in Ops : LoseCall(o) <=> o \in Issued /\ ~Settled(o)
    <2> TAKE o \in Ops
    <2>1. ASSUME LoseCall(o) PROVE o \in Issued /\ ~Settled(o)
      <3>1. PICK i \in DOMAIN workQueue : workQueue[i] = o
        BY <2>1 DEF LoseCall, IsQueued
      <3>2. i \in 1 .. Len(workQueue) /\ Answered + i \in 1 .. Len(issued)
        BY <3>1 DEF QueueInv, Answered
      <3>3. o = issued[Answered + i]
        BY <3>1, <3>2 DEF QueueInv
      <3>4. Answered + i \in DOMAIN issued
        BY <3>2 DEF QueueInv
      <3> QED
        BY <3>1, <3>2, <3>3, <3>4, QueuedPending DEF Issued
    <2>2. ASSUME o \in Issued, ~Settled(o) PROVE LoseCall(o)
      <3>1. PICK i \in 1 .. Len(issued) : issued[i] = o
        BY <2>2 DEF Issued, QueueInv
      <3>2. ~(i <= Answered)
        BY <2>2, <3>1 DEF QueueInv
      <3>3. i - Answered \in 1 .. Len(workQueue) /\ Answered + (i - Answered) = i
        BY <3>2 DEF QueueInv, Answered
      <3>4. workQueue[i - Answered] = o
        BY <3>1, <3>3 DEF QueueInv
      <3>5. i - Answered \in DOMAIN workQueue
        BY <3>3 DEF QueueInv
      <3> QED
        BY <3>4, <3>5 DEF LoseCall, IsQueued
    <2> QED
      BY <2>1, <2>2
  <1>4. \A o \in Ops : Given[o] = Pending /\ o \in Issued <=> LoseCall(o)
    <2> TAKE o \in Ops
    <2>1. ASSUME Settled(o) PROVE Given[o] # Pending
      <3>1. Given[o].status = outcome[o].status
        BY DEF Given, Carried, Types
      <3> QED
        BY <2>1, <3>1 DEF Settled, Pending, Rejected
    <2>2. ASSUME ~Settled(o) PROVE Given[o] = Pending
      BY <2>2, CarriedPending DEF Given, Unsettled
    <2> QED
      BY <1>3, <2>1, <2>2
  <1>5. \A o \in Ops : Given'[o] = IF LoseCall(o) THEN Rejected("gone") ELSE Given[o]
    <2> TAKE o \in Ops
    <2>1. Given'[o] = IF LoseCall(o) THEN Carried(o, Rejected("gone")) ELSE Given[o]
      BY <1>1 DEF Given, Carried
    <2> QED
      BY <2>1, CarriedPending
  <1>6. Given' = [o \in Ops |-> Given'[o]] /\ Given = [o \in Ops |-> Given[o]]
    BY DEF Given
  <1>7. CASE workQueue = <<>>
    <2>1. \A o \in Ops : ~LoseCall(o)
      BY <1>7 DEF LoseCall, IsQueued
    <2>2. \A o \in Ops : Given'[o] = Given[o]
      BY <1>5, <2>1
    <2>3. Given' = Given
      BY <1>6, <2>2
    <2> QED
      BY <1>1, <1>2, <2>3 DEF Rests
  <1>8. CASE workQueue # <<>>
    <2>1. \E i \in DOMAIN issued : Given[issued[i]] = Pending
      BY <1>8, FrontIsOldest
    <2>2. \A o \in Ops :
             Given'[o] = IF Given[o] = Pending /\ o \in Issued THEN Rejected("gone") ELSE Given[o]
      BY <1>4, <1>5
    <2>3. Given' = [o \in Ops |-> IF Given[o] = Pending /\ o \in Issued
                                  THEN Rejected("gone") ELSE Given[o]]
      BY <1>6, <2>2
    <2> QED
      BY <1>1, <1>2, <2>1, <2>3 DEF Loses
  <1> QED
    BY <1>7, <1>8

\* A message that does not settle its call does not show.
LEMMA MessageShows ==
    ASSUME Types, QueueInv, Unsettled, Types', Pipe', HandleMessage, Expected'
    PROVE  Rests \/ \E i \in DOMAIN issued : Settles(i) \/ Abandons(i)
  <1>1. /\ UNCHANGED <<issued, cursor, answer>>
    BY DEF HandleMessage, OnColumnMetaData, OnRow, OnRowCursor,
       OnFetchDone, OnFetchDoneMoreResultsets, OnNotice, OnStmtExecuteOk, OnOk, OnError,
       OnAuthenticateContinue, OnUnexpected, OnEmptyQueue, OnGlobalNotice, Handled, Consume,
       clientVars
  <1>2. CASE outcome' = outcome
    BY <1>1, <1>2 DEF Rests, Told, Given, Carried
  <1>3. CASE OnStmtExecuteOk \/ OnOk \/ OnError
    <2>1. \E r : r.status \in {"resolved", "error"} /\ Done(Current, r) /\ workQueue # <<>>
      BY <1>3 DEF OnStmtExecuteOk, OnOk, OnError, Handled, Fulfilled, Rejected
    <2> QED
      BY <1>1, <2>1, AnswerShows, FrontIsOldest
  <1>4. CASE OnAuthenticateContinue /\ outcome' # outcome
    <2>1. Done(Current, Rejected("plugin")) /\ workQueue # <<>>
      BY <1>4 DEF OnAuthenticateContinue, Handled
    <2> QED
      BY <1>1, <2>1, PluginShows, FrontIsOldest
  <1>5. ~OnUnexpected
    <2> SUFFICES ASSUME OnUnexpected PROVE FALSE
      OBVIOUS
    <2>1. workQueue # <<>> /\ Done(Current, Rejected("unexpected"))
      BY DEF OnUnexpected
    <2>2. Current \in Ops
      BY <2>1, CurrentType
    <2>3. outcome'[Current].status = "unexpected"
      BY <2>1, <2>2 DEF Done, Rejected, Types
    <2> QED
      BY <2>2, <2>3 DEF Expected
  <1>6. outcome' = outcome \/ OnStmtExecuteOk \/ OnOk \/ OnError \/ OnAuthenticateContinue
    BY <1>5 DEF HandleMessage, OnColumnMetaData, OnRow, OnRowCursor, OnFetchDone,
       OnFetchDoneMoreResultsets, OnNotice, OnEmptyQueue, OnGlobalNotice, clientVars
  <1> QED
    BY <1>2, <1>3, <1>4, <1>6

\* Every step of the client and the server is a step of the pipeline, or does
\* not show, as long as the handlers know what comes.
LEMMA PipelineShows ==
    ASSUME Types, Types', QueueInv, PipeInv, PipeInv', Unsettled, Unmade, [Next]_vars
    PROVE  PipelineStep \/ ~Expected'
  <1> SUFFICES ASSUME Expected' PROVE PipelineStep
    OBVIOUS
  <1>1. Expected /\ Pipe /\ Pipe'
    BY ExpectedBefore DEF PipeInv
  <1>2. CASE \E o \in Ops, k \in Kinds, c \in Cursors : Send(o, k, c)
    BY <1>1, <1>2, IssueStep, PipelineSteps
  <1>3. CASE Serve \/ ServerGlobalNotice \/ ServerOther \/ ServerCloses
    BY <1>1, <1>3, ServeShows, PipelineSteps
  <1>4. CASE HandleMessage
    BY <1>1, <1>4, MessageShows, PipelineSteps
  <1>5. CASE HandleServerClose
    BY <1>5, LossShows, PipelineSteps
  <1>6. CASE UNCHANGED vars
    <2>1. UNCHANGED <<issued, cursor, outcome, answer>>
      BY <1>6 DEF vars, clientVars, serverVars
    <2>2. Rests
      BY <2>1 DEF Rests, Told, Given, Carried
    <2> QED
      BY <2>2, PipelineSteps
  <1> QED
    BY <1>2, <1>3, <1>4, <1>5, <1>6 DEF Next

\* The client answers its calls in the order they were made, each with what
\* the server decided for that call, and gives up all that wait when the
\* connection is lost, until the server sends what the handlers do not know.
THEOREM ClientIsPipeline == Spec => ImplementsPipeline
  <1>1. Init => Pipeline!CallsInit /\ Unsettled /\ Unmade
    <2> SUFFICES ASSUME Init PROVE Pipeline!CallsInit /\ Unsettled /\ Unmade
      OBVIOUS
    <2>1. /\ issued = <<>> /\ outcome = [o \in Ops |-> Pending]
          /\ answer = [o \in Ops |-> Pending]
      BY DEF Init
    <2>2. Told = [o \in Ops |-> Pending] /\ Given = [o \in Ops |-> Pending]
      <3>1. \A o \in Ops : Told[o] = Pending /\ Given[o] = Pending
        BY <2>1, CarriedPending DEF Told, Given
      <3>2. Told = [o \in Ops |-> Told[o]] /\ Given = [o \in Ops |-> Given[o]]
        BY DEF Told, Given
      <3> QED
        BY <3>1, <3>2
    <2>3. Pipeline!CallsInit
      BY <2>1, <2>2 DEF Pipeline!CallsInit, Told, Given
    <2> QED
      BY <2>1, <2>3 DEF Unsettled, Unmade
  <1>2. ASSUME Types, QueueInv, Unsettled, [Next]_vars PROVE Unsettled'
    BY <1>2, ShownOnlyOnce
  <1>3. ASSUME QueueInv, PipeInv', Unmade, [Next]_vars PROVE Unmade'
    BY <1>3, UnmadeStep
  <1>4. ASSUME Types, Types', QueueInv, PipeInv, PipeInv', Unsettled, Unmade, [Next]_vars
        PROVE  [Pipeline!CallsNext \/ ~Expected']_(Pipeline!callVars)
    BY <1>4, PipelineShows DEF PipelineStep
  <1> QED
    BY <1>1, <1>2, <1>3, <1>4, TypesInvariant, QueueInvariant, PipeInvariant, PTL
    DEF Spec, ImplementsPipeline
=============================================================================
