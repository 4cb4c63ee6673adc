---------------------- MODULE ConnectionPoolListsProofs ----------------------
(***************************************************************************)
(* Where the connections of a ConnectionPool are: in one of its lists, with  *)
(* the call that shifted them, or with one session.  For any number of       *)
(* requests and connections and any maxSize; the part about sessions for a   *)
(* network in which only the pool closes connections.                        *)
(***************************************************************************)
EXTENDS ConnectionPoolProofs

USE PoolAssumption

-----------------------------------------------------------------------------
(* The lists.                                                               *)

\* Until the pool is closed, a connection is listed once at most, and not at
\* all while it is held; and no two calls hold the same one.
Placed ==
    available /\ twice = {} =>
        /\ \A r, q \in Holding : con[r] = con[q] => r = q
        /\ \A r \in Holding : con[r] \in Conns /\ Listed(con[r]) = 0
        /\ \A c \in Conns : Listed(c) <= 1

ListedConns == {c \in Conns : Listed(c) # 0}

\* The connections that are held and those that are listed fit in maxSize.
Fits == available /\ twice = {} => tickets + Cardinality(ListedConns) <= MaxSize

\* There are finitely many connections.
LEMMA ListedCounted ==
    IsFiniteSet(ListedConns) /\ Cardinality(ListedConns) \in Nat
BY FS_Subset, FS_CardinalityType DEF ListedConns

\* Calls that hold different connections count once each.
LEMMA CopiesOnce ==
    ASSUME NEW S \in SUBSET Requests, NEW c,
           \A r, q \in S : con[r] = con[q] => r = q
    PROVE  Copies(S, c) = IF \E r \in S : con[r] = c THEN 1 ELSE 0
<1>. DEFINE T == {r \in S : con[r] = c}
<1>1. CASE \E r \in S : con[r] = c
    <2>1. PICK r \in S : con[r] = c
        BY <1>1
    <2>2. T = {r}
        BY <2>1
    <2>. QED
        BY <1>1, <2>2, FS_Singleton DEF Copies
<1>2. CASE ~\E r \in S : con[r] = c
    <2>1. T = {}
        BY <1>2
    <2>. QED
        BY <1>2, <2>1, FS_EmptySet DEF Copies
<1>. QED
    BY <1>1, <1>2

\* update() lists the connections of the entries it lets go, whatever list.
LEMMA UpdateListed ==
    ASSUME TypeOK, NEW r \in Requests, Update(r), NEW c \in Conns
    PROVE  Listed(c)' = Listed(c) + Copies(ClosedEntries, c) + Copies(ReleasedEntries, c)
<1>1. ClosedEntries \in SUBSET Requests /\ ReleasedEntries \in SUBSET Requests
    BY DEF TypeOK, ClosedEntries, ReleasedEntries
<1>2. Copies(ClosedEntries, c) \in Nat /\ Copies(ReleasedEntries, c) \in Nat
    BY <1>1, CopiesType
<1>. QED
    BY <1>2 DEF Update, UpdateLists, TypeOK, Listed

\* The connections of a set of entries are as many as the entries.
LEMMA ImageCounted ==
    ASSUME NEW S \in SUBSET Requests, \A r \in S : con[r] \in Conns,
           \A r, q \in S : con[r] = con[q] => r = q
    PROVE  /\ IsFiniteSet({con[r] : r \in S})
           /\ Cardinality({con[r] : r \in S}) = Cardinality(S)
<1>. DEFINE T == {con[r] : r \in S}
            f == [r \in S |-> con[r]]
<1>1. f \in Bijection(S, T)
    BY DEF Bijection, Injection, Surjection, IsInjective
<1>2. ExistsBijection(S, T)
    BY <1>1 DEF ExistsBijection
<1>3. IsFiniteSet(S)
    BY RequestSets
<1>. QED
    BY <1>2, <1>3, FS_Bijection

\* What update() takes from the active list it puts in another.
LEMMA UpdatePlaces ==
    ASSUME TypeOK, TypeOK', StagesAgree, Placed, Fits,
           NEW r \in Requests, Update(r), pc[r] \in {"new", "queued"}
    PROVE  Placed' /\ Fits'
<1>. DEFINE C == ClosedEntries
            R == ReleasedEntries
            U == {con[q] : q \in C \cup R}
<1>. SUFFICES ASSUME available', twice' = {}
              PROVE  Placed' /\ Fits'
    BY DEF Placed, Fits
<1>1. available /\ twice = {} /\ C \cap R = {} /\ con' = con
    BY DEF Update
<1>2. Holding' = Holding \ (C \cup R)
    BY UpdateHolding
<1>3. C \subseteq Holding /\ R \subseteq Holding /\ Holding \in SUBSET Requests
    BY HoldingType DEF ClosedEntries, ReleasedEntries, Holding
<1>4. /\ \A q, p \in Holding : con[q] = con[p] => q = p
      /\ \A q \in Holding : con[q] \in Conns /\ Listed(con[q]) = 0
      /\ \A c \in Conns : Listed(c) <= 1
    BY <1>1 DEF Placed
<1>5. \A c \in Conns : Listed(c) \in Nat
    BY DEF Listed, TypeOK
<1>6. \A c \in Conns : Listed(c)' = Listed(c) + IF c \in U THEN 1 ELSE 0
    <2>. TAKE c \in Conns
    <2>1. /\ Copies(C, c) = IF \E q \in C : con[q] = c THEN 1 ELSE 0
          /\ Copies(R, c) = IF \E q \in R : con[q] = c THEN 1 ELSE 0
        BY <1>3, <1>4, CopiesOnce
    <2>2. ~((\E q \in C : con[q] = c) /\ (\E q \in R : con[q] = c))
        BY <1>1, <1>3, <1>4
    <2>3. c \in U <=> (\E q \in C : con[q] = c) \/ (\E q \in R : con[q] = c)
        OBVIOUS
    <2>. QED
        BY <1>5, <2>1, <2>2, <2>3, UpdateListed
<1>7. \A c \in U : c \in Conns /\ Listed(c) = 0
    BY <1>3, <1>4
<1>8. Placed'
    <2>1. \A q \in Holding' : con[q] \notin U
        BY <1>2, <1>3, <1>4
    <2>2. \A q \in Holding' : con'[q] \in Conns /\ Listed(con[q])' = 0
        <3>. TAKE q \in Holding'
        <3>1. PICK c \in Conns : c = con[q]
            BY <1>2, <1>4
        <3>2. Listed(c) = 0 /\ Listed(c)' = Listed(c)
            BY <1>2, <1>4, <1>5, <1>6, <2>1, <3>1
        <3>. QED
            BY <1>1, <3>1, <3>2 DEF Listed
    <2>3. \A q, p \in Holding' : con'[q] = con'[p] => q = p
        BY <1>1, <1>2, <1>4
    <2>4. \A c \in Conns : Listed(c)' <= 1
        BY <1>4, <1>5, <1>6, <1>7
    <2>. QED
        BY <2>2, <2>3, <2>4 DEF Placed
<1>9. Fits'
    <2>1. ListedConns' = ListedConns \cup U
        BY <1>5, <1>6, <1>7 DEF ListedConns
    <2>2. ListedConns \cap U = {}
        BY <1>7 DEF ListedConns
    <2>3. IsFiniteSet(U) /\ Cardinality(U) = Cardinality(C \cup R)
        BY <1>3, <1>4, ImageCounted
    <2>4. /\ IsFiniteSet(C) /\ IsFiniteSet(R)
          /\ Cardinality(C) \in Nat /\ Cardinality(R) \in Nat
        BY <1>3, RequestSets
    <2>5. Cardinality(C \cup R) = Cardinality(C) + Cardinality(R)
        <3>1. Cardinality(C \cap R) = 0
            BY <1>1, FS_EmptySet
        <3>. HIDE DEF C, R
        <3>2. Cardinality(C \cup R) = Cardinality(C) + Cardinality(R) - Cardinality(C \cap R)
            BY <2>4, FS_Union
        <3>. QED
            BY <2>4, <3>1, <3>2
    <2>6. Cardinality(ListedConns') = Cardinality(ListedConns) + Cardinality(U)
        <3>. HIDE DEF U, C, R
        <3>1. Cardinality(ListedConns \cap U) = 0
            BY <2>2, FS_EmptySet
        <3>2. Cardinality(ListedConns \cup U)
                 = Cardinality(ListedConns) + Cardinality(U) - Cardinality(ListedConns \cap U)
            BY <2>3, ListedCounted, FS_Union
        <3>. QED
            BY <2>1, <2>3, <3>1, <3>2, ListedCounted, FS_CardinalityType
    <2>7. tickets' = tickets - Cardinality(C) - Cardinality(R)
        BY DEF Update, ReturnTickets
    <2>8. tickets \in Int /\ Cardinality(ListedConns) \in Nat
        BY ListedCounted DEF TypeOK
    <2>. QED
        BY <1>1, <2>3, <2>4, <2>5, <2>6, <2>7, <2>8 DEF Fits
<1>. QED
    BY <1>8, <1>9

\* A ticket is taken for a connection that leaves the lists, or for a new one
\* when they are empty.
LEMMA TakePlaces ==
    ASSUME TypeOK, TypeOK', StagesAgree, Placed, Fits, TicketBound, NEW r \in Requests,
           NEW c \in Conns, NEW stage \in {"opening", "resetting"}, Takes(r, c, stage)
    PROVE  Placed' /\ Fits'
<1>. SUFFICES ASSUME available', twice' = {}
              PROVE  Placed' /\ Fits'
    BY DEF Placed, Fits
<1>1. available /\ twice = {} /\ active' = active /\ tickets' = tickets + 1
    BY DEF Takes, TakeTicket
<1>2. \A q \in Requests : /\ pc'[q] = IF q = r THEN stage ELSE pc[q]
                          /\ con'[q] = IF q = r THEN c ELSE con[q]
    BY DEF Takes, TakeTicket, TypeOK
<1>3. pc[r] = "updating"
    BY DEF Takes, Ready
<1>4. Holding' = Holding \cup {r} /\ r \notin Holding /\ Holding \subseteq Requests
    <2>1. InFlight' = InFlight \cup {r} /\ Lost' = Lost
        BY <1>2, <1>3 DEF InFlight, Lost
    <2>2. r \notin Holding
        BY <1>3 DEF StagesAgree, Holding, InFlight, Lost
    <2>. QED
        BY <1>1, <2>1, <2>2, HoldingType DEF Holding
<1>5. /\ \A q, p \in Holding : con[q] = con[p] => q = p
      /\ \A q \in Holding : con[q] \in Conns /\ Listed(con[q]) = 0
      /\ \A d \in Conns : Listed(d) <= 1
    BY <1>1 DEF Placed
<1>6. \A d \in Conns : Listed(d) \in Nat
    BY DEF Listed, TypeOK
<1>7. \A q \in Holding : con[q] # c
    <2>1. CASE Shift(c)
        BY <1>5, <2>1 DEF Shift, Shiftable, Listed, TypeOK
    <2>. QED
        BY <1>4, <2>1 DEF Takes
<1>8. Listed(c)' = 0 /\ \A d \in Conns \ {c} : Listed(d)' = Listed(d)
    <2>1. CASE Shift(c)
        <3>1. Listed(c) > 0
            BY <2>1 DEF Shift, Shiftable, Listed, TypeOK
        <3>. QED
            <4>1. Listed(c) = 1
                BY <1>5, <1>6, <3>1
            <4>2. \A d \in Conns : Listed(d)' = IF d = c THEN Listed(d) - 1 ELSE Listed(d)
                BY <2>1, ShiftLoses
            <4>3. idle'[c] + expired'[c] = 0
                BY <4>1, <4>2 DEF Listed
            <4>4. \A d \in Conns \ {c} : idle'[d] + expired'[d] = idle[d] + expired[d]
                BY <4>2 DEF Listed
            <4>. QED
                BY <4>3, <4>4 DEF Listed
    <2>2. CASE Shift(NoConn)
        <3>1. \A d \in Conns : idle[d] = 0 /\ expired[d] = 0
            BY <2>2 DEF Shift, Shiftable
        <3>2. \A d \in Conns : idle'[d] = 0 /\ expired'[d] = 0
            BY <2>2, <3>1 DEF Shift
        <3>3. \A d \in Conns : Listed(d) = 0 /\ Listed(d)' = 0
            BY <3>1, <3>2 DEF Listed
        <3>. QED
            BY <3>3
    <2>. QED
        BY <2>1, <2>2 DEF Takes
<1>9. Placed'
    <2>1. \A q, p \in Holding' : con'[q] = con'[p] => q = p
        BY <1>2, <1>4, <1>5, <1>7
    <2>2. \A q \in Holding' : con'[q] \in Conns /\ Listed(con[q])' = 0
        <3>. TAKE q \in Holding'
        <3>1. PICK d \in Conns : d = con'[q]
            BY <1>2, <1>4, <1>5
        <3>2. Listed(d)' = 0
            BY <1>2, <1>4, <1>5, <1>7, <1>8, <3>1
        <3>. QED
            BY <3>1, <3>2 DEF Listed
    <2>3. \A d \in Conns : Listed(d)' <= 1
        BY <1>5, <1>8
    <2>. QED
        BY <2>1, <2>2, <2>3 DEF Placed
<1>10. Fits'
    <2>1. tickets \in Int /\ tickets < MaxSize
        BY DEF Takes, IsFull, TicketBound, TypeOK
    <2>2. CASE Shift(c)
        <3>1. c \in ListedConns
            BY <2>2 DEF Shift, Shiftable, Listed, TypeOK, ListedConns
        <3>2. ListedConns' = ListedConns \ {c}
            BY <1>8 DEF ListedConns
        <3>3. Cardinality(ListedConns') = Cardinality(ListedConns) - 1
            BY <3>1, <3>2, ListedCounted, FS_RemoveElement
        <3>. QED
            BY <1>1, <2>1, <3>3, ListedCounted DEF Fits
    <2>3. CASE Shift(NoConn)
        <3>1. \A d \in Conns : Listed(d)' = 0
            BY <2>3 DEF Shift, Shiftable, Listed, TypeOK
        <3>2. ListedConns' = {}
            BY <3>1 DEF ListedConns
        <3>3. Cardinality(ListedConns') = 0
            BY <3>2, FS_EmptySet
        <3>. QED
            BY <1>1, <2>1, <3>3 DEF Fits
    <2>. QED
        BY <2>2, <2>3 DEF Takes
<1>. QED
    BY <1>9, <1>10

\* What is held stays held, and the lists only lose.
LEMMA KeptPlaces ==
    ASSUME TypeOK, TypeOK', Placed, Fits, Kept
    PROVE  Placed' /\ Fits'
<1>. SUFFICES ASSUME available', twice' = {}
              PROVE  Placed' /\ Fits'
    BY DEF Placed, Fits
<1>1. /\ available /\ twice = {} /\ con' = con /\ Holding' = Holding /\ tickets' = tickets
      /\ \A c \in Conns : Listed(c)' <= Listed(c)
    BY DEF Kept
<1>2. \A c \in Conns : Listed(c) \in Nat /\ Listed(c)' \in Nat
    BY DEF Listed, TypeOK
<1>3. /\ \A r, q \in Holding : con[r] = con[q] => r = q
      /\ \A r \in Holding : con[r] \in Conns /\ Listed(con[r]) = 0
      /\ \A c \in Conns : Listed(c) <= 1
    BY <1>1 DEF Placed
<1>4. Placed'
    <2>1. \A r \in Holding : Listed(con[r])' = 0
        <3>. TAKE r \in Holding
        <3>1. PICK c \in Conns : c = con[r]
            BY <1>3
        <3>2. Listed(c) = 0 /\ Listed(c)' \in Nat /\ Listed(c)' <= Listed(c)
            BY <1>1, <1>2, <1>3, <3>1
        <3>. QED
            BY <1>1, <3>1, <3>2 DEF Listed
    <2>2. \A c \in Conns : Listed(c)' <= 1
        <3>. TAKE c \in Conns
        <3>1. Listed(c)' <= Listed(c) /\ Listed(c) <= 1
            BY <1>1, <1>3
        <3>. QED
            BY <1>2, <3>1
    <2>. QED
        BY <1>1, <1>3, <2>1, <2>2 DEF Placed, Listed
<1>5. ListedConns' \in SUBSET ListedConns
    BY <1>1, <1>2 DEF ListedConns
<1>6. Cardinality(ListedConns') <= Cardinality(ListedConns)
    BY <1>5, ListedCounted, FS_Subset
<1>7. Cardinality(ListedConns') \in Nat /\ Cardinality(ListedConns) \in Nat
    BY <1>5, ListedCounted, FS_Subset, FS_CardinalityType
<1>8. tickets \in Int
    BY DEF TypeOK
<1>. QED
    BY <1>1, <1>4, <1>6, <1>7, <1>8 DEF Fits

\* What the two invariants say in the words of the pool.
LEMMA PlacesKept ==
    ASSUME TypeOK, Placed, Fits
    PROVE  ListsKept
<1>. SUFFICES ASSUME available, twice = {}
              PROVE  /\ tickets + Cardinality(Pooled) <= MaxSize
                     /\ \A c \in Conns :
                           idle[c] + expired[c] + Copies(active \cup InFlight, c) <= 1
    BY DEF ListsKept, FullMeansNonePooled, PlacedOnce
<1>1. \A c \in Conns : Listed(c) \in Nat /\ Listed(c) <= 1
    BY DEF Placed, Listed, TypeOK
<1>2. Cardinality(Pooled) = Cardinality(ListedConns)
    <2>. DEFINE f == [c \in ListedConns |-> <<c, 1>>]
    <2>1. \A c \in Conns : {c} \X (1 .. (idle[c] + expired[c])) =
                              IF c \in ListedConns THEN {<<c, 1>>} ELSE {}
        <3>. TAKE c \in Conns
        <3>1. idle[c] + expired[c] \in {0, 1}
            BY <1>1 DEF Listed
        <3>2. c \in ListedConns <=> idle[c] + expired[c] = 1
            BY <3>1 DEF ListedConns, Listed
        <3>3. 1 .. 1 = {1} /\ 1 .. 0 = {}
            OBVIOUS
        <3>. QED
            BY <3>1, <3>2, <3>3
    <2>2. Pooled = {<<c, 1>> : c \in ListedConns}
        BY <2>1 DEF Pooled, ListedConns
    <2>3. f \in Bijection(ListedConns, Pooled)
        BY <2>2 DEF Bijection, Injection, Surjection, IsInjective
    <2>4. ExistsBijection(ListedConns, Pooled)
        BY <2>3 DEF ExistsBijection
    <2>. QED
        BY <2>4, ListedCounted, FS_Bijection
<1>3. ASSUME NEW c \in Conns
      PROVE  Listed(c) + Copies(active \cup InFlight, c) <= 1
    <2>1. active \cup InFlight \in SUBSET Requests /\ active \cup InFlight \subseteq Holding
        BY DEF TypeOK, InFlight, Holding
    <2>2. Copies(active \cup InFlight, c)
             = IF \E r \in active \cup InFlight : con[r] = c THEN 1 ELSE 0
        BY <2>1, CopiesOnce DEF Placed
    <2>3. (\E r \in active \cup InFlight : con[r] = c) => Listed(c) = 0
        BY <2>1 DEF Placed
    <2>. QED
        BY <1>1, <2>2, <2>3
<1>. QED
    BY <1>2, <1>3 DEF Fits, Listed

LEMMA InitPlaces == Init => Placed /\ Fits
<1>. SUFFICES ASSUME Init PROVE Placed /\ Fits
    OBVIOUS
<1>1. Holding = {}
    BY DEF Init, Holding, InFlight, Lost
<1>2. \A c \in Conns : Listed(c) = 0
    BY DEF Init, Listed
<1>3. ListedConns = {}
    BY <1>2 DEF ListedConns
<1>4. tickets = 0 /\ Cardinality(ListedConns) = 0
    BY <1>3, FS_EmptySet DEF Init
<1>. QED
    BY <1>1, <1>2, <1>4 DEF Placed, Fits

LEMMA NextPlaces ==
    ASSUME TypeOK, TypeOK', StagesAgree, ResetsAwaited, TicketBound, Placed, Fits,
           [Next]_vars
    PROVE  Placed' /\ Fits'
<1>1. CASE ClosePool \/ ResetPool
    BY <1>1 DEF ClosePool, ResetPool, Placed, Fits
<1>2. CASE UNCHANGED vars
    <2>1. Kept
        BY <1>2, ListsUntouched
        DEF vars, poolVars, callVars, Kept, Holding, InFlight, Lost
    <2>. QED
        BY <2>1, KeptPlaces
<1>3. ASSUME NEW r \in Requests, Call(r)
      PROVE  Placed' /\ Fits'
    BY <1>3, CallKinds, UpdatePlaces, TakePlaces, KeptPlaces
<1>4. ASSUME NEW c \in Conns, Server(c)
      PROVE  Placed' /\ Fits'
    BY <1>4, ServerKeeps, KeptPlaces
<1>. QED
    BY <1>1, <1>2, <1>3, <1>4 DEF Next

\* What update(), the continuation of getConnection() and postConnect leave in
\* the lists of the pool.
THEOREM Places == Spec => [](Placed /\ Fits)
<1>1. Init => Placed /\ Fits
    BY InitPlaces
<1>2. ASSUME TypeOK, TypeOK', StagesAgree, ResetsAwaited, TicketBound, Placed /\ Fits,
             [Next]_vars
      PROVE  (Placed /\ Fits)'
    BY <1>2, NextPlaces
<1>. QED
    BY <1>1, <1>2, Typing, Bookkeeping, Bounded, PTL DEF Spec, PendingCallsAgree

\* The connections the pool ever listed or handed out fit in maxSize, each in
\* one place, for any maxSize and any faults but a connection closed by both of
\* its ends at once.
THEOREM NoneLostNorListedTwice == Spec => []ListsKept
<1>1. TypeOK /\ Placed /\ Fits => ListsKept
    BY PlacesKept
<1>. QED
    BY <1>1, Typing, Places, PTL

-----------------------------------------------------------------------------
(* Connections that are being closed.                                       *)

\* What the pool lists or closes was taken by some call before.
Known == \A c \in Conns : Listed(c) # 0 \/ closing[c] => \E r \in Requests : con[r] = c

\* A connection with a pending Connection.Close is closing, and has no other.
ClosesOnce(c) ==
    \A i, j \in DOMAIN workQueue[c] :
        workQueue[c][i].op = "close" =>
            closing[c] /\ (workQueue[c][j].op = "close" => i = j)

\* What one step may do to the work queue of a connection, and to isClosing.
QueueStep(c) ==
    \/ workQueue'[c] = workQueue[c] /\ (closing[c] => closing'[c])
    \/ workQueue'[c] = <<>>
    \/ /\ closing'[c] = closing[c]
       /\ \E e \in Entries : e.op # "close" /\ workQueue'[c] = Append(workQueue[c], e)
    \/ /\ ~closing[c] /\ closing'[c]
       /\ \E a \in Callers : workQueue'[c] = Append(workQueue[c], Entry("close", a))
    \/ /\ workQueue[c] # <<>> /\ workQueue'[c] = Tail(workQueue[c])
       /\ closing'[c] = closing[c] \/ Head(workQueue[c]).op = "close"

LEMMA ClosesOnceKept ==
    ASSUME TypeOK, NEW c \in Conns, ClosesOnce(c), QueueStep(c)
    PROVE  ClosesOnce(c)'
<1>. DEFINE q == workQueue[c]
<1>0. q \in Seq(Entries)
    BY DEF TypeOK
<1>1. CASE workQueue'[c] = q /\ (closing[c] => closing'[c])
    BY <1>1 DEF ClosesOnce
<1>2. CASE workQueue'[c] = <<>>
    <2>1. DOMAIN workQueue'[c] = {}
        BY <1>2
    <2>. QED
        BY <2>1 DEF ClosesOnce
<1>3. ASSUME closing'[c] = closing[c], NEW e \in Entries, e.op # "close",
             workQueue'[c] = Append(q, e)
      PROVE  ClosesOnce(c)'
    <2>1. ASSUME NEW i \in DOMAIN workQueue'[c], workQueue'[c][i].op = "close"
          PROVE  i \in DOMAIN q /\ q[i] = workQueue'[c][i]
        <3>1. /\ i \in DOMAIN q \/ i = Len(q) + 1
              /\ workQueue'[c][Len(q) + 1] = e
              /\ i \in DOMAIN q => workQueue'[c][i] = q[i]
            BY <1>0, <1>3
        <3>. QED
            BY <1>3, <2>1, <3>1
    <2>. QED
        BY <1>3, <2>1 DEF ClosesOnce
<1>4. ASSUME ~closing[c], closing'[c], NEW a \in Callers,
             workQueue'[c] = Append(q, Entry("close", a))
      PROVE  ClosesOnce(c)'
    <2>1. \A i \in DOMAIN q : q[i].op # "close"
        BY <1>4 DEF ClosesOnce
    <2>2. \A i \in DOMAIN workQueue'[c] :
             i = Len(q) + 1 \/ (i \in DOMAIN q /\ workQueue'[c][i] = q[i])
        BY <1>0, <1>4
    <2>3. \A i \in DOMAIN workQueue'[c] : workQueue'[c][i].op = "close" => i = Len(q) + 1
        BY <2>1, <2>2
    <2>. QED
        BY <1>4, <2>3 DEF ClosesOnce
<1>5. ASSUME q # <<>>, workQueue'[c] = Tail(q),
             closing'[c] = closing[c] \/ Head(q).op = "close"
      PROVE  ClosesOnce(c)'
    <2>1. \A i \in DOMAIN workQueue'[c] :
             i \in Nat /\ i + 1 \in DOMAIN q /\ i + 1 # 1 /\ workQueue'[c][i] = q[i + 1]
        BY <1>0, <1>5
    <2>2. 1 \in DOMAIN q /\ q[1] = Head(q)
        BY <1>0, <1>5
    <2>3. CASE closing'[c] = closing[c]
        <3>1. ASSUME NEW i \in DOMAIN workQueue'[c], NEW j \in DOMAIN workQueue'[c],
                     workQueue'[c][i].op = "close", workQueue'[c][j].op = "close"
              PROVE  i = j
            <4>1. i + 1 = j + 1
                BY <2>1, <3>1 DEF ClosesOnce
            <4>. QED
                BY <2>1, <4>1
        <3>2. ASSUME NEW i \in DOMAIN workQueue'[c], workQueue'[c][i].op = "close"
              PROVE  closing'[c]
            BY <2>1, <2>3, <3>2 DEF ClosesOnce
        <3>. QED
            BY <3>1, <3>2 DEF ClosesOnce
    <2>4. CASE Head(q).op = "close"
        <3>1. \A i \in DOMAIN workQueue'[c] : workQueue'[c][i].op # "close"
            BY <2>1, <2>2, <2>4 DEF ClosesOnce
        <3>. QED
            BY <3>1 DEF ClosesOnce
    <2>. QED
        BY <1>5, <2>3, <2>4
<1>. QED
    BY <1>1, <1>2, <1>3, <1>4, <1>5 DEF QueueStep

LEMMA DestroyAllQueues ==
    ASSUME TypeOK, NEW D, NEW a \in Callers, DestroyAll(D, a), NEW c \in Conns
    PROVE  QueueStep(c)
<1>1. CASE c \in D /\ Destroyable(c)
    BY <1>1 DEF DestroyAll, Destroyable, QueueStep
<1>2. CASE ~(c \in D /\ Destroyable(c))
    BY <1>2 DEF DestroyAll, QueueStep
<1>. QED
    BY <1>1, <1>2

LEMMA AnsweredQueues ==
    ASSUME TypeOK, NEW d \in Conns, NEW op, Pending(d, op), Answered(d),
           closing' = closing \/ (op = "close" /\ closing' = [closing EXCEPT ![d] = FALSE]),
           NEW c \in Conns
    PROVE  QueueStep(c)
<1>1. CASE c = d
    BY <1>1 DEF Answered, Pending, QueueStep, TypeOK
<1>2. CASE c # d
    BY <1>2 DEF Answered, Pending, QueueStep, TypeOK
<1>. QED
    BY <1>1, <1>2

LEMMA ClearedQueues ==
    ASSUME TypeOK, NEW d, workQueue' = [workQueue EXCEPT ![d] = <<>>],
           \A c \in Conns \ {d} : closing'[c] = closing[c],
           NEW c \in Conns
    PROVE  QueueStep(c)
BY DEF QueueStep, TypeOK

LEMMA AppendedQueues ==
    ASSUME TypeOK, NEW d, NEW e \in Entries, e.op # "close",
           workQueue' = [workQueue EXCEPT ![d] = Append(@, e)], closing' = closing,
           NEW c \in Conns
    PROVE  QueueStep(c)
BY DEF QueueStep, TypeOK

LEMMA NextQueues ==
    ASSUME TypeOK, StagesAgree, [Next]_vars, NEW c \in Conns
    PROVE  QueueStep(c)
<1>1. ASSUME NEW r \in Requests, GetConnection(r) \/ Retry(r) PROVE QueueStep(c)
    BY <1>1, DestroyAllQueues DEF GetConnection, Retry, Update, Callers
<1>2. CASE ClosePool
    BY <1>2, DestroyAllQueues DEF ClosePool, Callers
<1>3. ASSUME NEW r \in Requests,
             \/ Drop(r) \/ QueueTimeoutExceeded(r) \/ Queue(r)
             \/ \E d \in Conns : Refurbish(r, d) \/ Create(r, d)
             \/ CloseSession(r) \/ QueueTimePasses(r)
      PROVE  QueueStep(c)
    BY <1>3
    DEF QueueStep, Drop, QueueTimeoutExceeded, Queue, Refurbish, Create, CloseSession,
        QueueTimePasses, connVars
<1>4. ASSUME NEW r \in Requests, NEW d \in Conns, Reuse(r, d) PROVE QueueStep(c)
    <2>1. Entry("reset", r) \in Entries /\ Entry("reset", r).op # "close"
        BY EntryType DEF Entry
    <2>. QED
        BY <1>4, <2>1, AppendedQueues DEF Reuse
<1>5. ASSUME NEW r \in Requests, Execute(r) PROVE QueueStep(c)
    <2>1. Entry("work", r) \in Entries /\ Entry("work", r).op # "close"
        BY EntryType DEF Entry
    <2>. QED
        BY <1>5, <2>1, AppendedQueues DEF Execute
<1>6. ASSUME NEW r \in Requests, OpenSucceeds(r) \/ OpenFails(r) PROVE QueueStep(c)
    BY <1>6, ClearedQueues DEF OpenSucceeds, OpenFails, Abandon, TypeOK
<1>7. ASSUME NEW d \in Conns, WorkAnswered(d) \/ ResetSucceeds(d) \/ ResetFails(d)
                              \/ CloseSucceeds(d) \/ CloseFails(d)
      PROVE  QueueStep(c)
    <2>1. \E op \in {"work", "reset", "close"} :
             /\ Pending(d, op) /\ Answered(d)
             /\ \/ closing' = closing
                \/ op = "close" /\ closing' = [closing EXCEPT ![d] = FALSE]
        BY <1>7
        DEF WorkAnswered, ResetSucceeds, ResetFails, CloseSucceeds, CloseFails
    <2>. QED
        BY <2>1, AnsweredQueues
<1>8. ASSUME NEW d \in Conns, SocketClosed(d) \/ ServerCloses(d) \/ NetworkError(d)
      PROVE  QueueStep(c)
    BY <1>8, ClearedQueues
    DEF SocketClosed, ServerCloses, NetworkError, OrderlyClose, RejectPending, Abandon, TypeOK
<1>9. CASE (\E d \in Conns : IdleTimePasses(d)) \/ ResetPool \/ UNCHANGED vars
    BY <1>9 DEF QueueStep, IdleTimePasses, ResetPool, vars, connVars
<1>. QED
    BY <1>1, <1>2, <1>3, <1>4, <1>5, <1>6, <1>7, <1>8, <1>9 DEF Next, Call, Server

\* Only update() and close() start to close connections.
LEMMA CloseStarts ==
    ASSUME TypeOK, [Next]_vars, NEW c \in Conns, closing'[c], ~closing[c]
    PROVE  (\E r \in Requests : GetConnection(r) \/ Retry(r)) \/ ClosePool
<1>1. ASSUME NEW r \in Requests, Call(r), ~(GetConnection(r) \/ Retry(r))
      PROVE  FALSE
    BY <1>1
    DEF Call, Drop, QueueTimeoutExceeded, Queue, Reuse, Refurbish, Create, OpenSucceeds,
        OpenFails, Execute, CloseSession, QueueTimePasses, connVars, TypeOK
<1>2. ASSUME NEW d \in Conns, Server(d)
      PROVE  FALSE
    BY <1>2
    DEF Server, WorkAnswered, ResetSucceeds, ResetFails, CloseSucceeds, CloseFails,
        SocketClosed, ServerCloses, OrderlyClose, NetworkError, IdleTimePasses, TypeOK
<1>3. CASE ResetPool \/ UNCHANGED vars
    BY <1>3 DEF ResetPool, vars, connVars
<1>. QED
    BY <1>1, <1>2, <1>3 DEF Next

\* A connection is listed, or closed, after some call took it.
LEMMA KnownKept ==
    ASSUME TypeOK, TypeOK', StagesAgree, ResetsAwaited, Known, [Next]_vars
    PROVE  Known'
<1>. DEFINE Taken(c) == \E r \in Requests : con[r] = c
<1>0. \A c \in Conns : Listed(c) \in Nat /\ Listed(c)' \in Nat
    BY DEF TypeOK, Listed
<1>1. ASSUME NEW r \in Requests, Update(r)
      PROVE  Known'
    <2>1. con' = con
        BY <1>1 DEF Update
    <2>2. ASSUME NEW c \in Conns, Listed(c)' # 0
          PROVE  Taken(c)
        <3>1. ASSUME NEW S \in SUBSET Requests, ~Taken(c)
              PROVE  Copies(S, c) = 0
            <4>1. {q \in S : con[q] = c} = {}
                BY <3>1
            <4>. QED
                BY <4>1, FS_EmptySet DEF Copies
        <3>2. ClosedEntries \in SUBSET Requests /\ ReleasedEntries \in SUBSET Requests
            BY DEF TypeOK, ClosedEntries, ReleasedEntries
        <3>3. ASSUME ~Taken(c)
              PROVE  Listed(c)' = Listed(c) + 0 + 0
            <4>1. Copies(ClosedEntries, c) = 0 /\ Copies(ReleasedEntries, c) = 0
                BY <3>1, <3>2, <3>3
            <4>. QED
                BY <1>1, <4>1, UpdateListed
        <3>. QED
            BY <1>0, <2>2, <3>3 DEF Known
    <2>3. ASSUME NEW c \in Conns, closing'[c]
          PROVE  closing[c] \/ Listed(c)' # 0
        <3>1. closing[c] \/ expired'[c] > 0
            BY <1>1, <2>3 DEF Update, DestroyAll
        <3>. QED
            BY <3>1 DEF Listed, TypeOK
    <2>. QED
        BY <2>1, <2>2, <2>3 DEF Known
<1>2. CASE ClosePool
    <2>1. UNCHANGED <<idle, expired, con>>
        BY <1>2 DEF ClosePool, callVars
    <2>2. ASSUME NEW c \in Conns, closing'[c], ~closing[c]
          PROVE  Taken(c)
        <3>1. idle[c] > 0 \/ Taken(c)
            BY <1>2, <2>2 DEF ClosePool, DestroyAll, TypeOK
        <3>2. idle[c] > 0 => Listed(c) # 0
            BY DEF Listed, TypeOK
        <3>. QED
            BY <3>1, <3>2 DEF Known
    <2>. QED
        BY <2>1, <2>2 DEF Known, Listed
<1>3. ASSUME ~(\E r \in Requests : Update(r)), ~ClosePool
      PROVE  Known'
    <2>1. \A c \in Conns : closing'[c] => closing[c]
        BY <1>3, CloseStarts DEF GetConnection, Retry
    <2>2. ASSUME \A c \in Conns : Taken(c) => \E r \in Requests : con'[r] = c,
                 \A c \in Conns : Listed(c)' <= Listed(c) \/ Listed(c)' = 0
          PROVE  Known'
        <3>1. \A c \in Conns : Listed(c)' # 0 => Listed(c) # 0
            BY <1>0, <2>2
        <3>. QED
            BY <2>1, <2>2, <3>1 DEF Known
    <2>3. CASE Kept
        BY <2>2, <2>3 DEF Kept
    <2>4. ASSUME NEW r \in Requests, NEW c \in Conns, NEW stage \in {"opening", "resetting"},
                 Takes(r, c, stage)
          PROVE  Known'
        <3>1. con[r] = NoConn
            BY <2>4 DEF Takes, Ready, StagesAgree
        <3>2. \A q \in Requests : con'[q] = IF q = r THEN c ELSE con[q]
            BY <2>4 DEF Takes, TakeTicket, TypeOK
        <3>3. \A d \in Conns : Listed(d)' <= Listed(d)
            <4>1. PICK x : Shift(x)
                BY <2>4 DEF Takes
            <4>. QED
                BY <1>0, <4>1, ShiftLoses
        <3>. QED
            BY <2>2, <3>1, <3>2, <3>3
    <2>5. CASE ResetPool
        <3>1. con' = con /\ \A c \in Conns : Listed(c)' = 0
            BY <2>5 DEF ResetPool, callVars, Listed
        <3>. QED
            BY <2>2, <3>1
    <2>6. CASE UNCHANGED vars
        BY <2>2, <2>6, ListsUntouched DEF vars, poolVars, callVars
    <2>7. ASSUME NEW r \in Requests, Call(r)
          PROVE  Known'
        BY <1>3, <2>3, <2>4, <2>7, CallKinds
    <2>8. ASSUME NEW c \in Conns, Server(c)
          PROVE  Known'
        BY <2>3, <2>8, ServerKeeps
    <2>. QED
        BY <1>3, <2>5, <2>6, <2>7, <2>8 DEF Next
<1>. QED
    BY <1>1, <1>2, <1>3

AllCloseOnce == \A c \in Conns : ClosesOnce(c)

\* Connections are destroyed one at a time: a connection that is being closed has
\* at most one Connection.Close on its way, and none that is not being closed.
THEOREM ClosedByOne == Spec => [](Known /\ AllCloseOnce)
<1>1. Init => Known /\ AllCloseOnce
    BY DEF Init, Known, AllCloseOnce, ClosesOnce, Listed
<1>2. ASSUME TypeOK, TypeOK', StagesAgree, ResetsAwaited, Known /\ AllCloseOnce, [Next]_vars
      PROVE  (Known /\ AllCloseOnce)'
    <2>1. Known'
        BY <1>2, KnownKept
    <2>2. ASSUME NEW c \in Conns PROVE ClosesOnce(c)'
        BY <1>2, NextQueues, ClosesOnceKept DEF AllCloseOnce
    <2>. QED
        BY <2>1, <2>2 DEF AllCloseOnce
<1>. QED
    BY <1>1, <1>2, Typing, Bookkeeping, PTL DEF Spec, PendingCallsAgree

-----------------------------------------------------------------------------
(* Sessions, when only the pool closes connections.                         *)

\* The server and the network close no connection.
OnlyPoolCloses == Faults \cap {"serverClose", "networkError"} = {}

\* The application closes a session once.
ClosedOnce == "reclose" \notin Faults

\* Until the pool is closed, active connections are open and nothing that is
\* held is being closed.
Alive ==
    available =>
        /\ twice = {}
        /\ \A r \in active \cup InFlight : ~closing[con[r]]
        /\ \A r \in active : sock[con[r]] = "open"

\* The calls a connection is being prepared for, or was granted to.
Owners == {r \in Requests : pc[r] \in {"opening", "resetting", "granted"}}

OwnedByOne == \A r, q \in Owners : con[r] = con[q] => r = q

\* A session in use is not released, and is active until the pool is closed.
InUse ==
    \A r \in Requests : pc[r] = "granted" =>
        ~released[con[r]] /\ (available => r \in active)

Owned == Alive /\ (ClosedOnce => OwnedByOne /\ InUse)

\* A step by which no connection gets an owner, is released or destroyed.
LEMMA OwnedUntouched ==
    ASSUME TypeOK, StagesAgree, Owned,
           \A r \in Requests : pc'[r] \in {"opening", "resetting", "granted"} => pc'[r] = pc[r],
           UNCHANGED <<con, active, twice, available>>,
           \A c \in Conns : released'[c] => released[c],
           \A c \in Conns : closing'[c] => closing[c],
           \A r \in active : sock'[con[r]] = sock[con[r]]
    PROVE  Owned'
<1>1. Owners' \subseteq Owners /\ InFlight' \subseteq InFlight
    BY DEF Owners, InFlight
<1>2. \A r \in Owners : con[r] \in Conns
    BY DEF Owners, StagesAgree, TypeOK
<1>3. \A r \in active \cup InFlight : con[r] \in Conns
    BY DEF InFlight, StagesAgree, TypeOK
<1>4. ClosedOnce => OwnedByOne'
    BY <1>1 DEF Owned, OwnedByOne
<1>5. ClosedOnce => InUse'
    BY <1>2 DEF Owned, InUse, Owners
<1>6. Alive'
    BY <1>1, <1>3 DEF Owned, Alive
<1>. QED
    BY <1>4, <1>5, <1>6 DEF Owned

\* A call gets the connection that was prepared for it.
LEMMA OwnedGrant ==
    ASSUME TypeOK, StagesAgree, Owned, NEW r \in Requests, pc[r] \in {"opening", "resetting"},
           \A q \in Requests \ {r} :
               pc'[q] \in {"opening", "resetting", "granted"} => pc'[q] = pc[q],
           pc'[r] = "granted", Grant(r),
           UNCHANGED <<con, closing, twice, available>>,
           sock'[con[r]] = "open",
           \A c \in Conns \ {con[r]} : sock'[c] = sock[c]
    PROVE  Owned'
<1>0. con[r] \in Conns
    BY DEF StagesAgree, TypeOK
<1>1. Owners' \subseteq Owners /\ r \in Owners
    BY DEF Owners
<1>2. InFlight' \subseteq InFlight /\ r \in InFlight /\ active' = active \cup {r}
    BY DEF InFlight, Grant
<1>3. ClosedOnce => OwnedByOne'
    BY <1>1 DEF Owned, OwnedByOne
<1>4. ASSUME ClosedOnce
      PROVE  InUse'
    <2>. SUFFICES ASSUME NEW q \in Requests, pc'[q] = "granted"
                  PROVE  ~released'[con[q]] /\ (available => q \in active')
        BY DEF InUse
    <2>1. CASE q = r
        BY <1>0, <1>2, <2>1 DEF Grant, TypeOK
    <2>2. CASE q # r
        <3>1. pc[q] = "granted" /\ q \in Owners
            BY <2>2 DEF Owners
        <3>2. con[q] # con[r]
            BY <1>1, <1>4, <2>2, <3>1 DEF Owned, OwnedByOne
        <3>. QED
            BY <1>2, <1>4, <3>1, <3>2 DEF Owned, InUse, Grant, TypeOK, StagesAgree
    <2>. QED
        BY <2>1, <2>2
<1>5. Alive'
    <2>1. \A q \in active : con[q] \in Conns
        BY DEF StagesAgree, TypeOK
    <2>. QED
        BY <1>2, <2>1 DEF Owned, Alive
<1>. QED
    BY <1>3, <1>4, <1>5 DEF Owned

\* update() lets go of no session in use and destroys no active connection.
LEMMA OwnedUpdate ==
    ASSUME TypeOK, TypeOK', StagesAgree, Placed', Owned,
           NEW r \in Requests, Update(r), pc[r] \in {"new", "queued"}
    PROVE  Owned'
<1>1. \A q \in Requests : pc'[q] = IF q = r THEN "updating" ELSE pc[q]
    BY DEF Update, TypeOK
<1>2. UNCHANGED <<available, con, released, sock>>
    BY DEF Update
<1>3. Owners' = Owners /\ InFlight' = InFlight
    BY <1>1 DEF Owners, InFlight
<1>4. ASSUME ClosedOnce
      PROVE  OwnedByOne' /\ InUse'
    <2>1. \A q \in Requests : pc'[q] = "granted" => pc[q] = "granted" /\ ~released[con[q]]
        BY <1>1, <1>4 DEF Owned, InUse
    <2>2. available => ClosedEntries = {}
        BY DEF Owned, Alive, ClosedEntries, IsOpen
    <2>3. available => active' = active \ ReleasedEntries
        BY <2>2 DEF Update, UpdateLists
    <2>4. \A q \in Requests : pc'[q] = "granted" /\ available => q \in active'
        BY <1>4, <2>1, <2>3 DEF Owned, InUse, ReleasedEntries, IsIdle
    <2>. QED
        BY <1>2, <1>3, <1>4, <2>1, <2>4 DEF Owned, OwnedByOne, InUse
<1>5. ASSUME available
      PROVE  Alive'
    <2>1. ClosedEntries = {}
        BY <1>5 DEF Owned, Alive, ClosedEntries, IsOpen
    <2>2. twice' = {} /\ active' = active \ ReleasedEntries
        BY <1>5, <2>1 DEF Update, UpdateLists, Owned, Alive
    <2>3. \A q \in active' \cup InFlight' : ~closing'[con[q]]
        <3>. TAKE q \in active' \cup InFlight'
        <3>1. q \in Holding' /\ q \in active \cup InFlight
            BY <1>3, <2>2 DEF Holding
        <3>2. PICK c \in Conns : c = con[q]
            BY <3>1 DEF InFlight, StagesAgree, TypeOK
        <3>3. Listed(c)' = 0
            BY <1>2, <1>5, <2>2, <3>1, <3>2 DEF Placed, Listed
        <3>4. ~(expired'[c] > 0)
            BY <3>3 DEF Listed, TypeOK
        <3>5. ~closing[c]
            BY <1>5, <3>1, <3>2 DEF Owned, Alive
        <3>. QED
            BY <3>2, <3>4, <3>5 DEF Update, DestroyAll
    <2>. QED
        BY <1>2, <1>5, <2>2, <2>3 DEF Owned, Alive
<1>. QED
    BY <1>2, <1>4, <1>5 DEF Owned, Alive

\* A connection is taken from a list, where no owner has it, or is new.
LEMMA OwnedTake ==
    ASSUME TypeOK, TypeOK', StagesAgree, Placed, Known, Owned, NEW r \in Requests,
           NEW c \in Conns, NEW stage \in {"opening", "resetting"}, Takes(r, c, stage)
    PROVE  Owned'
<1>1. \A q \in Requests : /\ pc'[q] = IF q = r THEN stage ELSE pc[q]
                          /\ con'[q] = IF q = r THEN c ELSE con[q]
    BY DEF Takes, TakeTicket, TypeOK
<1>2. pc[r] = "updating" /\ available /\ twice = {}
    BY DEF Takes, Ready, Owned, Alive
<1>3. UNCHANGED <<available, active, sock, closing, released, twice>>
    BY DEF Takes
<1>4. Owners' = Owners \cup {r} /\ InFlight' = InFlight \cup {r} /\ r \notin active
    BY <1>1, <1>2 DEF Owners, InFlight, StagesAgree
<1>5. ClosedOnce => Owners \subseteq Holding
    BY <1>2 DEF Owners, Owned, InUse, Holding, InFlight
<1>6. ASSUME ClosedOnce
      PROVE  \A q \in Owners : con[q] # c
    <2>1. CASE Shift(c)
        BY <1>2, <1>5, <1>6, <2>1 DEF Placed, Shift, Shiftable, Listed, TypeOK
    <2>2. CASE \A q \in Requests : con[q] # c
        BY <2>2 DEF Owners
    <2>. QED
        BY <2>1, <2>2 DEF Takes
<1>7. ~closing[c]
    BY DEF Takes, Known
<1>8. ClosedOnce => OwnedByOne'
    BY <1>1, <1>4, <1>6 DEF Owned, OwnedByOne, Owners
<1>9. ClosedOnce => InUse'
    BY <1>1, <1>3 DEF Owned, InUse
<1>10. Alive'
    BY <1>1, <1>2, <1>3, <1>4, <1>7 DEF Owned, Alive, InFlight, TypeOK
<1>. QED
    BY <1>8, <1>9, <1>10 DEF Owned

LEMMA OwnedCall ==
    ASSUME OnlyPoolCloses, TypeOK, TypeOK', StagesAgree, ResetsAwaited, Placed, Placed',
           Known, Owned, NEW r \in Requests, Call(r)
    PROVE  Owned'
<1>0. /\ \A q \in Owners : con[q] \in Conns
      /\ \A q \in active \cup InFlight : con[q] \in Conns
    BY DEF Owners, InFlight, StagesAgree, TypeOK
<1>1. CASE GetConnection(r) \/ Retry(r)
    BY <1>1, OwnedUpdate DEF GetConnection, Retry
<1>2. ASSUME NEW c \in Conns, Refurbish(r, c) \/ Create(r, c) \/ Reuse(r, c)
      PROVE  Owned'
    <2>1. \E stage \in {"opening", "resetting"} : Takes(r, c, stage)
        BY <1>2 DEF Refurbish, Create, Reuse, Takes, connVars
    <2>. QED
        BY <2>1, OwnedTake
<1>3. CASE Drop(r) \/ QueueTimeoutExceeded(r) \/ Queue(r) \/ Execute(r) \/ QueueTimePasses(r)
    <2>1. UNCHANGED <<available, active, con, twice, sock, closing, released>>
        BY <1>3
        DEF Drop, QueueTimeoutExceeded, Queue, Execute, QueueTimePasses,
            poolVars, callVars, connVars
    <2>2. \A q \in Requests : pc'[q] \in {"opening", "resetting", "granted"} => pc'[q] = pc[q]
        BY <1>3
        DEF Drop, QueueTimeoutExceeded, Queue, Execute, QueueTimePasses, callVars, TypeOK
    <2>. QED
        BY <2>1, <2>2, OwnedUntouched
<1>4. CASE OpenSucceeds(r)
    <2>1. \A q \in Requests \ {r} :
             pc'[q] \in {"opening", "resetting", "granted"} => pc'[q] = pc[q]
        BY <1>4 DEF OpenSucceeds, Abandon
    <2>2. pc'[r] = "granted" /\ pc[r] = "opening" /\ Grant(r)
        BY <1>4 DEF OpenSucceeds, Abandon
    <2>3. UNCHANGED <<con, closing, twice, available>>
        BY <1>4 DEF OpenSucceeds
    <2>4. con[r] \in Conns /\ sock' = [sock EXCEPT ![con[r]] = "open"]
        BY <1>4, <2>2 DEF OpenSucceeds, StagesAgree, TypeOK
    <2>5. sock'[con[r]] = "open" /\ \A c \in Conns \ {con[r]} : sock'[c] = sock[c]
        BY <2>4 DEF TypeOK
    <2>. QED
        BY <2>1, <2>2, <2>3, <2>5, OwnedGrant
<1>5. CASE OpenFails(r)
    <2>1. UNCHANGED <<available, active, con, twice, released>> /\ pc[r] = "opening"
        BY <1>5 DEF OpenFails, poolVars
    <2>2. \A q \in Requests : pc'[q] \in {"opening", "resetting", "granted"} => pc'[q] = pc[q]
        BY <1>5 DEF OpenFails, Abandon
    <2>3. CASE available
        <3>1. ASSUME NEW q \in active
              PROVE  con[q] # con[r]
            <4>1. q \in Holding /\ r \in Holding /\ q # r
                BY <2>1 DEF Holding, InFlight, StagesAgree
            <4>. QED
                BY <2>3, <4>1 DEF Placed, Owned, Alive
        <3>2. \A q \in active : sock'[con[q]] = sock[con[q]]
            BY <1>0, <1>5, <3>1 DEF OpenFails, TypeOK
        <3>3. \A c \in Conns : closing'[c] => closing[c]
            BY <1>5 DEF OpenFails, TypeOK
        <3>. QED
            BY <2>1, <2>2, <3>2, <3>3, OwnedUntouched
    <2>4. CASE ~available
        <3>1. Owners' \subseteq Owners
            BY <2>2 DEF Owners
        <3>2. ClosedOnce => OwnedByOne' /\ InUse'
            BY <2>1, <2>2, <3>1 DEF Owned, OwnedByOne, InUse
        <3>. QED
            BY <2>1, <2>4, <3>2 DEF Owned, Alive
    <2>. QED
        BY <2>3, <2>4
<1>6. CASE CloseSession(r)
    <2>1. ClosedOnce => pc[r] = "granted" /\ r \in Owners
        BY <1>6 DEF CloseSession, ClosedOnce, Owners
    <2>2. \A q \in Requests : pc'[q] = IF q = r THEN "closed" ELSE pc[q]
        BY <1>6 DEF CloseSession, TypeOK
    <2>3. UNCHANGED <<available, active, con, twice, sock, closing>>
        BY <1>6 DEF CloseSession, poolVars
    <2>4. Owners' \subseteq Owners /\ InFlight' = InFlight
        BY <1>6, <2>2 DEF CloseSession, Owners, InFlight
    <2>5. ASSUME ClosedOnce
          PROVE  InUse'
        <3>. SUFFICES ASSUME NEW q \in Requests, pc'[q] = "granted"
                      PROVE  ~released'[con[q]] /\ (available => q \in active)
            BY <2>3 DEF InUse
        <3>1. q # r /\ pc[q] = "granted" /\ q \in Owners
            BY <2>2 DEF Owners
        <3>2. con[q] # con[r]
            BY <2>1, <2>5, <3>1 DEF Owned, OwnedByOne
        <3>. QED
            BY <1>0, <1>6, <2>5, <3>1, <3>2 DEF Owned, InUse, CloseSession, TypeOK
    <2>6. (ClosedOnce => OwnedByOne') /\ Alive'
        BY <2>2, <2>3, <2>4 DEF Owned, OwnedByOne, Alive
    <2>. QED
        BY <2>5, <2>6 DEF Owned
<1>. QED
    BY <1>1, <1>2, <1>3, <1>4, <1>5, <1>6 DEF Call

LEMMA OwnedServer ==
    ASSUME OnlyPoolCloses, TypeOK, TypeOK', StagesAgree, ResetsAwaited, AllCloseOnce,
           Owned, NEW c \in Conns, Server(c)
    PROVE  Owned'
<1>0. \A q \in active \cup InFlight : con[q] \in Conns
    BY DEF InFlight, StagesAgree, TypeOK
<1>1. CASE WorkAnswered(c) \/ IdleTimePasses(c) \/ CloseFails(c) \/ ResetFails(c)
    <2>1. UNCHANGED <<available, active, con, twice, sock, closing, released>>
        BY <1>1 DEF WorkAnswered, IdleTimePasses, CloseFails, ResetFails, poolVars, callVars
    <2>2. \A q \in Requests : pc'[q] \in {"opening", "resetting", "granted"} => pc'[q] = pc[q]
        BY <1>1 DEF WorkAnswered, IdleTimePasses, CloseFails, ResetFails, callVars, TypeOK
    <2>. QED
        BY <2>1, <2>2, OwnedUntouched
<1>2. CASE ResetSucceeds(c)
    <2>. DEFINE r == Head(workQueue[c]).by
    <2>1. workQueue[c] \in Seq(Entries) /\ workQueue[c] # <<>>
        BY <1>2 DEF TypeOK, ResetSucceeds, Pending
    <2>2. /\ 1 \in DOMAIN workQueue[c]
          /\ workQueue[c][1] = Head(workQueue[c])
          /\ workQueue[c][1].op = "reset"
        BY <1>2, <2>1 DEF ResetSucceeds, Pending
    <2>3. r \in Requests /\ pc[r] = "resetting" /\ con[r] = c
        BY <2>2, ResetBy DEF ResetsAwaited
    <2>4. /\ pc'[r] = "granted"
          /\ \A q \in Requests \ {r} : pc'[q] = pc[q]
        BY <1>2, <2>3 DEF ResetSucceeds, TypeOK
    <2>5. Grant(r) /\ UNCHANGED <<con, closing, twice, available, sock>>
        BY <1>2 DEF ResetSucceeds
    <2>6. sock[c] = "open"
        BY <1>2 DEF ResetSucceeds, Pending
    <2>. HIDE DEF r
    <2>. QED
        BY <2>3, <2>4, <2>5, <2>6, OwnedGrant
<1>3. CASE CloseSucceeds(c)
    <2>1. workQueue[c] \in Seq(Entries) /\ workQueue[c] # <<>>
        BY <1>3 DEF TypeOK, CloseSucceeds, Pending
    <2>2. 1 \in DOMAIN workQueue[c] /\ workQueue[c][1].op = "close"
        BY <1>3, <2>1 DEF CloseSucceeds, Pending
    <2>3. closing[c]
        BY <2>2 DEF AllCloseOnce, ClosesOnce
    <2>4. UNCHANGED <<available, active, con, twice, pc, released>>
        BY <1>3 DEF CloseSucceeds, poolVars, callVars
    <2>5. /\ \A d \in Conns : closing'[d] => closing[d]
          /\ \A d \in Conns \ {c} : sock'[d] = sock[d]
        BY <1>3 DEF CloseSucceeds, TypeOK
    <2>6. CASE available
        <3>1. \A q \in active : con[q] # c
            BY <2>3, <2>6 DEF Owned, Alive
        <3>. QED
            BY <1>0, <2>4, <2>5, <3>1, OwnedUntouched
    <2>7. CASE ~available
        BY <2>4, <2>7 DEF Owned, OwnedByOne, InUse, Alive, Owners
    <2>. QED
        BY <2>6, <2>7
<1>4. CASE SocketClosed(c)
    <2>1. OrderlyClose(c) /\ sock[c] = "down"
        BY <1>4 DEF SocketClosed
    <2>2. UNCHANGED <<available, active, con, twice, released>>
        BY <2>1 DEF OrderlyClose, poolVars
    <2>3. /\ \A d \in Conns : closing'[d] => closing[d]
          /\ \A d \in Conns \ {c} : sock'[d] = sock[d]
        BY <2>1 DEF OrderlyClose, TypeOK
    <2>4. \A q \in Requests : pc'[q] \in {"opening", "resetting", "granted"} => pc'[q] = pc[q]
        BY <2>1 DEF OrderlyClose, RejectPending
    <2>5. CASE available
        <3>1. \A q \in active : con[q] # c
            BY <2>1, <2>5 DEF Owned, Alive
        <3>. QED
            BY <1>0, <2>2, <2>3, <2>4, <3>1, OwnedUntouched
    <2>6. CASE ~available
        <3>1. Owners' \subseteq Owners
            BY <2>4 DEF Owners
        <3>2. ClosedOnce => OwnedByOne' /\ InUse'
            BY <2>2, <2>4, <3>1 DEF Owned, OwnedByOne, InUse
        <3>. QED
            BY <2>2, <2>6, <3>2 DEF Owned, Alive
    <2>. QED
        BY <2>5, <2>6
<1>5. ~ServerCloses(c) /\ ~NetworkError(c)
    BY DEF OnlyPoolCloses, ServerCloses, NetworkError
<1>. QED
    BY <1>1, <1>2, <1>3, <1>4, <1>5 DEF Server

LEMMA NextOwned ==
    ASSUME OnlyPoolCloses, TypeOK, TypeOK', StagesAgree, ResetsAwaited, Placed, Placed',
           Known, AllCloseOnce, Owned, [Next]_vars
    PROVE  Owned'
<1>1. CASE ClosePool \/ ResetPool
    BY <1>1
    DEF ClosePool, ResetPool, Owned, OwnedByOne, InUse, Alive, Owners, callVars, connVars
<1>2. CASE UNCHANGED vars
    BY <1>2
    DEF vars, poolVars, callVars, connVars, Owned, OwnedByOne, InUse, Alive, Owners, InFlight
<1>. QED
    BY <1>1, <1>2, OwnedCall, OwnedServer DEF Next

LEMMA InitOwned == Init => Owned
BY DEF Init, Owned, OwnedByOne, InUse, Alive, Owners, InFlight

\* Who owns the connections the pool hands out, as long as only the pool closes
\* any.
THEOREM Ownership ==
    ASSUME OnlyPoolCloses
    PROVE  Spec => []Owned
<1>1. Init => Owned
    BY InitOwned
<1>2. ASSUME TypeOK, TypeOK', StagesAgree, ResetsAwaited, Placed /\ Fits, (Placed /\ Fits)',
             Known /\ AllCloseOnce, Owned, [Next]_vars
      PROVE  Owned'
    BY <1>2, NextOwned
<1>. QED
    BY <1>1, <1>2, Typing, Bookkeeping, Places, ClosedByOne, PTL DEF Spec, PendingCallsAgree

\* For any number of connections and any order of calls, answers, rejections and
\* timers, two sessions in use never share a connection, as long as only the pool
\* closes connections and each session is closed once.
THEOREM Exclusive ==
    ASSUME OnlyPoolCloses, ClosedOnce
    PROVE  Spec => []ExclusiveSessions
<1>1. Owned => ExclusiveSessions
    BY DEF Owned, OwnedByOne, Owners, ExclusiveSessions
<1>. QED
    BY <1>1, Ownership, PTL

\* No step but ResetPool takes a session in use from the active list, or changes
\* the connection of a call that has one.
LEMMA InUseStays ==
    ASSUME ClosedOnce, TypeOK, StagesAgree, ResetsAwaited, Owned', [Next]_vars, available, available',
           NEW r \in active, pc[r] = "granted"
    PROVE  r \in active' /\ con'[r] = con[r]
<1>1. ASSUME NEW q \in Requests, Update(q), pc[q] \in {"new", "queued"}
      PROVE  r \in active' /\ con'[r] = con[r]
    <2>1. pc'[r] = "granted" /\ con' = con /\ r \in Requests
        BY <1>1 DEF Update, TypeOK
    <2>. QED
        BY <2>1 DEF Owned, InUse
<1>2. ASSUME NEW q \in Requests, NEW c \in Conns, NEW stage \in {"opening", "resetting"},
             Takes(q, c, stage)
      PROVE  r \in active' /\ con'[r] = con[r]
    BY <1>2 DEF Takes, TakeTicket, Ready, TypeOK
<1>3. CASE Kept
    BY <1>3 DEF Kept
<1>4. CASE ClosePool \/ ResetPool \/ UNCHANGED vars
    BY <1>4 DEF ClosePool, ResetPool, vars, poolVars, callVars
<1>5. ASSUME NEW q \in Requests, Call(q)
      PROVE  r \in active' /\ con'[r] = con[r]
    BY <1>1, <1>2, <1>3, <1>5, CallKinds
<1>6. ASSUME NEW c \in Conns, Server(c)
      PROVE  r \in active' /\ con'[r] = con[r]
    BY <1>3, <1>6, ServerKeeps
<1>. QED
    BY <1>4, <1>5, <1>6 DEF Next

\* No update(), of whatever call, starts to close a connection in use (under the
\* same conditions).
THEOREM InUseKept ==
    ASSUME OnlyPoolCloses, ClosedOnce
    PROVE  Spec => InUseNeverDestroyed
<1>. DEFINE Safe == \A r \in Requests :
                        available /\ available' /\ pc[r] = "granted" /\ ~closing[con[r]]
                            => ~closing'[con[r]]
<1>1. ASSUME TypeOK, StagesAgree, ResetsAwaited, Owned, Owned', [Next]_vars
      PROVE  [Safe]_vars
    <2>. SUFFICES ASSUME NEW r \in Requests, available, available', pc[r] = "granted"
                  PROVE  ~closing'[con[r]]
        OBVIOUS
    <2>1. r \in active
        BY <1>1 DEF Owned, InUse
    <2>2. r \in active' /\ con'[r] = con[r]
        BY <1>1, <2>1, InUseStays
    <2>. QED
        BY <1>1, <2>2 DEF Owned, Alive
<1>. QED
    BY <1>1, Typing, Bookkeeping, Ownership, PTL
    DEF Spec, PendingCallsAgree, InUseNeverDestroyed

-----------------------------------------------------------------------------
(* The refinement of ConnectionLeases.                                      *)

\* The pool accepts calls until Client.close().
ClosingAgrees == available <=> closer = "none"

LEMMA ClosingKept ==
    ASSUME ClosingAgrees, [Next]_vars
    PROVE  ClosingAgrees'
<1>1. ASSUME NEW r \in Requests, Call(r)
      PROVE  UNCHANGED available /\ (closer' = "none" <=> closer = "none")
    BY <1>1
    DEF Call, GetConnection, Retry, Update, Drop, QueueTimeoutExceeded, Queue, Reuse,
        Refurbish, Create, OpenSucceeds, OpenFails, Abandon, Execute, CloseSession,
        QueueTimePasses, poolVars
<1>2. ASSUME NEW c \in Conns, Server(c)
      PROVE  UNCHANGED available /\ (closer' = "none" <=> closer = "none")
    BY <1>2
    DEF Server, WorkAnswered, ResetSucceeds, ResetFails, CloseSucceeds, CloseFails,
        SocketClosed, ServerCloses, OrderlyClose, RejectPending, NetworkError, Abandon,
        IdleTimePasses, poolVars
<1>3. CASE ClosePool \/ ResetPool
    BY <1>3 DEF ClosePool, ResetPool, ClosingAgrees
<1>. QED
    BY <1>1, <1>2, <1>3 DEF Next, ClosingAgrees, vars, poolVars

lease == [r \in Requests |-> IF r \in Holding THEN con[r] ELSE NoConn]
served == {r \in Requests : con[r] # NoConn}

\* The leases are held by those who hold a connection.
LEMMA LeaseHolders ==
    ASSUME TypeOK, StagesAgree
    PROVE  /\ {r \in Requests : lease[r] # NoConn} = Holding
           /\ \A r \in Holding : con[r] \in Conns
<1>1. \A r \in Holding : r \in Requests /\ con[r] # NoConn
    BY HoldingType DEF Holding, InFlight, Lost, StagesAgree
<1>. QED
    BY <1>1 DEF lease, TypeOK

\* The two modules count alike.
LEMMA SameCardinality == \A S : Leases!Cardinality(S) = Cardinality(S)
BY DEF Leases!Cardinality, Cardinality

\* The steps of the abstract module, in the terms of the pool.
Leased(r, c) ==
    /\ available /\ UNCHANGED available
    /\ r \notin served /\ served' = served \cup {r}
    /\ \A q \in Holding : lease[q] # c
    /\ lease' = [lease EXCEPT ![r] = c]
    /\ Cardinality(Holding) < MaxSize

Returned(S) ==
    /\ S # {}
    /\ lease' = [r \in Requests |-> IF r \in S THEN NoConn ELSE lease[r]]
    /\ UNCHANGED <<served, available>>

LeasesStop == available /\ available' = FALSE /\ UNCHANGED <<lease, served>>

LeasesStay == UNCHANGED <<lease, served, available>>

LEMMA LeaseSteps ==
    ASSUME TypeOK, StagesAgree
    PROVE  /\ \A r \in Requests, c \in Conns : Leased(r, c) => Leases!LeaseNext
           /\ \A S \in SUBSET Holding : Returned(S) => Leases!LeaseNext
           /\ LeasesStop => Leases!LeaseNext
           /\ LeasesStay => UNCHANGED Leases!leaseVars
<1>1. Leases!Holders = Holding
    BY LeaseHolders DEF Leases!Holders, lease
<1>2. Leases!LeasedConns = {lease[q] : q \in Holding}
    BY <1>1 DEF Leases!LeasedConns, lease
<1>3. ASSUME NEW r \in Requests, NEW c \in Conns, Leased(r, c)
      PROVE  Leases!LeaseNext
    <2>1. c \notin Leases!LeasedConns /\ Leases!Cardinality(Leases!Holders) < MaxSize
        BY <1>1, <1>2, <1>3, SameCardinality DEF Leased
    <2>2. Leases!Acquire(r, c)
        BY <1>3, <2>1 DEF Leases!Acquire, Leased, lease, served
    <2>. QED
        BY <2>2 DEF Leases!LeaseNext
<1>4. ASSUME NEW S \in SUBSET Holding, Returned(S)
      PROVE  Leases!LeaseNext
    <2>1. Leases!Release(S)
        BY <1>4 DEF Leases!Release, Returned, lease, served
    <2>. QED
        BY <1>1, <2>1 DEF Leases!LeaseNext
<1>5. LeasesStop => Leases!LeaseNext
    BY DEF LeasesStop, Leases!LeaseNext, Leases!Close, lease, served
<1>6. LeasesStay => UNCHANGED Leases!leaseVars
    BY DEF LeasesStay, Leases!leaseVars, lease, served
<1>. QED
    BY <1>3, <1>4, <1>5, <1>6

LEMMA LeaseStep ==
    ASSUME TypeOK, TypeOK', StagesAgree, StagesAgree', ResetsAwaited, TicketAccounting,
           TicketBound, Placed, Owned, ClosingAgrees, [Next]_vars
    PROVE  [Leases!LeaseNext]_(Leases!leaseVars)
<1>1. ASSUME Holding' = Holding, con' = con
      PROVE  UNCHANGED <<lease, served>>
    BY <1>1 DEF lease, served
<1>2. ASSUME NEW S \in SUBSET Holding, Holding' = Holding \ S, con' = con,
             available' = available
      PROVE  [Leases!LeaseNext]_(Leases!leaseVars)
    <2>1. LeasesStay \/ Returned(S)
        BY <1>2 DEF LeasesStay, Returned, lease, served
    <2>. QED
        BY <2>1, LeaseSteps
<1>3. ASSUME NEW r \in Requests, Update(r), pc[r] \in {"new", "queued"}
      PROVE  [Leases!LeaseNext]_(Leases!leaseVars)
    <2>1. /\ ClosedEntries \cup ReleasedEntries \in SUBSET Holding
          /\ con' = con /\ available' = available
        BY <1>3 DEF Update, ClosedEntries, ReleasedEntries, Holding
    <2>. QED
        BY <1>2, <1>3, <2>1, UpdateHolding
<1>4. ASSUME NEW r \in Requests, NEW c \in Conns, NEW stage \in {"opening", "resetting"},
             Takes(r, c, stage)
      PROVE  [Leases!LeaseNext]_(Leases!leaseVars)
    <2>1. /\ available /\ available' = available /\ active' = active
          /\ pc[r] = "updating" /\ con[r] = NoConn /\ tickets # MaxSize
        BY <1>4 DEF Takes, Ready, StagesAgree, IsFull
    <2>2. \A q \in Requests : /\ pc'[q] = IF q = r THEN stage ELSE pc[q]
                              /\ con'[q] = IF q = r THEN c ELSE con[q]
        BY <1>4 DEF Takes, TakeTicket, TypeOK
    <2>3. Holding' = Holding \cup {r} /\ r \notin Holding
        BY <2>1, <2>2, HoldingType DEF Holding, InFlight, Lost, StagesAgree
    <2>4. Cardinality(Holding) < MaxSize
        <3>1. twice = {} /\ tickets + 0 = Cardinality(Holding)
            BY <2>1, FS_EmptySet DEF Owned, Alive, TicketAccounting
        <3>. QED
            BY <2>1, <3>1 DEF TicketBound, TypeOK
    <2>5. \A q \in Holding : lease[q] # c
        <3>1. \A q \in Holding : lease[q] = con[q] /\ con[q] \in Conns
            BY HoldingType, LeaseHolders DEF lease
        <3>2. CASE Shift(c)
            <4>1. Listed(c) # 0
                BY <3>2 DEF Shift, Shiftable, Listed, TypeOK
            <4>. QED
                BY <2>1, <3>1, <4>1 DEF Placed, Owned, Alive
        <3>3. CASE \A q \in Requests : con[q] # c
            BY <3>1, <3>3, HoldingType
        <3>. QED
            BY <1>4, <3>2, <3>3 DEF Takes
    <2>6. lease' = [lease EXCEPT ![r] = c]
        BY <2>2, <2>3 DEF lease
    <2>7. served' = served \cup {r} /\ r \notin served
        BY <2>1, <2>2 DEF served
    <2>8. Leased(r, c)
        BY <2>1, <2>4, <2>5, <2>6, <2>7 DEF Leased
    <2>. QED
        BY <2>8, LeaseSteps
<1>5. ASSUME NEW r \in Requests, Call(r)
      PROVE  \/ \E c \in Conns, stage \in {"opening", "resetting"} : Takes(r, c, stage)
             \/ Update(r) /\ pc[r] \in {"new", "queued"}
             \/ Kept
    BY <1>5, CallKinds
<1>6. CASE Kept
    BY <1>1, <1>6, LeaseSteps DEF Kept, LeasesStay
<1>7. CASE ClosePool
    <2>1. Holding' = Holding /\ con' = con /\ available /\ available' = FALSE
        BY <1>7 DEF ClosePool, ClosingAgrees, callVars, Holding, InFlight, Lost
    <2>. QED
        BY <1>1, <2>1, LeaseSteps DEF LeasesStop
<1>8. CASE ResetPool
    <2>1. con' = con /\ pc' = pc /\ available' = available /\ active' = {}
        BY <1>8 DEF ResetPool, ClosingAgrees, callVars, TypeOK
    <2>2. active \in SUBSET Holding /\ Holding' = Holding \ active
        BY <2>1 DEF Holding, InFlight, Lost, StagesAgree
    <2>. QED
        BY <1>2, <2>1, <2>2
<1>9. CASE UNCHANGED vars
    BY <1>1, <1>9, LeaseSteps
    DEF vars, poolVars, callVars, Holding, InFlight, Lost, LeasesStay
<1>10. ASSUME NEW c \in Conns, Server(c)
       PROVE  Kept
    BY <1>10, ServerKeeps
<1>. QED
    BY <1>3, <1>4, <1>5, <1>6, <1>7, <1>8, <1>9, <1>10 DEF Next

\* Every step of the pool hands out a connection nobody holds, within maxSize,
\* takes some back, closes the pool, or changes nothing its callers can see; also
\* if sessions are closed more than once.
THEOREM PoolImplementsLeases ==
    ASSUME OnlyPoolCloses
    PROVE  Spec => ImplementsLeases
<1>1. Init => Leases!LeaseInit /\ ClosingAgrees
    BY DEF Init, Leases!LeaseInit, ClosingAgrees, Holding, InFlight, Lost
<1>2. ASSUME TypeOK, TypeOK', StagesAgree, StagesAgree', ResetsAwaited, TicketAccounting,
             TicketBound, Placed /\ Fits, Owned, ClosingAgrees, [Next]_vars
      PROVE  [Leases!LeaseNext]_(Leases!leaseVars)
    BY <1>2, LeaseStep
<1>3. ClosingAgrees /\ [Next]_vars => ClosingAgrees'
    BY ClosingKept
<1>. QED
    BY <1>1, <1>2, <1>3, Typing, Bookkeeping, Accounting, Bounded, Places, Ownership, PTL
    DEF Spec, PendingCallsAgree, ImplementsLeases, Leases!LeaseSpec

=============================================================================
