------------------------ MODULE ConnectionPoolProofs ------------------------
(***************************************************************************)
(* Proofs about ConnectionPool, for any number of requests and connections, *)
(* any maxSize and any combination of faults.                               *)
(***************************************************************************)
EXTENDS ConnectionPool, FiniteSetTheorems, TLAPS

USE PoolAssumption

-----------------------------------------------------------------------------
(* Finite sets of requests.                                                 *)

\* A set of requests has a number of elements.
LEMMA RequestSets ==
    ASSUME NEW S \in SUBSET Requests
    PROVE  IsFiniteSet(S) /\ Cardinality(S) \in Nat
BY FS_Subset, FS_CardinalityType

\* The entries of a list for one connection can be counted.
LEMMA CopiesType ==
    ASSUME NEW S \in SUBSET Requests, NEW c
    PROVE  Copies(S, c) \in Nat
BY RequestSets DEF Copies

-----------------------------------------------------------------------------
(* Work queues.                                                             *)

LEMMA EntryType ==
    /\ \A r \in Requests, op \in {"work", "reset", "close"} : Entry(op, r) \in Entries
    /\ Entry("close", Pool) \in Entries
BY DEF Entries, Entry, Callers

\* Starting destroy() on any set of connections keeps the queues well formed.
LEMMA DestroyAllType ==
    ASSUME TypeOK, NEW D, NEW a \in Callers, DestroyAll(D, a)
    PROVE  /\ closing' \in [Conns -> BOOLEAN]
           /\ workQueue' \in [Conns -> Seq(Entries)]
<1>1. Entry("close", a) \in Entries
    BY DEF Entries, Entry
<1>. QED
    BY <1>1 DEF TypeOK, DestroyAll, Destroyable

LEMMA AbandonType ==
    ASSUME TypeOK, NEW c, NEW r, NEW stage \in Stages, Abandon(c, r, stage)
    PROVE  /\ pc' \in [Requests -> Stages]
           /\ closer' \in {"none", "closing", "rejected", "done", "failed", "hung"}
           /\ workQueue' \in [Conns -> Seq(Entries)]
<1>2. <<>> \in Seq(Entries)
    OBVIOUS
<1>. QED
    BY <1>2 DEF TypeOK, Abandon, Stages

LEMMA RejectPendingType ==
    ASSUME TypeOK, NEW c, RejectPending(c)
    PROVE  /\ pc' \in [Requests -> Stages]
           /\ closer' \in {"none", "closing", "rejected", "done", "failed", "hung"}
           /\ workQueue' \in [Conns -> Seq(Entries)]
<1>1. <<>> \in Seq(Entries)
    OBVIOUS
<1>. QED
    BY <1>1 DEF TypeOK, RejectPending, Stages

LEMMA AppendedType ==
    ASSUME TypeOK, NEW c, NEW e \in Entries,
           workQueue' = [workQueue EXCEPT ![c] = Append(@, e)]
    PROVE  workQueue' \in [Conns -> Seq(Entries)]
<1>1. \A s \in Seq(Entries) : Append(s, e) \in Seq(Entries)
    OBVIOUS
<1>. QED
    BY <1>1 DEF TypeOK

LEMMA AnsweredType ==
    ASSUME TypeOK, NEW c \in Conns, NEW op, Pending(c, op), Answered(c)
    PROVE  /\ workQueue' \in [Conns -> Seq(Entries)]
           /\ Head(workQueue[c]) \in Entries
           /\ Head(workQueue[c]).op = op
BY DEF TypeOK, Pending, Answered

-----------------------------------------------------------------------------
(* Types.                                                                   *)

LEMMA UpdateType ==
    ASSUME TypeOK, NEW r \in Requests, Update(r)
    PROVE  TypeOK'
<1>. DEFINE D == {c \in Conns : expired'[c] > 0}
<1>1. ClosedEntries \in SUBSET Requests /\ ReleasedEntries \in SUBSET Requests
    BY DEF TypeOK, ClosedEntries, ReleasedEntries
<1>2. tickets' \in Int
    BY <1>1, RequestSets DEF Update, ReturnTickets, TypeOK
<1>3. idle' \in [Conns -> Nat] /\ expired' \in [Conns -> Nat]
    <2>1. \A c \in Conns : /\ Copies(ClosedEntries, c) \in Nat
                           /\ Copies(ReleasedEntries, c) \in Nat
        BY <1>1, CopiesType
    <2>. QED
        BY <2>1 DEF Update, UpdateLists, TypeOK
<1>4. closing' \in [Conns -> BOOLEAN] /\ workQueue' \in [Conns -> Seq(Entries)]
    BY DestroyAllType DEF Update, Callers
<1>5. active' \in SUBSET Requests /\ twice' \in SUBSET Requests
    BY <1>1 DEF Update, UpdateLists, TypeOK
<1>. QED
    BY <1>2, <1>3, <1>4, <1>5 DEF Update, TypeOK, Stages

LEMMA ShiftType ==
    ASSUME TypeOK, NEW c, Shift(c)
    PROVE  idle' \in [Conns -> Nat] /\ expired' \in [Conns -> Nat]
<1>1. idle' \in [Conns -> Nat]
    BY DEF Shift, TypeOK
<1>2. ASSUME NEW d \in Conns, d = c, idle[d] = 0
      PROVE  expired[d] > 0
    BY <1>2 DEF Shift, Shiftable, TypeOK
<1>. QED
    BY <1>1, <1>2 DEF Shift, TypeOK

\* Every variable keeps its type: counts of the lists never become negative,
\* and only calls of getConnection() wait for a Session.Reset.
THEOREM Typing == Spec => []TypeOK
<1>1. Init => TypeOK
    <2>1. <<>> \in Seq(Entries)
        OBVIOUS
    <2>. QED
        BY <2>1 DEF Init, TypeOK, Stages, Sockets
<1>2. TypeOK /\ [Next]_vars => TypeOK'
    <2>. SUFFICES ASSUME TypeOK, [Next]_vars
                  PROVE  TypeOK'
        OBVIOUS
    <2>1. ASSUME NEW r \in Requests, GetConnection(r) \/ Retry(r)
          PROVE  TypeOK'
        BY <2>1, UpdateType DEF GetConnection, Retry
    <2>2. ASSUME NEW r \in Requests, Drop(r) PROVE TypeOK'
        BY <2>2 DEF Drop, TypeOK, Stages, poolVars, connVars
    <2>3. ASSUME NEW r \in Requests, QueueTimeoutExceeded(r) \/ Queue(r)
          PROVE  TypeOK'
        <3>1. idle' \in [Conns -> Nat] /\ expired' \in [Conns -> Nat]
            BY <2>3, ShiftType DEF QueueTimeoutExceeded, Queue
        <3>. QED
            BY <2>3, <3>1 DEF QueueTimeoutExceeded, Queue, TypeOK, Stages, connVars
    <2>4. ASSUME NEW r \in Requests, NEW c \in Conns, Reuse(r, c)
          PROVE  TypeOK'
        <3>1. idle' \in [Conns -> Nat] /\ expired' \in [Conns -> Nat]
            BY <2>4, ShiftType DEF Reuse
        <3>2. workQueue' \in [Conns -> Seq(Entries)]
            <4>1. Entry("reset", r) \in Entries
                BY EntryType
            <4>. QED
                BY <2>4, <4>1, AppendedType DEF Reuse
        <3>. QED
            BY <2>4, <3>1, <3>2 DEF Reuse, TakeTicket, TypeOK, Stages
    <2>5. ASSUME NEW r \in Requests, NEW c \in Conns, Refurbish(r, c) \/ Create(r, c)
          PROVE  TypeOK'
        <3>1. idle' \in [Conns -> Nat] /\ expired' \in [Conns -> Nat]
            BY <2>5, ShiftType DEF Refurbish, Create
        <3>. QED
            <4>1. TakeTicket(r, c, "opening")
                BY <2>5 DEF Refurbish, Create
            <4>2. tickets' \in Int /\ con' \in [Requests -> Conns \cup {NoConn}]
                BY <4>1 DEF TakeTicket, TypeOK
            <4>3. pc' \in [Requests -> Stages]
                BY <4>1 DEF TakeTicket, TypeOK, Stages
            <4>4. UNCHANGED <<available, active, late, connVars, closer, twice>>
                BY <2>5 DEF Refurbish, Create
            <4>. QED
                BY <3>1, <4>2, <4>3, <4>4 DEF TypeOK, connVars
    <2>6. ASSUME NEW r \in Requests, OpenSucceeds(r) PROVE TypeOK'
        <3>1. /\ pc' \in [Requests -> Stages]
              /\ closer' \in {"none", "closing", "rejected", "done", "failed", "hung"}
              /\ workQueue' \in [Conns -> Seq(Entries)]
            BY <2>6, AbandonType DEF OpenSucceeds, Stages
        <3>. QED
            <4>1. sock' \in [Conns -> Sockets]
                BY <2>6 DEF OpenSucceeds, TypeOK, Sockets
            <4>2. /\ released' \in [Conns -> BOOLEAN]
                  /\ aged' \in [Conns -> BOOLEAN]
                  /\ active' \in SUBSET Requests
                BY <2>6 DEF OpenSucceeds, Grant, TypeOK
            <4>. QED
                BY <2>6, <3>1, <4>1, <4>2 DEF OpenSucceeds, TypeOK
    <2>7. ASSUME NEW r \in Requests, OpenFails(r) PROVE TypeOK'
        <3>1. /\ pc' \in [Requests -> Stages]
              /\ closer' \in {"none", "closing", "rejected", "done", "failed", "hung"}
              /\ workQueue' \in [Conns -> Seq(Entries)]
            BY <2>7, AbandonType DEF OpenFails, Stages
        <3>. QED
            BY <2>7, <3>1 DEF OpenFails, TypeOK, Sockets, poolVars
    <2>8. ASSUME NEW r \in Requests, Execute(r) PROVE TypeOK'
        <3>1. Entry("work", r) \in Entries
            BY EntryType
        <3>. QED
            <4>1. workQueue' \in [Conns -> Seq(Entries)]
                BY <2>8, <3>1, AppendedType DEF Execute
            <4>. QED
                BY <2>8, <4>1 DEF Execute, TypeOK, poolVars, callVars
    <2>9. ASSUME NEW r \in Requests, CloseSession(r) \/ QueueTimePasses(r)
          PROVE  TypeOK'
        BY <2>9 DEF CloseSession, QueueTimePasses, TypeOK, Stages, poolVars, connVars
    <2>10. ASSUME NEW c \in Conns, WorkAnswered(c) \/ CloseSucceeds(c)
           PROVE  TypeOK'
        <3>1. workQueue' \in [Conns -> Seq(Entries)]
            BY <2>10, AnsweredType DEF WorkAnswered, CloseSucceeds
        <3>. QED
            BY <2>10, <3>1 DEF WorkAnswered, CloseSucceeds, TypeOK, Sockets, poolVars, callVars
    <2>11. ASSUME NEW c \in Conns, ResetSucceeds(c) \/ ResetFails(c)
           PROVE  TypeOK'
        <3>1. /\ workQueue' \in [Conns -> Seq(Entries)]
              /\ Head(workQueue[c]) \in Entries
              /\ Head(workQueue[c]).op = "reset"
            BY <2>11, AnsweredType DEF ResetSucceeds, ResetFails
        <3>2. Head(workQueue[c]).by \in Requests
            BY <3>1 DEF Entries
        <3>. QED
            BY <2>11, <3>1, <3>2
            DEF ResetSucceeds, ResetFails, Grant, TypeOK, Stages, poolVars
    <2>12. ASSUME NEW c \in Conns, CloseFails(c) PROVE TypeOK'
        <3>1. workQueue' \in [Conns -> Seq(Entries)]
            BY <2>12, AnsweredType DEF CloseFails
        <3>. QED
            BY <2>12, <3>1 DEF CloseFails, TypeOK, Stages, poolVars
    <2>13. ASSUME NEW c \in Conns, SocketClosed(c) \/ ServerCloses(c)
           PROVE  TypeOK'
        <3>1. OrderlyClose(c)
            BY <2>13 DEF SocketClosed, ServerCloses
        <3>2. /\ pc' \in [Requests -> Stages]
              /\ closer' \in {"none", "closing", "rejected", "done", "failed", "hung"}
              /\ workQueue' \in [Conns -> Seq(Entries)]
            BY <3>1, RejectPendingType DEF OrderlyClose
        <3>. QED
            BY <3>1, <3>2 DEF OrderlyClose, TypeOK, Sockets, poolVars
    <2>14. ASSUME NEW c \in Conns, NetworkError(c) PROVE TypeOK'
        <3>1. /\ pc' \in [Requests -> Stages]
              /\ closer' \in {"none", "closing", "rejected", "done", "failed", "hung"}
              /\ workQueue' \in [Conns -> Seq(Entries)]
            BY <2>14, AbandonType DEF NetworkError, Stages
        <3>. QED
            BY <2>14, <3>1 DEF NetworkError, TypeOK, Sockets, poolVars
    <2>15. ASSUME NEW c \in Conns, IdleTimePasses(c) PROVE TypeOK'
        BY <2>15 DEF IdleTimePasses, TypeOK, poolVars, callVars
    <2>16. CASE ClosePool
        <3>1. closing' \in [Conns -> BOOLEAN] /\ workQueue' \in [Conns -> Seq(Entries)]
            BY <2>16, DestroyAllType DEF ClosePool, Callers
        <3>. QED
            BY <2>16, <3>1 DEF ClosePool, TypeOK, callVars
    <2>17. CASE ResetPool
        <3>1. closer' \in {"none", "closing", "rejected", "done", "failed", "hung"}
            BY <2>17 DEF ResetPool
        <3>2. idle' \in [Conns -> Nat] /\ expired' \in [Conns -> Nat]
            BY <2>17 DEF ResetPool
        <3>3. tickets' \in Int /\ active' \in SUBSET Requests
            BY <2>17, SMT DEF ResetPool
        <3>5. available' \in BOOLEAN
            BY <2>17, Zenon DEF ResetPool
        <3>4. UNCHANGED <<pc, con, late, sock, closing, released, aged, workQueue, twice>>
            BY <2>17 DEF ResetPool, callVars, connVars
        <3>. QED
            BY <3>1, <3>2, <3>3, <3>4, <3>5 DEF TypeOK
    <2>18. CASE UNCHANGED vars
        BY <2>18 DEF vars, poolVars, callVars, connVars, TypeOK
    <2>. QED
        BY <2>1, <2>2, <2>3, <2>4, <2>5, <2>6, <2>7, <2>8, <2>9, <2>10, <2>11,
           <2>12, <2>13, <2>14, <2>15, <2>16, <2>17, <2>18
        DEF Next, Call, Server
<1>. QED
    BY <1>1, <1>2, PTL DEF Spec

-----------------------------------------------------------------------------
(* Stages and pending Session.Reset requests.                               *)

\* The Session.Reset entries of the next queues come from the current ones, at
\* most one entry of a queue having been answered.
ResetsKept ==
    \A c \in Conns : \E k \in {0, 1} : \A i \in DOMAIN workQueue'[c] :
        workQueue'[c][i].op = "reset" =>
            i + k \in DOMAIN workQueue[c] /\ workQueue[c][i + k] = workQueue'[c][i]

\* Those who wait for one that remains go on waiting.
WaitersKept ==
    \A c \in Conns : \A i \in DOMAIN workQueue'[c] :
        workQueue'[c][i].op = "reset" =>
            LET r == workQueue'[c][i].by IN pc'[r] = pc[r] /\ con'[r] = con[r]

\* Only calls of getConnection() reset a session.
LEMMA ResetBy ==
    ASSUME TypeOK, NEW c \in Conns, NEW i \in DOMAIN workQueue[c],
           workQueue[c][i].op = "reset"
    PROVE  workQueue[c][i].by \in Requests
<1>1. workQueue[c] \in Seq(Entries)
    BY DEF TypeOK
<1>2. workQueue[c][i] \in Entries
    BY <1>1
<1>. QED
    BY <1>2 DEF Entries

LEMMA ResetsAwaitedKept ==
    ASSUME TypeOK, TypeOK', ResetsAwaited, ResetsKept, WaitersKept
    PROVE  ResetsAwaited'
<1>1. ASSUME NEW c \in Conns, NEW i \in DOMAIN workQueue'[c],
             workQueue'[c][i].op = "reset"
      PROVE  pc'[workQueue'[c][i].by] = "resetting" /\ con'[workQueue'[c][i].by] = c
    BY <1>1 DEF ResetsAwaited, ResetsKept, WaitersKept
<1>2. ASSUME NEW c \in Conns, NEW i \in DOMAIN workQueue'[c],
             NEW j \in DOMAIN workQueue'[c], workQueue'[c][i].op = "reset",
             workQueue'[c][i] = workQueue'[c][j]
      PROVE  i = j
    <2>1. PICK k \in {0, 1} : \A n \in DOMAIN workQueue'[c] :
             workQueue'[c][n].op = "reset" =>
               n + k \in DOMAIN workQueue[c] /\ workQueue[c][n + k] = workQueue'[c][n]
        BY DEF ResetsKept
    <2>2. i + k = j + k
        BY <1>2, <2>1 DEF ResetsAwaited
    <2>3. workQueue'[c] \in Seq(Entries)
        BY DEF TypeOK
    <2>4. i \in Nat /\ j \in Nat
        BY <2>3
    <2>. QED
        BY <2>2, <2>4
<1>. QED
    BY <1>1, <1>2 DEF ResetsAwaited

LEMMA DestroyAllKeepsResets ==
    ASSUME TypeOK, NEW D, NEW a \in Callers, DestroyAll(D, a)
    PROVE  ResetsKept
<1>. SUFFICES ASSUME NEW c \in Conns
              PROVE  \A i \in DOMAIN workQueue'[c] :
                        workQueue'[c][i].op = "reset" =>
                            /\ i + 0 \in DOMAIN workQueue[c]
                            /\ workQueue[c][i + 0] = workQueue'[c][i]
    BY DEF ResetsKept
<1>0. workQueue[c] \in Seq(Entries)
    BY DEF TypeOK
<1>1. CASE workQueue'[c] = workQueue[c]
    BY <1>0, <1>1
<1>2. CASE workQueue'[c] = Append(workQueue[c], Entry("close", a))
    BY <1>0, <1>2 DEF Entry
<1>. QED
    BY <1>1, <1>2 DEF DestroyAll

LEMMA AnsweredKeepsResets ==
    ASSUME TypeOK, NEW c \in Conns, NEW op, Pending(c, op), Answered(c)
    PROVE  ResetsKept
<1>. SUFFICES ASSUME NEW d \in Conns
              PROVE  \E k \in {0, 1} : \A i \in DOMAIN workQueue'[d] :
                        workQueue'[d][i].op = "reset" =>
                            /\ i + k \in DOMAIN workQueue[d]
                            /\ workQueue[d][i + k] = workQueue'[d][i]
    BY DEF ResetsKept
<1>0. workQueue[d] \in Seq(Entries)
    BY DEF TypeOK
<1>1. CASE d # c
    <2>1. workQueue'[d] = workQueue[d]
        BY <1>1 DEF Answered, TypeOK
    <2>2. \A i \in DOMAIN workQueue'[d] :
             i + 0 \in DOMAIN workQueue[d] /\ workQueue[d][i + 0] = workQueue'[d][i]
        BY <1>0, <2>1
    <2>. QED
        BY <2>2
<1>2. CASE d = c
    <2>1. workQueue'[d] = Tail(workQueue[d]) /\ workQueue[d] # <<>>
        BY <1>2 DEF Answered, Pending, TypeOK
    <2>2. \A i \in DOMAIN workQueue'[d] :
             i + 1 \in DOMAIN workQueue[d] /\ workQueue[d][i + 1] = workQueue'[d][i]
        BY <1>0, <2>1
    <2>. QED
        BY <2>2
<1>. QED
    BY <1>1, <1>2

LEMMA ClearedKeepsResets ==
    ASSUME TypeOK, NEW c, workQueue' = [workQueue EXCEPT ![c] = <<>>]
    PROVE  ResetsKept
<1>. SUFFICES ASSUME NEW d \in Conns
              PROVE  \A i \in DOMAIN workQueue'[d] :
                        /\ i + 0 \in DOMAIN workQueue[d]
                        /\ workQueue[d][i + 0] = workQueue'[d][i]
    BY DEF ResetsKept
<1>0. workQueue[d] \in Seq(Entries)
    BY DEF TypeOK
<1>1. CASE d = c
    <2>1. workQueue'[d] = <<>>
        BY <1>1 DEF TypeOK
    <2>2. DOMAIN workQueue'[d] = {}
        BY <2>1
    <2>. QED
        BY <2>2
<1>2. CASE d # c
    <2>1. workQueue'[d] = workQueue[d]
        BY <1>2 DEF TypeOK
    <2>. QED
        BY <1>0, <2>1
<1>. QED
    BY <1>1, <1>2

LEMMA UnchangedKeepsResets ==
    ASSUME TypeOK, workQueue' = workQueue
    PROVE  ResetsKept
<1>. SUFFICES ASSUME NEW d \in Conns, NEW i \in DOMAIN workQueue[d]
              PROVE  i + 0 \in DOMAIN workQueue[d] /\ workQueue[d][i + 0] = workQueue[d][i]
    BY DEF ResetsKept
<1>0. workQueue[d] \in Seq(Entries)
    BY DEF TypeOK
<1>. QED
    BY <1>0

LEMMA WorkKeepsResets ==
    ASSUME TypeOK, NEW c, NEW r,
           workQueue' = [workQueue EXCEPT ![c] = Append(@, Entry("work", r))]
    PROVE  ResetsKept
<1>. SUFFICES ASSUME NEW d \in Conns, NEW i \in DOMAIN workQueue'[d],
                     workQueue'[d][i].op = "reset"
              PROVE  i + 0 \in DOMAIN workQueue[d] /\ workQueue[d][i + 0] = workQueue'[d][i]
    BY DEF ResetsKept
<1>0. workQueue[d] \in Seq(Entries)
    BY DEF TypeOK
<1>1. CASE d = c
    <2>1. workQueue'[d] = Append(workQueue[d], Entry("work", r))
        BY <1>1 DEF TypeOK
    <2>2. i \in DOMAIN workQueue[d] \/ i = Len(workQueue[d]) + 1
        BY <1>0, <2>1
    <2>3. workQueue'[d][Len(workQueue[d]) + 1] = Entry("work", r)
        BY <1>0, <2>1
    <2>4. Entry("work", r).op # "reset"
        BY DEF Entry
    <2>5. i \in DOMAIN workQueue[d]
        BY <2>2, <2>3, <2>4
    <2>6. workQueue'[d][i] = workQueue[d][i]
        BY <1>0, <2>1, <2>5
    <2>7. i + 0 = i
        BY <1>0, <2>5
    <2>. QED
        BY <2>5, <2>6, <2>7
<1>2. CASE d # c
    <2>1. workQueue'[d] = workQueue[d]
        BY <1>2 DEF TypeOK
    <2>2. i + 0 = i
        BY <1>0, <2>1
    <2>. QED
        BY <2>1, <2>2
<1>. QED
    BY <1>1, <1>2

\* What dropping or rejecting the queue of connection c leaves of the stages,
\* r being the call that now owns c.
AbandonKeeps(c, r) ==
    /\ ResetsKept
    /\ WaitersKept
    /\ \A q \in Requests \ {r} :
          \/ pc'[q] = pc[q]
          \/ pc[q] = "updating" /\ pc'[q] \in {"hung", "failed"}
          \/ pc[q] = "resetting" /\ con[q] = c /\ pc'[q] \in {"hung", "failed"}

\* The waiters of a dropped queue hang, the others do not notice.
LEMMA AbandonLemma ==
    ASSUME TypeOK, ResetsAwaited, NEW c \in Conns, NEW r, NEW stage,
           r \in Requests => pc[r] # "resetting",
           Abandon(c, r, stage), con' = con
    PROVE  AbandonKeeps(c, r)
<1>1. ResetsKept
    BY ClearedKeepsResets DEF Abandon
<1>2. WaitersKept
    <2>. SUFFICES ASSUME NEW d \in Conns, NEW i \in DOMAIN workQueue'[d],
                         workQueue'[d][i].op = "reset"
                  PROVE  pc'[workQueue'[d][i].by] = pc[workQueue'[d][i].by]
        BY DEF WaitersKept
    <2>. DEFINE q == workQueue'[d][i].by
    <2>1. d # c
        <3>1. workQueue'[c] = <<>>
            BY DEF Abandon, TypeOK
        <3>2. DOMAIN workQueue'[c] = {}
            BY <3>1
        <3>. QED
            BY <3>2
    <2>2. workQueue'[d] = workQueue[d]
        BY <2>1 DEF Abandon, TypeOK
    <2>3. q \in Requests /\ pc[q] = "resetting" /\ con[q] = d
        BY <2>2, ResetBy DEF ResetsAwaited
    <2>4. ~Abandoned(workQueue[c], q, "reset")
        BY <2>1, <2>3 DEF Abandoned, Entry, ResetsAwaited
    <2>. QED
        BY <2>3, <2>4 DEF Abandon
<1>3. ASSUME NEW q \in Requests \ {r}
      PROVE  \/ pc'[q] = pc[q]
             \/ pc[q] = "updating" /\ pc'[q] = "hung"
             \/ pc[q] = "resetting" /\ con[q] = c /\ pc'[q] = "hung"
    <2>1. Abandoned(workQueue[c], q, "reset") => con[q] = c
        BY DEF Abandoned, Entry, ResetsAwaited
    <2>. QED
        BY <2>1 DEF Abandon
<1>. QED
    BY <1>1, <1>2, <1>3 DEF AbandonKeeps

\* The waiters of a rejected queue fail, the others do not notice.
LEMMA RejectLemma ==
    ASSUME TypeOK, ResetsAwaited, NEW c \in Conns, RejectPending(c), con' = con
    PROVE  AbandonKeeps(c, Pool)
<1>1. ResetsKept
    BY ClearedKeepsResets DEF RejectPending
<1>2. WaitersKept
    <2>. SUFFICES ASSUME NEW d \in Conns, NEW i \in DOMAIN workQueue'[d],
                         workQueue'[d][i].op = "reset"
                  PROVE  pc'[workQueue'[d][i].by] = pc[workQueue'[d][i].by]
        BY DEF WaitersKept
    <2>. DEFINE q == workQueue'[d][i].by
    <2>1. d # c
        <3>1. workQueue'[c] = <<>>
            BY DEF RejectPending, TypeOK
        <3>2. DOMAIN workQueue'[c] = {}
            BY <3>1
        <3>. QED
            BY <3>2
    <2>2. workQueue'[d] = workQueue[d]
        BY <2>1 DEF RejectPending, TypeOK
    <2>3. q \in Requests /\ pc[q] = "resetting" /\ con[q] = d
        BY <2>2, ResetBy DEF ResetsAwaited
    <2>4. ~Abandoned(workQueue[c], q, "reset")
        BY <2>1, <2>3 DEF Abandoned, Entry, ResetsAwaited
    <2>. QED
        BY <2>3, <2>4 DEF RejectPending
<1>3. ASSUME NEW q \in Requests
      PROVE  \/ pc'[q] = pc[q]
             \/ pc[q] = "updating" /\ pc'[q] = "failed"
             \/ pc[q] = "resetting" /\ con[q] = c /\ pc'[q] \in {"hung", "failed"}
    <2>1. Abandoned(workQueue[c], q, "reset") => con[q] = c
        BY DEF Abandoned, Entry, ResetsAwaited
    <2>. QED
        BY <2>1 DEF RejectPending
<1>. QED
    BY <1>1, <1>2, <1>3 DEF AbandonKeeps

\* Both parts of the bookkeeping, for one step of one call.
LEMMA BookkeepingCall ==
    ASSUME TypeOK, TypeOK', StagesAgree, ResetsAwaited,
           NEW r \in Requests, Call(r)
    PROVE  StagesAgree' /\ ResetsAwaited'
<1>. USE DEF StagesAgree
<1>1. ASSUME Update(r), pc[r] \in {"new", "queued"}
      PROVE  StagesAgree' /\ ResetsAwaited'
    <2>1. ResetsKept
        BY <1>1, DestroyAllKeepsResets DEF Update, Callers
    <2>2. \A q \in Requests : pc'[q] = IF q = r THEN "updating" ELSE pc[q]
        BY <1>1 DEF Update, TypeOK
    <2>3. con' = con
        BY <1>1 DEF Update
    <2>4. WaitersKept
        <3>. SUFFICES ASSUME NEW c \in Conns, NEW i \in DOMAIN workQueue'[c],
                             workQueue'[c][i].op = "reset"
                      PROVE  pc'[workQueue'[c][i].by] = pc[workQueue'[c][i].by]
            BY <2>3 DEF WaitersKept
        <3>1. pc[workQueue'[c][i].by] = "resetting"
            BY <2>1 DEF ResetsKept, ResetsAwaited
        <3>2. workQueue'[c][i].by \in Requests
            BY DEF TypeOK, Entries
        <3>. QED
            BY <3>1, <3>2, <2>2, <1>1
    <2>5. active' \subseteq active /\ active' \cup twice' \subseteq active \cup twice
        BY <1>1 DEF Update, UpdateLists, ClosedEntries, ReleasedEntries
    <2>6. active' \cap twice' = {}
        BY <1>1 DEF Update, UpdateLists, ClosedEntries, ReleasedEntries
    <2>7. ResetsAwaited'
        BY <2>1, <2>4, ResetsAwaitedKept
    <2>. QED
        BY <2>2, <2>3, <2>5, <2>6, <2>7, <1>1 DEF TypeOK
<1>2. CASE GetConnection(r) \/ Retry(r)
    BY <1>1, <1>2 DEF GetConnection, Retry
<1>3. ASSUME NEW stage \in {"dropped", "failed", "queued"}, Ready(r),
             pc' = [pc EXCEPT ![r] = stage],
             UNCHANGED <<active, con, twice, workQueue>>
      PROVE  StagesAgree' /\ ResetsAwaited'
    <2>1. \A q \in Requests : pc'[q] = IF q = r THEN stage ELSE pc[q]
        BY <1>3 DEF TypeOK
    <2>2. pc[r] = "updating"
        BY <1>3 DEF Ready
    <2>3. WaitersKept
        BY <1>3, <2>1, <2>2 DEF WaitersKept, ResetsAwaited, TypeOK, Entries
    <2>4. ResetsAwaited'
        BY <1>3, <2>3, UnchangedKeepsResets, ResetsAwaitedKept
    <2>5. StagesAgree'
        BY <1>3, <2>1, <2>2 DEF TypeOK
    <2>. QED
        BY <2>4, <2>5
<1>4. CASE Drop(r) \/ QueueTimeoutExceeded(r) \/ Queue(r)
    BY <1>3, <1>4 DEF Drop, QueueTimeoutExceeded, Queue, poolVars, connVars
<1>5. ASSUME NEW c \in Conns, Refurbish(r, c) \/ Create(r, c)
      PROVE  StagesAgree' /\ ResetsAwaited'
    <2>0. Ready(r) /\ TakeTicket(r, c, "opening") /\ UNCHANGED <<active, twice, workQueue>>
        BY <1>5 DEF Refurbish, Create, connVars
    <2>1. \A q \in Requests : /\ pc'[q] = IF q = r THEN "opening" ELSE pc[q]
                              /\ con'[q] = IF q = r THEN c ELSE con[q]
        BY <2>0 DEF TakeTicket, TypeOK
    <2>2. pc[r] = "updating"
        BY <2>0 DEF Ready
    <2>3. WaitersKept
        BY <2>0, <2>1, <2>2 DEF WaitersKept, ResetsAwaited, TypeOK, Entries
    <2>4. ResetsAwaited'
        BY <2>0, <2>3, UnchangedKeepsResets, ResetsAwaitedKept
    <2>5. StagesAgree'
        BY <2>0, <2>1, <2>2 DEF TypeOK
    <2>. QED
        BY <2>4, <2>5
<1>6. ASSUME NEW c \in Conns, Reuse(r, c)
      PROVE  StagesAgree' /\ ResetsAwaited'
    <2>1. \A q \in Requests : /\ pc'[q] = IF q = r THEN "resetting" ELSE pc[q]
                              /\ con'[q] = IF q = r THEN c ELSE con[q]
        BY <1>6 DEF Reuse, TakeTicket, TypeOK
    <2>2. pc[r] = "updating"
        BY <1>6 DEF Reuse, Ready
    <2>3. \A d \in Conns : \A i \in DOMAIN workQueue[d] :
             workQueue[d][i].op = "reset" => workQueue[d][i].by # r
        BY <2>2 DEF ResetsAwaited
    <2>4. \A d \in Conns : workQueue[d] \in Seq(Entries)
        BY DEF TypeOK
    <2>5. \A d \in Conns \ {c} : workQueue'[d] = workQueue[d]
        BY <1>6 DEF Reuse, TypeOK
    <2>6. workQueue'[c] = Append(workQueue[c], Entry("reset", r))
        BY <1>6 DEF Reuse, TypeOK
    <2>7. Entry("reset", r).by = r /\ Entry("reset", r).op = "reset"
        BY DEF Entry
    <2>8. \A i \in DOMAIN workQueue'[c] :
             \/ i \in DOMAIN workQueue[c] /\ workQueue'[c][i] = workQueue[c][i]
             \/ i = Len(workQueue[c]) + 1 /\ workQueue'[c][i] = Entry("reset", r)
        BY <2>4, <2>6
    <2>9. ASSUME NEW d \in Conns, NEW i \in DOMAIN workQueue'[d],
                 workQueue'[d][i].op = "reset"
          PROVE  /\ pc'[workQueue'[d][i].by] = "resetting"
                 /\ con'[workQueue'[d][i].by] = d
        <3>1. CASE workQueue'[d][i] = Entry("reset", r) /\ d = c
            BY <3>1, <2>1, <2>7
        <3>2. CASE i \in DOMAIN workQueue[d] /\ workQueue'[d][i] = workQueue[d][i]
            <4>1. workQueue[d][i].by \in Requests
                BY <3>2, <2>9, ResetBy
            <4>. QED
                <5>1. /\ pc[workQueue[d][i].by] = "resetting"
                      /\ con[workQueue[d][i].by] = d
                      /\ workQueue[d][i].by # r
                    BY <3>2, <2>3, <2>9 DEF ResetsAwaited
                <5>. QED
                    BY <5>1, <4>1, <2>1, <3>2
        <3>. QED
            BY <3>1, <3>2, <2>5, <2>8
    <2>10. ASSUME NEW d \in Conns, NEW i \in DOMAIN workQueue'[d],
                  NEW j \in DOMAIN workQueue'[d], workQueue'[d][i].op = "reset",
                  workQueue'[d][i] = workQueue'[d][j]
           PROVE  i = j
        <3>1. CASE d # c
            BY <3>1, <2>5, <2>10 DEF ResetsAwaited
        <3>2. CASE d = c
            BY <3>2, <2>3, <2>7, <2>8, <2>10 DEF ResetsAwaited
        <3>. QED
            BY <3>1, <3>2
    <2>11. ResetsAwaited'
        BY <2>9, <2>10 DEF ResetsAwaited
    <2>12. StagesAgree'
        BY <1>6, <2>1, <2>2 DEF TypeOK, Reuse
    <2>. QED
        BY <2>11, <2>12
\* Whoever waits in the queue that is dropped is told or forgotten.
<1>7. ASSUME NEW stage \in {"granted", "failed"}, pc[r] = "opening",
             Abandon(con[r], r, stage), con' = con, twice' = twice,
             active' = IF stage = "granted" THEN active \cup {r} ELSE active
      PROVE  StagesAgree' /\ ResetsAwaited'
    <2>1. con[r] \in Conns
        BY <1>7 DEF TypeOK
    <2>2. AbandonKeeps(con[r], r)
        BY <1>7, <2>1, AbandonLemma
    <2>3. r \notin twice
        BY <1>7
    <2>5. pc'[r] = stage
        <3>. HIDE DEF StagesAgree
        <3>. QED
            BY <1>7 DEF Abandon
    <2>4. StagesAgree'
        BY <1>7, <2>2, <2>3, <2>5 DEF AbandonKeeps, TypeOK
    <2>. QED
        BY <2>2, <2>4, <1>7, ResetsAwaitedKept DEF AbandonKeeps
<1>8. CASE OpenSucceeds(r) \/ OpenFails(r)
    BY <1>7, <1>8 DEF OpenSucceeds, OpenFails, Grant, poolVars
<1>9. CASE Execute(r)
    <2>1. ResetsKept
        BY <1>9, WorkKeepsResets DEF Execute
    <2>2. UNCHANGED <<pc, con, active, twice>>
        BY <1>9 DEF Execute, poolVars, callVars
    <2>. QED
        BY <2>1, <2>2, ResetsAwaitedKept DEF WaitersKept
<1>10. CASE CloseSession(r)
    <2>1. \A q \in Requests : pc'[q] = IF q = r THEN "closed" ELSE pc[q]
        BY <1>10 DEF CloseSession, TypeOK
    <2>2. pc[r] \in {"granted", "closed"}
        BY <1>10 DEF CloseSession
    <2>3. UNCHANGED <<con, active, twice, workQueue>>
        BY <1>10 DEF CloseSession, poolVars
    <2>4. WaitersKept
        BY <2>1, <2>2, <2>3, ResetBy DEF WaitersKept, ResetsAwaited
    <2>5. ResetsAwaited'
        BY <2>3, <2>4, UnchangedKeepsResets, ResetsAwaitedKept
    <2>6. StagesAgree'
        BY <2>1, <2>2, <2>3 DEF TypeOK
    <2>. QED
        BY <2>5, <2>6
<1>11. CASE QueueTimePasses(r)
    <2>1. UNCHANGED <<pc, con, active, twice, workQueue>>
        BY <1>11 DEF QueueTimePasses, poolVars, connVars
    <2>. QED
        BY <2>1, UnchangedKeepsResets, ResetsAwaitedKept DEF WaitersKept
<1>. QED
    BY <1>2, <1>4, <1>5, <1>6, <1>8, <1>9, <1>10, <1>11 DEF Call

\* The same for one step of the server or the network.
LEMMA BookkeepingServer ==
    ASSUME TypeOK, TypeOK', StagesAgree, ResetsAwaited,
           NEW c \in Conns, Server(c)
    PROVE  StagesAgree' /\ ResetsAwaited'
<1>. USE DEF StagesAgree
<1>1. CASE WorkAnswered(c) \/ CloseSucceeds(c)
    <2>1. ResetsKept
        BY <1>1, AnsweredKeepsResets DEF WorkAnswered, CloseSucceeds
    <2>2. UNCHANGED <<pc, con, active, twice>>
        BY <1>1 DEF WorkAnswered, CloseSucceeds, poolVars, callVars
    <2>. QED
        BY <2>1, <2>2, ResetsAwaitedKept DEF WaitersKept
<1>2. ASSUME NEW stage \in {"granted", "failed"}, Pending(c, "reset"), Answered(c),
             pc' = [pc EXCEPT ![Head(workQueue[c]).by] = stage],
             active' = IF stage = "granted" THEN active \cup {Head(workQueue[c]).by}
                       ELSE active,
             UNCHANGED <<con, twice>>
      PROVE  StagesAgree' /\ ResetsAwaited'
    <2>. DEFINE r == Head(workQueue[c]).by
    <2>0. workQueue[c] \in Seq(Entries) /\ workQueue[c] # <<>>
        BY <1>2 DEF TypeOK, Pending
    <2>1. /\ 1 \in DOMAIN workQueue[c]
          /\ workQueue[c][1] = Head(workQueue[c])
          /\ workQueue[c][1].op = "reset"
        BY <1>2, <2>0 DEF Pending
    <2>2. r \in Requests /\ pc[r] = "resetting" /\ con[r] = c
        BY <2>1, ResetBy DEF ResetsAwaited
    <2>3. \A q \in Requests : pc'[q] = IF q = r THEN stage ELSE pc[q]
        BY <1>2, <2>2 DEF TypeOK
    <2>4. ResetsKept
        BY <1>2, AnsweredKeepsResets
    <2>5. ASSUME NEW d \in Conns, NEW i \in DOMAIN workQueue'[d],
                 workQueue'[d][i].op = "reset"
          PROVE  workQueue'[d][i].by # r /\ workQueue'[d][i].by \in Requests
        <3>1. CASE d = c
            <4>1. workQueue'[c] = Tail(workQueue[c])
                BY <1>2 DEF Answered, TypeOK
            <4>2. /\ i + 1 \in DOMAIN workQueue[c] /\ i + 1 # 1
                  /\ workQueue[c][i + 1] = workQueue'[c][i]
                BY <2>0, <3>1, <4>1
            <4>3. workQueue[c][i + 1] # workQueue[c][1]
                BY <2>1, <4>2 DEF ResetsAwaited
            <4>4. workQueue[c][i + 1] \in Entries /\ workQueue[c][1] \in Entries
                BY <2>0, <2>1, <4>2
            <4>5. workQueue[c][i + 1].by # workQueue[c][1].by
                BY <2>1, <2>5, <3>1, <4>2, <4>3, <4>4 DEF Entries
            <4>6. workQueue[c][i + 1].by \in Requests
                BY <2>5, <3>1, <4>2, ResetBy
            <4>. QED
                BY <2>1, <3>1, <4>2, <4>5, <4>6
        <3>2. CASE d # c
            <4>1. workQueue'[d] = workQueue[d]
                BY <1>2, <3>2 DEF Answered, TypeOK
            <4>2. con[workQueue[d][i].by] = d /\ workQueue[d][i].by \in Requests
                BY <2>5, <4>1, ResetBy DEF ResetsAwaited
            <4>. QED
                BY <2>2, <3>2, <4>1, <4>2
        <3>. QED
            BY <3>1, <3>2
    <2>6. WaitersKept
        BY <1>2, <2>3, <2>5 DEF WaitersKept
    <2>7. ResetsAwaited'
        BY <2>4, <2>6, ResetsAwaitedKept
    <2>8. r \notin twice /\ con[r] # NoConn
        BY <2>2
    <2>9. StagesAgree'
        BY <1>2, <2>2, <2>3, <2>8 DEF TypeOK
    <2>. QED
        BY <2>7, <2>9
<1>3. CASE ResetSucceeds(c) \/ ResetFails(c)
    BY <1>2, <1>3 DEF ResetSucceeds, ResetFails, Grant, poolVars
<1>4. CASE CloseFails(c)
    <2>1. ResetsKept
        BY <1>4, AnsweredKeepsResets DEF CloseFails
    <2>2. UNCHANGED <<con, active, twice>>
        BY <1>4 DEF CloseFails, poolVars
    <2>3. \A q \in Requests : pc'[q] = pc[q] \/ (pc[q] = "updating" /\ pc'[q] = "failed")
        BY <1>4 DEF CloseFails
    <2>4. WaitersKept
        BY <2>1, <2>2, <2>3, ResetBy DEF WaitersKept, ResetsKept, ResetsAwaited
    <2>5. StagesAgree'
        BY <2>2, <2>3 DEF TypeOK
    <2>. QED
        BY <2>1, <2>4, <2>5, ResetsAwaitedKept
<1>5. CASE SocketClosed(c) \/ ServerCloses(c)
    <2>1. OrderlyClose(c)
        BY <1>5 DEF SocketClosed, ServerCloses
    <2>2. UNCHANGED <<con, active, twice>>
        BY <2>1 DEF OrderlyClose, poolVars
    <2>3. AbandonKeeps(c, Pool)
        BY <2>1, <2>2, RejectLemma DEF OrderlyClose
    <2>4. StagesAgree'
        BY <2>2, <2>3 DEF AbandonKeeps, TypeOK
    <2>. QED
        BY <2>3, <2>4, ResetsAwaitedKept DEF AbandonKeeps
<1>6. CASE NetworkError(c)
    <2>2. UNCHANGED <<con, active, twice>>
        BY <1>6 DEF NetworkError, poolVars
    <2>3. AbandonKeeps(c, Pool)
        BY <1>6, <2>2, AbandonLemma DEF NetworkError
    <2>4. StagesAgree'
        BY <2>2, <2>3 DEF AbandonKeeps, TypeOK
    <2>. QED
        BY <2>3, <2>4, ResetsAwaitedKept DEF AbandonKeeps
<1>7. CASE IdleTimePasses(c)
    <2>1. UNCHANGED <<pc, con, active, twice, workQueue>>
        BY <1>7 DEF IdleTimePasses, poolVars, callVars
    <2>. QED
        BY <2>1, UnchangedKeepsResets, ResetsAwaitedKept DEF WaitersKept
<1>. QED
    BY <1>1, <1>3, <1>4, <1>5, <1>6, <1>7 DEF Server

\* The stage of a call, the connection it took, the active list and the pending
\* Session.Reset requests agree at all times.
THEOREM Bookkeeping == Spec => []PendingCallsAgree
<1>1. Init => StagesAgree /\ ResetsAwaited
    BY DEF Init, StagesAgree, ResetsAwaited
<1>2. ASSUME TypeOK, TypeOK', StagesAgree, ResetsAwaited, [Next]_vars
      PROVE  StagesAgree' /\ ResetsAwaited'
    <2>1. CASE ClosePool
        <3>1. ResetsKept
            BY <1>2, <2>1, DestroyAllKeepsResets DEF ClosePool, Callers
        <3>2. UNCHANGED <<pc, con, active, twice>>
            BY <2>1 DEF ClosePool, callVars
        <3>. QED
            BY <1>2, <3>1, <3>2, ResetsAwaitedKept DEF WaitersKept, StagesAgree
    <2>2. CASE ResetPool
        <3>1. UNCHANGED <<pc, con, twice, workQueue>> /\ active' = {}
            BY <2>2 DEF ResetPool, callVars, connVars
        <3>. QED
            BY <1>2, <3>1, UnchangedKeepsResets, ResetsAwaitedKept
            DEF WaitersKept, StagesAgree
    <2>3. CASE UNCHANGED vars
        <3>1. UNCHANGED <<pc, con, active, twice, workQueue>>
            BY <2>3 DEF vars, poolVars, callVars, connVars
        <3>. QED
            BY <1>2, <3>1, UnchangedKeepsResets, ResetsAwaitedKept
            DEF WaitersKept, StagesAgree
    <2>. QED
        BY <1>2, <2>1, <2>2, <2>3, BookkeepingCall, BookkeepingServer DEF Next
<1>. QED
    BY <1>1, <1>2, Typing, PTL DEF Spec, PendingCallsAgree

-----------------------------------------------------------------------------
(* Tickets.                                                                 *)

\* How many entries the idle and expired lists have for a connection.
Listed(c) == idle[c] + expired[c]

\* The same connections are held, none leaves the active list, as many tickets
\* are taken, and the other lists lose at most.
Kept ==
    /\ Holding' = Holding /\ con' = con /\ active \subseteq active'
    /\ UNCHANGED <<available, tickets, twice>>
    /\ \A c \in Conns : Listed(c)' <= Listed(c)

\* A call takes a ticket for a connection from the lists, or a new one.
Takes(r, c, stage) ==
    /\ Ready(r) /\ available /\ ~IsFull
    /\ \/ Shift(c) /\ ~closing[c]
       \/ Shift(NoConn) /\ \A q \in Requests : con[q] # c
    /\ TakeTicket(r, c, stage)
    /\ UNCHANGED <<available, active, sock, closing, released, twice>>

\* Nothing changes in the accounts.
LEMMA KeptAccounts ==
    ASSUME TicketAccounting, Kept
    PROVE  TicketAccounting'
BY DEF TicketAccounting, Kept

LEMMA HoldingType ==
    ASSUME TypeOK
    PROVE  Holding \in SUBSET Requests
BY DEF TypeOK, Holding, InFlight, Lost

\* update() lets go of the entries of closed and of released connections.
LEMMA UpdateHolding ==
    ASSUME TypeOK, StagesAgree, NEW r \in Requests, Update(r), pc[r] \in {"new", "queued"}
    PROVE  Holding' = Holding \ (ClosedEntries \cup ReleasedEntries)
<1>1. \A q \in Requests : pc'[q] = IF q = r THEN "updating" ELSE pc[q]
    BY DEF Update, TypeOK
<1>2. active' = active \ (ClosedEntries \cup ReleasedEntries) /\ con' = con
    BY DEF Update, UpdateLists
<1>3. InFlight' = InFlight
    BY <1>1 DEF InFlight
<1>4. Lost' = Lost
    BY <1>1, <1>2 DEF Lost
<1>5. \A q \in ClosedEntries \cup ReleasedEntries : q \notin InFlight /\ q \notin Lost
    BY DEF ClosedEntries, ReleasedEntries, StagesAgree, InFlight, Lost
<1>. QED
    BY <1>2, <1>3, <1>4, <1>5 DEF Holding

\* update() gives back one ticket per entry, and one more for each entry it
\* found both closed and released.
LEMMA UpdateAccounts ==
    ASSUME TypeOK, TypeOK', StagesAgree, TicketAccounting,
           NEW r \in Requests, Update(r), pc[r] \in {"new", "queued"}
    PROVE  TicketAccounting'
<1>. DEFINE C == ClosedEntries
            R == ReleasedEntries
<1>1. C \in SUBSET active /\ R \in SUBSET active /\ active \in SUBSET Requests
    BY DEF ClosedEntries, ReleasedEntries, TypeOK
<1>2. /\ IsFiniteSet(C) /\ IsFiniteSet(R) /\ IsFiniteSet(C \cup R) /\ IsFiniteSet(C \cap R)
      /\ Cardinality(C) \in Nat /\ Cardinality(R) \in Nat
      /\ Cardinality(C \cap R) \in Nat
    BY <1>1, RequestSets
<1>3. IsFiniteSet(twice) /\ Cardinality(twice) \in Nat
    BY RequestSets DEF TypeOK
<1>4. IsFiniteSet(Holding) /\ Cardinality(Holding) \in Nat
    BY HoldingType, RequestSets
<1>6. Holding' = Holding \ (C \cup R)
    BY UpdateHolding
<1>7. Cardinality(Holding') = Cardinality(Holding) - Cardinality(C \cup R)
    <2>1. Holding \cap (C \cup R) = C \cup R
        BY <1>1 DEF Holding
    <2>. QED
        BY <1>2, <1>4, <1>6, <2>1, FS_Difference
<1>8. Cardinality(C \cup R) = Cardinality(C) + Cardinality(R) - Cardinality(C \cap R)
    BY <1>2, FS_Union
<1>9. Cardinality(twice') = Cardinality(twice) + Cardinality(C \cap R)
    <2>1. twice' = twice \cup (C \cap R)
        BY DEF Update
    <2>2. twice \cap (C \cap R) = {}
        BY <1>1 DEF StagesAgree
    <2>3. Cardinality(twice \cap (C \cap R)) = 0
        BY <2>2, FS_EmptySet
    <2>4. Cardinality(twice \cup (C \cap R))
            = Cardinality(twice) + Cardinality(C \cap R)
              - Cardinality(twice \cap (C \cap R))
        BY <1>2, <1>3, FS_Union
    <2>. QED
        BY <1>2, <1>3, <2>1, <2>3, <2>4
<1>10. tickets' = tickets - Cardinality(C) - Cardinality(R) /\ available' = available
    BY DEF Update, ReturnTickets
<1>. QED
    BY <1>2, <1>3, <1>4, <1>7, <1>8, <1>9, <1>10 DEF TicketAccounting, TypeOK

\* A ticket is taken for a call that holds nothing yet.
LEMMA TakeTicketAccounts ==
    ASSUME TypeOK, TypeOK', StagesAgree, TicketAccounting,
           NEW r \in Requests, NEW c \in Conns, NEW stage \in {"opening", "resetting"},
           pc[r] = "updating", TakeTicket(r, c, stage), UNCHANGED <<available, active, twice>>
    PROVE  TicketAccounting'
<1>1. \A q \in Requests : /\ pc'[q] = IF q = r THEN stage ELSE pc[q]
                          /\ con'[q] = IF q = r THEN c ELSE con[q]
    BY DEF TakeTicket, TypeOK
<1>2. InFlight' = InFlight \cup {r}
    BY <1>1 DEF InFlight
<1>3. Lost' = Lost
    BY <1>1 DEF Lost
<1>4. r \notin Holding
    BY DEF StagesAgree, Holding, InFlight, Lost
<1>5. Holding' = Holding \cup {r}
    BY <1>2, <1>3 DEF Holding
<1>6. IsFiniteSet(Holding) /\ Cardinality(Holding) \in Nat
    BY HoldingType, RequestSets
<1>7. Cardinality(Holding') = Cardinality(Holding) + 1
    BY <1>4, <1>5, <1>6, FS_AddElement
<1>8. Cardinality(twice) \in Nat
    BY RequestSets DEF TypeOK
<1>9. tickets' = tickets + 1
    BY DEF TakeTicket
<1>. QED
    BY <1>6, <1>7, <1>8, <1>9 DEF TicketAccounting, TypeOK

\* The lists lose one entry at most.
LEMMA ShiftLoses ==
    ASSUME TypeOK, NEW c, Shift(c)
    PROVE  \A d \in Conns : Listed(d)' = IF d = c THEN Listed(d) - 1 ELSE Listed(d)
BY DEF Shift, Shiftable, Listed, TypeOK

\* What is not touched is not lost.
LEMMA ListsUntouched ==
    ASSUME TypeOK, UNCHANGED <<idle, expired>>
    PROVE  \A c \in Conns : Listed(c)' <= Listed(c)
BY DEF TypeOK, Listed

\* A call goes through update(), takes a ticket, or keeps what is held.
LEMMA CallKinds ==
    ASSUME TypeOK, StagesAgree, ResetsAwaited, NEW r \in Requests, Call(r)
    PROVE  \/ Update(r) /\ pc[r] \in {"new", "queued"}
           \/ \E c \in Conns, stage \in {"opening", "resetting"} : Takes(r, c, stage)
           \/ Kept
<1>1. CASE GetConnection(r) \/ Retry(r)
    BY <1>1 DEF GetConnection, Retry
<1>2. CASE Drop(r) \/ QueueTimeoutExceeded(r) \/ Queue(r)
    <2>1. PICK stage \in {"dropped", "failed", "queued"} : pc' = [pc EXCEPT ![r] = stage]
        BY <1>2 DEF Drop, QueueTimeoutExceeded, Queue
    <2>2. UNCHANGED <<available, active, con, tickets, twice>>
        BY <1>2 DEF Drop, QueueTimeoutExceeded, Queue, poolVars
    <2>3. pc[r] = "updating" /\ con[r] = NoConn
        BY <1>2 DEF Drop, QueueTimeoutExceeded, Queue, Ready, StagesAgree
    <2>4. InFlight' = InFlight /\ Lost' = Lost
        BY <2>1, <2>2, <2>3 DEF InFlight, Lost, TypeOK
    <2>5. UNCHANGED <<idle, expired>> \/ \E c : Shift(c)
        BY <1>2 DEF Drop, QueueTimeoutExceeded, Queue, poolVars
    <2>6. \A c \in Conns : Listed(c)' <= Listed(c)
        <3>1. CASE UNCHANGED <<idle, expired>>
            BY <3>1, ListsUntouched
        <3>2. ASSUME NEW c, Shift(c) PROVE \A d \in Conns : Listed(d)' <= Listed(d)
            <4>1. \A d \in Conns : Listed(d) \in Int
                BY DEF Listed, TypeOK
            <4>. QED
                BY <3>2, <4>1, ShiftLoses
        <3>. QED
            BY <2>5, <3>1, <3>2
    <2>. QED
        BY <2>2, <2>4, <2>6 DEF Kept, Holding
<1>3. ASSUME NEW c \in Conns, Refurbish(r, c) \/ Create(r, c) \/ Reuse(r, c)
      PROVE  \E stage \in {"opening", "resetting"} : Takes(r, c, stage)
    BY <1>3 DEF Refurbish, Create, Reuse, Takes, connVars
<1>4. CASE OpenSucceeds(r) \/ OpenFails(r)
    <2>1. PICK stage \in {"granted", "failed"} :
             /\ Abandon(con[r], r, stage)
             /\ active' = IF stage = "granted" THEN active \cup {r} ELSE active
        BY <1>4 DEF OpenSucceeds, OpenFails, Grant, poolVars
    <2>2. UNCHANGED <<available, con, tickets, twice, idle, expired>> /\ pc[r] = "opening"
        BY <1>4 DEF OpenSucceeds, OpenFails, poolVars
    <2>3. con[r] \in Conns
        BY <2>2 DEF StagesAgree, TypeOK
    <2>4. AbandonKeeps(con[r], r)
        BY <2>1, <2>2, <2>3, AbandonLemma
    <2>5. pc'[r] = stage
        BY <2>1 DEF Abandon
    <2>6. \A q \in Requests \ {r} : q \in Holding' <=> q \in Holding
        BY <2>1, <2>2, <2>4 DEF AbandonKeeps, Holding, InFlight, Lost, StagesAgree
    <2>7. r \in Holding /\ r \in Holding'
        BY <2>1, <2>2, <2>3, <2>5 DEF Holding, InFlight, Lost
    <2>8. Holding' = Holding
        BY <2>1, <2>6, <2>7, HoldingType DEF TypeOK, Holding, InFlight, Lost
    <2>. QED
        BY <2>1, <2>2, <2>8, ListsUntouched DEF Kept
<1>5. CASE Execute(r)
    BY <1>5, ListsUntouched
    DEF Execute, poolVars, callVars, Kept, Holding, InFlight, Lost
<1>6. CASE CloseSession(r)
    <2>1. UNCHANGED <<available, active, con, tickets, twice, idle, expired>>
        BY <1>6 DEF CloseSession, poolVars
    <2>2. InFlight' = InFlight /\ Lost' = Lost
        BY <1>6, <2>1 DEF CloseSession, InFlight, Lost, TypeOK
    <2>. QED
        BY <2>1, <2>2, ListsUntouched DEF Kept, Holding
<1>7. CASE QueueTimePasses(r)
    BY <1>7, ListsUntouched
    DEF QueueTimePasses, poolVars, connVars, Kept, Holding, InFlight, Lost
<1>. QED
    BY <1>1, <1>2, <1>3, <1>4, <1>5, <1>6, <1>7 DEF Call

\* The servers and the network take no ticket and give none back.
LEMMA ServerKeeps ==
    ASSUME TypeOK, StagesAgree, ResetsAwaited, NEW c \in Conns, Server(c)
    PROVE  Kept /\ UNCHANGED <<idle, expired>>
<1>1. CASE WorkAnswered(c) \/ CloseSucceeds(c) \/ IdleTimePasses(c)
    BY <1>1, ListsUntouched
    DEF WorkAnswered, CloseSucceeds, IdleTimePasses, poolVars, callVars,
        Kept, Holding, InFlight, Lost
<1>2. CASE ResetSucceeds(c) \/ ResetFails(c)
    <2>. DEFINE r == Head(workQueue[c]).by
    <2>1. PICK stage \in {"granted", "failed"} :
             /\ pc' = [pc EXCEPT ![r] = stage]
             /\ active' = IF stage = "granted" THEN active \cup {r} ELSE active
        BY <1>2 DEF ResetSucceeds, ResetFails, Grant, poolVars
    <2>2. UNCHANGED <<available, con, tickets, twice, idle, expired>>
        BY <1>2 DEF ResetSucceeds, ResetFails, poolVars
    <2>3. workQueue[c] \in Seq(Entries) /\ workQueue[c] # <<>>
        BY <1>2 DEF TypeOK, ResetSucceeds, ResetFails, Pending
    <2>4. /\ 1 \in DOMAIN workQueue[c]
          /\ workQueue[c][1] = Head(workQueue[c])
          /\ workQueue[c][1].op = "reset"
        BY <1>2, <2>3 DEF ResetSucceeds, ResetFails, Pending
    <2>5. r \in Requests /\ pc[r] = "resetting" /\ con[r] # NoConn
        BY <2>4, ResetBy DEF ResetsAwaited, StagesAgree
    <2>6. \A q \in Requests : q \in Holding' <=> q \in Holding
        BY <2>1, <2>2, <2>5 DEF Holding, InFlight, Lost, TypeOK
    <2>7. Holding' = Holding
        BY <2>1, <2>5, <2>6, HoldingType DEF TypeOK, Holding, InFlight, Lost
    <2>. QED
        BY <2>1, <2>2, <2>7, ListsUntouched DEF Kept
<1>3. CASE CloseFails(c)
    <2>1. UNCHANGED <<available, active, con, tickets, twice, idle, expired>>
        BY <1>3 DEF CloseFails, poolVars
    <2>2. \A q \in Requests : pc'[q] = pc[q] \/ (pc[q] = "updating" /\ pc'[q] = "failed")
        BY <1>3 DEF CloseFails
    <2>3. InFlight' = InFlight /\ Lost' = Lost
        BY <2>1, <2>2 DEF InFlight, Lost, StagesAgree
    <2>. QED
        BY <2>1, <2>3, ListsUntouched DEF Kept, Holding
<1>4. CASE SocketClosed(c) \/ ServerCloses(c) \/ NetworkError(c)
    <2>1. UNCHANGED <<available, active, con, tickets, twice, idle, expired>>
        BY <1>4 DEF SocketClosed, ServerCloses, OrderlyClose, NetworkError, poolVars
    <2>2. AbandonKeeps(c, Pool)
        BY <1>4, <2>1, AbandonLemma, RejectLemma
        DEF SocketClosed, ServerCloses, OrderlyClose, NetworkError
    <2>3. \A q \in Requests : q \in Holding' <=> q \in Holding
        BY <2>1, <2>2 DEF AbandonKeeps, Holding, InFlight, Lost, StagesAgree
    <2>4. Holding' = Holding
        BY <2>1, <2>3, HoldingType DEF TypeOK, Holding, InFlight, Lost
    <2>. QED
        BY <2>1, <2>4, ListsUntouched DEF Kept
<1>. QED
    BY <1>1, <1>2, <1>3, <1>4 DEF Server

\* The counter and the lists of the pool agree, whatever the servers, the
\* network and the application do.
THEOREM Accounting == Spec => []TicketAccounting
<1>1. Init => TicketAccounting
    <2>1. Init => Holding = {} /\ twice = {}
        BY DEF Init, Holding, InFlight, Lost
    <2>2. Init => tickets = 0
        BY DEF Init
    <2>3. Cardinality({}) = 0
        BY FS_EmptySet
    <2>. QED
        BY <2>1, <2>2, <2>3 DEF TicketAccounting
<1>2. ASSUME TypeOK, TypeOK', StagesAgree, StagesAgree', ResetsAwaited,
             TicketAccounting, [Next]_vars
      PROVE  TicketAccounting'
    <2>1. CASE ClosePool \/ ResetPool
        BY <2>1 DEF ClosePool, ResetPool, TicketAccounting
    <2>2. CASE UNCHANGED vars
        BY <1>2, <2>2, KeptAccounts, ListsUntouched
        DEF vars, poolVars, callVars, Kept, Holding, InFlight, Lost
    <2>3. ASSUME NEW r \in Requests, Call(r)
          PROVE  TicketAccounting'
        BY <1>2, <2>3, CallKinds, UpdateAccounts, TakeTicketAccounts, KeptAccounts
        DEF Takes, Ready
    <2>4. ASSUME NEW c \in Conns, Server(c)
          PROVE  TicketAccounting'
        BY <1>2, <2>4, ServerKeeps, KeptAccounts
    <2>. QED
        BY <1>2, <2>1, <2>2, <2>3, <2>4 DEF Next
<1>. QED
    BY <1>1, <1>2, Typing, Bookkeeping, PTL DEF Spec, PendingCallsAgree

\* The counter never exceeds maxSize: isFull() compares for equality, so a
\* counter that got past maxSize would never stop growing.
TicketBound == tickets <= MaxSize

\* For any maxSize and any faults (IsFull, and each update of the counter).
THEOREM Bounded == Spec => []TicketBound
<1>1. Init => TicketBound
    BY DEF Init, TicketBound
<1>2. ASSUME TypeOK, TicketBound, [Next]_vars
      PROVE  TicketBound'
    <2>1. ASSUME NEW r \in Requests, Update(r)
          PROVE  TicketBound'
        <3>1. ClosedEntries \in SUBSET Requests /\ ReleasedEntries \in SUBSET Requests
            BY <1>2 DEF TypeOK, ClosedEntries, ReleasedEntries
        <3>2. /\ Cardinality(ClosedEntries) \in Nat
              /\ Cardinality(ReleasedEntries) \in Nat
            BY <3>1, RequestSets
        <3>. QED
            BY <1>2, <2>1, <3>2 DEF Update, ReturnTickets, TicketBound, TypeOK
    <2>2. ASSUME NEW r \in Requests, NEW c \in Conns,
                 Reuse(r, c) \/ Refurbish(r, c) \/ Create(r, c)
          PROVE  TicketBound'
        <3>1. ~IsFull /\ tickets' = tickets + 1
            BY <2>2 DEF Reuse, Refurbish, Create, TakeTicket
        <3>. QED
            BY <1>2, <3>1 DEF IsFull, TicketBound, TypeOK
    <2>3. CASE ResetPool
        BY <2>3 DEF ResetPool, TicketBound
    <2>4. CASE UNCHANGED tickets
        BY <1>2, <2>4 DEF TicketBound
    <2>5. ASSUME NEW r \in Requests, Call(r)
          PROVE  TicketBound'
        BY <2>1, <2>2, <2>4, <2>5
        DEF Call, GetConnection, Retry, Drop, QueueTimeoutExceeded, Queue,
            OpenSucceeds, OpenFails, Execute, CloseSession, QueueTimePasses, poolVars
    <2>6. ASSUME NEW c \in Conns, Server(c)
          PROVE  TicketBound'
        BY <2>4, <2>6
        DEF Server, WorkAnswered, ResetSucceeds, ResetFails, CloseSucceeds, CloseFails,
            SocketClosed, ServerCloses, OrderlyClose, NetworkError, IdleTimePasses, poolVars
    <2>. QED
        BY <1>2, <2>3, <2>4, <2>5, <2>6 DEF Next, ClosePool, vars, poolVars
<1>. QED
    BY <1>1, <1>2, Typing, PTL DEF Spec

\* As long as no connection was closed by both of its ends between two calls,
\* the pool never hands out or prepares more than maxSize connections.
THEOREM Capacity == Spec => []WithinCapacityOnce
<1>1. ASSUME TypeOK, TicketAccounting, TicketBound
      PROVE  WithinCapacityOnce
    <2>. SUFFICES ASSUME twice = {}, available
                  PROVE  Cardinality(active \cup InFlight) <= MaxSize
        BY DEF WithinCapacityOnce, WithinCapacity
    <2>1. IsFiniteSet(Holding) /\ Cardinality(Holding) \in Nat
        BY <1>1, HoldingType, RequestSets
    <2>2. active \cup InFlight \in SUBSET Holding
        BY DEF Holding
    <2>3. Cardinality(active \cup InFlight) <= Cardinality(Holding)
        BY <2>1, <2>2, FS_Subset
    <2>4. tickets = Cardinality(Holding)
        BY <1>1, FS_EmptySet DEF TicketAccounting, TypeOK
    <2>5. IsFiniteSet(active \cup InFlight) /\ Cardinality(active \cup InFlight) \in Nat
        BY <1>1, RequestSets DEF TypeOK, InFlight
    <2>. QED
        BY <1>1, <2>1, <2>3, <2>4, <2>5 DEF TicketBound, TypeOK
<1>. QED
    BY <1>1, Typing, Accounting, Bounded, PTL
=============================================================================
