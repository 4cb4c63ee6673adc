--------------------------- MODULE ConnectionPool ---------------------------
(***************************************************************************)
(* The connection pool of lib/DevAPI/ConnectionPool.js, with the            *)
(* PoolConnection instances it hands out, the sessions wrapped around them  *)
(* and the application that opens and closes those sessions.                *)
(*                                                                          *)
(* JavaScript runs one block at a time.  An action is the code that runs    *)
(* between two points where control returns to the event loop or to another *)
(* promise continuation.  Continuations whose promise has settled run       *)
(* before the loop takes its next event (data, 'close', timer), which is    *)
(* what Settled guards; the application may call the pool at any point.     *)
(*                                                                          *)
(* The lists idle and expired are counted per connection: which idle        *)
(* connection is shifted first makes no difference to any promise of the    *)
(* pool.  An entry of the list active is named by the getConnection() call  *)
(* that pushed it, so one connection pushed by two calls is two entries.    *)
(***************************************************************************)
EXTENDS Integers, Sequences, FiniteSets

CONSTANTS
    Conns,          \* PoolConnection instances; bounds the ones ever created
    Requests,       \* calls of getConnection(); each yields at most one session
    MaxSize,        \* pooling.maxSize
    IdleExpiry,     \* pooling.maxIdleTime # 0
    QueueTimeout,   \* pooling.queueTimeout # 0
    Faults,         \* what the servers, the network and the application may do
    Pool,           \* the caller of destroy() when the pool itself is closed
    NoConn          \* con is undefined

FaultKinds == {"serverClose",   \* the server closes the socket in an orderly way
               "networkError",  \* the socket closes with an error
               "openFails",     \* open() rejects
               "resetFails",    \* the server answers Session.Reset with an error
               "closeFails",    \* the server answers Connection.Close with an error
               "reclose"}       \* the application closes a session twice

ASSUME PoolAssumption ==
    /\ IsFiniteSet(Requests)
    /\ IsFiniteSet(Conns)
    /\ NoConn \notin Conns
    /\ Pool \notin Requests
    /\ MaxSize \in Nat \ {0}
    /\ IdleExpiry \in BOOLEAN
    /\ QueueTimeout \in BOOLEAN
    /\ Faults \subseteq FaultKinds

VARIABLES
    \* state of the pool closure
    available, tickets, active, idle, expired,
    \* getConnection() calls: how far each is, the connection it took from the
    \* pool, and whether its elapsedTime has reached queueTimeout
    pc, con, late,
    \* state of the connection instances
    sock, closing, released, aged, workQueue,
    \* the promise returned by ConnectionPool.destroy()
    closer,
    \* history: entries that update() counted both as closed and as released
    twice

poolVars == <<available, tickets, active, idle, expired>>
callVars == <<pc, con, late>>
connVars == <<sock, closing, released, aged, workQueue>>
vars == <<poolVars, callVars, connVars, closer, twice>>

\* "granted" and "closed" are the two ends of a session: before and after the
\* application called Session.close().  "hung" is a promise nothing settles.
Stages == {"new", "updating", "queued", "opening", "resetting",
           "granted", "closed", "failed", "dropped", "hung"}

\* "closed": client or serverId is null.  "open": a live server session.
\* "down": destroyed on this side, its 'close' event still to come.
\* "gone": closed by the server while requests were pending.
Sockets == {"closed", "open", "down", "gone"}

Callers == Requests \cup {Pool}
Entries == [op : {"work", "reset"}, by : Requests] \cup [op : {"close"}, by : Callers]
Entry(op, by) == [op |-> op, by |-> by]

TypeOK ==
    /\ available \in BOOLEAN
    /\ tickets \in Int
    /\ active \in SUBSET Requests
    /\ idle \in [Conns -> Nat]
    /\ expired \in [Conns -> Nat]
    /\ pc \in [Requests -> Stages]
    /\ con \in [Requests -> Conns \cup {NoConn}]
    /\ late \in [Requests -> BOOLEAN]
    /\ sock \in [Conns -> Sockets]
    /\ closing \in [Conns -> BOOLEAN]
    /\ released \in [Conns -> BOOLEAN]
    /\ aged \in [Conns -> BOOLEAN]
    /\ workQueue \in [Conns -> Seq(Entries)]
    /\ closer \in {"none", "closing", "rejected", "done", "failed", "hung"}
    /\ twice \in SUBSET Requests

Init ==
    /\ available = TRUE
    /\ tickets = 0
    /\ active = {}
    /\ idle = [c \in Conns |-> 0]
    /\ expired = [c \in Conns |-> 0]
    /\ pc = [r \in Requests |-> "new"]
    /\ con = [r \in Requests |-> NoConn]
    /\ late = [r \in Requests |-> FALSE]
    /\ sock = [c \in Conns |-> "closed"]
    /\ closing = [c \in Conns |-> FALSE]
    /\ released = [c \in Conns |-> FALSE]
    /\ aged = [c \in Conns |-> FALSE]
    /\ workQueue = [c \in Conns |-> <<>>]
    /\ closer = "none"
    /\ twice = {}

-----------------------------------------------------------------------------
(* The predicates of Connection and PoolConnection.                         *)

IsOpen(c) == sock[c] # "closed"
IsIdle(c) == released[c]
IsExpired(c) == IdleExpiry /\ released[c] /\ aged[c]

\* (off by one)
IsFullMutant == tickets > MaxSize

IsFull == tickets = MaxSize

\* destroy() does something: it is open, not closing, its socket not destroyed.
Destroyable(c) == sock[c] = "open" /\ ~closing[c]

\* destroy() of every connection in D, called by a.
DestroyAll(D, a) ==
    /\ closing' = [c \in Conns |-> closing[c] \/ (c \in D /\ Destroyable(c))]
    /\ workQueue' = [c \in Conns |->
            IF c \in D /\ Destroyable(c)
            THEN Append(workQueue[c], Entry("close", a))
            ELSE workQueue[c]]

\* a still waits for a connection whose destroy() it started.
Awaits(a) == \E c \in Conns : \E i \in DOMAIN workQueue[c] :
                workQueue[c][i] = Entry("close", a)

\* No promise continuation of the pool is ready to run.
Settled ==
    /\ \A r \in Requests : pc[r] = "updating" => Awaits(r)
    /\ closer = "closing" => Awaits(Pool)
    /\ closer # "rejected"

-----------------------------------------------------------------------------
(* update(), the first, synchronous part of getConnection().                *)

ClosedEntries == {r \in active : ~IsOpen(con[r])}
ReleasedEntries == {r \in active : IsIdle(con[r])}
Copies(S, c) == Cardinality({r \in S : con[r] = c})

\* (released connections keep their tickets)
ReturnTicketsMutant == tickets' = tickets - Cardinality(ClosedEntries)

ReturnTickets ==
    tickets' = tickets - Cardinality(ClosedEntries) - Cardinality(ReleasedEntries)

UpdateLists ==
    /\ active' = active \ (ClosedEntries \cup ReleasedEntries)
    /\ idle' = [c \in Conns |->
            IF IsExpired(c) THEN 0 ELSE idle[c] + Copies(ReleasedEntries, c)]
    /\ expired' = [c \in Conns |->
            expired[c] + Copies(ClosedEntries, c)
            + IF IsExpired(c) THEN idle[c] + Copies(ReleasedEntries, c) ELSE 0]

Update(r) ==
    /\ ReturnTickets
    /\ UpdateLists
    /\ twice' = twice \cup (ClosedEntries \cap ReleasedEntries)
    /\ DestroyAll({c \in Conns : expired'[c] > 0}, r)
    /\ pc' = [pc EXCEPT ![r] = "updating"]
    /\ UNCHANGED <<available, con, late, sock, released, aged, closer>>

GetConnection(r) ==
    /\ pc[r] = "new"
    /\ closer \notin {"done"}       \* Client#close then forgets the pool
    /\ Update(r)

\* The timer of a queued request fires and calls getConnection() again.
Retry(r) ==
    /\ Settled
    /\ pc[r] = "queued"
    /\ Update(r)

-----------------------------------------------------------------------------
(* The continuation of getConnection(), once every destroy() has resolved.  *)

Ready(r) == pc[r] = "updating" /\ ~Awaits(r)

\* (expired connections are not refurbished)
ShiftableMutant(c) ==
    \/ c \in Conns /\ idle[c] > 0
    \/ c = NoConn /\ \A d \in Conns : idle[d] = 0

\* state.idle.shift() || state.expired.shift() may yield c.
Shiftable(c) ==
    \/ c \in Conns /\ idle[c] > 0
    \/ /\ \A d \in Conns : idle[d] = 0
       /\ IF c = NoConn THEN \A d \in Conns : expired[d] = 0 ELSE expired[c] > 0

\* (the first connection is read but not removed)
ShiftMutant(c) == Shiftable(c) /\ UNCHANGED <<idle, expired>>

\* (removed from both lists)
ShiftBothMutant(c) ==
    /\ Shiftable(c)
    /\ idle' = [d \in Conns |-> IF d = c /\ idle[d] > 0 THEN idle[d] - 1 ELSE idle[d]]
    /\ expired' = [d \in Conns |-> IF d = c THEN expired[d] - 1 ELSE expired[d]]

Shift(c) ==
    /\ Shiftable(c)
    /\ idle' = [d \in Conns |-> IF d = c /\ idle[d] > 0 THEN idle[d] - 1 ELSE idle[d]]
    /\ expired' = [d \in Conns |->
            IF d = c /\ idle[d] = 0 THEN expired[d] - 1 ELSE expired[d]]

\* (queueTimeout is ignored)
TimedOutMutant(r) == FALSE

TimedOut(r) == QueueTimeout /\ late[r]

\* The pool was closed in the meantime: the promise resolves to undefined.
Drop(r) ==
    /\ Ready(r)
    /\ ~available
    /\ pc' = [pc EXCEPT ![r] = "dropped"]
    /\ UNCHANGED <<poolVars, con, late, connVars, closer, twice>>

QueueTimeoutExceeded(r) ==
    /\ Ready(r)
    /\ available
    /\ \E c \in Conns \cup {NoConn} : Shift(c)
    /\ IsFull
    /\ TimedOut(r)
    /\ pc' = [pc EXCEPT ![r] = "failed"]
    /\ UNCHANGED <<available, tickets, active, con, late, connVars, closer, twice>>

\* Full, or the connection shifted from a list is still being closed: wait.
\* A connection that was shifted is not put back.
Queue(r) ==
    /\ Ready(r)
    /\ available
    /\ \E c \in Conns \cup {NoConn} :
          /\ Shift(c)
          /\ \/ IsFull /\ ~TimedOut(r)
             \/ ~IsFull /\ c # NoConn /\ closing[c]
    /\ pc' = [pc EXCEPT ![r] = "queued"]
    /\ UNCHANGED <<available, tickets, active, con, late, connVars, closer, twice>>

\* A ticket is taken for connection c, before it is usable.
TakeTicket(r, c, stage) ==
    /\ tickets' = tickets + 1
    /\ con' = [con EXCEPT ![r] = c]
    /\ pc' = [pc EXCEPT ![r] = stage]

Reuse(r, c) ==
    /\ Ready(r)
    /\ available
    /\ Shift(c)
    /\ ~IsFull /\ ~closing[c]
    /\ IsOpen(c) /\ ~IsExpired(c)
    /\ TakeTicket(r, c, "resetting")
    /\ workQueue' = [workQueue EXCEPT ![c] = Append(@, Entry("reset", r))]
    /\ UNCHANGED <<available, active, late, sock, closing, released, aged,
                   closer, twice>>

Refurbish(r, c) ==
    /\ Ready(r)
    /\ available
    /\ Shift(c)
    /\ ~IsFull /\ ~closing[c]
    /\ ~IsOpen(c) \/ IsExpired(c)
    /\ TakeTicket(r, c, "opening")
    /\ UNCHANGED <<available, active, late, connVars, closer, twice>>

\* connection(options): an instance no list and no session ever referred to.
Create(r, c) ==
    /\ Ready(r)
    /\ available
    /\ Shift(NoConn)
    /\ ~IsFull
    /\ \A q \in Requests : con[q] # c
    /\ TakeTicket(r, c, "opening")
    /\ UNCHANGED <<available, active, late, connVars, closer, twice>>

-----------------------------------------------------------------------------
(* open() and override() settle.                                            *)

\* (the connection is not acquired)
GrantMutant(r) ==
    /\ active' = active \cup {r}
    /\ UNCHANGED <<released, aged>>

\* postConnect: acquire(), push on the active list, resolve.
Grant(r) ==
    /\ released' = [released EXCEPT ![con[r]] = FALSE]
    /\ aged' = [aged EXCEPT ![con[r]] = FALSE]
    /\ active' = active \cup {r}

\* The promises of the entries in q are never settled: the client instance
\* that holds the queue was dropped.
Abandoned(q, a, op) == \E i \in DOMAIN q : q[i] = Entry(op, a)
Abandon(c, r, stage) ==
    /\ pc' = [x \in Requests |->
          IF x = r THEN stage
          ELSE IF \/ pc[x] = "updating" /\ Abandoned(workQueue[c], x, "close")
                  \/ pc[x] = "resetting" /\ Abandoned(workQueue[c], x, "reset")
               THEN "hung" ELSE pc[x]]
    /\ closer' = IF closer = "closing" /\ Abandoned(workQueue[c], Pool, "close")
                 THEN "hung" ELSE closer
    /\ workQueue' = [workQueue EXCEPT ![c] = <<>>]

\* A new socket is ready and authenticated; it brings a new, empty work queue.
OpenSucceeds(r) ==
    /\ Settled
    /\ pc[r] = "opening"
    /\ sock[con[r]] # "down"
    /\ sock' = [sock EXCEPT ![con[r]] = "open"]
    /\ Grant(r)
    /\ Abandon(con[r], r, "granted")
    /\ UNCHANGED <<available, tickets, idle, expired, con, late, closing, twice>>

\* The rejection reaches the application; the ticket stays taken and the
\* instance is in no list.
OpenFails(r) ==
    /\ "openFails" \in Faults
    /\ Settled
    /\ pc[r] = "opening"
    /\ sock[con[r]] # "down"
    /\ sock' = [sock EXCEPT ![con[r]] = "closed"]
    /\ closing' = [closing EXCEPT ![con[r]] = FALSE]
    /\ Abandon(con[r], r, "failed")
    /\ UNCHANGED <<poolVars, con, late, released, aged, twice>>

-----------------------------------------------------------------------------
(* The server answers the oldest pending request of connection c.           *)

Pending(c, op) ==
    /\ Settled
    /\ sock[c] = "open"
    /\ workQueue[c] # <<>>
    /\ Head(workQueue[c]).op = op

Answered(c) == workQueue' = [workQueue EXCEPT ![c] = Tail(@)]

WorkAnswered(c) ==
    /\ Pending(c, "work")
    /\ Answered(c)
    /\ UNCHANGED <<poolVars, callVars, sock, closing, released, aged, closer, twice>>

ResetSucceeds(c) ==
    /\ Pending(c, "reset")
    /\ LET r == Head(workQueue[c]).by
       IN /\ Grant(r)
          /\ pc' = [pc EXCEPT ![r] = "granted"]
    /\ Answered(c)
    /\ UNCHANGED <<available, tickets, idle, expired, con, late, sock, closing,
                   closer, twice>>

ResetFails(c) ==
    /\ "resetFails" \in Faults
    /\ Pending(c, "reset")
    /\ pc' = [pc EXCEPT ![Head(workQueue[c]).by] = "failed"]
    /\ Answered(c)
    /\ UNCHANGED <<poolVars, con, late, sock, closing, released, aged, closer, twice>>

\* destroy(): socket.destroy(), isClosing = false.
CloseSucceeds(c) ==
    /\ Pending(c, "close")
    /\ sock' = [sock EXCEPT ![c] = "down"]
    /\ closing' = [closing EXCEPT ![c] = FALSE]
    /\ Answered(c)
    /\ UNCHANGED <<poolVars, callVars, released, aged, closer, twice>>

\* destroy() rejects, and isClosing stays set.
CloseFails(c) ==
    /\ "closeFails" \in Faults
    /\ Pending(c, "close")
    /\ LET a == Head(workQueue[c]).by
       IN /\ pc' = [r \in Requests |->
                IF r = a /\ pc[r] = "updating" THEN "failed" ELSE pc[r]]
          /\ closer' = IF a = Pool /\ closer = "closing" THEN "rejected" ELSE closer
    /\ Answered(c)
    /\ UNCHANGED <<poolVars, con, late, sock, closing, released, aged, twice>>

-----------------------------------------------------------------------------
(* The 'close' event of a socket.                                           *)

\* (the queue is not cleared)
RejectPendingMutant(c) ==
    /\ pc' = [r \in Requests |->
          IF \/ pc[r] = "updating" /\ Abandoned(workQueue[c], r, "close")
             \/ pc[r] = "resetting" /\ Abandoned(workQueue[c], r, "reset")
          THEN "failed" ELSE pc[r]]
    /\ UNCHANGED <<closer, workQueue>>

\* handleServerClose(): every pending request is rejected.  The first
\* sessionReset() of a client takes a rejection without error info for an old
\* server and sends another Session.Reset, which nobody will answer.
RejectPending(c) ==
    /\ \E resetter \in {"failed", "hung"} :
          pc' = [r \in Requests |->
              IF pc[r] = "updating" /\ Abandoned(workQueue[c], r, "close") THEN "failed"
              ELSE IF pc[r] = "resetting" /\ Abandoned(workQueue[c], r, "reset")
                   THEN resetter ELSE pc[r]]
    /\ closer' = IF closer = "closing" /\ Abandoned(workQueue[c], Pool, "close")
                 THEN "rejected" ELSE closer
    /\ workQueue' = [workQueue EXCEPT ![c] = <<>>]

\* Not an error and past the connection stage.  While there is a workload the
\* instance is not reset: it keeps its client and its serverId.
OrderlyClose(c) ==
    /\ sock' = [sock EXCEPT ![c] = IF workQueue[c] = <<>> THEN "closed" ELSE "gone"]
    /\ closing' = [closing EXCEPT ![c] = @ /\ workQueue[c] # <<>>]
    /\ RejectPending(c)
    /\ UNCHANGED <<poolVars, con, late, released, aged, twice>>

SocketClosed(c) ==
    /\ Settled
    /\ sock[c] = "down"
    /\ OrderlyClose(c)

ServerCloses(c) ==
    /\ "serverClose" \in Faults
    /\ Settled
    /\ sock[c] = "open"
    /\ OrderlyClose(c)

\* hasError with a single endpoint: reset() drops the client and its queue.
NetworkError(c) ==
    /\ "networkError" \in Faults
    /\ Settled
    /\ sock[c] = "open"
    /\ sock' = [sock EXCEPT ![c] = "closed"]
    /\ closing' = [closing EXCEPT ![c] = FALSE]
    /\ Abandon(c, Pool, "hung")
    /\ UNCHANGED <<poolVars, con, late, released, aged, twice>>

-----------------------------------------------------------------------------
(* The application, and time.                                               *)

\* Session.sql().execute() and the CRUD statements: one at a time per session.
Execute(r) ==
    /\ pc[r] \in {"granted", "closed"}
    /\ IsOpen(con[r]) /\ ~IsIdle(con[r])
    /\ ~Abandoned(workQueue[con[r]], r, "work")
    /\ workQueue' = [workQueue EXCEPT ![con[r]] = Append(@, Entry("work", r))]
    /\ UNCHANGED <<poolVars, callVars, sock, closing, released, aged, closer, twice>>

\* Session.close(): PoolConnection.close() sets releasedAt.
CloseSession(r) ==
    /\ \/ pc[r] = "granted"
       \/ pc[r] = "closed" /\ "reclose" \in Faults
    /\ pc' = [pc EXCEPT ![r] = "closed"]
    /\ released' = [released EXCEPT ![con[r]] = TRUE]
    /\ aged' = [aged EXCEPT ![con[r]] = FALSE]
    /\ UNCHANGED <<poolVars, con, late, sock, closing, workQueue, closer, twice>>

\* maxIdleTime has passed since releasedAt.
IdleTimePasses(c) ==
    /\ IdleExpiry
    /\ released[c]
    /\ aged' = [aged EXCEPT ![c] = TRUE]
    /\ UNCHANGED <<poolVars, callVars, sock, closing, released, workQueue, closer, twice>>

\* queueTimeout has passed since requestedAt.
QueueTimePasses(r) ==
    /\ QueueTimeout
    /\ pc[r] \in {"updating", "queued"}
    /\ late' = [late EXCEPT ![r] = TRUE]
    /\ UNCHANGED <<poolVars, pc, con, connVars, closer, twice>>

\* Client.close(): destroy() every idle and every active connection.
ClosePool ==
    /\ closer = "none"
    /\ closer' = "closing"
    /\ available' = FALSE
    /\ DestroyAll({c \in Conns : idle[c] > 0 \/ \E r \in active : con[r] = c}, Pool)
    /\ UNCHANGED <<tickets, active, idle, expired, callVars, sock, released, aged, twice>>

\* (no catch() after the destroy() promises)
ResetPoolMutant ==
    /\ closer = "closing" /\ ~Awaits(Pool) /\ closer' = "done"
    /\ available' = FALSE
    /\ tickets' = 0
    /\ active' = {}
    /\ idle' = [c \in Conns |-> 0]
    /\ expired' = [c \in Conns |-> 0]
    /\ UNCHANGED <<callVars, connVars, twice>>

\* reset(), when the destroy() promises have all resolved or one has rejected.
ResetPool ==
    /\ \/ closer = "closing" /\ ~Awaits(Pool) /\ closer' = "done"
       \/ closer = "rejected" /\ closer' = "failed"
    /\ available' = FALSE
    /\ tickets' = 0
    /\ active' = {}
    /\ idle' = [c \in Conns |-> 0]
    /\ expired' = [c \in Conns |-> 0]
    /\ UNCHANGED <<callVars, connVars, twice>>

-----------------------------------------------------------------------------

Call(r) ==
    \/ GetConnection(r) \/ Retry(r)
    \/ Drop(r) \/ QueueTimeoutExceeded(r) \/ Queue(r)
    \/ \E c \in Conns : Reuse(r, c) \/ Refurbish(r, c) \/ Create(r, c)
    \/ OpenSucceeds(r) \/ OpenFails(r)
    \/ Execute(r) \/ CloseSession(r) \/ QueueTimePasses(r)

Server(c) ==
    \/ WorkAnswered(c)
    \/ ResetSucceeds(c) \/ ResetFails(c)
    \/ CloseSucceeds(c) \/ CloseFails(c)
    \/ SocketClosed(c) \/ ServerCloses(c) \/ NetworkError(c)
    \/ IdleTimePasses(c)

Next ==
    \/ \E r \in Requests : Call(r)
    \/ \E c \in Conns : Server(c)
    \/ ClosePool
    \/ ResetPool

Spec == Init /\ [][Next]_vars

-----------------------------------------------------------------------------
(* What the event loop, the timers and a live server guarantee.             *)

Continue(r) ==
    \/ Drop(r) \/ QueueTimeoutExceeded(r) \/ Queue(r)
    \/ \E c \in Conns : Reuse(r, c) \/ Refurbish(r, c) \/ Create(r, c)

OpenSettles(r) == OpenSucceeds(r) \/ OpenFails(r)

Answer(c) ==
    \/ WorkAnswered(c)
    \/ ResetSucceeds(c) \/ ResetFails(c)
    \/ CloseSucceeds(c) \/ CloseFails(c)

\* The event loop drains continuations, fires due timers and delivers what the
\* servers send.  Settled is false now and then while other requests run, so
\* whatever waits for the loop to be idle needs strong fairness.
EventLoop ==
    /\ \A r \in Requests :
          /\ SF_vars(Retry(r))
          /\ WF_vars(Continue(r))
          /\ SF_vars(OpenSettles(r))
          /\ WF_vars(QueueTimePasses(r))
    /\ \A c \in Conns : SF_vars(Answer(c)) /\ SF_vars(SocketClosed(c))
    /\ WF_vars(ResetPool)

FairSpec == Spec /\ EventLoop

-----------------------------------------------------------------------------
(* Safety.                                                                  *)

InFlight == {r \in Requests : pc[r] \in {"opening", "resetting"}}

\* The requests whose promise was rejected, or never settled, after a ticket
\* had been taken for them.
Lost == {r \in Requests : con[r] # NoConn /\ pc[r] \in {"failed", "hung"}}

Holding == active \cup InFlight \cup Lost

\* Until the pool is closed, tickets is the number of connections that are
\* handed out, are being prepared for a caller, or were lost while being
\* prepared, less the entries update() returned twice (ConnectionPool.js:204,
\* 232 and 333 change the lists and the counter at different moments).
TicketAccounting ==
    available => tickets + Cardinality(twice) = Cardinality(Holding)

\* The stage of a call tells whether it took a connection, entries of the
\* active list belong to sessions, and an entry counted twice left the list.
StagesAgree ==
    /\ \A r \in Requests :
          /\ pc[r] \in {"new", "updating", "queued", "dropped"} => con[r] = NoConn
          /\ pc[r] \in {"opening", "resetting", "granted", "closed"} => con[r] # NoConn
    /\ \A r \in active \cup twice : pc[r] \in {"granted", "closed"}
    /\ active \cap twice = {}

\* A Session.Reset in a work queue is the only one there of a call that waits
\* for it, on that very connection.
ResetsAwaited ==
    /\ \A c \in Conns : \A i \in DOMAIN workQueue[c] :
          workQueue[c][i].op = "reset" =>
             LET r == workQueue[c][i].by IN pc[r] = "resetting" /\ con[r] = c
    /\ \A c \in Conns : \A i, j \in DOMAIN workQueue[c] :
          /\ workQueue[c][i].op = "reset"
          /\ workQueue[c][i] = workQueue[c][j]
          => i = j

\* Calls and work queues agree, whatever is answered, rejected or dropped in
\* whatever order; TicketAccounting rests on it.
PendingCallsAgree == StagesAgree /\ ResetsAwaited

\* The pool never prepares or hands out more than maxSize connections
\* (docs/tutorial/Connecting_to_a_Server.md:358).
WithinCapacity ==
    available => Cardinality(active \cup InFlight) <= MaxSize

\* WithinCapacity, unless a connection was closed by both ends at once.
WithinCapacityOnce == twice = {} => WithinCapacity

\* The connections the pool owns: the entries of its lists, one per entry.
Pooled == UNION {{c} \X (1 .. (idle[c] + expired[c])) : c \in Conns}

\* A full pool has no connection on the idle and expired lists: the ones it
\* ever created, in whatever list, fit in maxSize together with the tickets.
FullMeansNonePooled ==
    available /\ twice = {} => tickets + Cardinality(Pooled) <= MaxSize

\* A connection is in one place of the pool at most: once in idle, expired or
\* active, or with the one call that shifted it.
PlacedOnce ==
    available /\ twice = {} =>
        \A c \in Conns :
            idle[c] + expired[c] + Copies(active \cup InFlight, c) <= 1

\* No connection is lost from the lists of the pool or listed in excess.
ListsKept == FullMeansNonePooled /\ PlacedOnce

\* Two sessions that the application has not closed never share a connection.
ExclusiveSessions ==
    \A r, q \in Requests :
        pc[r] = "granted" /\ pc[q] = "granted" /\ con[r] = con[q] => r = q

\* While the pool is available, update() never starts to close a connection
\* that the application is still using.
InUseNeverDestroyed ==
    [][\A r \in Requests :
          available /\ available' /\ pc[r] = "granted" /\ ~closing[con[r]]
          => ~closing'[con[r]]]_vars

-----------------------------------------------------------------------------
(* Statements of the documentation that the code does not keep.             *)

\* Once close() has resolved and no connection is on its way, nothing remains
\* connected.
DestroyClosesPooled ==
    closer = "done" /\ InFlight = {} /\ active = {} =>
        \A c \in Conns : sock[c] # "open"

\* A session whose connection the server closed does not run its statements
\* on the connection of another session.
OwnConnectionOnly ==
    \A c \in Conns : \A i \in DOMAIN workQueue[c] :
        LET r == workQueue[c][i].by
        IN workQueue[c][i].op = "work" /\ pc[r] = "granted" =>
              \A q \in Requests : pc[q] = "granted" /\ con[q] = c => q = r

\* Right after an update(), no entry of the active list refers to a connection
\* that the server has closed.
ServerClosedReleased ==
    [][\A r \in Requests :
          pc[r] # "updating" /\ pc'[r] = "updating" =>
             \A q \in active' : sock[con[q]] # "gone"]_vars

\* A full pool means that maxSize connections are active, or about to be.
FullMeansActive ==
    available /\ IsFull => Cardinality(active \cup InFlight) = MaxSize

-----------------------------------------------------------------------------
(* The pool implements the leases of ConnectionLeases.                      *)

Leases == INSTANCE ConnectionLeases WITH
    lease <- [r \in Requests |->
                IF r \in Holding THEN con[r] ELSE NoConn],
    served <- {r \in Requests : con[r] # NoConn},
    open <- available

\* As long as nothing but the caller closes a connection, every step of the
\* pool is a step of the abstract leases or changes none of them.
ImplementsLeases == Leases!LeaseSpec

-----------------------------------------------------------------------------
(* Liveness.                                                                *)

\* With a queueTimeout, every getConnection() call settles.
EveryCallSettles ==
    \A r \in Requests :
        pc[r] = "updating" ~> pc[r] \in {"granted", "closed", "failed", "dropped"}

\* Client.close() settles.
CloseSettles == closer = "closing" ~> closer \in {"done", "failed"}

\* No promise of the pool stays pending for ever.
PromisesSettle == EveryCallSettles /\ CloseSettles
=============================================================================
