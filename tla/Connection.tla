----------------------------- MODULE Connection -----------------------------
(***************************************************************************)
(* A connection over its lifetime: lib/DevAPI/Connection.js with the order   *)
(* of lib/topology/multi-host.js and the workload check of the statements.   *)
(* open() goes through the endpoints until a session is established; the     *)
(* 'close' event of the socket decides between failing over, rejecting the   *)
(* workload and resetting the connection.                                    *)
(*                                                                           *)
(* Node's sockets are external: a socket connects or not, reports one error  *)
(* at most, and ends with one 'close' event that says whether there was an   *)
(* error.  Time is the age of the unavailable endpoints, capped once an      *)
(* endpoint can be retried.                                                  *)
(***************************************************************************)
EXTENDS Integers, Sequences, FiniteSets

CONSTANTS
    Endpoints, Priority,  \* the hosts, and how important each is
    Calls,                \* statements executed by the session
    ConnectTimeout, RetryAfter,
    MaxDelay,             \* bound on how late a timer fires
    MaxOpens              \* bound on the calls of open()

CloseCall == "close"

ASSUME ConnectionAssumption ==
    /\ CloseCall \notin Calls
    /\ Priority \in [Endpoints -> Nat]
    /\ Endpoints # {} /\ IsFiniteSet(Endpoints)
    /\ ConnectTimeout \in Nat \ {0} /\ RetryAfter \in Nat
    /\ MaxDelay \in Nat /\ MaxOpens \in Nat

VARIABLES
    available, unavailable,  \* state.endpoints
    phase,        \* how far the current socket got
    over,         \* whether it ended, and whether 'close' was handled
    hasClient,    \* state.client is not null
    queue,        \* the calls in its work queue
    serverId,     \* state.serverId is not null
    isClosing, retry, error,
    capabilityUnknown,  \* session_connect_attrs is in state.unknownCapabilities
    opened,       \* the promise of open()
    closing,      \* the promise of close()
    call,         \* the promise of each statement
    opens, attempted, timedOut, \* history: of the latest open()
    lost          \* history: the network failed under an established session

endpointVars == <<available, unavailable>>
socketVars == <<phase, over>>
clientVars == <<hasClient, queue, serverId>>
flagVars == <<isClosing, retry, error, capabilityUnknown>>
promiseVars == <<opened, closing, call>>
historyVars == <<opens, attempted, timedOut, lost>>
vars == <<endpointVars, socketVars, clientVars, flagVars, promiseVars, historyVars>>

Ages == 0 .. RetryAfter + 1
Failures == {"timeout", "nomore", "failed"}

TypeOK ==
    /\ available \in Seq(Endpoints)
    /\ unavailable \in Seq([endpoint : Endpoints, age : Ages])
    /\ phase \in {"none", "connecting", "negotiating", "established"}
    /\ over \in {"no", "ended", "erred", "closed"}
    /\ hasClient \in BOOLEAN /\ serverId \in BOOLEAN
    /\ ~hasClient => ~serverId /\ queue = <<>>
    /\ queue \in Seq(Calls \cup {CloseCall})
    /\ isClosing \in BOOLEAN /\ retry \in BOOLEAN /\ capabilityUnknown \in BOOLEAN
    /\ error \in {"none", "refused", "denied", "capability", "timeout", "reset", "nomore"}
    /\ opened \in {"none", "pending", "resolved"} \cup Failures
    /\ closing \in {"none", "pending", "resolved", "rejected"}
    /\ call \in [Calls -> {"idle", "pending", "unheard", "answered", "rejected"}]
    /\ opens \in 0 .. MaxOpens
    /\ attempted \subseteq Endpoints /\ timedOut \subseteq Endpoints
    /\ lost \in BOOLEAN

InSequence(e, s) == \E i \in DOMAIN s : s[i] = e
EndpointsOf(list) == [i \in DOMAIN list |-> list[i].endpoint]

\* (the least important endpoint first)
SortsMutant(s) ==
    {t \in [1 .. Len(s) -> {s[i] : i \in DOMAIN s}] :
        /\ \A e \in Endpoints : InSequence(e, s) <=> InSequence(e, t)
        /\ \A i, j \in DOMAIN t : i < j => Priority[t[i]] <= Priority[t[j]]}

\* The orders multi-host.sort() can produce: by priority, ties at random.
Sorts(s) ==
    {t \in [1 .. Len(s) -> {s[i] : i \in DOMAIN s}] :
        /\ \A e \in Endpoints : InSequence(e, s) <=> InSequence(e, t)
        /\ \A i, j \in DOMAIN t : i < j => Priority[t[i]] >= Priority[t[j]]}

Init ==
    /\ available \in {s \in [1 .. Cardinality(Endpoints) -> Endpoints] :
                        \A e \in Endpoints : InSequence(e, s)}
    /\ unavailable = <<>>
    /\ phase = "none" /\ over = "closed"
    /\ hasClient = FALSE /\ queue = <<>> /\ serverId = FALSE
    /\ isClosing = FALSE /\ retry = FALSE /\ error = "none"
    /\ capabilityUnknown = FALSE
    /\ opened = "none" /\ closing = "none"
    /\ call = [c \in Calls |-> "idle"]
    /\ opens = 0 /\ attempted = {} /\ timedOut = {} /\ lost = FALSE

IsOpen == hasClient /\ serverId

-----------------------------------------------------------------------------
(* Endpoints.                                                               *)

\* (an endpoint is back before its time)
CanRetryMutant(entry) == entry.age >= 0

CanRetry(entry) == entry.age > RetryAfter

\* update(): how many of the oldest unavailable endpoints can be retried.
Retryable(list) ==
    Cardinality({i \in DOMAIN list : \A j \in 1 .. i : CanRetry(list[j])})

Recovered(list) == SubSeq(EndpointsOf(list), 1, Retryable(list))
StillUnavailable(list) == SubSeq(list, Retryable(list) + 1, Len(list))

Older(list, time) ==
    [i \in DOMAIN list |->
        [list[i] EXCEPT !.age = IF @ + time > RetryAfter THEN RetryAfter + 1 ELSE @ + time]]

Elapse(time) == unavailable' = Older(unavailable, time)

\* Node: Net.connect().
Connect(list) ==
    /\ phase' = "connecting" /\ over' = "no"
    /\ available' = list

\* A new connection, or one that was closed, which a pool opens again.
CanOpen ==
    /\ opens < MaxOpens
    /\ opened = "none" \/ (opened = "resolved" /\ ~IsOpen /\ over = "closed")

\* open()
Open ==
    /\ CanOpen
    /\ available \o Recovered(unavailable) # <<>>
    /\ \E list \in Sorts(available \o Recovered(unavailable)) :
          /\ Connect(list)
          /\ attempted' = {Head(list)} \cup
                {e \in Endpoints :
                    InSequence(e, EndpointsOf(StillUnavailable(unavailable)))}
    /\ unavailable' = StillUnavailable(unavailable)
    /\ opened' = "pending" /\ closing' = "none"
    /\ timedOut' = {}
    /\ opens' = opens + 1
    /\ UNCHANGED <<clientVars, flagVars, call, lost>>

\* With no endpoint in the list, connect() rejects with a TypeError.
OpenNothing ==
    /\ CanOpen
    /\ available \o Recovered(unavailable) = <<>>
    /\ opened' = "failed" /\ closing' = "none"
    /\ attempted' = {e \in Endpoints : InSequence(e, EndpointsOf(unavailable))}
    /\ timedOut' = {}
    /\ opens' = opens + 1
    /\ UNCHANGED <<endpointVars, socketVars, clientVars, flagVars, call, lost>>

-----------------------------------------------------------------------------
(* The socket, until a session is established.                              *)

Alive == over = "no"

\* 'ready': a new client, with an empty queue, replaces the previous one.
OnReady ==
    /\ phase = "connecting" /\ Alive
    /\ phase' = "negotiating"
    /\ hasClient' = TRUE /\ queue' = <<>>
    /\ UNCHANGED <<endpointVars, over, serverId, flagVars, promiseVars, historyVars>>

Fail(why) == over' = "erred" /\ error' = why

OnRefused ==
    /\ phase = "connecting" /\ Alive
    /\ Fail("refused")
    /\ UNCHANGED <<endpointVars, phase, clientVars, isClosing, retry, capabilityUnknown,
                   promiseVars, historyVars>>

\* No activity for connectTimeout; the timer may be late.
OnTimeout ==
    /\ phase \in {"connecting", "negotiating"} /\ Alive
    /\ \E delay \in 0 .. MaxDelay : Elapse(ConnectTimeout + delay)
    /\ Fail("timeout")
    /\ timedOut' = timedOut \cup {Head(available)}
    /\ UNCHANGED <<available, phase, clientVars, isClosing, retry, capabilityUnknown,
                   promiseVars, opens, attempted, lost>>

\* start() rejects: no such capability, or bad credentials.
OnDenied ==
    /\ phase = "negotiating" /\ Alive
    /\ Fail("denied")
    /\ UNCHANGED <<endpointVars, phase, clientVars, isClosing, retry, capabilityUnknown,
                   promiseVars, historyVars>>

\* An old server: the same endpoint is tried without the capability.
OnUnknownCapability ==
    /\ phase = "negotiating" /\ Alive
    /\ ~capabilityUnknown
    /\ capabilityUnknown' = TRUE
    /\ retry' = TRUE
    /\ Fail("capability")
    /\ UNCHANGED <<endpointVars, phase, clientVars, isClosing, promiseVars, historyVars>>

OnAuthenticated ==
    /\ phase = "negotiating" /\ Alive
    /\ phase' = "established"
    /\ serverId' = TRUE
    /\ opened' = IF opened = "pending" THEN "resolved" ELSE opened
    /\ UNCHANGED <<endpointVars, over, hasClient, queue, flagVars, closing, call, historyVars>>

\* The server closes the connection in order, in either stage.
ServerEnds ==
    /\ phase \in {"negotiating", "established"} /\ Alive
    /\ over' = "ended"
    /\ UNCHANGED <<endpointVars, phase, clientVars, flagVars, promiseVars, historyVars>>

\* ECONNRESET, ETIMEDOUT, EPIPE.
NetworkFails ==
    /\ phase = "established" /\ Alive
    /\ Fail("reset")
    /\ lost' = TRUE
    /\ UNCHANGED <<endpointVars, phase, clientVars, isClosing, retry, capabilityUnknown,
                   promiseVars, opens, attempted, timedOut>>

\* Time passes while the session is established.
Wait ==
    /\ phase = "established" /\ Alive
    /\ unavailable # <<>>
    /\ Elapse(RetryAfter + 1)
    /\ UNCHANGED <<available, socketVars, clientVars, flagVars, promiseVars, historyVars>>

-----------------------------------------------------------------------------
(* The 'close' event.                                                       *)

\* (only a socket without workload is looked at)
RejectsMutant(c) == FALSE

\* handleServerClose() rejects every call in the queue.
Rejects(c) == InSequence(c, queue)

\* A negotiation has a call in the queue too, except during the TLS handshake.
IsActive(talking) == queue # <<>> \/ (phase = "negotiating" /\ talking)

\* The server closed a session with a workload.  Nothing is reset: the
\* connection still has a client and a server id.
OnCloseActive ==
    /\ over = "ended"
    /\ IsOpen /\ \E talking \in BOOLEAN : IsActive(talking)
    /\ over' = "closed"
    /\ queue' = <<>>
    /\ call' = [c \in Calls |-> IF Rejects(c) THEN "rejected" ELSE call[c]]
    /\ closing' = IF Rejects(CloseCall) THEN "rejected" ELSE closing
    /\ UNCHANGED <<endpointVars, phase, hasClient, serverId, flagVars, opened, historyVars>>

\* (the server id outlives the connection)
ResetMutant ==
    /\ hasClient' = FALSE /\ queue' = <<>> /\ serverId' = serverId
    /\ isClosing' = FALSE /\ retry' = FALSE /\ capabilityUnknown' = FALSE

\* reset()
Reset ==
    /\ hasClient' = FALSE /\ queue' = <<>> /\ serverId' = FALSE
    /\ isClosing' = FALSE /\ retry' = FALSE /\ capabilityUnknown' = FALSE

\* The connection was legitimately closed.
OnCloseIdle ==
    /\ over = "ended"
    /\ IsOpen /\ \E talking \in BOOLEAN : ~IsActive(talking)
    /\ over' = "closed"
    /\ Reset
    /\ opened' = IF opened = "pending" THEN "resolved" ELSE opened
    /\ UNCHANGED <<endpointVars, phase, error, closing, call, historyVars>>

\* (the endpoint is in both lists)
NotShiftedMutant ==
    IF retry THEN [available |-> available, unavailable |-> unavailable]
    ELSE [available |-> available,
          unavailable |-> Append(unavailable, [endpoint |-> Head(available), age |-> 0])]

\* (the latest failure is put first)
ShiftedFirstMutant ==
    IF retry THEN [available |-> available, unavailable |-> unavailable]
    ELSE [available |-> Tail(available),
          unavailable |-> <<[endpoint |-> Head(available), age |-> 0]>> \o unavailable]

\* The current endpoint becomes unavailable, unless it is to be retried.
Shifted ==
    IF retry THEN [available |-> available, unavailable |-> unavailable]
    ELSE [available |-> Tail(available),
          unavailable |-> Append(unavailable, [endpoint |-> Head(available), age |-> 0])]

\* hasMoreEndpointsAvailable() updates the lists before it looks at them.
RemainingAvailable == Shifted.available \o Recovered(Shifted.unavailable)
RemainingUnavailable == StillUnavailable(Shifted.unavailable)

MultipleEndpoints == Len(RemainingAvailable) + Len(RemainingUnavailable) > 1

\* (a session that ends is a failed attempt)
ClosesMutant == over \in {"erred", "ended"}

\* The attempt failed, or the network did.
Closes ==
    \/ over = "erred"
    \/ over = "ended" /\ ~IsOpen

\* (one endpoint is enough to give up)
GivesUpMutant == Len(RemainingAvailable) <= 1

GivesUp == RemainingAvailable = <<>>

\* Nothing left to try.  The error is the latest one the socket reported.
OnCloseGiveUp ==
    /\ Closes /\ GivesUp
    /\ available' = RemainingAvailable /\ unavailable' = RemainingUnavailable
    /\ over' = "closed"
    /\ error' = IF MultipleEndpoints /\ error # "timeout" THEN "nomore" ELSE error
    /\ opened' = IF opened # "pending" THEN opened
                 ELSE IF error = "timeout" THEN "timeout"
                 ELSE IF MultipleEndpoints THEN "nomore" ELSE "failed"
    /\ Reset
    /\ UNCHANGED <<phase, closing, call, historyVars>>

\* (a retry does not end)
ClearRetryMutant == retry

ClearRetry == FALSE

\* Try the next endpoint.  The client and the server id stay as they are.
OnCloseFailover ==
    /\ Closes /\ ~GivesUp
    /\ Connect(RemainingAvailable)
    /\ unavailable' = RemainingUnavailable
    /\ retry' = ClearRetry
    /\ attempted' = attempted \cup {Head(RemainingAvailable)}
    /\ UNCHANGED <<clientVars, isClosing, error, capabilityUnknown, promiseVars,
                   opens, timedOut, lost>>

-----------------------------------------------------------------------------
(* The session.                                                             *)

\* execute(): rejected when the connection is not open; otherwise the call is
\* queued and written to the socket, which may be gone.
Execute(c) ==
    /\ opened = "resolved" /\ call[c] = "idle"
    /\ IF IsOpen
       THEN /\ queue' = Append(queue, c)
            /\ call' = [call EXCEPT ![c] = IF over = "closed" THEN "unheard" ELSE "pending"]
       ELSE /\ call' = [call EXCEPT ![c] = "rejected"]
            /\ UNCHANGED queue
    /\ UNCHANGED <<endpointVars, socketVars, hasClient, serverId, flagVars,
                   opened, closing, historyVars>>

\* close(), which is destroy(): a message like any other, unless there is
\* nothing to close.
Close ==
    /\ opened = "resolved" /\ closing = "none"
    /\ IF ~IsOpen \/ isClosing \/ ~Alive
       THEN closing' = "resolved" /\ UNCHANGED <<isClosing, queue>>
       ELSE /\ closing' = "pending"
            /\ isClosing' = TRUE
            /\ queue' = Append(queue, CloseCall)
    /\ UNCHANGED <<endpointVars, socketVars, hasClient, serverId, retry, error,
                   capabilityUnknown, opened, call, historyVars>>

Answering == phase = "established" /\ Alive /\ queue # <<>>

OnAnswer ==
    /\ Answering /\ Head(queue) # CloseCall
    /\ queue' = Tail(queue)
    /\ call' = [call EXCEPT ![Head(queue)] = "answered"]
    /\ UNCHANGED <<endpointVars, socketVars, hasClient, serverId, flagVars,
                   opened, closing, historyVars>>

\* (close() resolves before the socket is destroyed)
DestroySocketMutant == over

\* socket.destroy(): the 'close' event is to come, without an error.
DestroySocket == "ended"

\* The server has closed the session.
OnCloseAnswer ==
    /\ Answering /\ Head(queue) = CloseCall
    /\ queue' = Tail(queue)
    /\ over' = DestroySocket
    /\ isClosing' = FALSE
    /\ closing' = "resolved"
    /\ UNCHANGED <<endpointVars, phase, hasClient, serverId, retry, error,
                   capabilityUnknown, opened, call, historyVars>>

-----------------------------------------------------------------------------

Negotiate == OnReady \/ OnRefused \/ OnTimeout \/ OnDenied \/ OnUnknownCapability \/ OnAuthenticated
OnClose == OnCloseActive \/ OnCloseIdle \/ OnCloseGiveUp \/ OnCloseFailover

Next ==
    \/ Open \/ OpenNothing
    \/ Negotiate \/ ServerEnds \/ NetworkFails \/ Wait
    \/ OnClose
    \/ \E c \in Calls : Execute(c)
    \/ Close \/ OnAnswer \/ OnCloseAnswer

Spec == Init /\ [][Next]_vars

\* Every attempt ends, if only with the timer; 'close' follows the end of the
\* socket; the server answers what it has read.
FairSpec ==
    /\ Spec
    /\ WF_vars(Negotiate)
    /\ WF_vars(OnClose)
    /\ WF_vars(OnAnswer \/ OnCloseAnswer)

-----------------------------------------------------------------------------
(* Properties.                                                              *)

\* Each endpoint is in exactly one of the two lists, once, whatever the order
\* of failures, retries and recoveries; so open() always has one to take.
EndpointsConserved ==
    LET all == available \o EndpointsOf(unavailable)
    IN /\ Len(all) = Cardinality(Endpoints)
       /\ \A e \in Endpoints : InSequence(e, all)
       /\ Alive => available # <<>>

\* update() stops at the first endpoint that cannot be retried: the list must
\* be in the order in which the endpoints failed.
OldestFirst ==
    \A i, j \in DOMAIN unavailable : i < j => unavailable[i].age >= unavailable[j].age

\* No endpoint is lost, doubled or out of the order update() relies on.
EndpointsKept == EndpointsConserved /\ OldestFirst

\* An endpoint is tried only after every more important one was.
PriorityOrder ==
    opened = "pending" /\ Alive =>
        \A e \in Endpoints \ attempted : Priority[e] <= Priority[Head(available)]

\* open() fails only after every endpoint was tried, or was found unavailable
\* a moment ago.
FailsAfterAll == opened \in Failures => attempted = Endpoints

\* open() goes through the endpoints by importance, and through all of them.
EveryEndpointTried == PriorityOrder /\ FailsAfterAll

\* Two more statements of comments that the code does not keep.  A timeout is
\* reported when it was reached for all the endpoints.
TimeoutMeansAll == opened = "timeout" => timedOut = Endpoints

\* An established session is not moved to another connection when the server
\* closes it.  (A network error does move it: see the README.)
SessionStaysClosed == ~lost /\ opened = "resolved" => phase = "established"

\* A call is in the queue of the client until it settles, and the end of the
\* socket settles the queue, unless a network error drops the client with it.
NoCallStranded ==
    ~lost => \A c \in Calls :
        call[c] = "pending" => InSequence(c, queue) /\ over # "closed"

\* The same whatever happens, as the comment in the 'close' handler wants it:
\* the error handling of a workload is delegated to its workers.
WorkloadIsTold ==
    \A c \in Calls : call[c] = "pending" => InSequence(c, queue) /\ over # "closed"

\* No statement is sent over a connection that is gone.
NothingUnheard == \A c \in Calls : call[c] # "unheard"

\* close() resolves when the socket is gone, and no other takes its place unless
\* a network error came first.
CloseIsFinal == ~lost /\ closing = "resolved" => ~Alive

\* open() settles in the end.
OpenSettles == opened = "pending" ~> opened # "pending"

\* open() settles in the end, unless endpoints become available again faster
\* than it goes through the others.
OpenSettlesOrRecovers ==
    opened = "pending" ~> opened # "pending" \/ Retryable(unavailable) > 0

\* close() settles in the end, unless the network fails.
CloseSettles == closing = "pending" ~> closing # "pending" \/ lost

\* So does a statement that was sent while the connection was there.
CallSettles == \A c \in Calls : call[c] = "pending" ~> call[c] # "pending" \/ lost

\* No promise of a connection stays pending for ever.
PromisesSettle == OpenSettlesOrRecovers /\ CloseSettles /\ CallSettles
=============================================================================
