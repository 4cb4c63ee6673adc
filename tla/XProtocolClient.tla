-------------------------- MODULE XProtocolClient --------------------------
(***************************************************************************)
(* The X Protocol client of one connection: lib/Protocol/Client.js with the *)
(* queue of lib/WorkQueue.js and the handlers of                            *)
(* lib/Protocol/InboundHandlers.  Requests are pipelined; a reply is        *)
(* matched with its request by nothing but its position.                    *)
(*                                                                          *)
(* The server is the one the handlers are written for.  It takes requests   *)
(* in order and answers each with the messages of its kind; it may close    *)
(* the connection at any time.  Rows, columns and notices are counted, and  *)
(* every message carries, for the properties only, the call it answers.     *)
(***************************************************************************)
EXTENDS Integers, Sequences, SequencesExt, FiniteSetsExt

CONSTANTS
    Ops,          \* calls of the client's methods, one promise each
    Kinds,        \* kinds of request the application makes
    Cursors,      \* cursors given to execute(): which callbacks there are
    MaxSets,      \* bound on the result sets of a reply
    MaxRows,      \* bound on the rows of a result set
    MaxColumns,   \* bound on the columns of a reply
    MaxInFlight,  \* bound on the messages under way to the client
    OtherReplies  \* the server may send messages the handlers do not know

AllKinds == {"ok", "capabilities", "authenticate", "result"}
AllCursors == {"none", "rows", "both", "meta"}

ASSUME ClientAssumption ==
    /\ Kinds \subseteq AllKinds
    /\ Cursors \subseteq AllCursors
    /\ MaxSets \in Nat \ {0}
    /\ MaxRows \in Nat
    /\ MaxColumns \in Nat \ {0}
    /\ MaxInFlight \in Nat \ {0}
    /\ OtherReplies \in BOOLEAN

VARIABLES
    issued,     \* the calls made, in order
    kind, cursor,
    workQueue,  \* the calls whose handlers are in the queue
    handler,    \* what the handler of each call has gathered
    outcome,    \* what the promise of each call was settled with
    crashed,    \* an exception left the 'data' listener
    \* the server, and what is under way in each direction
    requests, replies, phase, answer, closed

clientVars == <<issued, kind, cursor, workQueue, handler, outcome, crashed>>
serverVars == <<requests, replies, phase, answer, closed>>
vars == <<clientVars, serverVars>>

\* A result is the number of rows and columns of each set, and of notices.
NoResult == [rows |-> <<>>, columns |-> <<>>, notices |-> 0]
Fulfilled(result) == [status |-> "resolved", result |-> result]
Rejected(why) == [status |-> why, result |-> NoResult]
Pending == Rejected("pending")

\* results is a sparse array: an index that was never assigned is undefined.
NewHandler ==
    [results |-> <<>>, resultIndex |-> 1, current |-> 0, metadata |-> <<>>,
     notices |-> 0, metadataCalled |-> FALSE, metadataCalls |-> 0,
     pushed |-> [set \in 1 .. MaxSets |-> 0], sources |-> {}]

Statuses == {"pending", "sending", "resolved", "error", "unexpected", "plugin", "gone"}
Phases == {"idle", "wait", "columns", "rows", "sets", "done"}
Message(type, op) == [type |-> type, op |-> op]

TypeOK ==
    /\ issued \in Seq(Ops)
    /\ kind \in [Ops -> AllKinds]
    /\ cursor \in [Ops -> AllCursors]
    /\ workQueue \in Seq(Ops)
    /\ \A o \in Ops :                    \* results has no hole
          Len(handler[o].results) \in {handler[o].resultIndex - 1, handler[o].resultIndex}
    /\ \A o \in Ops : outcome[o].status \in Statuses \ {"sending"}
    /\ crashed \in BOOLEAN
    /\ requests \in Seq([type : {"request", "continue"}, op : Ops])
    /\ Len(replies) <= MaxInFlight + 1
    /\ phase \in Phases
    /\ closed \in {"no", "server", "client", "handled", "gone"}

Init ==
    /\ issued = <<>>
    /\ kind = [o \in Ops |-> "ok"]
    /\ cursor = [o \in Ops |-> "none"]
    /\ workQueue = <<>>
    /\ handler = [o \in Ops |-> NewHandler]
    /\ outcome = [o \in Ops |-> Pending]
    /\ crashed = FALSE
    /\ requests = <<>>
    /\ replies = <<>>
    /\ phase = "idle"
    /\ answer = [o \in Ops |-> Pending]
    /\ closed = "no"

-----------------------------------------------------------------------------
(* Requests.                                                                *)

Issued == {issued[i] : i \in DOMAIN issued}

\* Connection#start authenticates before a session can use the connection.
Authenticating == \E i \in DOMAIN workQueue : kind[workQueue[i]] = "authenticate"

\* (the handler goes to the front)
PushMutant(o) == workQueue' = <<o>> \o workQueue

Push(o) == workQueue' = Append(workQueue, o)

\* sendMessage(): queue the handler and write the message.  Nobody looks
\* whether the socket is still there.  Which unused name a call gets does not
\* matter.
Send(o, k, c) ==
    /\ ~crashed
    /\ closed \in {"no", "server", "handled"}
    /\ o \notin Issued
    /\ o = CHOOSE unused \in Ops \ Issued : TRUE
    /\ ~Authenticating
    /\ k = "authenticate" => workQueue = <<>>
    /\ k # "result" => c = "none"
    /\ issued' = Append(issued, o)
    /\ kind' = [kind EXCEPT ![o] = k]
    /\ cursor' = [cursor EXCEPT ![o] = c]
    /\ Push(o)
    /\ requests' = Append(requests, Message("request", o))
    /\ UNCHANGED <<handler, outcome, crashed, replies, phase, answer, closed>>

-----------------------------------------------------------------------------
(* The server.                                                              *)

Serving == Head(requests).op
CanReply == closed = "no" /\ requests # <<>> /\ Len(replies) < MaxInFlight
Reply(type) == replies' = Append(replies, Message(type, Serving))
Request(k) ==
    /\ CanReply
    /\ Head(requests).type = "request"
    /\ kind[Serving] = k

\* The last message of a reply: the server turns to the next request.
Finish(type, result) ==
    /\ Reply(type)
    /\ requests' = Tail(requests)
    /\ phase' = "idle"
    /\ answer' = [answer EXCEPT ![Serving] = result]
    /\ UNCHANGED <<clientVars, closed>>

\* What the server has sent so far of a result.
Draft == answer[Serving].result
Sending(result) ==
    answer' = [answer EXCEPT ![Serving] = [status |-> "sending", result |-> result]]
Continues(type, next, result) ==
    /\ Reply(type)
    /\ phase' = next
    /\ Sending(result)
    /\ UNCHANGED <<clientVars, requests, closed>>

OneMessage == [ok |-> "Ok", capabilities |-> "Capabilities"]

ServerOk ==
    \E k \in DOMAIN OneMessage : Request(k) /\ Finish(OneMessage[k], Fulfilled(NoResult))

ServerAuthenticates ==
    \/ /\ Request("authenticate") /\ phase = "idle"
       /\ Reply("AuthenticateContinue")
       /\ phase' = "wait"
       /\ UNCHANGED <<clientVars, requests, answer, closed>>
    \/ /\ CanReply /\ phase = "wait" /\ Len(requests) > 1
       /\ requests[2] = Message("continue", Serving)
       /\ Reply("AuthenticateOk")
       /\ requests' = Tail(Tail(requests))
       /\ phase' = "idle"
       /\ answer' = [answer EXCEPT ![Serving] = Fulfilled(Draft)]
       /\ UNCHANGED <<clientVars, closed>>

\* A request can fail at any point, also in the middle of a result set.
ServerFails ==
    /\ \E k \in AllKinds : Request(k)
    /\ phase = "wait" => Len(requests) > 1
    /\ Reply("Error")
    /\ requests' = IF phase = "wait" THEN Tail(Tail(requests)) ELSE Tail(requests)
    /\ phase' = "idle"
    /\ answer' = [answer EXCEPT ![Serving] = Rejected("error")]
    /\ UNCHANGED <<clientVars, closed>>

Increment(counts, i) == [counts EXCEPT ![i] = @ + 1]
AddTo(counts) == Increment(counts, Len(counts))

\* Another column of the set being described, or the first of the next one.
ServerColumn ==
    /\ Request("result")
    /\ FoldLeft(+, 0, Draft.columns) < MaxColumns
    /\ \/ /\ phase \in {"idle", "sets"} /\ Len(Draft.columns) < MaxSets
          /\ Continues("ColumnMetaData", "columns",
                [Draft EXCEPT !.columns = Append(@, 1), !.rows = Append(@, 0)])
       \/ /\ phase = "columns"
          /\ Continues("ColumnMetaData", "columns", [Draft EXCEPT !.columns = AddTo(@)])

ServerRow ==
    /\ Request("result")
    /\ phase \in {"columns", "rows"}
    /\ Last(Draft.rows) < MaxRows
    /\ Continues("Row", "rows", [Draft EXCEPT !.rows = AddTo(@)])

ServerFetchDone ==
    /\ Request("result")
    /\ phase \in {"columns", "rows"}
    /\ \/ Continues("FetchDone", "done", Draft)
       \/ Len(Draft.rows) < MaxSets /\ Continues("FetchDoneMoreResultsets", "sets", Draft)

\* Document ids, rows affected, warnings, or the connection id of a session:
\* once per reply is enough.
ServerNotice ==
    /\ \/ Request("result") /\ phase \in {"idle", "done"}
       \/ Request("authenticate") /\ phase = "wait" /\ Len(requests) > 1
    /\ Draft.notices = 0
    /\ Continues("Notice", phase, [Draft EXCEPT !.notices = 1])

ServerExecuteOk ==
    /\ Request("result")
    /\ phase \in {"idle", "done"}
    /\ Finish("StmtExecuteOk", Fulfilled(Draft))

\* A notice that is not about any request.
ServerGlobalNotice ==
    /\ CanReply
    /\ \A i \in DOMAIN replies : replies[i].type # "GlobalNotice"
    /\ Reply("GlobalNotice")
    /\ UNCHANGED <<clientVars, requests, phase, answer, closed>>

\* FetchSuspended, FetchDoneMoreOutParams: the reply goes on after it.
ServerOther ==
    /\ OtherReplies
    /\ Request("result")
    /\ phase \in {"rows", "columns"}
    /\ \A i \in DOMAIN replies : replies[i].type # "Other"
    /\ Reply("Other")
    /\ UNCHANGED <<clientVars, requests, phase, answer, closed>>

\* What was sent before arrives before the end of the stream.
ServerCloses ==
    /\ closed = "no"
    /\ closed' = "server"
    /\ UNCHANGED <<clientVars, requests, replies, phase, answer>>

-----------------------------------------------------------------------------
(* handleServerMessage(): the front handler gets the message.               *)

\* The message types each kind of handler has a method for.
Handles(k) ==
    {"Error", "Notice"} \cup
    CASE k = "ok" -> {"Ok"}
      [] k = "capabilities" -> {"Capabilities"}
      [] k = "authenticate" -> {"AuthenticateContinue", "AuthenticateOk"}
      [] k = "result" -> {"ColumnMetaData", "Row", "FetchDone",
                          "FetchDoneMoreResultsets", "StmtExecuteOk"}

Current == Head(workQueue)
H == handler[Current]

Received(type) == replies # <<>> /\ ~crashed /\ Head(replies).type = type
Consume == replies' = Tail(replies) /\ UNCHANGED <<phase, answer>>

\* (the queue is not advanced)
DoneMutant(o, result) ==
    /\ workQueue' = workQueue
    /\ outcome' = [outcome EXCEPT ![o] = result]

\* (the queue is cleared instead of advanced)
ClearedMutant(o, result) ==
    /\ workQueue' = <<>>
    /\ outcome' = [outcome EXCEPT ![o] = result]

\* queueDone(), then resolve or reject.
Done(o, result) ==
    /\ workQueue' = Tail(workQueue)
    /\ outcome' = [outcome EXCEPT ![o] = result]

\* The front handler has a method for the message and runs it.
Handled(type) ==
    /\ Received(type)
    /\ workQueue # <<>>
    /\ type \in Handles(kind[Current])
    /\ Consume

Gather(h) ==
    handler' = [handler EXCEPT ![Current] =
                   [h EXCEPT !.sources = @ \cup {Head(replies).op}]]

\* results[i], undefined when it was never assigned.
Assigned(h, i) == i <= Len(h.results)

\* (a last set without rows is missing, as after FetchDone)
EmptySetMutant(h) == h.results

\* FetchDoneMoreResultsets initialises a set that came without rows.
EmptySet(h) == IF Assigned(h, h.resultIndex) THEN h.results ELSE Append(h.results, 0)

\* (the metadata of a later set is not announced)
NewColumnMutant(h) == [h EXCEPT !.current = @ + 1]

NewColumn(h) == [h EXCEPT !.current = @ + 1, !.metadataCalled = FALSE]

OnColumnMetaData ==
    /\ Handled("ColumnMetaData")
    /\ Gather(NewColumn(H))
    /\ UNCHANGED <<issued, kind, cursor, workQueue, outcome, crashed, requests, closed>>

\* Without cursors, buffer the row.
OnRow ==
    /\ Handled("Row")
    /\ cursor[Current] = "none"
    /\ LET rows == IF Assigned(H, H.resultIndex) THEN H.results
                   ELSE Append(H.results, 0)
       IN Gather([H EXCEPT !.results = Increment(rows, H.resultIndex)])
    /\ UNCHANGED <<issued, kind, cursor, workQueue, outcome, crashed, requests, closed>>

CallMetadata(h) == cursor[Current] \in {"both", "meta"} /\ ~h.metadataCalled

\* With a cursor, run the callbacks.  Without a row callback the call of
\* undefined throws, after the metadata callback.
OnRowCursor ==
    /\ Handled("Row")
    /\ cursor[Current] # "none"
    /\ Gather([H EXCEPT !.metadataCalled = @ \/ CallMetadata(H),
                        !.metadataCalls = IF CallMetadata(H) THEN @ + 1 ELSE @,
                        !.pushed = IF cursor[Current] = "meta" THEN @
                                   ELSE Increment(@, H.resultIndex)])
    /\ crashed' = (cursor[Current] = "meta")
    /\ UNCHANGED <<issued, kind, cursor, workQueue, outcome, requests, closed>>

\* (the columns of a set stay for the next one)
ClearMetadataMutant(h) == h.current

ClearMetadata(h) == 0

OnFetchDone ==
    /\ Handled("FetchDone")
    /\ Gather([H EXCEPT !.metadata = Append(@, H.current), !.current = ClearMetadata(H)])
    /\ UNCHANGED <<issued, kind, cursor, workQueue, outcome, crashed, requests, closed>>

OnFetchDoneMoreResultsets ==
    /\ Handled("FetchDoneMoreResultsets")
    /\ Gather([H EXCEPT !.metadata = Append(@, H.current), !.current = ClearMetadata(H),
                        !.results = EmptySet(H), !.resultIndex = @ + 1])
    /\ UNCHANGED <<issued, kind, cursor, workQueue, outcome, crashed, requests, closed>>

OnNotice ==
    /\ Handled("Notice")
    /\ Gather([H EXCEPT !.notices = @ + 1])
    /\ UNCHANGED <<issued, kind, cursor, workQueue, outcome, crashed, requests, closed>>

\* What the promise of a statement resolves to, one count per set.
Gathered(h) ==
    [rows |-> [i \in DOMAIN h.metadata |->
                  IF Assigned(h, i) THEN h.results[i] ELSE 0],
     columns |-> h.metadata,
     notices |-> h.notices]

OnStmtExecuteOk ==
    /\ Handled("StmtExecuteOk")
    /\ Gather(H)
    /\ Done(Current, Fulfilled(Gathered(H)))
    /\ UNCHANGED <<issued, kind, cursor, crashed, requests, closed>>

OnOk ==
    /\ \E type \in {"Ok", "Capabilities", "AuthenticateOk"} : Handled(type)
    /\ Gather(H)
    /\ Done(Current, Fulfilled(Gathered(H)))
    /\ UNCHANGED <<issued, kind, cursor, crashed, requests, closed>>

OnError ==
    /\ Handled("Error")
    /\ Gather(H)
    /\ Done(Current, Rejected("error"))
    /\ UNCHANGED <<issued, kind, cursor, crashed, requests, closed>>

\* The plug-in computes a response, which goes out past the queue, or throws.
OnAuthenticateContinue ==
    /\ Handled("AuthenticateContinue")
    /\ Gather(H)
    /\ \/ /\ requests' = Append(requests, Message("continue", Current))
          /\ UNCHANGED <<workQueue, outcome, closed>>
       \/ /\ Done(Current, Rejected("plugin"))
          /\ closed' = "client"        \* Connection#connect destroys the socket
          /\ UNCHANGED requests
    /\ UNCHANGED <<issued, kind, cursor, crashed>>

\* A message the front handler has no method for ends that handler.
OnUnexpected ==
    /\ replies # <<>> /\ ~crashed
    /\ Head(replies).type # "GlobalNotice"
    /\ workQueue # <<>>
    /\ Head(replies).type \notin Handles(kind[Current])
    /\ Consume
    /\ Done(Current, Rejected("unexpected"))
    /\ UNCHANGED <<issued, kind, cursor, handler, crashed, requests, closed>>

\* WorkQueue#process throws when there is no handler.
OnEmptyQueue ==
    /\ replies # <<>> /\ ~crashed
    /\ Head(replies).type # "GlobalNotice"
    /\ workQueue = <<>>
    /\ Consume
    /\ crashed' = TRUE
    /\ UNCHANGED <<issued, kind, cursor, workQueue, handler, outcome, requests, closed>>

OnGlobalNotice ==
    /\ Received("GlobalNotice")
    /\ Consume
    /\ UNCHANGED <<clientVars, requests, closed>>

\* (only the oldest call hears of it)
GoneMutant(o) == workQueue # <<>> /\ o = Current

IsQueued(o) == \E i \in DOMAIN workQueue : workQueue[i] = o

\* handleServerClose(): reject whatever is in the queue.
LoseCall(o) == IsQueued(o)

\* The 'close' event.  With nothing in the queue the connection is reset, and
\* it has no client any more.
HandleServerClose ==
    /\ closed = "server" /\ replies = <<>> /\ ~crashed
    /\ closed' = IF workQueue = <<>> THEN "gone" ELSE "handled"
    /\ outcome' = [o \in Ops |-> IF LoseCall(o) THEN Rejected("gone") ELSE outcome[o]]
    /\ workQueue' = <<>>
    /\ UNCHANGED <<issued, kind, cursor, handler, crashed, requests, replies, phase, answer>>

-----------------------------------------------------------------------------

Serve ==
    \/ ServerOk \/ ServerAuthenticates \/ ServerFails
    \/ ServerColumn \/ ServerRow \/ ServerFetchDone
    \/ ServerNotice \/ ServerExecuteOk

HandleMessage ==
    \/ OnColumnMetaData \/ OnRow \/ OnRowCursor
    \/ OnFetchDone \/ OnFetchDoneMoreResultsets
    \/ OnNotice \/ OnStmtExecuteOk \/ OnOk \/ OnError
    \/ OnAuthenticateContinue
    \/ OnUnexpected \/ OnEmptyQueue \/ OnGlobalNotice

Next ==
    \/ \E o \in Ops, k \in Kinds, c \in Cursors : Send(o, k, c)
    \/ Serve \/ ServerGlobalNotice \/ ServerOther \/ ServerCloses
    \/ HandleMessage \/ HandleServerClose

Spec == Init /\ [][Next]_vars

\* The server answers what it has read, and the socket delivers it.  Global
\* notices fill the bounded socket again and again, hence SF.
FairSpec ==
    /\ Spec
    /\ SF_vars(Serve)
    /\ WF_vars(HandleMessage)
    /\ WF_vars(HandleServerClose)

-----------------------------------------------------------------------------
(* Properties.                                                              *)

Settled(o) == outcome[o].status # "pending"

\* No message has come that the handler at the front does not know.  Once one
\* has, the rest of its reply reaches handlers it was not meant for.
Expected == \A o \in Ops : outcome[o].status # "unexpected"

\* A reply is consumed by the handler of the call it answers, however many
\* calls are in the pipeline (handleServerMessage gives it to the front one).
OwnMessages == Expected => \A o \in Ops : handler[o].sources \subseteq {o}

\* The promise of a call settles as the server decided that call: the same
\* sets with the same columns and rows, the same notices, or the same error.
\* A cursor gets the rows instead of the buffer.
OwnAnswers ==
    \A o \in Ops : Expected /\ outcome[o].status \in {"resolved", "error"} =>
        /\ outcome[o].status = answer[o].status
        /\ outcome[o].result.columns = answer[o].result.columns
        /\ outcome[o].result.notices = answer[o].result.notices
        /\ IF cursor[o] = "none"
           THEN outcome[o].result.rows = answer[o].result.rows
           ELSE outcome[o].status = "resolved" =>
                    LET rows == answer[o].result.rows
                    IN handler[o].pushed =
                           [set \in 1 .. MaxSets |->
                               IF set \in DOMAIN rows THEN rows[set] ELSE 0]

\* A metadata callback runs once for each set that has rows, before its rows.
MetadataOncePerSet ==
    \A o \in Ops :
        Expected /\ cursor[o] = "both" /\ outcome[o].status = "resolved" =>
            handler[o].metadataCalls =
                Cardinality({i \in DOMAIN answer[o].result.rows : answer[o].result.rows[i] > 0})

\* A call consumes its own reply, settles with what that reply said, and calls
\* its callbacks for it.
OwnReplies == OwnMessages /\ OwnAnswers /\ MetadataOncePerSet

\* Promises settle in the order the calls were made, and the queue holds the
\* others in that order, also when the server sends something unexpected.
SettledInOrder ==
    \E n \in 0..Len(issued) :
        /\ \A i \in DOMAIN issued : Settled(issued[i]) <=> i <= n
        /\ workQueue = SubSeq(issued, n + 1, Len(issued))

\* No message makes the data listener throw, which would end the process.
NeverThrows == Expected => ~crashed

\* What was settled stays settled, with the same result.
SettledOnce == [][\A o \in Ops : Settled(o) => outcome'[o] = outcome[o]]_vars

\* A call settles, if only because the connection is lost, when it was made
\* before the loss was handled.
EverySettles ==
    \A o \in Ops :
        (\E i \in DOMAIN issued : issued[i] = o) /\ closed \in {"no", "server"}
            ~> Settled(o) \/ ~Expected

\* What a promise carries: a cursor has got the rows already.
Carried(o, result) ==
    IF cursor[o] = "none" THEN result ELSE [result EXCEPT !.result.rows = <<>>]

\* The calls of a connection, with answers that are seen only when complete.
Pipeline == INSTANCE PipelinedCalls WITH
    Calls <- Ops,
    Answers <- [status : {"resolved", "error", "gone"},
                result : [rows : Seq(Nat), columns : Seq(Nat), notices : Nat]],
    Open <- Pending,
    Gone <- Rejected("gone"),
    Abandoned <- Rejected("plugin"),
    decided <- [o \in Ops |->
        IF answer[o].status = "sending" THEN Pending ELSE Carried(o, answer[o])],
    settled <- [o \in Ops |-> Carried(o, outcome[o])]

\* The client answers its calls in the order they were made, as long as the
\* server sends what the handlers know.
ImplementsPipeline ==
    Pipeline!CallsInit /\ [][Pipeline!CallsNext \/ ~Expected']_(Pipeline!callVars)
=============================================================================
