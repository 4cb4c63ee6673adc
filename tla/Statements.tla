----------------------------- MODULE Statements -----------------------------
(***************************************************************************)
(* What the statements of lib/DevAPI that can be prepared ask of the server  *)
(* over their life: CollectionFind, CollectionModify, CollectionRemove,     *)
(* TableSelect, TableUpdate and TableDelete, with the mixins they are made  *)
(* of.  Preparing decides which request an execution sends next; here the   *)
(* statements have contents, and the requests are the bytes they become     *)
(* when they are sent.                                                      *)
(***************************************************************************)
EXTENDS Preparing, TLC

CONSTANTS
    MaxSafe, Modulus,  \* of Literals
    MaxCreated,        \* bound on the statements that are used
    Names, Values,     \* of placeholders
    Numbers,           \* for LIMIT and OFFSET
    Clauses            \* what each kind of statement can be made of

VARIABLES
    kind,      \* of each statement, "none" for one that is not used
    content,   \* what the application has said so far
    sent,      \* what the requests of the pipeline say, and were asked to say
    onServer,  \* the messages the server has prepared
    ran        \* the execution that has just ended: what was asked, what it did

contentVars == <<kind, content, sent, onServer, ran>>

X == INSTANCE Plugin
W == INSTANCE Wire

-----------------------------------------------------------------------------
(* Contents.                                                                *)

Finds == {"find", "select"}
Updates == {"modify", "update"}
Deletes == {"remove", "delete"}
Tables == {"select", "update", "delete"}
Kinds == Finds \cup Updates \cup Deletes

NoExpr == <<"none">>

\* Assignments keep the order in which the names were first bound.
Empty(criteria, projection) ==
    [criteria |-> criteria, assignments |-> <<>>, count |-> <<>>, offset |-> <<>>,
     orderList |-> <<>>, projectionList |-> projection, groupingList |-> <<>>,
     groupingCriteria |-> NoExpr, lock |-> "NONE", mode |-> "DEFAULT", operationList |-> <<>>]

\* find(), modify() and remove() of a collection, select(), update() and
\* delete() of a table.
Created(k) ==
    CASE k = "find" -> {Empty(c, <<>>) : c \in Clauses[k].criteria \cup {NoExpr}}
      [] k \in {"modify", "remove"} -> {Empty(c, <<>>) : c \in Clauses[k].criteria}
      [] k = "select" -> {Empty(NoExpr, p) : p \in {<<>>} \cup {<<e>> : e \in Clauses[k].projection}}
      [] OTHER -> {Empty(NoExpr, <<>>)}

Column(pairs, i) == [j \in DOMAIN pairs |-> pairs[j][i]]

\* What the get..._() functions answer.
Statement(s) ==
    content[s] @@
    [type |-> CASE kind[s] \in Finds -> "FIND" [] kind[s] \in Updates -> "UPDATE" [] OTHER -> "DELETE",
     category |-> IF kind[s] \in Tables THEN "TABLE" ELSE "DOCUMENT",
     schemaName |-> "schema", tableName |-> "name",
     placeholders |-> Column(content[s].assignments, 1),
     values |-> Column(content[s].assignments, 2)]

Assigned(s) ==
    LET pairs == content[s].assignments
    IN  [name \in {pairs[i][1] : i \in DOMAIN pairs} |->
            pairs[CHOOSE i \in DOMAIN pairs : pairs[i][1] = name][2]]

\* What the statement says now.
Asked(s) ==
    LET st == Statement(s)
        Of(expr) == X!ExprSaid(expr, Assigned(s))
    IN  [collection |-> <<st.schemaName, st.tableName, st.category>>,
         criteria |-> X!OneSaid(st.criteria, Assigned(s)),
         limit |-> IF st.count = <<>> THEN <<>>
                   ELSE X!Each(LAMBDA n : <<"hundredths", 100 * n>>, st.count \o st.offset),
         order |-> X!Each(LAMBDA rule : <<Of(rule.expr), IF "direction" \in DOMAIN rule THEN rule.direction ELSE "ASC">>,
                          st.orderList),
         projection |-> X!Each(LAMBDA column : <<Of(column.source), X!Copied("alias", column, "alias")>>,
                               st.projectionList),
         grouping |-> X!Each(Of, st.groupingList),
         having |-> X!OneSaid(st.groupingCriteria, Assigned(s)),
         locking |-> IF kind[s] \in Finds THEN <<st.lock, st.mode>> ELSE <<>>,
         operations |-> X!Each(LAMBDA op : <<op.type, op.source,
                                             IF "value" \in DOMAIN op
                                             THEN IF op.isLiteral THEN <<X!ValueSaid(op.value)>>
                                                  ELSE <<Of(op.value)>>
                                             ELSE <<>>>>,
                               st.operationList)]

\* The placeholders of the criteria are bound to scalars, no other name is
\* bound, and no other expression has any.
Complete(s) ==
    LET st == content[s]
        exprs == X!Each(LAMBDA rule : rule.expr, st.orderList)
                 \o X!Each(LAMBDA column : column.source, st.projectionList)
                 \o X!Each(LAMBDA op : op.value,
                           SelectSeq(st.operationList,
                                     LAMBDA op : "value" \in DOMAIN op /\ ~op.isLiteral))
                 \o st.groupingList \o <<st.groupingCriteria>>
    IN  /\ DOMAIN Assigned(s) = X!NamesIn(st.criteria)
        /\ \A i \in DOMAIN st.assignments : st.assignments[i][2][1] # "array"
        /\ \A i \in DOMAIN exprs : X!NamesIn(exprs[i]) = {}

StatementsInit ==
    /\ Init
    /\ kind \in [Stmts -> Kinds \cup {"none"}]
    /\ Cardinality({s \in Stmts : kind[s] # "none"}) <= MaxCreated
    /\ \A s \in Stmts : kind[s] # "none" => (kind[s] \in Finds) = (s \in WithOffset)
    /\ content \in [Stmts -> UNION {Created(k) : k \in Kinds \cup {"none"}}]
    /\ \A s \in Stmts : content[s] \in Created(kind[s])
    /\ sent = <<>>
    /\ onServer = <<>>
    /\ ran = {}

-----------------------------------------------------------------------------
(* What the application says.                                               *)

Say(s, next) ==
    /\ content' = [content EXCEPT ![s] = next]
    /\ ran' = {}
    /\ UNCHANGED <<kind, sent, onServer>>

\* A change that is made after forceRestart().
Put(s, part, value) == Change(s) /\ Say(s, [content[s] EXCEPT ![part] = value])
Push(s, part, value) == Put(s, part, Append(content[s][part], value))

\* (a name that is bound again is the last one)
AssignMutant(assignments, name, value) ==
    Append(SelectSeq(assignments, LAMBDA pair : pair[1] # name), <<name, value>>)

\* A name keeps its place when it is bound again.
Assign(assignments, name, value) ==
    IF \E i \in DOMAIN assignments : assignments[i][1] = name
    THEN [i \in DOMAIN assignments |->
             IF assignments[i][1] = name THEN <<name, value>> ELSE assignments[i]]
    ELSE Append(assignments, <<name, value>>)

\* Only bind() with a new name needs care once a statement is prepared.
Bind(s) ==
    /\ Idle(s)
    /\ \E name \in Names, value \in Values :
          /\ s \in Careless \/ name \in X!NamesIn(content[s].criteria)
          /\ Say(s, [content[s] EXCEPT !.assignments = Assign(@, name, value)])
    /\ UNCHANGED vars

\* where() replaces the criteria of a table.
Where(s) ==
    /\ kind[s] \in Tables
    /\ \E c \in Clauses[kind[s]].criteria : Put(s, "criteria", c)

Fields(s) ==
    /\ kind[s] = "find"
    /\ \E p \in Clauses[kind[s]].projection : Push(s, "projectionList", p)

\* sort() and orderBy()
Sort(s) == \E rule \in Clauses[kind[s]].order : Push(s, "orderList", rule)

GroupBy(s) ==
    /\ kind[s] \in Finds
    /\ \E e \in Clauses[kind[s]].grouping : Push(s, "groupingList", e)

Having(s) ==
    /\ kind[s] \in Finds
    /\ \E e \in Clauses[kind[s]].having : Put(s, "groupingCriteria", e)

\* lockShared() and lockExclusive()
Lock(s) ==
    /\ kind[s] \in Finds
    /\ \E lock \in {"SHARED_LOCK", "EXCLUSIVE_LOCK"}, mode \in {"DEFAULT", "NOWAIT"} :
          Change(s) /\ Say(s, [content[s] EXCEPT !.lock = lock, !.mode = mode])

\* set(), unset(), patch(), arrayAppend() and arrayInsert()
Edit(s) ==
    /\ kind[s] \in Updates
    /\ \E op \in Clauses[kind[s]].operations : Push(s, "operationList", op)

\* The offset is zero again, where there is one.
LimitTo(s) ==
    /\ Limit(s)
    /\ \E n \in Numbers :
          Say(s, [content[s] EXCEPT !.count = <<n>>,
                                    !.offset = IF kind[s] \in Finds THEN <<0>> ELSE <<>>])

OffsetTo(s) ==
    /\ Offset(s)
    /\ \E n \in Numbers : Say(s, [content[s] EXCEPT !.offset = <<n>>])

-----------------------------------------------------------------------------
(* Executions.                                                              *)

\* The type of message of a plain statement, and the field of a prepared one.
Crud == [FIND |-> "CrudFind", UPDATE |-> "CrudUpdate", DELETE |-> "CrudDelete"]
OneOf == [FIND |-> "find", UPDATE |-> "update", DELETE |-> "delete"]

\* crudFind(), crudModify() and crudRemove() of the client.
Plain(st) ==
    CASE st.type = "FIND" -> X!Find(st, FALSE)
      [] st.type = "UPDATE" -> X!Update(st, FALSE)
      [] st.type = "DELETE" -> X!Delete(st, FALSE)

\* The message of a request, from what the statement says at this time.
Message(request) ==
    LET st == Statement(request.stmt)
    IN  CASE request.type \in {"plain", "fallback"} -> <<Crud[st.type], Plain(st)>>
          [] request.type = "prepare" -> <<"Prepare", X!Prepare(st, request.id)>>
          [] request.type = "execute" -> <<"PrepareExecute", X!Execute(st, request.id)>>
          [] request.type = "deallocate" -> <<"PrepareDeallocate", X!Deallocate(request.id)>>

\* execute() of a statement; an update or a delete has criteria.
Run(s) ==
    /\ kind[s] \notin Finds => content[s].criteria # NoExpr
    /\ Execute(s)
    /\ ran' = {}
    /\ UNCHANGED onServer

\* The server runs a statement; one it cannot make sense of fails.
Runs(does) == ran' = {[asked |-> Head(sent).asked, does |-> does]}

RunPlain(msg) ==
    /\ PlainDone \/ FallbackDone
    /\ \E does \in {X!StatementRead(msg, X!PlainArgs(msg))} :
          \/ does = X!Refused /\ stage' = stage /\ Runs(does)
          \/ does # X!Refused /\ stage'[R.stmt] # "TO_START" /\ Runs(does)
          \/ Failing /\ stage' = stage /\ ran' = {}
    /\ UNCHANGED onServer

RunPrepare(msg) ==
    /\ PrepareDone
    /\ onServer' = [id \in DOMAIN prepared' |->
                      IF id = R.id THEN msg.stmt[OneOf[msg.stmt.type]] ELSE onServer[id]]
    /\ ran' = {}

RunPrepared(msg) ==
    /\ ExecuteDone
    /\ Runs(IF msg.stmt_id \notin DOMAIN onServer THEN X!Refused
            ELSE X!StatementRead(onServer[msg.stmt_id], X!PreparedArgs(msg)))
    /\ UNCHANGED onServer

RunDeallocate ==
    /\ DeallocateDone
    /\ onServer' = [id \in DOMAIN prepared' |-> onServer[id]]
    /\ ran' = {}

RunFails ==
    /\ PrepareRefused \/ PrepareFails \/ DeallocateFails
    /\ ran' = {}
    /\ UNCHANGED onServer

\* What the server reads of the oldest request.
Arrived == W!Deserialize(Head(sent).type, Head(sent).wire)

Answered ==
    /\ sent # <<>>
    /\ \/ \E msg \in {Arrived} : RunPlain(msg) \/ RunPrepare(msg) \/ RunPrepared(msg)
       \/ RunDeallocate \/ RunFails

\* The request put at the end of the pipeline is written to the wire: the first
\* of an execution, or the next one of the execution whose reply has come.
Sent ==
    LET request == pipeline'[Len(pipeline')]
        new == Len(pipeline') > Len(pipeline)
        asked == [complete |-> Complete(request.stmt), does |-> Asked(request.stmt)]
    IN  IF Len(pipeline') < Len(pipeline) THEN sent' = Tail(sent)
        ELSE \E message \in {Message(request)} :
                sent' = Append(IF new THEN sent ELSE Tail(sent),
                    [type |-> message[1], asked |-> IF new THEN asked ELSE Head(sent).asked,
                     wire |-> W!Serialize(message[1], message[2], <<>>)])

StatementsNext ==
    \/ \E s \in Stmts :
          /\ kind[s] # "none"
          /\ \/ Bind(s) \/ Where(s) \/ Fields(s) \/ Sort(s) \/ GroupBy(s) \/ Having(s)
             \/ Lock(s) \/ Edit(s) \/ LimitTo(s) \/ OffsetTo(s)
    \/ /\ Answered \/ \E s \in Stmts : kind[s] # "none" /\ Run(s)
       /\ Sent
       /\ UNCHANGED <<kind, content>>

StatementsSpec == StatementsInit /\ [][StatementsNext]_<<vars, contentVars>>

-----------------------------------------------------------------------------

\* An execution does what the statement said when execute() was called: with
\* its values, LIMIT and OFFSET of that time, whether it goes as one message
\* or as a prepared statement and its arguments.  If a placeholder is not
\* bound, or cannot be, it does so or is refused.
RunsWhatWasSaid ==
    \A r \in ran :
        \/ r.does = r.asked.does
        \/ ~r.asked.complete /\ r.does = X!Refused

\* A statement that is ready to be executed is on the server as it would be
\* prepared now: nothing but values has changed since.
UpToDate ==
    \A s \in Stmts \ Careless :
        stage[s] = "TO_EXECUTE" =>
            LET now == X!OneOfMessage(Statement(s))
            IN  onServer[statementId[s]] = now[OneOf[now.type]]
=============================================================================
