------------------------------ MODULE Preparing ------------------------------
(***************************************************************************)
(* Autonomous prepared statements: lib/DevAPI/Preparing.js, the stage kept   *)
(* by Limiting.js and Skipping.js, the statement ids of Connection.js and    *)
(* the arguments of Prepare.Execute.                                         *)
(*                                                                           *)
(* The statements share a connection, so their requests are answered in      *)
(* order; the server is external and handles a request and the client its    *)
(* reply, with the continuations of its promise, in one step.  Only the      *)
(* order in which several statements send their next requests could tell     *)
(* the difference, when one fragment carries the replies to both.            *)
(* An execution under way has exactly one request in the pipeline.           *)
(***************************************************************************)
EXTENDS Integers, Sequences, FiniteSets

CONSTANTS
    Stmts,         \* CRUD statements that can be prepared
    WithOffset,    \* those that have an offset() (find and select)
    MaxChanges,    \* bound on the changes of scope of a statement
    MaxIds,        \* bound on the statement ids
    MaxInFlight,   \* bound on the requests in the pipeline
    MaxPrepared,   \* max_prepared_stmt_count
    Failing,       \* the server may refuse a request for its own reasons
    Careless       \* statements whose executions may overlap, and whose LIMIT
                   \* may first be touched by offset() or a limit() that throws

ASSUME PreparingAssumption ==
    /\ WithOffset \subseteq Stmts /\ Careless \subseteq Stmts
    /\ MaxChanges \in Nat /\ MaxIds \in Nat /\ MaxInFlight \in Nat /\ MaxPrepared \in Nat
    /\ Failing \in BOOLEAN

VARIABLES
    supported,           \* the server has prepared statements
    stage, statementId,  \* of each statement
    limitStage,          \* Limiting: whether the next limit() prepares again
    scope,               \* what prepare() sends: version, count, offset
    statements,          \* the ids the connection takes for prepared
    canPrepareStatements,
    pipeline,            \* requests the server has not answered
    prepared,            \* the server: statement and scope of each id
    misused,             \* history: statements and mistakes the server complained of
    refused              \* the server said it has no prepared statements

stmtVars == <<stage, statementId, limitStage, scope>>
connectionVars == <<statements, canPrepareStatements, pipeline>>
serverVars == <<supported, prepared, misused, refused>>
vars == <<stmtVars, connectionVars, serverVars>>

Stages == {"TO_START", "TO_PREPARE", "TO_EXECUTE", "TO_REPREPARE", "TO_RESTART", "TO_SKIP"}
Ids == 1 .. MaxIds
Scopes == [version : 0 .. MaxChanges, count : BOOLEAN, offset : BOOLEAN]
Prepared == [stmt : Stmts, scope : Scopes]

\* The stages of a statement that has one on the server, ready or outdated.
Holds(s) == stage[s] \in {"TO_EXECUTE", "TO_REPREPARE", "TO_RESTART"}

TypeOK ==
    /\ supported \in BOOLEAN
    /\ stage \in [Stmts -> Stages]
    /\ statementId \in [Stmts -> 0 .. MaxIds]
    /\ limitStage \in [Stmts -> {"TO_PREPARE", "TO_NOT_PREPARE"}]
    /\ scope \in [Stmts -> Scopes]
    /\ statements \subseteq Ids
    /\ canPrepareStatements \in BOOLEAN
    /\ \A i \in DOMAIN pipeline : pipeline[i].id \in 0 .. MaxIds
    /\ DOMAIN prepared \subseteq Ids
    /\ misused \subseteq Stmts \X {"unknown id", "arguments", "stale"}
    /\ refused \in BOOLEAN
    \* what is prepared, or about to be, has an id
    /\ \A s \in Stmts : Holds(s) => statementId[s] # 0

Init ==
    /\ supported \in BOOLEAN
    /\ stage = [s \in Stmts |-> "TO_START"]
    /\ statementId = [s \in Stmts |-> 0]
    /\ limitStage = [s \in Stmts |-> "TO_PREPARE"]
    /\ scope = [s \in Stmts |-> [version |-> 0, count |-> FALSE, offset |-> FALSE]]
    /\ statements = {}
    /\ canPrepareStatements = TRUE
    /\ pipeline = <<>>
    /\ prepared = <<>>
    /\ misused = {}
    /\ refused = FALSE

\* No execution of the statement is under way; the application changes it
\* only then.
Idle(s) == \A i \in DOMAIN pipeline : pipeline[i].stmt # s

-----------------------------------------------------------------------------
(* Changes of a statement.                                                  *)

\* forceRestart()
Restarted(st) == IF st = "TO_EXECUTE" THEN "TO_RESTART" ELSE "TO_START"

\* (whatever the stage)
ReprepareMutant(st) == "TO_REPREPARE"

\* forceReprepare()
Reprepared(st) == IF st = "TO_EXECUTE" THEN "TO_REPREPARE" ELSE st

\* fields(), sort(), groupBy(), having(), set(), lockShared() and the like.
Change(s) ==
    /\ Idle(s)
    /\ scope[s].version < MaxChanges
    /\ scope' = [scope EXCEPT ![s].version = @ + 1]
    /\ stage' = [stage EXCEPT ![s] = Restarted(@)]
    /\ UNCHANGED <<statementId, limitStage, connectionVars, serverVars>>

\* (a limit is a value like any other)
ResetStageMutant(s) == UNCHANGED <<stage, limitStage>>

\* resetStage()
ResetStage(s) ==
    IF limitStage[s] = "TO_PREPARE"
    THEN /\ stage' = [stage EXCEPT ![s] = Reprepared(@)]
         /\ limitStage' = [limitStage EXCEPT ![s] = "TO_NOT_PREPARE"]
    ELSE UNCHANGED <<stage, limitStage>>

\* limit() defines the offset as well, where there is one.
Limit(s) ==
    /\ Idle(s)
    /\ ResetStage(s)
    /\ scope' = [scope EXCEPT ![s] =
                   [version |-> @.version, count |-> TRUE,
                    offset |-> IF s \in WithOffset THEN TRUE ELSE @.offset]]
    /\ UNCHANGED <<statementId, connectionVars, serverVars>>

\* limit() checks its value only after it has reset the stage.
LimitThrows(s) ==
    /\ s \in Careless
    /\ Idle(s)
    /\ ResetStage(s)
    /\ UNCHANGED <<statementId, scope, connectionVars, serverVars>>

Offset(s) ==
    /\ s \in WithOffset
    /\ s \in Careless \/ scope[s].count
    /\ Idle(s)
    /\ ResetStage(s)
    /\ scope' = [scope EXCEPT ![s].offset = TRUE]
    /\ UNCHANGED <<statementId, connectionVars, serverVars>>

-----------------------------------------------------------------------------
(* Requests.                                                                *)

\* LIMIT ? and OFFSET ?; without a count there is neither.
Placeholders(sc) == IF ~sc.count THEN 0 ELSE IF sc.offset THEN 2 ELSE 1

\* (the id after the highest one, as if statements were only added)
LowestMutant(ids) == Cardinality(ids) + 1

\* allocate(): the first hole in the list of ids.
Lowest(ids) == CHOOSE i \in 1 .. MaxIds + 1 : i \notin ids /\ \A j \in 1 .. i - 1 : j \in ids

Request(type, s, id) == [type |-> type, stmt |-> s, id |-> id, scope |-> scope[s]]

\* execute(): the next request of an execution in a stage, after "requests",
\* with the ids of the connection.
Proceed(s, st, requests, ids) ==
    \/ /\ st \in {"TO_RESTART", "TO_REPREPARE"}
       /\ pipeline' = Append(requests, Request("deallocate", s, statementId[s]))
       /\ statements' = ids
       /\ UNCHANGED statementId
    \/ /\ st = "TO_PREPARE"
       /\ Lowest(ids) <= MaxIds
       /\ statements' = ids \cup {Lowest(ids)}
       /\ statementId' = [statementId EXCEPT ![s] = Lowest(ids)]
       /\ pipeline' = Append(requests, Request("prepare", s, Lowest(ids)))
    \/ /\ st = "TO_EXECUTE"
       /\ pipeline' = Append(requests, Request("execute", s, statementId[s]))
       /\ statements' = ids
       /\ UNCHANGED statementId
    \/ /\ st \in {"TO_START", "TO_SKIP"}
       /\ pipeline' = Append(requests, Request("plain", s, 0))
       /\ statements' = ids
       /\ UNCHANGED statementId

Execute(s) ==
    /\ s \in Careless \/ Idle(s)
    /\ Len(pipeline) < MaxInFlight
    /\ Proceed(s, stage[s], pipeline, statements)
    /\ UNCHANGED <<stage, limitStage, scope, canPrepareStatements, serverVars>>

-----------------------------------------------------------------------------
(* Replies.                                                                 *)

Answering(type) == pipeline # <<>> /\ Head(pipeline).type = type
R == Head(pipeline)

\* The execution ends with a result or an error.
End == pipeline' = Tail(pipeline)

\* executePlain()
PlainDone ==
    /\ Answering("plain")
    /\ \/ stage' = [stage EXCEPT ![R.stmt] = IF @ = "TO_SKIP" THEN @ ELSE "TO_PREPARE"]
       \/ Failing /\ UNCHANGED stage
    /\ End
    /\ UNCHANGED <<statementId, limitStage, scope, statements, canPrepareStatements, serverVars>>

\* fn() in handlePrepareError(): the same request, but nobody sets the stage.
FallbackDone ==
    /\ Answering("fallback")
    /\ End
    /\ UNCHANGED <<stmtVars, statements, canPrepareStatements, serverVars>>

\* Node: a new prepared statement replaces the one with its id, if any.
PreparedWith(id, entry) ==
    [i \in DOMAIN prepared \cup {id} |-> IF i = id THEN entry ELSE prepared[i]]

PrepareDone ==
    /\ Answering("prepare")
    /\ supported /\ Cardinality(DOMAIN prepared) < MaxPrepared
    /\ prepared' = PreparedWith(R.id, [stmt |-> R.stmt, scope |-> R.scope])
    /\ stage' = [stage EXCEPT ![R.stmt] = "TO_EXECUTE"]
    /\ Proceed(R.stmt, "TO_EXECUTE", Tail(pipeline), statements)
    /\ UNCHANGED <<limitStage, scope, canPrepareStatements, misused, refused, supported>>

\* handlePrepareError(): go on without, when the server cannot prepare.
PrepareRefused ==
    /\ Answering("prepare")
    /\ ~supported \/ Cardinality(DOMAIN prepared) >= MaxPrepared
    /\ canPrepareStatements' = FALSE
    /\ stage' = [stage EXCEPT ![R.stmt] = "TO_SKIP"]
    /\ pipeline' = Append(Tail(pipeline), Request("fallback", R.stmt, 0))
    /\ refused' = (refused \/ ~supported)
    /\ UNCHANGED <<statementId, limitStage, scope, statements, prepared, misused, supported>>

\* Any other error is the application's.
PrepareFails ==
    /\ Answering("prepare")
    /\ Failing /\ supported
    /\ End
    /\ UNCHANGED <<stmtVars, statements, canPrepareStatements, serverVars>>

\* The server looks the statement up and counts the arguments.
Mistakes ==
    IF R.id \notin DOMAIN prepared THEN {"unknown id"}
    ELSE LET found == prepared[R.id]
         IN  {m \in {"arguments", "stale"} :
                \/ m = "arguments" /\ Placeholders(found.scope) # Placeholders(R.scope)
                \/ m = "stale" /\ (found.stmt # R.stmt \/ found.scope.version # R.scope.version)}

Complain(mistakes) == misused' = misused \cup {R.stmt} \X mistakes

ExecuteDone ==
    /\ Answering("execute")
    /\ Complain(Mistakes)
    /\ End
    /\ UNCHANGED <<stmtVars, statements, canPrepareStatements, prepared, refused, supported>>

\* The server without the statement.
Dropped(id) == [i \in DOMAIN prepared \ {id} |-> prepared[i]]

\* (the stage is left as it was)
AfterDeallocateMutant(st) == IF st = "TO_RESTART" THEN "TO_START" ELSE st

AfterDeallocate(st) ==
    CASE st = "TO_RESTART" -> "TO_START"
      [] st = "TO_REPREPARE" -> "TO_PREPARE"
      [] OTHER -> st

\* removePreparedStatement()
RemoveId(id) == statements \ {id}

\* deallocate() and the execution again.
DeallocateDone ==
    /\ Answering("deallocate")
    /\ R.id \in DOMAIN prepared
    /\ prepared' = Dropped(R.id)
    /\ stage' = [stage EXCEPT ![R.stmt] = AfterDeallocate(@)]
    /\ Proceed(R.stmt, AfterDeallocate(stage[R.stmt]), Tail(pipeline),
               RemoveId(statementId[R.stmt]))
    /\ UNCHANGED <<limitStage, scope, canPrepareStatements, misused, refused, supported>>

DeallocateFails ==
    /\ Answering("deallocate")
    /\ Failing \/ R.id \notin DOMAIN prepared
    /\ Complain(IF R.id \in DOMAIN prepared THEN {} ELSE {"unknown id"})
    /\ End
    /\ UNCHANGED <<stmtVars, statements, canPrepareStatements, prepared, refused, supported>>

-----------------------------------------------------------------------------

Use(s) == Change(s) \/ Limit(s) \/ LimitThrows(s) \/ Offset(s) \/ Execute(s)
Answer ==
    \/ PlainDone \/ FallbackDone
    \/ PrepareDone \/ PrepareRefused \/ PrepareFails
    \/ ExecuteDone \/ DeallocateDone \/ DeallocateFails

Next == (\E s \in Stmts : Use(s)) \/ Answer

Spec == Init /\ [][Next]_vars

-----------------------------------------------------------------------------
(* Properties.                                                              *)

\* The server never gets, from a statement that is used with care, an id it
\* does not know, a number of arguments that is not the number of
\* placeholders, or an execution of what has changed since it was prepared;
\* however the other statements of the connection are used.
NeverMisused == \A m \in misused : m[1] \in Careless

\* Such a statement, when it is to be executed or deallocated, is prepared
\* under its own id.
OwnPrepared ==
    \A s \in Stmts \ Careless :
        Holds(s) => /\ statementId[s] \in DOMAIN prepared
                    /\ prepared[statementId[s]].stmt = s

\* However executions of one statement race, none reaches the server with the
\* id of another statement.
NeverForeign ==
    /\ pipeline # <<>>
    /\ R.type \in {"execute", "deallocate"}
    /\ R.id \in DOMAIN prepared
    => prepared[R.id].stmt = R.stmt

\* The ids of statements are never taken for one another.
OwnStatements == OwnPrepared /\ NeverForeign

\* Nor is a statement on the server replaced by one that is given its id.
NeverReplaced ==
    [][\A id \in DOMAIN prepared \cap DOMAIN prepared' : prepared'[id] = prepared[id]]_vars

\* What the server has prepared is still known to a statement, which will
\* execute or deallocate it.
NothingOrphaned ==
    \A id \in DOMAIN prepared : \E s \in Stmts : Holds(s) /\ statementId[s] = id

\* Two more promises of the documentation that the code does not keep.  The
\* list of the connection is the list of the statements on the server, but for
\* those on their way: not once the server has refused a prepare.
ListAgrees ==
    statements = DOMAIN prepared \cup
        {pipeline[i].id : i \in {j \in DOMAIN pipeline : pipeline[j].type = "prepare"}}

\* A server that cannot prepare is not asked again: another statement does.
NotAskedAgain ==
    [][refused => \A i \in DOMAIN pipeline' :
          pipeline'[i].type = "prepare" => i \in DOMAIN pipeline]_vars
=============================================================================
