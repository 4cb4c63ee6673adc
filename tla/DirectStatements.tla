-------------------------- MODULE DirectStatements --------------------------
(***************************************************************************)
(* Statements that are never prepared: CollectionAdd and TableInsert, which  *)
(* become a Crud.Insert, and SqlExecute with its Statement, which becomes a *)
(* Sql.StmtExecute.                                                         *)
(***************************************************************************)
EXTENDS Plugin

DW == INSTANCE Wire

CONSTANTS
    Documents,  \* what add() may be given: values and expressions
    Cells,      \* what values() may be given
    SqlValues,  \* what bind() may be given
    MaxGiven    \* bound on the rows or arguments of a statement

VARIABLES
    shape,      \* "add", "insert" or "sql"
    rows,       \* of a CollectionAdd or TableInsert
    args,       \* of a Statement
    isFrozen,
    call,       \* the execution under way: its message and what it is to say
    fresh,      \* history: the arguments bound since execute() was last called
    before,     \* history: those it was last called with
    failed,     \* history: an execution has failed
    done        \* the execution that has just ended: what was asked, what it did

directVars == <<shape, rows, args, isFrozen, call, fresh, before, failed, done>>

DirectInit ==
    /\ shape \in {"add", "insert", "sql"}
    /\ rows = <<>> /\ args = <<>> /\ isFrozen = FALSE
    /\ call = <<>>
    /\ fresh = <<>> /\ before = <<>> /\ failed = FALSE /\ done = {}

-----------------------------------------------------------------------------

Push(row) ==
    /\ Len(rows) < MaxGiven
    /\ call = <<>>
    /\ rows' = Append(rows, row)
    /\ done' = {}
    /\ UNCHANGED <<shape, args, isFrozen, call, fresh, before, failed>>

\* add() of a document, as an object, as JSON, or as an expression.
Add == shape = "add" /\ \E doc \in Documents : Push(<<doc>>)

\* values() of a row.
InsertValues == shape = "insert" /\ \E a, b \in Cells : Push(<<a, b>>)

\* (what was executed is not told from what was not)
addArgsMutant(frozen, old, new) == old \o new

\* addArgs(): new arguments replace those of a statement that has been executed.
addArgs(frozen, old, new) == IF frozen THEN new ELSE old \o new

BindArgs ==
    /\ shape = "sql"
    /\ call = <<>>
    /\ Len(args) < MaxGiven \/ isFrozen
    /\ \E value \in SqlValues :
          /\ args' = addArgs(isFrozen, args, <<value>>)
          /\ fresh' = Append(fresh, value)
    /\ isFrozen' = FALSE
    /\ done' = {}
    /\ UNCHANGED <<shape, rows, call, before, failed>>

-----------------------------------------------------------------------------

InsertMessage ==
    Insert([tableName |-> "name", schemaName |-> "schema", upsert |-> FALSE, rows |-> rows,
            category |-> IF shape = "insert" THEN "TABLE" ELSE "DOCUMENT",
            columns |-> IF shape = "insert" THEN <<"c", "d">> ELSE <<>>])

SqlMessage == StmtExecute([namespace |-> "sql", raw |-> "?", args |-> args])

\* The arguments of an execution: those bound for it or, if there are none,
\* those it had the last time.
ThisTime == IF fresh # <<>> THEN fresh ELSE before

\* execute(); an add() of no documents is done without a request.
Execution ==
    /\ call = <<>>
    /\ shape = "add" => rows # <<>>
    /\ \E type \in {IF shape = "sql" THEN "SqlStmtExecute" ELSE "CrudInsert"} :
          \E message \in {IF shape = "sql" THEN SqlMessage ELSE InsertMessage} :
             call' = <<[type |-> type, wire |-> DW!Serialize(type, message, <<>>),
                        asked |-> IF shape = "sql" THEN <<Each(ValueSaid, ThisTime)>>
                                  ELSE Each(LAMBDA row : Each(InsertedSaid, row), rows)]>>
    /\ before' = ThisTime
    /\ fresh' = <<>>
    /\ done' = {}
    /\ UNCHANGED <<shape, rows, args, isFrozen, failed>>

\* The rows that are inserted; the arguments of the SQL.
MessageRead(type, msg) ==
    IF type = "SqlStmtExecute" THEN <<PreparedArgs(msg)>>
    ELSE Each(LAMBDA row : Each(LAMBDA e : ExprRead(e, <<>>), Elements(row, "field")),
              Elements(msg, "row"))

\* freeze(), once there is a result.
ExecutionDone ==
    /\ call # <<>>
    /\ done' = {[asked |-> call[1].asked,
                 did |-> MessageRead(call[1].type, DW!Deserialize(call[1].type, call[1].wire))]}
    /\ isFrozen' = (shape = "sql")
    /\ call' = <<>>
    /\ UNCHANGED <<shape, rows, args, fresh, before, failed>>

ExecutionFails ==
    /\ call # <<>>
    /\ failed' = TRUE
    /\ call' = <<>>
    /\ done' = {}
    /\ UNCHANGED <<shape, rows, args, isFrozen, fresh, before>>

DirectNext ==
    Add \/ InsertValues \/ BindArgs \/ Execution \/ ExecutionDone \/ ExecutionFails

DirectSpec == DirectInit /\ [][DirectNext]_directVars

-----------------------------------------------------------------------------

\* The documents and rows of a statement are inserted as they were given, all
\* that were and in their order; and an SQL statement that is executed again
\* has the arguments bound for that execution, not those of the ones before
\* unless there are no others.  An execution that failed is left to
\* BoundAnew.
SentAsGiven == \A d \in done : (shape = "sql" /\ failed) \/ d.did = d.asked

\* The promise that the code does not keep after a failure: Statement.js:65,
\* "If the statement is not frozen, it means it has not been executed".
BoundAnew == \A d \in done : d.did = d.asked
=============================================================================
