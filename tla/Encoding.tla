------------------------------ MODULE Encoding ------------------------------
(***************************************************************************)
(* The messages a statement becomes: the wrappers of Messages/Expr,          *)
(* Messages/Crud, Messages/Prepare and Messages/Sql.                        *)
(*                                                                          *)
(* A message is a record of the fields that are set.  What a wrapper may    *)
(* not have (valueOf() is undefined) is a sequence of none or one.  An      *)
(* expression comes from the parser as a tuple that begins with its type.   *)
(***************************************************************************)
EXTENDS Literals, SequencesExt

\* A field that is set if there is a value, or if there are elements.
If(name, found) == IF found = <<>> THEN <<>> ELSE name :> found[1]
List(name, elements) == IF elements = <<>> THEN <<>> ELSE name :> elements
Copied(name, from, key) == IF key \in DOMAIN from THEN name :> from[key] ELSE <<>>

-----------------------------------------------------------------------------
(* Expr.                                                                    *)

PathTypes ==
    ("member" :> "MEMBER") @@ ("memberAsterisk" :> "MEMBER_ASTERISK")
    @@ ("arrayIndex" :> "ARRAY_INDEX") @@ ("arrayIndexAsterisk" :> "ARRAY_INDEX_ASTERISK")
    @@ ("doubleAsterisk" :> "DOUBLE_ASTERISK")

DocumentPathItem(item) ==
    ("type" :> PathTypes[item.type])
    @@ CASE item.type = "member" -> ("value" :> item.value)
         [] item.type = "arrayIndex" -> ("index" :> item.value)
         [] OTHER -> <<>>

ColumnIdentifier(id) ==
    List("document_path", [i \in DOMAIN id.documentPath |-> DocumentPathItem(id.documentPath[i])])
    @@ Copied("name", id, "name") @@ Copied("table_name", id, "table")
    @@ Copied("schema_name", id, "schema")

Identifier(id) == Copied("name", id, "name") @@ Copied("schema_name", id, "schema")

Operators ==
    {"castOp", "unaryOp", "intervalExpr", "mulDivExpr", "addSubExpr", "shiftExpr",
     "bitExpr", "compExpr", "ilriExpr", "andExpr", "orExpr"}

\* (positions from one)
indexOfMutant(placeholders, name) == SelectInSeq(placeholders, LAMBDA p : p = name)

\* -1 where there is no such name.
indexOf(placeholders, name) == SelectInSeq(placeholders, LAMBDA p : p = name) - 1

Literal(scalar) == [type |-> "LITERAL", literal |-> scalar]
Placeholder(position) == [type |-> "PLACEHOLDER", position |-> position]

RECURSIVE FromLiteral(_)
\* A value; there is nothing for one that is undefined.
FromLiteral(value) ==
    LET scalar == ScalarOf(value, FALSE)
        Fields(pairs) ==
            FlattenSeq([i \in DOMAIN pairs |->
                LET found == FromLiteral(pairs[i][2])
                IN  IF found = <<>> THEN <<>> ELSE <<[key |-> pairs[i][1], value |-> found[1]]>>])
    IN  IF DOMAIN scalar # {} THEN <<Literal(scalar)>>
        ELSE CASE value[1] = "array" ->
                    <<[type |-> "ARRAY",
                       array |-> List("value", [i \in DOMAIN value[2] |->
                                                   FromLiteral(value[2][i])[1]])]>>
               [] value[1] = "object" -> <<[type |-> "OBJECT", object |-> List("fld", Fields(value[2]))]>>
               [] OTHER -> <<>>

RECURSIVE FromExpression(_, _)
\* What the parser made of a string; of nothing there is nothing.
FromExpression(expr, placeholders) ==
    LET One(e) == FromExpression(e, placeholders)[1]
        All(es) == [i \in DOMAIN es |-> One(es[i])]
    IN  CASE expr[1] \in {"columnIdent", "documentField"} ->
                <<[type |-> "IDENT", identifier |-> ColumnIdentifier(expr[2])]>>
          [] expr[1] = "literal" -> <<Literal(ScalarOf(expr[2], FALSE))>>
          [] expr[1] \in {"castType", "intervalUnit"} -> <<Literal(ScalarOf(expr[2], TRUE))>>
          [] expr[1] = "functionCall" ->
                <<[type |-> "FUNC_CALL",
                   function_call |-> ("name" :> Identifier(expr[2].name))
                                     @@ List("param", All(expr[2].params))]>>
          [] expr[1] \in Operators ->
                <<[type |-> "OPERATOR",
                   operator |-> ("name" :> expr[2].name) @@ List("param", All(expr[2].params))]>>
          [] expr[1] = "placeholder" -> <<Placeholder(indexOf(placeholders, expr[2]))>>
          [] expr[1] = "jsonDoc" ->
                <<[type |-> "OBJECT",
                   object |-> List("fld", [i \in DOMAIN expr[2] |->
                                  [key |-> expr[2][i][1], value |-> One(expr[2][i][2])]])]>>
          [] expr[1] = "jsonArray" -> <<[type |-> "ARRAY", array |-> List("value", All(expr[2]))]>>
          [] OTHER -> <<>>

\* Expr.create()
Expr(of, placeholders) ==
    IF of.isLiteral THEN FromLiteral(of.value) ELSE FromExpression(of.value, placeholders)

Nowhere == <<>>  \* no placeholders are known

-----------------------------------------------------------------------------
(* Crud.  A statement is the record of what its get..._() functions answer. *)

Collection(st) == [name |-> st.tableName, schema |-> st.schemaName]

Order(rule) ==
    ("expr" :> FromExpression(rule.expr, Nowhere)[1])
    @@ ("direction" :> IF "direction" \in DOMAIN rule THEN rule.direction ELSE "ASC")

Projection(column) ==
    ("source" :> FromExpression(column.source, Nowhere)[1]) @@ Copied("alias", column, "alias")

UpdateOperation(op) ==
    ("source" :> ColumnIdentifier(op.source)) @@ ("operation" :> op.type)
    @@ IF "value" \in DOMAIN op THEN If("value", Expr(op, Nowhere)) ELSE <<>>

TypedRow(columns) ==
    List("field", FlattenSeq([i \in DOMAIN columns |-> Expr(columns[i], Nowhere)]))

\* The count and the offset are sequences of none or one.
Limit(count, offset) ==
    IF count = <<>> THEN <<>> ELSE <<("row_count" :> count[1]) @@ If("offset", offset)>>

\* (one argument tells both)
LimitExprMutant(count, offset, position) ==
    IF count = <<>> THEN <<>>
    ELSE <<("row_count" :> Placeholder(position))
           @@ IF offset = <<>> THEN <<>> ELSE ("offset" :> Placeholder(position))>>

LimitExpr(count, offset, position) ==
    IF count = <<>> THEN <<>>
    ELSE <<("row_count" :> Placeholder(position))
           @@ IF offset = <<>> THEN <<>> ELSE ("offset" :> Placeholder(position + 1))>>

\* The values of the placeholders, with nothing for arrays and objects.
ScalarArgs(values) ==
    SelectSeq([i \in DOMAIN values |-> ScalarOf(values[i], FALSE)], LAMBDA s : DOMAIN s # {})

\* What a find, an update and a delete have in common: those that are to be
\* prepared leave the values out.
Scoped(st, toPrepare, offset) ==
    ("collection" :> Collection(st)) @@ ("data_model" :> st.category)
    @@ If("criteria", FromExpression(st.criteria, st.placeholders))
    @@ (IF toPrepare
        THEN If("limit_expr", LimitExpr(st.count, offset, Len(st.placeholders)))
        ELSE List("args", ScalarArgs(st.values)) @@ If("limit", Limit(st.count, offset)))
    @@ List("order", [i \in DOMAIN st.orderList |-> Order(st.orderList[i])])

Find(st, toPrepare) ==
    Scoped(st, toPrepare, st.offset)
    @@ List("projection", [i \in DOMAIN st.projectionList |-> Projection(st.projectionList[i])])
    @@ List("grouping", [i \in DOMAIN st.groupingList |->
                            FromExpression(st.groupingList[i], Nowhere)[1]])
    @@ If("grouping_criteria", FromExpression(st.groupingCriteria, Nowhere))
    @@ ("locking" :> st.lock) @@ ("locking_options" :> st.mode)

Update(st, toPrepare) ==
    Scoped(st, toPrepare, <<>>)
    @@ List("operation", [i \in DOMAIN st.operationList |-> UpdateOperation(st.operationList[i])])

Delete(st, toPrepare) == Scoped(st, toPrepare, <<>>)

Insert(st) ==
    ("collection" :> Collection(st)) @@ ("data_model" :> st.category)
    @@ List("projection", [i \in DOMAIN st.columns |-> [name |-> st.columns[i]]])
    @@ List("row", [i \in DOMAIN st.rows |-> TypedRow(st.rows[i])])
    @@ ("upsert" :> st.upsert)

-----------------------------------------------------------------------------
(* Prepare and Sql.                                                         *)

OneOfMessage(st) ==
    CASE st.type = "FIND" -> [type |-> "FIND", find |-> Find(st, TRUE)]
      [] st.type = "UPDATE" -> [type |-> "UPDATE", update |-> Update(st, TRUE)]
      [] st.type = "DELETE" -> [type |-> "DELETE", delete |-> Delete(st, TRUE)]

Prepare(st, id) == [stmt_id |-> id, stmt |-> OneOfMessage(st)]

\* (the count goes first)
ExecuteMutant(st, id) ==
    ("stmt_id" :> id)
    @@ List("args",
            [i \in DOMAIN (st.count \o st.offset) |-> AnyOf(Integer((st.count \o st.offset)[i]))]
            \o [i \in DOMAIN st.values |-> AnyOf(st.values[i])])

\* The values of the placeholders, the count and, only then, the offset of a
\* statement that has one.
Execute(st, id) ==
    LET limits == IF st.count = <<>> THEN <<>> ELSE st.count \o st.offset
    IN  ("stmt_id" :> id)
        @@ List("args", [i \in DOMAIN st.values |-> AnyOf(st.values[i])]
                        \o [i \in DOMAIN limits |-> AnyOf(Integer(limits[i]))])

Deallocate(id) == [stmt_id |-> id]

StmtExecute(st) ==
    ("namespace" :> st.namespace) @@ ("stmt" :> st.raw)
    @@ List("args", [i \in DOMAIN st.args |-> AnyOf(st.args[i])])
=============================================================================
