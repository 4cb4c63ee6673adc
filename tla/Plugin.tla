------------------------------- MODULE Plugin -------------------------------
(***************************************************************************)
(* What a statement means, twice: as the application said it, from the       *)
(* contents of the statement, and as X Plugin (external) understands the    *)
(* messages it gets.                                                        *)
(***************************************************************************)
EXTENDS Encoding

\* A field of a message, with nothing for one that is not set.
Elements(msg, name) == IF name \in DOMAIN msg THEN msg[name] ELSE <<>>
Found(msg, name) == IF name \in DOMAIN msg THEN <<msg[name]>> ELSE <<>>

Each(Op(_), elements) == [i \in DOMAIN elements |-> Op(elements[i])]

-----------------------------------------------------------------------------
(* As the application said it.                                              *)

RECURSIVE ValueSaid(_)
\* A value, with nothing for the fields of an object that are undefined.
ValueSaid(value) ==
    CASE value[1] = "array" -> <<"array", Each(ValueSaid, value[2])>>
      [] value[1] = "object" ->
            LET defined == SelectSeq(value[2], LAMBDA pair : pair[2][1] # "undefined")
            IN  <<"object", Each(LAMBDA pair : <<pair[1], ValueSaid(pair[2])>>, defined)>>
      [] OTHER -> Meaning(value)

RECURSIVE ExprSaid(_, _)
\* An expression, with the values that are assigned to names.
ExprSaid(expr, assigned) ==
    LET Said(e) == ExprSaid(e, assigned)
    IN  CASE expr[1] \in {"columnIdent", "documentField"} -> <<"ident", expr[2]>>
          [] expr[1] = "literal" -> ValueSaid(expr[2])
          [] expr[1] \in {"castType", "intervalUnit"} -> <<"buffer", expr[2][2]>>
          [] expr[1] = "functionCall" -> <<"call", expr[2].name, Each(Said, expr[2].params)>>
          [] expr[1] \in Operators -> <<"operator", expr[2].name, Each(Said, expr[2].params)>>
          [] expr[1] = "placeholder" ->
                IF expr[2] \in DOMAIN assigned THEN ValueSaid(assigned[expr[2]]) ELSE <<"unbound">>
          [] expr[1] = "jsonDoc" ->
                <<"object", Each(LAMBDA pair : <<pair[1], Said(pair[2])>>, expr[2])>>
          [] expr[1] = "jsonArray" -> <<"array", Each(Said, expr[2])>>

RECURSIVE NamesIn(_)
\* The placeholders of an expression.
NamesIn(expr) ==
    LET parts == CASE expr[1] = "functionCall" \/ expr[1] \in Operators -> expr[2].params
                   [] expr[1] = "jsonDoc" -> Each(LAMBDA pair : pair[2], expr[2])
                   [] expr[1] = "jsonArray" -> expr[2]
                   [] OTHER -> <<>>
    IN  IF expr[1] = "placeholder" THEN {expr[2]}
        ELSE UNION {NamesIn(parts[i]) : i \in DOMAIN parts}

\* None or one of them.
OneSaid(expr, assigned) == IF expr[1] = "none" THEN <<>> ELSE <<ExprSaid(expr, assigned)>>

InsertedSaid(of) == IF of.isLiteral THEN ValueSaid(of.value) ELSE ExprSaid(of.value, <<>>)

-----------------------------------------------------------------------------
(* As X Plugin understands it.                                              *)

Path(items) ==
    Each(LAMBDA item :
            ("type" :> CHOOSE t \in DOMAIN PathTypes : PathTypes[t] = item.type)
            @@ If("value", Found(item, "value") \o Found(item, "index")), items)

Ident(msg) ==
    ("documentPath" :> Path(Elements(msg, "document_path")))
    @@ Copied("name", msg, "name") @@ Copied("table", msg, "table_name")
    @@ Copied("schema", msg, "schema_name")

Function(msg) == Copied("name", msg, "name") @@ Copied("schema", msg, "schema_name")

RECURSIVE ExprRead(_, _)
\* An expression, with the values of the arguments.
ExprRead(expr, args) ==
    LET Read(e) == ExprRead(e, args)
    IN  CASE expr.type = "IDENT" -> <<"ident", Ident(expr.identifier)>>
          [] expr.type = "LITERAL" -> Meaning(ScalarLiteral(expr.literal))
          [] expr.type = "FUNC_CALL" ->
                <<"call", Function(expr.function_call.name),
                  Each(Read, Elements(expr.function_call, "param"))>>
          [] expr.type = "OPERATOR" ->
                <<"operator", expr.operator.name, Each(Read, Elements(expr.operator, "param"))>>
          [] expr.type = "PLACEHOLDER" -> args[expr.position + 1]
          [] expr.type = "OBJECT" ->
                <<"object", Each(LAMBDA field : <<field.key, Read(field.value)>>,
                                 Elements(expr.object, "fld"))>>
          [] expr.type = "ARRAY" -> <<"array", Each(Read, Elements(expr.array, "value"))>>

RECURSIVE References(_)
\* The arguments an expression refers to.
References(expr) ==
    LET Parts ==
            CASE expr.type = "FUNC_CALL" -> Elements(expr.function_call, "param")
              [] expr.type = "OPERATOR" -> Elements(expr.operator, "param")
              [] expr.type = "OBJECT" ->
                    Each(LAMBDA field : field.value, Elements(expr.object, "fld"))
              [] expr.type = "ARRAY" -> Elements(expr.array, "value")
              [] OTHER -> <<>>
    IN  IF expr.type = "PLACEHOLDER" THEN {expr.position}
        ELSE UNION {References(Parts[i]) : i \in DOMAIN Parts}

\* All expressions of a find, an update or a delete.
Expressions(msg) ==
    LET limit == Found(msg, "limit_expr")
    IN  ToSet(Found(msg, "criteria") \o Found(msg, "grouping_criteria") \o Elements(msg, "grouping")
              \o Each(LAMBDA rule : rule.expr, Elements(msg, "order"))
              \o Each(LAMBDA column : column.source, Elements(msg, "projection"))
              \o FlattenSeq(Each(LAMBDA op : Found(op, "value"), Elements(msg, "operation")))
              \o (IF limit = <<>> THEN <<>>
                  ELSE <<limit[1].row_count>> \o Found(limit[1], "offset")))

Refused == [refused |-> TRUE]

\* What it does for a find, an update or a delete with its arguments; an
\* argument no placeholder refers to does no harm.
StatementRead(msg, args) ==
    LET One(name) == Each(LAMBDA e : ExprRead(e, args), Found(msg, name))
        Number(n) == <<"hundredths", 100 * n>>
        limit == Found(msg, "limit")
        limitExpr == Found(msg, "limit_expr")
    IN  IF ~UNION {References(e) : e \in Expressions(msg)} \subseteq 0 .. Len(args) - 1 THEN Refused
        ELSE [collection |-> <<msg.collection.schema, msg.collection.name, msg.data_model>>,
              criteria |-> One("criteria"),
              limit |->
                  IF limit # <<>>
                  THEN Each(Number, <<limit[1].row_count>> \o Found(limit[1], "offset"))
                  ELSE IF limitExpr # <<>>
                  THEN Each(LAMBDA e : ExprRead(e, args),
                            <<limitExpr[1].row_count>> \o Found(limitExpr[1], "offset"))
                  ELSE <<>>,
              order |-> Each(LAMBDA rule : <<ExprRead(rule.expr, args), rule.direction>>,
                             Elements(msg, "order")),
              projection |-> Each(LAMBDA column : <<ExprRead(column.source, args),
                                                    Copied("alias", column, "alias")>>,
                                  Elements(msg, "projection")),
              grouping |-> Each(LAMBDA e : ExprRead(e, args), Elements(msg, "grouping")),
              having |-> One("grouping_criteria"),
              locking |-> Found(msg, "locking") \o Found(msg, "locking_options"),
              operations |-> Each(LAMBDA op : <<op.operation, Ident(op.source),
                                                Each(LAMBDA e : ExprRead(e, args),
                                                     Found(op, "value"))>>,
                                  Elements(msg, "operation"))]

\* The arguments of a plain statement and of one that was prepared.
PlainArgs(msg) == Each(LAMBDA scalar : Meaning(ScalarLiteral(scalar)), Elements(msg, "args"))
PreparedArgs(msg) == Each(LAMBDA any : Meaning(AnyLiteral(any)), Elements(msg, "args"))
=============================================================================
