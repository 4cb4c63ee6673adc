------------------------------ MODULE Messages ------------------------------
(***************************************************************************)
(* The messages of the X Protocol as the classes of lib/Protocol/Stubs know *)
(* them: the fields a class writes, in the order it writes them, each with  *)
(* its number, name, type and label.  A class reads the same numbers with   *)
(* the same types, whatever their order, and skips all others.              *)
(***************************************************************************)
EXTENDS Naturals

Field(label, no, name, type) == [label |-> label, no |-> no, name |-> name, type |-> type]

\* A required field is one the server insists on: the classes neither write
\* nor read it in another way than an optional one.
Required(no, name, type) == Field("required", no, name, type)
Optional(no, name, type) == Field("optional", no, name, type)
Repeated(no, name, type) == Field("repeated", no, name, type)

-----------------------------------------------------------------------------
(* mysqlx_connection_pb.js.                                                 *)

ConnectionCapability ==
    <<Required(1, "name", "string"), Required(2, "value", "AnyValue")>>
ConnectionCapabilities ==
    <<Repeated(1, "capabilities", "ConnectionCapability")>>
ConnectionCapabilitiesGet == <<>>
ConnectionCapabilitiesSet ==
    <<Required(1, "capabilities", "ConnectionCapabilities")>>
ConnectionClose == <<>>
ConnectionCompression ==
    <<Optional(1, "uncompressed_size", "uint64"),
      Optional(2, "server_messages", "enum"),
      Optional(3, "client_messages", "enum"),
      Required(4, "payload", "bytes")>>

-----------------------------------------------------------------------------
(* mysqlx_crud_pb.js.                                                       *)

CrudColumn ==
    <<Optional(1, "name", "string"), Optional(2, "alias", "string"),
      Repeated(3, "document_path", "ExprDocumentPathItem")>>
CrudProjection ==
    <<Required(1, "source", "Expr"), Optional(2, "alias", "string")>>
CrudCollection ==
    <<Required(1, "name", "string"), Optional(2, "schema", "string")>>
CrudLimit ==
    <<Required(1, "row_count", "uint64"), Optional(2, "offset", "uint64")>>
CrudLimitExpr ==
    <<Required(1, "row_count", "Expr"), Optional(2, "offset", "Expr")>>
CrudOrder == <<Required(1, "expr", "Expr"), Optional(2, "direction", "enum")>>
CrudUpdateOperation ==
    <<Required(1, "source", "ExprColumnIdentifier"),
      Required(2, "operation", "enum"), Optional(3, "value", "Expr")>>
CrudFind ==
    <<Required(2, "collection", "CrudCollection"),
      Optional(3, "data_model", "enum"),
      Repeated(4, "projection", "CrudProjection"),
      Repeated(11, "args", "Scalar"), Optional(5, "criteria", "Expr"),
      Optional(6, "limit", "CrudLimit"), Repeated(7, "order", "CrudOrder"),
      Repeated(8, "grouping", "Expr"),
      Optional(9, "grouping_criteria", "Expr"),
      Optional(12, "locking", "enum"),
      Optional(13, "locking_options", "enum"),
      Optional(14, "limit_expr", "CrudLimitExpr")>>
CrudInsert ==
    <<Required(1, "collection", "CrudCollection"),
      Optional(2, "data_model", "enum"),
      Repeated(3, "projection", "CrudColumn"),
      Repeated(4, "row", "CrudTypedRow"), Repeated(5, "args", "Scalar"),
      Optional(6, "upsert", "bool")>>
CrudTypedRow == <<Repeated(1, "field", "Expr")>>
CrudUpdate ==
    <<Required(2, "collection", "CrudCollection"),
      Optional(3, "data_model", "enum"), Optional(4, "criteria", "Expr"),
      Optional(5, "limit", "CrudLimit"), Repeated(6, "order", "CrudOrder"),
      Repeated(7, "operation", "CrudUpdateOperation"),
      Repeated(8, "args", "Scalar"),
      Optional(9, "limit_expr", "CrudLimitExpr")>>
CrudDelete ==
    <<Required(1, "collection", "CrudCollection"),
      Optional(2, "data_model", "enum"), Optional(3, "criteria", "Expr"),
      Optional(4, "limit", "CrudLimit"), Repeated(5, "order", "CrudOrder"),
      Repeated(6, "args", "Scalar"),
      Optional(7, "limit_expr", "CrudLimitExpr")>>
CrudCreateView ==
    <<Required(1, "collection", "CrudCollection"),
      Optional(2, "definer", "string"), Optional(3, "algorithm", "enum"),
      Optional(4, "security", "enum"), Optional(5, "check", "enum"),
      Repeated(6, "column", "string"), Required(7, "stmt", "CrudFind"),
      Optional(8, "replace_existing", "bool")>>
CrudModifyView ==
    <<Required(1, "collection", "CrudCollection"),
      Optional(2, "definer", "string"), Optional(3, "algorithm", "enum"),
      Optional(4, "security", "enum"), Optional(5, "check", "enum"),
      Repeated(6, "column", "string"), Optional(7, "stmt", "CrudFind")>>
CrudDropView ==
    <<Required(1, "collection", "CrudCollection"),
      Optional(2, "if_exists", "bool")>>

-----------------------------------------------------------------------------
(* mysqlx_cursor_pb.js.                                                     *)

CursorOpen ==
    <<Required(1, "cursor_id", "uint32"),
      Required(4, "stmt", "CursorOneOfMessage"),
      Optional(5, "fetch_rows", "uint64")>>
CursorOneOfMessage ==
    <<Required(1, "type", "enum"),
      Optional(2, "prepare_execute", "PrepareExecute")>>
CursorFetch ==
    <<Required(1, "cursor_id", "uint32"),
      Optional(5, "fetch_rows", "uint64")>>
CursorClose == <<Required(1, "cursor_id", "uint32")>>

-----------------------------------------------------------------------------
(* mysqlx_datatypes_pb.js.                                                  *)

Scalar ==
    <<Required(1, "type", "enum"), Optional(2, "v_signed_int", "sint64"),
      Optional(3, "v_unsigned_int", "uint64"),
      Optional(5, "v_octets", "ScalarOctets"),
      Optional(6, "v_double", "double"), Optional(7, "v_float", "float"),
      Optional(8, "v_bool", "bool"), Optional(9, "v_string", "ScalarString")>>
ScalarString ==
    <<Required(1, "value", "bytes"), Optional(2, "collation", "uint64")>>
ScalarOctets ==
    <<Required(1, "value", "bytes"), Optional(2, "content_type", "uint32")>>
AnyObject == <<Repeated(1, "fld", "AnyObjectField")>>
AnyObjectField ==
    <<Required(1, "key", "string"), Required(2, "value", "AnyValue")>>
AnyArray == <<Repeated(1, "value", "AnyValue")>>
AnyValue ==
    <<Required(1, "type", "enum"), Optional(2, "scalar", "Scalar"),
      Optional(3, "obj", "AnyObject"), Optional(4, "array", "AnyArray")>>

-----------------------------------------------------------------------------
(* mysqlx_expect_pb.js.                                                     *)

ExpectOpen ==
    <<Optional(1, "op", "enum"), Repeated(2, "cond", "ExpectCondition")>>
ExpectCondition ==
    <<Required(1, "condition_key", "uint32"),
      Optional(2, "condition_value", "bytes"), Optional(3, "op", "enum")>>
ExpectClose == <<>>

-----------------------------------------------------------------------------
(* mysqlx_expr_pb.js.                                                       *)

Expr ==
    <<Required(1, "type", "enum"),
      Optional(2, "identifier", "ExprColumnIdentifier"),
      Optional(3, "variable", "string"), Optional(4, "literal", "Scalar"),
      Optional(5, "function_call", "ExprFunctionCall"),
      Optional(6, "operator", "ExprOperator"),
      Optional(7, "position", "uint32"), Optional(8, "object", "ExprObject"),
      Optional(9, "array", "ExprArray")>>
ExprIdentifier ==
    <<Required(1, "name", "string"), Optional(2, "schema_name", "string")>>
ExprDocumentPathItem ==
    <<Required(1, "type", "enum"), Optional(2, "value", "string"),
      Optional(3, "index", "uint32")>>
ExprColumnIdentifier ==
    <<Repeated(1, "document_path", "ExprDocumentPathItem"),
      Optional(2, "name", "string"), Optional(3, "table_name", "string"),
      Optional(4, "schema_name", "string")>>
ExprFunctionCall ==
    <<Required(1, "name", "ExprIdentifier"), Repeated(2, "param", "Expr")>>
ExprOperator ==
    <<Required(1, "name", "string"), Repeated(2, "param", "Expr")>>
ExprObject == <<Repeated(1, "fld", "ExprObjectField")>>
ExprObjectField ==
    <<Required(1, "key", "string"), Required(2, "value", "Expr")>>
ExprArray == <<Repeated(1, "value", "Expr")>>

-----------------------------------------------------------------------------
(* mysqlx_notice_pb.js.                                                     *)

NoticeFrame ==
    <<Required(1, "type", "uint32"), Optional(2, "scope", "enum"),
      Optional(3, "payload", "bytes")>>
NoticeWarning ==
    <<Optional(1, "level", "enum"), Required(2, "code", "uint32"),
      Required(3, "msg", "string")>>
NoticeSessionVariableChanged ==
    <<Required(1, "param", "string"), Optional(2, "value", "Scalar")>>
NoticeSessionStateChanged ==
    <<Required(1, "param", "enum"), Repeated(2, "value", "Scalar")>>
NoticeGroupReplicationStateChanged ==
    <<Required(1, "type", "uint32"), Optional(2, "view_id", "string")>>
NoticeServerHello == <<>>

-----------------------------------------------------------------------------
(* mysqlx_pb.js.                                                            *)

ClientMessages == <<>>
ServerMessages == <<>>
OkMessage == <<Optional(1, "msg", "string")>>
ErrorMessage ==
    <<Optional(1, "severity", "enum"), Required(2, "code", "uint32"),
      Required(4, "sql_state", "string"), Required(3, "msg", "string")>>

-----------------------------------------------------------------------------
(* mysqlx_prepare_pb.js.                                                    *)

Prepare ==
    <<Required(1, "stmt_id", "uint32"),
      Required(2, "stmt", "PrepareOneOfMessage")>>
PrepareOneOfMessage ==
    <<Required(1, "type", "enum"), Optional(2, "find", "CrudFind"),
      Optional(3, "insert", "CrudInsert"),
      Optional(4, "update", "CrudUpdate"),
      Optional(5, "delete", "CrudDelete"),
      Optional(6, "stmt_execute", "SqlStmtExecute")>>
PrepareExecute ==
    <<Required(1, "stmt_id", "uint32"), Repeated(2, "args", "AnyValue"),
      Optional(3, "compact_metadata", "bool")>>
PrepareDeallocate == <<Required(1, "stmt_id", "uint32")>>

-----------------------------------------------------------------------------
(* mysqlx_resultset_pb.js.                                                  *)

ResultsetFetchDoneMoreOutParams == <<>>
ResultsetFetchDoneMoreResultsets == <<>>
ResultsetFetchDone == <<>>
ResultsetFetchSuspended == <<>>
ColumnMetaData ==
    <<Required(1, "type", "enum"), Optional(2, "name", "bytes"),
      Optional(3, "original_name", "bytes"), Optional(4, "table", "bytes"),
      Optional(5, "original_table", "bytes"), Optional(6, "schema", "bytes"),
      Optional(7, "catalog", "bytes"), Optional(8, "collation", "uint64"),
      Optional(9, "fractional_digits", "uint32"),
      Optional(10, "length", "uint32"), Optional(11, "flags", "uint32"),
      Optional(12, "content_type", "uint32")>>
Row == <<Repeated(1, "field", "bytes")>>

-----------------------------------------------------------------------------
(* mysqlx_session_pb.js.                                                    *)

SessionAuthenticateStart ==
    <<Required(1, "mech_name", "string"), Optional(2, "auth_data", "bytes"),
      Optional(3, "initial_response", "bytes")>>
SessionAuthenticateContinue == <<Required(1, "auth_data", "bytes")>>
SessionAuthenticateOk == <<Optional(1, "auth_data", "bytes")>>
SessionReset == <<Optional(1, "keep_open", "bool")>>
SessionClose == <<>>

-----------------------------------------------------------------------------
(* mysqlx_sql_pb.js.                                                        *)

SqlStmtExecute ==
    <<Optional(3, "namespace", "string"), Required(1, "stmt", "bytes"),
      Repeated(2, "args", "AnyValue"),
      Optional(4, "compact_metadata", "bool")>>
SqlStmtExecuteOk == <<>>

-----------------------------------------------------------------------------

\* A message type by its name.
Schema ==
    [ConnectionCapability |-> ConnectionCapability,
     ConnectionCapabilities |-> ConnectionCapabilities,
     ConnectionCapabilitiesGet |-> ConnectionCapabilitiesGet,
     ConnectionCapabilitiesSet |-> ConnectionCapabilitiesSet,
     ConnectionClose |-> ConnectionClose,
     ConnectionCompression |-> ConnectionCompression,
     CrudColumn |-> CrudColumn, CrudProjection |-> CrudProjection,
     CrudCollection |-> CrudCollection, CrudLimit |-> CrudLimit,
     CrudLimitExpr |-> CrudLimitExpr, CrudOrder |-> CrudOrder,
     CrudUpdateOperation |-> CrudUpdateOperation, CrudFind |-> CrudFind,
     CrudInsert |-> CrudInsert, CrudTypedRow |-> CrudTypedRow,
     CrudUpdate |-> CrudUpdate, CrudDelete |-> CrudDelete,
     CrudCreateView |-> CrudCreateView, CrudModifyView |-> CrudModifyView,
     CrudDropView |-> CrudDropView, CursorOpen |-> CursorOpen,
     CursorOneOfMessage |-> CursorOneOfMessage, CursorFetch |-> CursorFetch,
     CursorClose |-> CursorClose, Scalar |-> Scalar,
     ScalarString |-> ScalarString, ScalarOctets |-> ScalarOctets,
     AnyObject |-> AnyObject, AnyObjectField |-> AnyObjectField,
     AnyArray |-> AnyArray, AnyValue |-> AnyValue, ExpectOpen |-> ExpectOpen,
     ExpectCondition |-> ExpectCondition, ExpectClose |-> ExpectClose,
     Expr |-> Expr, ExprIdentifier |-> ExprIdentifier,
     ExprDocumentPathItem |-> ExprDocumentPathItem,
     ExprColumnIdentifier |-> ExprColumnIdentifier,
     ExprFunctionCall |-> ExprFunctionCall, ExprOperator |-> ExprOperator,
     ExprObject |-> ExprObject, ExprObjectField |-> ExprObjectField,
     ExprArray |-> ExprArray, NoticeFrame |-> NoticeFrame,
     NoticeWarning |-> NoticeWarning,
     NoticeSessionVariableChanged |-> NoticeSessionVariableChanged,
     NoticeSessionStateChanged |-> NoticeSessionStateChanged,
     NoticeGroupReplicationStateChanged |-> NoticeGroupReplicationStateChanged,
     NoticeServerHello |-> NoticeServerHello,
     ClientMessages |-> ClientMessages, ServerMessages |-> ServerMessages,
     OkMessage |-> OkMessage, ErrorMessage |-> ErrorMessage,
     Prepare |-> Prepare, PrepareOneOfMessage |-> PrepareOneOfMessage,
     PrepareExecute |-> PrepareExecute,
     PrepareDeallocate |-> PrepareDeallocate,
     ResultsetFetchDoneMoreOutParams |-> ResultsetFetchDoneMoreOutParams,
     ResultsetFetchDoneMoreResultsets |-> ResultsetFetchDoneMoreResultsets,
     ResultsetFetchDone |-> ResultsetFetchDone,
     ResultsetFetchSuspended |-> ResultsetFetchSuspended,
     ColumnMetaData |-> ColumnMetaData, Row |-> Row,
     SessionAuthenticateStart |-> SessionAuthenticateStart,
     SessionAuthenticateContinue |-> SessionAuthenticateContinue,
     SessionAuthenticateOk |-> SessionAuthenticateOk,
     SessionReset |-> SessionReset, SessionClose |-> SessionClose,
     SqlStmtExecute |-> SqlStmtExecute, SqlStmtExecuteOk |-> SqlStmtExecuteOk]
=============================================================================
