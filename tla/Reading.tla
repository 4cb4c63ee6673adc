------------------------------ MODULE Reading ------------------------------
(***************************************************************************)
(* What becomes of a value on its way through the connector: a message of    *)
(* any type on the wire, a value that is an argument of a request, and a    *)
(* value of a column in a row of a result.  How the server describes its    *)
(* columns and writes their values is external.                             *)
(***************************************************************************)
EXTENDS Rows, SequencesExt

W == INSTANCE Wire

CONSTANTS
    Depth,      \* how deep the sample messages are nested
    Arguments   \* JavaScript values

VARIABLES
    item,   \* what is given, and of which kind
    stage,  \* "given", "written", "read", "done"
    wire,   \* what is on the wire: the messages with their types
    result  \* what comes out

readingVars == <<item, stage, wire, result>>

-----------------------------------------------------------------------------
(* The columns of a server: SQL type, message and type of the X DevAPI.     *)

Unflagged == 0
Flagged == 1

Sint(length) == [type |-> "SINT", length |-> length, flags |-> Unflagged]
Uint(length, flags) == [type |-> "UINT", length |-> length, flags |-> flags]
Bytes(collation, length, flags) ==
    [type |-> "BYTES", collation |-> collation, length |-> length, flags |-> flags]
Content(content) == [type |-> "BYTES", content_type |-> content, collation |-> 45]

Columns ==
    ("TINYINT" :> Sint(4)) @@ ("SMALLINT" :> Sint(6)) @@ ("MEDIUMINT" :> Sint(9))
    @@ ("INT" :> Sint(11)) @@ ("BIGINT" :> Sint(20))
    @@ ("TINYINT UNSIGNED" :> Uint(3, Unflagged))
    @@ ("SMALLINT UNSIGNED" :> Uint(5, Unflagged))
    @@ ("MEDIUMINT UNSIGNED" :> Uint(8, Unflagged))
    @@ ("INT UNSIGNED" :> Uint(10, Unflagged))
    @@ ("BIGINT UNSIGNED" :> Uint(20, Unflagged))
    @@ ("SMALLINT ZEROFILL" :> Uint(5, Flagged))
    @@ ("DOUBLE" :> [type |-> "DOUBLE"])
    @@ ("DOUBLE UNSIGNED" :> [type |-> "DOUBLE", flags |-> Flagged])
    @@ ("DOUBLE(5,1)" :> [type |-> "DOUBLE", fractional_digits |-> 1])
    @@ ("FLOAT" :> [type |-> "FLOAT"])
    @@ ("DECIMAL(3,0)" :> [type |-> "DECIMAL"])
    @@ ("DECIMAL(4,2)" :> [type |-> "DECIMAL", fractional_digits |-> 2])
    @@ ("BIT" :> [type |-> "BIT", length |-> 1])
    @@ ("VARCHAR" :> Bytes(45, 3, Unflagged)) @@ ("CHAR(3)" :> Bytes(45, 3, Flagged))
    @@ ("BLOB" :> Bytes(BinaryCollation, 3, Unflagged))
    @@ ("JSON" :> Content(JSON)) @@ ("GEOMETRY" :> Content(GEOMETRY))
    @@ ("ENUM" :> [type |-> "ENUM", collation |-> 45])
    @@ ("SET" :> [type |-> "SET", collation |-> 45])
    @@ ("TIME" :> [type |-> "TIME"])
    @@ ("DATE" :> [type |-> "DATETIME", content_type |-> DATE])
    @@ ("DATETIME" :> [type |-> "DATETIME", content_type |-> 2])
    @@ ("TIMESTAMP" :> [type |-> "DATETIME", content_type |-> 2, flags |-> Flagged])

\* The table of docs/tutorial/Working_with_Tables.md.
Documented(sql) ==
    LET unsigned == {"TINYINT UNSIGNED", "SMALLINT UNSIGNED", "MEDIUMINT UNSIGNED",
                     "INT UNSIGNED", "BIGINT UNSIGNED", "DOUBLE UNSIGNED", "SMALLINT ZEROFILL"}
        name ==
            CASE sql \in {"TINYINT", "TINYINT UNSIGNED"} -> "TINYINT"
              [] sql \in {"SMALLINT", "SMALLINT UNSIGNED", "SMALLINT ZEROFILL"} -> "SMALLINT"
              [] sql \in {"MEDIUMINT", "MEDIUMINT UNSIGNED"} -> "MEDIUMINT"
              [] sql \in {"INT", "INT UNSIGNED"} -> "INT"
              [] sql \in {"BIGINT", "BIGINT UNSIGNED"} -> "BIGINT"
              [] sql \in {"DOUBLE", "DOUBLE UNSIGNED", "DOUBLE(5,1)"} -> "DOUBLE"
              [] sql \in {"DECIMAL(3,0)", "DECIMAL(4,2)"} -> "DECIMAL"
              [] sql \in {"VARCHAR", "CHAR(3)"} -> "STRING"
              [] sql = "BLOB" -> "BYTES"
              [] OTHER -> sql
    IN  <<sql \in unsigned, name>>

Text == {<<>>, <<97>>, <<97, 98>>}
Members2 == {<<>>, <<<<>>>>, <<<<97>>>>, <<<<97>>, <<98, 99>>>>, <<<<>>, <<97>>>>}

\* Values of a column.
ValuesOf(sql) ==
    LET type == Columns[sql].type
        top == Modulus \div 2
    IN  CASE type = "SINT" -> {-top, -MaxSafe - 1, -MaxSafe, -1, 0, MaxSafe, MaxSafe + 1, top - 1}
          [] type = "UINT" -> {0, 1, MaxSafe, MaxSafe + 1, Modulus - 1}
          [] sql = "DOUBLE UNSIGNED" -> {0, 5, 150, 955, 1050}
          [] type \in {"DOUBLE", "FLOAT"} -> {0, 5, 150, 955, 1050, -50, -150, -950}
          [] sql = "DECIMAL(3,0)" -> {0, 7, -7, 10, -999}
          [] sql = "DECIMAL(4,2)" -> {0, 1, -5, 70, -1050, 9999}
          [] type = "BIT" -> {0, 1}
          [] sql = "JSON" -> {0, 100 * MaxSafe, 100 * MaxSafe + 100, -150, 12345}
          [] sql = "ENUM" -> {<<97>>}
          [] type = "BYTES" -> Text
          [] type = "SET" -> Members2
          [] type = "TIME" -> {<<0, 0, 0, 0, 0>>, <<1, 2, 0, 0, 0>>, <<0, 9, 59, 59, 20>>}
          [] sql = "DATE" -> {<<24, 2, 29, 0, 0, 0, 0>>}
          [] type = "DATETIME" -> {<<24, 2, 29, 0, 0, 0, 0>>, <<24, 12, 1, 0, 30, 0, 40>>}

RECURSIVE Numeral(_)
Numeral(n) == IF n < 10 THEN <<n>> ELSE Append(Numeral(n \div 10), n % 10)

\* Decimals are written with a digit before the point at least, in whole bytes.
Decimal(n, scale) ==
    LET digits == Numeral(IF n < 0 THEN -n ELSE n)
        filled == [i \in 1 .. Larger(0, scale + 1 - Len(digits)) |-> 0] \o digits
        signed == Append(filled, IF n < 0 THEN Minus ELSE Plus)
    IN  <<scale>> \o (IF Len(signed) % 2 = 0 THEN signed ELSE Append(signed, 0))

\* Parts of a time that are zero are not written at the end.
Trimmed(parts) ==
    SubSeq(parts, 1, SelectLastInSeq(parts, LAMBDA part : part # 0))

\* How X Plugin writes a value; NULL is nothing.
FieldOf(sql, value) ==
    LET column == Columns[sql]
    IN  CASE column.type = "DECIMAL" -> Decimal(value, Get(column, "fractional_digits"))
          [] column.type = "TIME" -> <<value[1]>> \o Trimmed(Tail(value))
          [] column.type = "DATETIME" ->
                SubSeq(value, 1, 3) \o Trimmed(SubSeq(value, 4, 7))
          [] column.type = "SET" ->
                IF value = <<>> THEN <<1>>
                ELSE FlattenSeq([i \in DOMAIN value |-> <<Len(value[i])>> \o value[i]])
          [] sql = "JSON" -> <<value, 0>>
          [] column.type \in {"BYTES", "ENUM"} -> Append(value, 0)
          [] OTHER -> <<value>>

\* What the application is to get for it.
Expected(sql, value, type) ==
    LET column == Columns[sql]
    IN  CASE column.type \in {"SINT", "UINT"} -> <<"hundredths", 100 * value>>
          [] column.type = "BIT" -> <<"hundredths", 100 * value>>
          [] sql = "DOUBLE(5,1)" -> <<"hundredths", ((value + 5) \div 10) * 10>>
          [] column.type \in {"DOUBLE", "FLOAT", "DECIMAL"} -> <<"hundredths",
                IF sql = "DECIMAL(3,0)" THEN 100 * value ELSE value>>
          [] sql = "JSON" -> <<"hundredths", value>>
          [] sql \in {"BLOB", "GEOMETRY"} -> <<"buffer", value>>
          [] sql = "CHAR(3)" ->
                <<"text", value \o [i \in 1 .. Larger(0, 3 - Len(value)) |-> Space]>>
          [] column.type \in {"BYTES", "ENUM"} -> <<"text", value>>
          [] column.type = "SET" -> <<"set", value>>
          [] column.type = "TIME" ->
                <<"time", IF value[1] = 1 THEN Minus ELSE Plus, Tail(value)>>
          [] column.type = "DATETIME" ->
                <<IF sql = "TIMESTAMP" THEN "timestamp" ELSE "date",
                  SubSeq(value, 1, 6) \o <<value[7] \div 10>>>>

\* What a decoded value says, in whichever type.
Said(value) ==
    CASE value[1] \in {"decimal", "digits"} ->
            <<"hundredths", IF value[3] = 0 THEN 100 * value[2] ELSE value[2]>>
      [] value[1] = "numeral" -> <<"hundredths", value[2]>>
      [] value[1] = "string" -> <<"hundredths", 100 * value[2][2]>>
      [] value[1] \in {"number", "bigint"} -> Meaning(value)
      [] OTHER -> value

-----------------------------------------------------------------------------

\* A message with some of its fields, from a peer that knows more fields or
\* one that does not; an argument; a value of a column, for an integer type.
ReadingInit ==
    /\ \/ \E type \in DOMAIN W!Schema :
             \E names \in W!FieldSets(type), extra \in {<<>>, W!Unknown} :
                 item = [of |-> "message", type |-> type, names |-> names, extra |-> extra]
       \/ \E value \in Arguments : item = [of |-> "argument", value |-> value]
       \/ \E sql \in DOMAIN Columns, integerType \in IntegerTypes :
             /\ \/ \E value \in ValuesOf(sql) :
                      item = [of |-> "column", sql |-> sql, null |-> FALSE, value |-> value,
                              integerType |-> integerType]
                \/ item = [of |-> "column", sql |-> sql, null |-> TRUE, integerType |-> integerType]
    /\ stage = "given"
    /\ wire = <<>>
    /\ result = <<>>

Becomes(next) == stage' = next /\ UNCHANGED item

\* What is sent, message by message: <<type, message>>.
Messages ==
    CASE item.of = "message" -> <<<<item.type, W!Sample(item.type, item.names, Depth)>>>>
      [] item.of = "argument" -> <<<<"AnyValue", AnyOf(item.value)>>>>
      [] item.of = "column" ->
            <<<<"ColumnMetaData", Columns[item.sql]>>,
              <<"Row", [field |-> <<IF item.null THEN <<>> ELSE FieldOf(item.sql, item.value)>>]>>>>

Write ==
    /\ stage = "given"
    /\ Becomes("written")
    /\ wire' = [i \in DOMAIN Messages |->
                  <<Messages[i][1],
                    W!Serialize(Messages[i][1], Messages[i][2],
                                IF item.of = "message" THEN item.extra ELSE <<>>)>>]
    /\ UNCHANGED result

Read ==
    /\ stage = "written"
    /\ Becomes("read")
    /\ wire' = <<>>
    /\ result' = [i \in DOMAIN wire |-> W!Deserialize(wire[i][1], wire[i][2])]

\* What the application gets of a row, or the server of an argument.
Convert ==
    /\ stage = "read"
    /\ item.of # "message"
    /\ Becomes("done")
    /\ result' = IF item.of = "argument" THEN AnyLiteral(result[1])
                 ELSE [type |-> getTypeString(result[1]),
                       value |-> toArray(result[2], <<result[1]>>, item.integerType)[1]]
    /\ UNCHANGED wire

ReadingNext == Write \/ Read \/ Convert

ReadingSpec == ReadingInit /\ [][ReadingNext]_readingVars

-----------------------------------------------------------------------------

\* A message is read as it was written, whatever fields are set, however it is
\* nested, and whatever fields its reader does not know are in between.
ReadAsWritten ==
    stage = "read" /\ item.of = "message" =>
        result[1] = W!Sample(item.type, item.names, Depth)

\* An argument reaches the server with the value the application gave it, also
\* inside arrays and objects; an integer that is no longer exact as a number
\* goes as the string that spells it.
ArgumentsKept ==
    stage = "done" /\ item.of = "argument" => Meaning(result) = Meaning(item.value)

IsColumn == stage = "done" /\ item.of = "column"

\* The value of a column reaches the application: the integers at both ends of
\* their ranges, NULL apart from what is empty, decimals with their sign and
\* scale, times whose last parts are left out, members of a set.  A double
\* below zero without declared digits is left to DoublesKept.
ColumnsKept ==
    IsColumn =>
        CASE item.null -> result.value = JsNull
          [] item.sql \in {"DOUBLE", "FLOAT"} /\ item.value < 0 -> TRUE
          [] OTHER -> Said(result.value) = Expected(item.sql, item.value, item.integerType)

\* An integer becomes a number only where a number can be trusted, and never
\* when the application asked for another type; as a string it has the width
\* of a column with ZEROFILL.
IntegersSafe ==
    /\ IsColumn
    /\ ~item.null
    /\ Columns[item.sql].type \in {"SINT", "UINT"}
    => /\ result.value[1] = "number" =>
             IsSafe(item.value) /\ item.integerType \notin {"bigint", "string"}
       /\ result.value[1] = "string" => item.integerType \in {"string", "unsafe_string"}
       /\ item.sql = "SMALLINT ZEROFILL" /\ result.value[1] = "string" => result.value[3] = 5

\* getType() of a column names the type of the documentation.
TypesNamed == IsColumn => result.type = Documented(item.sql)

\* What the application reads of a result is what the server has: the values,
\* in types that hold them, and the types of the columns.
ResultsRead == ColumnsKept /\ IntegersSafe /\ TypesNamed

\* The promise that the code does not keep below zero: CHANGES.txt:128, "Fix
\* precision issue causing certain DOUBLE values to be truncated".
DoublesKept ==
    /\ IsColumn
    /\ ~item.null
    /\ item.sql \in {"DOUBLE", "FLOAT"}
    => Said(result.value) = <<"hundredths", item.value>>
=============================================================================
