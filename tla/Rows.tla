-------------------------------- MODULE Rows --------------------------------
(***************************************************************************)
(* Result set rows: the wrappers Row.js and ColumnMetadata.js of            *)
(* Messages/Resultset.  A field of a row is the sequence of its items: the  *)
(* numbers, characters and bytes that X Plugin (external) puts there for a  *)
(* value of a column; a number of type DOUBLE comes in hundredths.          *)
(***************************************************************************)
EXTENDS Literals

LOCAL INSTANCE SequencesExt

CONSTANT Precision  \* digits a number with a fraction is sure to keep

Larger(a, b) == IF a > b THEN a ELSE b

-----------------------------------------------------------------------------
(* ColumnMetadata.js: a column is its message, with the fields that are not *)
(* set at their defaults.                                                   *)

GEOMETRY == 1
JSON == 2
DATE == 1
BinaryCollation == 63

Get(column, field) ==
    IF field \in DOMAIN column THEN column[field] ELSE 0

isFlagged(column) == Get(column, "flags") % 2 = 1
isBinary(column) ==
    \/ "content_type" \notin DOMAIN column /\ Get(column, "collation") = BinaryCollation
    \/ Get(column, "content_type") = GEOMETRY
isJSON(column) == Get(column, "content_type") = JSON

\* (at least the largest of its size)
columnAsIntegerMutant(size) ==
    CASE size > 20 -> "BIGINT" [] size > 10 -> "INT" [] size > 8 -> "MEDIUMINT"
      [] size > 5 -> "SMALLINT" [] OTHER -> "TINYINT"

columnAsInteger(size) ==
    CASE size >= 20 -> "BIGINT" [] size >= 10 -> "INT" [] size >= 8 -> "MEDIUMINT"
      [] size >= 5 -> "SMALLINT" [] OTHER -> "TINYINT"

columnAsBinaryType(content, collation) ==
    CASE content = JSON -> "JSON"
      [] content = GEOMETRY -> "GEOMETRY"
      [] collation = BinaryCollation -> "BYTES"
      [] OTHER -> "STRING"

columnAsDateAndTime(content, flags) ==
    CASE content = DATE -> "DATE" [] flags % 2 = 1 -> "TIMESTAMP" [] OTHER -> "DATETIME"

\* Whether the type is unsigned, and its name.
getTypeString(column) ==
    LET type == column.type
        flags == Get(column, "flags")
        content == Get(column, "content_type")
    IN  CASE type = "SINT" -> <<FALSE, columnAsInteger(Get(column, "length"))>>
          [] type = "UINT" -> <<TRUE, columnAsInteger(Get(column, "length"))>>
          [] type \in {"DOUBLE", "FLOAT", "DECIMAL"} -> <<flags = 1, type>>
          [] type = "BYTES" ->
                <<FALSE, columnAsBinaryType(content, Get(column, "collation"))>>
          [] type = "DATETIME" -> <<FALSE, columnAsDateAndTime(content, flags)>>
          [] OTHER -> <<FALSE, type>>

-----------------------------------------------------------------------------
(* Row.js.  Lengths are those of numbers in decimal notation.               *)

RECURSIVE NumeralLength(_)
NumeralLength(n) ==
    IF n < 0 THEN 1 + NumeralLength(-n)
    ELSE IF n < 10 THEN 1 ELSE 1 + NumeralLength(n \div 10)

FractionLength(hundredths) ==
    CASE hundredths % 100 = 0 -> 0 [] hundredths % 10 = 0 -> 1 [] OTHER -> 2

\* toPrecision().length
TextLength(hundredths) ==
    LET size == IF hundredths < 0 THEN -hundredths ELSE hundredths
        fraction == FractionLength(hundredths)
    IN  (IF hundredths < 0 THEN 1 ELSE 0) + NumeralLength(size \div 100)
            + (IF fraction = 0 THEN 0 ELSE 1 + fraction)

\* Math.round() to a number of digits: half up, also below zero.
Rounded(hundredths, digits) ==
    LET unit == CASE digits = 0 -> 100 [] digits = 1 -> 10 [] OTHER -> 1
    IN  ((hundredths + unit \div 2) \div unit) * unit

\* The digits after the point: as the column says or, when it says nothing,
\* what follows the integer part and a point in the text of the number.
fractionalDigits(hundredths, digits) ==
    IF digits # 0 THEN digits
    ELSE Larger(0, TextLength(hundredths) - NumeralLength(hundredths \div 100) - 1)

formatDecimal(hundredths, digits) ==
    <<"number", Rounded(hundredths, fractionalDigits(hundredths, digits))>>

\* decodeUnsignedInt(): an integer that becomes a string is filled with zeros
\* up to the width of a column with ZEROFILL.
decodeUnsignedInt(n, type, padding) ==
    LET value == deserialize(n, type)
    IN  IF value[1] # "string" THEN value
        ELSE <<"string", <<"spells", n>>, Larger(padding, NumeralLength(n))>>

Plus == 12
Minus == 13

\* Where the sign is: at the end, or before four bits that fill a byte.
signAt(nibbles) == IF Last(nibbles) # 0 THEN Len(nibbles) ELSE Len(nibbles) - 1

\* formatSafeNumber(): a number that can be trusted, or a string.
formatSafeNumber(sign, digits, scale) ==
    LET n == FoldLeft(LAMBDA acc, digit : 10 * acc + digit, 0, digits)
        unsafe == IF scale = 0 THEN ~IsSafe(n) ELSE Len(digits) > Precision
    IN  <<IF unsafe THEN "digits" ELSE "decimal", IF sign = Plus THEN n ELSE -n, scale>>

\* decodeDecimal(): the scale, the digits four bits each, and the sign.
decodeDecimal(field) ==
    LET nibbles == Tail(field)
        at == signAt(nibbles)
    IN  formatSafeNumber(nibbles[at], SubSeq(nibbles, 1, at - 1), Head(field))

\* decodeTemporalValue(): the parts that are left out are zero.
decodeTemporalValue(field, maxSize) ==
    [i \in 1 .. maxSize |-> IF i <= Len(field) THEN field[i] ELSE 0]

\* A Date has milliseconds; "thousand" of the model is 10.
decodeDatetime(field, isTimestamp) ==
    LET value == decodeTemporalValue(field, 8)
    IN  <<IF isTimestamp THEN "timestamp" ELSE "date",
          SubSeq(value, 1, 6) \o <<value[7] \div 10>>>>

decodeTime(field) ==
    LET value == decodeTemporalValue(field, 5)
    IN  <<"time", IF value[1] > 0 THEN Minus ELSE Plus, SubSeq(value, 2, 5)>>

RECURSIVE Members(_)
\* The strings of a sequence in which each comes after its length.
Members(field) ==
    IF field = <<>> THEN <<>>
    ELSE LET end == 1 + Head(field)
         IN  <<SubSeq(field, 2, end)>> \o Members(SubSeq(field, end + 1, Len(field)))

\* (a set with one member that is empty looks like an empty one)
decodeSetMutant(field) == IF Len(field) < 2 THEN <<>> ELSE Members(field)

\* decodeSet(): one item above zero is what an empty set looks like.
decodeSet(field) == IF Head(field) > 0 /\ Len(field) < 2 THEN <<>> ELSE Members(field)

Space == 32

\* json.js: a number of a document, for an integer type.
parseNumber(hundredths, type) ==
    LET text == <<"numeral", hundredths>>
        integer == IsInteger(hundredths)
        safe == IF integer THEN IsSafe(hundredths \div 100)
                ELSE TextLength(hundredths) - 1 <= Precision
        n == hundredths \div 100
    IN  CASE type = "bigint" /\ integer -> BigInt(n)
          [] type = "unsafe_bigint" /\ integer /\ ~safe -> BigInt(n)
          [] type # "string" /\ ~safe -> text
          [] type = "string" -> text
          [] OTHER -> <<"number", hundredths>>

\* Strings and bytes end with a zero of the protocol.
withoutEnd(field) == Front(field)

\* decodeOpaqueByteString(): a document of the model is one number.
decodeOpaqueByteString(field, column, type) ==
    LET text == withoutEnd(field)
        padding == IF isFlagged(column) THEN Larger(Get(column, "length"), Len(text)) ELSE Len(text)
    IN  CASE isBinary(column) -> <<"buffer", text>>
          [] isJSON(column) -> parseNumber(text[1], type)
          [] OTHER -> <<"text", text \o [i \in 1 .. padding - Len(text) |-> Space]>>

\* decodeField(): nothing at all is NULL.
decodeField(field, column, type) ==
    IF field = <<>> THEN JsNull
    ELSE CASE column.type \in {"FLOAT", "DOUBLE"} ->
                formatDecimal(field[1], Get(column, "fractional_digits"))
           [] column.type = "SINT" -> deserialize(field[1], type)
           [] column.type = "UINT" ->
                decodeUnsignedInt(field[1], type,
                                  IF isFlagged(column) THEN Get(column, "length") ELSE 0)
           [] column.type = "BIT" -> <<"string", <<"spells", field[1]>>>>
           [] column.type \in {"BYTES", "ENUM"} -> decodeOpaqueByteString(field, column, type)
           [] column.type = "TIME" -> decodeTime(field)
           [] column.type = "DATETIME" -> decodeDatetime(field, isFlagged(column))
           [] column.type = "DECIMAL" -> decodeDecimal(field)
           [] column.type = "SET" -> <<"set", decodeSet(field)>>

\* toArray() of a row with the metadata of its result set.
toArray(row, metadata, type) ==
    [i \in DOMAIN row.field |-> decodeField(row.field[i], metadata[i], type)]
=============================================================================
