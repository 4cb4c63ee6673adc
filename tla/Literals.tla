------------------------------ MODULE Literals ------------------------------
(***************************************************************************)
(* JavaScript values as X Protocol scalars and back: the wrappers Scalar.js, *)
(* Any.js, Octets.js and String.js of Messages/Datatypes and those of       *)
(* ScalarValues.                                                            *)
(*                                                                          *)
(* A value is a tuple that begins with its type.  A number comes in         *)
(* hundredths, so that some are integers and some are not; a string is one  *)
(* that spells an integer, a date in UTC, or just characters.               *)
(***************************************************************************)
EXTENDS Integers, Sequences, TLC

CONSTANTS
    MaxSafe,  \* Number.MAX_SAFE_INTEGER
    Modulus   \* the number of integers of 64 bits

ASSUME LiteralsAssumption ==
    /\ MaxSafe \in Nat
    /\ Modulus \in Nat /\ Modulus % 2 = 0 /\ 2 * MaxSafe < Modulus

JsNull == <<"null">>
Integer(n) == <<"number", 100 * n>>
BigInt(n) == <<"bigint", n>>
Spells(n) == <<"string", <<"spells", n>>>>

IsSafe(n) == -MaxSafe <= n /\ n <= MaxSafe
IsInteger(hundredths) == hundredths % 100 = 0

\* What 64 bits hold of an integer.
Unsigned(n) == n % Modulus
Signed(n) == ((n + Modulus \div 2) % Modulus) - Modulus \div 2

-----------------------------------------------------------------------------
(* Scalar.js.                                                               *)

encodeInteger(n) ==
    IF n >= 0 THEN [type |-> "V_UINT", v_unsigned_int |-> Unsigned(n)]
    ELSE [type |-> "V_SINT", v_signed_int |-> Signed(n)]

encodeString(s) == [type |-> "V_STRING", v_string |-> [value |-> s]]
encodeOctets(s) == [type |-> "V_OCTETS", v_octets |-> [value |-> s]]

\* (an integer is a number that is not too large)
encodeNumberMutant(hundredths) ==
    IF IsInteger(hundredths) THEN encodeInteger(hundredths \div 100)
    ELSE [type |-> "V_DOUBLE", v_double |-> hundredths]

encodeNumber(hundredths) ==
    CASE ~IsInteger(hundredths) -> [type |-> "V_DOUBLE", v_double |-> hundredths]
      [] IsSafe(hundredths \div 100) -> encodeInteger(hundredths \div 100)
      [] OTHER -> encodeString(<<"spells", hundredths \div 100>>)

\* Scalar.create(); nothing for what is not a scalar.
ScalarOf(value, opaque) ==
    CASE value[1] = "bigint" -> encodeInteger(value[2])
      [] value[1] = "boolean" -> [type |-> "V_BOOL", v_bool |-> value[2]]
      [] value[1] = "number" -> encodeNumber(value[2])
      [] value[1] = "date" -> encodeString(<<"utc", value[2]>>)
      [] value[1] = "buffer" -> encodeOctets(value[2])
      [] value[1] = "null" -> [type |-> "V_NULL"]
      [] value[1] = "string" -> IF opaque THEN encodeOctets(value[2]) ELSE encodeString(value[2])
      [] OTHER -> <<>>

\* toLiteral() of a scalar.
ScalarLiteral(proto) ==
    CASE proto.type = "V_SINT" -> BigInt(proto.v_signed_int)
      [] proto.type = "V_UINT" -> BigInt(proto.v_unsigned_int)
      [] proto.type = "V_NULL" -> JsNull
      [] proto.type = "V_OCTETS" -> <<"buffer", proto.v_octets.value>>
      [] proto.type = "V_DOUBLE" -> <<"number", proto.v_double>>
      [] proto.type = "V_BOOL" -> <<"boolean", proto.v_bool>>
      [] proto.type = "V_STRING" -> <<"string", proto.v_string.value>>

-----------------------------------------------------------------------------
(* Any.js.                                                                  *)

RECURSIVE AnyOf(_)
\* any.create(), with those of arrays and of objects; an object is the
\* sequence of its keys and values.
AnyOf(value) ==
    LET scalar == ScalarOf(value, FALSE)
        Fields(pairs) ==
            [i \in DOMAIN pairs |-> [key |-> pairs[i][1], value |-> AnyOf(pairs[i][2])]]
        \* a repeated field without elements is not there
        Repeated(name, elements) == IF elements = <<>> THEN <<>> ELSE name :> elements
    IN  IF DOMAIN scalar # {} THEN [type |-> "SCALAR", scalar |-> scalar]
        ELSE IF value[1] = "array"
        THEN [type |-> "ARRAY",
              array |-> Repeated("value", [i \in DOMAIN value[2] |-> AnyOf(value[2][i])])]
        ELSE [type |-> "OBJECT", obj |-> Repeated("fld", Fields(value[2]))]

RECURSIVE AnyLiteral(_)
\* toLiteral() of an Any.
AnyLiteral(proto) ==
    LET List(msg, name) == IF name \in DOMAIN msg THEN msg[name] ELSE <<>>
    IN  CASE proto.type = "SCALAR" -> ScalarLiteral(proto.scalar)
          [] proto.type = "ARRAY" ->
                <<"array", [i \in DOMAIN List(proto.array, "value") |->
                               AnyLiteral(proto.array.value[i])]>>
          [] proto.type = "OBJECT" ->
                <<"object", [i \in DOMAIN List(proto.obj, "fld") |->
                                <<proto.obj.fld[i].key, AnyLiteral(proto.obj.fld[i].value)>>]>>

-----------------------------------------------------------------------------
(* sint64.js and uint64.js.                                                 *)

IntegerTypes == {"bigint", "string", "unsafe_bigint", "unsafe_string"}

\* (the lower end is forgotten)
deserializeMutant(n, type) ==
    CASE n <= MaxSafe /\ type \notin {"bigint", "string"} -> Integer(n)
      [] type \in {"bigint", "unsafe_bigint"} -> BigInt(n)
      [] OTHER -> Spells(n)

\* deserialize(); an unsigned integer is at least zero.
deserialize(n, type) ==
    CASE IsSafe(n) /\ type \notin {"bigint", "string"} -> Integer(n)
      [] type \in {"bigint", "unsafe_bigint"} -> BigInt(n)
      [] OTHER -> Spells(n)

-----------------------------------------------------------------------------

RECURSIVE Meaning(_)
\* What a value stands for, whichever type says it.
Meaning(value) ==
    CASE value[1] = "number" -> <<"hundredths", value[2]>>
      [] value[1] = "bigint" -> <<"hundredths", 100 * value[2]>>
      [] value[1] = "string" /\ value[2][1] = "spells" -> <<"hundredths", 100 * value[2][2]>>
      [] value[1] = "date" -> <<"string", <<"utc", value[2]>>>>
      [] value[1] = "array" -> <<"array", [i \in DOMAIN value[2] |-> Meaning(value[2][i])]>>
      [] value[1] = "object" ->
            <<"object", [i \in DOMAIN value[2] |-> <<value[2][i][1], Meaning(value[2][i][2])>>]>>
      [] OTHER -> value
=============================================================================
