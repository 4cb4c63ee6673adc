-------------------------------- MODULE Wire --------------------------------
(***************************************************************************)
(* How the classes of lib/Protocol/Stubs put a message on the wire and read *)
(* one.  A message is a record of the fields that are set; a repeated field *)
(* without elements is not set.  On the wire a field is its tag, for        *)
(* strings, bytes and messages the length of what follows, and the value; a *)
(* number or the text of a string is one item.  Tags, lengths and numbers   *)
(* are the work of google-protobuf.                                         *)
(***************************************************************************)
EXTENDS Messages, Sequences

LOCAL INSTANCE SequencesExt

WireType(type) ==
    CASE type \in {"enum", "bool", "uint32", "uint64", "sint64"} -> "varint"
      [] type = "double" -> "fixed64"
      [] type = "float" -> "fixed32"
      [] OTHER -> "delimited"

IsMessage(type) ==
    WireType(type) = "delimited" /\ type \notin {"string", "bytes"}

RECURSIVE Serialize(_, _, _)
\* serializeBinaryToWriter() of a class; "extra" is what a peer with a newer
\* version of the protocol adds to every message, in fields of its own.
Serialize(type, msg, extra) ==
    LET Tag(field) == [no |-> field.no, wire |-> WireType(field.type)]
        Item(field, value) ==
            LET payload == IF IsMessage(field.type) THEN Serialize(field.type, value, extra)
                           ELSE <<value>>
            IN  IF WireType(field.type) = "delimited"
                THEN <<Tag(field), Len(payload)>> \o payload
                ELSE <<Tag(field)>> \o payload
        Items(field) ==
            IF field.name \notin DOMAIN msg THEN <<>>
            ELSE IF field.label = "repeated"
            THEN FlattenSeq([i \in DOMAIN msg[field.name] |-> Item(field, msg[field.name][i])])
            ELSE Item(field, msg[field.name])
        All(fields) == FlattenSeq([i \in DOMAIN fields |-> Items(fields[i])])
    IN  extra \o All(Schema[type]) \o extra

\* (a repeated field is set like any other)
AssignMutant(msg, field, value) ==
    [name \in DOMAIN msg \cup {field.name} |-> IF name # field.name THEN msg[name]
        ELSE IF field.label = "repeated" THEN <<value>> ELSE value]

\* setField() and addRepeatedField() of a message.
Assign(msg, field, value) ==
    [name \in DOMAIN msg \cup {field.name} |->
        CASE name # field.name -> msg[name]
          [] name = field.name /\ field.label # "repeated" -> value
          [] OTHER -> IF name \in DOMAIN msg THEN Append(msg[name], value) ELSE <<value>>]

\* skipField()
Skipped(msg) == msg

RECURSIVE ReadFields(_, _, _)
\* deserializeBinaryFromReader() of a class: the fields left on the wire into
\* what has been read of the message.
ReadFields(type, wire, msg) ==
    IF wire = <<>> THEN msg
    ELSE LET tag == Head(wire)
             start == IF tag.wire = "delimited" THEN 3 ELSE 2
             end == IF tag.wire = "delimited" THEN 2 + wire[2] ELSE 2
             payload == SubSeq(wire, start, end)
             Found(fields) ==
                 IF fields = <<>> THEN Skipped(msg)
                 ELSE LET field == fields[1]
                          value == IF IsMessage(field.type)
                                   THEN ReadFields(field.type, payload, <<>>)
                                   ELSE payload[1]
                      IN  Assign(msg, field, value)
             Known(field) == field.no = tag.no
         IN  ReadFields(type, SubSeq(wire, end + 1, Len(wire)),
                        Found(SelectSeq(Schema[type], Known)))

Deserialize(type, wire) == ReadFields(type, wire, <<>>)

\* What the peer of the connector gets of a message, and the other way round.
Received(type, msg) == Deserialize(type, Serialize(type, msg, <<>>))

-----------------------------------------------------------------------------
(* Samples of each type of message.                                         *)

RECURSIVE Full(_, _)
\* A message with every field set, as deep as "depth"; the elements of a
\* repeated field differ.
Full(type, depth) ==
    LET fields == {i \in DOMAIN Schema[type] :
                      IsMessage(Schema[type][i].type) => depth > 0}
        Value(field, k) ==
            IF IsMessage(field.type) THEN Full(field.type, depth - k)
            ELSE IF WireType(field.type) = "delimited" THEN <<"a", "b">>[k] ELSE k
    IN  [name \in {Schema[type][i].name : i \in fields} |->
            LET field == Schema[type][CHOOSE i \in fields : Schema[type][i].name = name]
            IN  IF field.label = "repeated"
                THEN [k \in 1 .. (IF IsMessage(field.type) /\ depth = 1 THEN 1 ELSE 2) |->
                         Value(field, k)]
                ELSE Value(field, 1)]

Keep(f, names) == [x \in DOMAIN f \cap names |-> f[x]]

\* All fields, one alone, and all but one.
FieldSets(type) ==
    LET names == {Schema[type][i].name : i \in DOMAIN Schema[type]}
    IN  {names} \cup {{x} : x \in names} \cup {names \ {x} : x \in names}

\* Its lower fields are there as far as "depth" allows.
Sample(type, names, depth) == Keep(Full(type, depth), names)

\* Fields no class knows, one with a length and one without.
Unknown == <<[no |-> 99, wire |-> "varint"], 1,
             [no |-> 98, wire |-> "delimited"], 2, [no |-> 1, wire |-> "varint"], 3>>
=============================================================================
