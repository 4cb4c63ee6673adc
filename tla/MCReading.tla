----------------------------- MODULE MCReading -----------------------------
(***************************************************************************)
(* What the connector reads, and sends, in five parts that do not depend on *)
(* each other: the stream of bytes cut into messages, a message or a value   *)
(* on its way through the wire, the rows of a result taken by the            *)
(* application, the statements that are never prepared, and the start and    *)
(* reset of a session.                                                      *)
(***************************************************************************)
EXTENDS Framing, Reading, Results, DirectStatements, Handshake

VARIABLE part

\* A stream of four messages: an empty payload, one byte, a payload and a last
\* one of one byte; in between the four bytes of a payload spell anything.
MCLengthAt ==
    [p \in 0 .. 22 |-> CASE p = 0 -> 4 [] p = 4 -> 5 [] p = 9 -> 9
                         [] p = 18 -> 5 [] OTHER -> 4 + (p % 3)]

\* Around zero, the largest number that is exact, and the ends of 64 bits;
\* a number, but not a BigInt, may also be beyond them.
Ends == {-16, -8, -7, -1, 0, 1, 7, 8, 31}

Scalars ==
    {Integer(n) : n \in Ends \cup {-40, 40}} \cup {BigInt(n) : n \in Ends}
    \cup {<<"number", h>> : h \in {-950, 5, 150}}
    \cup {JsNull, <<"boolean", TRUE>>, <<"date", "d">>, <<"buffer", <<"chars", "x">>>>,
          <<"string", <<"chars", "x">>>>}

MCArguments ==
    Scalars \cup
    {<<"array", <<>>>>, <<"object", <<>>>>,
     <<"array", <<JsNull, Integer(8), <<"object", <<<<"k", BigInt(8)>>>>>>>>>>}

MCDocuments ==
    {[isLiteral |-> TRUE, value |-> <<"object", <<<<"k", Integer(1)>>, <<"u", <<"undefined">>>>>>>>],
     [isLiteral |-> FALSE, value |-> <<"jsonDoc", <<<<"k", <<"functionCall",
         [name |-> [name |-> "f"], params |-> <<<<"literal", Integer(2)>>>>]>>>>>>>>]}

MCCells ==
    {[isLiteral |-> TRUE, value |-> Integer(1)], [isLiteral |-> TRUE, value |-> JsNull],
     [isLiteral |-> FALSE, value |-> <<"addSubExpr",
         [name |-> "+", params |-> <<<<"literal", Integer(1)>>, <<"literal", Integer(2)>>>>]>>]}

MCSqlValues == {Integer(1), Integer(2), <<"array", <<JsNull>>>>}

\* Servers of 5.7, of 8.0, and two whose configuration leaves out a mechanism
\* or a capability; accounts that log in with one hash, the cached other one,
\* over a channel the server trusts only, or not at all.
Versions ==
    {[attributes |-> FALSE, keepOpen |-> FALSE, mechanisms |-> {"MYSQL41"}],
     [attributes |-> TRUE, keepOpen |-> TRUE, mechanisms |-> {"MYSQL41", "SHA256_MEMORY"}],
     [attributes |-> TRUE, keepOpen |-> TRUE, mechanisms |-> {"SHA256_MEMORY"}],
     [attributes |-> FALSE, keepOpen |-> FALSE, mechanisms |-> {"MYSQL41", "SHA256_MEMORY"}]}

MCServers ==
    {[tls |-> tls, attributes |-> v.attributes, keepOpen |-> v.keepOpen,
      mechanisms |-> v.mechanisms, accepts |-> accepts] :
        tls \in BOOLEAN, v \in Versions,
        accepts \in {{"PLAIN", "MYSQL41"}, {"PLAIN", "SHA256_MEMORY"}, {"PLAIN"}, {}}}

MCInit ==
    /\ part \in {"stream", "value", "rows", "direct", "session"}
    /\ Init
    /\ IF part = "value" THEN ReadingInit
       ELSE item = <<>> /\ stage = "none" /\ wire = <<>> /\ result = <<>>
    /\ IF part = "rows" THEN ResultsInit
       ELSE /\ kind = "none" /\ results = <<>> /\ index = 0
            /\ sizes = <<>> /\ handed = <<>> /\ ended = {}
    /\ DirectInit
    /\ part # "direct" => shape = "add"
    /\ IF part = "session" THEN HandshakeInit
       ELSE /\ setup = CHOOSE x \in Setups : TRUE
            /\ server = CHOOSE x \in Servers : TRUE
            /\ HandshakeInit

MCNext ==
    /\ UNCHANGED part
    /\ \/ part = "stream" /\ Next
          /\ UNCHANGED <<readingVars, resultsVars, directVars, handshakeVars>>
       \/ part = "value" /\ ReadingNext
          /\ UNCHANGED <<vars, resultsVars, directVars, handshakeVars>>
       \/ part = "rows" /\ ResultsNext
          /\ UNCHANGED <<vars, readingVars, directVars, handshakeVars>>
       \/ part = "direct" /\ DirectNext
          /\ UNCHANGED <<vars, readingVars, resultsVars, handshakeVars>>
       \/ part = "session" /\ HandshakeNext
          /\ UNCHANGED <<vars, readingVars, resultsVars, directVars>>

MCSpec ==
    MCInit /\ [][MCNext]_<<part, vars, readingVars, resultsVars, directVars, handshakeVars>>
=============================================================================
