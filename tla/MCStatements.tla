---------------------------- MODULE MCStatements ----------------------------
(* Bounds for model-checking Statements.                                    *)
EXTENDS Statements

CONSTANTS s1, s2

Op(type, name, params) == <<type, [name |-> name, params |-> params]>>
Lit(value) == <<"literal", value>>
Param(name) == <<"placeholder", name>>
Number(n) == <<"number", 100 * n>>
Chars == <<"string", <<"chars", "x">>>>

Path == <<[type |-> "member", value |-> "f"], [type |-> "arrayIndex", value |-> 1],
          [type |-> "doubleAsterisk"]>>
Field == <<"documentField", [documentPath |-> Path]>>
Col == <<"columnIdent", [documentPath |-> <<>>, name |-> "c", table |-> "t"]>>

\* The second placeholder of the criteria may be bound first.
Both(f) ==
    Op("andExpr", "&&",
       <<Op("compExpr", "==", <<f, Param("b")>>),
         Op("compExpr", ">", <<Param("a"), Op("castOp", "cast", <<f, <<"castType", <<"string", "CHAR">>>>>>)>>)>>)

Of(f) ==
    [criteria |-> {Both(f)} \cup (IF f = Col THEN {Op("compExpr", "==", <<f, Param("a")>>)} ELSE {}),
     order |-> {IF f = Col THEN [expr |-> f] ELSE [expr |-> f, direction |-> "DESC"]},
     projection |-> {[source |-> f], [source |-> <<"jsonDoc", <<<<"k", f>>>>>>, alias |-> "d"]},
     grouping |-> {f},
     having |-> {Op("compExpr", "<", <<f, Lit(Chars)>>)},
     operations |->
        {[type |-> "ITEM_SET", source |-> f[2], value |-> Number(1), isLiteral |-> TRUE],
         [type |-> "MERGE_PATCH", source |-> f[2], isLiteral |-> TRUE,
          value |-> <<"object", <<<<"k", <<"array", <<Number(2), <<"null">>>>>>>>,
                                  <<"u", <<"undefined">>>>>>>>],
         [type |-> "ARRAY_APPEND", source |-> f[2], isLiteral |-> FALSE,
          value |-> <<"functionCall", [name |-> [name |-> "fn", schema |-> "s"],
                                       params |-> <<f, <<"jsonArray", <<Lit(Number(3))>>>>>>]>>],
         [type |-> "SET", source |-> f[2], value |-> Param("a"), isLiteral |-> FALSE],
         [type |-> "ITEM_REMOVE", source |-> f[2]]}]

MCClauses == [k \in Kinds |-> Of(IF k \in Tables THEN Col ELSE Field)]

MCValues == {Number(1), Number(2), <<"array", <<Number(1)>>>>}
=============================================================================
