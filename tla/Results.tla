------------------------------ MODULE Results ------------------------------
(***************************************************************************)
(* The cursors of a result: RowResult.js and SqlResult.js, over the result   *)
(* sets of a statement, and DocResult.js over the one of a find().           *)
(***************************************************************************)
EXTENDS Integers, Sequences, SequencesExt

CONSTANTS
    MaxSets,  \* bound on the result sets of a statement
    MaxRows   \* bound on the rows of each

VARIABLES
    kind,     \* "row" or "doc"
    results,  \* the rows that are left, set by set
    index,    \* the set the cursor of a RowResult is in
    sizes,    \* history: the rows each set had
    handed,   \* history: the rows the application got, with their sets
    ended     \* history: the sets the application took for finished

resultsVars == <<kind, results, index, sizes, handed, ended>>

\* A row that was taken is null; so is a set without any left.
NoRow == 0
NoSet == <<NoRow>>

Rows(n) == [i \in 1 .. n |-> i]

ResultsInit ==
    /\ kind \in {"row", "doc"}
    /\ sizes \in BoundedSeq(0 .. MaxRows, MaxSets)
    /\ kind = "doc" => Len(sizes) = 1
    /\ results = [s \in DOMAIN sizes |-> Rows(sizes[s])]
    /\ index = 1
    /\ handed = <<>>
    /\ ended = {}

\* results[index] || []
Current ==
    IF index \in DOMAIN results /\ results[index] # NoSet THEN results[index] ELSE <<>>

Hand(s, rows) ==
    handed' = handed \o [i \in DOMAIN rows |-> [set |-> s, row |-> rows[i]]]

-----------------------------------------------------------------------------
(* RowResult.js.                                                            *)

\* (it begins at the last row that was taken)
startIndexMutant(rows) ==
    LET last == SelectLastInSeq(rows, LAMBDA row : row = NoRow)
    IN  IF last = 0 THEN 1 ELSE last

\* The first row after those that were taken.
startIndex(rows) == SelectLastInSeq(rows, LAMBDA row : row = NoRow) + 1

RowFetchAll ==
    /\ kind = "row"
    /\ Hand(index, SubSeq(Current, startIndex(Current), Len(Current)))
    /\ results' = IF Current # <<>> THEN [results EXCEPT ![index] = NoSet] ELSE results
    /\ ended' = ended \cup {index}
    /\ UNCHANGED <<kind, index, sizes>>

\* What is left of a set when a row is taken.
taken(rows, i) == IF i = Len(rows) THEN NoSet ELSE [rows EXCEPT ![i] = NoRow]

RowFetchOne ==
    /\ kind = "row"
    /\ LET i == SelectInSeq(Current, LAMBDA row : row # NoRow)
       IN  IF i = 0
           THEN /\ ended' = ended \cup {index}
                /\ UNCHANGED <<results, handed>>
           ELSE /\ Hand(index, <<Current[i]>>)
                /\ results' = [results EXCEPT ![index] = taken(Current, i)]
                /\ UNCHANGED ended
    /\ UNCHANGED <<kind, index, sizes>>

\* nextResult() answers whether there is another set, and moves on anyway.
RowNextResult ==
    /\ kind = "row"
    /\ index <= MaxSets
    /\ index' = index + 1
    /\ UNCHANGED <<kind, results, sizes, handed, ended>>

-----------------------------------------------------------------------------
(* DocResult.js: what is taken is removed from the list.                    *)

DocFetchAll ==
    /\ kind = "doc"
    /\ Hand(1, IF results = <<>> THEN <<>> ELSE results[1])
    /\ results' = <<>>
    /\ ended' = ended \cup {1}
    /\ UNCHANGED <<kind, index, sizes>>

DocFetchOne ==
    /\ kind = "doc"
    /\ IF results = <<>> \/ results[1] = <<>>
       THEN /\ ended' = ended \cup {1}
            /\ UNCHANGED <<results, handed>>
       ELSE /\ Hand(1, <<Head(results[1])>>)
            /\ results' = <<Tail(results[1])>>
            /\ UNCHANGED ended
    /\ UNCHANGED <<kind, index, sizes>>

ResultsNext ==
    RowFetchAll \/ RowFetchOne \/ RowNextResult \/ DocFetchAll \/ DocFetchOne

ResultsSpec == ResultsInit /\ [][ResultsNext]_resultsVars

-----------------------------------------------------------------------------

Got(s, r) == \E i \in DOMAIN handed : handed[i].set = s /\ handed[i].row = r

\* However fetchOne(), fetchAll() and nextResult() are mixed, the application
\* gets the rows of each result set once and in their order, none left out, one
\* set after the other; and when it is told that there are no more, it has got
\* them all.
EveryRowOnce ==
    /\ \A i, j \in DOMAIN handed : i < j =>
          \/ handed[i].set < handed[j].set
          \/ handed[i].set = handed[j].set /\ handed[i].row < handed[j].row
    /\ \A i \in DOMAIN handed : \A r \in 1 .. handed[i].row : Got(handed[i].set, r)
    /\ \A s \in ended \cap DOMAIN sizes : \A r \in 1 .. sizes[s] : Got(s, r)
    /\ \A i \in DOMAIN handed :
          handed[i].set \in DOMAIN sizes /\ handed[i].row \in 1 .. sizes[handed[i].set]
=============================================================================
