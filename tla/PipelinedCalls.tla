--------------------------- MODULE PipelinedCalls ---------------------------
(***************************************************************************)
(* What a connection with pipelining promises its callers: calls are        *)
(* answered in the order they were issued, each with what the server        *)
(* decided for that very call, and a lost connection rejects every call     *)
(* that is still open.  The caller's own side may abandon the oldest call.   *)
(***************************************************************************)
EXTENDS Naturals, Sequences

CONSTANTS Calls, Answers, Open, Gone, Abandoned

VARIABLES
    issued,   \* the calls, in the order they were made
    decided,  \* what the server decided for each call, or Open
    settled   \* what each call was settled with, or Open

callVars == <<issued, decided, settled>>

CallsInit ==
    /\ issued = <<>>
    /\ decided = [c \in Calls |-> Open]
    /\ settled = [c \in Calls |-> Open]

Issue(c) ==
    /\ \A i \in DOMAIN issued : issued[i] # c
    /\ issued' = Append(issued, c)
    /\ UNCHANGED <<decided, settled>>

\* The oldest undecided call, whatever was settled meanwhile, gets any answer.
Decide(i) ==
    /\ \A j \in DOMAIN issued : decided[issued[j]] = Open <=> j >= i
    /\ decided' \in [Calls -> Answers \cup {Open}]
    /\ \A c \in Calls : decided'[c] # decided[c] <=> c = issued[i]
    /\ UNCHANGED <<issued, settled>>

\* The oldest call that is not settled, with its own answer.
Settle(i) ==
    /\ \A j \in DOMAIN issued : settled[issued[j]] = Open <=> j >= i
    /\ decided[issued[i]] # Open
    /\ settled' = [settled EXCEPT ![issued[i]] = decided[issued[i]]]
    /\ UNCHANGED <<issued, decided>>

Abandon(i) ==
    /\ \A j \in DOMAIN issued : settled[issued[j]] = Open <=> j >= i
    /\ settled' = [settled EXCEPT ![issued[i]] = Abandoned]
    /\ UNCHANGED <<issued, decided>>

Lose ==
    /\ \E i \in DOMAIN issued : settled[issued[i]] = Open
    /\ settled' = [c \in Calls |->
          IF settled[c] = Open /\ \E i \in DOMAIN issued : issued[i] = c
          THEN Gone ELSE settled[c]]
    /\ UNCHANGED <<issued, decided>>

CallsNext ==
    \/ \E c \in Calls : Issue(c)
    \/ \E i \in DOMAIN issued : Decide(i) \/ Settle(i) \/ Abandon(i)
    \/ Lose

CallsSpec == CallsInit /\ [][CallsNext]_callVars
=============================================================================
