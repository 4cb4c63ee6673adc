-------------------------- MODULE ConnectionLeases --------------------------
(***************************************************************************)
(* What a connection pool promises its callers, whatever lists and counters *)
(* it keeps: a call leases at most one connection, a connection is leased to *)
(* one call at a time, at most MaxSize connections are leased at once, and   *)
(* nothing is leased any more once the pool has begun to close.              *)
(***************************************************************************)
EXTENDS Naturals, FiniteSets

CONSTANTS Conns, Requests, MaxSize, NoConn

VARIABLES
    lease,  \* the connection each call holds, or NoConn
    served, \* the calls that were ever given a lease
    open    \* the pool accepts calls

leaseVars == <<lease, served, open>>

Holders == {r \in Requests : lease[r] # NoConn}
LeasedConns == {lease[r] : r \in Holders}

LeaseInit ==
    /\ lease = [r \in Requests |-> NoConn]
    /\ served = {}
    /\ open = TRUE

Acquire(r, c) ==
    /\ open
    /\ r \notin served
    /\ c \notin LeasedConns
    /\ Cardinality(Holders) < MaxSize
    /\ lease' = [lease EXCEPT ![r] = c]
    /\ served' = served \cup {r}
    /\ UNCHANGED open

\* The pool notices that the calls in S are done with their connections.
Release(S) ==
    /\ S # {}
    /\ lease' = [r \in Requests |-> IF r \in S THEN NoConn ELSE lease[r]]
    /\ UNCHANGED <<served, open>>

Close ==
    /\ open
    /\ open' = FALSE
    /\ UNCHANGED <<lease, served>>

LeaseNext ==
    \/ \E r \in Requests, c \in Conns : Acquire(r, c)
    \/ \E S \in SUBSET Holders : Release(S)
    \/ Close

LeaseSpec == LeaseInit /\ [][LeaseNext]_leaseVars
=============================================================================
