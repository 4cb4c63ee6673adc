-------------------------- MODULE MCConnectionPool --------------------------
(* ConnectionPool with symmetric requests and connections. *)
EXTENDS ConnectionPool, TLC

\* One connection instance per request is enough: a request takes one at most.
Symmetry == Permutations(Requests) \cup Permutations(Conns)
=============================================================================
