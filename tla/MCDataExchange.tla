-------------------------- MODULE MCDataExchange --------------------------
(* A file whose sites share a category with the page, need a new one and   *)
(* repeat an address; the rest of the instance is in the configuration.    *)
EXTENDS DataExchange

CONSTANTS n1, n2, n3, u1, u2, u3, t1, k1, a, p1, x1

Item(n, u) == [name |-> n, url |-> u, enabled |-> TRUE]

MCFile == <<Item(n2, u1), Item(n1, u1), Item(n2, u2)>>
=============================================================================
