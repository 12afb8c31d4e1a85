---------------------------- MODULE MCRetrieval ----------------------------
(***************************************************************************)
(* Two clients of one retrieval server.  The first has to send its         *)
(* invocation in parts because the header is too large, the second if the  *)
(* server says so; both rest on q, the first in two ways.                  *)
(***************************************************************************)
EXTENDS Retrieval

MCLink == {"i1", "i2", "p", "q"}
MCBlock == MCLink \cup {"x"}

MCClient == {"c1", "c2"}
MCRoot == [c1 |-> "i1", c2 |-> "i2"]

MCProofs == [i1 |-> <<"p", "q">>, i2 |-> <<"q">>, p |-> <<"q">>, q |-> <<>>]

MCRank == [i1 |-> 2, i2 |-> 1, p |-> 1, q |-> 0]

MCAttached == [c1 |-> {"i1", "p", "q"}, c2 |-> {"i2", "q"}]
MCExtra == [c1 |-> {"x"}, c2 |-> {}]

MCTooLarge(blocks) == Cardinality(blocks) > 3
MCMayReject(blocks) == Cardinality(blocks) > 1

\* A cache for every delegation, and one that has to displace some.
Roomy == {4}
SmallAndRoomy == {1, 4}

Delivered == {200, 206}
AnyStatus == {206, 404}
=============================================================================
