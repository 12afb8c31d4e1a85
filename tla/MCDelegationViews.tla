------------------------- MODULE MCDelegationViews -------------------------
(***************************************************************************)
(* An invocation i with the proof p, whose proof q is shared by u.         *)
(***************************************************************************)
EXTENDS DelegationViews

MCLink == {"q", "p", "i", "u"}
MCProofs == [q |-> <<>>, p |-> <<"q">>, i |-> <<"p">>, u |-> <<"q">>]
MCReceipt == {"rc"}
MCRan == [rc |-> "i"]
MCRefs == [rc |-> {"u"}]
MCExtra == {"x"}
=============================================================================
