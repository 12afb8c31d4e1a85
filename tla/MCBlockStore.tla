---------------------------- MODULE MCBlockStore ----------------------------
(***************************************************************************)
(* A goroutine that puts, one that gets and one that iterates; or two that *)
(* put.                                                                    *)
(***************************************************************************)
EXTENDS BlockStore

MCThread == {"w", "x", "y"}
MCBlock == {"a", "b", "c"}
OnePutter == {"w"}
TwoPutters == {"w", "x"}
Others == {"x", "y"}
OneGetter == {"x"}
OneIterator == {"y"}
MCCapacities == {1, 3}
=============================================================================
