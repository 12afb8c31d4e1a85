--------------------------- MODULE MinimalPruning ---------------------------
(***************************************************************************)
(* Which of the pruned proofs could be left out as well (core/delegation/  *)
(* delegate.go, validator/proof_pruning.go).                               *)
(***************************************************************************)
EXTENDS ProofPruning

\* Without one of the pruned proofs.
Without(l) == INSTANCE ValidatorReference WITH world <- Reissued(PruneProofs(ret.auth) \ {l})

\* "The pruner selects the minimal subset of proofs that form a valid chain"
\* (delegate.go 91-92, 95): without any one of them the rest authorizes nothing.
PrunedIsMinimal ==
    stage = "handled" /\ Quiet /\ ByPruner
        => \A l \in PruneProofs(ret.auth) :
              Without(l)!Authorizations(Without(l)!Timely) = {}
=============================================================================
