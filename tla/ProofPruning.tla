---------------------------- MODULE ProofPruning ----------------------------
(***************************************************************************)
(* WithProofPruning (core/delegation/delegate.go, validator/               *)
(* proof_pruning.go): a draft is issued with every candidate proof, the    *)
(* proof search is run on it, and the delegation is issued again with the  *)
(* proofs the search used.  The search is Validator with the draft for the *)
(* invocation.                                                             *)
(***************************************************************************)
EXTENDS ValidatorReference

\* Mutant: attestations are not walked.
SelectPathOnly(auth) == {auth.path[k].link : k \in DOMAIN auth.path}

\* selectProofs walks the authorization with its proofs and attestations, on
\* every level.
SelectProofs(auth) == AuthLinks(auth)

\* pruneProofs leaves out the draft.
PruneProofs(auth) == SelectProofs(auth) \ {world.root}

\* A delegation and the proofs below it that are at hand.
Exported(link) ==
    LET Complete(S) == link \in S /\ \A l \in S : Range(Dlg(l).prfs) \cap Available \subseteq S
    IN  {l \in Link : \A S \in SUBSET Link : Complete(S) => l \in S}

\* The delegation issued again by the same signer: its proofs are prfs, each with
\* the blocks of its own chain only.
Reissued(prfs) ==
    LET draft  == Dlg(world.root)
        signer == [did |-> draft.iss, key |-> draft.sig.key, alg |-> draft.sig.alg]
        token  == [draft EXCEPT !.prfs = SetToSeq(prfs)]
        sig    == Sign(signer, SignaturePayload(token, signer.alg))
    IN  [dlg       |-> [world.dlg EXCEPT ![world.root] = [token EXCEPT !.sig = sig]],
         root      |-> world.root,
         attached  |-> {world.root} \cup UNION {Exported(p) : p \in prfs},
         server    |-> world.server,    options |-> world.options,
         revocable |-> world.revocable, altered |-> world.altered,
         horizon   |-> world.horizon]

PrunedWorld == Reissued(PruneProofs(ret.auth))

Pruned == INSTANCE ValidatorReference WITH world <- PrunedWorld

\* NewProofPruner validates the draft as a server without options does: nothing
\* is revoked, no proof is fetched and no DID resolved to a key.
ByPruner == world.server = "server" /\ world.options = ServerConfig

\* The pruned proofs authorize what all the candidates did, on their own: no
\* chain or attestation is cut (delegate.go 96-97 "the delegation is rebuilt
\* with only those proofs"; proof_pruning.go 113-169).
PrunedStillAuthorizes ==
    stage = "handled" /\ Quiet /\ ByPruner => Pruned!Authorizations(Pruned!Timely) # {}
=============================================================================
