----------------------------- MODULE Principals -----------------------------
(***************************************************************************)
(* DIDs, signers and verifiers (did/, principal/, ucan/crypto/signature).  *)
(*                                                                         *)
(* Strings.  A DID, a resource and an ability are sequences of the parts   *)
(* the code tells apart: <<"did:key:", "z6Mk", "alice">>, <<"store/",      *)
(* "add">>.  A final part "*" is the wildcard, so HasSuffix(s, "*") is a   *)
(* test of the last part and HasPrefix is IsPrefix.  Every part of an      *)
(* ability but the last ends in a slash, which makes the suffix "/*" such  *)
(* a test as well.                                                         *)
(***************************************************************************)
EXTENDS Integers, SequencesExt

Str == Seq(STRING)

----------------------------------------------------------------------------
(* Keys.  A did:key is the public key: its second part is the multicodec   *)
(* of the key, Ed25519 or RSA, as it shows in base58.                      *)

IsKeyDID(did) == Head(did) = "did:key:"

Ed25519 == "z6Mk"
RSA     == "z4MX"

SignatureAlgorithm(codec) ==
    CASE codec = Ed25519 -> "EdDSA"
      [] codec = RSA     -> "RS256"

\* The algorithms that have a name: CodeName fails for any other code.
CodeNames == {"ES256K", "BLS12381G1", "BLS12381G2", "EdDSA", "ES256", "ES384",
              "ES512", "RS256", "EIP191"}

\* A signature of a payload made with a key, under the name of an algorithm.
Signature(alg, key, payload) == [alg |-> alg, key |-> key, over |-> payload]

----------------------------------------------------------------------------
(* Signers [did, key, alg].                                                *)

KeySigner(did) == [did |-> did, key |-> did, alg |-> SignatureAlgorithm(did[2])]

\* A did:key signer under another DID.
WrapSigner(signer, did) == [signer EXCEPT !.did = did]

\* Signs with an empty signature, no key's, under a non-standard algorithm
\* without a name.
Absentee(did) == [did |-> did, key |-> <<>>, alg |-> ""]

Sign(signer, payload) == Signature(signer.alg, signer.key, payload)

----------------------------------------------------------------------------
(* Verifiers [did, key].                                                   *)

KeyVerifier(did) == [did |-> did, key |-> did]

WrapVerifier(verifier, did) == [verifier EXCEPT !.did = did]

\* A parser for keys of these codecs takes the string of a DID for a key.
Parses(codecs, did) == IsKeyDID(did) /\ did[2] \in codecs

Verify(verifier, payload, sig) ==
    /\ sig.alg = SignatureAlgorithm(verifier.key[2])
    /\ sig.key = verifier.key
    /\ sig.over = payload
=============================================================================
