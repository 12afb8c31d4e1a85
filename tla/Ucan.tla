-------------------------------- MODULE Ucan --------------------------------
(***************************************************************************)
(* UCAN tokens: how they are issued, and the pure questions the validator  *)
(* asks of them: time bounds, signatures, and whether a delegated          *)
(* capability covers a claimed one (ucan/lib.go, validator/capability.go). *)
(***************************************************************************)
EXTENDS Principals

CONSTANT NoExpiration   \* the nil expiration of a token valid forever

ASSUME NoExpirationAssumption == NoExpiration \notin Int

----------------------------------------------------------------------------
(* Issuing.  Options update the configuration of a token in the order they *)
(* are given.                                                              *)

UcanConfig == [expires |-> "in30s", exp |-> 0, nbf |-> 0, prfs |-> <<>>]

WithExpiration(cfg, exp) == [cfg EXCEPT !.expires = "at", !.exp = exp]
WithNoExpiration(cfg)    == [cfg EXCEPT !.expires = "never"]
WithNotBefore(cfg, nbf)  == [cfg EXCEPT !.nbf = nbf]
WithProof(cfg, prfs)     == [cfg EXCEPT !.prfs = prfs]

\* 30 seconds from now where nothing is set.
Expiration(cfg, time) ==
    CASE cfg.expires = "in30s" -> time + 30
      [] cfg.expires = "at"    -> cfg.exp
      [] cfg.expires = "never" -> NoExpiration

\* Mutant: the not-before time is left out of what is signed.
SignaturePayloadWithoutNbf(ucan, alg) ==
    [iss |-> ucan.iss, aud |-> ucan.aud, att |-> ucan.caps, prf |-> ucan.prfs,
     exp |-> ucan.exp, nbf |-> 0, alg |-> alg]

\* What is signed: every field, and the algorithm (in the header).
SignaturePayload(ucan, alg) ==
    [iss |-> ucan.iss, aud |-> ucan.aud, att |-> ucan.caps, prf |-> ucan.prfs,
     exp |-> ucan.exp, nbf |-> ucan.nbf, alg |-> alg]

Issue(signer, audience, caps, cfg, time) ==
    LET ucan == [iss |-> signer.did, aud |-> audience, caps |-> caps, prfs |-> cfg.prfs,
                 exp |-> Expiration(cfg, time), nbf |-> cfg.nbf, sig |-> "unsigned"]
    IN  [ucan EXCEPT !.sig = Sign(signer, SignaturePayload(ucan, signer.alg))]

----------------------------------------------------------------------------
(* Time bounds, in seconds.                                                *)

\* Mutant: a token is still good in the second it expires.
IsExpiredAfter(ucan, now) == ucan.exp # NoExpiration /\ ucan.exp < now

IsExpired(ucan, now) == ucan.exp # NoExpiration /\ ucan.exp <= now

IsTooEarly(ucan, now) == ucan.nbf # 0 /\ now <= ucan.nbf

----------------------------------------------------------------------------
(* Signatures.  The verdict is "ok" or the error of the validator.         *)

VerifySignature(ucan, verifier) ==
    LET alg == ucan.sig.alg
    IN  IF alg \notin CodeNames
        THEN "UnverifiableSignature"
        ELSE IF ucan.iss = verifier.did /\ Verify(verifier, SignaturePayload(ucan, alg), ucan.sig)
        THEN "ok"
        ELSE "InvalidSignature"

----------------------------------------------------------------------------
(* Capabilities [can, with, nb].                                           *)

IsWildcard(s) == s # <<>> /\ Last(s) = "*"

UcanStar == <<"ucan:", "*">>
Attest   == <<"ucan/", "attest">>

\* Evident, but the provers have no facts about string literals.
ASSUME AttestAssumption == Attest \in Str

\* The delegated ability `pattern` covers the claimed ability `can`.
ResolveAbility(pattern, can) ==
    \/ pattern = can
    \/ IsWildcard(pattern) /\ IsPrefix(Front(pattern), can)

\* The claimed resource where the delegated one is equal to it or is ucan:*,
\* otherwise the delegated resource itself.
ResolveResource(source, uri) ==
    IF source = UcanStar THEN uri ELSE source

DefaultDerives(claimed, delegated) ==
    IF IsWildcard(delegated.with)
    THEN IsPrefix(Front(delegated.with), claimed.with)
    ELSE delegated.with = claimed.with

(***************************************************************************)
(* A descriptor [can, with, nb, derives] is what a handler is registered   *)
(* with: the ability, the sets of resources and of caveats its schemas     *)
(* read, and the pairs <<claimed nb, delegated nb>> its derivation check   *)
(* accepts on top of DefaultDerives.                                       *)
(***************************************************************************)
Reads(desc, with, nb) == with \in desc.with /\ nb \in desc.nb

Derives(desc, claimed, delegated) ==
    /\ DefaultDerives(claimed, delegated)
    /\ <<claimed.nb, delegated.nb>> \in desc.derives

\* Selection of a claim: the capability must be the descriptor's own.
ParseCapability(desc, cap) == cap.can = desc.can /\ Reads(desc, cap.with, cap.nb)

\* What a delegated capability amounts to for a claimed one: the caveats are
\* the claimed ones.
ResolveCapability(claimed, cap) ==
    [can  |-> claimed.can,
     with |-> ResolveResource(cap.with, claimed.with),
     nb   |-> claimed.nb]

\* Selection among delegated capabilities.
SelectCapability(desc, claimed, cap) ==
    LET resolved == ResolveCapability(claimed, cap)
    IN  /\ ResolveAbility(cap.can, claimed.can)
        /\ Reads(desc, resolved.with, resolved.nb)
        /\ Derives(desc, claimed, resolved)

\* The default canIssue: whoever the resource names may issue for it.
IsSelfIssued(with, issuer) == with = issuer
=============================================================================
