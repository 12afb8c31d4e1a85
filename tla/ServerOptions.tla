--------------------------- MODULE ServerOptions ---------------------------
(***************************************************************************)
(* What the options of a server, or of a retrieval server, make of the     *)
(* context its handlers validate invocations with (server/options.go,      *)
(* server/retrieval/options.go and the two NewServer).                     *)
(*                                                                         *)
(* A function passed as an option is what it answers: canIssue the pairs   *)
(* of resource and issuer it accepts, resolveProof the links it resolves,  *)
(* parsePrincipal the codecs of the keys it parses, resolveDIDKey a        *)
(* function from DIDs to did:keys, validateTimeBounds the delegations it   *)
(* accepts whatever the time, validateAuthorization whether it looks at    *)
(* the revocation store at all.                                            *)
(***************************************************************************)
EXTENDS Ucan

CONSTANT Unset   \* nil

\* No option given.
ServerConfig ==
    [canIssue |-> Unset, validateAuthorization |-> Unset, resolveProof |-> Unset,
     parsePrincipal |-> Unset, resolveDIDKey |-> Unset, validateTimeBounds |-> Unset,
     authorityProofs |-> {}, altAudiences |-> {}]

\* An option sets a field; of two options for one field the last one counts.
WithOption(cfg, field, value) == [cfg EXCEPT ![field] = value]

SelfIssued == {p \in Str \X Str : IsSelfIssued(p[1], p[2])}

\* The context of a server: the options that were given, and a default for each
\* of the others: the resource names its issuer, nothing is revoked, no proof and
\* no DID is resolved, keys are Ed25519, and a delegation is used while it is
\* neither expired nor too early (Unset stays: NotExpiredNotTooEarly).
NewServer(cfg) ==
    LET Or(field, default) == IF cfg[field] = Unset THEN default ELSE cfg[field]
    IN  [canIssue              |-> Or("canIssue", SelfIssued),
         validateAuthorization |-> Or("validateAuthorization", FALSE),
         resolveProof          |-> Or("resolveProof", {}),
         parsePrincipal        |-> Or("parsePrincipal", {Ed25519}),
         resolveDIDKey         |-> Or("resolveDIDKey", <<>>),
         validateTimeBounds    |-> cfg.validateTimeBounds,
         authorityProofs       |-> cfg.authorityProofs,
         altAudiences          |-> cfg.altAudiences]

\* The options a retrieval server passes on to the server inside it.
Forwarded == {"canIssue", "validateAuthorization", "resolveProof", "parsePrincipal",
              "resolveDIDKey", "authorityProofs"}

NewRetrievalServer(cfg) ==
    NewServer([field \in DOMAIN cfg |->
                  IF field \in Forwarded THEN cfg[field] ELSE ServerConfig[field]])
=============================================================================
