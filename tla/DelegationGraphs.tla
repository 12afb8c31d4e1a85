-------------------------- MODULE DelegationGraphs --------------------------
(***************************************************************************)
(* Principals, tokens and delegation graphs for the model-checking         *)
(* instances of Validator.  Bob invokes upload/add on Alice's space; p, q  *)
(* and r are proofs on the way from Alice to Bob, a and b attestations.    *)
(***************************************************************************)
EXTENDS ServerOptions

Alice    == <<"did:key:", Ed25519, "alice">>
Bob      == <<"did:key:", Ed25519, "bob">>
Carol    == <<"did:key:", Ed25519, "carol">>
Rob      == <<"did:key:", RSA, "rob">>
Account  == <<"did:mailto:", "account">>
Attestor == <<"did:web:", "attestor">>
Other    == <<"did:web:", "other">>

MCService    == <<"did:web:", "service">>
MCServiceKey == <<"did:key:", Ed25519, "service">>

MCLink == {"inv", "p", "q", "r", "a", "b"}
MCCaveats == MCLink \cup {"n"}

Add     == <<"upload/", "add">>
Anyhow  == "n"
Cap(can, with) == [can |-> can, with |-> with, nb |-> Anyhow]
AttestCap(with, link) == [can |-> Attest, with |-> with, nb |-> link]

AddAlice   == Cap(Add, Alice)
AllAlice   == Cap(<<"upload/", "*">>, Alice)
Everything == Cap(<<"*">>, UcanStar)
ListAlice  == Cap(<<"upload/", "list">>, Alice)
AddKeys    == Cap(Add, <<"did:key:", "*">>)
AddRob     == Cap(Add, Rob)

MCProvided ==
    [can     |-> Add,
     with    |-> {Alice, Bob, Carol, Rob, Account, UcanStar, <<"did:key:", "*">>},
     nb      |-> {Anyhow},
     derives |-> {<<Anyhow, Anyhow>>}]

----------------------------------------------------------------------------
(* Tokens, as their issuers sign them.                                     *)

\* A did:key signs with its own key, the service with its key under its DID,
\* anyone else not at all.
SignerOf(did) ==
    CASE IsKeyDID(did) -> KeySigner(did)
      [] did = MCService -> WrapSigner(KeySigner(MCServiceKey), MCService)
      [] OTHER -> Absentee(did)

Forever(prfs) == WithNoExpiration(WithProof(UcanConfig, prfs))

Until(exp) == WithExpiration(UcanConfig, exp)

Plain(iss, aud, caps, prfs) == Issue(SignerOf(iss), aud, caps, Forever(prfs), 0)

SignedBy(signer, aud, caps, prfs) == Issue(signer, aud, caps, Forever(prfs), 0)

Inv(prfs) == Plain(Bob, MCService, <<AddAlice>>, prfs)
Unused    == Plain(Carol, Carol, <<ListAlice>>, <<>>)

----------------------------------------------------------------------------
(* Servers and graphs.                                                     *)

Attestors == {[can |-> Attest, with |-> MCService, aud |-> Attestor]}

\* A server with a revocation store, that knows the key of the account and takes
\* the attestor's word.
Options ==
    LET revocations == WithOption(ServerConfig, "validateAuthorization", TRUE)
        resolver    == WithOption(revocations, "resolveDIDKey", [d \in {Account} |-> Bob])
    IN  WithOption(resolver, "authorityProofs", Attestors)

Graph(dlg, attached, revocable) ==
    [dlg       |-> [l \in MCLink |-> IF l \in DOMAIN dlg THEN dlg[l] ELSE Unused],
     root      |-> "inv",
     attached  |-> attached \cup {"inv"},
     server    |-> "server",
     options   |-> Options,
     revocable |-> revocable,
     altered   |-> {},
     horizon   |-> 3]

\* The same at one instant, with nothing revoked.
Still(graph) == [graph EXCEPT !.horizon = 1, !.revocable = {}]

WithoutOptions(graph) == [graph EXCEPT !.options = ServerConfig]
=============================================================================
