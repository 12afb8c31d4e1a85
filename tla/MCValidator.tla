---------------------------- MODULE MCValidator ----------------------------
(***************************************************************************)
(* Small families of delegation graphs: against the clock and revocations, *)
(* for the options of a server and the signatures of tokens, and, at one   *)
(* instant, against the reference definition and for pruning.              *)
(***************************************************************************)
EXTENDS MinimalPruning, DelegationGraphs

----------------------------------------------------------------------------
(* Searching: two proofs of the invocation, one of which may rest on r.    *)

PDirect == {Plain(Alice, Bob, <<c>>, <<>>) : c \in {AddAlice, Everything, ListAlice}}
PTimed  == {Issue(KeySigner(Alice), Bob, <<AddAlice>>, cfg, -28) :
                cfg \in {Until(1), UcanConfig, WithNotBefore(Until(3), 2),
                         WithNotBefore(Until(3), 1), WithNotBefore(Until(2), 1),
                         WithNotBefore(Forever(<<>>), 1)}}
PBad    == {SignedBy(WrapSigner(KeySigner(Carol), Alice), Bob, <<AddAlice>>, <<>>),
            Plain(Alice, Carol, <<AddAlice>>, <<>>)}
PVia    == {Plain(Carol, Bob, <<ListAlice, c>>, <<"r">>) :
                c \in {AddAlice, Everything, AddKeys}}
RVia    == {Plain(Alice, Carol, <<AllAlice>>, <<>>), Plain(Alice, Bob, <<AllAlice>>, <<>>)}

TimedWorlds ==
    {Graph([inv |-> Inv(<<"p", "q">>), p |-> p, q |-> q, r |-> r],
           {"p", "q", "r"}, {"p", "r"}) :
        p \in PDirect \cup PTimed \cup PBad, q \in PVia, r \in RVia}
    \cup
    {Graph([inv |-> Plain(i, x, <<AddAlice>>, <<"p">>), p |-> Plain(Alice, Bob, <<AddAlice>>, <<>>)],
           attached, {"inv"}) :
        i \in {Alice, Bob}, x \in {MCService, Other, Carol}, attached \in {{}, {"p"}}}

----------------------------------------------------------------------------
(* Sessions: p is issued by an account, whose key may be known; a and b    *)
(* attest p or each other.                                                 *)

AAttestations ==
    {Plain(MCService, Bob, <<AttestCap(MCService, "p")>>, <<>>),
     SignedBy(WrapSigner(KeySigner(Carol), MCService), Bob, <<AttestCap(MCService, "p")>>, <<>>),
     Plain(Attestor, Bob, <<AttestCap(Attestor, "p")>>, <<>>),
     Plain(Attestor, Bob, <<AttestCap(MCService, "p")>>, <<>>),
     Issue(Absentee(Attestor), Bob, <<AttestCap(Attestor, "p")>>, Until(2), 0)}

BAttestations ==
    {Plain(MCService, Bob, <<AttestCap(MCService, "a")>>, <<>>),
     Plain(Attestor,  Bob, <<AttestCap(Attestor, "a")>>,  <<>>),
     Plain(MCService, Bob, <<AttestCap(MCService, "q")>>, <<>>)}

AccountSigners == {Absentee(Account), WrapSigner(KeySigner(Bob), Account)}

SessionWorlds ==
    {Graph([inv |-> Inv(<<"p", "a", "b">>),
            p   |-> SignedBy(signer, Bob, <<AddAlice>>, <<"r">>),
            r   |-> Plain(Alice, Account, <<AllAlice>>, <<>>),
            a   |-> a, b |-> b],
           {"p", "r", "a", "b"}, {"a", "b"}) :
        signer \in AccountSigners, a \in AAttestations, b \in BAttestations}

----------------------------------------------------------------------------
(* Signatures: p is what its issuer signed, or was changed afterwards, for *)
(* keys of both kinds and parsers of one or of both; where an account      *)
(* issued it, a may attest to it.                                          *)

Signed2 == {Issue(signer, Bob, <<cap>>, WithNotBefore(Until(3), 2), 0) :
               signer \in {KeySigner(Alice), Absentee(Alice), KeySigner(Rob),
                           WrapSigner(KeySigner(Bob), Account),
                           WrapSigner(KeySigner(Rob), Account), Absentee(Account)},
               cap \in {AddAlice, AddRob}}

AlteredTokens(token) ==
    {[token EXCEPT !.exp = NoExpiration], [token EXCEPT !.nbf = 0],
     [token EXCEPT !.caps = <<AddAlice, AddRob>>], [token EXCEPT !.prfs = <<"r">>]}

WithKeys == {WithOption(Options, "parsePrincipal", codecs) : codecs \in {{Ed25519}, {Ed25519, RSA}}}

SigningWorlds ==
    {[Still(Graph([inv |-> Plain(Bob, MCService, <<AddAlice, AddRob>>, <<"p", "a">>),
                   p |-> p, r |-> Plain(Alice, Account, <<AllAlice>>, <<>>),
                   a |-> Plain(MCService, Bob, <<AttestCap(MCService, "p")>>, <<>>)],
                  attached, {}))
        EXCEPT !.altered = IF p \in Signed2 THEN {} ELSE {"p"}, !.options = options,
               !.horizon = 3] :
        p \in UNION {AlteredTokens(token) \cup {token} : token \in Signed2},
        attached \in {{"p", "r"}, {"p", "r", "a"}},
        options \in WithKeys}

----------------------------------------------------------------------------
(* Options: each of them given or not, to a server or a retrieval server.  *)

OptionSets ==
    {ServerConfig,
     WithOption(ServerConfig, "resolveProof", {"p"}),
     WithOption(ServerConfig, "canIssue", {<<Alice, Bob>>}),
     WithOption(Options, "altAudiences", {Other}),
     WithOption(WithOption(ServerConfig, "altAudiences", {Carol}), "altAudiences", {Other}),
     WithOption(Options, "validateTimeBounds", {"inv", "p"}),
     WithOption(Options, "validateTimeBounds", {"inv"})}

OptionWorlds ==
    {[Graph([inv |-> Plain(Bob, aud, <<AddAlice>>, <<"p">>), p |-> p], attached, {"p"})
        EXCEPT !.options = options, !.server = server] :
        aud \in {MCService, Other},
        p \in {Issue(KeySigner(Alice), Bob, <<AddAlice>>, Until(2), 0), Plain(Carol, Bob, <<AddAlice>>, <<>>)},
        attached \in {{}, {"p"}},
        options \in OptionSets, server \in {"server", "retrieval"}}

----------------------------------------------------------------------------
(* A proof without capabilities, beside one by an account or not, aligned  *)
(* or not, and below the invocation or the invocation itself.              *)

EmptyWorlds ==
    {Still(Graph([inv |-> Plain(Bob, MCService, caps, <<"p", "q">>),
                  p |-> SignedBy(signer, Bob, pcaps, <<"r">>),
                  q |-> Plain(Carol, aud, <<>>, <<>>),
                  r |-> Plain(Alice, Account, <<AllAlice>>, <<>>)],
                 attached, {})) :
        caps \in {<<AddAlice>>, <<>>},
        signer \in AccountSigners \cup {KeySigner(Alice)}, pcaps \in {<<AddAlice>>, <<>>},
        aud \in {Bob, Carol}, attached \in {{"p", "r"}, {"p", "q", "r"}}}

----------------------------------------------------------------------------
(* Searching at one instant: every proof is by the right or the wrong      *)
(* principal, for the right or the wrong audience, rests on others or not. *)
(* The server has no options, which is what a proof is pruned with.        *)

Abilities == {<<AddAlice>>, <<ListAlice, Everything>>, <<AddKeys, AllAlice>>}

P == {Plain(iss, Bob, caps, prfs) :
        iss \in {Alice, Carol}, caps \in Abilities, prfs \in {<<>>, <<"q", "r">>}}
Q == {Plain(iss, aud, caps, prfs) :
        iss \in {Alice, Bob}, aud \in {Bob, Carol}, caps \in Abilities,
        prfs \in {<<>>, <<"r">>}}
R == {Issue(x[1], aud, <<x[2]>>, Until(x[3]), 0) :
        aud \in {Bob, Carol},
        x \in {<<KeySigner(Alice), AddAlice, 2>>, <<KeySigner(Alice), AddAlice, 1>>,
               <<WrapSigner(KeySigner(Bob), Alice), AddAlice, 2>>,
               <<KeySigner(Alice), ListAlice, 2>>}}

SearchWorlds ==
    {WithoutOptions(Still(Graph([inv |-> Inv(prfs), p |-> p, q |-> q, r |-> r],
                                {"p", "q", "r"}, {}))) :
        prfs \in {<<"p", "q">>, <<"q", "p">>}, p \in P, q \in Q, r \in R}

----------------------------------------------------------------------------
(* Sessions at one instant: p is by an account; a attests p, and b attests *)
(* p or a, on their own authority or on one that r gives them.             *)

AttestTokens(links, bounds) ==
    {Issue(SignerOf(iss), Bob, <<AttestCap(with, l)>>, WithProof(cfg, prfs), 0) :
        iss \in {MCService, Attestor}, with \in {MCService, Attestor},
        l \in links, prfs \in {<<>>, <<"r">>}, cfg \in bounds}

AttestingWorlds ==
    {[Still(Graph([inv |-> Inv(prfs),
                   p |-> SignedBy(signer, Bob, <<AddAlice>>, <<"q">>),
                   q |-> Plain(Alice, Account, <<AllAlice>>, <<>>),
                   r |-> Plain(MCService, Attestor, <<AttestCap(MCService, "p")>>, <<>>),
                   a |-> a, b |-> b],
                  {"p", "q", "r", "a", "b"}, {})) EXCEPT !.options = options] :
        options \in {Options, ServerConfig}, prfs \in {<<"p", "a", "b">>, <<"b", "a", "p">>},
        signer \in AccountSigners,
        a \in AttestTokens({"p"}, {Forever(<<>>), Until(1)}),
        b \in AttestTokens({"p", "a"}, {Forever(<<>>)})}

MCWorlds == TimedWorlds \cup SessionWorlds \cup SigningWorlds \cup OptionWorlds
            \cup EmptyWorlds \cup SearchWorlds \cup AttestingWorlds
=============================================================================
