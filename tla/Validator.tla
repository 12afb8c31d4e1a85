----------------------------- MODULE Validator -----------------------------
(***************************************************************************)
(* One invocation going through Provide (server/handler.go) and the proof  *)
(* search of Access, Claim and Authorize (validator/lib.go).               *)
(*                                                                         *)
(* The search is sequential; what it interleaves with is its environment:  *)
(* the clock it reads twice per proof, and the revocation store it asks    *)
(* once per candidate authorization.  The Go call stack is the variable    *)
(* stack, one frame per active Claim or Authorize; a proof is validated,   *)
(* or a match tried, in one step of the top frame.                         *)
(***************************************************************************)
EXTENDS ServerOptions

CONSTANTS Link,           \* names of delegations (their CIDs)
          Caveats,        \* what a capability may carry as nb
          Worlds,         \* the delegation graphs an invocation may carry
          Service,        \* the DID of the service: the authority
          ServiceKey,     \* the did:key the authority signs with
          Provided,       \* the descriptor of the provided capability
          NoMatch,        \* a Claim has no claimed match
          MaxTime         \* bound on the clock

VARIABLES world,    \* the graph of this invocation, never changed
          now,      \* the clock, in seconds
          revoked,  \* the revoked delegations
          stage,    \* progress of the invocation through Provide
          stack,    \* active calls of Claim and Authorize
          ret,      \* the value a finished call returns to its caller
          start     \* clock and revocations when Access was called

env  == <<now, revoked>>
vars == <<world, now, revoked, stage, stack, ret, start>>

----------------------------------------------------------------------------
(* Values.  A world is what does not change while an invocation is         *)
(* validated: the delegation of every link; root, the invocation;          *)
(* attached, the links whose delegation travels with it; server, the kind  *)
(* of server that validates it and the options it was given; revocable,    *)
(* the links an issuer may revoke in the meantime; altered, those whose    *)
(* token was changed after it was signed; and horizon, the last second.    *)

Capability == [can : Str, with : Str, nb : Caveats]

Descriptor == [can : Str, with : SUBSET Str, nb : SUBSET Caveats,
               derives : SUBSET (Caveats \X Caveats)]

Payloads == [iss : Str, aud : Str, att : Seq(Capability), prf : Seq(Link),
             exp : Int \cup {NoExpiration}, nbf : Int, alg : STRING]

Delegation == [iss : Str, aud : Str, caps : Seq(Capability), prfs : Seq(Link),
               exp : Int \cup {NoExpiration}, nbf : Int,
               sig : [alg : STRING, key : Str, over : Payloads]]

ContextOf(w) ==
    IF w.server = "retrieval" THEN NewRetrievalServer(w.options) ELSE NewServer(w.options)

\* The resolver has the proofs of what it resolves: none is found only because the
\* invocation happens to carry it.
IsWorld(w) ==
    /\ w.dlg \in [Link -> Delegation]
    /\ w.root \in Link
    /\ w.root \in w.attached /\ w.attached \subseteq Link
    /\ w.server \in {"server", "retrieval"}
    /\ ContextOf(w).resolveProof \subseteq Link
    /\ ContextOf(w).authorityProofs \subseteq [can : Str, with : Str, aud : Str]
    /\ \A l \in ContextOf(w).resolveProof :
          Range(w.dlg[l].prfs) \cap w.attached \subseteq ContextOf(w).resolveProof
    /\ w.revocable \subseteq Link
    /\ w.altered \subseteq Link
    /\ w.horizon \in 1..MaxTime

ASSUME ConstantsAssumption ==
    /\ \A w \in Worlds : IsWorld(w)
    /\ Service \in Str /\ ServiceKey \in Str
    /\ Provided \in Descriptor
    /\ IsFiniteSet(Link) /\ Link \subseteq Caveats
    /\ MaxTime \in Nat \ {0}

\* A link is the hash of a token, which has the links of the proofs: no chain of
\* proofs comes back to itself.
ASSUME AcyclicAssumption ==
    \A w \in Worlds : \A S \in SUBSET Link :
        S # {} => \E l \in S : Range(w.dlg[l].prfs) \cap S = {}

Sources == [link : Link, cap : Capability]

Source(link, cap) == [link |-> link, cap |-> cap]

\* An authorization: the path of matches from the claim to its self-issued
\* root, and the attestations it rests on, each with the delegations of its
\* own authorization.
Auth(path, atts)  == [path |-> path, atts |-> atts]
NoAuth            == Auth(<<>>, {})
AuthLinks(auth)   == {auth.path[k].link : k \in DOMAIN auth.path}
                        \cup UNION {a.links : a \in auth.atts}

Attestations == [proof : Link, links : SUBSET Link]
Auths        == [path : Seq(Sources), atts : SUBSET Attestations]

Dlg(link) == world.dlg[link]

\* What the handlers of this server validate with.
Context == ContextOf(world)

\* The delegations at hand: attached, or fetched by the proof resolver.  A proof is
\* looked up in the blocks of the delegation that links it, then resolved (validator/lib.go
\* 552-562): in those of the invocation unless that delegation was resolved itself,
\* where a resolver has it as well.
Available == world.attached \cup Context.resolveProof

----------------------------------------------------------------------------
(* Errors.  An error names the delegation it is about; the errors under a  *)
(* failed claim are kept next to it, in one set.                           *)

ErrorNames ==
    {"UnavailableProof", "PrincipalAlignment", "Expired", "NotValidBefore", "TimeBounds",
     "InvalidSignature", "UnverifiableSignature", "DIDKeyResolutionError",
     "SessionEscalation", "Revoked", "UnknownCapability", "MalformedCapability",
     "EscalatedCapability", "InvalidClaim"}

Errors == [link : Link, name : ErrorNames]

Error(link, name) == [link |-> link, name |-> name]

UnavailableProof(link)        == {Error(link, "UnavailableProof")}
PrincipalAlignment(link)      == {Error(link, "PrincipalAlignment")}
BadSignature(link, name)      == {Error(link, name)}
SessionEscalation(link, errs) == {Error(link, "SessionEscalation")} \cup errs
Revoked(link)                 == {Error(link, "Revoked")}
DelegationError(link, name)   == {Error(link, name)}
InvalidClaim(link, errs)      == {Error(link, "InvalidClaim")} \cup errs

\* What a call returns; a denial says whether a match failed to be authorized.
NoReturn             == [is |-> "none", auth |-> NoAuth, failed |-> FALSE, errs |-> {}]
Granted(auth)        == [is |-> "ok",   auth |-> auth,   failed |-> FALSE, errs |-> {}]
Denied(failed, errs) == [is |-> "fail", auth |-> NoAuth, failed |-> failed, errs |-> errs]

----------------------------------------------------------------------------
(* Frames.  cands lists the proofs in order, pool those of them that were  *)
(* resolved and are considered, i and j the proof and the source being     *)
(* looked at, failed whether a match failed to be authorized, errs what    *)
(* else was found wrong.                                                   *)

Frames ==
    [kind : {"claim", "authorize"}, desc : Descriptor,
     match : Sources \cup {NoMatch}, cands : Seq(Link), pool : SUBSET Link,
     pc : {"validate", "notBefore", "session", "authorize"},
     i : Nat \ {0}, j : Nat \ {0}, sources : Seq(Sources),
     atts : SUBSET Attestations, failed : BOOLEAN, errs : SUBSET Errors]

ClaimFrame(desc, cands, pool) ==
    [kind |-> "claim", desc |-> desc, match |-> NoMatch,
     cands |-> cands, pool |-> pool, pc |-> "validate",
     i |-> 1, j |-> 1, sources |-> <<>>, atts |-> {}, failed |-> FALSE, errs |-> {}]

\* Mutant: proofs are not checked for alignment.
ResolveProofsUnaligned(link) == Range(Dlg(link).prfs) \cap Available

\* Proofs of the matched delegation that resolve and whose audience is its
\* issuer.
ResolveProofs(link) ==
    {p \in Range(Dlg(link).prfs) : p \in Available
                                   /\ Dlg(p).aud = Dlg(link).iss}

\* Mutant: proofs that cannot be resolved are left out silently.
ProofErrorsOfAligned(link) ==
    UNION {PrincipalAlignment(p) : p \in {q \in Range(Dlg(link).prfs) \cap Available :
                                             Dlg(q).aud # Dlg(link).iss}}

\* Why the other proofs are not considered.
ProofErrors(link) ==
    LET prfs       == Range(Dlg(link).prfs)
        misaligned == {p \in prfs \cap Available : Dlg(p).aud # Dlg(link).iss}
    IN  (UNION {UnavailableProof(p) : p \in prfs \ Available})
            \cup (UNION {PrincipalAlignment(p) : p \in misaligned})

AuthorizeFrame(desc, match) ==
    [ClaimFrame(desc, Dlg(match.link).prfs, ResolveProofs(match.link))
        EXCEPT !.kind = "authorize", !.match = match, !.errs = ProofErrors(match.link)]

\* An attestation by the authority, or by an audience of an authority proof
\* that lets it attest, for exactly this delegation.
AttestationOf(link) ==
    [can     |-> Attest,
     with    |-> {Service} \cup
                 {p.aud : p \in {q \in Context.authorityProofs : q.can = Attest /\ q.with = Service}},
     nb      |-> {link},
     derives |-> {<<link, link>>}]

\* Mutant: an attestation may be looked for in itself.
SessionFrameWithSelf(f, link) ==
    ClaimFrame(AttestationOf(link), f.cands,
               {p \in f.pool : Dlg(p).caps # <<>> /\ Head(Dlg(p).caps).can = Attest})

SessionFrame(f, link) ==
    ClaimFrame(AttestationOf(link), f.cands,
               {p \in f.pool : p # link /\ Head(Dlg(p).caps).can = Attest})

----------------------------------------------------------------------------
(* The top of the stack.                                                   *)

Top         == Last(stack)
Running(pc) == stage = "access" /\ stack # <<>> /\ Top.pc = pc
Goto(f)     == stack' = [stack EXCEPT ![Len(stack)] = f]
Call(f, g)  == stack' = Append([stack EXCEPT ![Len(stack)] = f], g)
Return(r)   == stack' = Front(stack) /\ ret' = r

Accept(f, atts) ==
    LET link == f.cands[f.i]
        caps == Dlg(link).caps
    IN  [f EXCEPT !.pc = "validate", !.i = @ + 1, !.atts = @ \cup atts,
                  !.sources = @ \o [k \in DOMAIN caps |-> Source(link, caps[k])]]

Reject(f, errs) == [f EXCEPT !.pc = "validate", !.i = @ + 1, !.errs = @ \cup errs]

\* The verdict on a signature by a did:key issuer.
KeyVerdict(dlg) ==
    IF Parses(Context.parsePrincipal, dlg.iss)
    THEN VerifySignature(dlg, KeyVerifier(dlg.iss))
    ELSE "UnverifiableSignature"

\* By the authority.
AuthorityVerdict(dlg) ==
    VerifySignature(dlg, WrapVerifier(KeyVerifier(ServiceKey), Service))

\* By an issuer whose DID resolves to a key.
ResolvedVerdict(dlg) ==
    IF dlg.iss \notin DOMAIN Context.resolveDIDKey
    THEN "DIDKeyResolutionError"
    ELSE LET key == Context.resolveDIDKey[dlg.iss]
         IN  IF Parses(Context.parsePrincipal, key)
             THEN VerifySignature(dlg, WrapVerifier(KeyVerifier(key), dlg.iss))
             ELSE "UnverifiableSignature"

Judge(f, verdict) ==
    IF verdict = "ok" THEN Accept(f, {})
                      ELSE Reject(f, BadSignature(f.cands[f.i], verdict))

----------------------------------------------------------------------------
(* Validate: one proof of the pool.                                        *)

\* The validator of time bounds that was configured, if any, refuses it.
RefusedTimeBounds(link) ==
    Context.validateTimeBounds # Unset /\ link \notin Context.validateTimeBounds

Expired(link) ==
    Context.validateTimeBounds = Unset /\ IsExpired(Dlg(link), now)

NotValidBefore(link) ==
    Context.validateTimeBounds = Unset /\ IsTooEarly(Dlg(link), now)

\* The next proof: one that did not resolve or does not align is passed over,
\* one that is expired is an error.  First read of the clock.
CheckExpired ==
    /\ Running("validate")
    /\ Top.i <= Len(Top.cands)
    /\ LET link == Top.cands[Top.i]
       IN  \/ /\ link \notin Top.pool
              /\ Goto(Reject(Top, {}))
           \/ /\ link \in Top.pool /\ RefusedTimeBounds(link)
              /\ Goto(Reject(Top, {Error(link, "TimeBounds")}))
           \/ /\ link \in Top.pool /\ Expired(link)
              /\ Goto(Reject(Top, {Error(link, "Expired")}))
           \/ /\ link \in Top.pool /\ ~RefusedTimeBounds(link) /\ ~Expired(link)
              /\ Goto([Top EXCEPT !.pc = "notBefore"])
    /\ UNCHANGED <<world, env, stage, ret, start>>

\* Another proof of the pool has no capability: reading its first one panics.
NoCapability(f, link) == \E p \in f.pool \ {link} : Dlg(p).caps = <<>>

\* Mutant: a proof that is too early is reported as expired.
CheckNotBeforeMisreported ==
    /\ Running("notBefore")
    /\ LET link == Top.cands[Top.i]
           dlg  == Dlg(link)
       IN  \/ /\ NotValidBefore(link)
              /\ Goto(Reject(Top, {Error(link, "Expired")}))
           \/ /\ ~NotValidBefore(link) /\ IsKeyDID(dlg.iss)
              /\ Goto(Judge(Top, KeyVerdict(dlg)))
           \/ /\ ~NotValidBefore(link) /\ dlg.iss = Service
              /\ Goto(Judge(Top, AuthorityVerdict(dlg)))
           \/ /\ ~NotValidBefore(link) /\ ~IsKeyDID(dlg.iss) /\ dlg.iss # Service
              /\ ~NoCapability(Top, link)
              /\ Call([Top EXCEPT !.pc = "session"], SessionFrame(Top, link))
    /\ UNCHANGED <<world, env, stage, ret, start>>

\* Second read of the clock, then the signature where the issuer's key is at
\* hand; for any other issuer the search for an attestation begins.
CheckNotBefore ==
    /\ Running("notBefore")
    /\ LET link == Top.cands[Top.i]
           dlg  == Dlg(link)
       IN  \/ /\ NotValidBefore(link)
              /\ Goto(Reject(Top, {Error(link, "NotValidBefore")}))
           \/ /\ ~NotValidBefore(link) /\ IsKeyDID(dlg.iss)
              /\ Goto(Judge(Top, KeyVerdict(dlg)))
           \/ /\ ~NotValidBefore(link) /\ ~IsKeyDID(dlg.iss) /\ dlg.iss = Service
              /\ Goto(Judge(Top, AuthorityVerdict(dlg)))
           \/ /\ ~NotValidBefore(link) /\ ~IsKeyDID(dlg.iss) /\ dlg.iss # Service
              /\ ~NoCapability(Top, link)
              /\ Call([Top EXCEPT !.pc = "session"], SessionFrame(Top, link))
    /\ UNCHANGED <<world, env, stage, ret, start>>

\* Mutant: the delegation itself is not left out before its capabilities are read.
SessionPanicsOnItself ==
    /\ Running("notBefore")
    /\ LET link == Top.cands[Top.i]
       IN  /\ ~NotValidBefore(link)
           /\ ~IsKeyDID(Dlg(link).iss) /\ Dlg(link).iss # Service
           /\ \E p \in Top.pool : Dlg(p).caps = <<>>
    /\ stage' = "crashed" /\ stack' = <<>>
    /\ UNCHANGED <<world, env, ret, start>>

\* The search for an attestation reads the first capability of a proof without
\* capabilities.  It runs in a goroutine of the proof search, where nothing
\* recovers the panic: the process ends.
SessionPanics ==
    /\ Running("notBefore")
    /\ LET link == Top.cands[Top.i]
       IN  /\ ~NotValidBefore(link)
           /\ ~IsKeyDID(Dlg(link).iss) /\ Dlg(link).iss # Service
           /\ NoCapability(Top, link)
    /\ stage' = "crashed" /\ stack' = <<>>
    /\ UNCHANGED <<world, env, ret, start>>

\* VerifyAuthorization after VerifySession: attested; or attested by someone
\* who could not prove it, which is final; or resolved to a key instead, and
\* what was wrong with the attestations is forgotten.
SessionReturns ==
    /\ Running("session")
    /\ ret.is # "none"
    /\ ret' = NoReturn
    /\ LET link == Top.cands[Top.i]
           dlg  == Dlg(link)
       IN  \/ /\ ret.is = "ok"
              /\ Goto(Accept(Top, {[proof |-> link, links |-> AuthLinks(ret.auth)]}))
           \/ /\ ret.is = "fail" /\ ret.failed
              /\ Goto(Reject(Top, SessionEscalation(link, ret.errs)))
           \/ /\ ret.is = "fail" /\ ~ret.failed
              /\ Goto(Judge(Top, ResolvedVerdict(dlg)))
    /\ UNCHANGED <<world, env, stage, start>>

----------------------------------------------------------------------------
(* Select and try the matches in order.                                    *)

Selected(f, s) ==
    IF f.kind = "claim" THEN ParseCapability(f.desc, s.cap)
                        ELSE SelectCapability(f.desc, f.match.cap, s.cap)

Match(f, s) ==
    IF f.kind = "claim" THEN s
                        ELSE Source(s.link, ResolveCapability(f.match.cap, s.cap))

\* Why a source is not selected.
SelectError(f, s) ==
    LET known    == IF f.kind = "claim" THEN s.cap.can = f.desc.can
                                         ELSE ResolveAbility(s.cap.can, f.match.cap.can)
        m        == Match(f, s)
        readable == Reads(f.desc, m.cap.with, m.cap.nb)
    IN  DelegationError(s.link, IF ~known THEN "UnknownCapability"
                                ELSE IF ~readable THEN "MalformedCapability"
                                ELSE "EscalatedCapability")

\* Prune: the issuer of the matched delegation owns the resource.
Prune(m) == <<m.cap.with, Dlg(m.link).iss>> \in Context.canIssue

\* Mutant: an Authorize drops the attestations it met.
RelevantAttestationsOfClaim(f, m) == IF f.kind = "claim" THEN f.atts ELSE {}

\* A Claim passes on every attestation it met, an Authorize only those for the
\* matched delegation.
RelevantAttestations(f, m) ==
    IF f.kind = "claim" THEN f.atts ELSE {a \in f.atts : a.proof = m.link}

\* Mutant: the same source is tried again.
NextSourceAgain(f, failed, errs) ==
    [f EXCEPT !.pc = "validate", !.failed = @ \/ failed, !.errs = @ \cup errs]

NextSource(f, failed, errs) ==
    [f EXCEPT !.pc = "validate", !.j = @ + 1, !.failed = @ \/ failed, !.errs = @ \cup errs]

\* The delegations of an authorization that the revocation checker objects to.
RevokedIn(auth) ==
    IF Context.validateAuthorization THEN AuthLinks(auth) \cap revoked ELSE {}

\* Mutant: only the delegation of the match itself is checked for revocation.
GrantByMatch(f, m, sub) ==
    LET auth == Auth(<<m>> \o sub.path, RelevantAttestations(f, m) \cup sub.atts)
    IN  IF f.kind = "claim" /\ m.link \in revoked
        THEN Goto(NextSource(f, FALSE, Revoked(m.link))) /\ ret' = NoReturn
        ELSE Return(Granted(auth))

\* The match m of frame f is authorized along `sub`.  Only a Claim consults the
\* revocation checker, and a revoked authorization sends it to its next match.
Grant(f, m, sub) ==
    LET auth == Auth(<<m>> \o sub.path, RelevantAttestations(f, m) \cup sub.atts)
    IN  \/ /\ f.kind = "claim"
           /\ \E link \in RevokedIn(auth) : Goto(NextSource(f, FALSE, Revoked(link)))
           /\ ret' = NoReturn
        \/ /\ f.kind = "claim" => RevokedIn(auth) = {}
           /\ Return(Granted(auth))

TrySource ==
    /\ Running("validate")
    /\ Top.i > Len(Top.cands)
    /\ Top.j <= Len(Top.sources)
    /\ LET s == Top.sources[Top.j]
           m == Match(Top, s)
       IN  \/ /\ ~Selected(Top, s)
              /\ Goto(NextSource(Top, FALSE, SelectError(Top, s)))
              /\ UNCHANGED ret
           \/ /\ Selected(Top, s) /\ Prune(m)
              /\ Grant(Top, m, NoAuth)
           \/ /\ Selected(Top, s) /\ ~Prune(m)
              /\ Call([Top EXCEPT !.pc = "authorize"], AuthorizeFrame(Top.desc, m))
              /\ UNCHANGED ret
    /\ UNCHANGED <<world, env, stage, start>>

AuthorizeReturns ==
    /\ Running("authorize")
    /\ ret.is # "none"
    /\ LET m == Match(Top, Top.sources[Top.j])
       IN  \/ /\ ret.is = "ok"
              /\ Grant(Top, m, ret.auth)
           \/ /\ ret.is = "fail"
              /\ Goto(NextSource(Top, TRUE, InvalidClaim(m.link, ret.errs)))
              /\ ret' = NoReturn
    /\ UNCHANGED <<world, env, stage, start>>

\* Mutant: the failed proofs are not reported.
ExhaustedSilently ==
    /\ Running("validate")
    /\ Top.i > Len(Top.cands)
    /\ Top.j > Len(Top.sources)
    /\ Return(Denied(FALSE, Top.errs))
    /\ UNCHANGED <<world, env, stage, start>>

\* No match is left: Unauthorized from a Claim, InvalidClaim from an Authorize.
Exhausted ==
    /\ Running("validate")
    /\ Top.i > Len(Top.cands)
    /\ Top.j > Len(Top.sources)
    /\ Return(Denied(Top.failed, Top.errs))
    /\ UNCHANGED <<world, env, stage, start>>

----------------------------------------------------------------------------
(* Provide.                                                                *)

AcceptedAudiences == {Service} \cup Context.altAudiences

\* The audience is checked, then Access is called with the invocation itself
\* as the only proof.
Provide ==
    /\ stage = "received"
    /\ start' = [now |-> now, revoked |-> revoked]
    /\ IF Dlg(world.root).aud \in AcceptedAudiences
       THEN /\ stage' = "access"
            /\ stack' = <<ClaimFrame(Provided, <<world.root>>, {world.root})>>
       ELSE stage' = "invalidAudience" /\ UNCHANGED stack
    /\ UNCHANGED <<world, env, ret>>

\* Mutant: the result of any call is taken for the result of Access.
AnswerEarly ==
    /\ stage = "access" /\ ret.is # "none"
    /\ stage' = IF ret.is = "ok" THEN "handled" ELSE "unauthorized"
    /\ UNCHANGED <<world, env, stack, ret, start>>

\* The handler runs only on an authorization.
Answer ==
    /\ stage = "access" /\ stack = <<>>
    /\ stage' = IF ret.is = "ok" THEN "handled" ELSE "unauthorized"
    /\ UNCHANGED <<world, env, stack, ret, start>>

----------------------------------------------------------------------------
(* The environment: time passes and delegations are revoked while an       *)
(* invocation is being validated.                                          *)

Tick ==
    /\ stage \in {"received", "access"}
    /\ now < world.horizon
    /\ now' = now + 1
    /\ UNCHANGED <<world, revoked, stage, stack, ret, start>>

Revoke ==
    /\ stage \in {"received", "access"}
    /\ \E link \in world.revocable \ revoked : revoked' = revoked \cup {link}
    /\ UNCHANGED <<world, now, stage, stack, ret, start>>

----------------------------------------------------------------------------
Init ==
    /\ world \in Worlds
    /\ now = 1
    /\ revoked = {}
    /\ stage = "received"
    /\ stack = <<>>
    /\ ret = NoReturn
    /\ start = [now |-> 1, revoked |-> {}]

\* One step of the goroutine that serves the invocation.
Serve ==
    \/ Provide
    \/ CheckExpired \/ CheckNotBefore \/ SessionPanics \/ SessionReturns
    \/ TrySource \/ AuthorizeReturns \/ Exhausted
    \/ Answer

Next == Serve \/ Tick \/ Revoke

Spec == Init /\ [][Next]_vars

\* The Go scheduler runs a runnable goroutine, and the resolvers return.
FairSpec == Spec /\ WF_vars(Serve)
----------------------------------------------------------------------------
(* What the validator promises.                                            *)

\* The types of the state; a call waits exactly while another one is above it on
\* the stack, and only Access has calls (validator/lib.go 258-317, 483-508).
TypeOK ==
    /\ IsWorld(world)
    /\ now \in 1..MaxTime
    /\ revoked \subseteq Link
    /\ stage \in {"received", "access", "invalidAudience", "handled", "unauthorized", "crashed"}
    /\ stack \in Seq(Frames)
    /\ ret \in [is : {"none", "ok", "fail"}, auth : Auths, failed : BOOLEAN,
                errs : SUBSET Errors]
    /\ start \in [now : 1..MaxTime, revoked : SUBSET Link]
    /\ \A k \in 1..Len(stack) - 1 : stack[k].pc \in {"session", "authorize"}
    /\ stage # "access" => stack = <<>>

\* A delegated capability permits a claimed one.
Permits(cap, claimed) ==
    /\ ResolveAbility(cap.can, claimed.can)
    /\ cap.with = UcanStar \/ DefaultDerives(claimed, cap)

\* n is the next match of a path after m: a proof of m's delegation, addressed
\* to its issuer, one of whose capabilities permits m's.
GrantedBy(m, n) ==
    /\ n.link \in Range(Dlg(m.link).prfs) \cap Available
    /\ Dlg(n.link).aud = Dlg(m.link).iss
    /\ \E c \in Range(Dlg(n.link).caps) : Permits(c, m.cap)

\* A sequence of matches, each granted by the next, whose last one is issued by
\* the owner of its resource.
IsPath(path) ==
    /\ path # <<>>
    /\ \A k \in 1..Len(path) - 1 : GrantedBy(path[k], path[k + 1])
    /\ Prune(path[Len(path)])

\* The handler runs only on a path from the provided capability of the
\* invocation to an issuer that owns the resource (validator/lib.go 258-315,
\* 483-508; handler.go 24-26 "It only calls the handler when validation
\* succeeds").
HandledOnPath ==
    stage = "handled" =>
        /\ IsPath(ret.auth.path)
        /\ ret.auth.path[1].link = world.root
        /\ ret.auth.path[1].cap \in Range(Dlg(world.root).caps)
        /\ ret.auth.path[1].cap.can = Provided.can
        /\ Dlg(world.root).aud \in AcceptedAudiences

\* Signed by its issuer, as far as a key for the issuer is known.
Signed(link) ==
    LET dlg == Dlg(link)
    IN  IF IsKeyDID(dlg.iss)      THEN KeyVerdict(dlg) = "ok"
        ELSE IF dlg.iss = Service THEN AuthorityVerdict(dlg) = "ok"
                                  ELSE ResolvedVerdict(dlg) = "ok"

Attests(q, link) ==
    \E c \in Range(Dlg(q).caps) : c.can = Attest /\ c.nb = link

\* Every delegation an authorization rests on is signed by its issuer or
\* attested by others it rests on, and attestations are grounded: no set of
\* unsigned delegations vouches for itself alone.  So whoever sees the
\* authorization, the revocation checker first, sees every attestation used
\* (validator/lib.go 276-278, 361-408, 464-477, 491, 510-522).
AttestationsGrounded ==
    stage = "handled" =>
        LET links == AuthLinks(ret.auth)
        IN  \A X \in (SUBSET links) \ {{}} :
               \E l \in X : Signed(l) \/ \E q \in links \ X : Attests(q, l)

\* A delegation a handler runs on is used as its issuer signed it, in every
\* field, unless others of the authorization attest to the very token (ucan/lib.go
\* 165-171, 187-223; validator/lib.go 361-420).
OnlyAsIssued ==
    stage = "handled" =>
        \A l \in AuthLinks(ret.auth) \cap world.altered :
            \E q \in AuthLinks(ret.auth) \ {l} : Attests(q, l)

\* With a revocation checker, a delegation revoked before Access was called, an
\* attestation included, is never part of what a handler runs on
\* (validator/lib.go 293-297, 308-312).
RevokedNeverHandled ==
    stage = "handled" /\ Context.validateAuthorization
        => AuthLinks(ret.auth) \cap start.revoked = {}

\* What the code asks of the time bounds at an instant.
InBounds(link, t) == ~IsExpired(Dlg(link), t) /\ ~IsTooEarly(Dlg(link), t)

\* What the bounds mean: a token "becomes valid" at the one and "becomes invalid"
\* at the other (ucan/view.go 20-25).
ValidAt(link, t) ==
    LET dlg == Dlg(link)
    IN  dlg.nbf <= t /\ (dlg.exp = NoExpiration \/ t < dlg.exp)

\* A token that expires before it becomes valid never is.
EverValid(link) == Dlg(link).exp = NoExpiration \/ Dlg(link).nbf < Dlg(link).exp

\* However the clock moves between its two reads and between proofs, every
\* delegation used that is ever valid was valid at an instant while the invocation
\* was validated (validator/lib.go 36-45, ucan/lib.go 226-239).
ValidWhileValidating ==
    stage = "handled" /\ Context.validateTimeBounds = Unset =>
        \A l \in AuthLinks(ret.auth) :
            EverValid(l) => \E t \in start.now..now : ValidAt(l, t)

Refused(link) == \E e \in ret.errs : e.link = link

\* A refusal details "all explored paths and where they proved to fail"
\* (validator/lib.go 244-248): something is wrong with the invocation, and
\* wherever a claim came to nothing something is wrong with each proof that could
\* have made it.
RefusalExplained ==
    stage = "unauthorized" =>
        /\ Dlg(world.root).caps # <<>> =>
              Refused(world.root) \/ \E e \in ret.errs : e.name = "Revoked"
        /\ \A e \in ret.errs : e.name = "InvalidClaim" =>
              \A p \in Range(Dlg(e.link).prfs) : Dlg(p).caps # <<>> => Refused(p)

\* What an error says: of the time bounds that they were not met at an instant
\* while the invocation was validated, of the rest at any time.
IsTrue(e) ==
    LET dlg == Dlg(e.link)
    IN  /\ e.name = "UnavailableProof" => e.link \notin Available
        /\ e.name = "PrincipalAlignment" =>
              \E m \in Link : e.link \in Range(Dlg(m).prfs) /\ dlg.aud # Dlg(m).iss
        /\ e.name = "Expired" => IsExpired(dlg, now)
        /\ e.name = "NotValidBefore" => IsTooEarly(dlg, start.now)
        /\ e.name \in {"InvalidSignature", "UnverifiableSignature", "DIDKeyResolutionError"}
              => ~Signed(e.link)
        /\ e.name = "SessionEscalation" =>
              \E q \in Available \ {e.link} : Attests(q, e.link)
        /\ e.name = "Revoked" => e.link \in revoked
        /\ e.name \in {"UnknownCapability", "MalformedCapability", "EscalatedCapability",
                       "InvalidClaim"} => dlg.caps # <<>>

\* Every error of a refusal is true, whenever it was found (validator/error.go
\* 166-442).
RefusalTrue == stage = "unauthorized" => \A e \in ret.errs : IsTrue(e)

\* Looking for proofs of proofs and for attestations of attestations comes to an
\* end, however the two nest (validator/lib.go 464-477, "so we don't recurse
\* indefinitely", 483-508): no more calls are active than there are pairs of
\* delegations, and the two that Access begins with.
DepthBounded == Len(stack) <= Cardinality(Link) * Cardinality(Link) + 2

\* The process ends only over two proofs of one delegation: one by an issuer that
\* needs an attestation, and another one without capabilities (validator/lib.go
\* 464-477).
CrashNeedsEmptyProof ==
    stage = "crashed" =>
        \E m \in Link : \E p, q \in ResolveProofs(m) :
            /\ p # q /\ Dlg(q).caps = <<>>
            /\ ~IsKeyDID(Dlg(p).iss) /\ Dlg(p).iss # Service

\* Every invocation is answered (Access returns on every path), where no proof is
\* without capabilities.
Answered ==
    (\A l \in Link : Dlg(l).caps # <<>>)
        => <>(stage \in {"handled", "unauthorized", "invalidAudience"})

\* "Invocations targeted to the service itself or any of the alternative audiences
\* will be accepted" (server/options.go 144-145, server/retrieval/options.go
\* 127-128): the audience is refused only where it is neither.
AlternativesAccepted ==
    stage = "invalidAudience" =>
        Dlg(world.root).aud \notin {Service} \cup world.options.altAudiences
=============================================================================
