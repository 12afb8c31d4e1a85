-------------------------- MODULE ValidatorProofs --------------------------
(***************************************************************************)
(* Every handler runs on a delegation path, what it runs on is signed or   *)
(* attested, was valid and not revoked, and what a refusal reports is true *)
(* and complete, for all delegation graphs, capabilities, clocks and       *)
(* revocations.  The inductive invariant IInv says of each active call     *)
(* where its sources come from and of each pair of nested calls why the    *)
(* inner one was made; a path then grows by one match each time a call     *)
(* returns to its caller.  On top of it SInv says of each active call how  *)
(* its sources were validated, and of a session which delegation it looks  *)
(* into; EInv says of each active call that it has found something wrong   *)
(* with every proof and source it is past; DInv that what lies before it   *)
(* is less than what lies before its caller.                               *)
(***************************************************************************)
EXTENDS Validator, FiniteSetTheorems, TLAPS


\* The sources of a call are capabilities of proofs in its pool; the proof and
\* the match it waits for exist; an Authorize considers the aligned proofs of the
\* match it authorizes.
FrameOK(f) ==
    /\ \A n \in DOMAIN f.sources :
          /\ f.sources[n].link \in f.pool
          /\ f.sources[n].cap \in Range(Dlg(f.sources[n].link).caps)
    /\ f.pc \in {"notBefore", "session"} =>
          f.i \in DOMAIN f.cands /\ f.cands[f.i] \in f.pool
    /\ f.pc = "authorize" => f.j \in DOMAIN f.sources /\ Selected(f, f.sources[f.j])
    /\ f.kind = "authorize" =>
          f.match \in Sources /\ f.pool = ResolveProofs(f.match.link)

\* Why the call f made the call g.
CallOK(f, g) ==
    \/ f.pc = "session" /\ g.kind = "claim"
    \/ /\ f.pc = "authorize" /\ g.kind = "authorize"
       /\ g.match = Match(f, f.sources[f.j])

\* The call of Claim that Access makes.
BaseOK(f) == f.kind = "claim" /\ f.desc = Provided /\ f.pool = {world.root}

StackOK(st) ==
    /\ st \in Seq(Frames)
    /\ st # <<>> => BaseOK(st[1])
    /\ \A k \in 1..Len(st) : FrameOK(st[k])
    /\ \A k \in 1..Len(st) - 1 : CallOK(st[k], st[k + 1])

\* A path from the provided capability of the invocation.
FromInvocation(path) ==
    /\ path[1].link = world.root
    /\ path[1].cap \in Range(Dlg(world.root).caps)
    /\ path[1].cap.can = Provided.can

\* What a finished call gives its caller st[Len(st)].
ReturnOK(st, r) ==
    r.is = "ok" =>
        /\ IsPath(r.auth.path)
        /\ st = <<>> => FromInvocation(r.auth.path)
        /\ st # <<>> /\ Last(st).pc = "authorize" =>
              GrantedBy(Match(Last(st), Last(st).sources[Last(st).j]), r.auth.path[1])

StageOK ==
    /\ stage \in {"access", "handled"} =>
          Dlg(world.root).aud \in AcceptedAudiences
    /\ stage = "handled" => ret.is = "ok"

IInv ==
    /\ world \in Worlds
    /\ TypeOK
    /\ StackOK(stack)
    /\ stage # "crashed" => ReturnOK(stack, ret)
    /\ StageOK

----------------------------------------------------------------------------
(* Typing of the graph.                                                    *)

LEMMA DlgType ==
    ASSUME world \in Worlds, NEW link \in Link
    PROVE  /\ Dlg(link) \in Delegation
           /\ Dlg(link).caps \in Seq(Capability)
           /\ Dlg(link).prfs \in Seq(Link)
           /\ Range(Dlg(link).caps) \subseteq Capability
           /\ Range(Dlg(link).prfs) \subseteq Link
<1>1. Dlg(link) \in Delegation
    BY ConstantsAssumption DEF IsWorld, Dlg
<1>2. Dlg(link).caps \in Seq(Capability) /\ Dlg(link).prfs \in Seq(Link)
    BY <1>1 DEF Delegation
<1> QED BY <1>1, <1>2 DEF Range

LEMMA AttestationType ==
    ASSUME world \in Worlds, NEW link \in Link
    PROVE  AttestationOf(link) \in Descriptor
<1>1. Attest \in Str
    BY AttestAssumption
<1>2. {Service} \cup {p.aud : p \in {q \in Context.authorityProofs : q.can = Attest /\ q.with = Service}}
        \subseteq Str
    <2>1. Context.authorityProofs \subseteq [can : Str, with : Str, aud : Str]
        BY ConstantsAssumption DEF IsWorld, Context
    <2> HIDE DEF Context
    <2> QED BY <2>1, ConstantsAssumption
<1>3. {link} \subseteq Caveats /\ {<<link, link>>} \subseteq Caveats \X Caveats
    BY ConstantsAssumption
<1> QED BY <1>1, <1>2, <1>3 DEF AttestationOf, Descriptor

LEMMA ResolveProofsType ==
    ASSUME world \in Worlds, NEW link \in Link
    PROVE  ResolveProofs(link) \subseteq Link
BY DlgType DEF ResolveProofs

LEMMA ErrorType ==
    ASSUME NEW link \in Link, NEW name \in ErrorNames
    PROVE  {Error(link, name)} \in SUBSET Errors
BY DEF Error, Errors

LEMMA ProofErrorsType ==
    ASSUME world \in Worlds, NEW link \in Link
    PROVE  ProofErrors(link) \in SUBSET Errors
<1>1. Range(Dlg(link).prfs) \subseteq Link
    BY DlgType
<1>2. \A p \in Link : UnavailableProof(p) \subseteq Errors /\ PrincipalAlignment(p) \subseteq Errors
    BY DEF UnavailableProof, PrincipalAlignment, Error, Errors, ErrorNames
<1> DEFINE missing == Range(Dlg(link).prfs) \ Available
           other   == {q \in Range(Dlg(link).prfs) \cap Available : Dlg(q).aud # Dlg(link).iss}
           errs1   == UNION {UnavailableProof(p) : p \in missing}
           errs2   == UNION {PrincipalAlignment(p) : p \in other}
<1>3. ProofErrors(link) = errs1 \cup errs2
    BY DEF ProofErrors
<1>4. missing \subseteq Link /\ other \subseteq Link
    BY <1>1
<1> HIDE DEF missing, other
<1>5. errs1 \subseteq Errors /\ errs2 \subseteq Errors
    BY <1>2, <1>4
<1> HIDE DEF errs1, errs2
<1> QED BY <1>3, <1>5

LEMMA SelectErrorType ==
    ASSUME NEW f, NEW s, s.link \in Link
    PROVE  SelectError(f, s) \in SUBSET Errors
BY DEF SelectError, DelegationError, Error, Errors, ErrorNames

Verdicts == {"ok", "InvalidSignature", "UnverifiableSignature", "DIDKeyResolutionError"}

LEMMA VerdictType ==
    ASSUME NEW dlg
    PROVE  /\ KeyVerdict(dlg) \in Verdicts
           /\ AuthorityVerdict(dlg) \in Verdicts
           /\ ResolvedVerdict(dlg) \in Verdicts
<1>1. ASSUME NEW verifier PROVE VerifySignature(dlg, verifier) \in Verdicts
    BY DEF VerifySignature, Verdicts
<1>2. KeyVerdict(dlg) \in Verdicts
    BY <1>1 DEF KeyVerdict, Verdicts
<1>3. AuthorityVerdict(dlg) \in Verdicts
    BY <1>1 DEF AuthorityVerdict
<1>4. ResolvedVerdict(dlg) \in Verdicts
    BY <1>1 DEF ResolvedVerdict, Verdicts
<1> QED BY <1>2, <1>3, <1>4

LEMMA MatchType ==
    ASSUME NEW f \in Frames, f.kind = "authorize" => f.match \in Sources,
           NEW s \in Sources
    PROVE  Match(f, s) \in Sources /\ Match(f, s).link = s.link
BY DEF Match, Sources, Source, ResolveCapability, ResolveResource, Capability, Frames

----------------------------------------------------------------------------
(* Frames.                                                                 *)

\* g goes on with the call that f was.
SameCall(f, g) ==
    /\ f.kind = g.kind /\ f.desc = g.desc
    /\ f.match = g.match /\ f.pool = g.pool

LEMMA RejectOK ==
    ASSUME world \in Worlds, NEW f \in Frames, FrameOK(f), NEW errs \in SUBSET Errors
    PROVE  /\ Reject(f, errs) \in Frames
           /\ FrameOK(Reject(f, errs))
           /\ SameCall(f, Reject(f, errs))
           /\ Reject(f, errs).pc = "validate"
<1>1. f.i + 1 \in Nat \ {0} /\ f.errs \cup errs \in SUBSET Errors
    BY DEF Frames
<1>2. Reject(f, errs) = [f EXCEPT !.pc = "validate", !.i = f.i + 1, !.errs = f.errs \cup errs]
    BY DEF Reject
<1>3. Reject(f, errs) \in Frames
    BY <1>1, <1>2 DEF Frames
<1> QED BY <1>3 DEF Reject, Frames, FrameOK, SameCall

LEMMA NextSourceOK ==
    ASSUME world \in Worlds, NEW f \in Frames, FrameOK(f), NEW failed \in BOOLEAN,
           NEW errs \in SUBSET Errors
    PROVE  /\ NextSource(f, failed, errs) \in Frames
           /\ FrameOK(NextSource(f, failed, errs))
           /\ SameCall(f, NextSource(f, failed, errs))
           /\ NextSource(f, failed, errs).pc = "validate"
<1>1. /\ f.j + 1 \in Nat \ {0} /\ (f.failed \/ failed) \in BOOLEAN
      /\ f.errs \cup errs \in SUBSET Errors
    BY DEF Frames
<1>2. NextSource(f, failed, errs) =
        [f EXCEPT !.pc = "validate", !.j = f.j + 1, !.failed = f.failed \/ failed,
                  !.errs = f.errs \cup errs]
    BY DEF NextSource
<1>3. NextSource(f, failed, errs) \in Frames
    BY <1>1, <1>2 DEF Frames
<1> QED BY <1>3 DEF NextSource, Frames, FrameOK, SameCall

LEMMA AcceptOK ==
    ASSUME world \in Worlds, NEW f \in Frames, FrameOK(f),
           f.pc \in {"notBefore", "session"}, NEW atts \in SUBSET Attestations
    PROVE  Accept(f, atts) \in Frames /\ FrameOK(Accept(f, atts)) /\ SameCall(f, Accept(f, atts))
<1> DEFINE link == f.cands[f.i]
           caps == Dlg(link).caps
           new  == [k \in DOMAIN caps |-> Source(link, caps[k])]
           all  == f.sources \o new
<1>1. link \in Link /\ link \in f.pool
    BY DEF FrameOK, Frames
<1>2. caps \in Seq(Capability)
    BY <1>1, DlgType
<1>3. new \in Seq(Sources)
    <2>1. \A k \in DOMAIN caps : Source(link, caps[k]) \in Sources
        BY <1>1, <1>2 DEF Sources, Source
    <2>2. DOMAIN caps = 1..Len(caps) /\ Len(caps) \in Nat
        BY <1>2
    <2> HIDE DEF caps
    <2> QED BY <2>1, <2>2
<1>4. \A n \in DOMAIN new : new[n].link \in f.pool
                            /\ new[n].cap \in Range(Dlg(new[n].link).caps)
    BY <1>1, <1>2 DEF Source, Range
<1>5. f.sources \in Seq(Sources)
    BY DEF Frames
<1>6. \A n \in DOMAIN f.sources : f.sources[n].link \in f.pool
                                  /\ f.sources[n].cap \in Range(Dlg(f.sources[n].link).caps)
    BY DEF FrameOK
<1> HIDE DEF new
<1>7. all \in Seq(Sources)
    BY <1>3, <1>5
<1>8. \A n \in DOMAIN all : all[n].link \in f.pool
                            /\ all[n].cap \in Range(Dlg(all[n].link).caps)
    <2> SUFFICES ASSUME NEW n \in DOMAIN all
                 PROVE  all[n].link \in f.pool /\ all[n].cap \in Range(Dlg(all[n].link).caps)
        OBVIOUS
    <2>1. CASE n \in DOMAIN f.sources
        BY <2>1, <1>3, <1>5, <1>6
    <2>2. CASE n \notin DOMAIN f.sources
        <3>1. n - Len(f.sources) \in DOMAIN new /\ all[n] = new[n - Len(f.sources)]
            BY <2>2, <1>3, <1>5
        <3> QED BY <3>1, <1>4
    <2> QED BY <2>1, <2>2
<1>9. Accept(f, atts) = [f EXCEPT !.pc = "validate", !.i = f.i + 1,
                                  !.atts = f.atts \cup atts, !.sources = all]
    BY DEF Accept, new
<1>10. f.i + 1 \in Nat \ {0} /\ f.atts \cup atts \in SUBSET Attestations
    BY DEF Frames
<1> HIDE DEF all
<1>11. Accept(f, atts) \in Frames
    BY <1>7, <1>9, <1>10 DEF Frames
<1> QED BY <1>8, <1>9, <1>11 DEF Frames, FrameOK, SameCall

LEMMA ClaimFrameOK ==
    ASSUME world \in Worlds, NEW desc \in Descriptor, NEW cands \in Seq(Link),
           NEW pool \in SUBSET Link
    PROVE  /\ ClaimFrame(desc, cands, pool) \in Frames
           /\ FrameOK(ClaimFrame(desc, cands, pool))
           /\ ClaimFrame(desc, cands, pool).kind = "claim"
           /\ ClaimFrame(desc, cands, pool).pool = pool
           /\ ClaimFrame(desc, cands, pool).desc = desc
BY DEF ClaimFrame, Frames, FrameOK

LEMMA SessionFrameOK ==
    ASSUME world \in Worlds, NEW f \in Frames, NEW link \in Link
    PROVE  /\ SessionFrame(f, link) \in Frames
           /\ FrameOK(SessionFrame(f, link))
           /\ SessionFrame(f, link).kind = "claim"
<1>1. f.cands \in Seq(Link) /\ f.pool \subseteq Link
    BY DEF Frames
<1>2. {p \in f.pool : p # link /\ Head(Dlg(p).caps).can = Attest} \in SUBSET Link
    BY <1>1
<1> QED BY <1>1, <1>2, AttestationType, ClaimFrameOK DEF SessionFrame

LEMMA AuthorizeFrameOK ==
    ASSUME world \in Worlds, NEW desc \in Descriptor, NEW m \in Sources
    PROVE  /\ AuthorizeFrame(desc, m) \in Frames
           /\ FrameOK(AuthorizeFrame(desc, m))
           /\ AuthorizeFrame(desc, m).kind = "authorize"
           /\ AuthorizeFrame(desc, m).match = m
<1>1. m.link \in Link
    BY DEF Sources
<1>2. Dlg(m.link).prfs \in Seq(Link) /\ ResolveProofs(m.link) \in SUBSET Link
    BY <1>1, DlgType, ResolveProofsType
<1> DEFINE claim == ClaimFrame(desc, Dlg(m.link).prfs, ResolveProofs(m.link))
           f     == AuthorizeFrame(desc, m)
<1>3. claim \in Frames /\ claim.sources = <<>> /\ claim.pc = "validate"
      /\ claim.pool = ResolveProofs(m.link)
    BY <1>2, ClaimFrameOK DEF ClaimFrame
<1>4. f = [claim EXCEPT !.kind = "authorize", !.match = m, !.errs = ProofErrors(m.link)]
    BY DEF AuthorizeFrame
<1>8. ProofErrors(m.link) \in SUBSET Errors
    BY <1>1, ProofErrorsType
<1> HIDE DEF claim, f
<1>5. f \in Frames
    BY <1>3, <1>4, <1>8 DEF Frames
<1>6. f.sources = <<>> /\ f.pc = "validate" /\ f.pool = ResolveProofs(m.link)
      /\ f.kind = "authorize" /\ f.match = m
    BY <1>3, <1>4 DEF Frames
<1>7. FrameOK(f)
    BY <1>6 DEF FrameOK
<1> QED BY <1>5, <1>6, <1>7 DEF f

----------------------------------------------------------------------------
(* The stack.                                                              *)

LEMMA GotoOK ==
    ASSUME NEW st, StackOK(st), st # <<>>,
           NEW g \in Frames, FrameOK(g), SameCall(Last(st), g)
    PROVE  StackOK([st EXCEPT ![Len(st)] = g])
<1> DEFINE n  == Len(st)
           tt == [st EXCEPT ![n] = g]
<1>1. n \in Nat \ {0} /\ n = Len(st) /\ st \in Seq(Frames) /\ Last(st) = st[n]
    BY DEF StackOK, Last
<1>2. /\ tt \in Seq(Frames) /\ Len(tt) = n /\ tt[n] = g /\ tt # <<>>
      /\ \A k \in 1..n - 1 : tt[k] = st[k]
    BY <1>1
<1> HIDE DEF n, tt
<1>3. BaseOK(tt[1])
    <2>1. st # <<>> /\ BaseOK(st[1])
        BY DEF StackOK
    <2> QED BY <2>1, <1>1, <1>2 DEF BaseOK, SameCall
<1>4. \A k \in 1..n : FrameOK(tt[k])
    BY <1>1, <1>2 DEF StackOK
<1>5. \A k \in 1..n - 1 : CallOK(tt[k], tt[k + 1])
    <2> SUFFICES ASSUME NEW k \in 1..n - 1
                 PROVE  CallOK(st[k], tt[k + 1])
        BY <1>2
    <2>1. CallOK(st[k], st[k + 1])
        BY <1>1 DEF StackOK
    <2>2. CASE k + 1 = n
        BY <2>1, <2>2, <1>1, <1>2 DEF CallOK, SameCall
    <2>3. CASE k + 1 # n
        BY <2>1, <2>3, <1>1, <1>2
    <2> QED BY <2>2, <2>3
<1> QED BY <1>2, <1>3, <1>4, <1>5 DEF StackOK, n, tt

LEMMA PushOK ==
    ASSUME NEW st, StackOK(st), st # <<>>,
           NEW g \in Frames, FrameOK(g), CallOK(Last(st), g)
    PROVE  StackOK(Append(st, g))
<1> DEFINE n  == Len(st)
           tt == Append(st, g)
<1>1. n \in Nat \ {0} /\ n = Len(st) /\ st \in Seq(Frames) /\ Last(st) = st[n]
    BY DEF StackOK, Last
<1>2. /\ tt \in Seq(Frames) /\ Len(tt) = n + 1 /\ tt[n + 1] = g
      /\ \A k \in 1..n : tt[k] = st[k]
    BY <1>1
<1> HIDE DEF n, tt
<1>3. BaseOK(tt[1])
    BY <1>1, <1>2 DEF StackOK
<1>4. \A k \in 1..n + 1 : FrameOK(tt[k])
    BY <1>1, <1>2 DEF StackOK
<1>5. \A k \in 1..n : CallOK(tt[k], tt[k + 1])
    <2> SUFFICES ASSUME NEW k \in 1..n
                 PROVE  CallOK(st[k], tt[k + 1])
        BY <1>2
    <2>1. CASE k = n
        BY <2>1, <1>1, <1>2
    <2>2. CASE k # n
        BY <2>2, <1>1, <1>2 DEF StackOK
    <2> QED BY <2>1, <2>2
<1> QED BY <1>1, <1>2, <1>3, <1>4, <1>5 DEF StackOK, tt

LEMMA PopOK ==
    ASSUME NEW st, StackOK(st), st # <<>>
    PROVE  /\ StackOK(Front(st))
           /\ Front(st) = <<>> <=> Len(st) = 1
           /\ Front(st) = <<>> => BaseOK(Last(st))
           /\ Front(st) # <<>> =>
                /\ Last(Front(st)) \in Frames /\ FrameOK(Last(Front(st)))
                /\ CallOK(Last(Front(st)), Last(st))
<1> DEFINE n  == Len(st)
           tt == Front(st)
<1>1. n \in Nat \ {0} /\ n = Len(st) /\ st \in Seq(Frames) /\ Last(st) = st[n]
    BY DEF StackOK, Last
<1>2. /\ tt \in Seq(Frames) /\ Len(tt) = n - 1
      /\ \A k \in 1..n - 1 : tt[k] = st[k]
    BY <1>1 DEF Front
<1> HIDE DEF n, tt
<1>3. tt = <<>> <=> n = 1
    BY <1>1, <1>2
<1>4. StackOK(tt)
    BY <1>1, <1>2, <1>3 DEF StackOK
<1>5. tt = <<>> => BaseOK(Last(st))
    BY <1>1, <1>3 DEF StackOK
<1>6. tt # <<>> => Last(tt) = st[n - 1] /\ Last(tt) \in Frames
                   /\ FrameOK(Last(tt)) /\ CallOK(st[n - 1], st[n])
    <2> SUFFICES ASSUME tt # <<>> PROVE Last(tt) = st[n - 1] /\ Last(tt) \in Frames
                   /\ FrameOK(Last(tt)) /\ CallOK(st[n - 1], st[n])
        OBVIOUS
    <2>1. n - 1 \in 1..n /\ n - 1 \in 1..n - 1 /\ (n - 1) + 1 = n
        <3>1. n # 1
            BY <1>3
        <3> QED BY <3>1, <1>1
    <2>2. Last(tt) = st[n - 1]
        BY <2>1, <1>2 DEF Last
    <2>3. CallOK(st[n - 1], st[(n - 1) + 1])
        BY <1>1, <2>1 DEF StackOK
    <2> QED BY <2>1, <2>2, <2>3, <1>1 DEF StackOK
<1> QED BY <1>1, <1>3, <1>4, <1>5, <1>6 DEF tt

----------------------------------------------------------------------------
(* Paths.                                                                  *)

LEMMA PathGrows ==
    ASSUME NEW m \in Sources, NEW path \in Seq(Sources),
           \/ path = <<>> /\ Prune(m)
           \/ IsPath(path) /\ GrantedBy(m, path[1])
    PROVE  /\ <<m>> \o path \in Seq(Sources)
           /\ (<<m>> \o path)[1] = m
           /\ IsPath(<<m>> \o path)
<1> DEFINE n   == Len(path)
           new == <<m>> \o path
<1>1. /\ n \in Nat /\ n = Len(path) /\ new \in Seq(Sources) /\ Len(new) = n + 1
      /\ new # <<>> /\ new[1] = m
      /\ \A k \in 2..n + 1 : new[k] = path[k - 1]
    OBVIOUS
<1>2. path = <<>> => n = 0
    OBVIOUS
<1>3. path # <<>> => n > 0
    OBVIOUS
<1> HIDE DEF n, new
<1>4. CASE path = <<>> /\ Prune(m)
    BY <1>1, <1>2, <1>4 DEF IsPath
<1>5. CASE IsPath(path) /\ GrantedBy(m, path[1])
    <2>1. n > 0 /\ (\A k \in 1..n - 1 : GrantedBy(path[k], path[k + 1])) /\ Prune(path[n])
        BY <1>1, <1>3, <1>5 DEF IsPath
    <2>2. \A k \in 1..n : GrantedBy(new[k], new[k + 1])
        <3> SUFFICES ASSUME NEW k \in 1..n PROVE GrantedBy(new[k], new[k + 1])
            OBVIOUS
        <3>1. CASE k = 1
            <4>1. new[1] = m /\ new[2] = path[1]
                BY <1>1, <2>1
            <4> QED BY <4>1, <3>1, <1>5
        <3>2. CASE k # 1
            <4>1. new[k] = path[k - 1] /\ new[k + 1] = path[(k - 1) + 1] /\ k - 1 \in 1..n - 1
                BY <1>1, <3>2
            <4> QED BY <4>1, <2>1
        <3> QED BY <3>1, <3>2
    <2>3. new[n + 1] = path[n]
        BY <1>1, <2>1
    <2> QED BY <1>1, <2>1, <2>2, <2>3 DEF IsPath
<1> QED BY <1>1, <1>4, <1>5 DEF new

\* What an Authorize selects grants the match it authorizes.
LEMMA MatchGranted ==
    ASSUME world \in Worlds, NEW f \in Frames, FrameOK(f), f.kind = "authorize",
           NEW j \in DOMAIN f.sources, Selected(f, f.sources[j])
    PROVE  GrantedBy(f.match, Match(f, f.sources[j]))
<1> DEFINE s == f.sources[j]
           n == Match(f, s)
<1>1. s.link \in ResolveProofs(f.match.link) /\ s.cap \in Range(Dlg(s.link).caps)
    BY DEF FrameOK
<1>2. n.link = s.link
    BY DEF Match, Source
<1>3. Permits(s.cap, f.match.cap)
    BY DEF Selected, SelectCapability, Permits, Derives, DefaultDerives,
           ResolveCapability, ResolveResource
<1> QED BY <1>1, <1>2, <1>3 DEF GrantedBy, ResolveProofs

\* What the outermost Claim selects is the provided capability.
LEMMA MatchFromInvocation ==
    ASSUME world \in Worlds, NEW f \in Frames, FrameOK(f), BaseOK(f),
           NEW j \in DOMAIN f.sources, Selected(f, f.sources[j]),
           NEW path, path[1] = Match(f, f.sources[j])
    PROVE  FromInvocation(path)
BY DEF FrameOK, BaseOK, Selected, Match, ParseCapability, FromInvocation

----------------------------------------------------------------------------
(* Steps of the search, with the graph held fixed.                         *)

LEMMA CallsWait ==
    ASSUME NEW st, StackOK(st)
    PROVE  \A k \in 1..Len(st) - 1 : st[k].pc \in {"session", "authorize"}
BY DEF StackOK, CallOK

LEMMA TopOK ==
    ASSUME StackOK(stack), stack # <<>>
    PROVE  Top \in Frames /\ FrameOK(Top)
<1>1. stack \in Seq(Frames) /\ \A k \in 1..Len(stack) : FrameOK(stack[k])
    BY DEF StackOK
<1>2. Len(stack) \in 1..Len(stack)
    BY <1>1
<1> QED BY <1>1, <1>2 DEF Top, Last

LEMMA LinksType ==
    ASSUME NEW auth \in Auths
    PROVE  AuthLinks(auth) \subseteq Link
<1>1. auth.path \in Seq(Sources) /\ auth.atts \subseteq Attestations
    BY DEF Auths
<1>2. \A k \in DOMAIN auth.path : auth.path[k].link \in Link
    <2>1. \A k \in DOMAIN auth.path : auth.path[k] \in Sources
        BY <1>1
    <2> QED BY <2>1 DEF Sources
<1>3. UNION {a.links : a \in auth.atts} \subseteq Link
    BY <1>1 DEF Attestations
<1> QED BY <1>2, <1>3 DEF AuthLinks

Returns == [is : {"none", "ok", "fail"}, auth : Auths, failed : BOOLEAN,
            errs : SUBSET Errors]

LEMMA NoReturnOK ==
    ASSUME NEW st
    PROVE  NoReturn \in Returns /\ ReturnOK(st, NoReturn)
BY DEF NoReturn, NoAuth, Auth, Auths, Returns, ReturnOK

LEMMA DeniedOK ==
    ASSUME NEW st, NEW failed \in BOOLEAN, NEW errs \in SUBSET Errors
    PROVE  Denied(failed, errs) \in Returns /\ ReturnOK(st, Denied(failed, errs))
BY DEF Denied, NoAuth, Auth, Auths, Returns, ReturnOK

LEMMA GrantOK ==
    ASSUME world \in Worlds, StackOK(stack), stack # <<>>,
           Top.j \in DOMAIN Top.sources, Selected(Top, Top.sources[Top.j]),
           NEW sub \in Auths,
           LET m == Match(Top, Top.sources[Top.j])
           IN  /\ \/ sub.path = <<>> /\ Prune(m)
                  \/ IsPath(sub.path) /\ GrantedBy(m, sub.path[1])
               /\ Grant(Top, m, sub)
    PROVE  StackOK(stack') /\ ret' \in Returns /\ ReturnOK(stack', ret')
<1> DEFINE f    == Top
           m    == Match(f, f.sources[f.j])
           path == <<m>> \o sub.path
           atts == RelevantAttestations(f, m) \cup sub.atts
           auth == Auth(path, atts)
<1>1. f \in Frames /\ FrameOK(f) /\ f = Last(stack)
    BY TopOK DEF Top
<1>2. f.sources[f.j] \in Sources
    BY <1>1 DEF Frames
<1>3. m \in Sources
    BY <1>1, <1>2, MatchType DEF FrameOK
<1>4. path \in Seq(Sources) /\ path[1] = m /\ IsPath(path)
    BY <1>3, PathGrows DEF Auths
<1>5. atts \subseteq Attestations
    BY <1>1 DEF RelevantAttestations, Frames, Auths
<1>6. auth \in Auths /\ auth.path = path
    BY <1>4, <1>5 DEF Auth, Auths
<1>7. Granted(auth) \in Returns /\ Granted(auth).auth.path = path
    BY <1>6 DEF Granted, Returns
<1>8. \/ \E link \in RevokedIn(auth) : Goto(NextSource(f, FALSE, Revoked(link))) /\ ret' = NoReturn
      \/ Return(Granted(auth))
    BY DEF Grant
<1>9. ASSUME NEW link \in RevokedIn(auth),
             Goto(NextSource(f, FALSE, Revoked(link))), ret' = NoReturn
      PROVE  StackOK(stack') /\ ret' \in Returns /\ ReturnOK(stack', ret')
    <2>1. link \in Link
        BY <1>6, LinksType DEF RevokedIn
    <2>2. Revoked(link) \in SUBSET Errors
        BY <2>1, ErrorType DEF Revoked, ErrorNames
    <2> HIDE DEF auth
    <2> QED BY <1>1, <1>9, <2>2, NextSourceOK, GotoOK, NoReturnOK DEF Goto
<1>10. CASE Return(Granted(auth))
    <2>1. stack' = Front(stack) /\ ret' = Granted(auth)
        BY <1>10 DEF Return
    <2>2. stack' = <<>> => FromInvocation(path)
        BY <2>1, <1>1, <1>4, PopOK, MatchFromInvocation
    <2>3. ASSUME stack' # <<>>, Last(stack').pc = "authorize"
          PROVE  GrantedBy(Match(Last(stack'), Last(stack').sources[Last(stack').j]), path[1])
        <3>1. CallOK(Last(stack'), f)
            BY <2>1, <2>3, <1>1, PopOK
        <3>2. f.kind = "authorize" /\ f.match = Match(Last(stack'), Last(stack').sources[Last(stack').j])
            BY <3>1, <2>3 DEF CallOK
        <3> QED BY <3>2, <1>1, <1>4, MatchGranted
    <2> QED BY <2>1, <2>2, <2>3, <1>4, <1>7, PopOK DEF ReturnOK
<1> QED BY <1>8, <1>9, <1>10

\* The invariant at the next state, from the graph at this one.
LEMMA SameWorld ==
    ASSUME UNCHANGED world
    PROVE  /\ StackOK(stack') => StackOK(stack)'
           /\ ReturnOK(stack', ret') => ReturnOK(stack, ret)'
<1>1. StackOK(stack') => StackOK(stack)'
    BY DEF StackOK, BaseOK, FrameOK, CallOK, Dlg, ResolveProofs, Available, Context
<1>2. ReturnOK(stack', ret') => ReturnOK(stack, ret)'
    BY DEF ReturnOK, IsPath, GrantedBy, FromInvocation, Prune, Dlg, Available, Context
<1> QED BY <1>1, <1>2

\* A step of the search that keeps the stack and the return value in order.
LEMMA SearchStep ==
    ASSUME world \in Worlds, TypeOK, StageOK, stage = "access", UNCHANGED <<world, env, stage, start>>,
           StackOK(stack'), ret' \in Returns, ReturnOK(stack', ret')
    PROVE  IInv'
<1>1. StackOK(stack)' /\ ReturnOK(stack, ret)'
    BY SameWorld
<1>2. stack' \in Seq(Frames)
    BY DEF StackOK
<1>3. \A k \in 1..Len(stack') - 1 : stack'[k].pc \in {"session", "authorize"}
    BY CallsWait
<1>4. TypeOK'
    BY <1>2, <1>3 DEF TypeOK, env, Returns
<1>5. StageOK'
    BY DEF StageOK, Dlg, AcceptedAudiences, Context
<1> QED BY <1>1, <1>4, <1>5 DEF IInv

LEMMA GotoStep ==
    ASSUME IInv, stage = "access", stack # <<>>, UNCHANGED <<world, env, stage, start>>,
           NEW g \in Frames, FrameOK(g), SameCall(Top, g), Goto(g),
           \/ ret' = ret /\ g.pc # "authorize"
           \/ ret' = NoReturn
    PROVE  IInv'
<1>1. StackOK(stack') /\ Last(stack') = g /\ stack' # <<>>
    <2>1. stack \in Seq(Frames) /\ stack' = [stack EXCEPT ![Len(stack)] = g]
        BY DEF IInv, StackOK, Goto
    <2>2. StackOK(stack')
        BY <2>1, GotoOK DEF IInv, Top
    <2>3. Last(stack') = g /\ stack' # <<>>
        BY <2>1 DEF Last
    <2> QED BY <2>2, <2>3
<1>2. ret' \in Returns /\ ReturnOK(stack', ret')
    BY <1>1, NoReturnOK DEF IInv, TypeOK, Returns, ReturnOK
<1> QED BY <1>1, <1>2, SearchStep DEF IInv

LEMMA CallStep ==
    ASSUME IInv, stage = "access", stack # <<>>, UNCHANGED <<world, env, stage, start>>,
           ret' = ret,
           NEW f \in Frames, FrameOK(f), SameCall(Top, f),
           NEW g \in Frames, FrameOK(g), CallOK(f, g), g.pc = "validate", Call(f, g)
    PROVE  IInv'
<1> DEFINE st == [stack EXCEPT ![Len(stack)] = f]
<1>1. stack \in Seq(Frames) /\ stack' = Append(st, g)
    BY DEF IInv, StackOK, Call
<1>2. StackOK(st) /\ st # <<>> /\ Last(st) = f /\ st \in Seq(Frames)
    BY <1>1, GotoOK DEF IInv, Top, Last
<1> HIDE DEF st
<1>3. StackOK(stack') /\ Last(stack') = g /\ stack' # <<>>
    <2>1. StackOK(stack')
        BY <1>1, <1>2, PushOK
    <2>2. Last(stack') = g /\ stack' # <<>>
        BY <1>1, <1>2 DEF Last
    <2> QED BY <2>1, <2>2
<1>4. ret' \in Returns /\ ReturnOK(stack', ret')
    BY <1>3 DEF IInv, TypeOK, Returns, ReturnOK
<1> QED BY <1>3, <1>4, SearchStep DEF IInv

LEMMA InitInv == Init => IInv
<1> SUFFICES ASSUME Init PROVE IInv
    OBVIOUS
<1>1. world \in Worlds /\ TypeOK
    BY NoReturnOK, ConstantsAssumption DEF Init, TypeOK, Returns
<1>2. StackOK(stack) /\ ReturnOK(stack, ret)
    BY NoReturnOK DEF Init, StackOK
<1>3. StageOK
    BY DEF Init, StageOK
<1> QED BY <1>1, <1>2, <1>3 DEF IInv

LEMMA StepInv == IInv /\ [Next]_vars => IInv'
<1> SUFFICES ASSUME IInv, [Next]_vars
             PROVE  IInv'
    OBVIOUS
<1>1. TypeOK /\ StackOK(stack) /\ StageOK
      /\ world \in Worlds /\ ret \in Returns
      /\ (stage # "crashed" => ReturnOK(stack, ret))
    BY DEF IInv, TypeOK, Returns
<1>2. CASE Provide
    <2>1. stage = "received" /\ UNCHANGED <<world, env, ret>> /\ stack = <<>>
          /\ start' \in [now : 1..MaxTime, revoked : SUBSET Link]
        BY <1>1, <1>2 DEF Provide, TypeOK
    <2>2. CASE /\ Dlg(world.root).aud \in AcceptedAudiences
               /\ stage' = "access"
               /\ stack' = <<ClaimFrame(Provided, <<world.root>>, {world.root})>>
        <3> DEFINE f == ClaimFrame(Provided, <<world.root>>, {world.root})
        <3>1. world.root \in Link /\ Provided \in Descriptor
            BY <1>1, ConstantsAssumption DEF IsWorld
        <3>2. f \in Frames /\ FrameOK(f) /\ BaseOK(f) /\ f.pc = "validate"
            <4> DEFINE cands == <<world.root>>
                       pool  == {world.root}
            <4>1. cands \in Seq(Link) /\ pool \in SUBSET Link
                BY <3>1
            <4> HIDE DEF cands, pool
            <4>2. ClaimFrame(Provided, cands, pool) \in Frames
                  /\ FrameOK(ClaimFrame(Provided, cands, pool))
                BY <1>1, <3>1, <4>1, ClaimFrameOK
            <4>3. f \in Frames /\ FrameOK(f) /\ f.kind = "claim" /\ f.desc = Provided
                  /\ f.pool = {world.root}
                BY <4>2 DEF cands, pool, ClaimFrame
            <4> QED BY <4>3 DEF BaseOK, ClaimFrame
        <3> HIDE DEF f
        <3>3. StackOK(<<f>>) /\ Last(<<f>>) = f /\ <<f>> # <<>>
            BY <3>2 DEF StackOK, Last
        <3>4. ReturnOK(<<f>>, ret)
            BY <1>1, <2>1, <3>2, <3>3 DEF ReturnOK
        <3>5. stack' = <<f>> /\ ret' = ret
            BY <2>1, <2>2 DEF f
        <3>6. StackOK(stack)' /\ ReturnOK(stack, ret)'
            BY <2>1, <3>3, <3>4, <3>5, SameWorld
        <3>7. TypeOK'
            BY <1>1, <2>1, <2>2, <3>2, <3>5 DEF TypeOK, env
        <3>8. StageOK'
            BY <2>1, <2>2 DEF StageOK, Dlg, AcceptedAudiences, Context
        <3> QED BY <1>1, <2>1, <3>6, <3>7, <3>8 DEF IInv
    <2>3. CASE stage' = "invalidAudience" /\ UNCHANGED stack
        <3>1. StackOK(stack)' /\ ReturnOK(stack, ret)'
            BY <1>1, <2>1, <2>3, SameWorld
        <3>2. TypeOK' /\ StageOK'
            BY <1>1, <2>1, <2>3 DEF TypeOK, StageOK, env, Dlg, AcceptedAudiences, Context
        <3> QED BY <1>1, <2>1, <3>1, <3>2 DEF IInv
    <2> QED BY <1>2, <2>2, <2>3 DEF Provide
<1>3. CASE CheckExpired
    <2>1. stage = "access" /\ stack # <<>> /\ Top \in Frames /\ FrameOK(Top)
          /\ Top.pc = "validate" /\ Top.i <= Len(Top.cands)
          /\ UNCHANGED <<world, env, stage, ret, start>>
        BY <1>1, <1>3, TopOK DEF CheckExpired, Running
    <2>2. ASSUME NEW errs \in SUBSET Errors, Goto(Reject(Top, errs))
          PROVE  IInv'
        BY <1>1, <2>1, <2>2, RejectOK, GotoStep
    <2>4. \A name \in ErrorNames : {Error(Top.cands[Top.i], name)} \in SUBSET Errors
        BY <2>1, ErrorType DEF Frames
    <2>5. {} \in SUBSET Errors /\ {"TimeBounds", "Expired"} \subseteq ErrorNames
        BY DEF ErrorNames
    <2>3. CASE Goto([Top EXCEPT !.pc = "notBefore"]) /\ Top.cands[Top.i] \in Top.pool
        <3> DEFINE g == [Top EXCEPT !.pc = "notBefore"]
        <3>1. Top.i \in DOMAIN Top.cands
            BY <2>1 DEF Frames
        <3>2. g \in Frames /\ g.pc = "notBefore" /\ SameCall(Top, g)
            BY <2>1 DEF Frames, SameCall
        <3>3. FrameOK(g)
            BY <2>1, <2>3, <3>1 DEF FrameOK, Frames
        <3> QED BY <1>1, <2>1, <2>3, <3>2, <3>3, GotoStep
    <2> QED BY <1>3, <2>2, <2>3, <2>4, <2>5 DEF CheckExpired
<1>4. CASE CheckNotBefore
    <2> DEFINE link == Top.cands[Top.i]
    <2>1. stage = "access" /\ stack # <<>> /\ Top \in Frames /\ FrameOK(Top)
          /\ Top.pc = "notBefore" /\ UNCHANGED <<world, env, stage, ret, start>>
        BY <1>1, <1>4, TopOK DEF CheckNotBefore, Running
    <2>2. link \in Link /\ Top.i \in DOMAIN Top.cands /\ link \in Top.pool
        BY <2>1 DEF FrameOK, Frames
    <2>3. ASSUME NEW name \in ErrorNames, Goto(Reject(Top, {Error(link, name)}))
          PROVE  IInv'
        BY <1>1, <2>1, <2>2, <2>3, ErrorType, RejectOK, GotoStep
    <2>4. CASE Goto(Accept(Top, {}))
        <3>1. Accept(Top, {}).pc = "validate"
            BY <2>1 DEF Accept, Frames
        <3> QED BY <1>1, <2>1, <2>4, <3>1, AcceptOK, GotoStep
    <2>5. CASE Call([Top EXCEPT !.pc = "session"], SessionFrame(Top, link))
        <3> DEFINE f == [Top EXCEPT !.pc = "session"]
                   g == SessionFrame(Top, link)
        <3>1. f \in Frames /\ f.pc = "session" /\ SameCall(Top, f)
            BY <2>1 DEF Frames, SameCall
        <3>2. FrameOK(f)
            BY <2>1, <2>2 DEF FrameOK, Frames
        <3>3. g \in Frames /\ FrameOK(g) /\ g.kind = "claim" /\ g.pc = "validate"
            BY <1>1, <2>1, <2>2, SessionFrameOK DEF SessionFrame, ClaimFrame
        <3>4. CallOK(f, g)
            BY <3>1, <3>3 DEF CallOK
        <3> HIDE DEF g
        <3>5. Call(f, g)
            BY <2>5 DEF g
        <3> QED BY <1>1, <2>1, <3>1, <3>2, <3>3, <3>4, <3>5, CallStep
    <2>6. "NotValidBefore" \in ErrorNames
        BY DEF ErrorNames
    <2>7. ASSUME NEW verdict \in Verdicts, Goto(Judge(Top, verdict))
          PROVE  IInv'
        BY <2>3, <2>4, <2>7 DEF Judge, BadSignature, Verdicts, ErrorNames
    <2> QED BY <1>4, <2>3, <2>5, <2>6, <2>7, VerdictType DEF CheckNotBefore
<1>5. CASE SessionReturns
    <2> DEFINE link == Top.cands[Top.i]
               att  == [proof |-> link, links |-> AuthLinks(ret.auth)]
    <2>1. stage = "access" /\ stack # <<>> /\ Top \in Frames /\ FrameOK(Top)
          /\ Top.pc = "session" /\ UNCHANGED <<world, env, stage, start>>
          /\ ret' = NoReturn
        BY <1>1, <1>5, TopOK DEF SessionReturns, Running
    <2>2. link \in Link
        BY <2>1 DEF FrameOK, Frames
    <2>3. AuthLinks(ret.auth) \subseteq Link
        BY <1>1, LinksType DEF Returns
    <2>4. {att} \in SUBSET Attestations /\ {} \in SUBSET Attestations
        BY <2>2, <2>3 DEF Attestations
    <2>5. ASSUME NEW atts \in SUBSET Attestations, Goto(Accept(Top, atts))
          PROVE  IInv'
        BY <1>1, <2>1, <2>5, AcceptOK, GotoStep
    <2>6. ASSUME NEW errs \in SUBSET Errors, Goto(Reject(Top, errs))
          PROVE  IInv'
        BY <1>1, <2>1, <2>6, RejectOK, GotoStep
    <2>7. SessionEscalation(link, ret.errs) \in SUBSET Errors
        BY <1>1, <2>2, ErrorType DEF SessionEscalation, ErrorNames, Returns
    <2>8. ASSUME NEW verdict \in Verdicts, Goto(Judge(Top, verdict))
          PROVE  IInv'
        <3>1. CASE verdict = "ok"
            BY <2>4, <2>5, <2>8, <3>1 DEF Judge
        <3>2. CASE verdict # "ok"
            <4>1. verdict \in ErrorNames
                BY <3>2 DEF Verdicts, ErrorNames
            <4> QED BY <2>2, <2>6, <2>8, <3>2, <4>1, ErrorType DEF Judge, BadSignature
        <3> QED BY <3>1, <3>2
    <2> QED BY <1>5, <2>4, <2>5, <2>6, <2>7, <2>8, VerdictType DEF SessionReturns
<1>6. CASE TrySource
    <2> DEFINE s == Top.sources[Top.j]
               m == Match(Top, s)
    <2>1. stage = "access" /\ stack # <<>> /\ Top \in Frames /\ FrameOK(Top)
          /\ Top.pc = "validate" /\ Top.j <= Len(Top.sources)
          /\ UNCHANGED <<world, env, stage, start>>
        BY <1>1, <1>6, TopOK DEF TrySource, Running
    <2>2. Top.j \in DOMAIN Top.sources /\ s \in Sources
        BY <2>1 DEF Frames
    <2>3. m \in Sources
        BY <2>1, <2>2, MatchType DEF FrameOK
    <2>4. CASE Goto(NextSource(Top, FALSE, SelectError(Top, s))) /\ UNCHANGED ret
        <3>1. SelectError(Top, s) \in SUBSET Errors
            BY <2>2, SelectErrorType DEF Sources
        <3> QED BY <1>1, <2>1, <2>4, <3>1, NextSourceOK, GotoStep
    <2>5. CASE Selected(Top, s) /\ Prune(m) /\ Grant(Top, m, NoAuth)
        <3>1. NoAuth \in Auths /\ NoAuth.path = <<>>
            BY DEF NoAuth, Auth, Auths
        <3>2. StackOK(stack') /\ ret' \in Returns /\ ReturnOK(stack', ret')
            BY <1>1, <2>1, <2>2, <2>5, <3>1, GrantOK
        <3> QED BY <1>1, <2>1, <3>2, SearchStep
    <2>6. CASE Selected(Top, s) /\ UNCHANGED ret
               /\ Call([Top EXCEPT !.pc = "authorize"], AuthorizeFrame(Top.desc, m))
        <3> DEFINE f == [Top EXCEPT !.pc = "authorize"]
                   g == AuthorizeFrame(Top.desc, m)
        <3>1. f \in Frames /\ f.pc = "authorize" /\ SameCall(Top, f)
              /\ f.j = Top.j /\ f.sources = Top.sources
            BY <2>1 DEF Frames, SameCall
        <3>2. Selected(f, s) /\ Match(f, s) = m
            BY <2>6, <3>1 DEF Selected, Match, SameCall
        <3>3. FrameOK(f)
            BY <2>1, <2>2, <3>1, <3>2 DEF FrameOK, SameCall
        <3>4. g \in Frames /\ FrameOK(g) /\ g.kind = "authorize" /\ g.match = m
              /\ g.pc = "validate"
            <4>1. Top.desc \in Descriptor
                BY <2>1 DEF Frames
            <4> QED BY <1>1, <2>3, <4>1, AuthorizeFrameOK DEF AuthorizeFrame, ClaimFrame
        <3>5. CallOK(f, g)
            BY <3>1, <3>2, <3>4 DEF CallOK
        <3> HIDE DEF g
        <3>6. Call(f, g)
            BY <2>6 DEF g
        <3> QED BY <1>1, <2>1, <2>6, <3>1, <3>3, <3>4, <3>5, <3>6, CallStep
    <2> QED BY <1>6, <2>4, <2>5, <2>6 DEF TrySource
<1>7. CASE AuthorizeReturns
    <2> DEFINE s == Top.sources[Top.j]
               m == Match(Top, s)
    <2>1. stage = "access" /\ stack # <<>> /\ Top \in Frames /\ FrameOK(Top)
          /\ Top.pc = "authorize" /\ UNCHANGED <<world, env, stage, start>>
        BY <1>1, <1>7, TopOK DEF AuthorizeReturns, Running
    <2>2. Top.j \in DOMAIN Top.sources /\ Selected(Top, s)
        BY <2>1 DEF FrameOK
    <2>3. CASE ret.is = "ok" /\ Grant(Top, m, ret.auth)
        <3>1. ret.auth \in Auths
            BY <1>1 DEF Returns
        <3>2. IsPath(ret.auth.path) /\ GrantedBy(m, ret.auth.path[1])
            BY <1>1, <2>1, <2>3 DEF ReturnOK, Top
        <3>3. StackOK(stack') /\ ret' \in Returns /\ ReturnOK(stack', ret')
            BY <1>1, <2>1, <2>2, <2>3, <3>1, <3>2, GrantOK
        <3> QED BY <1>1, <2>1, <3>3, SearchStep
    <2>4. CASE Goto(NextSource(Top, TRUE, InvalidClaim(m.link, ret.errs))) /\ ret' = NoReturn
        <3>1. s \in Sources
            BY <2>1, <2>2 DEF Frames
        <3>2. m.link \in Link
            BY <2>1, <3>1, MatchType DEF FrameOK, Sources
        <3>3. InvalidClaim(m.link, ret.errs) \in SUBSET Errors
            BY <1>1, <3>2, ErrorType DEF InvalidClaim, ErrorNames, Returns
        <3> QED BY <1>1, <2>1, <2>4, <3>3, NextSourceOK, GotoStep
    <2> QED BY <1>7, <2>3, <2>4 DEF AuthorizeReturns
<1>8. CASE Exhausted
    <2>1. stage = "access" /\ stack # <<>> /\ Top \in Frames
          /\ stack' = Front(stack) /\ ret' = Denied(Top.failed, Top.errs)
          /\ UNCHANGED <<world, env, stage, start>>
        BY <1>1, <1>8, TopOK DEF Exhausted, Running, Return
    <2>2. Top.failed \in BOOLEAN /\ Top.errs \in SUBSET Errors
        BY <2>1 DEF Frames
    <2>3. StackOK(stack') /\ ret' \in Returns /\ ReturnOK(stack', ret')
        BY <1>1, <2>1, <2>2, PopOK, DeniedOK
    <2> QED BY <1>1, <2>1, <2>3, SearchStep
<1>9. CASE Answer
    <2>1. UNCHANGED <<world, env, stack, ret, start>> /\ stack = <<>> /\ stage = "access"
          /\ stage' = IF ret.is = "ok" THEN "handled" ELSE "unauthorized"
        BY <1>9 DEF Answer
    <2>2. StackOK(stack)' /\ ReturnOK(stack, ret)'
        BY <1>1, <2>1, SameWorld
    <2>3. TypeOK' /\ StageOK'
        BY <1>1, <2>1 DEF TypeOK, StageOK, env, Dlg, AcceptedAudiences, Context
    <2> QED BY <1>1, <2>1, <2>2, <2>3 DEF IInv
<1>13. CASE SessionPanics
    <2>1. UNCHANGED <<world, env, ret, start>> /\ stage' = "crashed" /\ stack' = <<>>
        BY <1>13 DEF SessionPanics
    <2>2. StackOK(<<>>)
        BY DEF StackOK
    <2>3. StackOK(stack)'
        BY <2>1, <2>2, SameWorld
    <2>4. TypeOK' /\ StageOK'
        BY <1>1, <2>1 DEF TypeOK, StageOK, env
    <2> QED BY <1>1, <2>1, <2>3, <2>4 DEF IInv
<1>10. CASE Tick
    <2>1. UNCHANGED <<world, revoked, stage, stack, ret, start>> /\ stage # "crashed"
          /\ now < world.horizon /\ now' = now + 1
        BY <1>10 DEF Tick
    <2>2. StackOK(stack)' /\ ReturnOK(stack, ret)'
        BY <1>1, <2>1, SameWorld
    <2>3. now' \in 1..MaxTime
        <3>1. world.horizon \in 1..MaxTime /\ now \in 1..MaxTime /\ MaxTime \in Nat
            BY <1>1, ConstantsAssumption DEF TypeOK, IsWorld
        <3> QED BY <2>1, <3>1
    <2>4. TypeOK' /\ StageOK'
        BY <1>1, <2>1, <2>3 DEF TypeOK, StageOK, Dlg, AcceptedAudiences, Context
    <2> QED BY <1>1, <2>1, <2>2, <2>4 DEF IInv
<1>11. CASE Revoke
    <2>1. UNCHANGED <<world, now, stage, stack, ret, start>> /\ stage # "crashed"
          /\ \E link \in world.revocable \ revoked : revoked' = revoked \cup {link}
        BY <1>11 DEF Revoke
    <2>2. StackOK(stack)' /\ ReturnOK(stack, ret)'
        BY <1>1, <2>1, SameWorld
    <2>3. revoked' \subseteq Link
        BY <1>1, <2>1, ConstantsAssumption DEF TypeOK, IsWorld
    <2>4. TypeOK' /\ StageOK'
        BY <1>1, <2>1, <2>3 DEF TypeOK, StageOK, Dlg, AcceptedAudiences, Context
    <2> QED BY <1>1, <2>1, <2>2, <2>4 DEF IInv
<1>12. CASE UNCHANGED vars
    <2>1. UNCHANGED <<world, now, revoked, stage, stack, ret, start>>
        BY <1>12 DEF vars
    <2>2. StackOK(stack)' /\ (stage' # "crashed" => ReturnOK(stack, ret)')
        BY <1>1, <2>1, SameWorld
    <2>3. TypeOK' /\ StageOK'
        BY <1>1, <2>1 DEF TypeOK, StageOK, Dlg, AcceptedAudiences, Context
    <2> QED BY <1>1, <2>1, <2>2, <2>3 DEF IInv
<1> QED BY <1>2, <1>3, <1>4, <1>5, <1>6, <1>7, <1>8, <1>9, <1>10, <1>11, <1>12, <1>13
        DEF Next, Serve

----------------------------------------------------------------------------
(* The theorems.                                                           *)

\* The types of the state, and that a call waits exactly while another one is
\* above it on the stack (validator/lib.go 258-317, 483-508).
THEOREM TypeCorrect == Spec => []TypeOK
<1>1. IInv => TypeOK
    BY DEF IInv
<1> QED BY <1>1, InitInv, StepInv, PTL DEF Spec

\* However the clock and the revocations interleave with the search, the handler
\* runs only on a path from the provided capability of the invocation, addressed
\* to this service, to an issuer that owns the resource (validator/lib.go
\* 258-315, 483-508, 548-600; server/handler.go 44-66).
THEOREM HandlerRunsOnPath == Spec => []HandledOnPath
<1>1. IInv => HandledOnPath
    BY DEF IInv, TypeOK, StageOK, ReturnOK, HandledOnPath, FromInvocation
<1> QED BY <1>1, InitInv, StepInv, PTL DEF Spec

----------------------------------------------------------------------------
(* Soundness.                                                              *)


\* No set of unsigned delegations vouches for itself alone.
Grounded(S) ==
    \A X \in (SUBSET S) \ {{}} :
        \E l \in X : Signed(l) \/ \E q \in S \ X : Attests(q, l)

\* The clock is asked, and there is a time at which the delegation is valid.
Bounded(link) == Context.validateTimeBounds = Unset /\ EverValid(link)

\* Validated while Access has been running.
WasValid(link) == Bounded(link) => \E t \in start.now..now : ValidAt(link, t)

\* Passed the first read of the clock.
WasUnexpired(link) ==
    Bounded(link) => \E t \in start.now..now : ~IsExpired(Dlg(link), t)

\* One of the delegations S, not itself, attests the link.
AttestedIn(link, S) == \E q \in S \ {link} : Attests(q, link)

AttestedBy(link, atts) ==
    \E a \in atts : a.proof = link /\ AttestedIn(link, a.links)

NeedsSession(link) == ~IsKeyDID(Dlg(link).iss) /\ Dlg(link).iss # Service

Vouched(f, link) == WasValid(link) /\ (Signed(link) \/ AttestedBy(link, f.atts))

\* Proofs that one delegation resolved, or the invocation.
PoolOK(pool) == pool \subseteq {world.root} \/ \E m \in Link : pool \subseteq ResolveProofs(m)

\* A call: its sources are vouched for, its attestations are grounded, what it
\* found wrong is, and it failed over a source it selected.
SoundFrame(f) ==
    /\ \A n \in DOMAIN f.sources : Vouched(f, f.sources[n].link)
    /\ \A a \in f.atts : Grounded(a.links) /\ \A l \in a.links : WasValid(l)
    /\ f.pc = "notBefore" => WasUnexpired(f.cands[f.i])
    /\ f.pc = "session" => WasValid(f.cands[f.i]) /\ NeedsSession(f.cands[f.i])
    /\ PoolOK(f.pool)
    /\ \A e \in f.errs : IsTrue(e)
    /\ f.failed => \E n \in DOMAIN f.sources : Selected(f, f.sources[n])

\* A session is looked for among the other proofs.
SoundCall(f, g) ==
    f.pc = "session" =>
        /\ g.desc = AttestationOf(f.cands[f.i])
        /\ f.cands[f.i] \notin g.pool

SoundStack(st) ==
    /\ \A k \in 1..Len(st) : SoundFrame(st[k])
    /\ \A k \in 1..Len(st) - 1 : SoundCall(st[k], st[k + 1])

SoundAuth(auth) ==
    /\ Grounded(AuthLinks(auth))
    /\ \A l \in AuthLinks(auth) : WasValid(l)

\* What a finished call gives its caller st[Len(st)].
SoundReturn(st, r) ==
    /\ r.is = "ok" => SoundAuth(r.auth)
    /\ r.is = "ok" /\ st = <<>> /\ Context.validateAuthorization
          => AuthLinks(r.auth) \cap start.revoked = {}
    /\ \A e \in r.errs : IsTrue(e)
    /\ st # <<>> /\ Last(st).pc = "session" =>
          LET link == Last(st).cands[Last(st).i]
          IN  /\ r.is = "ok" => AttestedIn(link, AuthLinks(r.auth))
              /\ r.is = "fail" /\ r.failed => AttestedIn(link, Available)

SoundStart ==
    /\ stage = "received" => stack = <<>> /\ ret = NoReturn
    /\ stage # "received" => start.now <= now /\ start.revoked \subseteq revoked

\* Why the process ended.
SoundCrash == CrashNeedsEmptyProof

SInv ==
    /\ IInv
    /\ SoundStack(stack)
    /\ stage # "crashed" => SoundReturn(stack, ret)
    /\ SoundStart
    /\ SoundCrash

----------------------------------------------------------------------------
(* Grounded sets.                                                          *)

LEMMA GroundedUnion ==
    ASSUME NEW S, NEW T, Grounded(S), Grounded(T)
    PROVE  Grounded(S \cup T)
<1> SUFFICES ASSUME NEW X \in (SUBSET (S \cup T)) \ {{}}
             PROVE  \E l \in X : Signed(l) \/ \E q \in (S \cup T) \ X : Attests(q, l)
    BY DEF Grounded
<1>1. CASE X \cap S # {}
    <2>1. PICK l \in X \cap S : Signed(l) \/ \E q \in S \ (X \cap S) : Attests(q, l)
        BY <1>1 DEF Grounded
    <2> QED BY <2>1
<1>2. CASE X \cap T # {}
    <2>1. PICK l \in X \cap T : Signed(l) \/ \E q \in T \ (X \cap T) : Attests(q, l)
        BY <1>2 DEF Grounded
    <2> QED BY <2>1
<1> QED BY <1>1, <1>2

LEMMA GroundedUnions ==
    ASSUME NEW atts, \A a \in atts : Grounded(a.links)
    PROVE  Grounded(UNION {a.links : a \in atts})
<1> DEFINE S == UNION {a.links : a \in atts}
<1> SUFFICES ASSUME NEW X \in (SUBSET S) \ {{}}
             PROVE  \E l \in X : Signed(l) \/ \E q \in S \ X : Attests(q, l)
    BY DEF Grounded
<1>1. PICK a \in atts : X \cap a.links # {}
    OBVIOUS
<1>2. PICK l \in X \cap a.links :
          Signed(l) \/ \E q \in a.links \ (X \cap a.links) : Attests(q, l)
    BY <1>1 DEF Grounded
<1> QED BY <1>2

\* A delegation that is signed, or attested by another one of the set, joins it.
LEMMA GroundedJoin ==
    ASSUME NEW S, Grounded(S), NEW link, Signed(link) \/ AttestedIn(link, S)
    PROVE  Grounded(S \cup {link})
<1> DEFINE T == S \cup {link}
<1> SUFFICES ASSUME NEW X \in (SUBSET T) \ {{}}
             PROVE  \E l \in X : Signed(l) \/ \E q \in T \ X : Attests(q, l)
    BY DEF Grounded
<1>1. CASE X \subseteq S
    <2>1. PICK l \in X : Signed(l) \/ \E q \in S \ X : Attests(q, l)
        BY <1>1 DEF Grounded
    <2> QED BY <2>1
<1>2. CASE link \in X /\ link \notin S /\ X \cap S # {}
    <2>1. PICK l \in X \cap S : Signed(l) \/ \E q \in S \ (X \cap S) : Attests(q, l)
        BY <1>2 DEF Grounded
    <2> QED BY <1>2, <2>1
<1>3. CASE link \in X /\ link \notin S /\ X \cap S = {}
    BY <1>3 DEF AttestedIn
<1> QED BY <1>1, <1>2, <1>3

PathSet(path) == {path[k].link : k \in DOMAIN path}

LEMMA PathLinks ==
    ASSUME NEW m \in Sources, NEW path \in Seq(Sources)
    PROVE  PathSet(<<m>> \o path) = {m.link} \cup PathSet(path)
<1> DEFINE n   == Len(path)
           new == <<m>> \o path
<1>1. /\ n \in Nat /\ DOMAIN path = 1..n /\ DOMAIN new = 1..n + 1 /\ new[1] = m
      /\ \A k \in 1..n : new[k + 1] = path[k]
    OBVIOUS
<1> HIDE DEF n, new
<1>2. ASSUME NEW k \in DOMAIN new
      PROVE  new[k].link \in {m.link} \cup {path[i].link : i \in DOMAIN path}
    <2>1. CASE k = 1
        BY <1>1, <2>1
    <2>2. CASE k # 1
        <3>1. k - 1 \in 1..n /\ (k - 1) + 1 = k
            BY <1>1, <2>2
        <3>2. new[k] = path[k - 1] /\ k - 1 \in DOMAIN path
            BY <1>1, <3>1
        <3> QED BY <3>2
    <2> QED BY <2>1, <2>2
<1>3. m.link \in {new[k].link : k \in DOMAIN new}
    <2>1. 1 \in DOMAIN new
        BY <1>1
    <2> QED BY <1>1, <2>1
<1>4. ASSUME NEW k \in DOMAIN path
      PROVE  path[k].link \in {new[i].link : i \in DOMAIN new}
    <2>1. k + 1 \in DOMAIN new /\ new[k + 1] = path[k]
        BY <1>1
    <2> QED BY <2>1
<1> QED BY <1>2, <1>3, <1>4 DEF PathSet, new

\* An authorization made of a vouched match and of a sound one is sound.
LEMMA SoundGrows ==
    ASSUME world \in Worlds, NEW f \in Frames, SoundFrame(f), NEW m \in Sources, Vouched(f, m.link),
           NEW sub \in Auths, SoundAuth(sub),
           NEW auth, auth = Auth(<<m>> \o sub.path, RelevantAttestations(f, m) \cup sub.atts)
    PROVE  SoundAuth(auth) /\ m.link \in AuthLinks(auth)
<1> DEFINE own == RelevantAttestations(f, m)
           A   == UNION {a.links : a \in own}
           S   == A \cup AuthLinks(sub)
<1>1. auth.path = <<m>> \o sub.path /\ auth.atts = own \cup sub.atts /\ own \subseteq f.atts
    BY DEF Auth, RelevantAttestations
<1>2. AuthLinks(auth) = S \cup {m.link}
    <2>1. sub.path \in Seq(Sources)
        BY DEF Auths
    <2>2. PathSet(auth.path) = {m.link} \cup PathSet(sub.path)
        BY <1>1, <2>1, PathLinks
    <2>3. UNION {a.links : a \in auth.atts} = A \cup UNION {a.links : a \in sub.atts}
        BY <1>1
    <2> QED BY <2>2, <2>3 DEF AuthLinks, PathSet
<1>3. Grounded(A)
    BY <1>1, GroundedUnions DEF SoundFrame
<1>4. Grounded(S)
    BY <1>3, GroundedUnion DEF SoundAuth
<1>5. Signed(m.link) \/ AttestedIn(m.link, S)
    <2>1. CASE Signed(m.link)
        BY <2>1
    <2>2. CASE AttestedBy(m.link, f.atts)
        <3>1. PICK a \in f.atts : a.proof = m.link /\ AttestedIn(m.link, a.links)
            BY <2>2 DEF AttestedBy
        <3>2. a \in own
            BY <3>1 DEF RelevantAttestations
        <3> QED BY <3>1, <3>2 DEF AttestedIn
    <2> QED BY <2>1, <2>2 DEF Vouched
<1>6. \A l \in S \cup {m.link} : WasValid(l)
    BY <1>1 DEF SoundFrame, SoundAuth, Vouched
<1> HIDE DEF S
<1> QED BY <1>2, <1>4, <1>5, <1>6, GroundedJoin DEF SoundAuth

----------------------------------------------------------------------------
(* The clock.                                                              *)

\* Not expired at the first read and not too early at the second one: valid at
\* the second read, or in the second before it expired.
LEMMA BothReads ==
    ASSUME world \in Worlds, TypeOK, start.now <= now, NEW link \in Link,
           WasUnexpired(link), ~NotValidBefore(link)
    PROVE  WasValid(link)
<1> SUFFICES ASSUME Bounded(link) PROVE \E t \in start.now..now : ValidAt(link, t)
    BY DEF WasValid
<1> DEFINE exp == Dlg(link).exp
           nbf == Dlg(link).nbf
<1>1. exp \in Int \cup {NoExpiration} /\ nbf \in Int
    BY DlgType DEF Delegation
<1>2. now \in Nat \ {0} /\ start.now \in Nat /\ start.now <= now
    BY ConstantsAssumption DEF TypeOK
<1>3. PICK t0 \in start.now..now : ~IsExpired(Dlg(link), t0)
    BY DEF WasUnexpired
<1>4. exp = NoExpiration \/ nbf < exp
    BY DEF Bounded, EverValid
<1>5. nbf <= now
    BY <1>1, <1>2 DEF NotValidBefore, IsTooEarly, Bounded
<1>6. (exp = NoExpiration \/ t0 < exp) /\ t0 \in Int
    BY <1>1, <1>2, <1>3 DEF IsExpired
<1>7. \A t \in Int : ValidAt(link, t) <=> nbf <= t /\ (exp = NoExpiration \/ t < exp)
    BY DEF ValidAt
<1> HIDE DEF exp, nbf
<1>8. CASE exp = NoExpiration \/ now < exp
    <2>1. now \in start.now..now /\ now \in Int
        BY <1>2
    <2> QED BY <2>1, <1>5, <1>7, <1>8
<1>9. CASE exp # NoExpiration /\ exp <= now
    <2>1. exp \in Int /\ exp - 1 \in start.now..now /\ exp - 1 \in Int /\ exp - 1 < exp
        BY <1>1, <1>2, <1>3, <1>6, <1>9
    <2>2. nbf <= exp - 1
        BY <1>1, <1>4, <1>9, <2>1
    <2> QED BY <2>1, <2>2, <1>7
<1>10. exp = NoExpiration \/ now < exp \/ exp <= now
    BY <1>1, <1>2
<1> QED BY <1>8, <1>9, <1>10

LEMMA FirstRead ==
    ASSUME world \in Worlds, TypeOK, start.now <= now, NEW link \in Link, ~Expired(link)
    PROVE  WasUnexpired(link)
<1> SUFFICES ASSUME Bounded(link) PROVE \E t \in start.now..now : ~IsExpired(Dlg(link), t)
    BY DEF WasUnexpired
<1>1. now \in start.now..now
    BY DEF TypeOK
<1> QED BY <1>1 DEF Expired, Bounded

----------------------------------------------------------------------------
(* Frames.                                                                 *)

LEMMA SoundReject ==
    ASSUME NEW f \in Frames, SoundFrame(f), NEW errs \in SUBSET Errors,
           \A e \in errs : IsTrue(e)
    PROVE  SoundFrame(Reject(f, errs))
<1> DEFINE g == Reject(f, errs)
<1>1. /\ g.sources = f.sources /\ g.atts = f.atts /\ g.pool = f.pool /\ g.pc = "validate"
      /\ g.failed = f.failed /\ g.kind = f.kind /\ g.desc = f.desc /\ g.match = f.match
      /\ g.errs = f.errs \cup errs
    BY DEF Reject, Frames
<1> HIDE DEF g
<1>2. \A s : Selected(g, s) <=> Selected(f, s)
    BY <1>1 DEF Selected
<1>3. SoundFrame(g)
    BY <1>1, <1>2 DEF SoundFrame, Vouched
<1> QED BY <1>3 DEF g

LEMMA SoundNextSource ==
    ASSUME NEW f \in Frames, SoundFrame(f), NEW failed \in BOOLEAN, NEW errs \in SUBSET Errors,
           \A e \in errs : IsTrue(e),
           failed => f.j \in DOMAIN f.sources /\ Selected(f, f.sources[f.j])
    PROVE  SoundFrame(NextSource(f, failed, errs))
<1> DEFINE g == NextSource(f, failed, errs)
<1>1. /\ g.sources = f.sources /\ g.atts = f.atts /\ g.pool = f.pool /\ g.pc = "validate"
      /\ g.failed = (f.failed \/ failed) /\ g.kind = f.kind /\ g.desc = f.desc
      /\ g.match = f.match /\ g.errs = f.errs \cup errs
    BY DEF NextSource, Frames
<1> HIDE DEF g
<1>2. \A s : Selected(g, s) <=> Selected(f, s)
    BY <1>1 DEF Selected
<1>3. SoundFrame(g)
    <2>1. g.failed => \E n \in DOMAIN g.sources : Selected(g, g.sources[n])
        BY <1>1, <1>2 DEF SoundFrame
    <2> QED BY <1>1, <2>1 DEF SoundFrame, Vouched
<1> QED BY <1>3 DEF g

LEMMA SoundAccept ==
    ASSUME world \in Worlds, NEW f \in Frames, FrameOK(f), SoundFrame(f),
           f.pc \in {"notBefore", "session"}, NEW atts \in SUBSET Attestations,
           WasValid(f.cands[f.i]),
           Signed(f.cands[f.i]) \/ AttestedBy(f.cands[f.i], atts),
           \A a \in atts : Grounded(a.links) /\ \A l \in a.links : WasValid(l)
    PROVE  SoundFrame(Accept(f, atts))
<1> DEFINE link == f.cands[f.i]
           caps == Dlg(link).caps
           new  == [k \in DOMAIN caps |-> Source(link, caps[k])]
           all  == f.sources \o new
           g    == Accept(f, atts)
<1>1. link \in Link
    BY DEF FrameOK, Frames
<1>2. caps \in Seq(Capability)
    BY <1>1, DlgType
<1>3. new \in Seq(Sources)
    <2>1. \A k \in DOMAIN caps : Source(link, caps[k]) \in Sources
        BY <1>1, <1>2 DEF Sources, Source
    <2>2. DOMAIN caps = 1..Len(caps) /\ Len(caps) \in Nat
        BY <1>2
    <2> HIDE DEF caps
    <2> QED BY <2>1, <2>2
<1>4. \A n \in DOMAIN new : new[n].link = link
    BY <1>2 DEF Source
<1>5. f.sources \in Seq(Sources)
    BY DEF Frames
<1>6. /\ g.sources = all /\ g.atts = f.atts \cup atts /\ g.pool = f.pool /\ g.pc = "validate"
      /\ g.failed = f.failed /\ g.kind = f.kind /\ g.desc = f.desc
      /\ g.match = f.match /\ g.errs = f.errs
    BY DEF Accept, Frames
<1> HIDE DEF new
<1>7. \A n \in DOMAIN all :
          \/ n \in DOMAIN f.sources /\ all[n] = f.sources[n]
          \/ n - Len(f.sources) \in DOMAIN new /\ all[n] = new[n - Len(f.sources)]
    BY <1>3, <1>5
<1>8. \A n \in DOMAIN f.sources : n \in DOMAIN all /\ all[n] = f.sources[n]
    BY <1>3, <1>5
<1> HIDE DEF all, g, link
<1>9. Vouched(g, link)
    BY <1>6 DEF Vouched, AttestedBy, link
<1>10. \A l : Vouched(f, l) => Vouched(g, l)
    BY <1>6 DEF Vouched, AttestedBy
<1>11. \A n \in DOMAIN g.sources : Vouched(g, g.sources[n].link)
    <2> SUFFICES ASSUME NEW n \in DOMAIN all PROVE Vouched(g, all[n].link)
        BY <1>6
    <2>1. CASE n \in DOMAIN f.sources /\ all[n] = f.sources[n]
        BY <2>1, <1>10 DEF SoundFrame
    <2>2. CASE n - Len(f.sources) \in DOMAIN new /\ all[n] = new[n - Len(f.sources)]
        BY <2>2, <1>4, <1>9
    <2> QED BY <1>7, <2>1, <2>2
<1>12. \A s : Selected(g, s) <=> Selected(f, s)
    BY <1>6 DEF Selected
<1>13. g.failed => \E n \in DOMAIN g.sources : Selected(g, g.sources[n])
    BY <1>6, <1>8, <1>12 DEF SoundFrame
<1>14. SoundFrame(g)
    BY <1>6, <1>11, <1>13 DEF SoundFrame
<1> QED BY <1>14 DEF g

\* Proofs are resolved for the delegation of a match, and looked for attestations
\* without the one they attest.
LEMMA SoundClaim ==
    ASSUME NEW desc, NEW cands, NEW pool, PoolOK(pool)
    PROVE  SoundFrame(ClaimFrame(desc, cands, pool))
BY DEF ClaimFrame, SoundFrame

LEMMA SoundSession ==
    ASSUME NEW f \in Frames, SoundFrame(f), NEW link
    PROVE  /\ SoundFrame(SessionFrame(f, link))
           /\ SessionFrame(f, link).desc = AttestationOf(link)
           /\ link \notin SessionFrame(f, link).pool
<1> DEFINE pool == {p \in f.pool : p # link /\ Head(Dlg(p).caps).can = Attest}
<1>1. pool \subseteq f.pool /\ link \notin pool
    OBVIOUS
<1>2. SessionFrame(f, link) = ClaimFrame(AttestationOf(link), f.cands, pool)
    BY DEF SessionFrame
<1> HIDE DEF pool
<1>3. PoolOK(pool)
    BY <1>1 DEF SoundFrame, PoolOK
<1> QED BY <1>1, <1>2, <1>3, SoundClaim DEF ClaimFrame

LEMMA SoundProofErrors ==
    ASSUME world \in Worlds, NEW link \in Link
    PROVE  \A e \in ProofErrors(link) : IsTrue(e)
<1>1. ASSUME NEW p \in Range(Dlg(link).prfs) \ Available, NEW e \in UnavailableProof(p)
      PROVE  IsTrue(e)
    BY <1>1 DEF UnavailableProof, Error, IsTrue
<1>2. ASSUME NEW p \in Range(Dlg(link).prfs) \cap Available, Dlg(p).aud # Dlg(link).iss,
             NEW e \in PrincipalAlignment(p)
      PROVE  IsTrue(e)
    BY <1>2 DEF PrincipalAlignment, Error, IsTrue
<1> QED BY <1>1, <1>2 DEF ProofErrors

LEMMA SoundAuthorize ==
    ASSUME world \in Worlds, NEW desc \in Descriptor, NEW m \in Sources
    PROVE  SoundFrame(AuthorizeFrame(desc, m))
<1> DEFINE f == AuthorizeFrame(desc, m)
<1>1. m.link \in Link
    BY DEF Sources
<1>2. /\ f.sources = <<>> /\ f.atts = {} /\ f.pc = "validate" /\ ~f.failed
      /\ f.pool = ResolveProofs(m.link) /\ f.errs = ProofErrors(m.link)
    BY DEF AuthorizeFrame, ClaimFrame
<1> HIDE DEF f
<1>3. PoolOK(f.pool)
    BY <1>1, <1>2 DEF PoolOK
<1>4. SoundFrame(f)
    BY <1>1, <1>2, <1>3, SoundProofErrors DEF SoundFrame
<1> QED BY <1>4 DEF f

----------------------------------------------------------------------------
(* The stack.                                                              *)

LEMMA SoundGoto ==
    ASSUME NEW st \in Seq(Frames), st # <<>>, SoundStack(st),
           NEW g \in Frames, SoundFrame(g), SameCall(Last(st), g)
    PROVE  SoundStack([st EXCEPT ![Len(st)] = g])
<1> DEFINE n  == Len(st)
           tt == [st EXCEPT ![n] = g]
<1>1. /\ n \in Nat \ {0} /\ Last(st) = st[n] /\ Len(tt) = n /\ tt[n] = g
      /\ \A k \in 1..n - 1 : tt[k] = st[k]
    BY DEF Last
<1>2. n = Len(st)
    OBVIOUS
<1> HIDE DEF n, tt
<1>3. \A k \in 1..n : SoundFrame(tt[k])
    BY <1>1, <1>2 DEF SoundStack
<1>4. \A k \in 1..n - 1 : SoundCall(tt[k], tt[k + 1])
    <2> SUFFICES ASSUME NEW k \in 1..n - 1
                 PROVE  SoundCall(st[k], tt[k + 1])
        BY <1>1
    <2>1. SoundCall(st[k], st[k + 1])
        BY <1>2 DEF SoundStack
    <2>2. CASE k + 1 = n
        BY <2>1, <2>2, <1>1 DEF SoundCall, SameCall
    <2>3. CASE k + 1 # n
        BY <2>1, <2>3, <1>1
    <2> QED BY <2>2, <2>3
<1>5. SoundStack(tt)
    BY <1>1, <1>3, <1>4 DEF SoundStack
<1> QED BY <1>5 DEF tt, n

LEMMA SoundPush ==
    ASSUME NEW st \in Seq(Frames), st # <<>>, SoundStack(st),
           NEW g \in Frames, SoundFrame(g), SoundCall(Last(st), g)
    PROVE  SoundStack(Append(st, g))
<1> DEFINE n  == Len(st)
           tt == Append(st, g)
<1>1. /\ n \in Nat \ {0} /\ Last(st) = st[n] /\ Len(tt) = n + 1 /\ tt[n + 1] = g
      /\ \A k \in 1..n : tt[k] = st[k]
    BY DEF Last
<1>2. n = Len(st)
    OBVIOUS
<1> HIDE DEF n, tt
<1>3. \A k \in 1..n + 1 : SoundFrame(tt[k])
    BY <1>1, <1>2 DEF SoundStack
<1>4. \A k \in 1..n : SoundCall(tt[k], tt[k + 1])
    <2> SUFFICES ASSUME NEW k \in 1..n
                 PROVE  SoundCall(st[k], tt[k + 1])
        BY <1>1
    <2>1. CASE k = n
        BY <2>1, <1>1
    <2>2. CASE k # n
        BY <2>2, <1>1, <1>2 DEF SoundStack
    <2> QED BY <2>1, <2>2
<1>5. SoundStack(tt)
    BY <1>1, <1>3, <1>4 DEF SoundStack
<1> QED BY <1>5 DEF tt

LEMMA SoundPop ==
    ASSUME NEW st \in Seq(Frames), st # <<>>, SoundStack(st)
    PROVE  /\ SoundStack(Front(st))
           /\ SoundFrame(Last(st))
           /\ Front(st) # <<>> => SoundCall(Last(Front(st)), Last(st))
<1> DEFINE n  == Len(st)
           tt == Front(st)
<1>2. n = Len(st) /\ n \in Nat \ {0} /\ Last(st) = st[n]
    BY DEF Last
<1>6. tt \in Seq(Frames) /\ Len(tt) = n - 1 /\ \A k \in 1..n - 1 : tt[k] = st[k]
    BY <1>2 DEF Front
<1>1. /\ n \in Nat \ {0} /\ Last(st) = st[n] /\ tt \in Seq(Frames) /\ Len(tt) = n - 1
      /\ \A k \in 1..n - 1 : tt[k] = st[k]
    BY <1>2, <1>6
<1> HIDE DEF n, tt
<1>3. SoundStack(tt)
    BY <1>1, <1>2 DEF SoundStack
<1>4. SoundFrame(st[n])
    BY <1>1, <1>2 DEF SoundStack
<1>5. tt # <<>> => SoundCall(Last(tt), st[n])
    <2> SUFFICES ASSUME tt # <<>> PROVE SoundCall(Last(tt), st[n])
        OBVIOUS
    <2>1. n - 1 \in 1..n - 1 /\ (n - 1) + 1 = n
        <3>1. n # 1
            BY <1>1
        <3> QED BY <3>1, <1>1
    <2>2. Last(tt) = st[n - 1]
        BY <2>1, <1>1 DEF Last
    <2>3. SoundCall(st[n - 1], st[(n - 1) + 1])
        BY <1>2, <2>1 DEF SoundStack
    <2> QED BY <2>1, <2>2, <2>3
<1> QED BY <1>1, <1>3, <1>4, <1>5 DEF tt

----------------------------------------------------------------------------
(* Sessions.                                                               *)

\* What a session selects attests the delegation it is about.
LEMMA SelectedAttests ==
    ASSUME world \in Worlds, NEW f \in Frames, FrameOK(f), f.kind = "claim",
           NEW link \in Link, f.desc = AttestationOf(link), link \notin f.pool,
           NEW n \in DOMAIN f.sources, Selected(f, f.sources[n])
    PROVE  /\ f.sources[n].link \in f.pool
           /\ f.sources[n].link # link
           /\ Attests(f.sources[n].link, link)
<1> DEFINE s == f.sources[n]
<1>1. s.link \in f.pool /\ s.cap \in Range(Dlg(s.link).caps)
    BY DEF FrameOK
<1>2. s.cap.can = Attest /\ s.cap.nb = link
    BY DEF Selected, ParseCapability, Reads, AttestationOf
<1> QED BY <1>1, <1>2 DEF Attests

\* A proof of a pool another one was taken out of is at hand.
LEMMA PoolAvailable ==
    ASSUME world \in Worlds, NEW pool, PoolOK(pool), NEW q \in pool
    PROVE  q \in Available
<1>1. world.root \in Available
    BY ConstantsAssumption DEF IsWorld, Available
<1> QED BY <1>1 DEF PoolOK, ResolveProofs

----------------------------------------------------------------------------
(* What holds of a call goes on holding while time passes and delegations  *)
(* are revoked.                                                            *)

LEMMA SameGraph ==
    ASSUME UNCHANGED world
    PROVE  /\ Available' = Available
           /\ \A link : Signed(link)' <=> Signed(link)
           /\ \A q, link : Attests(q, link)' <=> Attests(q, link)
<1>1. Available' = Available
    BY DEF Available, Context
<1>2. ASSUME NEW link PROVE Signed(link)' <=> Signed(link)
    BY DEF Signed, KeyVerdict, AuthorityVerdict, ResolvedVerdict, Context, Dlg
<1>3. ASSUME NEW q, NEW link PROVE Attests(q, link)' <=> Attests(q, link)
    BY DEF Attests, Dlg
<1> QED BY <1>1, <1>2, <1>3

Later == UNCHANGED <<world, start>> /\ now <= now' /\ revoked \subseteq revoked'

LEMMA LaterLinks ==
    ASSUME Later, TypeOK, TypeOK'
    PROVE  /\ \A link : WasValid(link) => WasValid(link)'
           /\ \A link : WasUnexpired(link) => WasUnexpired(link)'
           /\ \A S : Grounded(S) => Grounded(S)'
           /\ \A pool : PoolOK(pool) => PoolOK(pool)'
<1>1. UNCHANGED <<world, start>> /\ now <= now' /\ start.now \in Int /\ now \in Int /\ now' \in Int
    BY DEF Later, TypeOK
<1>2. start.now..now \subseteq start.now..now'
    BY <1>1
<1>3. ASSUME NEW link PROVE WasValid(link) => WasValid(link)'
    BY <1>1, <1>2 DEF WasValid, Bounded, EverValid, ValidAt, Context, Dlg
<1>4. ASSUME NEW link PROVE WasUnexpired(link) => WasUnexpired(link)'
    BY <1>1, <1>2 DEF WasUnexpired, Bounded, EverValid, Context, Dlg
<1>5. ASSUME NEW S PROVE Grounded(S) => Grounded(S)'
    BY <1>1, SameGraph DEF Grounded
<1>6. ASSUME NEW pool PROVE PoolOK(pool) => PoolOK(pool)'
    BY <1>1 DEF PoolOK, ResolveProofs, Available, Context, Dlg
<1> QED BY <1>3, <1>4, <1>5, <1>6

LEMMA LaterErrors ==
    ASSUME Later, TypeOK, TypeOK', world \in Worlds, NEW e \in Errors, IsTrue(e)
    PROVE  IsTrue(e)'
<1>1. UNCHANGED <<world, start>> /\ now <= now' /\ revoked \subseteq revoked'
      /\ now \in Int /\ now' \in Int
    BY DEF Later, TypeOK
<1>2. Dlg(e.link)' = Dlg(e.link)
    BY <1>1 DEF Dlg
<1>3. Dlg(e.link).exp \in Int \cup {NoExpiration}
    BY DlgType DEF Errors, Delegation
<1>4. IsExpired(Dlg(e.link), now) => IsExpired(Dlg(e.link), now')
    BY <1>1, <1>3, NoExpirationAssumption DEF IsExpired
<1>5. (\E m \in Link : e.link \in Range(Dlg(m).prfs) /\ Dlg(e.link).aud # Dlg(m).iss)
        => (\E m \in Link : e.link \in Range(Dlg(m).prfs) /\ Dlg(e.link).aud # Dlg(m).iss)'
    BY <1>1 DEF Dlg
<1>6. (\E q \in Available \ {e.link} : Attests(q, e.link))
        => (\E q \in Available \ {e.link} : Attests(q, e.link))'
    BY <1>1, SameGraph
<1>7. /\ e.link \notin Available => (e.link \notin Available)'
      /\ ~Signed(e.link) => (~Signed(e.link))'
      /\ IsTooEarly(Dlg(e.link), start.now) => IsTooEarly(Dlg(e.link), start.now)'
      /\ e.link \in revoked => e.link \in revoked'
      /\ Dlg(e.link).caps # <<>> => (Dlg(e.link).caps # <<>>)'
    BY <1>1, <1>2, SameGraph
<1> QED BY <1>1, <1>2, <1>4, <1>5, <1>6, <1>7 DEF IsTrue

LEMMA LaterFrames ==
    ASSUME Later, TypeOK, TypeOK', world \in Worlds, NEW f \in Frames, SoundFrame(f)
    PROVE  SoundFrame(f)'
<1>1. \A link : Vouched(f, link) => Vouched(f, link)'
    BY LaterLinks, SameGraph DEF Vouched, AttestedBy, AttestedIn, Later
<1>2. \A link : NeedsSession(link) => NeedsSession(link)'
    BY DEF NeedsSession, Dlg, Later
<1>3. \A s : Selected(f, s)' <=> Selected(f, s)
    BY DEF Selected
<1>4. \A e \in f.errs : IsTrue(e)'
    BY LaterErrors DEF SoundFrame, Frames
<1> QED BY <1>1, <1>2, <1>3, <1>4, LaterLinks DEF SoundFrame

LEMMA LaterCalls ==
    ASSUME Later, NEW f, NEW g, SoundCall(f, g)
    PROVE  SoundCall(f, g)'
BY DEF Later, SoundCall, AttestationOf, Context

LEMMA LaterStack ==
    ASSUME Later, TypeOK, TypeOK', world \in Worlds, NEW st \in Seq(Frames), SoundStack(st)
    PROVE  SoundStack(st)'
<1>1. \A k \in 1..Len(st) : SoundFrame(st[k])'
    BY LaterFrames DEF SoundStack
<1>2. \A k \in 1..Len(st) - 1 : SoundCall(st[k], st[k + 1])'
    BY LaterCalls DEF SoundStack
<1> QED BY <1>1, <1>2 DEF SoundStack

LEMMA LaterReturn ==
    ASSUME Later, TypeOK, TypeOK', world \in Worlds, NEW st, NEW r \in Returns, SoundReturn(st, r)
    PROVE  SoundReturn(st, r)'
<1>1. r.is = "ok" => SoundAuth(r.auth)'
    BY LaterLinks DEF SoundReturn, SoundAuth
<1>2. r.is = "ok" /\ st = <<>> /\ Context.validateAuthorization'
          => AuthLinks(r.auth) \cap start'.revoked = {}
    BY DEF SoundReturn, Later, Context
<1>3. \A e \in r.errs : IsTrue(e)'
    BY LaterErrors DEF SoundReturn, Returns
<1>4. \A link, S : AttestedIn(link, S) => AttestedIn(link, S)'
    BY SameGraph DEF AttestedIn, Later
<1>5. Available' = Available
    BY SameGraph DEF Later
<1> QED BY <1>1, <1>2, <1>3, <1>4, <1>5 DEF SoundReturn

----------------------------------------------------------------------------
(* Steps of the search.                                                    *)

LEMMA SoundNoReturn ==
    ASSUME NEW st
    PROVE  SoundReturn(st, NoReturn)
BY DEF SoundReturn, NoReturn

LEMMA SoundTop ==
    ASSUME SInv, stack # <<>>
    PROVE  /\ stack \in Seq(Frames) /\ Top = Last(stack)
           /\ Top \in Frames /\ FrameOK(Top) /\ SoundFrame(Top)
           /\ world \in Worlds /\ TypeOK /\ ret \in Returns
<1>1. StackOK(stack) /\ stack \in Seq(Frames) /\ world \in Worlds /\ TypeOK /\ ret \in Returns
    BY DEF SInv, IInv, StackOK, TypeOK, Returns
<1>2. Top \in Frames /\ FrameOK(Top) /\ Top = Last(stack)
    BY <1>1, TopOK DEF Top
<1>3. SoundFrame(Top)
    BY <1>1, <1>2, SoundPop DEF SInv
<1> QED BY <1>1, <1>2, <1>3

\* A step of the search that keeps the stack and the return value sound.
LEMMA SoundSearch ==
    ASSUME SInv, IInv', stage = "access", UNCHANGED <<world, env, stage, start>>,
           SoundStack(stack'), SoundReturn(stack', ret')
    PROVE  SInv'
<1>1. Later /\ TypeOK /\ TypeOK' /\ world \in Worlds
      /\ stack' \in Seq(Frames) /\ ret' \in Returns
    BY DEF SInv, IInv, Later, env, TypeOK, Returns
<1>2. SoundStack(stack)'
    BY <1>1, LaterStack
<1>3. SoundReturn(stack, ret)'
    BY <1>1, LaterReturn
<1>4. SoundStart' /\ SoundCrash'
    BY DEF SInv, SoundStart, SoundCrash, CrashNeedsEmptyProof, env
<1> QED BY <1>2, <1>3, <1>4 DEF SInv

LEMMA SoundGotoStep ==
    ASSUME SInv, IInv', stage = "access", stack # <<>>, UNCHANGED <<world, env, stage, start>>,
           NEW g \in Frames, SoundFrame(g), SameCall(Top, g), Goto(g),
           \/ ret' = ret /\ g.pc # "session"
           \/ ret' = NoReturn
    PROVE  SInv'
<1>1. stack \in Seq(Frames) /\ stack' = [stack EXCEPT ![Len(stack)] = g] /\ Top = Last(stack)
    BY SoundTop DEF Goto
<1>2. SoundStack(stack')
    BY <1>1, SoundGoto DEF SInv
<1>3. Last(stack') = g /\ stack' # <<>>
    BY <1>1 DEF Last
<1>4. SoundReturn(stack', ret')
    BY <1>3, SoundNoReturn DEF SInv, SoundReturn
<1> QED BY <1>2, <1>4, SoundSearch

LEMMA SoundCallStep ==
    ASSUME SInv, IInv', stage = "access", stack # <<>>, UNCHANGED <<world, env, stage, start>>,
           ret' = ret,
           NEW f \in Frames, SoundFrame(f), SameCall(Top, f),
           NEW g \in Frames, SoundFrame(g), SoundCall(f, g), g.pc = "validate", Call(f, g)
    PROVE  SInv'
<1> DEFINE st == [stack EXCEPT ![Len(stack)] = f]
<1>1. stack \in Seq(Frames) /\ stack' = Append(st, g) /\ Top = Last(stack)
    BY SoundTop DEF Call
<1>2. SoundStack(st)
    BY <1>1, SoundGoto DEF SInv
<1>3. st \in Seq(Frames) /\ st # <<>> /\ Last(st) = f
    BY <1>1 DEF Last
<1> HIDE DEF st
<1>4. SoundStack(stack')
    BY <1>1, <1>2, <1>3, SoundPush
<1>5. Last(stack') = g /\ stack' # <<>>
    BY <1>1, <1>3 DEF Last
<1>6. SoundReturn(stack', ret')
    BY <1>5 DEF SInv, SoundReturn
<1> QED BY <1>4, <1>6, SoundSearch

\* The caller of the top frame looks into a session about the delegation it is
\* validating.
LEMMA SessionCaller ==
    ASSUME SInv, stack # <<>>, Front(stack) # <<>>, Last(Front(stack)).pc = "session"
    PROVE  LET link == Last(Front(stack)).cands[Last(Front(stack)).i]
           IN  /\ link \in Link /\ Top.kind = "claim"
               /\ Top.desc = AttestationOf(link) /\ link \notin Top.pool
<1> DEFINE f == Last(Front(stack))
<1>1. StackOK(stack) /\ stack \in Seq(Frames) /\ Top = Last(stack)
    BY SoundTop DEF SInv, IInv
<1>2. f \in Frames /\ FrameOK(f) /\ CallOK(f, Top)
    BY <1>1, PopOK
<1>3. SoundCall(f, Top)
    BY <1>1, SoundPop DEF SInv
<1> HIDE DEF f
<1>4. f.cands[f.i] \in Link
    BY <1>2 DEF Frames, FrameOK, f
<1>5. f.pc = "session"
    BY DEF f
<1>6. Top.kind = "claim"
    BY <1>2, <1>5 DEF CallOK
<1>7. Top.desc = AttestationOf(f.cands[f.i]) /\ f.cands[f.i] \notin Top.pool
    BY <1>3, <1>5 DEF SoundCall
<1> QED BY <1>4, <1>6, <1>7 DEF f

LEMMA SoundGrant ==
    ASSUME SInv, IInv', stage = "access", stack # <<>>, UNCHANGED <<world, env, stage, start>>,
           Top.j \in DOMAIN Top.sources, Selected(Top, Top.sources[Top.j]),
           NEW sub \in Auths, SoundAuth(sub),
           Grant(Top, Match(Top, Top.sources[Top.j]), sub)
    PROVE  SInv'
<1> DEFINE f    == Top
           s    == f.sources[f.j]
           m    == Match(f, s)
           auth == Auth(<<m>> \o sub.path, RelevantAttestations(f, m) \cup sub.atts)
<1>1. /\ stack \in Seq(Frames) /\ f = Last(stack)
      /\ f \in Frames /\ FrameOK(f) /\ SoundFrame(f) /\ world \in Worlds
    BY SoundTop
<1>2. s \in Sources
    BY <1>1 DEF Frames
<1>3. m \in Sources /\ m.link = s.link
    BY <1>1, <1>2, MatchType DEF FrameOK
<1>4. Vouched(f, m.link)
    BY <1>1, <1>3 DEF SoundFrame
<1>5. SoundAuth(auth) /\ m.link \in AuthLinks(auth)
    BY <1>1, <1>3, <1>4, SoundGrows
<1>6. \/ \E link \in RevokedIn(auth) : Goto(NextSource(f, FALSE, Revoked(link))) /\ ret' = NoReturn
      \/ (f.kind = "claim" => RevokedIn(auth) = {}) /\ Return(Granted(auth))
    BY DEF Grant
<1> HIDE DEF auth
<1>7. ASSUME NEW link \in RevokedIn(auth),
             Goto(NextSource(f, FALSE, Revoked(link))), ret' = NoReturn
      PROVE  SInv'
    <2>1. link \in revoked /\ link \in Link
        BY SoundTop DEF RevokedIn, TypeOK
    <2>2. Revoked(link) \in SUBSET Errors /\ \A e \in Revoked(link) : IsTrue(e)
        <3>1. Revoked(link) \in SUBSET Errors
            BY <2>1, ErrorType DEF Revoked, ErrorNames
        <3>2. \A e \in Revoked(link) : IsTrue(e)
            BY <2>1 DEF Revoked, Error, IsTrue
        <3> QED BY <3>1, <3>2
    <2>3. SoundFrame(NextSource(f, FALSE, Revoked(link)))
        BY <1>1, <2>2, SoundNextSource
    <2> QED BY <1>1, <1>7, <2>2, <2>3, NextSourceOK, SoundGotoStep
<1>8. CASE (f.kind = "claim" => RevokedIn(auth) = {}) /\ Return(Granted(auth))
    <2>1. stack' = Front(stack) /\ ret' = Granted(auth)
        BY <1>8 DEF Return
    <2>2. SoundStack(stack')
        BY <1>1, <2>1, SoundPop DEF SInv
    <2>3. /\ ret'.is = "ok" /\ ret'.auth = auth /\ ret'.errs = {}
        BY <2>1 DEF Granted
    <2>4. ASSUME stack' = <<>>, Context.validateAuthorization
          PROVE  AuthLinks(auth) \cap start.revoked = {}
        <3>1. f.kind = "claim"
            BY <1>1, <2>1, <2>4, PopOK DEF SInv, IInv, BaseOK
        <3>2. AuthLinks(auth) \cap revoked = {}
            BY <3>1, <1>8, <2>4 DEF RevokedIn
        <3>3. start.revoked \subseteq revoked
            BY DEF SInv, SoundStart
        <3> QED BY <3>2, <3>3
    <2>5. ASSUME stack' # <<>>, Last(stack').pc = "session"
          PROVE  AttestedIn(Last(stack').cands[Last(stack').i], AuthLinks(auth))
        <3> DEFINE link == Last(stack').cands[Last(stack').i]
        <3>1. link \in Link /\ f.kind = "claim" /\ f.desc = AttestationOf(link) /\ link \notin f.pool
            BY <2>1, <2>5, SessionCaller
        <3> HIDE DEF link
        <3>2. s.link # link /\ Attests(s.link, link)
            BY <1>1, <3>1, SelectedAttests
        <3>3. AttestedIn(link, AuthLinks(auth))
            BY <1>3, <1>5, <3>2 DEF AttestedIn
        <3> QED BY <3>3 DEF link
    <2>6. SoundReturn(stack', ret')
        BY <1>5, <2>3, <2>4, <2>5 DEF SoundReturn
    <2> QED BY <2>2, <2>6, SoundSearch
<1> QED BY <1>6, <1>7, <1>8

----------------------------------------------------------------------------
(* One case for each action.                                               *)

LEMMA SoundProvide ==
    ASSUME SInv, IInv', Provide
    PROVE  SInv'
<1>1. /\ stage = "received" /\ UNCHANGED <<world, env, ret>> /\ stack = <<>> /\ ret = NoReturn
      /\ start' = [now |-> now, revoked |-> revoked]
      /\ stage' \in {"access", "invalidAudience"}
    BY DEF Provide, SInv, SoundStart
<1>2. SoundReturn(stack, ret)'
    BY <1>1 DEF SoundReturn, NoReturn
<1>3. SoundStart' /\ SoundCrash'
    BY <1>1 DEF SoundStart, SoundCrash, CrashNeedsEmptyProof, env, IInv, TypeOK
<1>4. SoundStack(stack)'
    <2> DEFINE f == ClaimFrame(Provided, <<world.root>>, {world.root})
    <2>1. CASE stack' = <<f>>
        <3>1. /\ f.sources = <<>> /\ f.atts = {} /\ f.pc = "validate" /\ ~f.failed
              /\ f.pool = {world.root} /\ f.errs = {}
            BY DEF ClaimFrame
        <3> HIDE DEF f
        <3>2. stack'[1] = f /\ Len(stack') = 1
            BY <2>1
        <3>3. SoundFrame(stack[1])'
            BY <1>1, <3>1, <3>2 DEF SoundFrame, PoolOK
        <3> QED BY <3>2, <3>3 DEF SoundStack
    <2>2. CASE stack' = stack
        BY <1>1, <2>2 DEF SoundStack
    <2> QED BY <2>1, <2>2 DEF Provide
<1> QED BY <1>2, <1>3, <1>4 DEF SInv

LEMMA SoundCheckExpired ==
    ASSUME SInv, IInv', CheckExpired
    PROVE  SInv'
<1> DEFINE link == Top.cands[Top.i]
<1>1. stage = "access" /\ stack # <<>> /\ Top.pc = "validate" /\ Top.i <= Len(Top.cands)
      /\ UNCHANGED <<world, env, stage, ret, start>>
    BY DEF CheckExpired, Running
<1>2. Top \in Frames /\ FrameOK(Top) /\ SoundFrame(Top) /\ world \in Worlds /\ TypeOK
      /\ start.now <= now
    BY <1>1, SoundTop DEF SInv, SoundStart
<1>3. Top.i \in DOMAIN Top.cands /\ link \in Link
    BY <1>1, <1>2 DEF Frames
<1>4. ASSUME NEW errs \in SUBSET Errors, \A e \in errs : IsTrue(e), Goto(Reject(Top, errs))
      PROVE  SInv'
    BY <1>1, <1>2, <1>4, SoundReject, RejectOK, SoundGotoStep
<1>5. ASSUME NEW name \in {"TimeBounds", "Expired"}, name = "Expired" => Expired(link),
             Goto(Reject(Top, {Error(link, name)}))
      PROVE  SInv'
    <2>1. {Error(link, name)} \in SUBSET Errors
        BY <1>3, <1>5, ErrorType DEF ErrorNames
    <2>2. \A e \in {Error(link, name)} : IsTrue(e)
        BY <1>5 DEF Error, IsTrue, Expired
    <2> QED BY <1>4, <1>5, <2>1, <2>2
<1>6. CASE link \in Top.pool /\ ~Expired(link) /\ Goto([Top EXCEPT !.pc = "notBefore"])
    <2> DEFINE g == [Top EXCEPT !.pc = "notBefore"]
    <2>1. g \in Frames /\ g.pc = "notBefore" /\ SameCall(Top, g)
          /\ g.cands = Top.cands /\ g.i = Top.i /\ g.sources = Top.sources /\ g.atts = Top.atts
          /\ g.errs = Top.errs /\ g.failed = Top.failed
        BY <1>2 DEF Frames, SameCall
    <2>2. WasUnexpired(link)
        BY <1>2, <1>3, <1>6, FirstRead
    <2>3. \A s : Selected(g, s) <=> Selected(Top, s)
        BY <2>1 DEF Selected, SameCall
    <2>4. SoundFrame(g)
        BY <1>2, <2>1, <2>2, <2>3 DEF SoundFrame, SameCall, Vouched
    <2> QED BY <1>1, <1>6, <2>1, <2>4, SoundGotoStep
<1>7. CASE Goto(Reject(Top, {}))
    BY <1>4, <1>7
<1> QED BY <1>5, <1>6, <1>7 DEF CheckExpired

LEMMA SoundJudge ==
    ASSUME SInv, IInv', stage = "access", stack # <<>>, UNCHANGED <<world, env, stage, start>>,
           Top.pc \in {"notBefore", "session"}, WasValid(Top.cands[Top.i]),
           NEW verdict \in Verdicts, verdict = "ok" <=> Signed(Top.cands[Top.i]),
           ret' = ret \/ ret' = NoReturn,
           Goto(Judge(Top, verdict))
    PROVE  SInv'
<1> DEFINE link == Top.cands[Top.i]
<1>1. Top \in Frames /\ FrameOK(Top) /\ SoundFrame(Top) /\ world \in Worlds
    BY SoundTop
<1>2. link \in Link
    BY <1>1 DEF FrameOK, Frames
<1>3. CASE verdict = "ok"
    <2>1. Accept(Top, {}) \in Frames /\ SameCall(Top, Accept(Top, {}))
          /\ Accept(Top, {}).pc = "validate"
        <3>1. Accept(Top, {}) \in Frames /\ SameCall(Top, Accept(Top, {}))
            BY <1>1, AcceptOK
        <3>2. Accept(Top, {}).pc = "validate"
            BY <1>1 DEF Accept, Frames
        <3> QED BY <3>1, <3>2
    <2>2. SoundFrame(Accept(Top, {}))
        BY <1>1, <1>3, SoundAccept
    <2> QED BY <1>3, <2>1, <2>2, SoundGotoStep DEF Judge
<1>4. CASE verdict # "ok"
    <2>1. verdict \in {"InvalidSignature", "UnverifiableSignature", "DIDKeyResolutionError"}
          /\ ~Signed(link)
        BY <1>4 DEF Verdicts
    <2>2. BadSignature(link, verdict) \in SUBSET Errors
        BY <1>2, <2>1, ErrorType DEF BadSignature, ErrorNames
    <2>3. \A e \in BadSignature(link, verdict) : IsTrue(e)
        BY <2>1 DEF BadSignature, Error, IsTrue
    <2>4. SoundFrame(Reject(Top, BadSignature(link, verdict)))
        BY <1>1, <2>2, <2>3, SoundReject
    <2>5. /\ Reject(Top, BadSignature(link, verdict)) \in Frames
          /\ SameCall(Top, Reject(Top, BadSignature(link, verdict)))
          /\ Reject(Top, BadSignature(link, verdict)).pc = "validate"
        BY <1>1, <2>2, RejectOK
    <2> QED BY <1>4, <2>4, <2>5, SoundGotoStep DEF Judge
<1> QED BY <1>3, <1>4

LEMMA SoundCheckNotBefore ==
    ASSUME SInv, IInv', CheckNotBefore
    PROVE  SInv'
<1> DEFINE link == Top.cands[Top.i]
           dlg  == Dlg(link)
<1>1. stage = "access" /\ stack # <<>> /\ Top.pc = "notBefore"
      /\ UNCHANGED <<world, env, stage, ret, start>>
    BY DEF CheckNotBefore, Running
<1>2. Top \in Frames /\ FrameOK(Top) /\ SoundFrame(Top) /\ world \in Worlds /\ TypeOK
      /\ start.now <= now
    BY <1>1, SoundTop DEF SInv, SoundStart
<1>3. link \in Link
    BY <1>1, <1>2 DEF FrameOK, Frames
<1>4. CASE NotValidBefore(link) /\ Goto(Reject(Top, {Error(link, "NotValidBefore")}))
    <2>1. {Error(link, "NotValidBefore")} \in SUBSET Errors
        BY <1>3, ErrorType DEF ErrorNames
    <2>2. IsTooEarly(dlg, start.now)
        <3>1. dlg.nbf \in Int /\ now \in Int /\ start.now \in Int
            BY <1>2, <1>3, DlgType DEF Delegation, TypeOK
        <3> QED BY <1>2, <1>4, <3>1 DEF NotValidBefore, IsTooEarly
    <2>3. \A e \in {Error(link, "NotValidBefore")} : IsTrue(e)
        BY <2>2 DEF Error, IsTrue
    <2> QED BY <1>1, <1>2, <1>4, <2>1, <2>3, SoundReject, RejectOK, SoundGotoStep
<1>5. ~NotValidBefore(link) => WasValid(link)
    BY <1>1, <1>2, <1>3, BothReads DEF SoundFrame
<1>6. CASE ~NotValidBefore(link) /\ IsKeyDID(dlg.iss) /\ Goto(Judge(Top, KeyVerdict(dlg)))
    <2>1. KeyVerdict(dlg) = "ok" <=> Signed(link)
        BY <1>6 DEF Signed
    <2> QED BY <1>1, <1>5, <1>6, <2>1, VerdictType, SoundJudge
<1>7. CASE ~NotValidBefore(link) /\ ~IsKeyDID(dlg.iss) /\ dlg.iss = Service
           /\ Goto(Judge(Top, AuthorityVerdict(dlg)))
    <2>1. AuthorityVerdict(dlg) = "ok" <=> Signed(link)
        BY <1>7 DEF Signed
    <2> QED BY <1>1, <1>5, <1>7, <2>1, VerdictType, SoundJudge
<1>8. CASE ~NotValidBefore(link) /\ ~IsKeyDID(dlg.iss) /\ dlg.iss # Service
           /\ Call([Top EXCEPT !.pc = "session"], SessionFrame(Top, link))
    <2> DEFINE f == [Top EXCEPT !.pc = "session"]
               g == SessionFrame(Top, link)
    <2>1. f \in Frames /\ f.pc = "session" /\ SameCall(Top, f)
          /\ f.cands = Top.cands /\ f.i = Top.i /\ f.sources = Top.sources /\ f.atts = Top.atts
          /\ f.errs = Top.errs /\ f.failed = Top.failed
        BY <1>2 DEF Frames, SameCall
    <2>2. WasValid(link) /\ NeedsSession(link)
        BY <1>5, <1>8 DEF NeedsSession
    <2>3. \A s : Selected(f, s) <=> Selected(Top, s)
        BY <2>1 DEF Selected, SameCall
    <2>4. SoundFrame(f)
        BY <1>2, <2>1, <2>2, <2>3 DEF SoundFrame, SameCall, Vouched
    <2>5. g \in Frames /\ g.pc = "validate" /\ SoundFrame(g)
          /\ g.desc = AttestationOf(link) /\ link \notin g.pool
        BY <1>2, <1>3, SessionFrameOK, SoundSession DEF SessionFrame, ClaimFrame
    <2> HIDE DEF g
    <2>6. SoundCall(f, g)
        BY <2>1, <2>5 DEF SoundCall
    <2>7. Call(f, g)
        BY <1>8 DEF g
    <2> QED BY <1>1, <2>1, <2>4, <2>5, <2>6, <2>7, SoundCallStep
<1> QED BY <1>4, <1>6, <1>7, <1>8 DEF CheckNotBefore

LEMMA SoundSessionPanics ==
    ASSUME SInv, IInv', SessionPanics
    PROVE  SInv'
<1> DEFINE link == Top.cands[Top.i]
<1>1. stage = "access" /\ stack # <<>> /\ Top.pc = "notBefore"
      /\ UNCHANGED <<world, env, ret, start>> /\ stage' = "crashed" /\ stack' = <<>>
      /\ ~IsKeyDID(Dlg(link).iss) /\ Dlg(link).iss # Service /\ NoCapability(Top, link)
    BY DEF SessionPanics, Running
<1>2. Top \in Frames /\ FrameOK(Top) /\ SoundFrame(Top)
    BY <1>1, SoundTop
<1>3. PICK q \in Top.pool \ {link} : Dlg(q).caps = <<>>
    BY <1>1 DEF NoCapability
<1>4. link \in Top.pool
    BY <1>1, <1>2 DEF FrameOK
<1>5. PICK m \in Link : Top.pool \subseteq ResolveProofs(m)
    BY <1>2, <1>3, <1>4 DEF SoundFrame, PoolOK
<1>6. \E n \in Link : \E p, r \in ResolveProofs(n) :
          p # r /\ Dlg(r).caps = <<>> /\ ~IsKeyDID(Dlg(p).iss) /\ Dlg(p).iss # Service
    BY <1>1, <1>3, <1>4, <1>5
<1>7. SoundCrash'
    BY <1>1, <1>6 DEF SoundCrash, CrashNeedsEmptyProof, ResolveProofs, Available, Context, Dlg
<1>8. SoundStart'
    BY <1>1 DEF SInv, SoundStart, env
<1>9. SoundStack(stack)'
    BY <1>1 DEF SoundStack
<1> QED BY <1>1, <1>7, <1>8, <1>9 DEF SInv

LEMMA SoundSessionReturns ==
    ASSUME SInv, IInv', SessionReturns
    PROVE  SInv'
<1> DEFINE link == Top.cands[Top.i]
           dlg  == Dlg(link)
           att  == [proof |-> link, links |-> AuthLinks(ret.auth)]
<1>1. stage = "access" /\ stack # <<>> /\ Top.pc = "session"
      /\ UNCHANGED <<world, env, stage, start>> /\ ret' = NoReturn
    BY DEF SessionReturns, Running
<1>2. Top \in Frames /\ FrameOK(Top) /\ SoundFrame(Top) /\ world \in Worlds /\ ret \in Returns
      /\ Top = Last(stack)
    BY <1>1, SoundTop
<1>3. link \in Link /\ WasValid(link) /\ NeedsSession(link)
    BY <1>1, <1>2 DEF FrameOK, Frames, SoundFrame
<1>4. SoundReturn(stack, ret)
    BY <1>1 DEF SInv
<1>5. CASE ret.is = "ok" /\ Goto(Accept(Top, {att}))
    <2>1. {att} \in SUBSET Attestations
        BY <1>2, <1>3, LinksType DEF Returns, Attestations
    <2>2. AttestedIn(link, AuthLinks(ret.auth)) /\ SoundAuth(ret.auth)
        BY <1>1, <1>2, <1>4, <1>5 DEF SoundReturn
    <2>3. \A a \in {att} : Grounded(a.links) /\ \A l \in a.links : WasValid(l)
        BY <2>2 DEF SoundAuth
    <2>4. AttestedBy(link, {att})
        BY <2>2 DEF AttestedBy
    <2> HIDE DEF att
    <2>5. SoundFrame(Accept(Top, {att}))
        BY <1>1, <1>2, <1>3, <2>1, <2>3, <2>4, SoundAccept
    <2>6. Accept(Top, {att}) \in Frames /\ SameCall(Top, Accept(Top, {att}))
        BY <1>1, <1>2, <2>1, AcceptOK
    <2> QED BY <1>1, <1>5, <2>5, <2>6, SoundGotoStep
<1>6. CASE ret.is = "fail" /\ ret.failed /\ Goto(Reject(Top, SessionEscalation(link, ret.errs)))
    <2> DEFINE errs == SessionEscalation(link, ret.errs)
    <2>1. errs \in SUBSET Errors
        BY <1>2, <1>3, ErrorType DEF SessionEscalation, ErrorNames, Returns
    <2>2. AttestedIn(link, Available)
        BY <1>1, <1>2, <1>4, <1>6 DEF SoundReturn
    <2>3. IsTrue(Error(link, "SessionEscalation"))
        BY <2>2 DEF IsTrue, Error, AttestedIn
    <2>4. \A e \in errs : IsTrue(e)
        BY <1>4, <2>3 DEF SessionEscalation, SoundReturn
    <2> HIDE DEF errs
    <2> QED BY <1>1, <1>2, <1>6, <2>1, <2>4, SoundReject, RejectOK, SoundGotoStep DEF errs
<1>7. CASE Goto(Judge(Top, ResolvedVerdict(dlg)))
    <2>1. ResolvedVerdict(dlg) = "ok" <=> Signed(link)
        BY <1>3 DEF NeedsSession, Signed
    <2> QED BY <1>1, <1>3, <1>7, <2>1, VerdictType, SoundJudge
<1> QED BY <1>5, <1>6, <1>7 DEF SessionReturns

LEMMA SoundTrySource ==
    ASSUME SInv, IInv', TrySource
    PROVE  SInv'
<1> DEFINE s == Top.sources[Top.j]
           m == Match(Top, s)
<1>1. stage = "access" /\ stack # <<>> /\ Top.pc = "validate" /\ Top.j <= Len(Top.sources)
      /\ UNCHANGED <<world, env, stage, start>>
    BY DEF TrySource, Running
<1>2. Top \in Frames /\ FrameOK(Top) /\ SoundFrame(Top) /\ world \in Worlds
    BY <1>1, SoundTop
<1>3. Top.j \in DOMAIN Top.sources /\ s \in Sources
    BY <1>1, <1>2 DEF Frames
<1>4. m \in Sources
    BY <1>2, <1>3, MatchType DEF FrameOK
<1>5. CASE Goto(NextSource(Top, FALSE, SelectError(Top, s))) /\ UNCHANGED ret
    <2>1. SelectError(Top, s) \in SUBSET Errors
        BY <1>3, SelectErrorType DEF Sources
    <2>2. Dlg(s.link).caps # <<>>
        BY <1>2, <1>3 DEF FrameOK, Range
    <2>3. \A e \in SelectError(Top, s) : IsTrue(e)
        BY <2>2 DEF SelectError, DelegationError, Error, IsTrue
    <2>4. SoundFrame(NextSource(Top, FALSE, SelectError(Top, s)))
        BY <1>2, <2>1, <2>3, SoundNextSource
    <2> QED BY <1>1, <1>2, <1>5, <2>1, <2>4, NextSourceOK, SoundGotoStep
<1>6. CASE Selected(Top, s) /\ Grant(Top, m, NoAuth)
    <2>1. NoAuth \in Auths /\ AuthLinks(NoAuth) = {}
        BY DEF NoAuth, Auth, Auths, AuthLinks
    <2>2. SoundAuth(NoAuth)
        BY <2>1 DEF SoundAuth, Grounded
    <2> QED BY <1>1, <1>3, <1>6, <2>1, <2>2, SoundGrant
<1>7. CASE Selected(Top, s) /\ UNCHANGED ret
           /\ Call([Top EXCEPT !.pc = "authorize"], AuthorizeFrame(Top.desc, m))
    <2> DEFINE f == [Top EXCEPT !.pc = "authorize"]
               g == AuthorizeFrame(Top.desc, m)
    <2>1. f \in Frames /\ f.pc = "authorize" /\ SameCall(Top, f)
          /\ f.sources = Top.sources /\ f.atts = Top.atts
          /\ f.errs = Top.errs /\ f.failed = Top.failed
        BY <1>2 DEF Frames, SameCall
    <2>2. \A t : Selected(f, t) <=> Selected(Top, t)
        BY <2>1 DEF Selected, SameCall
    <2>3. SoundFrame(f)
        BY <1>2, <2>1, <2>2 DEF SoundFrame, SameCall, Vouched
    <2>4. g \in Frames /\ g.pc = "validate" /\ SoundFrame(g)
        <3>1. Top.desc \in Descriptor
            BY <1>2 DEF Frames
        <3> QED BY <1>2, <1>4, <3>1, AuthorizeFrameOK, SoundAuthorize DEF AuthorizeFrame, ClaimFrame
    <2>5. SoundCall(f, g)
        BY <2>1 DEF SoundCall
    <2> HIDE DEF g
    <2>6. Call(f, g)
        BY <1>7 DEF g
    <2> QED BY <1>1, <1>7, <2>1, <2>3, <2>4, <2>5, <2>6, SoundCallStep
<1> QED BY <1>5, <1>6, <1>7 DEF TrySource

LEMMA SoundAuthorizeReturns ==
    ASSUME SInv, IInv', AuthorizeReturns
    PROVE  SInv'
<1> DEFINE s == Top.sources[Top.j]
           m == Match(Top, s)
<1>1. stage = "access" /\ stack # <<>> /\ Top.pc = "authorize"
      /\ UNCHANGED <<world, env, stage, start>>
    BY DEF AuthorizeReturns, Running
<1>2. Top \in Frames /\ FrameOK(Top) /\ SoundFrame(Top) /\ world \in Worlds /\ ret \in Returns
    BY <1>1, SoundTop
<1>3. Top.j \in DOMAIN Top.sources /\ Selected(Top, s) /\ s \in Sources
    BY <1>1, <1>2 DEF FrameOK, Frames
<1>4. m \in Sources /\ m.link = s.link
    BY <1>2, <1>3, MatchType DEF FrameOK
<1>5. SoundReturn(stack, ret)
    BY <1>1 DEF SInv
<1>6. CASE ret.is = "ok" /\ Grant(Top, m, ret.auth)
    <2>1. ret.auth \in Auths /\ SoundAuth(ret.auth)
        BY <1>2, <1>5, <1>6 DEF Returns, SoundReturn
    <2> QED BY <1>1, <1>3, <1>6, <2>1, SoundGrant
<1>7. CASE Goto(NextSource(Top, TRUE, InvalidClaim(m.link, ret.errs))) /\ ret' = NoReturn
    <2> DEFINE errs == InvalidClaim(m.link, ret.errs)
    <2>1. errs \in SUBSET Errors
        BY <1>2, <1>4, ErrorType DEF InvalidClaim, ErrorNames, Returns, Sources
    <2>2. Dlg(m.link).caps # <<>>
        BY <1>2, <1>3, <1>4 DEF FrameOK, Range
    <2>3. IsTrue(Error(m.link, "InvalidClaim"))
        BY <2>2 DEF IsTrue, Error
    <2>4. \A e \in errs : IsTrue(e)
        BY <1>5, <2>3 DEF InvalidClaim, SoundReturn
    <2> HIDE DEF errs
    <2>5. SoundFrame(NextSource(Top, TRUE, errs))
        BY <1>2, <1>3, <2>1, <2>4, SoundNextSource
    <2> QED BY <1>1, <1>2, <1>7, <2>1, <2>5, NextSourceOK, SoundGotoStep DEF errs
<1> QED BY <1>6, <1>7 DEF AuthorizeReturns

LEMMA SoundExhausted ==
    ASSUME SInv, IInv', Exhausted
    PROVE  SInv'
<1>1. stage = "access" /\ stack # <<>> /\ stack' = Front(stack)
      /\ ret' = Denied(Top.failed, Top.errs) /\ UNCHANGED <<world, env, stage, start>>
    BY DEF Exhausted, Running, Return
<1>2. stack \in Seq(Frames) /\ Top = Last(stack)
      /\ Top \in Frames /\ FrameOK(Top) /\ SoundFrame(Top) /\ world \in Worlds
    BY <1>1, SoundTop
<1>3. SoundStack(stack')
    BY <1>1, <1>2, SoundPop DEF SInv
<1>4. ret'.is = "fail" /\ ret'.failed = Top.failed /\ ret'.errs = Top.errs
    BY <1>1 DEF Denied
<1>5. ASSUME stack' # <<>>, Last(stack').pc = "session", Top.failed
      PROVE  AttestedIn(Last(stack').cands[Last(stack').i], Available)
    <2> DEFINE link == Last(stack').cands[Last(stack').i]
    <2>1. link \in Link /\ Top.kind = "claim" /\ Top.desc = AttestationOf(link) /\ link \notin Top.pool
        BY <1>1, <1>5, SessionCaller
    <2> HIDE DEF link
    <2>2. PICK n \in DOMAIN Top.sources : Selected(Top, Top.sources[n])
        BY <1>2, <1>5 DEF SoundFrame
    <2>3. Top.sources[n].link \in Top.pool /\ Top.sources[n].link # link
          /\ Attests(Top.sources[n].link, link)
        BY <1>2, <2>1, <2>2, SelectedAttests
    <2>4. Top.sources[n].link \in Available
        BY <1>2, <2>3, PoolAvailable DEF SoundFrame
    <2>5. AttestedIn(link, Available)
        BY <2>3, <2>4 DEF AttestedIn
    <2> QED BY <2>5 DEF link
<1>6. SoundReturn(stack', ret')
    BY <1>2, <1>4, <1>5 DEF SoundReturn, SoundFrame
<1> QED BY <1>1, <1>3, <1>6, SoundSearch

\* Steps that leave the search alone.
LEMMA SoundOtherwise ==
    ASSUME SInv, IInv', Answer \/ Tick \/ Revoke \/ UNCHANGED vars
    PROVE  SInv'
<1>1. UNCHANGED <<world, stack, ret, start>> /\ now <= now' /\ revoked \subseteq revoked'
      /\ (stage' = "received" <=> stage = "received")
      /\ (stage' = "crashed" <=> stage = "crashed")
    BY DEF Answer, Tick, Revoke, vars, env, SInv, IInv, TypeOK
<1>2. Later /\ TypeOK /\ TypeOK' /\ world \in Worlds /\ stack \in Seq(Frames) /\ ret \in Returns
    BY <1>1 DEF Later, SInv, IInv, TypeOK, Returns
<1>3. SoundStack(stack)'
    BY <1>1, <1>2, LaterStack DEF SInv
<1>4. stage' # "crashed" => SoundReturn(stack, ret)'
    BY <1>1, <1>2, LaterReturn DEF SInv
<1>5. SoundStart'
    BY <1>1, <1>2 DEF SInv, SoundStart, TypeOK
<1>6. SoundCrash'
    BY <1>1 DEF SInv, SoundCrash, CrashNeedsEmptyProof, ResolveProofs, Available, Context, Dlg
<1> QED BY <1>3, <1>4, <1>5, <1>6 DEF SInv

LEMMA SoundInit == Init => SInv
<1> SUFFICES ASSUME Init PROVE SInv
    OBVIOUS
<1>1. SoundStack(stack) /\ SoundReturn(stack, ret)
    BY SoundNoReturn DEF Init, SoundStack
<1>2. SoundStart /\ SoundCrash
    BY DEF Init, SoundStart, SoundCrash, CrashNeedsEmptyProof
<1> QED BY <1>1, <1>2, InitInv DEF SInv

LEMMA SoundStep == SInv /\ [Next]_vars => SInv'
<1> SUFFICES ASSUME SInv, [Next]_vars PROVE SInv'
    OBVIOUS
<1>1. IInv'
    BY StepInv DEF SInv
<1> QED BY <1>1, SoundProvide, SoundCheckExpired, SoundCheckNotBefore, SoundSessionPanics,
           SoundSessionReturns, SoundTrySource, SoundAuthorizeReturns, SoundExhausted,
           SoundOtherwise DEF Next, Serve

----------------------------------------------------------------------------
(* The theorems.                                                           *)

\* However unsigned delegations and attestations refer to each other, what a
\* handler runs on is signed or attested by others it runs on, and never by
\* itself alone (validator/lib.go 276-278, 361-408, 464-477, 491, 510-522).
THEOREM HandledIsGrounded == Spec => []AttestationsGrounded
<1>1. SInv => AttestationsGrounded
    BY DEF SInv, IInv, TypeOK, StageOK, SoundReturn, SoundAuth, Grounded, AttestationsGrounded
<1> QED BY <1>1, SoundInit, SoundStep, PTL DEF Spec

\* With a revocation checker, what was revoked before Access was called is no
\* part of what a handler runs on, whatever is revoked meanwhile
\* (validator/lib.go 293-297, 308-312).
THEOREM HandledIsNotRevoked == Spec => []RevokedNeverHandled
<1>1. SInv => RevokedNeverHandled
    BY DEF SInv, IInv, TypeOK, StageOK, SoundReturn, RevokedNeverHandled
<1> QED BY <1>1, SoundInit, SoundStep, PTL DEF Spec

\* However the clock moves between its two reads, every delegation a handler runs
\* on was valid at one instant of the validation (validator/lib.go 36-45).
THEOREM HandledWasValid == Spec => []ValidWhileValidating
<1>1. SInv => ValidWhileValidating
    BY DEF SInv, IInv, TypeOK, StageOK, SoundReturn, SoundAuth, WasValid, Bounded,
           ValidWhileValidating
<1> QED BY <1>1, SoundInit, SoundStep, PTL DEF Spec

\* The errors of a refusal are true, those of the clock at an instant of the
\* validation (validator/error.go 166-442).
THEOREM RefusalIsTrue == Spec => []RefusalTrue
<1>1. SInv => RefusalTrue
    BY DEF SInv, SoundReturn, RefusalTrue
<1> QED BY <1>1, SoundInit, SoundStep, PTL DEF Spec

\* Only a proof without capabilities, next to one that needs an attestation, ends
\* the process (validator/lib.go 464-477).
THEOREM CrashHasCause == Spec => []CrashNeedsEmptyProof
<1>1. SInv => CrashNeedsEmptyProof
    BY DEF SInv, SoundCrash
<1> QED BY <1>1, SoundInit, SoundStep, PTL DEF Spec

\* A token that was changed in any field after it was signed is used only where
\* others attest to it: its signature is over another payload (ucan/lib.go
\* 165-171, 187-223; validator/lib.go 361-420).
THEOREM HandledAsIssued ==
    ASSUME \A w \in Worlds : \A l \in w.altered :
               w.dlg[l].sig.over # SignaturePayload(w.dlg[l], w.dlg[l].sig.alg)
    PROVE  Spec => []OnlyAsIssued
<1>1. ASSUME SInv PROVE OnlyAsIssued
    <2>1. \A l \in world.altered : ~Signed(l)
        BY <1>1 DEF SInv, IInv, Signed, KeyVerdict, AuthorityVerdict, ResolvedVerdict,
                    VerifySignature, Verify, Dlg
    <2>2. ASSUME stage = "handled", NEW l \in AuthLinks(ret.auth) \cap world.altered
          PROVE  \E q \in AuthLinks(ret.auth) \ {l} : Attests(q, l)
        <3>1. Grounded(AuthLinks(ret.auth))
            BY <1>1, <2>2 DEF SInv, IInv, StageOK, SoundReturn, SoundAuth
        <3>2. {l} \in (SUBSET AuthLinks(ret.auth)) \ {{}}
            BY <2>2
        <3> QED BY <2>1, <2>2, <3>1, <3>2 DEF Grounded
    <2> QED BY <2>2 DEF OnlyAsIssued
<1> QED BY <1>1, SoundInit, SoundStep, PTL DEF Spec

----------------------------------------------------------------------------
(* A refusal is complete: each active call has found something wrong with  *)
(* every proof and source it is past.                                      *)

Blames(errs, link) == \E e \in errs : e.link = link
SomeRevoked(errs)  == \E e \in errs : e.name = "Revoked"

\* Something is wrong with each proof of a delegation that could grant it.
BlamesProofs(errs, link) ==
    \A p \in Range(Dlg(link).prfs) : Dlg(p).caps # <<>> => Blames(errs, p)

ErrsExplained(errs) ==
    \A e \in errs : e.name = "InvalidClaim" => BlamesProofs(errs, e.link)

\* A proof that was validated has become sources, if it has capabilities.
Examined(f, link) ==
    \/ Dlg(link).caps = <<>>
    \/ Blames(f.errs, link)
    \/ \E n \in DOMAIN f.sources : f.sources[n].link = link

\* A source that was tried; a Claim also gives up one that was revoked.
Tried(f, link) ==
    Blames(f.errs, link) \/ (f.kind = "claim" /\ SomeRevoked(f.errs))

ExplainedFrame(f) ==
    /\ ErrsExplained(f.errs)
    /\ \A k \in DOMAIN f.cands : k < f.i /\ f.cands[k] \in f.pool => Examined(f, f.cands[k])
    /\ \A n \in DOMAIN f.sources : n < f.j => Tried(f, f.sources[n].link)
    /\ f.j # 1 \/ f.pc = "authorize" => f.i > Len(f.cands)
    /\ f.kind = "authorize" =>
          /\ f.cands = Dlg(f.match.link).prfs
          /\ \A p \in Range(f.cands) \ f.pool : Blames(f.errs, p)

ExplainedStack(st) ==
    /\ \A k \in 1..Len(st) : ExplainedFrame(st[k])
    /\ st # <<>> => st[1].cands = <<world.root>>

\* What a failed call tells its caller st[Len(st)], or Provide.
ExplainedReturn(st, r) ==
    /\ ErrsExplained(r.errs)
    /\ r.is = "fail" /\ st = <<>> =>
          \/ Dlg(world.root).caps = <<>>
          \/ Blames(r.errs, world.root) \/ SomeRevoked(r.errs)
    /\ r.is = "fail" /\ st # <<>> /\ Last(st).pc = "authorize" =>
          BlamesProofs(r.errs, Match(Last(st), Last(st).sources[Last(st).j]).link)

ExplainedStage ==
    /\ stage = "received" => stack = <<>> /\ ret = NoReturn
    /\ stage = "access" /\ stack = <<>> => ret.is # "none"
    /\ stage = "unauthorized" => ret.is = "fail"

EInv ==
    /\ IInv
    /\ ExplainedStack(stack)
    /\ stage # "crashed" => ExplainedReturn(stack, ret)
    /\ ExplainedStage

----------------------------------------------------------------------------
(* Errors.                                                                 *)

LEMMA ExplainedUnion ==
    ASSUME NEW errs, NEW others, ErrsExplained(errs), ErrsExplained(others)
    PROVE  ErrsExplained(errs \cup others)
BY DEF ErrsExplained, BlamesProofs, Blames

LEMMA ExplainedOther ==
    ASSUME NEW link, NEW name, name # "InvalidClaim"
    PROVE  ErrsExplained({Error(link, name)})
BY DEF ErrsExplained, Error

LEMMA ExplainedClaim ==
    ASSUME NEW link, NEW errs, ErrsExplained(errs), BlamesProofs(errs, link)
    PROVE  ErrsExplained(InvalidClaim(link, errs))
<1> DEFINE all == InvalidClaim(link, errs)
<1>1. all = {Error(link, "InvalidClaim")} \cup errs
    BY DEF InvalidClaim
<1> HIDE DEF all
<1>2. ASSUME NEW l, BlamesProofs(errs, l) PROVE BlamesProofs(all, l)
    BY <1>1, <1>2 DEF BlamesProofs, Blames
<1>3. ASSUME NEW e \in all, e.name = "InvalidClaim" PROVE BlamesProofs(all, e.link)
    <2>1. CASE e \in errs
        BY <1>2, <1>3, <2>1 DEF ErrsExplained
    <2>2. CASE e = Error(link, "InvalidClaim")
        BY <1>2, <2>2 DEF Error
    <2> QED BY <1>1, <1>3, <2>1, <2>2
<1> QED BY <1>3 DEF ErrsExplained, all

LEMMA ExplainedProofErrors ==
    ASSUME NEW link
    PROVE  /\ ErrsExplained(ProofErrors(link))
           /\ \A p \in Range(Dlg(link).prfs) \ ResolveProofs(link) : Blames(ProofErrors(link), p)
<1> DEFINE missing == Range(Dlg(link).prfs) \ Available
           other   == {q \in Range(Dlg(link).prfs) \cap Available : Dlg(q).aud # Dlg(link).iss}
           errs1   == UNION {UnavailableProof(p) : p \in missing}
           errs2   == UNION {PrincipalAlignment(p) : p \in other}
<1>1. ProofErrors(link) = errs1 \cup errs2
    BY DEF ProofErrors
<1>2. \A p \in Range(Dlg(link).prfs) \ ResolveProofs(link) : p \in missing \/ p \in other
    BY DEF ResolveProofs
<1> HIDE DEF missing, other
<1>3. /\ \A e \in errs1 : e.name # "InvalidClaim"
      /\ \A p \in missing : Error(p, "UnavailableProof") \in errs1
    BY DEF UnavailableProof, Error
<1>4. /\ \A e \in errs2 : e.name # "InvalidClaim"
      /\ \A p \in other : Error(p, "PrincipalAlignment") \in errs2
    BY DEF PrincipalAlignment, Error
<1> HIDE DEF errs1, errs2
<1>5. ErrsExplained(errs1 \cup errs2)
    BY <1>3, <1>4 DEF ErrsExplained
<1>6. ASSUME NEW p \in missing PROVE Blames(errs1 \cup errs2, p)
    <2>1. Error(p, "UnavailableProof") \in errs1 \cup errs2 /\ Error(p, "UnavailableProof").link = p
        BY <1>3 DEF Error
    <2> QED BY <2>1 DEF Blames
<1>7. ASSUME NEW p \in other PROVE Blames(errs1 \cup errs2, p)
    <2>1. Error(p, "PrincipalAlignment") \in errs1 \cup errs2 /\ Error(p, "PrincipalAlignment").link = p
        BY <1>4 DEF Error
    <2> QED BY <2>1 DEF Blames
<1> QED BY <1>1, <1>2, <1>5, <1>6, <1>7

----------------------------------------------------------------------------
(* Frames.                                                                 *)

\* The proof at f.i is passed over, or something is wrong with it.
LEMMA ExplainedReject ==
    ASSUME NEW f \in Frames, ExplainedFrame(f), NEW errs, ErrsExplained(errs),
           f.i \in DOMAIN f.cands,
           f.cands[f.i] \in f.pool => Blames(errs, f.cands[f.i])
    PROVE  ExplainedFrame(Reject(f, errs)) /\ Reject(f, errs).cands = f.cands
<1> DEFINE g == Reject(f, errs)
<1>1. /\ g.cands = f.cands /\ g.pool = f.pool /\ g.kind = f.kind /\ g.match = f.match
      /\ g.i = f.i + 1 /\ g.j = f.j /\ g.sources = f.sources /\ g.pc = "validate"
      /\ g.errs = f.errs \cup errs /\ f.i \in Nat /\ DOMAIN f.cands = 1..Len(f.cands)
      /\ Len(f.cands) \in Nat
    BY DEF Reject, Frames
<1> HIDE DEF g
<1>2. ErrsExplained(g.errs)
    BY <1>1, ExplainedUnion DEF ExplainedFrame
<1>3. \A l : Blames(f.errs, l) \/ Blames(errs, l) => Blames(g.errs, l)
    BY <1>1 DEF Blames
<1>4. ASSUME NEW k \in DOMAIN g.cands, k < g.i, g.cands[k] \in g.pool
      PROVE  Examined(g, g.cands[k])
    <2>1. CASE k < f.i
        BY <1>1, <1>3, <1>4, <2>1 DEF ExplainedFrame, Examined
    <2>2. CASE k = f.i
        BY <1>1, <1>3, <1>4, <2>2 DEF Examined
    <2>3. k < f.i \/ k = f.i
        BY <1>1, <1>4
    <2> QED BY <2>1, <2>2, <2>3
<1>5. ASSUME NEW n \in DOMAIN g.sources, n < g.j PROVE Tried(g, g.sources[n].link)
    BY <1>1, <1>3, <1>5 DEF ExplainedFrame, Tried, SomeRevoked
<1>6. g.j # 1 \/ g.pc = "authorize" => g.i > Len(g.cands)
    BY <1>1 DEF ExplainedFrame
<1>7. g.kind = "authorize" => /\ g.cands = Dlg(g.match.link).prfs
                             /\ \A p \in Range(g.cands) \ g.pool : Blames(g.errs, p)
    BY <1>1, <1>3 DEF ExplainedFrame
<1>8. ExplainedFrame(g)
    BY <1>2, <1>4, <1>5, <1>6, <1>7 DEF ExplainedFrame
<1> QED BY <1>1, <1>8 DEF g

\* The source at f.j is not selected, not authorized or revoked.
LEMMA ExplainedNextSource ==
    ASSUME NEW f \in Frames, ExplainedFrame(f), NEW failed \in BOOLEAN,
           NEW errs, ErrsExplained(errs), f.j \in DOMAIN f.sources, f.i > Len(f.cands),
           Blames(errs, f.sources[f.j].link) \/ (f.kind = "claim" /\ SomeRevoked(errs))
    PROVE  /\ ExplainedFrame(NextSource(f, failed, errs))
           /\ NextSource(f, failed, errs).cands = f.cands
<1> DEFINE g == NextSource(f, failed, errs)
<1>1. /\ g.cands = f.cands /\ g.pool = f.pool /\ g.kind = f.kind /\ g.match = f.match
      /\ g.i = f.i /\ g.j = f.j + 1 /\ g.sources = f.sources /\ g.pc = "validate"
      /\ g.errs = f.errs \cup errs /\ f.j \in Nat /\ DOMAIN f.sources \subseteq Nat
    BY DEF NextSource, Frames
<1> HIDE DEF g
<1>2. ErrsExplained(g.errs)
    BY <1>1, ExplainedUnion DEF ExplainedFrame
<1>3. /\ \A l : Blames(f.errs, l) \/ Blames(errs, l) => Blames(g.errs, l)
      /\ SomeRevoked(f.errs) \/ SomeRevoked(errs) => SomeRevoked(g.errs)
    BY <1>1 DEF Blames, SomeRevoked
<1>4. ASSUME NEW k \in DOMAIN g.cands, k < g.i, g.cands[k] \in g.pool
      PROVE  Examined(g, g.cands[k])
    BY <1>1, <1>3, <1>4 DEF ExplainedFrame, Examined
<1>5. ASSUME NEW n \in DOMAIN g.sources, n < g.j PROVE Tried(g, g.sources[n].link)
    <2>1. CASE n < f.j
        BY <1>1, <1>3, <1>5, <2>1 DEF ExplainedFrame, Tried
    <2>2. CASE n = f.j
        BY <1>1, <1>3, <1>5, <2>2 DEF Tried
    <2>3. n < f.j \/ n = f.j
        BY <1>1, <1>5
    <2> QED BY <2>1, <2>2, <2>3
<1>6. ExplainedFrame(g)
    BY <1>1, <1>2, <1>3, <1>4, <1>5 DEF ExplainedFrame
<1> QED BY <1>1, <1>6 DEF g

\* The proof at f.i becomes sources, none of which has been tried.
LEMMA ExplainedAccept ==
    ASSUME world \in Worlds, NEW f \in Frames, FrameOK(f), ExplainedFrame(f),
           f.pc \in {"notBefore", "session"}, NEW atts \in SUBSET Attestations
    PROVE  ExplainedFrame(Accept(f, atts)) /\ Accept(f, atts).cands = f.cands
<1> DEFINE link == f.cands[f.i]
           caps == Dlg(link).caps
           new  == [k \in DOMAIN caps |-> Source(link, caps[k])]
           all  == f.sources \o new
           g    == Accept(f, atts)
<1>1. link \in Link
    BY DEF FrameOK, Frames
<1>2. caps \in Seq(Capability)
    BY <1>1, DlgType
<1>3. new \in Seq(Sources)
    <2>1. \A k \in DOMAIN caps : Source(link, caps[k]) \in Sources
        BY <1>1, <1>2 DEF Sources, Source
    <2>2. DOMAIN caps = 1..Len(caps) /\ Len(caps) \in Nat
        BY <1>2
    <2> HIDE DEF caps
    <2> QED BY <2>1, <2>2
<1>4. f.sources \in Seq(Sources)
    BY DEF Frames
<1>5. /\ g.cands = f.cands /\ g.pool = f.pool /\ g.kind = f.kind /\ g.match = f.match
      /\ g.i = f.i + 1 /\ g.j = f.j /\ g.sources = all /\ g.errs = f.errs /\ g.pc = "validate"
      /\ f.i \in Nat /\ DOMAIN f.cands = 1..Len(f.cands)
    BY DEF Accept, Frames
<1>6. f.j = 1
    <2>1. f.i \in DOMAIN f.cands
        BY DEF FrameOK
    <2>2. f.i \in Nat /\ f.i \in 1..Len(f.cands) /\ Len(f.cands) \in Nat
        BY <1>5, <2>1 DEF Frames
    <2>3. ~(f.i > Len(f.cands))
        BY <2>2
    <2> QED BY <2>3 DEF ExplainedFrame
<1>7. caps # <<>> => 1 \in DOMAIN new /\ new[1].link = link
    BY <1>2 DEF Source
<1> HIDE DEF new
<1>8. /\ \A n \in DOMAIN f.sources : n \in DOMAIN all /\ all[n] = f.sources[n]
      /\ \A n \in DOMAIN new : n + Len(f.sources) \in DOMAIN all /\ all[n + Len(f.sources)] = new[n]
      /\ DOMAIN all \subseteq Nat \ {0}
    BY <1>3, <1>4
<1>9. caps = <<>> \/ \E n \in DOMAIN all : all[n].link = link
    BY <1>7, <1>8
<1> HIDE DEF g, all, link, caps
<1>10. Examined(g, link)
    BY <1>5, <1>9 DEF Examined, caps
<1>11. \A l : Examined(f, l) => Examined(g, l)
    BY <1>5, <1>8 DEF Examined
<1>12. ASSUME NEW k \in DOMAIN g.cands, k < g.i, g.cands[k] \in g.pool
       PROVE  Examined(g, g.cands[k])
    <2>1. CASE k < f.i
        BY <1>5, <1>11, <1>12, <2>1 DEF ExplainedFrame
    <2>2. CASE k = f.i
        BY <1>5, <1>10, <2>2 DEF link
    <2>3. k < f.i \/ k = f.i
        BY <1>5, <1>12
    <2> QED BY <2>1, <2>2, <2>3
<1>13. ASSUME NEW n \in DOMAIN g.sources, n < g.j PROVE Tried(g, g.sources[n].link)
    BY <1>5, <1>6, <1>8, <1>13
<1>14. ExplainedFrame(g)
    BY <1>5, <1>6, <1>12, <1>13 DEF ExplainedFrame, Blames
<1> QED BY <1>5, <1>14 DEF g

LEMMA ExplainedSession ==
    ASSUME NEW f \in Frames, NEW link
    PROVE  ExplainedFrame(SessionFrame(f, link))
BY DEF SessionFrame, ClaimFrame, ExplainedFrame, ErrsExplained, Frames

LEMMA ExplainedAuthorize ==
    ASSUME NEW desc, NEW m
    PROVE  ExplainedFrame(AuthorizeFrame(desc, m))
<1> DEFINE f == AuthorizeFrame(desc, m)
<1>1. /\ f.cands = Dlg(m.link).prfs /\ f.pool = ResolveProofs(m.link) /\ f.kind = "authorize"
      /\ f.match = m /\ f.i = 1 /\ f.j = 1 /\ f.pc = "validate" /\ f.sources = <<>>
      /\ f.errs = ProofErrors(m.link)
    BY DEF AuthorizeFrame, ClaimFrame
<1> HIDE DEF f
<1>2. ExplainedFrame(f)
    BY <1>1, ExplainedProofErrors DEF ExplainedFrame
<1> QED BY <1>2 DEF f

----------------------------------------------------------------------------
(* The stack.                                                              *)

LEMMA ExplainedGoto ==
    ASSUME NEW st \in Seq(Frames), st # <<>>, ExplainedStack(st),
           NEW g \in Frames, ExplainedFrame(g), g.cands = Last(st).cands
    PROVE  ExplainedStack([st EXCEPT ![Len(st)] = g])
<1> DEFINE n  == Len(st)
           tt == [st EXCEPT ![n] = g]
<1>1. /\ n \in Nat \ {0} /\ Last(st) = st[n] /\ Len(tt) = n /\ tt[n] = g
      /\ \A k \in 1..n - 1 : tt[k] = st[k]
    BY DEF Last
<1>2. n = Len(st)
    OBVIOUS
<1> HIDE DEF n, tt
<1>3. \A k \in 1..n : ExplainedFrame(tt[k])
    BY <1>1, <1>2 DEF ExplainedStack
<1>4. tt[1].cands = st[1].cands
    BY <1>1
<1>5. ExplainedStack(tt)
    BY <1>1, <1>3, <1>4 DEF ExplainedStack
<1> QED BY <1>5 DEF tt, n

LEMMA ExplainedPush ==
    ASSUME NEW st \in Seq(Frames), st # <<>>, ExplainedStack(st),
           NEW g \in Frames, ExplainedFrame(g)
    PROVE  ExplainedStack(Append(st, g))
<1> DEFINE n  == Len(st)
           tt == Append(st, g)
<1>1. /\ n \in Nat \ {0} /\ Len(tt) = n + 1 /\ tt[n + 1] = g
      /\ \A k \in 1..n : tt[k] = st[k]
    OBVIOUS
<1>2. n = Len(st)
    OBVIOUS
<1> HIDE DEF n, tt
<1>3. \A k \in 1..n + 1 : ExplainedFrame(tt[k])
    BY <1>1, <1>2 DEF ExplainedStack
<1>4. tt[1] = st[1]
    BY <1>1
<1>5. ExplainedStack(tt)
    BY <1>1, <1>3, <1>4 DEF ExplainedStack
<1> QED BY <1>5 DEF tt

LEMMA ExplainedPop ==
    ASSUME NEW st \in Seq(Frames), st # <<>>, ExplainedStack(st)
    PROVE  /\ ExplainedStack(Front(st))
           /\ ExplainedFrame(Last(st))
           /\ Front(st) = <<>> => Last(st).cands = <<world.root>>
<1> DEFINE n  == Len(st)
           tt == Front(st)
<1>1. n = Len(st) /\ n \in Nat \ {0} /\ Last(st) = st[n]
    BY DEF Last
<1>2. tt \in Seq(Frames) /\ Len(tt) = n - 1 /\ \A k \in 1..n - 1 : tt[k] = st[k]
    BY <1>1 DEF Front
<1> HIDE DEF n, tt
<1>3. tt # <<>> => tt[1] = st[1]
    BY <1>1, <1>2
<1>4. tt = <<>> => n = 1
    <2>1. tt = <<>> => Len(tt) = 0
        OBVIOUS
    <2> QED BY <2>1, <1>1, <1>2
<1>5. ExplainedStack(tt)
    BY <1>1, <1>2, <1>3 DEF ExplainedStack
<1>6. ExplainedFrame(st[n])
    BY <1>1 DEF ExplainedStack
<1> QED BY <1>1, <1>4, <1>5, <1>6 DEF ExplainedStack, tt

----------------------------------------------------------------------------
(* Steps of the search.                                                    *)

\* The world stays as it is.
LEMMA ExplainedSame ==
    ASSUME UNCHANGED world
    PROVE  /\ ExplainedStack(stack') => ExplainedStack(stack)'
           /\ ExplainedReturn(stack', ret') => ExplainedReturn(stack, ret)'
<1>1. ASSUME NEW errs, ErrsExplained(errs) PROVE ErrsExplained(errs)'
    BY <1>1 DEF ErrsExplained, BlamesProofs, Dlg
<1>2. ASSUME NEW f, ExplainedFrame(f) PROVE ExplainedFrame(f)'
    BY <1>1, <1>2 DEF ExplainedFrame, Examined, Dlg
<1>3. ASSUME ExplainedStack(stack') PROVE ExplainedStack(stack)'
    BY <1>2, <1>3 DEF ExplainedStack
<1>4. ASSUME ExplainedReturn(stack', ret') PROVE ExplainedReturn(stack, ret)'
    BY <1>1, <1>4 DEF ExplainedReturn, BlamesProofs, Dlg
<1> QED BY <1>3, <1>4

LEMMA ExplainedNoReturn ==
    ASSUME NEW st
    PROVE  ExplainedReturn(st, NoReturn)
BY DEF ExplainedReturn, ErrsExplained, NoReturn

LEMMA ExplainedTop ==
    ASSUME EInv, stack # <<>>
    PROVE  /\ stack \in Seq(Frames) /\ Top = Last(stack)
           /\ Top \in Frames /\ FrameOK(Top) /\ ExplainedFrame(Top)
           /\ world \in Worlds /\ TypeOK /\ ret \in Returns
<1>1. StackOK(stack) /\ stack \in Seq(Frames) /\ world \in Worlds /\ TypeOK /\ ret \in Returns
    BY DEF EInv, IInv, StackOK, TypeOK, Returns
<1>2. Top \in Frames /\ FrameOK(Top) /\ Top = Last(stack)
    BY <1>1, TopOK DEF Top
<1>3. ExplainedFrame(Top)
    BY <1>1, <1>2, ExplainedPop DEF EInv
<1> QED BY <1>1, <1>2, <1>3

LEMMA ExplainedSearch ==
    ASSUME EInv, IInv', stage = "access", UNCHANGED <<world, env, stage, start>>,
           ExplainedStack(stack'), ExplainedReturn(stack', ret'),
           stack' = <<>> => ret'.is # "none"
    PROVE  EInv'
BY ExplainedSame DEF EInv, ExplainedStage

LEMMA ExplainedGotoStep ==
    ASSUME EInv, IInv', stage = "access", stack # <<>>, UNCHANGED <<world, env, stage, start>>,
           NEW g \in Frames, ExplainedFrame(g), g.cands = Top.cands, Goto(g),
           \/ ret' = ret /\ g.pc # "authorize"
           \/ ret' = NoReturn
    PROVE  EInv'
<1>1. stack \in Seq(Frames) /\ stack' = [stack EXCEPT ![Len(stack)] = g] /\ Top = Last(stack)
    BY ExplainedTop DEF Goto
<1>2. ExplainedStack(stack')
    BY <1>1, ExplainedGoto DEF EInv
<1>3. Last(stack') = g /\ stack' # <<>>
    BY <1>1 DEF Last
<1>4. ExplainedReturn(stack', ret')
    BY <1>3, ExplainedNoReturn DEF EInv, ExplainedReturn
<1> QED BY <1>2, <1>3, <1>4, ExplainedSearch

LEMMA ExplainedCallStep ==
    ASSUME EInv, IInv', stage = "access", stack # <<>>, UNCHANGED <<world, env, stage, start>>,
           ret' = ret,
           NEW f \in Frames, ExplainedFrame(f), f.cands = Top.cands,
           NEW g \in Frames, ExplainedFrame(g), g.pc = "validate", Call(f, g)
    PROVE  EInv'
<1> DEFINE st == [stack EXCEPT ![Len(stack)] = f]
<1>1. stack \in Seq(Frames) /\ stack' = Append(st, g) /\ Top = Last(stack)
    BY ExplainedTop DEF Call
<1>2. ExplainedStack(st)
    BY <1>1, ExplainedGoto DEF EInv
<1>3. st \in Seq(Frames) /\ st # <<>>
    BY <1>1
<1> HIDE DEF st
<1>4. ExplainedStack(stack')
    BY <1>1, <1>2, <1>3, ExplainedPush
<1>5. Last(stack') = g /\ stack' # <<>>
    BY <1>1, <1>3 DEF Last
<1>6. ExplainedReturn(stack', ret')
    BY <1>5 DEF EInv, ExplainedReturn
<1> QED BY <1>4, <1>5, <1>6, ExplainedSearch

\* The delegations of what a Grant makes of an authorization.
LEMMA GrantedType ==
    ASSUME NEW f \in Frames, NEW m \in Sources, NEW sub \in Auths
    PROVE  AuthLinks(Auth(<<m>> \o sub.path, RelevantAttestations(f, m) \cup sub.atts))
               \subseteq Link
<1>1. <<m>> \o sub.path \in Seq(Sources)
    BY DEF Auths
<1>2. RelevantAttestations(f, m) \cup sub.atts \subseteq Attestations
    BY DEF RelevantAttestations, Frames, Auths
<1>3. Auth(<<m>> \o sub.path, RelevantAttestations(f, m) \cup sub.atts) \in Auths
    BY <1>1, <1>2 DEF Auth, Auths
<1> QED BY <1>3, LinksType

\* A source that was revoked is given up, by a Claim alone.
LEMMA ExplainedGrant ==
    ASSUME EInv, IInv', stage = "access", stack # <<>>, UNCHANGED <<world, env, stage, start>>,
           Top.j \in DOMAIN Top.sources, Top.i > Len(Top.cands),
           NEW m, NEW sub, Grant(Top, m, sub),
           NEW auth, auth = Auth(<<m>> \o sub.path, RelevantAttestations(Top, m) \cup sub.atts),
           AuthLinks(auth) \subseteq Link
    PROVE  EInv'
<1>1. /\ stack \in Seq(Frames) /\ Top = Last(stack)
      /\ Top \in Frames /\ FrameOK(Top) /\ ExplainedFrame(Top) /\ world \in Worlds
    BY ExplainedTop
<1>2. \/ /\ Top.kind = "claim" /\ ret' = NoReturn
         /\ \E link \in RevokedIn(auth) : Goto(NextSource(Top, FALSE, Revoked(link)))
      \/ Return(Granted(auth))
    BY DEF Grant
<1>3. ASSUME Top.kind = "claim", NEW link \in RevokedIn(auth),
             Goto(NextSource(Top, FALSE, Revoked(link))), ret' = NoReturn
      PROVE  EInv'
    <2>1. link \in Link
        BY DEF RevokedIn
    <2>2. Revoked(link) \in SUBSET Errors /\ ErrsExplained(Revoked(link))
        BY <2>1, ErrorType, ExplainedOther DEF Revoked, ErrorNames
    <2>3. SomeRevoked(Revoked(link))
        BY DEF SomeRevoked, Revoked, Error
    <2>4. ExplainedFrame(NextSource(Top, FALSE, Revoked(link)))
          /\ NextSource(Top, FALSE, Revoked(link)).cands = Top.cands
        BY <1>1, <1>3, <2>2, <2>3, ExplainedNextSource
    <2> QED BY <1>1, <1>3, <2>2, <2>4, NextSourceOK, ExplainedGotoStep
<1>4. CASE Return(Granted(auth))
    <2>1. stack' = Front(stack) /\ ret' = Granted(auth)
        BY <1>4 DEF Return
    <2>2. ret'.is = "ok" /\ ret'.errs = {}
        BY <2>1 DEF Granted
    <2>3. ExplainedStack(stack')
        BY <1>1, <2>1, ExplainedPop DEF EInv
    <2>4. ExplainedReturn(stack', ret')
        BY <2>2 DEF ExplainedReturn, ErrsExplained
    <2> QED BY <2>2, <2>3, <2>4, ExplainedSearch
<1> QED BY <1>2, <1>3, <1>4

----------------------------------------------------------------------------
(* One case for each action.                                               *)

LEMMA ExplainedProvide ==
    ASSUME EInv, IInv', Provide
    PROVE  EInv'
<1> DEFINE f == ClaimFrame(Provided, <<world.root>>, {world.root})
<1>1. /\ stage = "received" /\ UNCHANGED <<world, env, ret>> /\ stack = <<>> /\ ret = NoReturn
      /\ stage' \in {"access", "invalidAudience"}
    BY DEF Provide, EInv, ExplainedStage
<1>2. ExplainedReturn(stack', ret')
    BY <1>1, ExplainedNoReturn
<1>3. CASE stack' = <<f>> /\ stage' = "access"
    <2>1. /\ f.sources = <<>> /\ f.errs = {} /\ f.kind = "claim" /\ f.cands = <<world.root>>
          /\ f.i = 1 /\ f.j = 1 /\ f.pc = "validate" /\ DOMAIN f.cands = {1}
        BY DEF ClaimFrame
    <2> HIDE DEF f
    <2>2. ExplainedFrame(f)
        BY <2>1 DEF ExplainedFrame, ErrsExplained
    <2>3. stack'[1] = f /\ Len(stack') = 1 /\ stack' # <<>>
        BY <1>3
    <2>4. ExplainedStack(stack')
        BY <2>1, <2>2, <2>3 DEF ExplainedStack
    <2>5. ExplainedStage'
        BY <1>1, <1>3, <2>3 DEF ExplainedStage
    <2> QED BY <1>1, <1>2, <2>4, <2>5, ExplainedSame DEF EInv
<1>4. CASE stack' = stack /\ stage' = "invalidAudience"
    <2>1. ExplainedStack(stack')
        BY <1>4 DEF EInv
    <2>2. ExplainedStage'
        BY <1>4 DEF ExplainedStage
    <2> QED BY <1>1, <1>2, <2>1, <2>2, ExplainedSame DEF EInv
<1> QED BY <1>3, <1>4 DEF Provide

LEMMA ExplainedCheckExpired ==
    ASSUME EInv, IInv', CheckExpired
    PROVE  EInv'
<1> DEFINE link == Top.cands[Top.i]
<1>1. stage = "access" /\ stack # <<>> /\ Top.pc = "validate" /\ Top.i <= Len(Top.cands)
      /\ UNCHANGED <<world, env, stage, ret, start>>
    BY DEF CheckExpired, Running
<1>2. Top \in Frames /\ FrameOK(Top) /\ ExplainedFrame(Top) /\ world \in Worlds
    BY <1>1, ExplainedTop
<1>3. Top.i \in DOMAIN Top.cands /\ link \in Link
    BY <1>1, <1>2 DEF Frames
<1>4. ASSUME NEW errs \in SUBSET Errors, ErrsExplained(errs), Goto(Reject(Top, errs)),
             link \in Top.pool => Blames(errs, link)
      PROVE  EInv'
    BY <1>1, <1>2, <1>3, <1>4, ExplainedReject, RejectOK, ExplainedGotoStep
<1>5. ASSUME NEW name \in {"TimeBounds", "Expired"}, Goto(Reject(Top, {Error(link, name)}))
      PROVE  EInv'
    <2>1. {Error(link, name)} \in SUBSET Errors /\ ErrsExplained({Error(link, name)})
        BY <1>3, ErrorType, ExplainedOther DEF ErrorNames
    <2>2. Blames({Error(link, name)}, link)
        BY DEF Blames, Error
    <2> QED BY <1>4, <1>5, <2>1, <2>2
<1>6. CASE link \notin Top.pool /\ Goto(Reject(Top, {}))
    BY <1>4, <1>6 DEF ErrsExplained
<1>7. CASE Goto([Top EXCEPT !.pc = "notBefore"])
    <2> DEFINE g == [Top EXCEPT !.pc = "notBefore"]
    <2>1. g \in Frames /\ g.pc = "notBefore" /\ g.cands = Top.cands /\ g.i = Top.i
          /\ g.j = Top.j /\ g.sources = Top.sources /\ g.errs = Top.errs /\ g.pool = Top.pool
          /\ g.kind = Top.kind /\ g.match = Top.match
        BY <1>2 DEF Frames
    <2>2. ExplainedFrame(g)
        BY <1>2, <2>1 DEF ExplainedFrame, Examined, Tried
    <2> QED BY <1>1, <1>7, <2>1, <2>2, ExplainedGotoStep
<1> QED BY <1>5, <1>6, <1>7 DEF CheckExpired

\* A proof is taken up, or its signature is what is wrong with it.
LEMMA ExplainedJudge ==
    ASSUME EInv, IInv', stage = "access", stack # <<>>, UNCHANGED <<world, env, stage, start>>,
           Top.pc \in {"notBefore", "session"}, NEW verdict \in Verdicts,
           ret' = ret \/ ret' = NoReturn,
           Goto(Judge(Top, verdict))
    PROVE  EInv'
<1> DEFINE link == Top.cands[Top.i]
<1>1. Top \in Frames /\ FrameOK(Top) /\ ExplainedFrame(Top) /\ world \in Worlds
    BY ExplainedTop
<1>2. link \in Link /\ Top.i \in DOMAIN Top.cands
    BY <1>1 DEF FrameOK, Frames
<1>3. CASE verdict = "ok"
    <2>1. Accept(Top, {}) \in Frames /\ Accept(Top, {}).pc = "validate"
        BY <1>1, AcceptOK DEF Accept, Frames
    <2>2. ExplainedFrame(Accept(Top, {})) /\ Accept(Top, {}).cands = Top.cands
        BY <1>1, ExplainedAccept
    <2> QED BY <1>3, <2>1, <2>2, ExplainedGotoStep DEF Judge
<1>4. CASE verdict # "ok"
    <2> DEFINE errs == BadSignature(link, verdict)
    <2>1. verdict \in ErrorNames /\ verdict # "InvalidClaim"
        BY <1>4 DEF Verdicts, ErrorNames
    <2>2. errs \in SUBSET Errors /\ ErrsExplained(errs)
        BY <1>2, <2>1, ErrorType, ExplainedOther DEF BadSignature
    <2>3. Blames(errs, link)
        BY DEF BadSignature, Blames, Error
    <2> HIDE DEF errs
    <2>4. ExplainedFrame(Reject(Top, errs)) /\ Reject(Top, errs).cands = Top.cands
        BY <1>1, <1>2, <2>2, <2>3, ExplainedReject
    <2> QED BY <1>1, <1>4, <2>2, <2>4, RejectOK, ExplainedGotoStep DEF Judge, errs
<1> QED BY <1>3, <1>4

LEMMA ExplainedCheckNotBefore ==
    ASSUME EInv, IInv', CheckNotBefore
    PROVE  EInv'
<1> DEFINE link == Top.cands[Top.i]
<1>1. stage = "access" /\ stack # <<>> /\ Top.pc = "notBefore"
      /\ UNCHANGED <<world, env, stage, ret, start>>
    BY DEF CheckNotBefore, Running
<1>2. Top \in Frames /\ FrameOK(Top) /\ ExplainedFrame(Top) /\ world \in Worlds
    BY <1>1, ExplainedTop
<1>3. link \in Link /\ Top.i \in DOMAIN Top.cands
    BY <1>1, <1>2 DEF FrameOK, Frames
<1>4. CASE Goto(Reject(Top, {Error(link, "NotValidBefore")}))
    <2> DEFINE errs == {Error(link, "NotValidBefore")}
    <2>1. errs \in SUBSET Errors /\ ErrsExplained(errs)
        BY <1>3, ErrorType, ExplainedOther DEF ErrorNames
    <2>2. Blames(errs, link)
        BY DEF Blames, Error
    <2> HIDE DEF errs
    <2>3. ExplainedFrame(Reject(Top, errs)) /\ Reject(Top, errs).cands = Top.cands
        BY <1>2, <1>3, <2>1, <2>2, ExplainedReject
    <2> QED BY <1>1, <1>2, <1>4, <2>1, <2>3, RejectOK, ExplainedGotoStep DEF errs
<1>5. ASSUME NEW verdict \in Verdicts, Goto(Judge(Top, verdict)) PROVE EInv'
    BY <1>1, <1>5, ExplainedJudge
<1>6. CASE Call([Top EXCEPT !.pc = "session"], SessionFrame(Top, link))
    <2> DEFINE f == [Top EXCEPT !.pc = "session"]
               g == SessionFrame(Top, link)
    <2>1. f \in Frames /\ f.pc = "session" /\ f.cands = Top.cands /\ f.i = Top.i
          /\ f.j = Top.j /\ f.sources = Top.sources /\ f.errs = Top.errs /\ f.pool = Top.pool
          /\ f.kind = Top.kind /\ f.match = Top.match
        BY <1>2 DEF Frames
    <2>2. ExplainedFrame(f)
        BY <1>2, <2>1 DEF ExplainedFrame, Examined, Tried
    <2>3. g \in Frames /\ g.pc = "validate" /\ ExplainedFrame(g)
        BY <1>2, <1>3, SessionFrameOK, ExplainedSession DEF SessionFrame, ClaimFrame
    <2> HIDE DEF g
    <2>4. Call(f, g)
        BY <1>6 DEF g
    <2> QED BY <1>1, <2>1, <2>2, <2>3, <2>4, ExplainedCallStep
<1> QED BY <1>4, <1>5, <1>6, VerdictType DEF CheckNotBefore

LEMMA ExplainedSessionReturns ==
    ASSUME EInv, IInv', SessionReturns
    PROVE  EInv'
<1> DEFINE link == Top.cands[Top.i]
           att  == [proof |-> link, links |-> AuthLinks(ret.auth)]
<1>1. stage = "access" /\ stack # <<>> /\ Top.pc = "session"
      /\ UNCHANGED <<world, env, stage, start>> /\ ret' = NoReturn
    BY DEF SessionReturns, Running
<1>2. Top \in Frames /\ FrameOK(Top) /\ ExplainedFrame(Top) /\ world \in Worlds /\ ret \in Returns
    BY <1>1, ExplainedTop
<1>3. link \in Link /\ Top.i \in DOMAIN Top.cands
    BY <1>1, <1>2 DEF FrameOK, Frames
<1>4. CASE ret.is = "ok" /\ Goto(Accept(Top, {att}))
    <2>1. {att} \in SUBSET Attestations
        BY <1>2, <1>3, LinksType DEF Returns, Attestations
    <2> HIDE DEF att
    <2>2. Accept(Top, {att}) \in Frames
        BY <1>1, <1>2, <2>1, AcceptOK
    <2>3. ExplainedFrame(Accept(Top, {att})) /\ Accept(Top, {att}).cands = Top.cands
        BY <1>1, <1>2, <2>1, ExplainedAccept
    <2> QED BY <1>1, <1>4, <2>2, <2>3, ExplainedGotoStep
<1>5. CASE Goto(Reject(Top, SessionEscalation(link, ret.errs)))
    <2> DEFINE errs == SessionEscalation(link, ret.errs)
    <2>1. errs \in SUBSET Errors
        BY <1>2, <1>3, ErrorType DEF SessionEscalation, ErrorNames, Returns
    <2>2. ErrsExplained(ret.errs)
        BY <1>1 DEF EInv, ExplainedReturn
    <2>3. ErrsExplained(errs)
        BY <2>2, ExplainedOther, ExplainedUnion DEF SessionEscalation
    <2>4. Blames(errs, link)
        <3>1. Error(link, "SessionEscalation") \in errs
            BY DEF SessionEscalation
        <3> QED BY <3>1 DEF Blames, Error
    <2> HIDE DEF errs
    <2>5. ExplainedFrame(Reject(Top, errs)) /\ Reject(Top, errs).cands = Top.cands
        BY <1>2, <1>3, <2>3, <2>4, ExplainedReject
    <2> QED BY <1>1, <1>2, <1>5, <2>1, <2>5, RejectOK, ExplainedGotoStep DEF errs
<1>6. CASE Goto(Judge(Top, ResolvedVerdict(Dlg(link))))
    BY <1>1, <1>6, VerdictType, ExplainedJudge
<1> QED BY <1>4, <1>5, <1>6 DEF SessionReturns

LEMMA ExplainedTrySource ==
    ASSUME EInv, IInv', TrySource
    PROVE  EInv'
<1> DEFINE s == Top.sources[Top.j]
           m == Match(Top, s)
<1>1. stage = "access" /\ stack # <<>> /\ Top.pc = "validate" /\ Top.i > Len(Top.cands)
      /\ Top.j <= Len(Top.sources) /\ UNCHANGED <<world, env, stage, start>>
    BY DEF TrySource, Running
<1>2. Top \in Frames /\ FrameOK(Top) /\ ExplainedFrame(Top) /\ world \in Worlds
    BY <1>1, ExplainedTop
<1>3. Top.j \in DOMAIN Top.sources /\ s \in Sources
    BY <1>1, <1>2 DEF Frames
<1>4. m \in Sources
    BY <1>2, <1>3, MatchType DEF FrameOK
<1>5. CASE Goto(NextSource(Top, FALSE, SelectError(Top, s))) /\ UNCHANGED ret
    <2> DEFINE errs == SelectError(Top, s)
    <2>1. errs \in SUBSET Errors
        BY <1>3, SelectErrorType DEF Sources
    <2>2. ErrsExplained(errs)
        BY DEF SelectError, DelegationError, Error, ErrsExplained
    <2>3. Blames(errs, s.link)
        BY DEF SelectError, DelegationError, Error, Blames
    <2> HIDE DEF errs
    <2>4. ExplainedFrame(NextSource(Top, FALSE, errs))
          /\ NextSource(Top, FALSE, errs).cands = Top.cands
        BY <1>1, <1>2, <1>3, <2>2, <2>3, ExplainedNextSource
    <2> QED BY <1>1, <1>2, <1>5, <2>1, <2>4, NextSourceOK, ExplainedGotoStep DEF errs
<1>6. CASE Grant(Top, m, NoAuth)
    <2> DEFINE auth == Auth(<<m>> \o NoAuth.path, RelevantAttestations(Top, m) \cup NoAuth.atts)
    <2>1. NoAuth \in Auths
        BY DEF NoAuth, Auth, Auths
    <2>2. AuthLinks(auth) \subseteq Link
        BY <1>2, <1>4, <2>1, GrantedType
    <2> QED BY <1>1, <1>3, <1>6, <2>2, ExplainedGrant
<1>7. CASE Call([Top EXCEPT !.pc = "authorize"], AuthorizeFrame(Top.desc, m)) /\ UNCHANGED ret
    <2> DEFINE f == [Top EXCEPT !.pc = "authorize"]
               g == AuthorizeFrame(Top.desc, m)
    <2>1. f \in Frames /\ f.pc = "authorize" /\ f.cands = Top.cands /\ f.i = Top.i
          /\ f.j = Top.j /\ f.sources = Top.sources /\ f.errs = Top.errs /\ f.pool = Top.pool
          /\ f.kind = Top.kind /\ f.match = Top.match
        BY <1>2 DEF Frames
    <2>2. ExplainedFrame(f)
        BY <1>1, <1>2, <2>1 DEF ExplainedFrame, Examined, Tried
    <2>3. Top.desc \in Descriptor
        BY <1>2 DEF Frames
    <2>4. g \in Frames /\ g.pc = "validate" /\ ExplainedFrame(g)
        BY <1>2, <1>4, <2>3, AuthorizeFrameOK, ExplainedAuthorize DEF AuthorizeFrame, ClaimFrame
    <2> HIDE DEF g
    <2>5. Call(f, g)
        BY <1>7 DEF g
    <2> QED BY <1>1, <1>7, <2>1, <2>2, <2>4, <2>5, ExplainedCallStep
<1> QED BY <1>5, <1>6, <1>7 DEF TrySource

LEMMA ExplainedAuthorizeReturns ==
    ASSUME EInv, IInv', AuthorizeReturns
    PROVE  EInv'
<1> DEFINE s == Top.sources[Top.j]
           m == Match(Top, s)
<1>1. stage = "access" /\ stack # <<>> /\ Top.pc = "authorize"
      /\ UNCHANGED <<world, env, stage, start>>
    BY DEF AuthorizeReturns, Running
<1>2. Top \in Frames /\ FrameOK(Top) /\ ExplainedFrame(Top) /\ world \in Worlds /\ ret \in Returns
      /\ Top = Last(stack)
    BY <1>1, ExplainedTop
<1>3. Top.j \in DOMAIN Top.sources /\ s \in Sources /\ Top.i > Len(Top.cands)
    BY <1>1, <1>2 DEF FrameOK, Frames, ExplainedFrame
<1>4. m \in Sources /\ m.link = s.link
    BY <1>2, <1>3, MatchType DEF FrameOK
<1>5. CASE ret.is = "ok" /\ Grant(Top, m, ret.auth)
    <2> DEFINE auth == Auth(<<m>> \o ret.auth.path, RelevantAttestations(Top, m) \cup ret.auth.atts)
    <2>1. AuthLinks(auth) \subseteq Link
        BY <1>2, <1>4, GrantedType DEF Returns
    <2> QED BY <1>1, <1>3, <1>5, <2>1, ExplainedGrant
<1>6. CASE /\ ret.is = "fail" /\ ret' = NoReturn
           /\ Goto(NextSource(Top, TRUE, InvalidClaim(m.link, ret.errs)))
    <2> DEFINE errs == InvalidClaim(m.link, ret.errs)
    <2>1. errs \in SUBSET Errors
        BY <1>2, <1>4, ErrorType DEF InvalidClaim, ErrorNames, Returns, Sources
    <2>2. ErrsExplained(ret.errs) /\ BlamesProofs(ret.errs, m.link)
        BY <1>1, <1>2, <1>6 DEF EInv, ExplainedReturn
    <2>3. ErrsExplained(errs)
        BY <2>2, ExplainedClaim
    <2>4. Blames(errs, s.link)
        <3>1. Error(m.link, "InvalidClaim") \in errs
            BY DEF InvalidClaim
        <3> QED BY <1>4, <3>1 DEF Blames, Error
    <2> HIDE DEF errs
    <2>5. ExplainedFrame(NextSource(Top, TRUE, errs))
          /\ NextSource(Top, TRUE, errs).cands = Top.cands
        BY <1>2, <1>3, <2>3, <2>4, ExplainedNextSource
    <2> QED BY <1>1, <1>2, <1>6, <2>1, <2>5, NextSourceOK, ExplainedGotoStep DEF errs
<1> QED BY <1>5, <1>6 DEF AuthorizeReturns

\* A call that is through with its proofs and sources blames all its proofs.
LEMMA ExhaustedBlames ==
    ASSUME world \in Worlds, NEW f \in Frames, FrameOK(f), ExplainedFrame(f),
           f.i > Len(f.cands), f.j > Len(f.sources)
    PROVE  /\ \A p \in Range(f.cands) \cap f.pool :
                  Dlg(p).caps # <<>> => Tried(f, p)
           /\ f.kind = "authorize" => BlamesProofs(f.errs, f.match.link)
<1>1. /\ DOMAIN f.cands = 1..Len(f.cands) /\ Len(f.cands) \in Nat /\ f.i \in Nat
      /\ DOMAIN f.sources = 1..Len(f.sources) /\ Len(f.sources) \in Nat /\ f.j \in Nat
    BY DEF Frames
<1>2. ASSUME NEW p \in Range(f.cands) \cap f.pool, Dlg(p).caps # <<>>
      PROVE  Tried(f, p)
    <2>1. PICK k \in DOMAIN f.cands : f.cands[k] = p
        BY DEF Range
    <2>2. Examined(f, p)
        BY <1>1, <2>1 DEF ExplainedFrame
    <2>3. \A n \in DOMAIN f.sources : Tried(f, f.sources[n].link)
        BY <1>1 DEF ExplainedFrame
    <2> QED BY <1>2, <2>2, <2>3 DEF Examined, Tried
<1>3. ASSUME f.kind = "authorize" PROVE BlamesProofs(f.errs, f.match.link)
    BY <1>2, <1>3 DEF ExplainedFrame, BlamesProofs, Tried
<1> QED BY <1>2, <1>3

LEMMA ExplainedExhausted ==
    ASSUME EInv, IInv', Exhausted
    PROVE  EInv'
<1>1. stage = "access" /\ stack # <<>> /\ stack' = Front(stack)
      /\ ret' = Denied(Top.failed, Top.errs) /\ UNCHANGED <<world, env, stage, start>>
      /\ Top.i > Len(Top.cands) /\ Top.j > Len(Top.sources)
    BY DEF Exhausted, Running, Return
<1>2. stack \in Seq(Frames) /\ Top = Last(stack) /\ StackOK(stack)
      /\ Top \in Frames /\ FrameOK(Top) /\ ExplainedFrame(Top) /\ world \in Worlds
    BY <1>1, ExplainedTop DEF EInv, IInv
<1>3. ExplainedStack(stack')
    BY <1>1, <1>2, ExplainedPop DEF EInv
<1>4. ret'.is = "fail" /\ ret'.errs = Top.errs
    BY <1>1 DEF Denied
<1>5. /\ \A p \in Range(Top.cands) \cap Top.pool : Dlg(p).caps # <<>> => Tried(Top, p)
      /\ Top.kind = "authorize" => BlamesProofs(Top.errs, Top.match.link)
    BY <1>1, <1>2, ExhaustedBlames
<1>6. ASSUME stack' = <<>>, Dlg(world.root).caps # <<>>
      PROVE  Blames(Top.errs, world.root) \/ SomeRevoked(Top.errs)
    <2>1. Top.cands = <<world.root>> /\ Top.pool = {world.root}
        BY <1>1, <1>2, <1>6, PopOK, ExplainedPop DEF EInv, BaseOK
    <2>2. world.root \in Range(Top.cands) \cap Top.pool
        <3>1. 1 \in DOMAIN Top.cands /\ Top.cands[1] = world.root
            BY <2>1
        <3> QED BY <2>1, <3>1 DEF Range
    <2> QED BY <1>5, <1>6, <2>2 DEF Tried
<1>7. ASSUME stack' # <<>>, Last(stack').pc = "authorize"
      PROVE  BlamesProofs(Top.errs, Match(Last(stack'), Last(stack').sources[Last(stack').j]).link)
    <2>1. CallOK(Last(stack'), Top)
        BY <1>1, <1>2, <1>7, PopOK
    <2> QED BY <1>5, <1>7, <2>1 DEF CallOK
<1>8. ExplainedReturn(stack', ret')
    BY <1>2, <1>4, <1>6, <1>7 DEF ExplainedReturn, ExplainedFrame
<1> QED BY <1>1, <1>3, <1>4, <1>8, ExplainedSearch

\* Steps that leave the search alone, or end it.
LEMMA ExplainedOtherwise ==
    ASSUME EInv, IInv', SessionPanics \/ Answer \/ Tick \/ Revoke \/ UNCHANGED vars
    PROVE  EInv'
<1>1. CASE SessionPanics
    <2>1. UNCHANGED world /\ stack' = <<>> /\ stage' = "crashed"
        BY <1>1 DEF SessionPanics
    <2>2. ExplainedStack(stack')
        BY <2>1 DEF ExplainedStack
    <2>3. ExplainedStage'
        BY <2>1 DEF ExplainedStage
    <2> QED BY <2>1, <2>2, <2>3, ExplainedSame DEF EInv
<1>2. CASE Answer
    <2>1. UNCHANGED <<world, stack, ret>> /\ stage' \in {"handled", "unauthorized"}
          /\ (stage' = "unauthorized" => ret.is = "fail") /\ stage = "access"
        BY <1>2 DEF Answer, EInv, ExplainedStage, IInv, TypeOK
    <2>2. ExplainedStage'
        BY <2>1 DEF ExplainedStage
    <2> QED BY <2>1, <2>2, ExplainedSame DEF EInv
<1>3. CASE Tick \/ Revoke \/ UNCHANGED vars
    <2>1. UNCHANGED <<world, stage, stack, ret>>
        BY <1>3 DEF Tick, Revoke, vars
    <2>2. ExplainedStage'
        BY <2>1 DEF EInv, ExplainedStage
    <2> QED BY <2>1, <2>2, ExplainedSame DEF EInv
<1> QED BY <1>1, <1>2, <1>3

LEMMA ExplainedInit == Init => EInv
<1> SUFFICES ASSUME Init PROVE EInv
    OBVIOUS
<1>1. ExplainedStack(stack) /\ ExplainedReturn(stack, ret) /\ ExplainedStage
    BY ExplainedNoReturn DEF Init, ExplainedStack, ExplainedStage
<1> QED BY <1>1, InitInv DEF EInv

LEMMA ExplainedStep == EInv /\ [Next]_vars => EInv'
<1> SUFFICES ASSUME EInv, [Next]_vars PROVE EInv'
    OBVIOUS
<1>1. IInv'
    BY StepInv DEF EInv
<1> QED BY <1>1, ExplainedProvide, ExplainedCheckExpired, ExplainedCheckNotBefore,
           ExplainedSessionReturns, ExplainedTrySource, ExplainedAuthorizeReturns,
           ExplainedExhausted, ExplainedOtherwise DEF Next, Serve

\* A refusal leaves out no proof that could have made the claim: it names the
\* invocation, and below each claim that came to nothing every proof with a
\* capability, however the calls nest (validator/lib.go 244-248, 258-317, 483-508).
THEOREM RefusalIsExplained == Spec => []RefusalExplained
<1>1. EInv => RefusalExplained
    BY DEF EInv, IInv, TypeOK, ExplainedStage, ExplainedReturn, ErrsExplained, BlamesProofs,
           Blames, SomeRevoked, Refused, RefusalExplained
<1> QED BY <1>1, ExplainedInit, ExplainedStep, PTL DEF Spec

----------------------------------------------------------------------------
(* The search ends: each call considers less than its caller.              *)

Closed(S) == \A l \in S : Range(Dlg(l).prfs) \subseteq S

\* The proofs of a pool, their proofs, and so on.
Below(pool) ==
    {l \in Link : \A S \in SUBSET Link : pool \subseteq S /\ Closed(S) => l \in S}

\* What a call with this pool still has before it: first of all what is below its
\* pool, which a call to Authorize lessens, then the pool, which a session does.
Weight(pool) == Cardinality(Link) * Cardinality(Below(pool)) + Cardinality(pool)

\* A call and those under it on the stack fit in the bound with what is before it.
ShallowStack(st) ==
    \A k \in 1..Len(st) :
        k + Weight(st[k].pool) <= Cardinality(Link) * Cardinality(Link) + 2

DInv == IInv /\ ShallowStack(stack)

LEMMA BelowClosed ==
    ASSUME world \in Worlds, NEW pool \in SUBSET Link
    PROVE  pool \subseteq Below(pool) /\ Below(pool) \subseteq Link /\ Closed(Below(pool))
<1>1. pool \subseteq Below(pool) /\ Below(pool) \subseteq Link
    BY DEF Below
<1>2. ASSUME NEW l \in Below(pool), NEW p \in Range(Dlg(l).prfs) PROVE p \in Below(pool)
    <2>1. p \in Link
        BY <1>2, DlgType DEF Below
    <2>2. ASSUME NEW S \in SUBSET Link, pool \subseteq S, Closed(S) PROVE p \in S
        BY <1>2, <2>2 DEF Below, Closed
    <2> QED BY <2>1, <2>2 DEF Below
<1> QED BY <1>1, <1>2 DEF Closed

LEMMA BelowLeast ==
    ASSUME NEW pool, NEW S \in SUBSET Link, pool \subseteq S, Closed(S)
    PROVE  Below(pool) \subseteq S
BY DEF Below

\* No delegation is below its own proofs.
LEMMA NotBelowItself ==
    ASSUME world \in Worlds, NEW link \in Link
    PROVE  link \notin Below(Range(Dlg(link).prfs))
<1> DEFINE Prfs(l) == Range(Dlg(l).prfs)
           S == {l \in Link : link \in Below(Prfs(l))}
<1>1. ASSUME link \in Below(Prfs(link)) PROVE FALSE
    <2>1. PICK l \in S : Prfs(l) \cap S = {}
        <3>1. S \in SUBSET Link /\ S # {}
            BY <1>1
        <3> HIDE DEF S
        <3> QED BY <3>1, AcyclicAssumption DEF Dlg
    <2>2. \A p \in Prfs(l) : p \in Link /\ p # link /\ link \notin Below(Prfs(p))
        BY <1>1, <2>1, DlgType
    <2> DEFINE T == Prfs(l) \cup UNION {Below(Prfs(p)) : p \in Prfs(l)}
    <2>3. \A p \in Prfs(l) : Prfs(p) \subseteq Below(Prfs(p)) /\ Below(Prfs(p)) \subseteq Link
                            /\ Closed(Below(Prfs(p)))
        BY <2>2, DlgType, BelowClosed
    <2> HIDE DEF S
    <2>4. T \in SUBSET Link /\ Prfs(l) \subseteq T /\ Closed(T)
        BY <2>2, <2>3 DEF Closed
    <2>5. Below(Prfs(l)) \subseteq T
        BY <2>4, BelowLeast
    <2> QED BY <2>1, <2>2, <2>5 DEF S
<1> QED BY <1>1

LEMMA Sizes ==
    ASSUME NEW S \in SUBSET Link
    PROVE  /\ IsFiniteSet(S) /\ Cardinality(S) \in Nat
           /\ Cardinality(S) <= Cardinality(Link) /\ Cardinality(Link) \in Nat
<1>1. IsFiniteSet(Link)
    BY ConstantsAssumption
<1> QED BY <1>1, FS_Subset, FS_CardinalityType

LEMMA StrictlySmaller ==
    ASSUME NEW S \in SUBSET Link, NEW T, T \subseteq S, NEW l \in S, l \notin T
    PROVE  Cardinality(T) + 1 <= Cardinality(S)
<1>1. IsFiniteSet(S) /\ Cardinality(S) \in Nat /\ IsFiniteSet(S \ {l})
    BY Sizes, FS_Subset
<1>2. Cardinality(S \ {l}) = Cardinality(S) - 1
    BY <1>1, FS_RemoveElement
<1>3. T \subseteq S \ {l}
    OBVIOUS
<1>4. Cardinality(T) <= Cardinality(S \ {l})
    BY <1>1, <1>3, FS_Subset
<1>5. Cardinality(T) \in Nat
    BY <1>1, <1>3, FS_Subset, FS_CardinalityType
<1> QED BY <1>1, <1>2, <1>4, <1>5

\* A call of Authorize for a delegation of the pool.
LEMMA AuthorizeLighter ==
    ASSUME world \in Worlds, NEW pool \in SUBSET Link, NEW link \in pool
    PROVE  Weight(ResolveProofs(link)) + 1 <= Weight(pool)
<1> DEFINE next == ResolveProofs(link)
           prfs == Range(Dlg(link).prfs)
           A == Below(pool)
           B == Below(next)
<1>1. next \subseteq prfs /\ prfs \subseteq Link /\ link \in Link
    BY DlgType DEF ResolveProofs
<1>2. A \subseteq Link /\ Closed(A) /\ link \in A
    BY BelowClosed
<1>3. next \subseteq A
    BY <1>1, <1>2 DEF Closed
<1>4. B \subseteq A
    BY <1>2, <1>3, BelowLeast
<1>5. link \notin B
    <2>1. Closed(Below(prfs)) /\ prfs \subseteq Below(prfs) /\ Below(prfs) \subseteq Link
        BY <1>1, BelowClosed
    <2>2. B \subseteq Below(prfs)
        BY <1>1, <2>1, BelowLeast
    <2> QED BY <1>1, <2>2, NotBelowItself
<1>6. next \subseteq B
    BY <1>1, BelowClosed
<1>7. Cardinality(B) + 1 <= Cardinality(A)
    BY <1>2, <1>4, <1>5, StrictlySmaller
<1>8. Cardinality(next) <= Cardinality(B)
    <2>1. IsFiniteSet(B)
        BY <1>2, <1>4, Sizes
    <2> QED BY <1>6, <2>1, FS_Subset
<1>9. /\ Cardinality(A) \in Nat /\ Cardinality(A) <= Cardinality(Link) /\ Cardinality(Link) \in Nat
      /\ Cardinality(B) \in Nat /\ Cardinality(next) \in Nat /\ Cardinality(pool) \in Nat
    BY <1>1, <1>2, <1>4, Sizes
<1> HIDE DEF A, B, next
<1>10. ASSUME NEW n \in Nat, NEW a \in Nat, NEW b \in Nat, NEW c \in Nat, NEW d \in Nat,
              a <= n, b + 1 <= a, c <= b
       PROVE  n * b + c + 1 <= n * a + d
    <2>1. n * (b + 1) <= n * a
        BY <1>10
    <2>2. n * (b + 1) = n * b + n
        BY <1>10
    <2>3. n * b \in Nat /\ n * a \in Nat
        BY <1>10
    <2> QED BY <1>10, <2>1, <2>2, <2>3
<1> QED BY <1>7, <1>8, <1>9, <1>10 DEF Weight, A, B, next

\* A pool without one of its proofs.
LEMMA SmallerPool ==
    ASSUME world \in Worlds, NEW pool \in SUBSET Link, NEW link \in pool,
           NEW next, next \subseteq pool, link \notin next
    PROVE  Weight(next) + 1 <= Weight(pool)
<1> DEFINE A == Below(pool)
           B == Below(next)
<1>1. pool \subseteq Link /\ next \subseteq Link
    OBVIOUS
<1>2. Cardinality(next) + 1 <= Cardinality(pool)
    BY <1>1, StrictlySmaller
<1>3. B \subseteq A /\ A \subseteq Link
    BY <1>1, BelowClosed, BelowLeast
<1>4. Cardinality(B) <= Cardinality(A)
    <2>1. IsFiniteSet(A)
        BY <1>3, Sizes
    <2> QED BY <1>3, <2>1, FS_Subset
<1>5. /\ Cardinality(A) \in Nat /\ Cardinality(Link) \in Nat
      /\ Cardinality(B) \in Nat /\ Cardinality(next) \in Nat /\ Cardinality(pool) \in Nat
    BY <1>1, <1>3, Sizes
<1> HIDE DEF A, B
<1>6. ASSUME NEW n \in Nat, NEW a \in Nat, NEW b \in Nat, b <= a
      PROVE  n * b <= n * a /\ n * b \in Nat /\ n * a \in Nat
    BY <1>6
<1>7. /\ Cardinality(Link) * Cardinality(B) <= Cardinality(Link) * Cardinality(A)
      /\ Cardinality(Link) * Cardinality(B) \in Nat /\ Cardinality(Link) * Cardinality(A) \in Nat
    BY <1>4, <1>5, <1>6
<1> QED BY <1>2, <1>5, <1>7 DEF Weight, A, B

\* A call of Claim for an attestation of a delegation of the pool.
LEMMA SessionLighter ==
    ASSUME world \in Worlds, NEW f \in Frames, NEW link \in f.pool
    PROVE  Weight(SessionFrame(f, link).pool) + 1 <= Weight(f.pool)
<1> DEFINE next == SessionFrame(f, link).pool
<1>1. f.pool \in SUBSET Link /\ next \subseteq f.pool /\ link \notin next
    BY DEF SessionFrame, ClaimFrame, Frames
<1> HIDE DEF next
<1>2. Weight(next) + 1 <= Weight(f.pool)
    BY <1>1, SmallerPool
<1> QED BY <1>2 DEF next

LEMMA WeightType ==
    ASSUME world \in Worlds, NEW pool \in SUBSET Link
    PROVE  Weight(pool) \in Nat /\ Cardinality(Link) * Cardinality(Link) \in Nat
<1>1. Below(pool) \subseteq Link
    BY DEF Below
<1>2. Cardinality(Link) \in Nat /\ Cardinality(Below(pool)) \in Nat /\ Cardinality(pool) \in Nat
    BY <1>1, Sizes
<1>3. \A n, b \in Nat : n * b \in Nat
    OBVIOUS
<1> QED BY <1>2, <1>3 DEF Weight

LEMMA RootWeight ==
    ASSUME world \in Worlds, NEW link \in Link
    PROVE  1 + Weight({link}) <= Cardinality(Link) * Cardinality(Link) + 2
<1> DEFINE A == Below({link})
<1>1. A \subseteq Link
    BY DEF Below
<1>2. /\ Cardinality(Link) \in Nat /\ Cardinality(A) \in Nat
      /\ Cardinality(A) <= Cardinality(Link)
    BY <1>1, Sizes
<1>3. Cardinality({link}) = 1
    BY FS_Singleton
<1> HIDE DEF A
<1>4. ASSUME NEW n \in Nat, NEW a \in Nat, a <= n
      PROVE  n * a <= n * n /\ n * a \in Nat /\ n * n \in Nat
    BY <1>4
<1>5. /\ Cardinality(Link) * Cardinality(A) <= Cardinality(Link) * Cardinality(Link)
      /\ Cardinality(Link) * Cardinality(A) \in Nat /\ Cardinality(Link) * Cardinality(Link) \in Nat
    BY <1>2, <1>4
<1> QED BY <1>3, <1>5 DEF Weight, A

\* What the frame operations leave alone.
LEMMA SamePool ==
    ASSUME NEW f \in Frames
    PROVE  /\ \A errs : Reject(f, errs).pool = f.pool
           /\ \A atts : Accept(f, atts).pool = f.pool
           /\ \A verdict : Judge(f, verdict).pool = f.pool
           /\ \A failed, errs : NextSource(f, failed, errs).pool = f.pool
           /\ \A pc : [f EXCEPT !.pc = pc].pool = f.pool
BY DEF Frames, Reject, Accept, Judge, NextSource

LEMMA ShallowGoto ==
    ASSUME NEW st \in Seq(Frames), st # <<>>, ShallowStack(st),
           NEW g \in Frames, g.pool = Last(st).pool
    PROVE  ShallowStack([st EXCEPT ![Len(st)] = g])
<1> DEFINE n  == Len(st)
           tt == [st EXCEPT ![n] = g]
<1>1. /\ n \in Nat \ {0} /\ Last(st) = st[n] /\ Len(tt) = n /\ tt[n] = g
      /\ \A k \in 1..n - 1 : tt[k] = st[k]
    BY DEF Last
<1>2. n = Len(st)
    OBVIOUS
<1> HIDE DEF n, tt
<1>3. \A k \in 1..n : tt[k].pool = st[k].pool
    BY <1>1
<1>4. ShallowStack(tt)
    BY <1>1, <1>2, <1>3 DEF ShallowStack
<1> QED BY <1>4 DEF tt, n

LEMMA ShallowPush ==
    ASSUME NEW st, st \in Seq(Frames), st # <<>>, ShallowStack(st), NEW g \in Frames,
           Weight(g.pool) + 1 <= Weight(Last(st).pool), world \in Worlds
    PROVE  ShallowStack(Append(st, g))
<1> DEFINE n  == Len(st)
           tt == Append(st, g)
           B  == Cardinality(Link) * Cardinality(Link) + 2
<1>1. n = Len(st) /\ n \in Nat \ {0} /\ DOMAIN st = 1..n /\ st[n] \in Frames
    OBVIOUS
<1>2. /\ Last(st) = st[n] /\ Len(tt) = n + 1 /\ tt[n + 1] = g
      /\ \A k \in 1..n : tt[k] = st[k]
    BY <1>1 DEF Last
<1>3. g.pool \subseteq Link /\ st[n].pool \subseteq Link
    BY <1>1 DEF Frames
<1>4. Weight(g.pool) \in Nat /\ Weight(st[n].pool) \in Nat /\ B \in Nat
    BY <1>3, WeightType
<1> HIDE DEF n, tt, B
<1>5. \A k \in 1..n : k + Weight(st[k].pool) <= B
    BY <1>1 DEF ShallowStack, B
<1>6. n + 1 + Weight(g.pool) <= B
    <2>1. n + Weight(st[n].pool) <= B
        BY <1>1, <1>5
    <2> QED BY <1>1, <1>2, <1>4, <2>1
<1>7. ASSUME NEW k \in 1..n + 1 PROVE k + Weight(tt[k].pool) <= B
    <2>1. CASE k = n + 1
        BY <1>2, <1>6, <2>1
    <2>2. CASE k # n + 1
        <3>1. k \in 1..n
            BY <1>1, <2>2
        <3> QED BY <1>2, <1>5, <3>1
    <2> QED BY <2>1, <2>2
<1>8. ShallowStack(tt)
    BY <1>2, <1>7 DEF ShallowStack, B
<1> QED BY <1>8 DEF tt

LEMMA ShallowPop ==
    ASSUME NEW st, st \in Seq(Frames), st # <<>>, ShallowStack(st)
    PROVE  ShallowStack(Front(st))
<1> DEFINE n  == Len(st)
           tt == Front(st)
<1>1. n = Len(st) /\ n \in Nat \ {0}
    OBVIOUS
<1>2. Len(tt) = n - 1 /\ \A k \in 1..n - 1 : tt[k] = st[k]
    BY <1>1 DEF Front
<1> HIDE DEF n, tt
<1>3. ShallowStack(tt)
    BY <1>1, <1>2 DEF ShallowStack
<1> QED BY <1>3 DEF tt

\* A step of the search, as far as the stack goes.
LEMMA ShallowCall ==
    ASSUME DInv, stack # <<>>, NEW f \in Frames, f.pool = Top.pool,
           NEW g \in Frames, Weight(g.pool) + 1 <= Weight(Top.pool), Call(f, g)
    PROVE  ShallowStack(stack')
<1> DEFINE st == [stack EXCEPT ![Len(stack)] = f]
<1>1. stack \in Seq(Frames) /\ Top = Last(stack) /\ world \in Worlds /\ stack' = Append(st, g)
    BY DEF DInv, IInv, TypeOK, Top, Call
<1>2. ShallowStack(st)
    BY <1>1, ShallowGoto DEF DInv
<1>3. st \in Seq(Frames) /\ st # <<>> /\ Last(st) = f
    BY <1>1 DEF Last
<1> HIDE DEF st
<1> QED BY <1>1, <1>2, <1>3, ShallowPush

LEMMA ShallowReturn ==
    ASSUME DInv, IInv', stack # <<>>,
           (\E g : g.pool = Top.pool /\ Goto(g)) \/ stack' = Front(stack)
    PROVE  ShallowStack(stack')
<1>1. stack \in Seq(Frames) /\ stack' \in Seq(Frames) /\ Top = Last(stack)
    BY DEF DInv, IInv, TypeOK, Top
<1>2. ASSUME NEW g, g.pool = Top.pool, Goto(g) PROVE ShallowStack(stack')
    <2>1. stack' = [stack EXCEPT ![Len(stack)] = g]
        BY <1>2 DEF Goto
    <2>2. Len(stack) \in DOMAIN stack /\ DOMAIN stack' = DOMAIN stack /\ stack'[Len(stack)] = g
        BY <1>1, <2>1
    <2>3. g \in Frames
        BY <1>1, <2>2
    <2> QED BY <1>1, <1>2, <2>1, <2>3, ShallowGoto DEF DInv
<1> QED BY <1>1, <1>2, ShallowPop DEF DInv

LEMMA ShallowProvide ==
    ASSUME DInv, Provide
    PROVE  ShallowStack(stack')
<1> DEFINE f == ClaimFrame(Provided, <<world.root>>, {world.root})
<1>1. CASE stack' = <<f>>
    <2>1. world \in Worlds /\ world.root \in Link
        BY ConstantsAssumption DEF DInv, IInv, IsWorld
    <2>2. f.pool = {world.root}
        BY DEF ClaimFrame
    <2> HIDE DEF f
    <2>3. Len(stack') = 1 /\ stack'[1] = f
        BY <1>1
    <2>4. 1 + Weight({world.root}) <= Cardinality(Link) * Cardinality(Link) + 2
        BY <2>1, RootWeight
    <2> QED BY <2>2, <2>3, <2>4 DEF ShallowStack
<1>2. CASE stack' = stack
    BY <1>2 DEF DInv
<1> QED BY <1>1, <1>2 DEF Provide

LEMMA ShallowValidate ==
    ASSUME DInv, IInv', CheckExpired \/ CheckNotBefore \/ SessionReturns
    PROVE  ShallowStack(stack')
<1> DEFINE link == Top.cands[Top.i]
<1>1. stack # <<>> /\ world \in Worlds /\ StackOK(stack)
      /\ Top.pc \in {"validate", "notBefore", "session"}
    BY DEF CheckExpired, CheckNotBefore, SessionReturns, Running, DInv, IInv
<1>2. Top \in Frames /\ FrameOK(Top)
    BY <1>1, TopOK
<1>3. CASE CheckExpired \/ SessionReturns
    <2>1. \E g : g.pool = Top.pool /\ Goto(g)
        BY <1>2, <1>3, SamePool DEF CheckExpired, SessionReturns
    <2> QED BY <1>1, <2>1, ShallowReturn
<1>4. CASE CheckNotBefore
    <2>1. CASE Call([Top EXCEPT !.pc = "session"], SessionFrame(Top, link))
        <3> DEFINE f == [Top EXCEPT !.pc = "session"]
                   g == SessionFrame(Top, link)
        <3>1. f \in Frames /\ f.pool = Top.pool
            BY <1>2 DEF Frames
        <3>2. link \in Top.pool /\ link \in Link
            BY <1>2, <1>4 DEF FrameOK, Frames, CheckNotBefore, Running
        <3>3. g \in Frames /\ Weight(g.pool) + 1 <= Weight(Top.pool)
            BY <1>1, <1>2, <3>2, SessionFrameOK, SessionLighter
        <3> HIDE DEF g
        <3>4. Call(f, g)
            BY <2>1 DEF g
        <3> QED BY <1>1, <3>1, <3>3, <3>4, ShallowCall
    <2>2. CASE \E g : g.pool = Top.pool /\ Goto(g)
        BY <1>1, <2>2, ShallowReturn
    <2> QED BY <1>2, <1>4, <2>1, <2>2, SamePool DEF CheckNotBefore
<1> QED BY <1>3, <1>4

LEMMA ShallowGrant ==
    ASSUME DInv, IInv', stack # <<>>, NEW m, NEW sub, Grant(Top, m, sub)
    PROVE  ShallowStack(stack')
<1>1. Top \in Frames
    BY TopOK DEF DInv, IInv
<1>2. \/ \E link : Goto(NextSource(Top, FALSE, Revoked(link)))
      \/ stack' = Front(stack)
    BY DEF Grant, Return
<1>3. \A failed, errs : NextSource(Top, failed, errs).pool = Top.pool
    BY <1>1, SamePool
<1>4. (\E g : g.pool = Top.pool /\ Goto(g)) \/ stack' = Front(stack)
    BY <1>2, <1>3
<1> QED BY <1>4, ShallowReturn

LEMMA ShallowTry ==
    ASSUME DInv, IInv', TrySource \/ AuthorizeReturns \/ Exhausted
    PROVE  ShallowStack(stack')
<1>1. stack # <<>> /\ world \in Worlds /\ StackOK(stack)
    BY DEF TrySource, AuthorizeReturns, Exhausted, Running, DInv, IInv
<1>2. Top \in Frames /\ FrameOK(Top)
    BY <1>1, TopOK
<1>3. CASE \E m, sub : Grant(Top, m, sub)
    BY <1>1, <1>3, ShallowGrant
<1>4. CASE (\E g : g.pool = Top.pool /\ Goto(g)) \/ stack' = Front(stack)
    BY <1>1, <1>4, ShallowReturn
<1>5. CASE TrySource
    <2> DEFINE s == Top.sources[Top.j]
               m == Match(Top, s)
    <2>1. Top.j \in DOMAIN Top.sources /\ s \in Sources /\ Top.desc \in Descriptor
        BY <1>2, <1>5 DEF TrySource, Frames
    <2>2. m \in Sources /\ m.link \in Top.pool
        BY <1>2, <2>1, MatchType DEF FrameOK
    <2>3. CASE Call([Top EXCEPT !.pc = "authorize"], AuthorizeFrame(Top.desc, m))
        <3> DEFINE f == [Top EXCEPT !.pc = "authorize"]
                   g == AuthorizeFrame(Top.desc, m)
        <3>1. f \in Frames /\ f.pool = Top.pool /\ Top.pool \in SUBSET Link
            BY <1>2 DEF Frames
        <3>2. g \in Frames /\ g.pool = ResolveProofs(m.link)
            BY <1>1, <2>1, <2>2, AuthorizeFrameOK DEF AuthorizeFrame, ClaimFrame
        <3>3. Weight(g.pool) + 1 <= Weight(Top.pool)
            BY <1>1, <2>2, <3>1, <3>2, AuthorizeLighter
        <3> HIDE DEF g
        <3>4. Call(f, g)
            BY <2>3 DEF g
        <3> QED BY <1>1, <3>1, <3>2, <3>3, <3>4, ShallowCall
    <2>4. \A failed, errs : NextSource(Top, failed, errs).pool = Top.pool
        BY <1>2, SamePool
    <2>5. \/ Goto(NextSource(Top, FALSE, SelectError(Top, s)))
          \/ Grant(Top, m, NoAuth)
          \/ Call([Top EXCEPT !.pc = "authorize"], AuthorizeFrame(Top.desc, m))
        BY <1>5 DEF TrySource
    <2> QED BY <1>3, <1>4, <2>3, <2>4, <2>5
<1>6. CASE AuthorizeReturns
    <2> DEFINE m == Match(Top, Top.sources[Top.j])
    <2>1. \A failed, errs : NextSource(Top, failed, errs).pool = Top.pool
        BY <1>2, SamePool
    <2>2. \/ Grant(Top, m, ret.auth)
          \/ Goto(NextSource(Top, TRUE, InvalidClaim(m.link, ret.errs)))
        BY <1>6 DEF AuthorizeReturns
    <2> QED BY <1>3, <1>4, <2>1, <2>2
<1>7. CASE Exhausted
    BY <1>4, <1>7 DEF Exhausted, Return
<1> QED BY <1>5, <1>6, <1>7

LEMMA ShallowOtherwise ==
    ASSUME DInv, SessionPanics \/ Answer \/ Tick \/ Revoke \/ UNCHANGED vars
    PROVE  ShallowStack(stack')
<1>1. stack' = stack \/ stack' = <<>>
    BY DEF SessionPanics, Answer, Tick, Revoke, vars
<1> QED BY <1>1 DEF DInv, ShallowStack

LEMMA ShallowStep == DInv /\ [Next]_vars => DInv'
<1> SUFFICES ASSUME DInv, [Next]_vars PROVE DInv'
    OBVIOUS
<1>1. IInv'
    BY StepInv DEF DInv
<1>2. UNCHANGED world
    BY DEF Next, Serve, vars, Provide, CheckExpired, CheckNotBefore, SessionPanics,
       SessionReturns, TrySource, AuthorizeReturns, Exhausted, Answer, Tick, Revoke
<1>3. ShallowStack(stack')
    BY <1>1, ShallowProvide, ShallowValidate, ShallowTry, ShallowOtherwise DEF Next, Serve
<1>4. \A pool : Weight(pool)' = Weight(pool)
    BY <1>2 DEF Weight, Below, Closed, Dlg
<1>5. ShallowStack(stack)'
    BY <1>3, <1>4 DEF ShallowStack
<1> QED BY <1>1, <1>5 DEF DInv

\* The search for proofs of proofs and for attestations of attestations ends, for
\* all delegation graphs: a call of Authorize leaves less below its pool, a session
\* less in it (validator/lib.go 464-477, 483-508).
THEOREM SearchIsShallow == Spec => []DepthBounded
<1>1. ASSUME DInv PROVE DepthBounded
    <2>1. CASE stack = <<>>
        <3>1. Cardinality(Link) \in Nat
            BY Sizes
        <3>2. Cardinality(Link) * Cardinality(Link) \in Nat
            BY <3>1
        <3> QED BY <2>1, <3>2 DEF DepthBounded
    <2>2. CASE stack # <<>>
        <3> DEFINE n == Len(stack)
        <3>1. stack \in Seq(Frames) /\ n \in 1..Len(stack) /\ stack[n] \in Frames /\ world \in Worlds
            BY <1>1, <2>2 DEF DInv, IInv, TypeOK
        <3>2. Weight(stack[n].pool) \in Nat /\ Cardinality(Link) * Cardinality(Link) \in Nat
            BY <3>1, WeightType DEF Frames
        <3>3. n + Weight(stack[n].pool) <= Cardinality(Link) * Cardinality(Link) + 2
            BY <1>1, <3>1 DEF DInv, ShallowStack
        <3> QED BY <3>1, <3>2, <3>3 DEF DepthBounded
    <2> QED BY <2>1, <2>2
<1>2. Init => DInv
    BY InitInv DEF Init, DInv, ShallowStack
<1> QED BY <1>1, <1>2, ShallowStep, PTL DEF Spec
=============================================================================
