------------------------- MODULE ValidatorReference -------------------------
(***************************************************************************)
(* What Access decides, stated without a search: which sets of delegations *)
(* authorize a claim at one instant.  The definitions follow the graph:    *)
(* what authorizes a match is found from what makes its proofs valid, that *)
(* from the attestations beside them, and so on down the graph, by a       *)
(* recursive function from questions to the sets that answer them.         *)
(***************************************************************************)
EXTENDS Validator

\* Along which sets of delegations is a match authorized?
RouteOf(desc, m) == [ask |-> "route", desc |-> desc, match |-> m]

\* Which sets of attestations make a delegation valid beside the other proofs of
\* its pool?
VouchersOf(link, pool) == [ask |-> "vouchers", link |-> link, pool |-> pool]

Questions ==
    [ask : {"route"}, desc : Descriptor, match : Sources]
        \cup {q \in [ask : {"vouchers"}, link : Link, pool : SUBSET Link] : q.link \in q.pool}

\* The capabilities of a proof that grant the match m, as matches.
Grants(desc, m, p) ==
    {Source(p, ResolveCapability(m.cap, c)) :
        c \in {d \in Range(Dlg(p).caps) : SelectCapability(desc, m.cap, d)}}

Routes(answer, desc, m) ==
    LET pool == ResolveProofs(m.link)
    IN  IF Prune(m) THEN {{m.link}}
        ELSE {{m.link} \cup x.vouch \cup x.rest :
                 x \in UNION {[vouch : answer[VouchersOf(p, pool)],
                               rest  : UNION {answer[RouteOf(desc, n)] : n \in Grants(desc, m, p)}] :
                              p \in pool}}

\* The claims on desc that the valid delegations of a pool make.
Claims(answer, desc, pool) ==
    UNION {{Source(l, c) : c \in {d \in Range(Dlg(l).caps) : ParseCapability(desc, d)}} :
              l \in {k \in pool : answer[VouchersOf(k, pool)] # {}}}

\* The sets of delegations that authorize one of them.
ClaimRoutes(answer, desc, pool) ==
    UNION {{vouch \cup route : vouch \in answer[VouchersOf(s.link, pool)],
                               route \in answer[RouteOf(desc, s)]} :
              s \in Claims(answer, desc, pool)}

\* The other proofs of a pool that may attest the delegation.
SessionPool(link, pool) ==
    {a \in pool : a # link /\ Dlg(a).caps # <<>> /\ Head(Dlg(a).caps).can = Attest}

\* timely is the set of the delegations that are within their time bounds.  A
\* delegation that needs no attestation is vouched for by the empty set.
Vouchers(timely, answer, link, pool) ==
    LET desc        == AttestationOf(link)
        others      == SessionPool(link, pool)
        sessions    == ClaimRoutes(answer, desc, others)
        refused     == \E s \in Claims(answer, desc, others) : answer[RouteOf(desc, s)] = {}
        bySignature == IF Signed(link) THEN {{}} ELSE {}
    IN  IF link \notin timely THEN {}
        ELSE IF IsKeyDID(Dlg(link).iss) \/ Dlg(link).iss = Service THEN bySignature
        ELSE IF sessions # {} THEN sessions
        ELSE IF refused THEN {}
        ELSE bySignature

\* The delegation graph has no circles and a session leaves out one proof of its
\* pool, so the questions come to an end.
Answers(timely) ==
    LET answer[q \in Questions] ==
            IF q.ask = "route" THEN Routes(answer, q.desc, q.match)
                               ELSE Vouchers(timely, answer, q.link, q.pool)
    IN  answer

\* The sets of delegations that authorize the invocation.
Authorizations(timely) == ClaimRoutes(Answers(timely), Provided, {world.root})

Timely == {l \in Link : IF Context.validateTimeBounds = Unset THEN InBounds(l, now)
                                                            ELSE ~RefusedTimeBounds(l)}

\* Nothing changed while the invocation was validated.
Quiet == now = start.now /\ revoked = start.revoked

\* With a still clock and nothing revoked, Access finds an authorization exactly
\* when there is one (validator/lib.go 244-318, 483-508).
AccessDecides ==
    stage \in {"handled", "unauthorized"} /\ Quiet /\ revoked = {}
        => (stage = "handled" <=> Authorizations(Timely) # {})

\* "Access finds a valid path in a proof chain by exploring every possible
\* option" (validator/lib.go 244-245): it fails only when no authorization is
\* free of revoked delegations.
ExploresEveryOption ==
    stage = "unauthorized" /\ Quiet
        => \A links \in Authorizations(Timely) : links \cap revoked # {}
=============================================================================
