---------------------------- MODULE PruningProofs ----------------------------
(***************************************************************************)
(* The proofs that pruning keeps authorize on their own, for all graphs.   *)
(* First, an authorization the search returns holds, with every delegation *)
(* it uses, the attestations that make it valid, and no more than what is  *)
(* below the invocation: an inductive invariant of the search.  Then, from *)
(* question to question of ValidatorReference, what is authorized by some  *)
(* of the proofs of the draft is authorized where there are no others.     *)
(***************************************************************************)
EXTENDS ProofPruning, ReferenceProofs

----------------------------------------------------------------------------
(* Members of the answers.                                                 *)

LEMMA RouteAnswer ==
    ASSUME NEW timely, NEW A, IsAnswer(timely, A), NEW desc \in Descriptor, NEW m \in Sources
    PROVE  A[RouteOf(desc, m)] = Routes(A, desc, m)
<1>1. A[RouteOf(desc, m)] = Settle(timely, A, RouteOf(desc, m))
    BY QuestionsType DEF IsAnswer
<1> QED BY <1>1, QuestionsType DEF Settle

LEMMA VoucherAnswer ==
    ASSUME NEW timely, NEW A, IsAnswer(timely, A), NEW pool \in SUBSET Link, NEW link \in pool
    PROVE  A[VouchersOf(link, pool)] = Vouchers(timely, A, link, pool)
<1>1. A[VouchersOf(link, pool)] = Settle(timely, A, VouchersOf(link, pool))
    BY QuestionsType DEF IsAnswer
<1> QED BY <1>1, QuestionsType DEF Settle

\* A match is authorized by its own delegation, or with a proof that grants it.
LEMMA RouteMembers ==
    ASSUME NEW timely, NEW A, IsAnswer(timely, A), NEW desc \in Descriptor, NEW m \in Sources,
           NEW links
    PROVE  links \in A[RouteOf(desc, m)] <=>
              \/ Prune(m) /\ links = {m.link}
              \/ /\ ~Prune(m)
                 /\ \E p \in ResolveProofs(m.link) :
                       \E vouch \in A[VouchersOf(p, ResolveProofs(m.link))] :
                          \E n \in Grants(desc, m, p) : \E rest \in A[RouteOf(desc, n)] :
                             links = {m.link} \cup vouch \cup rest
<1> DEFINE pool == ResolveProofs(m.link)
           V(p) == A[VouchersOf(p, pool)]
           R(p) == UNION {A[RouteOf(desc, n)] : n \in Grants(desc, m, p)}
<1>1. A[RouteOf(desc, m)] = Routes(A, desc, m)
    BY RouteAnswer
<1>2. CASE Prune(m)
    BY <1>1, <1>2 DEF Routes
<1>3. CASE ~Prune(m)
    <2>1. Routes(A, desc, m) = {{m.link} \cup x.vouch \cup x.rest :
                                   x \in UNION {[vouch : V(p), rest : R(p)] : p \in pool}}
        BY <1>3 DEF Routes
    <2>2. \A p, rest : rest \in R(p) <=> \E n \in Grants(desc, m, p) : rest \in A[RouteOf(desc, n)]
        OBVIOUS
    <2> HIDE DEF V, R, pool
    <2>3. links \in Routes(A, desc, m) <=>
             \E p \in pool : \E x \in [vouch : V(p), rest : R(p)] :
                links = {m.link} \cup x.vouch \cup x.rest
        BY <2>1
    <2>4. ASSUME NEW p
          PROVE  (\E x \in [vouch : V(p), rest : R(p)] : links = {m.link} \cup x.vouch \cup x.rest)
                    <=> \E v \in V(p), r \in R(p) : links = {m.link} \cup v \cup r
        <3>1. ASSUME NEW v \in V(p), NEW r \in R(p), links = {m.link} \cup v \cup r
              PROVE  \E x \in [vouch : V(p), rest : R(p)] : links = {m.link} \cup x.vouch \cup x.rest
            <4> DEFINE x == [vouch |-> v, rest |-> r]
            <4>1. x \in [vouch : V(p), rest : R(p)] /\ x.vouch = v /\ x.rest = r
                OBVIOUS
            <4> HIDE DEF x
            <4> QED BY <3>1, <4>1
        <3> QED BY <3>1
    <2>5. links \in Routes(A, desc, m) <=>
             \E p \in pool : \E v \in V(p) : \E r \in R(p) : links = {m.link} \cup v \cup r
        BY <2>3, <2>4
    <2>6. links \in Routes(A, desc, m) <=>
             \E p \in pool : \E v \in V(p) : \E n \in Grants(desc, m, p) :
                \E r \in A[RouteOf(desc, n)] : links = {m.link} \cup v \cup r
        BY <2>2, <2>5
    <2> QED BY <1>1, <1>3, <2>6 DEF V, pool
<1> QED BY <1>2, <1>3

LEMMA ClaimMembers ==
    ASSUME NEW A, NEW desc, NEW pool, NEW links
    PROVE  links \in ClaimRoutes(A, desc, pool) <=>
              \E s \in Claims(A, desc, pool) :
                 \E vouch \in A[VouchersOf(s.link, pool)] :
                    \E route \in A[RouteOf(desc, s)] : links = vouch \cup route
BY DEF ClaimRoutes

\* A delegation whose issuer has a key is vouched for by its signature, another
\* one by its attestations or, with a key for its issuer, by its signature.
LEMMA VoucherMembers ==
    ASSUME NEW timely, NEW A, IsAnswer(timely, A), NEW pool \in SUBSET Link, NEW link \in pool,
           NEW links
    PROVE  /\ links \in A[VouchersOf(link, pool)] =>
                 /\ link \in timely
                 /\ ~NeedsSession(link) => Signed(link)
                 /\ NeedsSession(link) =>
                       \/ Signed(link)
                       \/ links \in ClaimRoutes(A, AttestationOf(link), SessionPool(link, pool))
           /\ link \in timely /\ ~NeedsSession(link) /\ Signed(link) =>
                 {} \in A[VouchersOf(link, pool)]
           /\ (/\ link \in timely /\ NeedsSession(link)
               /\ links \in ClaimRoutes(A, AttestationOf(link), SessionPool(link, pool)))
                 => links \in A[VouchersOf(link, pool)]
<1>1. A[VouchersOf(link, pool)] = Vouchers(timely, A, link, pool)
    BY VoucherAnswer
<1> DEFINE sessions == ClaimRoutes(A, AttestationOf(link), SessionPool(link, pool))
<1> DEFINE answer == A[VouchersOf(link, pool)]
<1>2. CASE link \notin timely
    <2>1. answer = {}
        BY <1>1, <1>2 DEF Vouchers
    <2> HIDE DEF answer, sessions
    <2> QED BY <1>2, <2>1 DEF answer
<1>3. CASE link \in timely /\ ~NeedsSession(link)
    <2>1. answer = IF Signed(link) THEN {{}} ELSE {}
        BY <1>1, <1>3 DEF Vouchers, NeedsSession
    <2>2. links \in answer => Signed(link)
        BY <2>1
    <2>3. Signed(link) => {} \in answer
        BY <2>1
    <2> HIDE DEF answer, sessions
    <2> QED BY <1>3, <2>2, <2>3 DEF answer
<1>4. CASE link \in timely /\ NeedsSession(link)
    <2>1. \/ sessions # {} /\ A[VouchersOf(link, pool)] = sessions
          \/ sessions = {} /\ A[VouchersOf(link, pool)] = {}
          \/ sessions = {} /\ A[VouchersOf(link, pool)] = IF Signed(link) THEN {{}} ELSE {}
        BY <1>1, <1>4, Zenon DEF Vouchers, NeedsSession
    <2> QED BY <1>4, <2>1
<1> QED BY <1>2, <1>3, <1>4

\* Whatever authorizes a match, or a claim on it, has its delegation.
LEMMA RouteHasLink ==
    ASSUME NEW timely, NEW A, IsAnswer(timely, A), NEW desc \in Descriptor, NEW m \in Sources,
           NEW links \in A[RouteOf(desc, m)]
    PROVE  m.link \in links
BY RouteMembers

----------------------------------------------------------------------------
(* What a call has to show for its sources.                                *)

\* The delegations that attestations rest on.
Backers(atts) == UNION {a.links : a \in atts}

\* Those of the attestations a call has met for a delegation.
Backing(f, link) == Backers({a \in f.atts : a.proof = link})

\* The proofs of a pool, their proofs, and so on, as far as they are at hand.
Reach(pool) == Below(pool) \cap Available

\* A proof that became a source is valid by attestations the call has kept, and
\* these rest on delegations within reach of the pool.
BackedFrame(A, f) ==
    /\ f.pool \subseteq Available
    /\ f.pc = "notBefore" => ~RefusedTimeBounds(f.cands[f.i]) /\ ~Expired(f.cands[f.i])
    /\ f.pc = "session" => f.cands[f.i] \in Timely /\ NeedsSession(f.cands[f.i])
    /\ \A n \in DOMAIN f.sources :
          \E vouch \in A[VouchersOf(f.sources[n].link, f.pool)] :
              vouch \subseteq Backing(f, f.sources[n].link)
    /\ \A a \in f.atts : a.links \subseteq Reach(f.pool)

\* These delegations authorize a claim, or with its own delegation a match.
BackedClaim(A, desc, pool, links) ==
    /\ \E route \in ClaimRoutes(A, desc, pool) : route \subseteq links
    /\ links \subseteq Reach(pool)

BackedRoute(A, desc, m, links) ==
    /\ \E route \in A[RouteOf(desc, m)] : route \subseteq {m.link} \cup links
    /\ links \subseteq Reach(ResolveProofs(m.link))

BackedStack(A, st) ==
    /\ \A k \in 1..Len(st) : BackedFrame(A, st[k])
    /\ \A k \in 1..Len(st) - 1 : DecidedCall(st[k], st[k + 1])

BackedReturn(A, st, r) ==
    r.is = "ok" =>
        /\ st = <<>> => BackedClaim(A, Provided, {world.root}, AuthLinks(r.auth))
        /\ st # <<>> /\ Last(st).pc = "session" =>
              BackedClaim(A, AttestationOf(Last(st).cands[Last(st).i]),
                          SessionPool(Last(st).cands[Last(st).i], Last(st).pool),
                          AuthLinks(r.auth))
        /\ st # <<>> /\ Last(st).pc = "authorize" =>
              BackedRoute(A, Last(st).desc, Match(Last(st), Last(st).sources[Last(st).j]),
                          AuthLinks(r.auth))

Backed(A, st, r) == BackedStack(A, st) /\ BackedReturn(A, st, r)

----------------------------------------------------------------------------
(* Frames.                                                                 *)

LEMMA BackedFresh ==
    ASSUME NEW A, NEW f, f.pc = "validate", f.sources = <<>>, f.atts = {}, f.pool \subseteq Available
    PROVE  BackedFrame(A, f)
<1>1. DOMAIN f.sources = {}
    OBVIOUS
<1> QED BY <1>1 DEF BackedFrame

\* A call that takes up no proof.
LEMMA BackedKeeps ==
    ASSUME NEW A, NEW f, BackedFrame(A, f),
           NEW g, SameCall(f, g), g.sources = f.sources, g.atts = f.atts,
           g.pc = "notBefore" => ~RefusedTimeBounds(g.cands[g.i]) /\ ~Expired(g.cands[g.i]),
           g.pc = "session" => g.cands[g.i] \in Timely /\ NeedsSession(g.cands[g.i])
    PROVE  BackedFrame(A, g)
BY DEF BackedFrame, SameCall, Backing

LEMMA BackedReject ==
    ASSUME NEW A, NEW f \in Frames, BackedFrame(A, f), NEW errs
    PROVE  BackedFrame(A, Reject(f, errs))
<1> DEFINE g == Reject(f, errs)
<1>1. SameCall(f, g) /\ g.sources = f.sources /\ g.atts = f.atts /\ g.pc = "validate"
    BY DEF Reject, Frames, SameCall
<1> HIDE DEF g
<1>2. BackedFrame(A, g)
    BY <1>1, BackedKeeps
<1> QED BY <1>2 DEF g

LEMMA BackedNextSource ==
    ASSUME NEW A, NEW f \in Frames, BackedFrame(A, f), NEW failed, NEW errs
    PROVE  BackedFrame(A, NextSource(f, failed, errs))
<1> DEFINE g == NextSource(f, failed, errs)
<1>1. SameCall(f, g) /\ g.sources = f.sources /\ g.atts = f.atts /\ g.pc = "validate"
    BY DEF NextSource, Frames, SameCall
<1> HIDE DEF g
<1>2. BackedFrame(A, g)
    BY <1>1, BackedKeeps
<1> QED BY <1>2 DEF g

\* The proof at f.i becomes sources, with the attestations that make it valid.
LEMMA BackedAccept ==
    ASSUME world \in Worlds, NEW A, NEW f \in Frames, FrameOK(f), BackedFrame(A, f),
           f.pc \in {"notBefore", "session"}, NEW atts,
           \A a \in atts : a.links \subseteq Reach(f.pool),
           NEW vouch \in A[VouchersOf(f.cands[f.i], f.pool)],
           vouch \subseteq Backers({a \in atts : a.proof = f.cands[f.i]})
    PROVE  BackedFrame(A, Accept(f, atts))
<1> DEFINE link == f.cands[f.i]
           caps == Dlg(link).caps
           new  == [k \in DOMAIN caps |-> Source(link, caps[k])]
           all  == f.sources \o new
           g    == Accept(f, atts)
<1>1. link \in Link
    BY DEF FrameOK, Frames
<1>2. caps \in Seq(Capability)
    BY <1>1, DlgType
<1>3. new \in Seq(Sources)
    <2>1. \A k \in DOMAIN caps : Source(link, caps[k]) \in Sources
        BY <1>1, <1>2 DEF Sources, Source
    <2>2. DOMAIN caps = 1..Len(caps) /\ Len(caps) \in Nat
        BY <1>2
    <2> HIDE DEF caps
    <2> QED BY <2>1, <2>2
<1>4. f.sources \in Seq(Sources)
    BY DEF Frames
<1>5. /\ g.pool = f.pool /\ g.sources = all /\ g.pc = "validate"
      /\ g.atts = f.atts \cup atts
    BY DEF Accept, Frames
<1>6. \A k \in DOMAIN new : new[k].link = link
    BY DEF Source
<1> HIDE DEF new
<1>7. \A n \in DOMAIN all : \/ n \in DOMAIN f.sources /\ all[n] = f.sources[n]
                            \/ \E k \in DOMAIN new : all[n] = new[k]
    <2> SUFFICES ASSUME NEW n \in DOMAIN all
                 PROVE  \/ n \in DOMAIN f.sources /\ all[n] = f.sources[n]
                        \/ \E k \in DOMAIN new : all[n] = new[k]
        OBVIOUS
    <2>1. CASE n \in DOMAIN f.sources
        BY <1>3, <1>4, <2>1
    <2>2. CASE n \notin DOMAIN f.sources
        <3>1. n - Len(f.sources) \in DOMAIN new /\ all[n] = new[n - Len(f.sources)]
            BY <1>3, <1>4, <2>2
        <3> QED BY <3>1
    <2> QED BY <2>1, <2>2
<1> HIDE DEF g, all, caps
<1>8. \A l : Backing(f, l) \subseteq Backing(g, l)
    BY <1>5 DEF Backing, Backers
<1>9. vouch \subseteq Backing(g, link)
    BY <1>5 DEF Backing, Backers
<1>10. ASSUME NEW n \in DOMAIN g.sources
       PROVE  \E v \in A[VouchersOf(g.sources[n].link, g.pool)] :
                  v \subseteq Backing(g, g.sources[n].link)
    <2>1. CASE n \in DOMAIN f.sources /\ all[n] = f.sources[n]
        <3>1. PICK v \in A[VouchersOf(f.sources[n].link, f.pool)] :
                  v \subseteq Backing(f, f.sources[n].link)
            BY <2>1 DEF BackedFrame
        <3> QED BY <1>5, <1>8, <2>1, <3>1
    <2>2. CASE \E k \in DOMAIN new : all[n] = new[k]
        BY <1>5, <1>6, <1>9, <2>2
    <2> QED BY <1>5, <1>7, <1>10, <2>1, <2>2
<1>11. \A a \in g.atts : a.links \subseteq Reach(g.pool)
    BY <1>5 DEF BackedFrame
<1>12. g.pool \subseteq Available
    BY <1>5 DEF BackedFrame
<1> QED BY <1>5, <1>10, <1>11, <1>12 DEF BackedFrame, g

----------------------------------------------------------------------------
(* The stack.                                                              *)

LEMMA BackedGoto ==
    ASSUME NEW A, NEW st \in Seq(Frames), st # <<>>, BackedStack(A, st),
           NEW g \in Frames, BackedFrame(A, g), SameCall(Last(st), g)
    PROVE  BackedStack(A, [st EXCEPT ![Len(st)] = g])
<1> DEFINE n  == Len(st)
           tt == [st EXCEPT ![n] = g]
<1>1. /\ n \in Nat \ {0} /\ Last(st) = st[n] /\ Len(tt) = n /\ tt[n] = g
      /\ \A k \in 1..n - 1 : tt[k] = st[k]
    BY DEF Last
<1>2. n = Len(st)
    OBVIOUS
<1> HIDE DEF n, tt
<1>3. \A k \in 1..n : BackedFrame(A, tt[k])
    BY <1>1, <1>2 DEF BackedStack
<1>4. ASSUME NEW k \in 1..n - 1 PROVE DecidedCall(tt[k], tt[k + 1])
    <2>1. DecidedCall(st[k], st[k + 1]) /\ tt[k] = st[k]
        BY <1>1, <1>2 DEF BackedStack
    <2>2. CASE k + 1 = n
        BY <1>1, <2>1, <2>2 DEF DecidedCall, SameCall
    <2>3. CASE k + 1 # n
        <3>1. tt[k + 1] = st[k + 1]
            BY <1>1, <2>3
        <3> QED BY <2>1, <3>1
    <2> QED BY <2>2, <2>3
<1>5. BackedStack(A, tt)
    BY <1>1, <1>3, <1>4 DEF BackedStack
<1> QED BY <1>5 DEF tt, n

LEMMA BackedPush ==
    ASSUME NEW A, NEW st \in Seq(Frames), st # <<>>, BackedStack(A, st),
           NEW g \in Frames, BackedFrame(A, g), DecidedCall(Last(st), g)
    PROVE  BackedStack(A, Append(st, g))
<1> DEFINE n  == Len(st)
           tt == Append(st, g)
<1>1. /\ n \in Nat \ {0} /\ Len(tt) = n + 1 /\ tt[n + 1] = g /\ Last(st) = st[n]
      /\ \A k \in 1..n : tt[k] = st[k]
    BY DEF Last
<1>2. n = Len(st)
    OBVIOUS
<1> HIDE DEF n, tt
<1>3. \A k \in 1..n + 1 : BackedFrame(A, tt[k])
    BY <1>1, <1>2 DEF BackedStack
<1>4. ASSUME NEW k \in 1..n PROVE DecidedCall(tt[k], tt[k + 1])
    <2>1. CASE k = n
        BY <1>1, <2>1
    <2>2. CASE k # n
        <3>1. k \in 1..n - 1 /\ k + 1 \in 1..n
            BY <1>1, <2>2
        <3> QED BY <1>1, <1>2, <3>1 DEF BackedStack
    <2> QED BY <2>1, <2>2
<1>5. BackedStack(A, tt)
    BY <1>1, <1>3, <1>4 DEF BackedStack
<1> QED BY <1>5 DEF tt

LEMMA BackedPop ==
    ASSUME NEW A, NEW st \in Seq(Frames), st # <<>>, BackedStack(A, st)
    PROVE  /\ BackedStack(A, Front(st))
           /\ BackedFrame(A, Last(st))
           /\ Front(st) # <<>> => DecidedCall(Last(Front(st)), Last(st))
<1> DEFINE n  == Len(st)
           tt == Front(st)
<1>1. n = Len(st) /\ n \in Nat \ {0} /\ Last(st) = st[n]
    BY DEF Last
<1>2. tt \in Seq(Frames) /\ Len(tt) = n - 1 /\ \A k \in 1..n - 1 : tt[k] = st[k]
    <2>1. tt = SubSeq(st, 1, n - 1)
        BY DEF Front
    <2> HIDE DEF tt, n
    <2> QED BY <1>1, <2>1
<1> HIDE DEF n, tt
<1>3. tt # <<>> => n - 1 \in 1..n - 1 /\ Last(tt) = st[n - 1]
    BY <1>1, <1>2 DEF Last
<1>4. tt # <<>> => DecidedCall(st[n - 1], st[n])
    BY <1>1, <1>3 DEF BackedStack
<1>5. BackedStack(A, tt)
    BY <1>1, <1>2 DEF BackedStack
<1>6. BackedFrame(A, st[n])
    BY <1>1 DEF BackedStack
<1> QED BY <1>1, <1>3, <1>4, <1>5, <1>6 DEF tt

----------------------------------------------------------------------------
(* What a call returns.                                                    *)

CallBacked(A, f, r) ==
    r.is = "ok" =>
        /\ f.kind = "claim" => BackedClaim(A, f.desc, f.pool, AuthLinks(r.auth))
        /\ f.kind = "authorize" => BackedRoute(A, f.desc, f.match, AuthLinks(r.auth))

\* The caller gets what it asked for.
LEMMA BackedPopReturn ==
    ASSUME NEW A, NEW st, StackOK(st), st # <<>>, BackedStack(A, st), NEW r,
           CallBacked(A, Last(st), r)
    PROVE  Backed(A, Front(st), r)
<1> DEFINE f  == Last(st)
           tt == Front(st)
<1>1. st \in Seq(Frames)
    BY DEF StackOK
<1>2. BackedStack(A, tt) /\ (tt # <<>> => DecidedCall(Last(tt), f))
    BY <1>1, BackedPop
<1>3. tt = <<>> => BaseOK(f)
    BY <1>1, PopOK
<1>4. tt # <<>> => CallOK(Last(tt), f)
    BY <1>1, PopOK
<1> HIDE DEF f, tt
<1>5. ASSUME r.is = "ok", tt = <<>> PROVE BackedClaim(A, Provided, {world.root}, AuthLinks(r.auth))
    BY <1>3, <1>5 DEF CallBacked, BaseOK, f
<1>6. ASSUME r.is = "ok", tt # <<>>, Last(tt).pc = "session"
      PROVE  BackedClaim(A, AttestationOf(Last(tt).cands[Last(tt).i]),
                         SessionPool(Last(tt).cands[Last(tt).i], Last(tt).pool), AuthLinks(r.auth))
    BY <1>2, <1>4, <1>6 DEF CallBacked, CallOK, DecidedCall, f
<1>7. ASSUME r.is = "ok", tt # <<>>, Last(tt).pc = "authorize"
      PROVE  BackedRoute(A, Last(tt).desc, Match(Last(tt), Last(tt).sources[Last(tt).j]),
                         AuthLinks(r.auth))
    BY <1>2, <1>4, <1>7 DEF CallBacked, CallOK, DecidedCall, f
<1>8. Backed(A, tt, r)
    BY <1>2, <1>5, <1>6, <1>7 DEF Backed, BackedReturn
<1> QED BY <1>8 DEF tt

\* What is below a proof of the pool is below the pool.
LEMMA BelowProof ==
    ASSUME world \in Worlds, NEW pool \in SUBSET Link, NEW link \in pool
    PROVE  link \in Below(pool) /\ Below(ResolveProofs(link)) \subseteq Below(pool)
<1>1. pool \subseteq Below(pool) /\ Below(pool) \subseteq Link /\ Closed(Below(pool))
    BY BelowClosed
<1>2. ResolveProofs(link) \subseteq Below(pool)
    BY <1>1 DEF Closed, ResolveProofs
<1> QED BY <1>1, <1>2, BelowLeast

\* What an authorization uses: the match, what authorizes it, and attestations.
LEMMA GrantedLinks ==
    ASSUME NEW m \in Sources, NEW sub \in Auths, NEW atts
    PROVE  AuthLinks(Auth(<<m>> \o sub.path, atts \cup sub.atts))
              = {m.link} \cup AuthLinks(sub) \cup Backers(atts)
<1> DEFINE path == <<m>> \o sub.path
<1>1. PathSet(path) = {m.link} \cup PathSet(sub.path)
    BY PathLinks DEF Auths
<1>2. /\ AuthLinks(sub) = PathSet(sub.path) \cup UNION {a.links : a \in sub.atts}
      /\ AuthLinks(Auth(path, atts \cup sub.atts))
            = PathSet(path) \cup UNION {a.links : a \in atts \cup sub.atts}
    BY DEF AuthLinks, Auth, PathSet
<1>3. UNION {a.links : a \in atts \cup sub.atts}
         = (UNION {a.links : a \in atts}) \cup UNION {a.links : a \in sub.atts}
    OBVIOUS
<1> HIDE DEF path
<1> QED BY <1>1, <1>2, <1>3 DEF path, Backers

\* A source that is authorized authorizes what the call was asked, with what its
\* attestations rest on.
LEMMA BackedGranted ==
    ASSUME world \in Worlds, NEW timely, NEW A, IsAnswer(timely, A),
           NEW f \in Frames, FrameOK(f), BackedFrame(A, f),
           NEW n \in DOMAIN f.sources, Selected(f, f.sources[n]),
           NEW m, m = Match(f, f.sources[n]),
           NEW sub \in Auths, BackedRoute(A, f.desc, m, AuthLinks(sub))
    PROVE  CallBacked(A, f, Granted(Auth(<<m>> \o sub.path,
                                         RelevantAttestations(f, m) \cup sub.atts)))
<1> DEFINE s     == f.sources[n]
           atts  == RelevantAttestations(f, m)
           auth  == Auth(<<m>> \o sub.path, atts \cup sub.atts)
           links == AuthLinks(auth)
<1>1. /\ s \in Sources /\ s.link \in f.pool /\ s.cap \in Range(Dlg(s.link).caps)
      /\ f.pool \in SUBSET Link /\ f.desc \in Descriptor /\ s.link \in Link
    <2>1. f.sources \in Seq(Sources) /\ f.pool \in SUBSET Link /\ f.desc \in Descriptor
        BY DEF Frames
    <2>2. s.link \in f.pool /\ s.cap \in Range(Dlg(s.link).caps)
        BY DEF FrameOK
    <2> QED BY <2>1, <2>2
<1>2. m \in Sources /\ m.link = s.link
    BY <1>1, MatchType DEF FrameOK
<1>3. links = {m.link} \cup AuthLinks(sub) \cup Backers(atts)
    <2> HIDE DEF atts
    <2> QED BY <1>2, GrantedLinks
<1>4. Granted(auth).auth = auth
    BY DEF Granted
<1>5. Selected(f, s) /\ m = Match(f, s)
    OBVIOUS
<1>6. PICK vouch \in A[VouchersOf(s.link, f.pool)] : vouch \subseteq Backing(f, s.link)
    BY DEF BackedFrame
<1>7. PICK route \in A[RouteOf(f.desc, m)] : route \subseteq {m.link} \cup AuthLinks(sub)
    BY DEF BackedRoute
<1> HIDE DEF s, auth, links
<1>8. Backing(f, s.link) \subseteq Backers(atts)
    BY <1>2 DEF Backing, Backers, RelevantAttestations
<1>9. Backers(atts) \subseteq Reach(f.pool)
    BY DEF BackedFrame, RelevantAttestations, Backers
<1> HIDE DEF atts
<1>10. links \subseteq Reach(f.pool)
    <2>1. m.link \in Below(f.pool) /\ Below(ResolveProofs(m.link)) \subseteq Below(f.pool)
        BY <1>1, <1>2, BelowProof
    <2>2. m.link \in Available
        BY <1>1, <1>2 DEF BackedFrame
    <2>3. AuthLinks(sub) \subseteq Reach(ResolveProofs(m.link))
        BY DEF BackedRoute
    <2> QED BY <1>3, <1>9, <2>1, <2>2, <2>3 DEF Reach
<1>11. vouch \subseteq links /\ route \subseteq links
    BY <1>3, <1>6, <1>7, <1>8
<1>12. ASSUME f.kind = "claim" PROVE BackedClaim(A, f.desc, f.pool, links)
    <2>1. m = s /\ ParseCapability(f.desc, s.cap) /\ s = Source(s.link, s.cap)
        BY <1>1, <1>5, <1>12 DEF Match, Selected, Sources, Source
    <2>2. s \in Claims(A, f.desc, f.pool)
        BY <1>1, <1>6, <2>1 DEF Claims
    <2>3. vouch \cup route \in ClaimRoutes(A, f.desc, f.pool)
        BY <1>6, <1>7, <2>1, <2>2, ClaimMembers
    <2> QED BY <1>10, <1>11, <2>3 DEF BackedClaim
<1>13. ASSUME f.kind = "authorize" PROVE BackedRoute(A, f.desc, f.match, links)
    <2>1. f.match \in Sources /\ f.pool = ResolveProofs(f.match.link)
        BY <1>13 DEF FrameOK
    <2>2. CASE Prune(f.match)
        <3>1. {f.match.link} \in A[RouteOf(f.desc, f.match)]
            BY <1>1, <2>1, <2>2, RouteMembers
        <3> QED BY <1>10, <2>1, <3>1 DEF BackedRoute
    <2>3. CASE ~Prune(f.match)
        <3>1. SelectCapability(f.desc, f.match.cap, s.cap)
              /\ m = Source(s.link, ResolveCapability(f.match.cap, s.cap))
            BY <1>5, <1>13 DEF Match, Selected
        <3>2. m \in Grants(f.desc, f.match, s.link)
            BY <1>1, <3>1 DEF Grants
        <3>3. /\ s.link \in ResolveProofs(f.match.link)
              /\ vouch \in A[VouchersOf(s.link, ResolveProofs(f.match.link))]
            BY <1>1, <1>6, <2>1
        <3>4. {f.match.link} \cup vouch \cup route \in A[RouteOf(f.desc, f.match)]
            BY <1>1, <1>7, <2>1, <2>3, <3>2, <3>3, RouteMembers, Zenon
        <3> QED BY <1>10, <1>11, <2>1, <3>4 DEF BackedRoute
    <2> QED BY <2>2, <2>3
<1>14. CallBacked(A, f, Granted(auth))
    BY <1>4, <1>12, <1>13 DEF CallBacked, links
<1> QED BY <1>14 DEF auth, atts

----------------------------------------------------------------------------
(* Steps of the search, with the world and the clock held fixed.           *)

LEMMA BackedTop ==
    ASSUME EInv, NEW A, Backed(A, stack, ret), stack # <<>>
    PROVE  /\ stack \in Seq(Frames) /\ Top = Last(stack) /\ StackOK(stack) /\ BackedStack(A, stack)
           /\ Top \in Frames /\ FrameOK(Top) /\ BackedFrame(A, Top)
           /\ world \in Worlds /\ ret \in Returns
<1>1. /\ stack \in Seq(Frames) /\ Top = Last(stack) /\ Top \in Frames /\ FrameOK(Top)
      /\ world \in Worlds /\ ret \in Returns
    BY ExplainedTop
<1>2. BackedFrame(A, Top)
    BY <1>1, BackedPop DEF Backed
<1> QED BY <1>1, <1>2 DEF EInv, IInv, Backed

LEMMA BackedGotoStep ==
    ASSUME EInv, NEW A, Backed(A, stack, ret), stack # <<>>,
           NEW g \in Frames, BackedFrame(A, g), SameCall(Top, g), Goto(g),
           \/ ret' = ret /\ g.pc \in {"validate", "notBefore"}
           \/ ret' = NoReturn
    PROVE  Backed(A, stack', ret')
<1>1. /\ stack \in Seq(Frames) /\ Top = Last(stack) /\ BackedStack(A, stack)
      /\ stack' = [stack EXCEPT ![Len(stack)] = g]
    BY BackedTop DEF Goto
<1>2. BackedStack(A, stack')
    BY <1>1, BackedGoto
<1>3. Last(stack') = g /\ stack' # <<>>
    BY <1>1 DEF Last
<1>4. BackedReturn(A, stack', ret')
    BY <1>3 DEF BackedReturn, NoReturn
<1> QED BY <1>2, <1>4 DEF Backed

LEMMA BackedCallStep ==
    ASSUME EInv, NEW A, Backed(A, stack, ret), stack # <<>>, ret' = ret,
           NEW f \in Frames, BackedFrame(A, f), SameCall(Top, f),
           NEW g \in Frames, BackedFrame(A, g), DecidedCall(f, g), g.pc = "validate", Call(f, g)
    PROVE  Backed(A, stack', ret')
<1> DEFINE st == [stack EXCEPT ![Len(stack)] = f]
<1>1. stack \in Seq(Frames) /\ stack' = Append(st, g) /\ Top = Last(stack) /\ BackedStack(A, stack)
    BY BackedTop DEF Call
<1>2. BackedStack(A, st)
    BY <1>1, BackedGoto
<1>3. st \in Seq(Frames) /\ st # <<>> /\ Last(st) = f
    BY <1>1 DEF Last
<1> HIDE DEF st
<1>4. BackedStack(A, stack')
    BY <1>1, <1>2, <1>3, BackedPush
<1>5. Last(stack') = g /\ stack' # <<>>
    BY <1>1, <1>3 DEF Last
<1>6. BackedReturn(A, stack', ret')
    BY <1>5 DEF BackedReturn
<1> QED BY <1>4, <1>6 DEF Backed

LEMMA BackedRejectStep ==
    ASSUME EInv, NEW A, Backed(A, stack, ret), stack # <<>>, NEW errs \in SUBSET Errors,
           ret' = ret \/ ret' = NoReturn, Goto(Reject(Top, errs))
    PROVE  Backed(A, stack', ret')
<1>1. Top \in Frames /\ FrameOK(Top) /\ BackedFrame(A, Top) /\ world \in Worlds
    BY BackedTop
<1>2. /\ Reject(Top, errs) \in Frames /\ SameCall(Top, Reject(Top, errs))
      /\ Reject(Top, errs).pc = "validate" /\ BackedFrame(A, Reject(Top, errs))
    BY <1>1, RejectOK, BackedReject
<1> QED BY <1>2, BackedGotoStep

LEMMA BackedNextStep ==
    ASSUME EInv, NEW A, Backed(A, stack, ret), stack # <<>>, NEW failed \in BOOLEAN,
           NEW errs \in SUBSET Errors,
           ret' = ret \/ ret' = NoReturn, Goto(NextSource(Top, failed, errs))
    PROVE  Backed(A, stack', ret')
<1>1. Top \in Frames /\ FrameOK(Top) /\ BackedFrame(A, Top) /\ world \in Worlds
    BY BackedTop
<1>2. /\ NextSource(Top, failed, errs) \in Frames /\ SameCall(Top, NextSource(Top, failed, errs))
      /\ NextSource(Top, failed, errs).pc = "validate"
      /\ BackedFrame(A, NextSource(Top, failed, errs))
    BY <1>1, NextSourceOK, BackedNextSource
<1> QED BY <1>2, BackedGotoStep

LEMMA BackedCheckExpired ==
    ASSUME EInv, NEW A, Backed(A, stack, ret), CheckExpired
    PROVE  Backed(A, stack', ret')
<1> DEFINE link == Top.cands[Top.i]
<1>1. stack # <<>> /\ Top.pc = "validate" /\ Top.i <= Len(Top.cands) /\ ret' = ret
    BY DEF CheckExpired, Running
<1>2. Top \in Frames /\ FrameOK(Top) /\ BackedFrame(A, Top) /\ world \in Worlds
    BY <1>1, BackedTop
<1>3. link \in Link
    BY <1>1, <1>2 DEF Frames
<1>4. /\ {} \in SUBSET Errors
      /\ {Error(link, "TimeBounds")} \in SUBSET Errors
      /\ {Error(link, "Expired")} \in SUBSET Errors
    BY <1>3, ErrorType DEF ErrorNames
<1>5. CASE /\ ~RefusedTimeBounds(link) /\ ~Expired(link)
           /\ Goto([Top EXCEPT !.pc = "notBefore"])
    <2> DEFINE g == [Top EXCEPT !.pc = "notBefore"]
    <2>1. /\ g \in Frames /\ g.pc = "notBefore" /\ SameCall(Top, g)
          /\ g.cands = Top.cands /\ g.i = Top.i /\ g.sources = Top.sources /\ g.atts = Top.atts
        BY <1>2 DEF Frames, SameCall
    <2> HIDE DEF g
    <2>2. BackedFrame(A, g)
        BY <1>2, <1>5, <2>1, BackedKeeps
    <2> QED BY <1>1, <1>5, <2>1, <2>2, BackedGotoStep DEF g
<1> QED BY <1>1, <1>4, <1>5, BackedRejectStep DEF CheckExpired

\* A proof is taken up where its signature makes it valid.
LEMMA BackedJudge ==
    ASSUME EInv, NEW A, Backed(A, stack, ret), stack # <<>>,
           Top.pc \in {"notBefore", "session"}, NEW verdict \in Verdicts,
           ret' = ret \/ ret' = NoReturn,
           verdict = "ok" => {} \in A[VouchersOf(Top.cands[Top.i], Top.pool)],
           Goto(Judge(Top, verdict))
    PROVE  Backed(A, stack', ret')
<1> DEFINE link == Top.cands[Top.i]
<1>1. Top \in Frames /\ FrameOK(Top) /\ BackedFrame(A, Top) /\ world \in Worlds
    BY BackedTop
<1>2. link \in Link
    BY <1>1 DEF FrameOK, Frames
<1>3. CASE verdict = "ok"
    <2>1. /\ Accept(Top, {}) \in Frames /\ Accept(Top, {}).pc = "validate"
          /\ SameCall(Top, Accept(Top, {}))
        BY <1>1, AcceptOK DEF Accept, Frames
    <2>2. BackedFrame(A, Accept(Top, {}))
        BY <1>1, <1>3, BackedAccept
    <2> QED BY <1>3, <2>1, <2>2, BackedGotoStep DEF Judge
<1>4. CASE verdict # "ok"
    <2>1. verdict \in ErrorNames
        BY <1>4 DEF Verdicts, ErrorNames
    <2>2. BadSignature(link, verdict) \in SUBSET Errors
        BY <1>2, <2>1, ErrorType DEF BadSignature
    <2> QED BY <1>4, <2>2, BackedRejectStep DEF Judge
<1> QED BY <1>3, <1>4

LEMMA BackedCheckNotBefore ==
    ASSUME EInv, NEW A, IsAnswer(Timely, A), Backed(A, stack, ret), CheckNotBefore
    PROVE  Backed(A, stack', ret')
<1> DEFINE link == Top.cands[Top.i]
<1>1. stack # <<>> /\ Top.pc = "notBefore" /\ ret' = ret
    BY DEF CheckNotBefore, Running
<1>2. Top \in Frames /\ FrameOK(Top) /\ BackedFrame(A, Top) /\ world \in Worlds
    BY <1>1, BackedTop
<1>3. link \in Link /\ link \in Top.pool /\ Top.pool \in SUBSET Link
    BY <1>1, <1>2 DEF FrameOK, Frames
<1>4. link \in Timely <=> ~NotValidBefore(link)
    BY <1>1, <1>2, <1>3, TimelyIff DEF BackedFrame
<1>5. CASE NotValidBefore(link) /\ Goto(Reject(Top, {Error(link, "NotValidBefore")}))
    <2>1. {Error(link, "NotValidBefore")} \in SUBSET Errors
        BY <1>3, ErrorType DEF ErrorNames
    <2> QED BY <1>1, <1>5, <2>1, BackedRejectStep
<1>6. ASSUME NEW verdict \in Verdicts, Goto(Judge(Top, verdict)), ~NotValidBefore(link),
             ~NeedsSession(link), Signed(link) <=> verdict = "ok"
      PROVE  Backed(A, stack', ret')
    <2>1. verdict = "ok" => {} \in A[VouchersOf(link, Top.pool)]
        BY <1>3, <1>4, <1>6, VoucherMembers
    <2> QED BY <1>1, <1>6, <2>1, BackedJudge
<1>7. CASE /\ ~NotValidBefore(link) /\ IsKeyDID(Dlg(link).iss)
           /\ Goto(Judge(Top, KeyVerdict(Dlg(link))))
    <2>1. ~NeedsSession(link) /\ (Signed(link) <=> KeyVerdict(Dlg(link)) = "ok")
        BY <1>7 DEF NeedsSession, Signed
    <2>2. KeyVerdict(Dlg(link)) \in Verdicts
        BY VerdictType
    <2> QED BY <1>6, <1>7, <2>1, <2>2
<1>8. CASE /\ ~NotValidBefore(link) /\ ~IsKeyDID(Dlg(link).iss) /\ Dlg(link).iss = Service
           /\ Goto(Judge(Top, AuthorityVerdict(Dlg(link))))
    <2>1. ~NeedsSession(link) /\ (Signed(link) <=> AuthorityVerdict(Dlg(link)) = "ok")
        BY <1>8 DEF NeedsSession, Signed
    <2>2. AuthorityVerdict(Dlg(link)) \in Verdicts
        BY VerdictType
    <2> QED BY <1>6, <1>8, <2>1, <2>2
<1>9. CASE /\ ~NotValidBefore(link) /\ ~IsKeyDID(Dlg(link).iss) /\ Dlg(link).iss # Service
           /\ ~NoCapability(Top, link)
           /\ Call([Top EXCEPT !.pc = "session"], SessionFrame(Top, link))
    <2> DEFINE f == [Top EXCEPT !.pc = "session"]
               g == SessionFrame(Top, link)
    <2>1. /\ f \in Frames /\ f.pc = "session" /\ SameCall(Top, f)
          /\ f.cands = Top.cands /\ f.i = Top.i /\ f.sources = Top.sources /\ f.atts = Top.atts
        BY <1>2 DEF Frames, SameCall
    <2>2. g \in Frames /\ g.pc = "validate" /\ g.sources = <<>> /\ g.atts = {}
        BY <1>2, <1>3, SessionFrameOK DEF SessionFrame, ClaimFrame
    <2>3. g.desc = AttestationOf(link) /\ g.pool = SessionPool(link, Top.pool)
        <3>1. {p \in Top.pool : p # link /\ Head(Dlg(p).caps).can = Attest} = SessionPool(link, Top.pool)
            BY <1>9 DEF NoCapability, SessionPool
        <3> QED BY <3>1 DEF SessionFrame, ClaimFrame
    <2> HIDE DEF f, g
    <2>4. link \in Timely /\ NeedsSession(link)
        BY <1>4, <1>9 DEF NeedsSession
    <2>5. BackedFrame(A, f)
        BY <1>2, <2>1, <2>4, BackedKeeps
    <2>6. BackedFrame(A, g)
        <3>1. g.pool \subseteq Available
            BY <1>2, <2>3 DEF SessionPool, BackedFrame
        <3> QED BY <2>2, <3>1, BackedFresh
    <2>7. DecidedCall(f, g)
        BY <2>1, <2>3 DEF DecidedCall, SameCall
    <2>8. Call(f, g)
        BY <1>9 DEF f, g
    <2> QED BY <1>1, <2>1, <2>2, <2>5, <2>6, <2>7, <2>8, BackedCallStep
<1> QED BY <1>5, <1>7, <1>8, <1>9 DEF CheckNotBefore

\* The pruner resolves no DID to a key: what needs an attestation has no other way.
LEMMA NoKeyResolved ==
    ASSUME ByPruner
    PROVE  /\ Context.resolveDIDKey = <<>> /\ Context.resolveProof = {}
           /\ Context.validateTimeBounds = Unset
           /\ \A dlg : ResolvedVerdict(dlg) = "DIDKeyResolutionError"
           /\ \A link : NeedsSession(link) => ~Signed(link)
<1>1. /\ Context.resolveDIDKey = <<>> /\ Context.resolveProof = {}
      /\ Context.validateTimeBounds = Unset
    BY DEF ByPruner, Context, ContextOf, NewServer, ServerConfig
<1>2. DOMAIN Context.resolveDIDKey = {}
    BY <1>1
<1> HIDE DEF Context
<1>3. \A dlg : ResolvedVerdict(dlg) = "DIDKeyResolutionError"
    BY <1>2 DEF ResolvedVerdict
<1>4. \A link : NeedsSession(link) => ~Signed(link)
    BY <1>3 DEF NeedsSession, Signed
<1> QED BY <1>1, <1>3, <1>4

LEMMA BackedSessionReturns ==
    ASSUME EInv, ByPruner, NEW A, IsAnswer(Timely, A), Backed(A, stack, ret), SessionReturns
    PROVE  Backed(A, stack', ret')
<1> DEFINE link   == Top.cands[Top.i]
           att    == [proof |-> link, links |-> AuthLinks(ret.auth)]
           desc   == AttestationOf(link)
           others == SessionPool(link, Top.pool)
<1>1. stack # <<>> /\ Top.pc = "session" /\ ret' = NoReturn
    BY DEF SessionReturns, Running
<1>2. /\ Top \in Frames /\ FrameOK(Top) /\ BackedFrame(A, Top)
      /\ world \in Worlds /\ ret \in Returns /\ Top = Last(stack)
    BY <1>1, BackedTop
<1>3. link \in Link /\ link \in Top.pool /\ Top.pool \in SUBSET Link
    BY <1>1, <1>2 DEF FrameOK, Frames
<1>4. link \in Timely /\ NeedsSession(link)
    BY <1>1, <1>2 DEF BackedFrame
<1>5. CASE ret.is = "ok" /\ Goto(Accept(Top, {att}))
    <2>1. {att} \in SUBSET Attestations
        BY <1>2, <1>3, LinksType DEF Returns, Attestations
    <2>2. BackedClaim(A, desc, others, AuthLinks(ret.auth))
        BY <1>1, <1>2, <1>5 DEF Backed, BackedReturn
    <2>3. others \in SUBSET Link /\ others \subseteq Top.pool
        BY <1>3 DEF SessionPool
    <2> HIDE DEF desc, others
    <2>4. PICK vouch \in ClaimRoutes(A, desc, others) : vouch \subseteq AuthLinks(ret.auth)
        BY <2>2 DEF BackedClaim
    <2>5. vouch \in A[VouchersOf(link, Top.pool)]
        BY <1>3, <1>4, <2>4, VoucherMembers DEF desc, others
    <2>6. AuthLinks(ret.auth) \subseteq Reach(Top.pool)
        <3>1. Top.pool \subseteq Below(Top.pool) /\ Below(Top.pool) \subseteq Link /\ Closed(Below(Top.pool))
            BY <1>2, <1>3, BelowClosed
        <3>2. Below(others) \subseteq Below(Top.pool)
            BY <2>3, <3>1, BelowLeast
        <3> QED BY <2>2, <3>2 DEF BackedClaim, Reach
    <2>7. att.proof = link /\ att.links = AuthLinks(ret.auth)
        OBVIOUS
    <2> HIDE DEF att, link
    <2>8. Backers({a \in {att} : a.proof = link}) = AuthLinks(ret.auth)
        <3>1. {a \in {att} : a.proof = link} = {att}
            BY <2>7
        <3>2. Backers({att}) = att.links
            BY DEF Backers
        <3> QED BY <2>7, <3>1, <3>2
    <2>9. BackedFrame(A, Accept(Top, {att}))
        BY <1>1, <1>2, <2>4, <2>5, <2>6, <2>7, <2>8, BackedAccept DEF link
    <2>10. Accept(Top, {att}) \in Frames /\ SameCall(Top, Accept(Top, {att}))
        BY <1>1, <1>2, <2>1, AcceptOK
    <2> QED BY <1>1, <1>5, <2>9, <2>10, BackedGotoStep
<1>6. CASE ret.is = "fail" /\ ret.failed /\ Goto(Reject(Top, SessionEscalation(link, ret.errs)))
    <2>1. SessionEscalation(link, ret.errs) \in SUBSET Errors
        BY <1>2, <1>3, ErrorType DEF SessionEscalation, ErrorNames, Returns
    <2> QED BY <1>1, <1>6, <2>1, BackedRejectStep
<1>7. CASE ret.is = "fail" /\ ~ret.failed /\ Goto(Judge(Top, ResolvedVerdict(Dlg(link))))
    <2>1. ResolvedVerdict(Dlg(link)) # "ok"
        BY NoKeyResolved
    <2>2. ResolvedVerdict(Dlg(link)) \in Verdicts
        BY VerdictType
    <2> QED BY <1>1, <1>7, <2>1, <2>2, BackedJudge
<1> QED BY <1>5, <1>6, <1>7 DEF SessionReturns

LEMMA BackedGrant ==
    ASSUME EInv, NEW A, IsAnswer(Timely, A), Backed(A, stack, ret), stack # <<>>,
           Top.j \in DOMAIN Top.sources, Selected(Top, Top.sources[Top.j]),
           NEW m, m = Match(Top, Top.sources[Top.j]),
           NEW sub \in Auths, BackedRoute(A, Top.desc, m, AuthLinks(sub)), Grant(Top, m, sub)
    PROVE  Backed(A, stack', ret')
<1> DEFINE auth == Auth(<<m>> \o sub.path, RelevantAttestations(Top, m) \cup sub.atts)
<1>1. Top = Last(stack) /\ StackOK(stack) /\ BackedStack(A, stack)
      /\ Top \in Frames /\ FrameOK(Top) /\ BackedFrame(A, Top) /\ world \in Worlds
    BY BackedTop
<1>2. CallBacked(A, Top, Granted(auth))
    BY <1>1, BackedGranted
<1> HIDE DEF auth
<1>3. ASSUME NEW link \in RevokedIn(auth),
             Goto(NextSource(Top, FALSE, Revoked(link))), ret' = NoReturn
      PROVE  Backed(A, stack', ret')
    <2>1. link \in Link
        BY ExplainedTop DEF RevokedIn, TypeOK
    <2>2. Revoked(link) \in SUBSET Errors
        BY <2>1, ErrorType DEF Revoked, ErrorNames
    <2> QED BY <1>3, <2>2, BackedNextStep
<1>4. CASE Return(Granted(auth))
    BY <1>1, <1>2, <1>4, BackedPopReturn DEF Return
<1>5. \/ \E link \in RevokedIn(auth) : Goto(NextSource(Top, FALSE, Revoked(link))) /\ ret' = NoReturn
      \/ Return(Granted(auth))
    BY DEF Grant, auth
<1> QED BY <1>3, <1>4, <1>5

LEMMA BackedTrySource ==
    ASSUME EInv, NEW A, IsAnswer(Timely, A), Backed(A, stack, ret), TrySource
    PROVE  Backed(A, stack', ret')
<1> DEFINE s == Top.sources[Top.j]
           m == Match(Top, s)
<1>1. stack # <<>> /\ Top.pc = "validate" /\ Top.i > Len(Top.cands) /\ Top.j <= Len(Top.sources)
    BY DEF TrySource, Running
<1>2. Top \in Frames /\ FrameOK(Top) /\ BackedFrame(A, Top) /\ world \in Worlds
    BY <1>1, BackedTop
<1>3. Top.j \in DOMAIN Top.sources /\ s \in Sources /\ Top.desc \in Descriptor
    BY <1>1, <1>2 DEF Frames
<1>4. m \in Sources
    BY <1>2, <1>3, MatchType DEF FrameOK
<1>5. CASE ~Selected(Top, s) /\ Goto(NextSource(Top, FALSE, SelectError(Top, s))) /\ UNCHANGED ret
    <2>1. SelectError(Top, s) \in SUBSET Errors
        BY <1>3, SelectErrorType DEF Sources
    <2> QED BY <1>1, <1>5, <2>1, BackedNextStep
<1>6. CASE Selected(Top, s) /\ Prune(m) /\ Grant(Top, m, NoAuth)
    <2>1. {m.link} \in A[RouteOf(Top.desc, m)]
        BY <1>3, <1>4, <1>6, RouteMembers
    <2>2. AuthLinks(NoAuth) = {} /\ NoAuth \in Auths
        BY DEF AuthLinks, NoAuth, Auth, Auths
    <2>3. BackedRoute(A, Top.desc, m, AuthLinks(NoAuth))
        BY <2>1, <2>2 DEF BackedRoute
    <2> HIDE DEF m
    <2> QED BY <1>1, <1>3, <1>6, <2>2, <2>3, BackedGrant DEF m
<1>7. CASE /\ Selected(Top, s) /\ ~Prune(m) /\ UNCHANGED ret
           /\ Call([Top EXCEPT !.pc = "authorize"], AuthorizeFrame(Top.desc, m))
    <2> DEFINE f == [Top EXCEPT !.pc = "authorize"]
               g == AuthorizeFrame(Top.desc, m)
    <2>1. /\ f \in Frames /\ f.pc = "authorize" /\ SameCall(Top, f)
          /\ f.sources = Top.sources /\ f.atts = Top.atts
        BY <1>2 DEF Frames, SameCall
    <2>2. /\ g \in Frames /\ g.pc = "validate" /\ g.sources = <<>> /\ g.atts = {}
          /\ g.desc = Top.desc /\ g.pool = ResolveProofs(m.link)
        BY <1>2, <1>3, <1>4, AuthorizeFrameOK DEF AuthorizeFrame, ClaimFrame
    <2> HIDE DEF f, g
    <2>3. BackedFrame(A, f)
        BY <1>2, <2>1, BackedKeeps
    <2>4. BackedFrame(A, g)
        BY <2>2, BackedFresh DEF ResolveProofs
    <2>5. DecidedCall(f, g)
        BY <2>1, <2>2 DEF DecidedCall, SameCall
    <2>6. Call(f, g)
        BY <1>7 DEF f, g
    <2> QED BY <1>1, <1>7, <2>1, <2>2, <2>3, <2>4, <2>5, <2>6, BackedCallStep
<1> QED BY <1>5, <1>6, <1>7 DEF TrySource

LEMMA BackedAuthorizeReturns ==
    ASSUME EInv, NEW A, IsAnswer(Timely, A), Backed(A, stack, ret), AuthorizeReturns
    PROVE  Backed(A, stack', ret')
<1> DEFINE s == Top.sources[Top.j]
           m == Match(Top, s)
<1>1. stack # <<>> /\ Top.pc = "authorize"
    BY DEF AuthorizeReturns, Running
<1>2. /\ Top \in Frames /\ FrameOK(Top) /\ BackedFrame(A, Top) /\ world \in Worlds
      /\ ret \in Returns /\ Top = Last(stack)
    BY <1>1, BackedTop
<1>3. Top.j \in DOMAIN Top.sources /\ s \in Sources /\ Selected(Top, s)
    BY <1>1, <1>2 DEF FrameOK, Frames
<1>4. m \in Sources /\ m.link = s.link
    BY <1>2, <1>3, MatchType DEF FrameOK
<1>5. CASE ret.is = "ok" /\ Grant(Top, m, ret.auth)
    <2>1. BackedRoute(A, Top.desc, m, AuthLinks(ret.auth))
        BY <1>1, <1>2, <1>5 DEF Backed, BackedReturn
    <2>2. ret.auth \in Auths
        BY <1>2 DEF Returns
    <2> HIDE DEF m
    <2> QED BY <1>1, <1>3, <1>5, <2>1, <2>2, BackedGrant DEF m
<1>6. CASE /\ ret.is = "fail" /\ ret' = NoReturn
           /\ Goto(NextSource(Top, TRUE, InvalidClaim(m.link, ret.errs)))
    <2>1. InvalidClaim(m.link, ret.errs) \in SUBSET Errors
        BY <1>2, <1>4, ErrorType DEF InvalidClaim, ErrorNames, Returns, Sources
    <2> QED BY <1>1, <1>6, <2>1, BackedNextStep
<1> QED BY <1>5, <1>6 DEF AuthorizeReturns

LEMMA BackedExhausted ==
    ASSUME EInv, NEW A, Backed(A, stack, ret), Exhausted
    PROVE  Backed(A, stack', ret')
<1>1. stack # <<>> /\ stack' = Front(stack) /\ ret' = Denied(Top.failed, Top.errs)
    BY DEF Exhausted, Running, Return
<1>2. Top = Last(stack) /\ StackOK(stack) /\ BackedStack(A, stack)
    BY <1>1, BackedTop
<1>3. CallBacked(A, Top, Denied(Top.failed, Top.errs))
    BY DEF CallBacked, Denied
<1> QED BY <1>1, <1>2, <1>3, BackedPopReturn

LEMMA BackedProvide ==
    ASSUME EInv, NEW A, Provide
    PROVE  Backed(A, stack', ret')
<1> DEFINE f == ClaimFrame(Provided, <<world.root>>, {world.root})
<1>1. stack = <<>> /\ ret = NoReturn /\ ret' = ret
    BY DEF Provide, EInv, ExplainedStage
<1>2. BackedReturn(A, stack', ret')
    BY <1>1 DEF BackedReturn, NoReturn
<1>3. CASE stack' = <<f>>
    <2>1. f.pc = "validate" /\ f.sources = <<>> /\ f.atts = {} /\ f.pool \subseteq Available
        BY ConstantsAssumption DEF ClaimFrame, EInv, IInv, IsWorld, Available
    <2> HIDE DEF f
    <2>2. BackedFrame(A, f)
        BY <2>1, BackedFresh
    <2>3. Len(stack') = 1 /\ stack'[1] = f
        BY <1>3
    <2> QED BY <1>2, <2>2, <2>3 DEF Backed, BackedStack
<1>4. CASE stack' = stack
    BY <1>1, <1>2, <1>4 DEF Backed, BackedStack
<1> QED BY <1>3, <1>4 DEF Provide

----------------------------------------------------------------------------
(* The invariant of the search.                                            *)

\* The pruner validates a draft, and the clock stands still.
Pruning == stage # "received" /\ Quiet /\ ByPruner

AllBacked == \A A : IsAnswer(Timely, A) => Backed(A, stack, ret)

PInv ==
    /\ EInv
    /\ SInv
    /\ Pruning /\ stage # "crashed" => AllBacked

LEMMA BackedSame ==
    ASSUME UNCHANGED <<world, now>>, \A A : IsAnswer(Timely, A) => Backed(A, stack', ret')
    PROVE  AllBacked'
<1> SUFFICES ASSUME NEW A, IsAnswer(Timely, A)' PROVE Backed(A, stack, ret)'
    BY DEF AllBacked
<1>1. Backed(A, stack', ret') /\ Timely' = Timely
    BY SameQuestions
<1>2. /\ \A l : Dlg(l)' = Dlg(l)
      /\ \A m : Prune(m)' <=> Prune(m)
      /\ \A l : RefusedTimeBounds(l)' <=> RefusedTimeBounds(l)
      /\ \A l : Expired(l)' <=> Expired(l)
      /\ \A l : NeedsSession(l)' <=> NeedsSession(l)
      /\ \A l : AttestationOf(l)' = AttestationOf(l)
      /\ \A l, pool : SessionPool(l, pool)' = SessionPool(l, pool)
      /\ \A l : ResolveProofs(l)' = ResolveProofs(l)
      /\ \A pool : Reach(pool)' = Reach(pool)
      /\ Available' = Available
      /\ \A desc, pool : Claims(A, desc, pool)' = Claims(A, desc, pool)
    BY SameClaims DEF Dlg, Prune, RefusedTimeBounds, Expired, NeedsSession, AttestationOf, SessionPool,
       Context, ResolveProofs, Available, Reach, Below, Closed
<1>3. ASSUME NEW f, BackedFrame(A, f) PROVE BackedFrame(A, f)'
    BY <1>1, <1>2, <1>3 DEF BackedFrame, Backing, Backers
<1>4. ASSUME NEW f, NEW g, DecidedCall(f, g) PROVE DecidedCall(f, g)'
    BY <1>2, <1>4 DEF DecidedCall
<1>5. \A desc, pool : ClaimRoutes(A, desc, pool)' = ClaimRoutes(A, desc, pool)
    BY SameClaims
<1>6. BackedStack(A, stack)'
    BY <1>1, <1>3, <1>4 DEF Backed, BackedStack
<1>7. ASSUME NEW desc, NEW pool, NEW links, BackedClaim(A, desc, pool, links)
      PROVE  BackedClaim(A, desc, pool, links)'
    BY <1>2, <1>5, <1>7 DEF BackedClaim
<1>8. ASSUME NEW desc, NEW m, NEW links, BackedRoute(A, desc, m, links)
      PROVE  BackedRoute(A, desc, m, links)'
    BY <1>2, <1>8 DEF BackedRoute
<1>9. BackedReturn(A, stack, ret)'
    BY <1>1, <1>2, <1>7, <1>8 DEF Backed, BackedReturn
<1> QED BY <1>6, <1>9 DEF Backed

LEMMA PInit == Init => PInv
BY ExplainedInit, SoundInit DEF Init, PInv, Pruning

LEMMA PStep == PInv /\ [Next]_vars => PInv'
<1> SUFFICES ASSUME PInv, [Next]_vars PROVE PInv'
    OBVIOUS
<1>1. EInv'
    BY ExplainedStep DEF PInv
<1>2. TypeOK /\ world \in Worlds /\ ret \in Returns
    BY DEF PInv, EInv, IInv, TypeOK, Returns
<1>3. SInv'
    BY SoundStep DEF PInv
<1>4. ASSUME Pruning', stage' # "crashed" PROVE AllBacked'
    <2>1. CASE Provide
        <3>1. UNCHANGED <<world, now>>
            BY <2>1 DEF Provide, env
        <3>2. \A A : IsAnswer(Timely, A) => Backed(A, stack', ret')
            BY <2>1, BackedProvide DEF PInv
        <3> QED BY <3>1, <3>2, BackedSame
    <2>2. CASE CheckExpired \/ CheckNotBefore \/ SessionReturns \/ TrySource \/ AuthorizeReturns
               \/ Exhausted
        <3>1. UNCHANGED <<world, now, revoked, stage, start>> /\ stage = "access"
            BY <2>2 DEF CheckExpired, CheckNotBefore, SessionReturns, TrySource,
               AuthorizeReturns, Exhausted, Running, env
        <3>2. Pruning /\ AllBacked /\ ByPruner
            BY <1>4, <3>1 DEF Pruning, Quiet, ByPruner, PInv
        <3>3. \A A : IsAnswer(Timely, A) => Backed(A, stack', ret')
            BY <2>2, <3>2, BackedCheckExpired, BackedCheckNotBefore, BackedSessionReturns,
               BackedTrySource, BackedAuthorizeReturns, BackedExhausted DEF PInv, AllBacked
        <3> QED BY <3>1, <3>3, BackedSame
    <2>3. CASE Answer \/ UNCHANGED vars
        <3>1. /\ UNCHANGED <<world, now, revoked, start, stack, ret>>
              /\ stage # "received" /\ stage # "crashed"
            BY <1>4, <2>3 DEF Answer, vars, env, Pruning
        <3>2. Pruning /\ AllBacked
            BY <1>4, <3>1 DEF Pruning, Quiet, ByPruner, PInv
        <3>3. \A A : IsAnswer(Timely, A) => Backed(A, stack', ret')
            BY <3>1, <3>2 DEF AllBacked
        <3> QED BY <3>1, <3>3, BackedSame
    <2>4. CASE Tick
        <3>1. now' = now + 1 /\ UNCHANGED <<stage, start>>
            BY <2>4 DEF Tick
        <3>2. now \in Int /\ start.now \in Int
            BY <1>2 DEF TypeOK
        <3>3. start.now <= now /\ now' = start.now
            BY <1>4, <3>1 DEF Pruning, Quiet, PInv, SInv, SoundStart
        <3> QED BY <3>1, <3>2, <3>3
    <2>5. CASE Revoke
        <3>1. \E link \in world.revocable \ revoked : revoked' = revoked \cup {link}
            BY <2>5 DEF Revoke
        <3>2. revoked' # revoked /\ revoked \subseteq revoked' /\ UNCHANGED <<stage, start>>
            BY <2>5, <3>1 DEF Revoke
        <3>3. start.revoked \subseteq revoked /\ revoked' = start.revoked
            BY <1>4, <3>2 DEF Pruning, Quiet, PInv, SInv, SoundStart
        <3> QED BY <3>2, <3>3
    <2>6. CASE SessionPanics
        BY <1>4, <2>6 DEF SessionPanics
    <2> QED BY <2>1, <2>2, <2>3, <2>4, <2>5, <2>6 DEF Next, Serve
<1> QED BY <1>1, <1>3, <1>4 DEF PInv

----------------------------------------------------------------------------
(* The delegation issued again.                                            *)

\* The kept proofs, with those of their own chains that are at hand.
Kept == UNION {Exported(p) : p \in PruneProofs(ret.auth)}

LEMMA ExportedClosed ==
    ASSUME world \in Worlds, NEW link \in Link
    PROVE  /\ link \in Exported(link) /\ Exported(link) \subseteq Link
           /\ \A l \in Exported(link) : Range(Dlg(l).prfs) \cap Available \subseteq Exported(link)
<1>1. link \in Exported(link) /\ Exported(link) \subseteq Link
    BY DEF Exported
<1>2. ASSUME NEW l \in Exported(link), NEW p \in Range(Dlg(l).prfs) \cap Available
      PROVE  p \in Exported(link)
    <2>1. p \in Link
        BY <1>1, <1>2, DlgType
    <2>2. ASSUME NEW S \in SUBSET Link, link \in S,
                 \A k \in S : Range(Dlg(k).prfs) \cap Available \subseteq S
          PROVE  p \in S
        BY <1>2, <2>2 DEF Exported
    <2> QED BY <2>1, <2>2 DEF Exported
<1> QED BY <1>1, <1>2

LEMMA ExportedLeast ==
    ASSUME NEW link, NEW S \in SUBSET Link, link \in S,
           \A l \in S : Range(Dlg(l).prfs) \cap Available \subseteq S
    PROVE  Exported(link) \subseteq S
BY DEF Exported

\* The draft is not among the kept proofs, and their own proofs are.
LEMMA KeptClosed ==
    ASSUME world \in Worlds, AuthLinks(ret.auth) \subseteq Reach({world.root}),
           NEW R, R = Below(Range(Dlg(world.root).prfs))
    PROVE  /\ R \in SUBSET Link /\ Closed(R) /\ world.root \notin R /\ world.root \in Link
           /\ PruneProofs(ret.auth) \subseteq Kept /\ Kept \subseteq R \cap Available
           /\ \A l \in Kept : Range(Dlg(l).prfs) \cap Available \subseteq Kept
<1> DEFINE root == world.root
           prfs == PruneProofs(ret.auth)
<1>1. root \in Link
    BY ConstantsAssumption DEF IsWorld
<1>2. Range(Dlg(root).prfs) \in SUBSET Link
    BY <1>1, DlgType
<1>3. /\ R \in SUBSET Link /\ Closed(R) /\ root \notin R
      /\ Range(Dlg(root).prfs) \subseteq R
    BY <1>1, <1>2, BelowClosed, NotBelowItself
<1>4. Below({root}) \subseteq {root} \cup R
    <2>1. {root} \cup R \in SUBSET Link /\ Closed({root} \cup R)
        BY <1>1, <1>3 DEF Closed
    <2> QED BY <2>1, BelowLeast
<1>5. prfs \subseteq R \cap Available
    BY <1>4 DEF Reach, PruneProofs, SelectProofs
<1>6. ASSUME NEW p \in prfs
      PROVE  /\ p \in Exported(p) /\ Exported(p) \subseteq R \cap Available
             /\ \A l \in Exported(p) : Range(Dlg(l).prfs) \cap Available \subseteq Exported(p)
    <2>1. R \cap Available \in SUBSET Link /\ p \in R \cap Available /\ p \in Link
        BY <1>3, <1>5
    <2>2. \A l \in R \cap Available : Range(Dlg(l).prfs) \cap Available \subseteq R \cap Available
        BY <1>3 DEF Closed
    <2> QED BY <2>1, <2>2, ExportedClosed, ExportedLeast
<1> QED BY <1>1, <1>3, <1>6 DEF Kept

LEMMA SetToSeqRange ==
    ASSUME NEW S \in SUBSET Link
    PROVE  SetToSeq(S) \in Seq(Link) /\ Range(SetToSeq(S)) = S
<1> DEFINE n == Cardinality(S)
           f == SetToSeq(S)
<1>1. IsFiniteSet(S) /\ n \in Nat /\ ExistsBijection(1..n, S)
    BY Sizes, FS_CardinalityType
<1>2. PICK g \in [1..n -> S] : IsInjective(g)
    BY <1>1 DEF ExistsBijection, Bijection, Injection
<1>3. f \in [1..n -> S] /\ IsInjective(f)
    BY <1>2 DEF SetToSeq
<1> HIDE DEF f
<1>4. f \in Injection(1..n, S)
    BY <1>3 DEF Injection
<1>5. Cardinality(1..n) = n
    BY <1>1, FS_Interval
<1> HIDE DEF n
<1>6. f \in Surjection(1..n, S)
    BY <1>1, <1>4, <1>5, FS_Injection DEF n
<1>7. Range(f) = S
    BY <1>3, <1>6 DEF Surjection, Range
<1>8. f \in Seq(Link)
    BY <1>1, <1>3
<1> QED BY <1>7, <1>8 DEF f

\* The other delegations are the same; the draft is issued again, so that its
\* signature holds if it did.
LEMMA ReissuedDelegations ==
    ASSUME world \in Worlds, AuthLinks(ret.auth) \subseteq Reach({world.root}),
           NEW root, root = world.root, NEW draft, draft = Dlg(root),
           NEW token, token = PrunedWorld.dlg[root]
    PROVE  /\ PrunedWorld.dlg \in [Link -> Delegation]
           /\ \A l \in Link \ {root} : PrunedWorld.dlg[l] = Dlg(l)
           /\ Range(token.prfs) = PruneProofs(ret.auth)
           /\ \A l \in Link : /\ PrunedWorld.dlg[l].iss = Dlg(l).iss
                              /\ PrunedWorld.dlg[l].aud = Dlg(l).aud
                              /\ PrunedWorld.dlg[l].caps = Dlg(l).caps
                              /\ PrunedWorld.dlg[l].exp = Dlg(l).exp
                              /\ PrunedWorld.dlg[l].nbf = Dlg(l).nbf
           /\ token.sig = [alg |-> draft.sig.alg, key |-> draft.sig.key,
                           over |-> SignaturePayload(token, draft.sig.alg)]
<1> DEFINE prfs == PruneProofs(ret.auth)
           bare == [draft EXCEPT !.prfs = SetToSeq(prfs)]
           sig  == [alg |-> draft.sig.alg, key |-> draft.sig.key,
                    over |-> SignaturePayload(bare, draft.sig.alg)]
<1>1. root \in Link /\ world.dlg \in [Link -> Delegation]
    BY ConstantsAssumption DEF IsWorld
<1>2. draft \in Delegation
    BY <1>1, DlgType
<1>3. SetToSeq(prfs) \in Seq(Link) /\ Range(SetToSeq(prfs)) = prfs
    <2>1. prfs \in SUBSET Link
        BY DEF PruneProofs, SelectProofs, Reach, Below
    <2> QED BY <2>1, SetToSeqRange
<1>4. PrunedWorld.dlg = [world.dlg EXCEPT ![root] = [bare EXCEPT !.sig = sig]]
    BY DEF PrunedWorld, Reissued, Sign, Signature, Dlg
<1> HIDE DEF prfs
<1>5. /\ bare \in Delegation
      /\ bare.prfs = SetToSeq(prfs) /\ bare.iss = draft.iss /\ bare.aud = draft.aud
      /\ bare.caps = draft.caps /\ bare.exp = draft.exp /\ bare.nbf = draft.nbf
    BY <1>2, <1>3 DEF Delegation
<1> HIDE DEF bare
<1>6. draft.sig.alg \in STRING /\ draft.sig.key \in Str
    BY <1>2 DEF Delegation
<1>7. SignaturePayload(bare, draft.sig.alg) \in Payloads
    BY <1>5, <1>6 DEF Delegation, Payloads, SignaturePayload
<1>8. sig \in [alg : STRING, key : Str, over : Payloads]
    BY <1>6, <1>7
<1> HIDE DEF sig
<1> DEFINE new == [bare EXCEPT !.sig = sig]
<1>9. /\ new \in Delegation /\ new.sig = sig
      /\ new.prfs = bare.prfs /\ new.iss = bare.iss /\ new.aud = bare.aud
      /\ new.caps = bare.caps /\ new.exp = bare.exp /\ new.nbf = bare.nbf
    BY <1>5, <1>8 DEF Delegation
<1> HIDE DEF new
<1>10. /\ PrunedWorld.dlg \in [Link -> Delegation] /\ token = new
       /\ \A l \in Link \ {root} : PrunedWorld.dlg[l] = Dlg(l)
    BY <1>1, <1>4, <1>9 DEF Dlg, new
<1>11. SignaturePayload(new, draft.sig.alg) = SignaturePayload(bare, draft.sig.alg)
    BY <1>9 DEF SignaturePayload
<1>12. ASSUME NEW l \in Link
       PROVE  /\ PrunedWorld.dlg[l].iss = Dlg(l).iss /\ PrunedWorld.dlg[l].aud = Dlg(l).aud
              /\ PrunedWorld.dlg[l].caps = Dlg(l).caps
              /\ PrunedWorld.dlg[l].exp = Dlg(l).exp /\ PrunedWorld.dlg[l].nbf = Dlg(l).nbf
    BY <1>5, <1>9, <1>10
<1> QED BY <1>3, <1>5, <1>9, <1>10, <1>11, <1>12 DEF sig, prfs

\* The graphs a draft may be pruned to.
Graphs ==
    {w \in [dlg : [Link -> Delegation], root : Link, attached : SUBSET Link,
            server : {"server", "retrieval"}, options : {v.options : v \in Worlds},
            revocable : SUBSET Link, altered : SUBSET Link, horizon : 1..MaxTime] :
        /\ IsWorld(w)
        /\ \A S \in SUBSET Link : S # {} => \E l \in S : Range(w.dlg[l].prfs) \cap S = {}}

LEMMA ReissuedGraph ==
    ASSUME world \in Worlds, ByPruner, AuthLinks(ret.auth) \subseteq Reach({world.root})
    PROVE  PrunedWorld \in Graphs
<1> DEFINE root == world.root
           w    == PrunedWorld
           R    == Below(Range(Dlg(root).prfs))
<1>1. IsWorld(world)
    BY ConstantsAssumption
<1>2. /\ R \in SUBSET Link /\ Closed(R) /\ root \notin R /\ root \in Link
      /\ PruneProofs(ret.auth) \subseteq Kept /\ Kept \subseteq R \cap Available
    BY KeptClosed
<1>3. /\ w.dlg \in [Link -> Delegation]
      /\ \A l \in Link \ {root} : w.dlg[l] = Dlg(l)
      /\ Range(w.dlg[root].prfs) = PruneProofs(ret.auth)
    BY ReissuedDelegations
<1>4. /\ w = [dlg |-> w.dlg, root |-> root, attached |-> {root} \cup Kept,
              server |-> world.server, options |-> world.options,
              revocable |-> world.revocable, altered |-> world.altered,
              horizon |-> world.horizon]
    BY DEF PrunedWorld, Reissued, Kept
<1> HIDE DEF w, R
<1>5. /\ w.root = root /\ w.attached = {root} \cup Kept /\ w.server = world.server
      /\ w.options = world.options /\ w.revocable = world.revocable
      /\ w.altered = world.altered /\ w.horizon = world.horizon
    BY <1>4
<1>6. ContextOf(w) = ContextOf(world)
    BY <1>5 DEF ContextOf
<1>7. IsWorld(w)
    <2>1. ContextOf(w).resolveProof = {}
        BY <1>6, NoKeyResolved DEF Context
    <2> QED BY <1>1, <1>2, <1>3, <1>5, <1>6, <2>1 DEF IsWorld
<1>8. ASSUME NEW S \in SUBSET Link, S # {}
      PROVE  \E l \in S : Range(w.dlg[l].prfs) \cap S = {}
    <2>1. CASE S \cap R # {}
        <3>1. PICK l \in S \cap R : Range(Dlg(l).prfs) \cap (S \cap R) = {}
            BY <1>2, <2>1, AcyclicAssumption DEF Dlg
        <3>2. Range(Dlg(l).prfs) \subseteq R /\ w.dlg[l] = Dlg(l)
            BY <1>2, <1>3, <3>1 DEF Closed
        <3> QED BY <3>1, <3>2
    <2>2. CASE S \cap R = {} /\ root \in S
        BY <1>2, <1>3, <2>2
    <2>3. CASE S \cap R = {} /\ root \notin S
        <3>1. PICK l \in S : Range(Dlg(l).prfs) \cap S = {}
            BY <1>8, AcyclicAssumption DEF Dlg
        <3> QED BY <1>3, <2>3, <3>1
    <2> QED BY <2>1, <2>2, <2>3
<1>9. w \in [dlg : [Link -> Delegation], root : Link, attached : SUBSET Link,
             server : {"server", "retrieval"}, options : {v.options : v \in Worlds},
             revocable : SUBSET Link, altered : SUBSET Link, horizon : 1..MaxTime]
    <2>1. world.options \in {v.options : v \in Worlds}
        OBVIOUS
    <2>2. /\ root \in Link /\ {root} \cup Kept \in SUBSET Link
          /\ world.server \in {"server", "retrieval"} /\ world.revocable \in SUBSET Link
          /\ world.altered \in SUBSET Link /\ world.horizon \in 1..MaxTime
        BY <1>1, <1>2 DEF IsWorld
    <2> QED BY <1>3, <1>4, <2>1, <2>2
<1> QED BY <1>7, <1>8, <1>9 DEF Graphs, w

----------------------------------------------------------------------------
(* The pruned graph.                                                       *)

\* The definition of what is authorized, and what is proved of it, where the
\* pruned graph is the world.
New == INSTANCE ReferenceProofs WITH world <- PrunedWorld, Worlds <- Graphs

LEMMA NewIsWorld == \A w : New!IsWorld(w) <=> IsWorld(w)
<1>1. \A w : New!ContextOf(w) = ContextOf(w)
    BY DEF ContextOf, New!ContextOf, NewServer, New!NewServer, NewRetrievalServer,
       New!NewRetrievalServer, ServerConfig, New!ServerConfig, SelfIssued, New!SelfIssued,
       IsSelfIssued, New!IsSelfIssued, Ed25519, New!Ed25519, Forwarded, New!Forwarded,
       Str, New!Str
<1>2. New!Delegation = Delegation /\ New!Str = Str
    BY DEF Delegation, New!Delegation, Str, New!Str, Capability, New!Capability,
       Payloads, New!Payloads
<1>3. \A f : New!Range(f) = Range(f)
    BY DEF Range, New!Range
<1> QED BY <1>1, <1>2, <1>3 DEF IsWorld, New!IsWorld

\* What is assumed of the worlds holds of these graphs.
LEMMA NewAssumptions ==
    /\ New!Attest \in New!Str
    /\ \A w \in Graphs : New!IsWorld(w)
    /\ Service \in New!Str /\ ServiceKey \in New!Str
    /\ Provided \in New!Descriptor
    /\ New!IsFiniteSet(Link) /\ Link \subseteq Caveats
    /\ MaxTime \in Nat \ {0}
    /\ \A w \in Graphs : \A S \in SUBSET Link :
          S # {} => \E l \in S : New!Range(w.dlg[l].prfs) \cap S = {}
<1>0. New!Attest = Attest /\ New!Str = Str /\ New!Descriptor = Descriptor
    BY DEF New!Attest, Attest, New!Str, Str, New!Descriptor, Descriptor
<1>1. New!IsFiniteSet(Link) <=> IsFiniteSet(Link)
    BY DEF New!IsFiniteSet, IsFiniteSet
<1>2. \A f : New!Range(f) = Range(f)
    BY DEF New!Range, Range
<1>3. \A w \in Graphs : \A S \in SUBSET Link :
          S # {} => \E l \in S : Range(w.dlg[l].prfs) \cap S = {}
    BY DEF Graphs
<1>4. \A w \in Graphs : New!IsWorld(w)
    BY NewIsWorld DEF Graphs
<1> QED BY <1>0, <1>1, <1>2, <1>3, <1>4, AttestAssumption, ConstantsAssumption

\* Values and capabilities are the same in every graph, and so is the context, which
\* the draft has from the server.
LEMMA NewValues ==
    /\ New!Str = Str /\ New!Attest = Attest /\ New!Capability = Capability
    /\ New!Sources = Sources /\ New!Descriptor = Descriptor /\ New!Questions = Questions
    /\ \A f : New!Range(f) = Range(f)
    /\ \A link, cap : New!Source(link, cap) = Source(link, cap)
    /\ \A desc, m : New!RouteOf(desc, m) = RouteOf(desc, m)
    /\ \A link, pool : New!VouchersOf(link, pool) = VouchersOf(link, pool)
    /\ \A did : New!IsKeyDID(did) <=> IsKeyDID(did)
<1>1. New!Str = Str /\ New!Attest = Attest
    BY DEF Str, New!Str, Attest, New!Attest
<1>2. New!Capability = Capability /\ New!Descriptor = Descriptor
    BY <1>1 DEF Capability, New!Capability, Descriptor, New!Descriptor
<1>3. New!Sources = Sources
    BY <1>2 DEF Sources, New!Sources
<1>4. New!Questions = Questions
    BY <1>2, <1>3 DEF Questions, New!Questions
<1> QED BY <1>1, <1>2, <1>3, <1>4 DEF Range, New!Range, Source, New!Source, RouteOf,
   New!RouteOf, VouchersOf, New!VouchersOf, IsKeyDID, New!IsKeyDID

LEMMA NewCapabilities ==
    /\ \A desc, cap : New!ParseCapability(desc, cap) <=> ParseCapability(desc, cap)
    /\ \A claimed, cap : New!ResolveCapability(claimed, cap) = ResolveCapability(claimed, cap)
    /\ \A desc, claimed, cap :
          New!SelectCapability(desc, claimed, cap) <=> SelectCapability(desc, claimed, cap)
<1>1. \A desc, with, nb : New!Reads(desc, with, nb) <=> Reads(desc, with, nb)
    BY DEF Reads, New!Reads
<1>2. \A desc, cap : New!ParseCapability(desc, cap) <=> ParseCapability(desc, cap)
    BY <1>1 DEF ParseCapability, New!ParseCapability
<1>3. \A source, uri : New!ResolveResource(source, uri) = ResolveResource(source, uri)
    BY DEF ResolveResource, New!ResolveResource, UcanStar, New!UcanStar
<1>4. \A claimed, cap : New!ResolveCapability(claimed, cap) = ResolveCapability(claimed, cap)
    BY <1>3 DEF ResolveCapability, New!ResolveCapability
<1>5. /\ \A s : New!IsWildcard(s) <=> IsWildcard(s)
      /\ \A s, t : New!IsPrefix(s, t) <=> IsPrefix(s, t)
      /\ \A s : New!Front(s) = Front(s)
    BY DEF IsWildcard, New!IsWildcard, IsPrefix, New!IsPrefix, Front, New!Front, Last, New!Last
<1>6. \A pattern, can : New!ResolveAbility(pattern, can) <=> ResolveAbility(pattern, can)
    BY <1>5 DEF ResolveAbility, New!ResolveAbility
<1>7. \A claimed, delegated : New!DefaultDerives(claimed, delegated) <=> DefaultDerives(claimed, delegated)
    BY <1>5 DEF DefaultDerives, New!DefaultDerives
<1>8. \A desc, claimed, delegated : New!Derives(desc, claimed, delegated) <=> Derives(desc, claimed, delegated)
    BY <1>7 DEF Derives, New!Derives
<1> QED BY <1>1, <1>2, <1>4, <1>6, <1>8 DEF SelectCapability, New!SelectCapability

LEMMA NewContext ==
    /\ New!Context = Context
    /\ \A link : New!Dlg(link) = PrunedWorld.dlg[link]
    /\ New!Available = PrunedWorld.attached \cup Context.resolveProof
<1>1. PrunedWorld.server = world.server /\ PrunedWorld.options = world.options
    BY DEF PrunedWorld, Reissued
<1>2. New!ContextOf(PrunedWorld) = ContextOf(PrunedWorld)
    BY DEF ContextOf, New!ContextOf, NewServer, New!NewServer, NewRetrievalServer,
       New!NewRetrievalServer, ServerConfig, New!ServerConfig, SelfIssued, New!SelfIssued,
       IsSelfIssued, New!IsSelfIssued, Ed25519, New!Ed25519, Forwarded, New!Forwarded, Str,
       New!Str
<1>3. ContextOf(PrunedWorld) = ContextOf(world)
    BY <1>1 DEF ContextOf
<1>4. New!Context = Context
    BY <1>2, <1>3 DEF Context, New!Context
<1> HIDE DEF PrunedWorld
<1> QED BY <1>4 DEF New!Dlg, New!Available

\* A verdict depends on the delegation only.
LEMMA NewSigned ==
    ASSUME NEW link
    PROVE  New!Signed(link) <=>
        LET dlg == PrunedWorld.dlg[link]
        IN  IF IsKeyDID(dlg.iss)      THEN KeyVerdict(dlg) = "ok"
            ELSE IF dlg.iss = Service THEN AuthorityVerdict(dlg) = "ok"
                                      ELSE ResolvedVerdict(dlg) = "ok"
<1>1. /\ \A did : New!KeyVerifier(did) = KeyVerifier(did)
      /\ \A verifier, did : New!WrapVerifier(verifier, did) = WrapVerifier(verifier, did)
      /\ \A did : New!IsKeyDID(did) <=> IsKeyDID(did)
      /\ \A codecs, did : New!Parses(codecs, did) <=> Parses(codecs, did)
    BY DEF KeyVerifier, New!KeyVerifier, WrapVerifier, New!WrapVerifier, Parses, New!Parses,
       IsKeyDID, New!IsKeyDID
<1>2. \A verifier, payload, sig : New!Verify(verifier, payload, sig) <=> Verify(verifier, payload, sig)
    BY DEF Verify, New!Verify, SignatureAlgorithm, New!SignatureAlgorithm, Ed25519,
       New!Ed25519, RSA, New!RSA
<1>3. \A ucan, alg : New!SignaturePayload(ucan, alg) = SignaturePayload(ucan, alg)
    BY DEF SignaturePayload, New!SignaturePayload
<1>4. \A ucan, verifier : New!VerifySignature(ucan, verifier) = VerifySignature(ucan, verifier)
    BY <1>2, <1>3 DEF VerifySignature, New!VerifySignature, CodeNames, New!CodeNames
<1>5. \A dlg : New!KeyVerdict(dlg) = KeyVerdict(dlg)
    BY <1>1, <1>4, NewContext DEF KeyVerdict, New!KeyVerdict
<1>6. \A dlg : New!AuthorityVerdict(dlg) = AuthorityVerdict(dlg)
    BY <1>1, <1>4 DEF AuthorityVerdict, New!AuthorityVerdict
<1>7. \A dlg : New!ResolvedVerdict(dlg) = ResolvedVerdict(dlg)
    BY <1>1, <1>4, NewContext DEF ResolvedVerdict, New!ResolvedVerdict
<1> QED BY <1>1, <1>5, <1>6, <1>7, NewContext DEF New!Signed

----------------------------------------------------------------------------
(* What pruning leaves the same.                                           *)

\* Pruning changes the proofs of the draft and its signature, nothing else.
LEMMA SameFields ==
    ASSUME world \in Worlds, ByPruner, AuthLinks(ret.auth) \subseteq Reach({world.root})
    PROVE  /\ \A l \in Link : /\ New!Dlg(l).iss = Dlg(l).iss /\ New!Dlg(l).aud = Dlg(l).aud
                              /\ New!Dlg(l).caps = Dlg(l).caps
                              /\ New!NeedsSession(l) <=> NeedsSession(l)
                              /\ l \in New!Timely <=> l \in Timely
           /\ \A m : m.link \in Link => (New!Prune(m) <=> Prune(m))
           /\ \A l : New!AttestationOf(l) = AttestationOf(l)
           /\ \A l, pool : pool \subseteq Link => New!SessionPool(l, pool) = SessionPool(l, pool)
           /\ \A desc, m, p : p \in Link => New!Grants(desc, m, p) = Grants(desc, m, p)
<1>1. \A l \in Link : /\ PrunedWorld.dlg[l].iss = Dlg(l).iss /\ PrunedWorld.dlg[l].aud = Dlg(l).aud
                      /\ PrunedWorld.dlg[l].caps = Dlg(l).caps
                      /\ PrunedWorld.dlg[l].exp = Dlg(l).exp /\ PrunedWorld.dlg[l].nbf = Dlg(l).nbf
    BY ReissuedDelegations
<1>2. ASSUME NEW l \in Link
      PROVE  /\ New!Dlg(l).iss = Dlg(l).iss /\ New!Dlg(l).aud = Dlg(l).aud
             /\ New!Dlg(l).caps = Dlg(l).caps
             /\ New!Dlg(l).exp = Dlg(l).exp /\ New!Dlg(l).nbf = Dlg(l).nbf
    <2>1. New!Dlg(l) = PrunedWorld.dlg[l]
        BY NewContext
    <2> QED BY <1>1, <2>1
<1>3. \A l \in Link : New!NeedsSession(l) <=> NeedsSession(l)
    BY <1>2, NewValues DEF NeedsSession, New!NeedsSession
<1>4. ASSUME NEW l \in Link PROVE l \in New!Timely <=> l \in Timely
    <2>1. New!InBounds(l, now) <=> InBounds(l, now)
        BY <1>2 DEF InBounds, New!InBounds, IsExpired, New!IsExpired, IsTooEarly, New!IsTooEarly
    <2>2. Context.validateTimeBounds = Unset
        BY NoKeyResolved
    <2>3. (l \in Timely <=> InBounds(l, now)) /\ (l \in New!Timely <=> New!InBounds(l, now))
        BY <2>2, NewContext DEF Timely, New!Timely
    <2> QED BY <2>1, <2>3
<1>5. \A m : m.link \in Link => (New!Prune(m) <=> Prune(m))
    BY <1>2, NewContext DEF Prune, New!Prune
<1>6. \A l : New!AttestationOf(l) = AttestationOf(l)
    BY NewContext, NewValues DEF AttestationOf, New!AttestationOf
<1>7. ASSUME NEW l, NEW pool \in SUBSET Link PROVE New!SessionPool(l, pool) = SessionPool(l, pool)
    BY <1>2, NewValues DEF SessionPool, New!SessionPool
<1>8. ASSUME NEW desc, NEW m, NEW p \in Link PROVE New!Grants(desc, m, p) = Grants(desc, m, p)
    <2>1. {d \in New!Range(New!Dlg(p).caps) : New!SelectCapability(desc, m.cap, d)}
              = {d \in Range(Dlg(p).caps) : SelectCapability(desc, m.cap, d)}
        BY <1>2, NewValues, NewCapabilities
    <2> QED BY <2>1, NewValues, NewCapabilities DEF Grants, New!Grants
<1> QED BY <1>2, <1>3, <1>4, <1>5, <1>6, <1>7, <1>8

\* The kept proofs have the same proofs and signatures, and only kept ones.
LEMMA SameKept ==
    ASSUME world \in Worlds, ByPruner, AuthLinks(ret.auth) \subseteq Reach({world.root}),
           NEW l \in Kept
    PROVE  /\ l \in Link
           /\ New!ResolveProofs(l) = ResolveProofs(l) /\ ResolveProofs(l) \subseteq Kept
           /\ New!Signed(l) <=> Signed(l)
<1> DEFINE root == world.root
           R    == Below(Range(Dlg(root).prfs))
<1>1. /\ R \in SUBSET Link /\ Closed(R) /\ root \notin R /\ Kept \subseteq R \cap Available
      /\ \A k \in Kept : Range(Dlg(k).prfs) \cap Available \subseteq Kept
    BY KeptClosed
<1>2. l \in Link \ {root} /\ Range(Dlg(l).prfs) \subseteq R
    BY <1>1 DEF Closed
<1> HIDE DEF R
<1>3. New!Dlg(l) = Dlg(l) /\ PrunedWorld.dlg[l] = Dlg(l)
    BY <1>2, ReissuedDelegations, NewContext
<1>4. New!Available = {root} \cup Kept
    <2>1. PrunedWorld.attached = {root} \cup Kept
        BY DEF PrunedWorld, Reissued, Kept
    <2> QED BY <2>1, NewContext, NoKeyResolved
<1>5. \A p \in Range(Dlg(l).prfs) : p \in New!Available <=> p \in Available
    BY <1>1, <1>2, <1>4
<1>6. \A p \in Range(Dlg(l).prfs) : New!Dlg(p).aud = Dlg(p).aud
    BY <1>1, <1>2, SameFields
<1>7. New!ResolveProofs(l) = ResolveProofs(l)
    BY <1>3, <1>5, <1>6, NewValues DEF ResolveProofs, New!ResolveProofs
<1>8. ResolveProofs(l) \subseteq Kept
    BY <1>1 DEF ResolveProofs
<1>9. New!Signed(l) <=> Signed(l)
    BY <1>3, NewSigned DEF Signed
<1> QED BY <1>2, <1>7, <1>8, <1>9

\* The draft issued again has the kept ones of its proofs, and a signature that
\* holds if that of the draft did.
LEMMA SameDraft ==
    ASSUME world \in Worlds, ByPruner, AuthLinks(ret.auth) \subseteq Reach({world.root})
    PROVE  /\ PruneProofs(ret.auth) \cap ResolveProofs(world.root) \subseteq New!ResolveProofs(world.root)
           /\ New!ResolveProofs(world.root) \subseteq Kept
           /\ Signed(world.root) => New!Signed(world.root)
<1> DEFINE root  == world.root
           draft == Dlg(root)
           token == PrunedWorld.dlg[root]
<1>1. /\ root \in Link /\ PruneProofs(ret.auth) \subseteq Kept
      /\ Kept \subseteq Available /\ Kept \subseteq Link
    BY KeptClosed
<1>2. /\ Range(token.prfs) = PruneProofs(ret.auth)
      /\ token.sig = [alg |-> draft.sig.alg, key |-> draft.sig.key,
                      over |-> SignaturePayload(token, draft.sig.alg)]
    BY ReissuedDelegations
<1>3. New!Dlg(root) = token /\ token.iss = draft.iss
    BY <1>1, NewContext, ReissuedDelegations
<1>4. New!Available = {root} \cup Kept
    <2>1. PrunedWorld.attached = {root} \cup Kept
        BY DEF PrunedWorld, Reissued, Kept
    <2> QED BY <2>1, NewContext, NoKeyResolved
<1> HIDE DEF token, draft
<1>5. New!ResolveProofs(root)
          = {p \in PruneProofs(ret.auth) : p \in New!Available /\ New!Dlg(p).aud = draft.iss}
    BY <1>2, <1>3, NewValues DEF New!ResolveProofs
<1>6. \A p \in PruneProofs(ret.auth) : New!Dlg(p).aud = Dlg(p).aud /\ p \in New!Available
    BY <1>1, <1>4, SameFields
<1>7. /\ PruneProofs(ret.auth) \cap ResolveProofs(root) \subseteq New!ResolveProofs(root)
      /\ New!ResolveProofs(root) \subseteq Kept
    BY <1>1, <1>5, <1>6 DEF ResolveProofs, draft
<1>8. ASSUME NEW verifier, VerifySignature(draft, verifier) = "ok"
      PROVE  VerifySignature(token, verifier) = "ok"
    BY <1>2, <1>3, <1>8 DEF VerifySignature, Verify
<1>9. Signed(root) => New!Signed(root)
    BY <1>2, <1>3, <1>8, NewSigned
       DEF Signed, draft, token, KeyVerdict, AuthorityVerdict, ResolvedVerdict
<1> QED BY <1>7, <1>9
----------------------------------------------------------------------------
(* What the kept proofs authorize.                                         *)

\* What is proved of the answers, for those in the pruned graph.
LEMMA NewAnswer ==
    ASSUME PrunedWorld \in Graphs
    PROVE  New!IsAnswer(New!Timely, New!Answers(New!Timely))
BY New!AnswersSettle, NewAssumptions, NoExpirationAssumption

LEMMA NewRouted ==
    ASSUME PrunedWorld \in Graphs, NEW B, New!IsAnswer(New!Timely, B),
           NEW desc \in Descriptor, NEW m \in Sources,
           \/ New!Prune(m)
           \/ \E p \in New!ResolveProofs(m.link) :
                 /\ New!Valid(B, p, New!ResolveProofs(m.link))
                 /\ \E n \in New!Grants(desc, m, p) : New!Routed(B, desc, n)
    PROVE  New!Routed(B, desc, m)
<1>1. desc \in New!Descriptor /\ m \in New!Sources
    BY NewValues
<1> QED BY <1>1, New!RoutedIff, NewAssumptions, NoExpirationAssumption

LEMMA NewValid ==
    ASSUME PrunedWorld \in Graphs, NEW B, New!IsAnswer(New!Timely, B),
           NEW pool \in SUBSET Link, NEW link \in pool, link \in New!Timely,
           IF ~New!NeedsSession(link) THEN New!Signed(link)
           ELSE New!Answerable(B, New!AttestationOf(link), New!SessionPool(link, pool))
    PROVE  New!Valid(B, link, pool)
<1> DEFINE desc   == New!AttestationOf(link)
           others == New!SessionPool(link, pool)
<1>1. \A d, o : d = desc /\ o = others =>
          (New!Valid(B, link, pool) <=>
              /\ link \in New!Timely
              /\ IF ~New!NeedsSession(link) THEN New!Signed(link)
                 ELSE \/ New!Answerable(B, d, o)
                      \/ /\ \A s \in New!Claims(B, d, o) : New!Routed(B, d, s)
                         /\ New!Signed(link))
    BY New!ValidIff, NewAssumptions, NoExpirationAssumption
<1> HIDE DEF desc, others
<1> QED BY <1>1 DEF desc, others

LEMMA NewAnswerable ==
    ASSUME world \in Worlds, ByPruner, AuthLinks(ret.auth) \subseteq Reach({world.root}),
           NEW A, NEW B, NEW desc, NEW pool, NEW s \in Claims(A, desc, pool),
           NEW some \in SUBSET Link, s.link \in some,
           New!Valid(B, s.link, some), New!Routed(B, desc, s)
    PROVE  New!Answerable(B, desc, some)
<1>1. PICK l \in pool : \E c \in Range(Dlg(l).caps) : ParseCapability(desc, c) /\ s = Source(l, c)
    BY DEF Claims
<1>2. PICK c \in Range(Dlg(l).caps) : ParseCapability(desc, c) /\ s = Source(l, c)
    BY <1>1
<1>3. s.link = l /\ l \in some
    BY <1>2 DEF Source
<1>4. l \in {k \in some : B[New!VouchersOf(k, some)] # {}}
    BY <1>3 DEF New!Valid
<1>5. c \in {d \in New!Range(New!Dlg(l).caps) : New!ParseCapability(desc, d)} /\ s = New!Source(l, c)
    BY <1>2, <1>3, SameFields, NewValues, NewCapabilities
<1>6. s \in {New!Source(l, d) : d \in {e \in New!Range(New!Dlg(l).caps) : New!ParseCapability(desc, e)}}
    BY <1>5
<1>7. s \in New!Claims(B, desc, some)
    BY <1>4, <1>6 DEF New!Claims
<1> QED BY <1>7 DEF New!Answerable
\* What is authorized by kept proofs is authorized where there are no others: a
\* match of a kept proof, and what makes a proof valid beside these proofs.
KeptHold(A, B, n) ==
    /\ \A desc \in Descriptor, m \in Sources :
          m.link \in Kept /\ Rank(RouteOf(desc, m)) < n /\ Routed(A, desc, m)
              => New!Routed(B, desc, m)
    /\ \A pool \in SUBSET Link : \A some \in SUBSET Kept : \A link \in pool \cap some :
          Rank(VouchersOf(link, pool)) < n =>
              \A links \in A[VouchersOf(link, pool)] :
                  links \cap pool \subseteq some => New!Valid(B, link, some)

LEMMA KeptHolds ==
    ASSUME NEW A, NEW B, NEW n, KeptHold(A, B, n), NEW pool \in SUBSET Link,
           NEW some \in SUBSET Kept, NEW link \in pool, link \in some,
           Rank(VouchersOf(link, pool)) < n,
           NEW links \in A[VouchersOf(link, pool)], links \cap pool \subseteq some
    PROVE  New!Valid(B, link, some)
BY DEF KeptHold

LEMMA KeptRoute ==
    ASSUME world \in Worlds, ByPruner, AuthLinks(ret.auth) \subseteq Reach({world.root}),
           NEW A, IsAnswer(Timely, A), NEW B, New!IsAnswer(New!Timely, B),
           NEW n \in Nat, KeptHold(A, B, n), NEW desc \in Descriptor, NEW m \in Sources,
           m.link \in Kept, Rank(RouteOf(desc, m)) < n + 1, Routed(A, desc, m)
    PROVE  New!Routed(B, desc, m)
<1> DEFINE pool == ResolveProofs(m.link)
<1>1. /\ m.link \in Link /\ New!ResolveProofs(m.link) = pool /\ pool \subseteq Kept
      /\ pool \in SUBSET Link
    BY SameKept, ResolveProofsType
<1>2. PrunedWorld \in Graphs
    BY ReissuedGraph
<1>3. CASE Prune(m)
    BY <1>1, <1>2, <1>3, SameFields, NewRouted
<1>4. CASE ~Prune(m)
    <2>1. PICK p \in pool : Valid(A, p, pool) /\ \E k \in Grants(desc, m, p) : Routed(A, desc, k)
        BY <1>4, RoutedIff
    <2>2. PICK k \in Grants(desc, m, p) : Routed(A, desc, k)
        BY <2>1
    <2>3. p \in Link /\ k \in Sources /\ k.link = p
        BY <1>1, <2>1, <2>2, GrantsType
    <2>4. /\ Rank(VouchersOf(p, pool)) < Rank(RouteOf(desc, m))
          /\ Rank(RouteOf(desc, k)) < Rank(RouteOf(desc, m))
        BY <2>1, <2>3, RouteRanks
    <2>5. /\ Rank(VouchersOf(p, pool)) \in Nat /\ Rank(RouteOf(desc, k)) \in Nat
          /\ Rank(RouteOf(desc, m)) \in Nat
        BY <1>1, <2>1, <2>3, QuestionsType, RankType
    <2>6. Rank(VouchersOf(p, pool)) < n /\ Rank(RouteOf(desc, k)) < n
        BY <2>4, <2>5
    <2> HIDE DEF pool
    <2>7. New!Routed(B, desc, k)
        BY <1>1, <2>1, <2>2, <2>3, <2>6 DEF KeptHold
    <2>8. PICK links \in A[VouchersOf(p, pool)] : TRUE
        BY <2>1 DEF Valid
    <2>9. New!Valid(B, p, pool)
        BY <1>1, <2>1, <2>6, <2>8 DEF KeptHold
    <2>10. k \in New!Grants(desc, m, p)
        <3>1. New!Grants(desc, m, p) = Grants(desc, m, p)
            BY <2>3, SameFields
        <3> QED BY <2>2, <3>1
    <2> QED BY <1>1, <1>2, <2>1, <2>7, <2>9, <2>10, NewRouted
<1> QED BY <1>3, <1>4

LEMMA KeptVouchers ==
    ASSUME world \in Worlds, ByPruner, AuthLinks(ret.auth) \subseteq Reach({world.root}),
           NEW A, IsAnswer(Timely, A), NEW B, New!IsAnswer(New!Timely, B),
           NEW n \in Nat, KeptHold(A, B, n), NEW pool \in SUBSET Link,
           NEW some \in SUBSET Kept, NEW link \in pool \cap some,
           Rank(VouchersOf(link, pool)) < n + 1,
           NEW links \in A[VouchersOf(link, pool)], links \cap pool \subseteq some
    PROVE  New!Valid(B, link, some)
<1> DEFINE desc   == AttestationOf(link)
           others == SessionPool(link, pool)
           rest   == SessionPool(link, some)
<1>1. /\ link \in Link /\ link \in Kept /\ some \in SUBSET Link /\ link \in some
      /\ PrunedWorld \in Graphs
    <2>1. Kept \in SUBSET Link
        BY KeptClosed
    <2> QED BY <2>1, ReissuedGraph
<1>2. /\ New!NeedsSession(link) <=> NeedsSession(link)
      /\ link \in New!Timely <=> link \in Timely
      /\ New!Signed(link) <=> Signed(link)
      /\ New!AttestationOf(link) = desc
      /\ New!SessionPool(link, some) = rest
    BY <1>1, SameFields, SameKept
<1>3. link \in Timely
    BY VoucherMembers
<1>4. CASE ~NeedsSession(link)
    <2>1. Signed(link)
        BY <1>4, VoucherMembers
    <2> QED BY <1>1, <1>2, <1>3, <1>4, <2>1, NewValid
<1>5. CASE NeedsSession(link)
    <2>1. links \in ClaimRoutes(A, desc, others)
        BY <1>5, VoucherMembers, NoKeyResolved
    <2>2. PICK s \in Claims(A, desc, others) :
              \E vouch \in A[VouchersOf(s.link, others)] :
                  \E route \in A[RouteOf(desc, s)] : links = vouch \cup route
        BY <2>1, ClaimMembers
    <2>3. PICK vouch \in A[VouchersOf(s.link, others)] :
              \E route \in A[RouteOf(desc, s)] : links = vouch \cup route
        BY <2>2
    <2>4. PICK route \in A[RouteOf(desc, s)] : links = vouch \cup route
        BY <2>3
    <2>5. /\ others \in SUBSET Link /\ others \subseteq pool /\ desc \in Descriptor
          /\ others \cap some \subseteq rest /\ rest \subseteq some /\ rest \in SUBSET Link
        <3>1. others \subseteq pool /\ desc \in Descriptor
            BY <1>1, AttestorsType, AttestationType
        <3>2. others \cap some \subseteq rest /\ rest \subseteq some
            BY DEF SessionPool
        <3> QED BY <1>1, <3>1, <3>2
    <2>6. s \in Sources /\ s.link \in others
        BY <2>5, ClaimsType
    <2>7. /\ Rank(VouchersOf(s.link, others)) < Rank(VouchersOf(link, pool))
          /\ Rank(RouteOf(desc, s)) < Rank(VouchersOf(link, pool))
        BY <2>5, <2>6, VoucherRanks
    <2>8. /\ Rank(VouchersOf(s.link, others)) \in Nat /\ Rank(RouteOf(desc, s)) \in Nat
          /\ Rank(VouchersOf(link, pool)) \in Nat
        BY <2>5, <2>6, QuestionsType, RankType
    <2>9. Rank(VouchersOf(s.link, others)) < n /\ Rank(RouteOf(desc, s)) < n
        BY <2>7, <2>8
    <2> HIDE DEF desc, others, rest
    <2>10. s.link \in route
        BY <2>4, <2>5, <2>6, RouteHasLink
    <2>11. s.link \in rest /\ s.link \in Kept
        BY <2>4, <2>5, <2>6, <2>10
    <2>12. Routed(A, desc, s)
        BY <2>4 DEF Routed
    <2>13. New!Routed(B, desc, s)
        BY <2>5, <2>6, <2>9, <2>11, <2>12 DEF KeptHold
    <2>14. vouch \cap others \subseteq rest /\ rest \in SUBSET Kept
        BY <2>4, <2>5
    <2>15. New!Valid(B, s.link, rest)
        BY <2>3, <2>5, <2>6, <2>9, <2>11, <2>14, KeptHolds
    <2>16. New!Answerable(B, desc, rest)
        BY <2>2, <2>5, <2>11, <2>13, <2>15, NewAnswerable
    <2> QED BY <1>1, <1>2, <1>3, <1>5, <2>16, NewValid
<1> QED BY <1>4, <1>5

\* By induction on the rank of the question.
LEMMA KeptAnswers ==
    ASSUME world \in Worlds, ByPruner, AuthLinks(ret.auth) \subseteq Reach({world.root}),
           NEW A, IsAnswer(Timely, A), NEW B, New!IsAnswer(New!Timely, B), NEW n \in Nat
    PROVE  KeptHold(A, B, n)
<1> DEFINE Open == {k \in Nat : ~KeptHold(A, B, k)}
<1>1. KeptHold(A, B, 0)
    <2>1. ASSUME NEW desc \in Descriptor, NEW m \in Sources PROVE ~(Rank(RouteOf(desc, m)) < 0)
        BY QuestionsType, RankType
    <2>2. ASSUME NEW pool \in SUBSET Link, NEW link \in pool
          PROVE  ~(Rank(VouchersOf(link, pool)) < 0)
        BY QuestionsType, RankType
    <2> QED BY <2>1, <2>2 DEF KeptHold
<1>2. ASSUME NEW k \in Nat, KeptHold(A, B, k) PROVE KeptHold(A, B, k + 1)
    BY <1>2, KeptRoute, KeptVouchers DEF KeptHold
<1>3. SUFFICES ASSUME Open # {} PROVE FALSE
    OBVIOUS
<1>4. PICK k \in Open : \A j \in Open : ~(<<j, k>> \in OpToRel(<, Nat))
    <2>1. Open \subseteq Nat
        OBVIOUS
    <2> HIDE DEF Open
    <2> QED BY <1>3, <2>1, WFMin, NatLessThanWellFounded, Zenon
<1>5. k \in Nat /\ \A j \in Open : ~(j < k)
    <2>1. k \in Nat /\ Open \subseteq Nat
        OBVIOUS
    <2> HIDE DEF Open
    <2> QED BY <1>4, <2>1, Zenon DEF OpToRel
<1>6. ~KeptHold(A, B, k)
    OBVIOUS
<1>7. k - 1 \in Nat /\ k - 1 < k /\ (k - 1) + 1 = k
    <2>1. k # 0
        BY <1>1, <1>6
    <2> QED BY <1>5, <2>1
<1>8. KeptHold(A, B, k - 1)
    BY <1>5, <1>7
<1> QED BY <1>2, <1>6, <1>7, <1>8

\* The draft issued again is authorized by the kept proofs.
LEMMA PrunedAuthorized ==
    ASSUME world \in Worlds, ByPruner, NEW A, IsAnswer(Timely, A),
           BackedClaim(A, Provided, {world.root}, AuthLinks(ret.auth))
    PROVE  New!Authorizations(New!Timely) # {}
<1> DEFINE root  == world.root
           links == AuthLinks(ret.auth)
           pool  == ResolveProofs(root)
           some  == New!ResolveProofs(root)
           B     == New!Answers(New!Timely)
<1>1. links \subseteq Reach({root})
    BY DEF BackedClaim
<1>2. PrunedWorld \in Graphs /\ New!IsAnswer(New!Timely, B)
    BY <1>1, ReissuedGraph, NewAnswer
<1>3. /\ root \in Link /\ root \notin Range(Dlg(root).prfs) /\ Kept \subseteq Link
    <2>1. root \in Link
        BY ConstantsAssumption DEF IsWorld
    <2>2. Range(Dlg(root).prfs) \subseteq Below(Range(Dlg(root).prfs))
        BY <2>1, DlgType, BelowClosed
    <2> QED BY <1>1, <2>1, <2>2, KeptClosed
<1>4. pool \in SUBSET Link /\ {root} \in SUBSET Link /\ root \in {root}
    BY <1>3, ResolveProofsType
<1> HIDE DEF B, root, links
<1>5. PICK X : X \in ClaimRoutes(A, Provided, {root}) /\ X \subseteq links
    BY DEF BackedClaim, links, root
<1>6. PICK s \in Claims(A, Provided, {root}) :
          \E vouch \in A[VouchersOf(s.link, {root})] :
              \E route \in A[RouteOf(Provided, s)] : X = vouch \cup route
    <2>1. \A own : X \in ClaimRoutes(A, Provided, own) =>
              \E s \in Claims(A, Provided, own) : \E vouch \in A[VouchersOf(s.link, own)] :
                  \E route \in A[RouteOf(Provided, s)] : X = vouch \cup route
        BY ClaimMembers
    <2> QED BY <1>5, <2>1
<1>7. PICK vouch \in A[VouchersOf(s.link, {root})] :
          \E route \in A[RouteOf(Provided, s)] : X = vouch \cup route
    BY <1>6
<1>8. PICK route \in A[RouteOf(Provided, s)] : X = vouch \cup route
    BY <1>7
<1>9. s \in Sources /\ s.link = root
    BY <1>4, <1>6, ClaimsType
<1>10. Provided \in Descriptor
    BY ConstantsAssumption
<1>11. /\ New!NeedsSession(root) <=> NeedsSession(root)
       /\ root \in New!Timely <=> root \in Timely
       /\ New!Prune(s) <=> Prune(s)
       /\ Signed(root) => New!Signed(root)
       /\ PruneProofs(ret.auth) \cap pool \subseteq some /\ some \subseteq Kept
    BY <1>1, <1>3, <1>9, SameFields, SameDraft DEF root, links
<1>12. New!Valid(B, root, {root})
    <2>1. SessionPool(root, {root}) = {}
        BY DEF SessionPool
    <2>2. Claims(A, AttestationOf(root), {}) = {}
        BY DEF Claims
    <2>3. vouch \notin ClaimRoutes(A, AttestationOf(root), SessionPool(root, {root}))
        BY <2>1, <2>2, ClaimMembers
    <2>4. root \in Timely /\ Signed(root)
        BY <1>4, <1>7, <1>9, <2>3, VoucherMembers
    <2>5. ~NeedsSession(root)
        BY <2>4, NoKeyResolved
    <2> QED BY <1>2, <1>4, <1>11, <2>4, <2>5, NewValid
<1>13. New!Routed(B, Provided, s)
    <2>1. CASE Prune(s)
        BY <1>2, <1>9, <1>10, <1>11, <2>1, NewRouted
    <2>2. CASE ~Prune(s)
        <3>1. PICK p \in pool : \E v \in A[VouchersOf(p, pool)] :
                  \E n \in Grants(Provided, s, p) : \E rest \in A[RouteOf(Provided, n)] :
                      route = {root} \cup v \cup rest
            BY <1>8, <1>9, <1>10, <2>2, RouteMembers
        <3>2. PICK v \in A[VouchersOf(p, pool)] :
                  \E n \in Grants(Provided, s, p) : \E rest \in A[RouteOf(Provided, n)] :
                      route = {root} \cup v \cup rest
            BY <3>1
        <3>3. PICK n \in Grants(Provided, s, p) : \E rest \in A[RouteOf(Provided, n)] :
                      route = {root} \cup v \cup rest
            BY <3>2
        <3>4. PICK rest \in A[RouteOf(Provided, n)] : route = {root} \cup v \cup rest
            BY <3>3
        <3>5. p \in Link /\ n \in Sources /\ n.link = p
            BY <1>4, <1>9, <3>1, <3>3, GrantsType
        <3>6. p \in rest
            BY <1>10, <3>4, <3>5, RouteHasLink
        <3>7. links \cap pool \subseteq some
            <4>1. root \notin pool
                BY <1>3 DEF ResolveProofs
            <4>2. links \cap pool \subseteq PruneProofs(ret.auth)
                BY <4>1 DEF PruneProofs, SelectProofs, links, root
            <4> QED BY <1>11, <4>2
        <3> HIDE DEF pool, some
        <3>8. p \in some /\ v \cap pool \subseteq some
            BY <1>5, <1>8, <3>1, <3>4, <3>6, <3>7
        <3>9. \A k \in Nat : KeptHold(A, B, k)
            BY <1>1, <1>2, KeptAnswers DEF links, root
        <3>10. New!Routed(B, Provided, n)
            <4>1. Rank(RouteOf(Provided, n)) \in Nat
                BY <1>10, <3>5, QuestionsType, RankType
            <4>2. KeptHold(A, B, Rank(RouteOf(Provided, n)) + 1)
                BY <3>9, <4>1
            <4>3. Routed(A, Provided, n)
                BY <3>4 DEF Routed
            <4> QED BY <1>10, <1>11, <3>5, <3>8, <4>1, <4>2, <4>3 DEF KeptHold
        <3>11. New!Valid(B, p, some)
            <4>1. Rank(VouchersOf(p, pool)) \in Nat
                BY <1>4, <3>1, QuestionsType, RankType
            <4>2. KeptHold(A, B, Rank(VouchersOf(p, pool)) + 1)
                BY <3>9, <4>1
            <4> QED BY <1>4, <1>11, <3>1, <3>2, <3>8, <4>1, <4>2, KeptHolds
        <3>12. n \in New!Grants(Provided, s, p)
            <4>1. New!Grants(Provided, s, p) = Grants(Provided, s, p)
                BY <1>1, <3>5, SameFields DEF links, root
            <4> QED BY <3>3, <4>1
        <3> QED BY <1>2, <1>9, <1>10, <3>8, <3>10, <3>11, <3>12, NewRouted DEF some
    <2> QED BY <2>1, <2>2
<1>14. New!Answerable(B, Provided, {root})
    BY <1>1, <1>4, <1>6, <1>9, <1>12, <1>13, NewAnswerable DEF links, root
<1>15. New!ClaimRoutes(B, Provided, {root}) # {}
    <2>1. \A desc, pl : New!ClaimRoutes(B, desc, pl) # {} <=> New!Answerable(B, desc, pl)
        BY New!ClaimRoutesIff, NewAssumptions, NoExpirationAssumption
    <2> QED BY <1>14, <2>1
<1>16. PrunedWorld.root = root
    BY DEF PrunedWorld, Reissued, root
<1> QED BY <1>15, <1>16 DEF New!Authorizations, B
----------------------------------------------------------------------------
(* The theorem.                                                            *)

\* The pruned graph is asked with the definition that ProofPruning instantiates
\* without its proofs: operator by operator it is the one above.
LEMMA SameDefinition ==
    Pruned!Authorizations(Pruned!Timely) = New!Authorizations(New!Timely)
<1>1. /\ Pruned!Str = New!Str /\ Pruned!Attest = New!Attest
      /\ \A did : Pruned!IsKeyDID(did) <=> New!IsKeyDID(did)
      /\ \A f : Pruned!Range(f) = New!Range(f)
      /\ \A link, cap : Pruned!Source(link, cap) = New!Source(link, cap)
      /\ \A desc, m : Pruned!RouteOf(desc, m) = New!RouteOf(desc, m)
      /\ \A link, pool : Pruned!VouchersOf(link, pool) = New!VouchersOf(link, pool)
    BY DEF Pruned!Str, New!Str, Pruned!Attest, New!Attest, Pruned!IsKeyDID, New!IsKeyDID,
       Pruned!Range, New!Range, Pruned!Source, New!Source, Pruned!RouteOf, New!RouteOf,
       Pruned!VouchersOf, New!VouchersOf
<1>2. Pruned!Questions = New!Questions
    BY <1>1 DEF Pruned!Questions, New!Questions, Pruned!Descriptor, New!Descriptor,
       Pruned!Sources,
       New!Sources, Pruned!Capability, New!Capability
<1>3. /\ \A desc, cap : Pruned!ParseCapability(desc, cap) <=> New!ParseCapability(desc, cap)
      /\ \A claimed, cap : Pruned!ResolveCapability(claimed, cap) = New!ResolveCapability(claimed, cap)
    BY DEF Pruned!ParseCapability, New!ParseCapability, Pruned!Reads, New!Reads,
       Pruned!ResolveCapability, New!ResolveCapability, Pruned!ResolveResource,
       New!ResolveResource, Pruned!UcanStar, New!UcanStar
<1>4. \A pattern, can : Pruned!ResolveAbility(pattern, can) <=> New!ResolveAbility(pattern, can)
    BY DEF Pruned!ResolveAbility, New!ResolveAbility, Pruned!IsWildcard, New!IsWildcard,
       Pruned!IsPrefix, New!IsPrefix, Pruned!Front, New!Front, Pruned!Last, New!Last
<1>5. \A desc, claimed, cap : Pruned!Derives(desc, claimed, cap) <=> New!Derives(desc, claimed, cap)
    BY DEF Pruned!Derives, New!Derives, Pruned!DefaultDerives, New!DefaultDerives,
       Pruned!IsWildcard, New!IsWildcard, Pruned!IsPrefix, New!IsPrefix, Pruned!Front,
       New!Front, Pruned!Last, New!Last
<1>6. \A desc, claimed, cap :
          Pruned!SelectCapability(desc, claimed, cap) <=> New!SelectCapability(desc, claimed, cap)
    BY <1>3, <1>4, <1>5 DEF Pruned!SelectCapability, New!SelectCapability, Pruned!Reads,
       New!Reads
<1>7. Pruned!Context = New!Context
    BY DEF Pruned!Context, New!Context, Pruned!ContextOf, New!ContextOf, Pruned!NewServer,
       New!NewServer, Pruned!NewRetrievalServer, New!NewRetrievalServer,
       Pruned!ServerConfig, New!ServerConfig, Pruned!SelfIssued, New!SelfIssued,
       Pruned!IsSelfIssued, New!IsSelfIssued, Pruned!Ed25519, New!Ed25519,
       Pruned!Forwarded, New!Forwarded, Pruned!Str, New!Str
<1>8. (\A link : Pruned!Dlg(link) = New!Dlg(link)) /\ Pruned!Available = New!Available
    BY <1>7 DEF Pruned!Dlg, New!Dlg, Pruned!Available, New!Available
<1>9. \A ucan, verifier : Pruned!VerifySignature(ucan, verifier) = New!VerifySignature(ucan, verifier)
    BY DEF Pruned!VerifySignature, New!VerifySignature, Pruned!Verify, New!Verify,
       Pruned!SignaturePayload, New!SignaturePayload, Pruned!SignatureAlgorithm,
       New!SignatureAlgorithm, Pruned!CodeNames, New!CodeNames, Pruned!Ed25519,
       New!Ed25519, Pruned!RSA, New!RSA
<1>10. \A link : Pruned!Signed(link) <=> New!Signed(link)
    BY <1>1, <1>7, <1>8, <1>9 DEF Pruned!Signed, New!Signed, Pruned!KeyVerdict, New!KeyVerdict,
       Pruned!AuthorityVerdict, New!AuthorityVerdict, Pruned!ResolvedVerdict,
       New!ResolvedVerdict, Pruned!KeyVerifier, New!KeyVerifier, Pruned!WrapVerifier,
       New!WrapVerifier, Pruned!Parses, New!Parses
<1>11. /\ \A link : Pruned!ResolveProofs(link) = New!ResolveProofs(link)
       /\ \A m : Pruned!Prune(m) <=> New!Prune(m)
       /\ \A link : Pruned!AttestationOf(link) = New!AttestationOf(link)
       /\ \A link, pool : Pruned!SessionPool(link, pool) = New!SessionPool(link, pool)
       /\ \A desc, m, p : Pruned!Grants(desc, m, p) = New!Grants(desc, m, p)
       /\ Pruned!Timely = New!Timely
    <2>1. \A link : Pruned!ResolveProofs(link) = New!ResolveProofs(link)
        BY <1>1, <1>8 DEF Pruned!ResolveProofs, New!ResolveProofs
    <2>2. \A m : Pruned!Prune(m) <=> New!Prune(m)
        BY <1>7, <1>8 DEF Pruned!Prune, New!Prune
    <2>3. \A link : Pruned!AttestationOf(link) = New!AttestationOf(link)
        BY <1>1, <1>7 DEF Pruned!AttestationOf, New!AttestationOf
    <2>4. \A link, pool : Pruned!SessionPool(link, pool) = New!SessionPool(link, pool)
        BY <1>1, <1>8 DEF Pruned!SessionPool, New!SessionPool
    <2>5. \A desc, m, p : Pruned!Grants(desc, m, p) = New!Grants(desc, m, p)
        BY <1>1, <1>3, <1>6, <1>8 DEF Pruned!Grants, New!Grants
    <2>6. Pruned!Timely = New!Timely
        BY <1>7, <1>8 DEF Pruned!Timely, New!Timely, Pruned!InBounds, New!InBounds,
           Pruned!RefusedTimeBounds,
           New!RefusedTimeBounds, Pruned!IsExpired, New!IsExpired, Pruned!IsTooEarly,
           New!IsTooEarly
    <2> QED BY <2>1, <2>2, <2>3, <2>4, <2>5, <2>6
<1>12. \A B, desc, m : Pruned!Routes(B, desc, m) = New!Routes(B, desc, m)
    <2> SUFFICES ASSUME NEW B, NEW desc, NEW m PROVE Pruned!Routes(B, desc, m) = New!Routes(B, desc, m)
        OBVIOUS
    <2> DEFINE pool   == New!ResolveProofs(m.link)
               Opt(p) == [vouch : B[New!VouchersOf(p, pool)],
                          rest  : UNION {B[New!RouteOf(desc, n)] : n \in New!Grants(desc, m, p)}]
               Opts   == UNION {Opt(p) : p \in pool}
               All    == IF New!Prune(m) THEN {{m.link}}
                         ELSE {{m.link} \cup x.vouch \cup x.rest : x \in Opts}
    <2>1. New!Routes(B, desc, m) = All
        BY DEF New!Routes
    <2>2. ASSUME NEW p
          PROVE  /\ Pruned!VouchersOf(p, Pruned!ResolveProofs(m.link)) = New!VouchersOf(p, pool)
                 /\ {B[Pruned!RouteOf(desc, n)] : n \in Pruned!Grants(desc, m, p)}
                        = {B[New!RouteOf(desc, n)] : n \in New!Grants(desc, m, p)}
        BY <1>1, <1>11
    <2>3. Pruned!Routes(B, desc, m) = All
        BY <1>11, <2>2, Zenon DEF Pruned!Routes
    <2> QED BY <2>1, <2>3
<1>13. \A B, desc, pool : Pruned!Claims(B, desc, pool) = New!Claims(B, desc, pool)
    BY <1>1, <1>3, <1>8 DEF Pruned!Claims, New!Claims
<1>14. \A B, desc, pool : Pruned!ClaimRoutes(B, desc, pool) = New!ClaimRoutes(B, desc, pool)
    <2> SUFFICES ASSUME NEW B, NEW desc, NEW pool, NEW links
                 PROVE  links \in Pruned!ClaimRoutes(B, desc, pool)
                            <=> links \in New!ClaimRoutes(B, desc, pool)
        OBVIOUS
    <2>1. links \in Pruned!ClaimRoutes(B, desc, pool) <=>
              \E s \in Pruned!Claims(B, desc, pool) :
                  \E vouch \in B[Pruned!VouchersOf(s.link, pool)] :
                      \E route \in B[Pruned!RouteOf(desc, s)] : links = vouch \cup route
        BY DEF Pruned!ClaimRoutes
    <2>2. links \in New!ClaimRoutes(B, desc, pool) <=>
              \E s \in New!Claims(B, desc, pool) :
                  \E vouch \in B[New!VouchersOf(s.link, pool)] :
                      \E route \in B[New!RouteOf(desc, s)] : links = vouch \cup route
        BY DEF New!ClaimRoutes
    <2> QED BY <1>1, <1>13, <2>1, <2>2
<1>15. \A timely, B, link, pool :
           Pruned!Vouchers(timely, B, link, pool) = New!Vouchers(timely, B, link, pool)
    BY <1>1, <1>8, <1>10, <1>11, <1>13, <1>14 DEF Pruned!Vouchers, New!Vouchers
<1>16. \A timely : Pruned!Answers(timely) = New!Answers(timely)
    BY <1>2, <1>12, <1>15 DEF Pruned!Answers, New!Answers
<1> QED
    BY <1>11, <1>14, <1>16 DEF Pruned!Authorizations, New!Authorizations

\* The pruned proofs authorize the delegation on their own, whatever else the
\* draft carried (core/delegation/delegate.go 96-97; validator/proof_pruning.go
\* 37-48, 113-169).
THEOREM PruningKeepsAuthority == Spec => []PrunedStillAuthorizes
<1>1. PInv => PrunedStillAuthorizes
    <2> SUFFICES ASSUME PInv, stage = "handled", Quiet, ByPruner
                 PROVE  Pruned!Authorizations(Pruned!Timely) # {}
        BY DEF PrunedStillAuthorizes
    <2> DEFINE A == Answers(Timely)
    <2>1. world \in Worlds /\ stack = <<>> /\ ret.is = "ok"
        BY DEF PInv, EInv, IInv, StageOK, TypeOK
    <2>2. IsAnswer(Timely, A)
        BY <2>1, AnswersSettle
    <2> HIDE DEF A
    <2>3. Backed(A, stack, ret)
        BY <2>2 DEF PInv, Pruning, AllBacked
    <2>4. BackedClaim(A, Provided, {world.root}, AuthLinks(ret.auth))
        BY <2>1, <2>3 DEF Backed, BackedReturn
    <2>5. New!Authorizations(New!Timely) # {}
        BY <2>1, <2>2, <2>4, PrunedAuthorized
    <2> QED BY <2>5, SameDefinition
<1> QED BY <1>1, PInit, PStep, PTL DEF Spec
=============================================================================
