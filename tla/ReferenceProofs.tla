--------------------------- MODULE ReferenceProofs ---------------------------
(***************************************************************************)
(* Access finds an authorization exactly when the definition without a     *)
(* search has one, for all delegation graphs.  That definition is shown to *)
(* have a value, question after question down the graph.  The inductive    *)
(* invariant then says of each active call what it has settled: which      *)
(* proofs have become sources, and that none of the sources it is past is  *)
(* authorized.                                                             *)
(***************************************************************************)
EXTENDS ValidatorReference, ValidatorProofs, WellFoundedInduction

----------------------------------------------------------------------------
(* The questions have answers.                                             *)

\* What the answer to a question is made from.
Settle(timely, f, q) ==
    IF q.ask = "route" THEN Routes(f, q.desc, q.match)
                       ELSE Vouchers(timely, f, q.link, q.pool)

IsAnswer(timely, A) == A = [q \in Questions |-> Settle(timely, A, q)]

\* A question is settled by questions of a smaller rank: those about the proofs
\* of the match, or about the other proofs of the pool.
Rank(q) ==
    IF q.ask = "route" THEN 2 * Weight(ResolveProofs(q.match.link)) + 1
                       ELSE 2 * Weight(q.pool)

\* What a match, and a pool, are made from, has its type.
LEMMA GrantsType ==
    ASSUME world \in Worlds, NEW desc, NEW m \in Sources, NEW p \in Link,
           NEW n \in Grants(desc, m, p)
    PROVE  n \in Sources /\ n.link = p
<1>1. PICK c \in Range(Dlg(p).caps) : n = Source(p, ResolveCapability(m.cap, c))
    BY DEF Grants
<1>2. c \in Capability
    BY DlgType
<1> QED BY <1>1, <1>2 DEF Sources, Source, ResolveCapability, ResolveResource, Capability

LEMMA ClaimsType ==
    ASSUME world \in Worlds, NEW A, NEW desc, NEW pool \in SUBSET Link,
           NEW s \in Claims(A, desc, pool)
    PROVE  s \in Sources /\ s.link \in pool
<1>1. PICK l \in pool : \E c \in Range(Dlg(l).caps) : s = Source(l, c)
    BY DEF Claims
<1>2. Range(Dlg(l).caps) \subseteq Capability
    BY DlgType
<1> QED BY <1>1, <1>2 DEF Sources, Source

LEMMA AttestorsType ==
    ASSUME NEW link, NEW pool \in SUBSET Link
    PROVE  SessionPool(link, pool) \subseteq pool /\ link \notin SessionPool(link, pool)
BY DEF SessionPool

LEMMA QuestionsType ==
    /\ \A desc \in Descriptor, m \in Sources :
          /\ RouteOf(desc, m) \in Questions
          /\ RouteOf(desc, m).ask = "route"
          /\ RouteOf(desc, m).desc = desc /\ RouteOf(desc, m).match = m
    /\ \A pool \in SUBSET Link : \A link \in pool :
          /\ VouchersOf(link, pool) \in Questions
          /\ VouchersOf(link, pool).ask # "route"
          /\ VouchersOf(link, pool).link = link /\ VouchersOf(link, pool).pool = pool
BY DEF Questions, RouteOf, VouchersOf

LEMMA RankType ==
    ASSUME world \in Worlds, NEW q \in Questions
    PROVE  Rank(q) \in Nat
<1>1. CASE q.ask = "route"
    <2>1. q.match.link \in Link
        BY <1>1 DEF Questions, Sources
    <2>2. ResolveProofs(q.match.link) \in SUBSET Link
        BY <2>1, ResolveProofsType
    <2>3. Weight(ResolveProofs(q.match.link)) \in Nat
        BY <2>2, WeightType
    <2> QED BY <1>1, <2>3 DEF Rank
<1>2. CASE q.ask # "route"
    <2>1. q.pool \in SUBSET Link
        BY <1>2 DEF Questions
    <2>2. Weight(q.pool) \in Nat
        BY <2>1, WeightType
    <2> QED BY <1>2, <2>2 DEF Rank
<1> QED BY <1>1, <1>2

\* A match is settled by its proofs and their matches, a proof by the others of its
\* pool and their matches: questions of a smaller rank.
LEMMA RouteRanks ==
    ASSUME world \in Worlds, NEW desc \in Descriptor, NEW m \in Sources,
           NEW p \in ResolveProofs(m.link)
    PROVE  /\ Rank(VouchersOf(p, ResolveProofs(m.link))) < Rank(RouteOf(desc, m))
           /\ \A n \in Sources : n.link = p => Rank(RouteOf(desc, n)) < Rank(RouteOf(desc, m))
<1> DEFINE pool == ResolveProofs(m.link)
<1>1. m.link \in Link /\ pool \in SUBSET Link /\ p \in Link
    BY ResolveProofsType DEF Sources
<1>2. Rank(RouteOf(desc, m)) = 2 * Weight(pool) + 1 /\ Weight(pool) \in Nat
    BY <1>1, QuestionsType, WeightType DEF Rank
<1>3. Rank(VouchersOf(p, pool)) = 2 * Weight(pool)
    BY <1>1, QuestionsType DEF Rank
<1>4. ASSUME NEW n \in Sources, n.link = p PROVE Rank(RouteOf(desc, n)) < Rank(RouteOf(desc, m))
    <2>1. Rank(RouteOf(desc, n)) = 2 * Weight(ResolveProofs(p)) + 1
        BY <1>4, QuestionsType DEF Rank
    <2>2. ResolveProofs(p) \in SUBSET Link
        BY <1>1, ResolveProofsType
    <2>3. Weight(ResolveProofs(p)) \in Nat /\ Weight(ResolveProofs(p)) + 1 <= Weight(pool)
        BY <1>1, <2>2, AuthorizeLighter, WeightType
    <2> QED BY <1>2, <2>1, <2>3
<1> QED BY <1>2, <1>3, <1>4

LEMMA VoucherRanks ==
    ASSUME world \in Worlds, NEW pool \in SUBSET Link, NEW link \in pool,
           NEW others, others = SessionPool(link, pool), NEW desc \in Descriptor,
           NEW s \in Sources, s.link \in others
    PROVE  /\ Rank(VouchersOf(s.link, others)) < Rank(VouchersOf(link, pool))
           /\ Rank(RouteOf(desc, s)) < Rank(VouchersOf(link, pool))
<1>1. link \in Link /\ others \in SUBSET Link
    BY AttestorsType
<1>2. Weight(others) + 1 <= Weight(pool) /\ Weight(others) \in Nat /\ Weight(pool) \in Nat
    BY <1>1, AttestorsType, SmallerPool, WeightType
<1>3. Rank(VouchersOf(link, pool)) = 2 * Weight(pool)
    BY QuestionsType DEF Rank
<1>4. Rank(VouchersOf(s.link, others)) = 2 * Weight(others)
    BY <1>1, QuestionsType DEF Rank
<1>5. Rank(RouteOf(desc, s)) = 2 * Weight(ResolveProofs(s.link)) + 1
    BY QuestionsType DEF Rank
<1>6. ResolveProofs(s.link) \in SUBSET Link
    BY <1>1, ResolveProofsType
<1>7. Weight(ResolveProofs(s.link)) \in Nat /\ Weight(ResolveProofs(s.link)) + 1 <= Weight(others)
    BY <1>1, <1>6, AuthorizeLighter, WeightType
<1> QED BY <1>2, <1>3, <1>4, <1>5, <1>7

\* The answer to a question rests on the answers to questions of a smaller rank.
LEMMA RoutesRest ==
    ASSUME world \in Worlds, NEW desc \in Descriptor, NEW m \in Sources, NEW f, NEW g,
           \A r \in Questions : Rank(r) < Rank(RouteOf(desc, m)) => f[r] = g[r]
    PROVE  Routes(f, desc, m) = Routes(g, desc, m)
<1> DEFINE pool == ResolveProofs(m.link)
<1>1. m.link \in Link /\ pool \in SUBSET Link
    BY ResolveProofsType DEF Sources
<1>2. ASSUME NEW p \in pool PROVE f[VouchersOf(p, pool)] = g[VouchersOf(p, pool)]
    BY <1>1, QuestionsType, RouteRanks
<1>3. ASSUME NEW p \in pool, NEW n \in Grants(desc, m, p)
      PROVE  f[RouteOf(desc, n)] = g[RouteOf(desc, n)]
    <2>1. p \in Link /\ n \in Sources /\ n.link = p
        BY <1>1, GrantsType
    <2> QED BY <2>1, QuestionsType, RouteRanks
<1> HIDE DEF pool
<1>4. ASSUME NEW p \in pool
      PROVE  UNION {f[RouteOf(desc, n)] : n \in Grants(desc, m, p)}
                = UNION {g[RouteOf(desc, n)] : n \in Grants(desc, m, p)}
    BY <1>3
<1> DEFINE Opt(h, p) == [vouch : h[VouchersOf(p, pool)],
                         rest  : UNION {h[RouteOf(desc, n)] : n \in Grants(desc, m, p)}]
<1>5. \A p \in pool : Opt(f, p) = Opt(g, p)
    BY <1>2, <1>4
<1> DEFINE Opts(h) == UNION {Opt(h, p) : p \in pool}
<1> HIDE DEF Opt
<1>6. Opts(f) = Opts(g)
    BY <1>5
<1> HIDE DEF Opts
<1>7. {{m.link} \cup x.vouch \cup x.rest : x \in Opts(f)} = {{m.link} \cup x.vouch \cup x.rest : x \in Opts(g)}
    BY <1>6
<1> QED BY <1>7 DEF Routes, Opts, Opt, pool

LEMMA ClaimsRest ==
    ASSUME world \in Worlds, NEW desc \in Descriptor, NEW pool \in SUBSET Link, NEW f, NEW g,
           \A l \in pool : f[VouchersOf(l, pool)] = g[VouchersOf(l, pool)],
           \A s \in Sources : s.link \in pool => f[RouteOf(desc, s)] = g[RouteOf(desc, s)]
    PROVE  /\ Claims(f, desc, pool) = Claims(g, desc, pool)
           /\ ClaimRoutes(f, desc, pool) = ClaimRoutes(g, desc, pool)
<1>1. {k \in pool : f[VouchersOf(k, pool)] # {}} = {k \in pool : g[VouchersOf(k, pool)] # {}}
    OBVIOUS
<1>2. Claims(f, desc, pool) = Claims(g, desc, pool)
    BY <1>1 DEF Claims
<1>3. ASSUME NEW s \in Claims(f, desc, pool)
      PROVE  /\ f[VouchersOf(s.link, pool)] = g[VouchersOf(s.link, pool)]
             /\ f[RouteOf(desc, s)] = g[RouteOf(desc, s)]
    <2>1. s \in Sources /\ s.link \in pool
        BY ClaimsType
    <2> QED BY <2>1
<1>4. ASSUME NEW links
      PROVE  links \in ClaimRoutes(f, desc, pool) <=> links \in ClaimRoutes(g, desc, pool)
    <2>1. ASSUME NEW h
          PROVE  links \in ClaimRoutes(h, desc, pool) <=>
                    \E s \in Claims(h, desc, pool) :
                        \E vouch \in h[VouchersOf(s.link, pool)] :
                            \E route \in h[RouteOf(desc, s)] : links = vouch \cup route
        BY DEF ClaimRoutes
    <2> QED BY <1>2, <1>3, <2>1
<1> QED BY <1>2, <1>4

LEMMA VouchersRest ==
    ASSUME world \in Worlds, NEW pool \in SUBSET Link, NEW link \in pool, NEW timely, NEW f, NEW g,
           \A r \in Questions : Rank(r) < Rank(VouchersOf(link, pool)) => f[r] = g[r]
    PROVE  Vouchers(timely, f, link, pool) = Vouchers(timely, g, link, pool)
<1> DEFINE desc   == AttestationOf(link)
           others == SessionPool(link, pool)
<1>1. link \in Link /\ others \in SUBSET Link /\ desc \in Descriptor
    BY AttestorsType, AttestationType
<1> HIDE DEF desc, others
<1>2. ASSUME NEW l \in others PROVE f[VouchersOf(l, others)] = g[VouchersOf(l, others)]
    <2>1. VouchersOf(l, others) \in Questions /\ Rank(VouchersOf(l, others)) = 2 * Weight(others)
        BY <1>1, QuestionsType DEF Rank
    <2>2. /\ Rank(VouchersOf(link, pool)) = 2 * Weight(pool)
          /\ Weight(others) + 1 <= Weight(pool) /\ Weight(others) \in Nat /\ Weight(pool) \in Nat
        BY <1>1, QuestionsType, AttestorsType, SmallerPool, WeightType DEF Rank, others
    <2> QED BY <2>1, <2>2
<1>3. ASSUME NEW s \in Sources, s.link \in others PROVE f[RouteOf(desc, s)] = g[RouteOf(desc, s)]
    BY <1>1, <1>3, QuestionsType, VoucherRanks DEF others
<1>4. /\ Claims(f, desc, others) = Claims(g, desc, others)
      /\ ClaimRoutes(f, desc, others) = ClaimRoutes(g, desc, others)
    BY <1>1, <1>2, <1>3, ClaimsRest
<1>5. \A s \in Claims(f, desc, others) : f[RouteOf(desc, s)] = g[RouteOf(desc, s)]
    BY <1>1, <1>3, ClaimsType
<1>6. (\E s \in Claims(f, desc, others) : f[RouteOf(desc, s)] = {})
        <=> (\E s \in Claims(g, desc, others) : g[RouteOf(desc, s)] = {})
    BY <1>4, <1>5
<1> QED BY <1>4, <1>6 DEF Vouchers, desc, others

LEMMA SettleRests ==
    ASSUME world \in Worlds, NEW timely, NEW q \in Questions, NEW f, NEW g,
           \A r \in Questions : Rank(r) < Rank(q) => f[r] = g[r]
    PROVE  Settle(timely, f, q) = Settle(timely, g, q)
<1>1. CASE q.ask = "route"
    <2>1. q = RouteOf(q.desc, q.match) /\ q.desc \in Descriptor /\ q.match \in Sources
        BY <1>1 DEF Questions, RouteOf
    <2>2. Routes(f, q.desc, q.match) = Routes(g, q.desc, q.match)
        BY <2>1, RoutesRest
    <2> QED BY <1>1, <2>2 DEF Settle
<1>2. CASE q.ask # "route"
    <2>1. q = VouchersOf(q.link, q.pool) /\ q.pool \in SUBSET Link /\ q.link \in q.pool
        BY <1>2 DEF Questions, VouchersOf
    <2>2. Vouchers(timely, f, q.link, q.pool) = Vouchers(timely, g, q.link, q.pool)
        BY <2>1, VouchersRest
    <2> QED BY <1>2, <2>2 DEF Settle
<1> QED BY <1>1, <1>2

\* Every question has an answer: a function that settles the questions below a
\* rank settles one rank more, after one more round, and ranks are bounded.
LEMMA AnswerExists ==
    ASSUME world \in Worlds, NEW timely
    PROVE  \E A : IsAnswer(timely, A)
<1> DEFINE Settles(f, n) == \A q \in Questions : Rank(q) < n => f[q] = Settle(timely, f, q)
           Open == {n \in Nat : ~ \E f : Settles(f, n)}
           Round(f) == [q \in Questions |-> Settle(timely, f, q)]
<1>1. \A f : Settles(f, 0)
    BY RankType
<1>2. ASSUME NEW n \in Nat, NEW f, Settles(f, n) PROVE Settles(Round(f), n + 1)
    <2>1. ASSUME NEW r \in Questions, Rank(r) < n PROVE f[r] = Round(f)[r]
        BY <1>2, <2>1
    <2>2. ASSUME NEW q \in Questions, Rank(q) < n + 1
          PROVE  Settle(timely, f, q) = Settle(timely, Round(f), q)
        <3>1. \A r \in Questions : Rank(r) < Rank(q) => Rank(r) < n
            BY <1>2, <2>2, RankType
        <3>2. \A r \in Questions : Rank(r) < Rank(q) => f[r] = Round(f)[r]
            BY <2>1, <3>1
        <3> HIDE DEF Round
        <3> QED BY <3>2, SettleRests
    <2> QED BY <2>2
<1>3. Open = {}
    <2>1. SUFFICES ASSUME Open # {} PROVE FALSE
        OBVIOUS
    <2>2. PICK n \in Open : \A m \in Open : ~(<<m, n>> \in OpToRel(<, Nat))
        <3>1. Open \subseteq Nat
            OBVIOUS
        <3> HIDE DEF Open
        <3> QED BY <2>1, <3>1, WFMin, NatLessThanWellFounded, Zenon
    <2>3. n \in Nat /\ \A m \in Open : ~(m < n)
        <3>1. n \in Nat /\ Open \subseteq Nat
            OBVIOUS
        <3> HIDE DEF Open
        <3> QED BY <2>2, <3>1, Zenon DEF OpToRel
    <2>4. ~ \E f : Settles(f, n)
        OBVIOUS
    <2>5. n # 0
        BY <1>1, <2>4
    <2>6. n - 1 \in Nat /\ n - 1 < n /\ (n - 1) + 1 = n
        BY <2>3, <2>5
    <2>7. PICK f : Settles(f, n - 1)
        BY <2>3, <2>6
    <2>8. Settles(Round(f), n)
        <3> HIDE DEF Settles, Round
        <3> QED BY <1>2, <2>6, <2>7
    <2> QED BY <2>4, <2>8
<1> DEFINE bound == 2 * (Cardinality(Link) * Cardinality(Link) + Cardinality(Link)) + 2
<1>4. bound \in Nat /\ \A q \in Questions : Rank(q) < bound
    <2>1. ASSUME NEW pool \in SUBSET Link
          PROVE  /\ Weight(pool) \in Nat
                 /\ Weight(pool) <= Cardinality(Link) * Cardinality(Link) + Cardinality(Link)
        <3>1. Below(pool) \in SUBSET Link
            BY DEF Below
        <3>2. /\ Cardinality(Link) \in Nat /\ Cardinality(Below(pool)) \in Nat
              /\ Cardinality(Below(pool)) <= Cardinality(Link)
              /\ Cardinality(pool) \in Nat /\ Cardinality(pool) <= Cardinality(Link)
            BY <3>1, Sizes
        <3>3. ASSUME NEW n \in Nat, NEW a \in Nat, NEW b \in Nat, a <= n, b <= n
              PROVE  n * a + b <= n * n + n
            <4>1. n * a <= n * n /\ n * a \in Nat /\ n * n \in Nat
                BY <3>3
            <4> QED BY <3>3, <4>1
        <3>4. Weight(pool) <= Cardinality(Link) * Cardinality(Link) + Cardinality(Link)
            BY <3>2, <3>3 DEF Weight
        <3> QED BY <3>4, WeightType
    <2>2. Cardinality(Link) * Cardinality(Link) \in Nat /\ Cardinality(Link) \in Nat
        BY Sizes, WeightType
    <2>3. ASSUME NEW q \in Questions PROVE Rank(q) < bound
        <3>1. CASE q.ask = "route"
            <4>1. q.match.link \in Link
                BY <3>1 DEF Questions, Sources
            <4>2. ResolveProofs(q.match.link) \in SUBSET Link
                BY <4>1, ResolveProofsType
            <4> QED BY <2>1, <2>2, <3>1, <4>2 DEF Rank
        <3>2. CASE q.ask # "route"
            <4>1. q.pool \in SUBSET Link
                BY <3>2 DEF Questions
            <4> QED BY <2>1, <2>2, <3>2, <4>1 DEF Rank
        <3> QED BY <3>1, <3>2
    <2> QED BY <2>2, <2>3
<1>5. PICK f : Settles(f, bound)
    <2> HIDE DEF bound, Settles
    <2> QED BY <1>3, <1>4
<1> DEFINE A == Round(f)
<1>6. \A q \in Questions : f[q] = A[q]
    BY <1>4, <1>5
<1>7. \A q \in Questions : Settle(timely, f, q) = Settle(timely, A, q)
    <2> HIDE DEF A
    <2> QED BY <1>6, SettleRests
<1>8. A = [q \in Questions |-> Settle(timely, A, q)]
    <2>1. Round(f) = [q \in Questions |-> Settle(timely, f, q)]
        OBVIOUS
    <2> DEFINE B == A
    <2>2. [q \in Questions |-> Settle(timely, f, q)] = [q \in Questions |-> Settle(timely, B, q)]
        <3> HIDE DEF B
        <3> SUFFICES \A q \in Questions : Settle(timely, f, q) = Settle(timely, B, q)
            OBVIOUS
        <3> QED BY <1>7 DEF B
    <2> QED BY <2>1, <2>2
<1> QED BY <1>8 DEF IsAnswer

LEMMA AnswersSettle ==
    ASSUME world \in Worlds, NEW timely
    PROVE  IsAnswer(timely, Answers(timely))
<1>1. \E A : A = [q \in Questions |-> Settle(timely, A, q)]
    BY AnswerExists DEF IsAnswer
<1>2. Answers(timely) = CHOOSE A : A = [q \in Questions |-> Settle(timely, A, q)]
    BY Zenon DEF Answers, Settle
<1> QED BY <1>1, <1>2, Zenon DEF IsAnswer

----------------------------------------------------------------------------
(* What makes an answer empty.                                             *)

Valid(A, link, pool)        == A[VouchersOf(link, pool)] # {}
Routed(A, desc, m)          == A[RouteOf(desc, m)] # {}
Answerable(A, desc, pool)   == \E s \in Claims(A, desc, pool) : Routed(A, desc, s)

LEMMA RoutedIff ==
    ASSUME world \in Worlds, NEW timely, NEW A, IsAnswer(timely, A),
           NEW desc \in Descriptor, NEW m \in Sources, NEW pool, pool = ResolveProofs(m.link)
    PROVE  Routed(A, desc, m) <=>
              \/ Prune(m)
              \/ \E p \in pool : /\ Valid(A, p, pool)
                                 /\ \E n \in Grants(desc, m, p) : Routed(A, desc, n)
<1>1. A[RouteOf(desc, m)] = Routes(A, desc, m)
    <2>1. A[RouteOf(desc, m)] = Settle(timely, A, RouteOf(desc, m))
        BY QuestionsType DEF IsAnswer
    <2> QED BY <2>1, QuestionsType DEF Settle
<1>2. CASE Prune(m)
    BY <1>1, <1>2 DEF Routes, Routed
<1>3. CASE ~Prune(m)
    <2> DEFINE Opt(p) == [vouch : A[VouchersOf(p, pool)],
                          rest  : UNION {A[RouteOf(desc, n)] : n \in Grants(desc, m, p)}]
    <2>1. Routed(A, desc, m) <=> \E p \in pool : Opt(p) # {}
        <3>1. Routes(A, desc, m) = {{m.link} \cup x.vouch \cup x.rest : x \in UNION {Opt(p) : p \in pool}}
            BY <1>3 DEF Routes
        <3> HIDE DEF Opt
        <3> DEFINE Opts == UNION {Opt(p) : p \in pool}
        <3>2. Opts # {} <=> \E p \in pool : Opt(p) # {}
            OBVIOUS
        <3> HIDE DEF Opts
        <3>3. {{m.link} \cup x.vouch \cup x.rest : x \in Opts} # {} <=> Opts # {}
            OBVIOUS
        <3> QED BY <1>1, <3>1, <3>2, <3>3 DEF Routed, Opts
    <2>2. ASSUME NEW p \in pool
          PROVE  Opt(p) # {} <=> /\ Valid(A, p, pool)
                                 /\ \E n \in Grants(desc, m, p) : Routed(A, desc, n)
        <3> DEFINE V == A[VouchersOf(p, pool)]
                   R == UNION {A[RouteOf(desc, n)] : n \in Grants(desc, m, p)}
        <3>1. R # {} <=> \E n \in Grants(desc, m, p) : Routed(A, desc, n)
            BY DEF Routed
        <3> HIDE DEF R
        <3>2. \A v \in V, r \in R : [vouch |-> v, rest |-> r] \in [vouch : V, rest : R]
            OBVIOUS
        <3>3. [vouch : V, rest : R] # {} <=> V # {} /\ R # {}
            BY <3>2
        <3> QED BY <3>1, <3>3 DEF Valid, R
    <2> QED BY <1>3, <2>1, <2>2
<1> QED BY <1>2, <1>3

LEMMA ClaimRoutesIff ==
    ASSUME NEW A, NEW desc, NEW pool
    PROVE  ClaimRoutes(A, desc, pool) # {} <=> Answerable(A, desc, pool)
<1>1. \A s \in Claims(A, desc, pool) : A[VouchersOf(s.link, pool)] # {}
    BY DEF Claims, Source
<1>2. ASSUME NEW links
      PROVE  links \in ClaimRoutes(A, desc, pool) <=>
                \E s \in Claims(A, desc, pool) :
                    \E vouch \in A[VouchersOf(s.link, pool)] :
                        \E route \in A[RouteOf(desc, s)] : links = vouch \cup route
    BY DEF ClaimRoutes
<1>3. ASSUME Answerable(A, desc, pool) PROVE ClaimRoutes(A, desc, pool) # {}
    <2>1. PICK s \in Claims(A, desc, pool) : A[RouteOf(desc, s)] # {}
        BY <1>3 DEF Answerable, Routed
    <2>2. PICK vouch \in A[VouchersOf(s.link, pool)] : TRUE
        BY <1>1
    <2>3. PICK route \in A[RouteOf(desc, s)] : TRUE
        BY <2>1
    <2>4. vouch \cup route \in ClaimRoutes(A, desc, pool)
        BY <1>2, <2>2, <2>3
    <2> QED BY <2>4
<1>4. ASSUME ClaimRoutes(A, desc, pool) # {} PROVE Answerable(A, desc, pool)
    <2>1. PICK links : links \in ClaimRoutes(A, desc, pool)
        BY <1>4
    <2> QED BY <1>2, <2>1 DEF Answerable, Routed
<1> QED BY <1>3, <1>4

LEMMA ValidIff ==
    ASSUME world \in Worlds, NEW timely, NEW A, IsAnswer(timely, A),
           NEW pool \in SUBSET Link, NEW link \in pool,
           NEW desc, desc = AttestationOf(link), NEW others, others = SessionPool(link, pool)
    PROVE  Valid(A, link, pool) <=>
              /\ link \in timely
              /\ IF ~NeedsSession(link) THEN Signed(link)
                 ELSE \/ Answerable(A, desc, others)
                      \/ /\ \A s \in Claims(A, desc, others) : Routed(A, desc, s)
                         /\ Signed(link)
<1>1. A[VouchersOf(link, pool)] = Vouchers(timely, A, link, pool)
    <2>1. A[VouchersOf(link, pool)] = Settle(timely, A, VouchersOf(link, pool))
        BY QuestionsType DEF IsAnswer
    <2> QED BY <2>1, QuestionsType DEF Settle
<1>2. ClaimRoutes(A, desc, others) # {} <=> Answerable(A, desc, others)
    BY ClaimRoutesIff
<1> QED BY <1>1, <1>2 DEF Vouchers, Valid, Routed, NeedsSession

LEMMA ValidIsTimely ==
    ASSUME NEW timely, NEW A, IsAnswer(timely, A),
           NEW pool \in SUBSET Link, NEW link \in pool, Valid(A, link, pool)
    PROVE  link \in timely
<1>1. A[VouchersOf(link, pool)] = Settle(timely, A, VouchersOf(link, pool))
    BY QuestionsType DEF IsAnswer
<1>2. A[VouchersOf(link, pool)] = Vouchers(timely, A, link, pool)
    BY <1>1, QuestionsType DEF Settle
<1> QED BY <1>2 DEF Vouchers, Valid

----------------------------------------------------------------------------
(* What a call has settled.                                                *)

\* The proofs behind i have become sources, if they are valid beside the others
\* of the pool; no source behind j is authorized.
DecidedFrame(A, f) ==
    /\ f.pool \subseteq Range(f.cands)
    /\ f.pc = "notBefore" => ~RefusedTimeBounds(f.cands[f.i]) /\ ~Expired(f.cands[f.i])
    /\ f.pc = "session" => f.cands[f.i] \in Timely /\ NeedsSession(f.cands[f.i])
    /\ f.kind = "authorize" => ~Prune(f.match)
    /\ \A n \in DOMAIN f.sources : Valid(A, f.sources[n].link, f.pool)
    /\ \A k \in DOMAIN f.cands : k < f.i /\ f.cands[k] \in f.pool /\ Valid(A, f.cands[k], f.pool) =>
          \A c \in Range(Dlg(f.cands[k]).caps) :
              \E n \in DOMAIN f.sources : f.sources[n] = Source(f.cands[k], c)
    /\ \A n \in DOMAIN f.sources : n < f.j /\ Selected(f, f.sources[n]) =>
          ~Routed(A, f.desc, Match(f, f.sources[n]))
    /\ f.failed <=> \E n \in DOMAIN f.sources : n < f.j /\ Selected(f, f.sources[n])

\* What the call f asked of the call g.
DecidedCall(f, g) ==
    /\ f.pc = "session" => /\ g.desc = AttestationOf(f.cands[f.i])
                           /\ g.pool = SessionPool(f.cands[f.i], f.pool)
    /\ f.pc = "authorize" => g.desc = f.desc

\* A Claim is right, and so is what it says of the matches that failed.
ClaimDecided(A, desc, pool, r) ==
    /\ r.is = "ok" <=> Answerable(A, desc, pool)
    /\ r.is = "fail" => (r.failed <=> Claims(A, desc, pool) # {})

RouteDecided(A, desc, m, r) == r.is = "ok" <=> Routed(A, desc, m)

DecidedStack(A, st) ==
    /\ \A k \in 1..Len(st) : DecidedFrame(A, st[k])
    /\ \A k \in 1..Len(st) - 1 : DecidedCall(st[k], st[k + 1])

DecidedReturn(A, st, r) ==
    r.is # "none" =>
        /\ st = <<>> => ClaimDecided(A, Provided, {world.root}, r)
        /\ st # <<>> /\ Last(st).pc = "session" =>
              ClaimDecided(A, AttestationOf(Last(st).cands[Last(st).i]),
                           SessionPool(Last(st).cands[Last(st).i], Last(st).pool), r)
        /\ st # <<>> /\ Last(st).pc = "authorize" =>
              RouteDecided(A, Last(st).desc, Match(Last(st), Last(st).sources[Last(st).j]), r)

Decided(A, st, r) == DecidedStack(A, st) /\ DecidedReturn(A, st, r)

----------------------------------------------------------------------------
(* Frames.                                                                 *)

LEMMA DecidedClaim ==
    ASSUME NEW A, NEW desc, NEW cands \in Seq(Link), NEW pool, pool \subseteq Range(cands)
    PROVE  DecidedFrame(A, ClaimFrame(desc, cands, pool))
<1> DEFINE f == ClaimFrame(desc, cands, pool)
<1>1. /\ f.cands = cands /\ f.pool = pool /\ f.kind = "claim" /\ f.i = 1 /\ f.j = 1
      /\ f.pc = "validate" /\ f.sources = <<>> /\ f.failed = FALSE
    BY DEF ClaimFrame
<1>2. DOMAIN f.sources = {} /\ \A k \in DOMAIN f.cands : ~(k < f.i)
    BY <1>1
<1> HIDE DEF f
<1>3. DecidedFrame(A, f)
    BY <1>1, <1>2 DEF DecidedFrame
<1> QED BY <1>3 DEF f

LEMMA DecidedSession ==
    ASSUME world \in Worlds, NEW A, NEW f \in Frames, DecidedFrame(A, f),
           NEW link \in f.pool, ~NoCapability(f, link)
    PROVE  /\ DecidedFrame(A, SessionFrame(f, link))
           /\ SessionFrame(f, link).desc = AttestationOf(link)
           /\ SessionFrame(f, link).pool = SessionPool(link, f.pool)
<1>1. {p \in f.pool : p # link /\ Head(Dlg(p).caps).can = Attest} = SessionPool(link, f.pool)
    BY DEF NoCapability, SessionPool
<1>2. SessionFrame(f, link) = ClaimFrame(AttestationOf(link), f.cands, SessionPool(link, f.pool))
    BY <1>1 DEF SessionFrame
<1>3. SessionPool(link, f.pool) \subseteq Range(f.cands) /\ f.cands \in Seq(Link)
    BY DEF SessionPool, DecidedFrame, Frames
<1> DEFINE g == ClaimFrame(AttestationOf(link), f.cands, SessionPool(link, f.pool))
<1>4. g.desc = AttestationOf(link) /\ g.pool = SessionPool(link, f.pool)
    BY DEF ClaimFrame
<1>5. DecidedFrame(A, g)
    BY <1>3, DecidedClaim
<1> QED BY <1>2, <1>4, <1>5

LEMMA DecidedAuthorize ==
    ASSUME world \in Worlds, NEW A, NEW desc, NEW m \in Sources, ~Prune(m)
    PROVE  /\ DecidedFrame(A, AuthorizeFrame(desc, m))
           /\ AuthorizeFrame(desc, m).desc = desc
<1> DEFINE f == AuthorizeFrame(desc, m)
           cands == Dlg(m.link).prfs
<1>1. /\ f.cands = cands /\ f.pool = ResolveProofs(m.link) /\ f.kind = "authorize"
      /\ f.match = m /\ f.desc = desc /\ f.i = 1 /\ f.j = 1
      /\ f.pc = "validate" /\ f.sources = <<>> /\ f.failed = FALSE
    BY DEF AuthorizeFrame, ClaimFrame
<1>2. cands \in Seq(Link) /\ ResolveProofs(m.link) \subseteq Range(cands)
    BY DlgType DEF Sources, ResolveProofs
<1>3. DOMAIN f.sources = {} /\ \A k \in DOMAIN f.cands : ~(k < f.i)
    BY <1>1, <1>2
<1> HIDE DEF f
<1>4. DecidedFrame(A, f)
    BY <1>1, <1>2, <1>3 DEF DecidedFrame
<1> QED BY <1>1, <1>4 DEF f

\* The proof at f.i is passed over, or is not valid.
LEMMA DecidedReject ==
    ASSUME NEW A, NEW f \in Frames, DecidedFrame(A, f), NEW errs, f.i \in DOMAIN f.cands,
           f.cands[f.i] \in f.pool => ~Valid(A, f.cands[f.i], f.pool)
    PROVE  DecidedFrame(A, Reject(f, errs)) /\ SameCall(f, Reject(f, errs))
<1> DEFINE g == Reject(f, errs)
<1>1. /\ g.cands = f.cands /\ g.pool = f.pool /\ g.kind = f.kind /\ g.match = f.match
      /\ g.desc = f.desc /\ g.failed = f.failed
      /\ g.i = f.i + 1 /\ g.j = f.j /\ g.sources = f.sources /\ g.pc = "validate"
      /\ f.i \in Nat /\ DOMAIN f.cands \subseteq Nat
    BY DEF Reject, Frames
<1> HIDE DEF g
<1>2. \A s : Selected(g, s) = Selected(f, s) /\ Match(g, s) = Match(f, s)
    BY <1>1 DEF Selected, Match
<1>3. ASSUME NEW k \in DOMAIN g.cands, k < g.i, g.cands[k] \in g.pool, Valid(A, g.cands[k], g.pool)
      PROVE  \A c \in Range(Dlg(g.cands[k]).caps) :
                \E n \in DOMAIN g.sources : g.sources[n] = Source(g.cands[k], c)
    <2>1. k < f.i
        <3>1. k # f.i
            BY <1>1, <1>3
        <3> QED BY <1>1, <1>3, <3>1
    <2> QED BY <1>1, <1>3, <2>1 DEF DecidedFrame
<1>4. /\ g.pool \subseteq Range(g.cands)
      /\ g.kind = "authorize" => ~Prune(g.match)
      /\ \A n \in DOMAIN g.sources : Valid(A, g.sources[n].link, g.pool)
    BY <1>1 DEF DecidedFrame
<1>5. /\ \A n \in DOMAIN g.sources : n < g.j /\ Selected(g, g.sources[n]) =>
            ~Routed(A, g.desc, Match(g, g.sources[n]))
      /\ g.failed <=> \E n \in DOMAIN g.sources : n < g.j /\ Selected(g, g.sources[n])
    BY <1>1, <1>2 DEF DecidedFrame
<1>6. DecidedFrame(A, g)
    BY <1>1, <1>3, <1>4, <1>5 DEF DecidedFrame
<1> QED BY <1>1, <1>6 DEF g, SameCall

\* The source at f.j is not selected, or selected and not authorized.
LEMMA DecidedNextSource ==
    ASSUME NEW A, NEW f \in Frames, DecidedFrame(A, f), NEW failed \in BOOLEAN, NEW errs,
           f.j \in DOMAIN f.sources,
           failed <=> Selected(f, f.sources[f.j]),
           failed => ~Routed(A, f.desc, Match(f, f.sources[f.j]))
    PROVE  /\ DecidedFrame(A, NextSource(f, failed, errs))
           /\ SameCall(f, NextSource(f, failed, errs))
<1> DEFINE g == NextSource(f, failed, errs)
<1>1. /\ g.cands = f.cands /\ g.pool = f.pool /\ g.kind = f.kind /\ g.match = f.match
      /\ g.desc = f.desc
      /\ g.i = f.i /\ g.j = f.j + 1 /\ g.sources = f.sources /\ g.pc = "validate"
      /\ f.j \in Nat /\ DOMAIN f.sources \subseteq Nat
    BY DEF NextSource, Frames
<1>2. g.failed = (f.failed \/ failed) /\ f.failed \in BOOLEAN
    BY DEF NextSource, Frames
<1> HIDE DEF g
<1>3. \A s : Selected(g, s) = Selected(f, s) /\ Match(g, s) = Match(f, s)
    BY <1>1 DEF Selected, Match
<1>4. \A n \in DOMAIN f.sources : n < g.j <=> n < f.j \/ n = f.j
    BY <1>1
<1>5. \A n \in DOMAIN g.sources : n < g.j /\ Selected(g, g.sources[n]) =>
            ~Routed(A, g.desc, Match(g, g.sources[n]))
    BY <1>1, <1>3, <1>4 DEF DecidedFrame
<1>6. f.failed <=> \E n \in DOMAIN f.sources : n < f.j /\ Selected(f, f.sources[n])
    BY DEF DecidedFrame
<1>7. (f.failed \/ failed) <=> \E n \in DOMAIN f.sources : n < g.j /\ Selected(f, f.sources[n])
    BY <1>4, <1>6
<1>8. g.failed <=> \E n \in DOMAIN g.sources : n < g.j /\ Selected(g, g.sources[n])
    BY <1>1, <1>2, <1>3, <1>7
<1>9. /\ g.pool \subseteq Range(g.cands)
      /\ g.kind = "authorize" => ~Prune(g.match)
      /\ \A n \in DOMAIN g.sources : Valid(A, g.sources[n].link, g.pool)
      /\ \A k \in DOMAIN g.cands : k < g.i /\ g.cands[k] \in g.pool /\ Valid(A, g.cands[k], g.pool) =>
          \A c \in Range(Dlg(g.cands[k]).caps) :
              \E n \in DOMAIN g.sources : g.sources[n] = Source(g.cands[k], c)
    BY <1>1 DEF DecidedFrame
<1>10. DecidedFrame(A, g)
    BY <1>1, <1>5, <1>8, <1>9 DEF DecidedFrame
<1> QED BY <1>1, <1>10 DEF g, SameCall

\* The proof at f.i is valid and becomes sources, none of which has been tried.
LEMMA DecidedAccept ==
    ASSUME world \in Worlds, NEW A, NEW f \in Frames, FrameOK(f), ExplainedFrame(f),
           DecidedFrame(A, f), f.pc \in {"notBefore", "session"}, NEW atts,
           Valid(A, f.cands[f.i], f.pool)
    PROVE  DecidedFrame(A, Accept(f, atts)) /\ SameCall(f, Accept(f, atts))
<1> DEFINE link == f.cands[f.i]
           caps == Dlg(link).caps
           new  == [k \in DOMAIN caps |-> Source(link, caps[k])]
           all  == f.sources \o new
           g    == Accept(f, atts)
<1>1. link \in Link
    BY DEF FrameOK, Frames
<1>2. caps \in Seq(Capability)
    BY <1>1, DlgType
<1>3. new \in Seq(Sources)
    <2>1. \A k \in DOMAIN caps : Source(link, caps[k]) \in Sources
        BY <1>1, <1>2 DEF Sources, Source
    <2>2. DOMAIN caps = 1..Len(caps) /\ Len(caps) \in Nat
        BY <1>2
    <2> HIDE DEF caps
    <2> QED BY <2>1, <2>2
<1>4. f.sources \in Seq(Sources)
    BY DEF Frames
<1>5. /\ g.cands = f.cands /\ g.pool = f.pool /\ g.kind = f.kind /\ g.match = f.match
      /\ g.desc = f.desc /\ g.failed = f.failed
      /\ g.i = f.i + 1 /\ g.j = f.j /\ g.sources = all /\ g.pc = "validate"
      /\ f.i \in Nat /\ DOMAIN f.cands = 1..Len(f.cands)
    <2>1. f.i \in Nat /\ f.cands \in Seq(Link)
        BY DEF Frames
    <2>2. DOMAIN f.cands = 1..Len(f.cands)
        BY <2>1
    <2> HIDE DEF new
    <2>3. /\ g.cands = f.cands /\ g.pool = f.pool /\ g.kind = f.kind /\ g.match = f.match
          /\ g.desc = f.desc /\ g.failed = f.failed
          /\ g.i = f.i + 1 /\ g.j = f.j /\ g.pc = "validate"
        BY DEF Accept, Frames
    <2>4. g.sources = all
        BY DEF Accept, Frames, new
    <2> QED BY <2>1, <2>2, <2>3, <2>4
<1>6. f.j = 1
    <2>1. f.i \in DOMAIN f.cands
        BY DEF FrameOK
    <2>2. f.i \in Nat /\ f.i \in 1..Len(f.cands) /\ Len(f.cands) \in Nat
        <3>1. f.cands \in Seq(Link)
            BY DEF Frames
        <3>2. Len(f.cands) \in Nat
            BY <3>1
        <3> QED BY <1>5, <2>1, <3>2
    <2>3. ~(f.i > Len(f.cands))
        BY <2>2
    <2> QED BY <2>3 DEF ExplainedFrame
<1>7. /\ \A k \in DOMAIN new : new[k].link = link
      /\ \A c \in Range(caps) : \E k \in DOMAIN new : new[k] = Source(link, c)
    BY <1>2 DEF Source, Range
<1> HIDE DEF new
<1>8. /\ \A n \in DOMAIN f.sources : n \in DOMAIN all /\ all[n] = f.sources[n]
      /\ \A n \in DOMAIN new : n + Len(f.sources) \in DOMAIN all /\ all[n + Len(f.sources)] = new[n]
      /\ DOMAIN all \subseteq Nat \ {0}
    BY <1>3, <1>4
<1>9. \A n \in DOMAIN all : n \in DOMAIN f.sources \/ \E k \in DOMAIN new : all[n] = new[k]
    <2> SUFFICES ASSUME NEW n \in DOMAIN all, n \notin DOMAIN f.sources
                 PROVE  \E k \in DOMAIN new : all[n] = new[k]
        OBVIOUS
    <2>1. n - Len(f.sources) \in DOMAIN new /\ all[n] = new[n - Len(f.sources)]
        BY <1>3, <1>4
    <2> QED BY <2>1
<1>10. \A c \in Range(caps) : \E n \in DOMAIN all : all[n] = Source(link, c)
    BY <1>7, <1>8
<1> HIDE DEF g, all, link, caps
<1>11. ASSUME NEW n \in DOMAIN g.sources PROVE Valid(A, g.sources[n].link, g.pool)
    <2>1. CASE n \in DOMAIN f.sources
        BY <1>5, <1>8, <2>1 DEF DecidedFrame
    <2>2. CASE \E k \in DOMAIN new : all[n] = new[k]
        BY <1>5, <1>7, <2>2 DEF link
    <2> QED BY <1>5, <1>9, <1>11, <2>1, <2>2
<1>12. ASSUME NEW k \in DOMAIN g.cands, k < g.i, g.cands[k] \in g.pool, Valid(A, g.cands[k], g.pool)
       PROVE  \A c \in Range(Dlg(g.cands[k]).caps) :
                \E n \in DOMAIN g.sources : g.sources[n] = Source(g.cands[k], c)
    <2>1. CASE k < f.i
        <3>1. \A c \in Range(Dlg(f.cands[k]).caps) :
                \E n \in DOMAIN f.sources : f.sources[n] = Source(f.cands[k], c)
            BY <1>5, <1>12, <2>1 DEF DecidedFrame
        <3> QED BY <1>5, <1>8, <3>1
    <2>2. CASE k = f.i
        BY <1>5, <1>10, <2>2 DEF link, caps
    <2>3. k < f.i \/ k = f.i
        BY <1>5, <1>12
    <2> QED BY <2>1, <2>2, <2>3
<1>13. \A n \in DOMAIN g.sources : ~(n < g.j)
    BY <1>5, <1>6, <1>8
<1>14. ~f.failed
    <2>1. \A n \in DOMAIN f.sources : ~(n < f.j)
        BY <1>4, <1>6
    <2> QED BY <2>1 DEF DecidedFrame
<1>15. g.pool \subseteq Range(g.cands) /\ (g.kind = "authorize" => ~Prune(g.match))
    BY <1>5 DEF DecidedFrame
<1>16. DecidedFrame(A, g)
    BY <1>5, <1>11, <1>12, <1>13, <1>14, <1>15 DEF DecidedFrame
<1> QED BY <1>5, <1>16 DEF g, SameCall

----------------------------------------------------------------------------
(* The stack.                                                              *)

LEMMA DecidedGoto ==
    ASSUME NEW A, NEW st \in Seq(Frames), st # <<>>, DecidedStack(A, st),
           NEW g \in Frames, DecidedFrame(A, g), SameCall(Last(st), g)
    PROVE  DecidedStack(A, [st EXCEPT ![Len(st)] = g])
<1> DEFINE n  == Len(st)
           tt == [st EXCEPT ![n] = g]
<1>1. /\ n \in Nat \ {0} /\ Last(st) = st[n] /\ Len(tt) = n /\ tt[n] = g
      /\ \A k \in 1..n - 1 : tt[k] = st[k]
    BY DEF Last
<1>2. n = Len(st)
    OBVIOUS
<1> HIDE DEF n, tt
<1>3. \A k \in 1..n : DecidedFrame(A, tt[k])
    BY <1>1, <1>2 DEF DecidedStack
<1>4. ASSUME NEW k \in 1..n - 1 PROVE DecidedCall(tt[k], tt[k + 1])
    <2>1. DecidedCall(st[k], st[k + 1]) /\ tt[k] = st[k]
        BY <1>1, <1>2 DEF DecidedStack
    <2>2. CASE k + 1 = n
        BY <1>1, <2>1, <2>2 DEF DecidedCall, SameCall
    <2>3. CASE k + 1 # n
        <3>1. tt[k + 1] = st[k + 1]
            BY <1>1, <2>3
        <3> QED BY <2>1, <3>1
    <2> QED BY <2>2, <2>3
<1>5. DecidedStack(A, tt)
    BY <1>1, <1>3, <1>4 DEF DecidedStack
<1> QED BY <1>5 DEF tt, n

LEMMA DecidedPush ==
    ASSUME NEW A, NEW st \in Seq(Frames), st # <<>>, DecidedStack(A, st),
           NEW g \in Frames, DecidedFrame(A, g), DecidedCall(Last(st), g)
    PROVE  DecidedStack(A, Append(st, g))
<1> DEFINE n  == Len(st)
           tt == Append(st, g)
<1>1. /\ n \in Nat \ {0} /\ Len(tt) = n + 1 /\ tt[n + 1] = g /\ Last(st) = st[n]
      /\ \A k \in 1..n : tt[k] = st[k]
    BY DEF Last
<1>2. n = Len(st)
    OBVIOUS
<1> HIDE DEF n, tt
<1>3. \A k \in 1..n + 1 : DecidedFrame(A, tt[k])
    BY <1>1, <1>2 DEF DecidedStack
<1>4. ASSUME NEW k \in 1..n PROVE DecidedCall(tt[k], tt[k + 1])
    <2>1. CASE k = n
        BY <1>1, <2>1
    <2>2. CASE k # n
        <3>1. k \in 1..n - 1 /\ k + 1 \in 1..n
            BY <1>1, <2>2
        <3> QED BY <1>1, <1>2, <3>1 DEF DecidedStack
    <2> QED BY <2>1, <2>2
<1>5. DecidedStack(A, tt)
    BY <1>1, <1>3, <1>4 DEF DecidedStack
<1> QED BY <1>5 DEF tt

LEMMA DecidedPop ==
    ASSUME NEW A, NEW st \in Seq(Frames), st # <<>>, DecidedStack(A, st)
    PROVE  /\ DecidedStack(A, Front(st))
           /\ DecidedFrame(A, Last(st))
           /\ Front(st) # <<>> => DecidedCall(Last(Front(st)), Last(st))
<1> DEFINE n  == Len(st)
           tt == Front(st)
<1>1. n = Len(st) /\ n \in Nat \ {0} /\ Last(st) = st[n]
    BY DEF Last
<1>2. tt \in Seq(Frames) /\ Len(tt) = n - 1 /\ \A k \in 1..n - 1 : tt[k] = st[k]
    <2>1. tt = SubSeq(st, 1, n - 1)
        BY DEF Front
    <2> HIDE DEF tt, n
    <2> QED BY <1>1, <2>1
<1> HIDE DEF n, tt
<1>3. tt # <<>> => n - 1 \in 1..n - 1 /\ Last(tt) = st[n - 1]
    BY <1>1, <1>2 DEF Last
<1>4. tt # <<>> => DecidedCall(st[n - 1], st[n])
    BY <1>1, <1>3 DEF DecidedStack
<1>5. DecidedStack(A, tt)
    BY <1>1, <1>2 DEF DecidedStack
<1>6. DecidedFrame(A, st[n])
    BY <1>1 DEF DecidedStack
<1> QED BY <1>1, <1>3, <1>4, <1>5, <1>6 DEF tt

----------------------------------------------------------------------------
(* What a call returns.                                                    *)

CallDecided(A, f, r) ==
    /\ f.kind = "claim" => ClaimDecided(A, f.desc, f.pool, r)
    /\ f.kind = "authorize" => RouteDecided(A, f.desc, f.match, r)

\* The caller gets the answer to what it asked.
LEMMA DecidedPopReturn ==
    ASSUME NEW A, NEW st, StackOK(st), st # <<>>, DecidedStack(A, st), NEW r,
           CallDecided(A, Last(st), r)
    PROVE  Decided(A, Front(st), r)
<1> DEFINE f  == Last(st)
           tt == Front(st)
<1>1. st \in Seq(Frames)
    BY DEF StackOK
<1>2. DecidedStack(A, tt) /\ (tt # <<>> => DecidedCall(Last(tt), f))
    BY <1>1, DecidedPop
<1>3. tt = <<>> => BaseOK(f)
    BY <1>1, PopOK
<1>4. tt # <<>> => CallOK(Last(tt), f)
    BY <1>1, PopOK
<1> HIDE DEF f, tt
<1>5. tt = <<>> => ClaimDecided(A, Provided, {world.root}, r)
    BY <1>3 DEF CallDecided, BaseOK, f
<1>6. ASSUME tt # <<>>, Last(tt).pc = "session"
      PROVE  ClaimDecided(A, AttestationOf(Last(tt).cands[Last(tt).i]),
                          SessionPool(Last(tt).cands[Last(tt).i], Last(tt).pool), r)
    BY <1>2, <1>4, <1>6 DEF CallDecided, CallOK, DecidedCall, f
<1>7. ASSUME tt # <<>>, Last(tt).pc = "authorize"
      PROVE  RouteDecided(A, Last(tt).desc, Match(Last(tt), Last(tt).sources[Last(tt).j]), r)
    BY <1>2, <1>4, <1>7 DEF CallDecided, CallOK, DecidedCall, f
<1>8. Decided(A, tt, r)
    BY <1>2, <1>5, <1>6, <1>7 DEF Decided, DecidedReturn
<1> QED BY <1>8 DEF tt

\* A source a frame has tried is a claim, or a capability that grants its match.
LEMMA SourcesAsked ==
    ASSUME world \in Worlds, NEW A, NEW f \in Frames, FrameOK(f), DecidedFrame(A, f),
           NEW n \in DOMAIN f.sources, Selected(f, f.sources[n])
    PROVE  /\ f.kind = "claim" => /\ f.sources[n] \in Claims(A, f.desc, f.pool)
                                 /\ Match(f, f.sources[n]) = f.sources[n]
           /\ f.kind = "authorize" =>
                /\ f.sources[n].link \in f.pool
                /\ Valid(A, f.sources[n].link, f.pool)
                /\ Match(f, f.sources[n]) \in Grants(f.desc, f.match, f.sources[n].link)
<1> DEFINE s == f.sources[n]
<1>1. s \in Sources /\ s.link \in f.pool /\ s.cap \in Range(Dlg(s.link).caps)
    BY DEF FrameOK, Frames
<1>2. Valid(A, s.link, f.pool)
    BY DEF DecidedFrame
<1>3. s = Source(s.link, s.cap)
    BY <1>1 DEF Sources, Source
<1>4. Selected(f, s)
    OBVIOUS
<1> HIDE DEF s
<1>5. ASSUME f.kind = "claim" PROVE s \in Claims(A, f.desc, f.pool) /\ Match(f, s) = s
    <2>1. ParseCapability(f.desc, s.cap)
        BY <1>4, <1>5 DEF Selected
    <2>2. s \in Claims(A, f.desc, f.pool)
        BY <1>1, <1>2, <1>3, <2>1 DEF Claims, Valid
    <2> QED BY <1>5, <2>2 DEF Match
<1>6. ASSUME f.kind = "authorize" PROVE Match(f, s) \in Grants(f.desc, f.match, s.link)
    <2>1. SelectCapability(f.desc, f.match.cap, s.cap)
        BY <1>4, <1>6 DEF Selected
    <2> QED BY <1>1, <1>6, <2>1 DEF Grants, Match
<1> QED BY <1>1, <1>2, <1>5, <1>6 DEF s

\* A source that is authorized authorizes what the call was asked.
LEMMA DecidedGranted ==
    ASSUME world \in Worlds, NEW timely, NEW A, IsAnswer(timely, A),
           NEW f \in Frames, FrameOK(f), DecidedFrame(A, f),
           NEW n \in DOMAIN f.sources, Selected(f, f.sources[n]),
           Routed(A, f.desc, Match(f, f.sources[n])), NEW auth
    PROVE  CallDecided(A, f, Granted(auth))
<1>1. Granted(auth).is = "ok"
    BY DEF Granted
<1>2. ASSUME f.kind = "claim" PROVE ClaimDecided(A, f.desc, f.pool, Granted(auth))
    <2>1. Answerable(A, f.desc, f.pool)
        BY <1>2, SourcesAsked DEF Answerable
    <2> QED BY <1>1, <2>1 DEF ClaimDecided
<1>3. ASSUME f.kind = "authorize" PROVE RouteDecided(A, f.desc, f.match, Granted(auth))
    <2>1. f.match \in Sources /\ f.pool = ResolveProofs(f.match.link) /\ f.desc \in Descriptor
        BY <1>3 DEF FrameOK, Frames
    <2>2. Routed(A, f.desc, f.match)
        BY <1>3, <2>1, SourcesAsked, RoutedIff
    <2> QED BY <1>1, <2>2 DEF RouteDecided
<1> QED BY <1>2, <1>3 DEF CallDecided

\* A call that is past its sources, none of which is authorized, answers no.
LEMMA DecidedDenied ==
    ASSUME world \in Worlds, NEW timely, NEW A, IsAnswer(timely, A),
           NEW f \in Frames, FrameOK(f), DecidedFrame(A, f),
           f.i > Len(f.cands), f.j > Len(f.sources), NEW errs
    PROVE  CallDecided(A, f, Denied(f.failed, errs))
<1> DEFINE r == Denied(f.failed, errs)
<1>1. r.is = "fail" /\ r.failed = f.failed
    BY DEF Denied
<1> HIDE DEF r
<1>2. /\ \A k \in DOMAIN f.cands : k < f.i
      /\ \A n \in DOMAIN f.sources : n < f.j
    BY DEF Frames
<1>3. ASSUME NEW p \in f.pool, Valid(A, p, f.pool), NEW c \in Range(Dlg(p).caps)
      PROVE  \E n \in DOMAIN f.sources : f.sources[n] = Source(p, c)
    <2>1. PICK k \in DOMAIN f.cands : f.cands[k] = p
        BY DEF DecidedFrame, Range
    <2> QED BY <1>2, <1>3, <2>1 DEF DecidedFrame
<1>4. /\ \A n \in DOMAIN f.sources : Selected(f, f.sources[n]) =>
            ~Routed(A, f.desc, Match(f, f.sources[n]))
      /\ f.failed <=> \E n \in DOMAIN f.sources : Selected(f, f.sources[n])
    BY <1>2 DEF DecidedFrame
<1>5. ASSUME f.kind = "claim" PROVE ClaimDecided(A, f.desc, f.pool, r)
    <2>1. ASSUME NEW s \in Claims(A, f.desc, f.pool)
          PROVE  \E n \in DOMAIN f.sources : f.sources[n] = s /\ Selected(f, s) /\ Match(f, s) = s
        <3>1. PICK l \in f.pool : /\ Valid(A, l, f.pool)
                                  /\ \E c \in Range(Dlg(l).caps) : ParseCapability(f.desc, c) /\ s = Source(l, c)
            BY DEF Claims, Valid
        <3>2. PICK c \in Range(Dlg(l).caps) : ParseCapability(f.desc, c) /\ s = Source(l, c)
            BY <3>1
        <3>3. PICK n \in DOMAIN f.sources : f.sources[n] = s
            BY <1>3, <3>1, <3>2
        <3>4. Selected(f, s) /\ Match(f, s) = s
            BY <1>5, <3>2 DEF Selected, Match, Source
        <3> QED BY <3>3, <3>4
    <2>2. ~Answerable(A, f.desc, f.pool)
        BY <1>4, <2>1 DEF Answerable
    <2>3. f.failed <=> Claims(A, f.desc, f.pool) # {}
        BY <1>4, <1>5, <2>1, SourcesAsked
    <2> QED BY <1>1, <2>2, <2>3 DEF ClaimDecided
<1>6. ASSUME f.kind = "authorize" PROVE RouteDecided(A, f.desc, f.match, r)
    <2>1. f.match \in Sources /\ f.pool = ResolveProofs(f.match.link) /\ f.desc \in Descriptor
          /\ ~Prune(f.match)
        BY <1>6 DEF FrameOK, Frames, DecidedFrame
    <2>2. ASSUME NEW p \in f.pool, Valid(A, p, f.pool), NEW m \in Grants(f.desc, f.match, p)
          PROVE  ~Routed(A, f.desc, m)
        <3>1. PICK c \in Range(Dlg(p).caps) :
                SelectCapability(f.desc, f.match.cap, c) /\ m = Source(p, ResolveCapability(f.match.cap, c))
            BY DEF Grants
        <3>2. PICK n \in DOMAIN f.sources : f.sources[n] = Source(p, c)
            BY <1>3, <2>2, <3>1
        <3>3. Selected(f, f.sources[n]) /\ Match(f, f.sources[n]) = m
            BY <1>6, <3>1, <3>2 DEF Selected, Match, Source
        <3> QED BY <1>4, <3>3
    <2>3. ~Routed(A, f.desc, f.match)
        BY <2>1, <2>2, RoutedIff
    <2> QED BY <1>1, <2>3 DEF RouteDecided
<1> QED BY <1>5, <1>6 DEF CallDecided, r

----------------------------------------------------------------------------
(* Steps of the search, with the world and the clock held fixed.           *)

LEMMA DecidedTop ==
    ASSUME EInv, NEW A, Decided(A, stack, ret), stack # <<>>
    PROVE  /\ stack \in Seq(Frames) /\ Top = Last(stack) /\ StackOK(stack) /\ DecidedStack(A, stack)
           /\ Top \in Frames /\ FrameOK(Top) /\ ExplainedFrame(Top) /\ DecidedFrame(A, Top)
           /\ world \in Worlds /\ ret \in Returns
<1>1. /\ stack \in Seq(Frames) /\ Top = Last(stack) /\ Top \in Frames /\ FrameOK(Top)
      /\ ExplainedFrame(Top) /\ world \in Worlds /\ ret \in Returns
    BY ExplainedTop
<1>2. DecidedFrame(A, Top)
    BY <1>1, DecidedPop DEF Decided
<1> QED BY <1>1, <1>2 DEF EInv, IInv, Decided

LEMMA DecidedGotoStep ==
    ASSUME EInv, NEW A, Decided(A, stack, ret), stack # <<>>,
           NEW g \in Frames, DecidedFrame(A, g), SameCall(Top, g), Goto(g),
           \/ ret' = ret /\ g.pc \in {"validate", "notBefore"}
           \/ ret' = NoReturn
    PROVE  Decided(A, stack', ret')
<1>1. /\ stack \in Seq(Frames) /\ Top = Last(stack) /\ DecidedStack(A, stack)
      /\ stack' = [stack EXCEPT ![Len(stack)] = g]
    BY DecidedTop DEF Goto
<1>2. DecidedStack(A, stack')
    BY <1>1, DecidedGoto
<1>3. Last(stack') = g /\ stack' # <<>>
    BY <1>1 DEF Last
<1>4. DecidedReturn(A, stack', ret')
    BY <1>3 DEF DecidedReturn, NoReturn
<1> QED BY <1>2, <1>4 DEF Decided

LEMMA DecidedCallStep ==
    ASSUME EInv, NEW A, Decided(A, stack, ret), stack # <<>>, ret' = ret,
           NEW f \in Frames, DecidedFrame(A, f), SameCall(Top, f),
           NEW g \in Frames, DecidedFrame(A, g), DecidedCall(f, g), g.pc = "validate", Call(f, g)
    PROVE  Decided(A, stack', ret')
<1> DEFINE st == [stack EXCEPT ![Len(stack)] = f]
<1>1. stack \in Seq(Frames) /\ stack' = Append(st, g) /\ Top = Last(stack) /\ DecidedStack(A, stack)
    BY DecidedTop DEF Call
<1>2. DecidedStack(A, st)
    BY <1>1, DecidedGoto
<1>3. st \in Seq(Frames) /\ st # <<>> /\ Last(st) = f
    BY <1>1 DEF Last
<1> HIDE DEF st
<1>4. DecidedStack(A, stack')
    BY <1>1, <1>2, <1>3, DecidedPush
<1>5. Last(stack') = g /\ stack' # <<>>
    BY <1>1, <1>3 DEF Last
<1>6. DecidedReturn(A, stack', ret')
    BY <1>5 DEF DecidedReturn
<1> QED BY <1>4, <1>6 DEF Decided

\* A delegation within its bounds, and one that is not.
LEMMA TimelyIff ==
    ASSUME NEW link \in Link
    PROVE  link \in Timely <=>
              ~RefusedTimeBounds(link) /\ ~Expired(link) /\ ~NotValidBefore(link)
BY DEF Timely, RefusedTimeBounds, Expired, NotValidBefore, InBounds

LEMMA DecidedCheckExpired ==
    ASSUME EInv, NEW A, IsAnswer(Timely, A), Decided(A, stack, ret), CheckExpired
    PROVE  Decided(A, stack', ret')
<1> DEFINE link == Top.cands[Top.i]
<1>1. stack # <<>> /\ Top.pc = "validate" /\ Top.i <= Len(Top.cands) /\ ret' = ret
    BY DEF CheckExpired, Running
<1>2. Top \in Frames /\ FrameOK(Top) /\ DecidedFrame(A, Top) /\ world \in Worlds
    BY <1>1, DecidedTop
<1>3. Top.i \in DOMAIN Top.cands /\ link \in Link /\ Top.pool \in SUBSET Link
    BY <1>1, <1>2 DEF Frames
<1>4. ASSUME NEW errs \in SUBSET Errors, Goto(Reject(Top, errs)),
             link \in Top.pool => ~Valid(A, link, Top.pool)
      PROVE  Decided(A, stack', ret')
    <2>1. DecidedFrame(A, Reject(Top, errs)) /\ SameCall(Top, Reject(Top, errs))
        BY <1>2, <1>3, <1>4, DecidedReject
    <2> QED BY <1>1, <1>2, <1>4, <2>1, RejectOK, DecidedGotoStep
<1>5. ASSUME NEW name \in {"TimeBounds", "Expired"}, Goto(Reject(Top, {Error(link, name)})),
             link \in Top.pool, RefusedTimeBounds(link) \/ Expired(link)
      PROVE  Decided(A, stack', ret')
    <2>1. {Error(link, name)} \in SUBSET Errors
        BY <1>3, ErrorType DEF ErrorNames
    <2>2. link \notin Timely
        BY <1>3, <1>5, TimelyIff
    <2>3. ~Valid(A, link, Top.pool)
        BY <1>3, <1>5, <2>2, ValidIsTimely
    <2> QED BY <1>4, <1>5, <2>1, <2>3
<1>6. CASE link \notin Top.pool /\ Goto(Reject(Top, {}))
    BY <1>4, <1>6
<1>7. CASE /\ ~RefusedTimeBounds(link) /\ ~Expired(link)
           /\ Goto([Top EXCEPT !.pc = "notBefore"])
    <2> DEFINE g == [Top EXCEPT !.pc = "notBefore"]
    <2>1. /\ g \in Frames /\ g.pc = "notBefore" /\ SameCall(Top, g)
          /\ g.cands = Top.cands /\ g.i = Top.i /\ g.j = Top.j /\ g.sources = Top.sources
          /\ g.failed = Top.failed
        BY <1>2 DEF Frames, SameCall
    <2> HIDE DEF g
    <2>2. /\ g.kind = Top.kind /\ g.desc = Top.desc /\ g.match = Top.match /\ g.pool = Top.pool
          /\ \A s : Selected(g, s) = Selected(Top, s) /\ Match(g, s) = Match(Top, s)
        BY <2>1 DEF SameCall, Selected, Match
    <2>3. DecidedFrame(A, g)
        BY <1>2, <1>7, <2>1, <2>2 DEF DecidedFrame
    <2> QED BY <1>1, <1>7, <2>1, <2>3, DecidedGotoStep DEF g
<1> QED BY <1>5, <1>6, <1>7 DEF CheckExpired

\* A proof is taken up exactly when its signature holds, where that is what makes
\* it valid.
LEMMA DecidedJudge ==
    ASSUME EInv, NEW A, Decided(A, stack, ret), stack # <<>>,
           Top.pc \in {"notBefore", "session"}, NEW verdict \in Verdicts,
           \/ ret' = ret
           \/ ret' = NoReturn,
           Valid(A, Top.cands[Top.i], Top.pool) <=> verdict = "ok",
           Goto(Judge(Top, verdict))
    PROVE  Decided(A, stack', ret')
<1> DEFINE link == Top.cands[Top.i]
<1>1. Top \in Frames /\ FrameOK(Top) /\ ExplainedFrame(Top) /\ DecidedFrame(A, Top) /\ world \in Worlds
    BY DecidedTop
<1>2. link \in Link /\ Top.i \in DOMAIN Top.cands
    BY <1>1 DEF FrameOK, Frames
<1>3. CASE verdict = "ok"
    <2>1. Accept(Top, {}) \in Frames /\ Accept(Top, {}).pc = "validate"
        BY <1>1, AcceptOK DEF Accept, Frames
    <2>2. DecidedFrame(A, Accept(Top, {})) /\ SameCall(Top, Accept(Top, {}))
        BY <1>1, <1>3, DecidedAccept
    <2> QED BY <1>3, <2>1, <2>2, DecidedGotoStep DEF Judge
<1>4. CASE verdict # "ok"
    <2> DEFINE errs == BadSignature(link, verdict)
    <2>1. verdict \in ErrorNames
        BY <1>4 DEF Verdicts, ErrorNames
    <2>2. errs \in SUBSET Errors
        BY <1>2, <2>1, ErrorType DEF BadSignature
    <2> HIDE DEF errs
    <2>3. DecidedFrame(A, Reject(Top, errs)) /\ SameCall(Top, Reject(Top, errs))
        BY <1>1, <1>2, <1>4, DecidedReject
    <2> QED BY <1>1, <1>4, <2>2, <2>3, RejectOK, DecidedGotoStep DEF Judge, errs
<1> QED BY <1>3, <1>4

LEMMA DecidedCheckNotBefore ==
    ASSUME EInv, NEW A, IsAnswer(Timely, A), Decided(A, stack, ret), CheckNotBefore
    PROVE  Decided(A, stack', ret')
<1> DEFINE link == Top.cands[Top.i]
<1>1. stack # <<>> /\ Top.pc = "notBefore" /\ ret' = ret
    BY DEF CheckNotBefore, Running
<1>2. Top \in Frames /\ FrameOK(Top) /\ DecidedFrame(A, Top) /\ world \in Worlds
    BY <1>1, DecidedTop
<1>3. link \in Link /\ Top.i \in DOMAIN Top.cands /\ link \in Top.pool /\ Top.pool \in SUBSET Link
    BY <1>1, <1>2 DEF FrameOK, Frames
<1>4. link \in Timely <=> ~NotValidBefore(link)
    BY <1>1, <1>2, <1>3, TimelyIff DEF DecidedFrame
<1>5. CASE NotValidBefore(link) /\ Goto(Reject(Top, {Error(link, "NotValidBefore")}))
    <2> DEFINE errs == {Error(link, "NotValidBefore")}
    <2>1. errs \in SUBSET Errors
        BY <1>3, ErrorType DEF ErrorNames
    <2>2. ~Valid(A, link, Top.pool)
        BY <1>2, <1>3, <1>4, <1>5, ValidIff
    <2> HIDE DEF errs
    <2>3. DecidedFrame(A, Reject(Top, errs)) /\ SameCall(Top, Reject(Top, errs))
        BY <1>2, <1>3, <2>2, DecidedReject
    <2> QED BY <1>1, <1>2, <1>5, <2>1, <2>3, RejectOK, DecidedGotoStep DEF errs
<1>6. ASSUME NEW verdict \in Verdicts, Goto(Judge(Top, verdict)), ~NotValidBefore(link),
             ~NeedsSession(link), Signed(link) <=> verdict = "ok"
      PROVE  Decided(A, stack', ret')
    <2>1. Valid(A, link, Top.pool) <=> verdict = "ok"
        BY <1>2, <1>3, <1>4, <1>6, ValidIff
    <2> QED BY <1>1, <1>6, <2>1, DecidedJudge
<1>7. CASE /\ ~NotValidBefore(link) /\ IsKeyDID(Dlg(link).iss)
           /\ Goto(Judge(Top, KeyVerdict(Dlg(link))))
    <2>1. ~NeedsSession(link) /\ (Signed(link) <=> KeyVerdict(Dlg(link)) = "ok")
        BY <1>7 DEF NeedsSession, Signed
    <2>2. KeyVerdict(Dlg(link)) \in Verdicts
        BY VerdictType
    <2> QED BY <1>6, <1>7, <2>1, <2>2
<1>8. CASE /\ ~NotValidBefore(link) /\ ~IsKeyDID(Dlg(link).iss) /\ Dlg(link).iss = Service
           /\ Goto(Judge(Top, AuthorityVerdict(Dlg(link))))
    <2>1. ~NeedsSession(link) /\ (Signed(link) <=> AuthorityVerdict(Dlg(link)) = "ok")
        BY <1>8 DEF NeedsSession, Signed
    <2>2. AuthorityVerdict(Dlg(link)) \in Verdicts
        BY VerdictType
    <2> QED BY <1>6, <1>8, <2>1, <2>2
<1>9. CASE /\ ~NotValidBefore(link) /\ ~IsKeyDID(Dlg(link).iss) /\ Dlg(link).iss # Service
           /\ ~NoCapability(Top, link)
           /\ Call([Top EXCEPT !.pc = "session"], SessionFrame(Top, link))
    <2> DEFINE f == [Top EXCEPT !.pc = "session"]
               g == SessionFrame(Top, link)
    <2>1. /\ f \in Frames /\ f.pc = "session" /\ SameCall(Top, f)
          /\ f.cands = Top.cands /\ f.i = Top.i /\ f.j = Top.j /\ f.sources = Top.sources
          /\ f.failed = Top.failed
        BY <1>2 DEF Frames, SameCall
    <2>2. g \in Frames /\ g.pc = "validate"
        BY <1>2, <1>3, SessionFrameOK DEF SessionFrame, ClaimFrame
    <2>3. /\ DecidedFrame(A, g) /\ g.desc = AttestationOf(link)
          /\ g.pool = SessionPool(link, Top.pool)
        BY <1>2, <1>3, <1>9, DecidedSession
    <2> HIDE DEF f, g
    <2>4. /\ f.kind = Top.kind /\ f.desc = Top.desc /\ f.match = Top.match /\ f.pool = Top.pool
          /\ \A s : Selected(f, s) = Selected(Top, s) /\ Match(f, s) = Match(Top, s)
        BY <2>1 DEF SameCall, Selected, Match
    <2>5. link \in Timely /\ NeedsSession(link)
        BY <1>4, <1>9 DEF NeedsSession
    <2>6. DecidedFrame(A, f)
        BY <1>2, <2>1, <2>4, <2>5 DEF DecidedFrame
    <2>7. DecidedCall(f, g)
        BY <2>1, <2>3, <2>4 DEF DecidedCall
    <2>8. Call(f, g)
        BY <1>9 DEF f, g
    <2> QED BY <1>1, <2>1, <2>2, <2>3, <2>6, <2>7, <2>8, DecidedCallStep
<1> QED BY <1>5, <1>7, <1>8, <1>9 DEF CheckNotBefore

LEMMA DecidedSessionReturns ==
    ASSUME EInv, NEW A, IsAnswer(Timely, A), Decided(A, stack, ret), SessionReturns
    PROVE  Decided(A, stack', ret')
<1> DEFINE link   == Top.cands[Top.i]
           att    == [proof |-> link, links |-> AuthLinks(ret.auth)]
           desc   == AttestationOf(link)
           others == SessionPool(link, Top.pool)
<1>1. stack # <<>> /\ Top.pc = "session" /\ ret' = NoReturn /\ ret.is # "none"
    BY DEF SessionReturns, Running
<1>2. /\ Top \in Frames /\ FrameOK(Top) /\ ExplainedFrame(Top) /\ DecidedFrame(A, Top)
      /\ world \in Worlds /\ ret \in Returns /\ Top = Last(stack)
    BY <1>1, DecidedTop
<1>3. link \in Link /\ Top.i \in DOMAIN Top.cands /\ link \in Top.pool /\ Top.pool \in SUBSET Link
    BY <1>1, <1>2 DEF FrameOK, Frames
<1>4. link \in Timely /\ NeedsSession(link)
    BY <1>1, <1>2 DEF DecidedFrame
<1>5. ClaimDecided(A, desc, others, ret)
    BY <1>1, <1>2 DEF Decided, DecidedReturn
<1> HIDE DEF desc, others
<1>6. Valid(A, link, Top.pool) <=>
          \/ Answerable(A, desc, others)
          \/ (\A s \in Claims(A, desc, others) : Routed(A, desc, s)) /\ Signed(link)
    BY <1>2, <1>3, <1>4, ValidIff DEF desc, others
<1>7. CASE ret.is = "ok" /\ Goto(Accept(Top, {att}))
    <2>1. {att} \in SUBSET Attestations
        BY <1>2, <1>3, LinksType DEF Returns, Attestations
    <2>2. Valid(A, link, Top.pool)
        BY <1>5, <1>6, <1>7 DEF ClaimDecided
    <2> HIDE DEF att
    <2>3. Accept(Top, {att}) \in Frames
        BY <1>1, <1>2, <2>1, AcceptOK
    <2>4. DecidedFrame(A, Accept(Top, {att})) /\ SameCall(Top, Accept(Top, {att}))
        BY <1>1, <1>2, <2>2, DecidedAccept
    <2> QED BY <1>1, <1>7, <2>3, <2>4, DecidedGotoStep
<1>8. CASE ret.is = "fail" /\ ret.failed /\ Goto(Reject(Top, SessionEscalation(link, ret.errs)))
    <2> DEFINE errs == SessionEscalation(link, ret.errs)
    <2>1. errs \in SUBSET Errors
        BY <1>2, <1>3, ErrorType DEF SessionEscalation, ErrorNames, Returns
    <2>2. ~Valid(A, link, Top.pool)
        BY <1>5, <1>6, <1>8 DEF ClaimDecided, Answerable
    <2> HIDE DEF errs
    <2>3. DecidedFrame(A, Reject(Top, errs)) /\ SameCall(Top, Reject(Top, errs))
        BY <1>2, <1>3, <2>2, DecidedReject
    <2> QED BY <1>1, <1>2, <1>8, <2>1, <2>3, RejectOK, DecidedGotoStep DEF errs
<1>9. CASE ret.is = "fail" /\ ~ret.failed /\ Goto(Judge(Top, ResolvedVerdict(Dlg(link))))
    <2>1. Valid(A, link, Top.pool) <=> Signed(link)
        BY <1>5, <1>6, <1>9 DEF ClaimDecided, Answerable
    <2>2. Signed(link) <=> ResolvedVerdict(Dlg(link)) = "ok"
        BY <1>4 DEF Signed, NeedsSession
    <2>3. ResolvedVerdict(Dlg(link)) \in Verdicts
        BY VerdictType
    <2> QED BY <1>1, <1>9, <2>1, <2>2, <2>3, DecidedJudge
<1> QED BY <1>7, <1>8, <1>9 DEF SessionReturns

\* With nothing revoked an authorization is not given up.
LEMMA DecidedGrant ==
    ASSUME EInv, NEW A, IsAnswer(Timely, A), Decided(A, stack, ret), stack # <<>>, revoked = {},
           Top.j \in DOMAIN Top.sources, Selected(Top, Top.sources[Top.j]),
           NEW m, m = Match(Top, Top.sources[Top.j]), Routed(A, Top.desc, m),
           NEW sub, Grant(Top, m, sub)
    PROVE  Decided(A, stack', ret')
<1> DEFINE auth == Auth(<<m>> \o sub.path, RelevantAttestations(Top, m) \cup sub.atts)
<1>1. stack' = Front(stack) /\ ret' = Granted(auth)
    <2>1. RevokedIn(auth) = {}
        BY DEF RevokedIn
    <2> HIDE DEF auth
    <2>2. \/ \E link \in RevokedIn(auth) : TRUE
          \/ Return(Granted(auth))
        BY DEF Grant, auth
    <2> QED BY <2>1, <2>2 DEF Return
<1> HIDE DEF auth
<1>2. Top = Last(stack) /\ StackOK(stack) /\ DecidedStack(A, stack)
      /\ Top \in Frames /\ FrameOK(Top) /\ DecidedFrame(A, Top) /\ world \in Worlds
    BY DecidedTop
<1>3. CallDecided(A, Top, Granted(auth))
    BY <1>2, DecidedGranted
<1> QED BY <1>1, <1>2, <1>3, DecidedPopReturn

LEMMA DecidedTrySource ==
    ASSUME EInv, NEW A, IsAnswer(Timely, A), Decided(A, stack, ret), revoked = {}, TrySource
    PROVE  Decided(A, stack', ret')
<1> DEFINE s == Top.sources[Top.j]
           m == Match(Top, s)
<1>1. stack # <<>> /\ Top.pc = "validate" /\ Top.i > Len(Top.cands) /\ Top.j <= Len(Top.sources)
    BY DEF TrySource, Running
<1>2. Top \in Frames /\ FrameOK(Top) /\ DecidedFrame(A, Top) /\ world \in Worlds
    BY <1>1, DecidedTop
<1>3. Top.j \in DOMAIN Top.sources /\ s \in Sources /\ Top.desc \in Descriptor
    BY <1>1, <1>2 DEF Frames
<1>4. m \in Sources
    BY <1>2, <1>3, MatchType DEF FrameOK
<1>5. CASE ~Selected(Top, s) /\ Goto(NextSource(Top, FALSE, SelectError(Top, s))) /\ UNCHANGED ret
    <2> DEFINE errs == SelectError(Top, s)
    <2>1. errs \in SUBSET Errors
        BY <1>3, SelectErrorType DEF Sources
    <2> HIDE DEF errs
    <2>2. DecidedFrame(A, NextSource(Top, FALSE, errs)) /\ SameCall(Top, NextSource(Top, FALSE, errs))
        BY <1>2, <1>3, <1>5, DecidedNextSource
    <2> QED BY <1>1, <1>2, <1>5, <2>1, <2>2, NextSourceOK, DecidedGotoStep DEF errs
<1>6. CASE Selected(Top, s) /\ Prune(m) /\ Grant(Top, m, NoAuth)
    <2>1. Routed(A, Top.desc, m)
        BY <1>2, <1>3, <1>4, <1>6, RoutedIff
    <2> HIDE DEF m
    <2> QED BY <1>1, <1>3, <1>6, <2>1, DecidedGrant DEF m
<1>7. CASE /\ Selected(Top, s) /\ ~Prune(m) /\ UNCHANGED ret
           /\ Call([Top EXCEPT !.pc = "authorize"], AuthorizeFrame(Top.desc, m))
    <2> DEFINE f == [Top EXCEPT !.pc = "authorize"]
               g == AuthorizeFrame(Top.desc, m)
    <2>1. /\ f \in Frames /\ f.pc = "authorize" /\ SameCall(Top, f)
          /\ f.cands = Top.cands /\ f.i = Top.i /\ f.j = Top.j /\ f.sources = Top.sources
          /\ f.failed = Top.failed
        BY <1>2 DEF Frames, SameCall
    <2>2. g \in Frames /\ g.pc = "validate"
        BY <1>2, <1>3, <1>4, AuthorizeFrameOK DEF AuthorizeFrame, ClaimFrame
    <2>3. DecidedFrame(A, g) /\ g.desc = Top.desc
        BY <1>2, <1>4, <1>7, DecidedAuthorize
    <2> HIDE DEF f, g
    <2>4. /\ f.kind = Top.kind /\ f.desc = Top.desc /\ f.match = Top.match /\ f.pool = Top.pool
          /\ \A t : Selected(f, t) = Selected(Top, t) /\ Match(f, t) = Match(Top, t)
        BY <2>1 DEF SameCall, Selected, Match
    <2>5. DecidedFrame(A, f)
        BY <1>2, <2>1, <2>4 DEF DecidedFrame
    <2>6. DecidedCall(f, g)
        BY <2>1, <2>3, <2>4 DEF DecidedCall
    <2>7. Call(f, g)
        BY <1>7 DEF f, g
    <2> QED BY <1>1, <1>7, <2>1, <2>2, <2>3, <2>5, <2>6, <2>7, DecidedCallStep
<1> QED BY <1>5, <1>6, <1>7 DEF TrySource

LEMMA DecidedAuthorizeReturns ==
    ASSUME EInv, NEW A, IsAnswer(Timely, A), Decided(A, stack, ret), revoked = {}, AuthorizeReturns
    PROVE  Decided(A, stack', ret')
<1> DEFINE s == Top.sources[Top.j]
           m == Match(Top, s)
<1>1. stack # <<>> /\ Top.pc = "authorize" /\ ret.is # "none"
    BY DEF AuthorizeReturns, Running
<1>2. /\ Top \in Frames /\ FrameOK(Top) /\ DecidedFrame(A, Top) /\ world \in Worlds
      /\ ret \in Returns /\ Top = Last(stack)
    BY <1>1, DecidedTop
<1>3. Top.j \in DOMAIN Top.sources /\ s \in Sources /\ Selected(Top, s)
    BY <1>1, <1>2 DEF FrameOK, Frames
<1>4. m \in Sources /\ m.link = s.link
    BY <1>2, <1>3, MatchType DEF FrameOK
<1>5. ret.is = "ok" <=> Routed(A, Top.desc, m)
    BY <1>1, <1>2 DEF Decided, DecidedReturn, RouteDecided
<1>6. CASE ret.is = "ok" /\ Grant(Top, m, ret.auth)
    <2> HIDE DEF m
    <2> QED BY <1>1, <1>3, <1>5, <1>6, DecidedGrant DEF m
<1>7. CASE /\ ret.is = "fail" /\ ret' = NoReturn
           /\ Goto(NextSource(Top, TRUE, InvalidClaim(m.link, ret.errs)))
    <2> DEFINE errs == InvalidClaim(m.link, ret.errs)
    <2>1. errs \in SUBSET Errors
        BY <1>2, <1>4, ErrorType DEF InvalidClaim, ErrorNames, Returns, Sources
    <2> HIDE DEF errs
    <2>2. DecidedFrame(A, NextSource(Top, TRUE, errs)) /\ SameCall(Top, NextSource(Top, TRUE, errs))
        BY <1>2, <1>3, <1>5, <1>7, DecidedNextSource
    <2> QED BY <1>1, <1>2, <1>7, <2>1, <2>2, NextSourceOK, DecidedGotoStep DEF errs
<1> QED BY <1>6, <1>7 DEF AuthorizeReturns

LEMMA DecidedExhausted ==
    ASSUME EInv, NEW A, IsAnswer(Timely, A), Decided(A, stack, ret), Exhausted
    PROVE  Decided(A, stack', ret')
<1>1. stack # <<>> /\ stack' = Front(stack) /\ ret' = Denied(Top.failed, Top.errs)
      /\ Top.i > Len(Top.cands) /\ Top.j > Len(Top.sources)
    BY DEF Exhausted, Running, Return
<1>2. Top = Last(stack) /\ StackOK(stack) /\ DecidedStack(A, stack)
      /\ Top \in Frames /\ FrameOK(Top) /\ DecidedFrame(A, Top) /\ world \in Worlds
    BY <1>1, DecidedTop
<1>3. CallDecided(A, Top, Denied(Top.failed, Top.errs))
    BY <1>1, <1>2, DecidedDenied
<1> QED BY <1>1, <1>2, <1>3, DecidedPopReturn

LEMMA DecidedProvide ==
    ASSUME EInv, NEW A, Provide
    PROVE  Decided(A, stack', ret')
<1> DEFINE f == ClaimFrame(Provided, <<world.root>>, {world.root})
<1>1. stack = <<>> /\ ret = NoReturn /\ ret' = ret /\ world.root \in Link
    BY ConstantsAssumption DEF Provide, EInv, ExplainedStage, IInv, IsWorld
<1>2. DecidedReturn(A, stack', ret')
    BY <1>1 DEF DecidedReturn, NoReturn
<1>3. CASE stack' = <<f>>
    <2>1. <<world.root>> \in Seq(Link) /\ {world.root} \subseteq Range(<<world.root>>)
        BY <1>1 DEF Range
    <2>2. DecidedFrame(A, f)
        BY <2>1, DecidedClaim
    <2> HIDE DEF f
    <2>3. Len(stack') = 1 /\ stack'[1] = f
        BY <1>3
    <2> QED BY <1>2, <2>2, <2>3 DEF Decided, DecidedStack
<1>4. CASE stack' = stack
    BY <1>1, <1>2, <1>4 DEF Decided, DecidedStack
<1> QED BY <1>3, <1>4 DEF Provide

----------------------------------------------------------------------------
(* The invariant.                                                          *)

\* A still clock, and nothing revoked, since Access was called.
Still == stage # "received" /\ Quiet /\ revoked = {}

AllDecided == \A A : IsAnswer(Timely, A) => Decided(A, stack, ret)

CInv ==
    /\ EInv
    /\ SInv
    /\ Still /\ stage # "crashed" => AllDecided

\* What the claims on a pool are does not depend on the clock.
LEMMA SameClaims ==
    ASSUME UNCHANGED world, NEW A
    PROVE  /\ \A desc, pool : Claims(A, desc, pool)' = Claims(A, desc, pool)
           /\ \A desc, pool : ClaimRoutes(A, desc, pool)' = ClaimRoutes(A, desc, pool)
<1>1. \A l : Dlg(l)' = Dlg(l)
    BY DEF Dlg
<1>2. ASSUME NEW desc, NEW pool PROVE Claims(A, desc, pool)' = Claims(A, desc, pool)
    BY <1>1 DEF Claims
<1>3. ASSUME NEW desc, NEW pool PROVE ClaimRoutes(A, desc, pool)' = ClaimRoutes(A, desc, pool)
    <2> DEFINE R(X) == UNION {{vouch \cup route : vouch \in A[VouchersOf(s.link, pool)],
                                                route \in A[RouteOf(desc, s)]} : s \in X}
    <2>1. /\ ClaimRoutes(A, desc, pool) = R(Claims(A, desc, pool))
          /\ ClaimRoutes(A, desc, pool)' = R(Claims(A, desc, pool)')
        BY DEF ClaimRoutes
    <2> HIDE DEF R
    <2> QED BY <1>2, <2>1
<1> QED BY <1>2, <1>3

\* The world and the clock stay as they are.
LEMMA SameQuestions ==
    ASSUME UNCHANGED <<world, now>>, NEW A
    PROVE  /\ Timely' = Timely
           /\ IsAnswer(Timely, A)' <=> IsAnswer(Timely, A)
<1>1. /\ \A l : Dlg(l)' = Dlg(l)
      /\ \A m : Prune(m)' <=> Prune(m)
      /\ \A l : ResolveProofs(l)' = ResolveProofs(l)
      /\ \A l : AttestationOf(l)' = AttestationOf(l)
      /\ \A l, pool : SessionPool(l, pool)' = SessionPool(l, pool)
      /\ \A desc, m, p : Grants(desc, m, p)' = Grants(desc, m, p)
      /\ \A desc, pool : Claims(A, desc, pool)' = Claims(A, desc, pool)
    BY DEF Dlg, Prune, ResolveProofs, Available, AttestationOf, SessionPool, Grants, Claims, Context
<1>2. Timely' = Timely
    BY DEF Timely, RefusedTimeBounds, InBounds, Dlg, Context
<1>3. \A l : Signed(l)' <=> Signed(l)
    BY SameGraph
<1>4. \A desc, pool : ClaimRoutes(A, desc, pool)' = ClaimRoutes(A, desc, pool)
    BY SameClaims
<1>5. ASSUME NEW desc, NEW m PROVE Routes(A, desc, m)' = Routes(A, desc, m)
    BY <1>1 DEF Routes
<1>6. ASSUME NEW link, NEW pool PROVE Vouchers(Timely, A, link, pool)' = Vouchers(Timely, A, link, pool)
    BY <1>1, <1>2, <1>3, <1>4 DEF Vouchers
<1>7. \A q : Settle(Timely, A, q)' = Settle(Timely, A, q)
    BY <1>5, <1>6 DEF Settle
<1>8. IsAnswer(Timely, A)' <=> IsAnswer(Timely, A)
    BY <1>7 DEF IsAnswer
<1> QED BY <1>2, <1>8

LEMMA DecidedSame ==
    ASSUME UNCHANGED <<world, now>>, \A A : IsAnswer(Timely, A) => Decided(A, stack', ret')
    PROVE  AllDecided'
<1> SUFFICES ASSUME NEW A, IsAnswer(Timely, A)' PROVE Decided(A, stack, ret)'
    BY DEF AllDecided
<1>1. Decided(A, stack', ret') /\ Timely' = Timely
    BY SameQuestions
<1>2. /\ \A l : Dlg(l)' = Dlg(l)
      /\ \A m : Prune(m)' <=> Prune(m)
      /\ \A l : RefusedTimeBounds(l)' <=> RefusedTimeBounds(l)
      /\ \A l : Expired(l)' <=> Expired(l)
      /\ \A l : NeedsSession(l)' <=> NeedsSession(l)
      /\ \A l : AttestationOf(l)' = AttestationOf(l)
      /\ \A l, pool : SessionPool(l, pool)' = SessionPool(l, pool)
      /\ \A desc, pool : Claims(A, desc, pool)' = Claims(A, desc, pool)
    BY DEF Dlg, Prune, RefusedTimeBounds, Expired, NeedsSession, AttestationOf, SessionPool,
       Claims, Context
<1>3. ASSUME NEW f, DecidedFrame(A, f) PROVE DecidedFrame(A, f)'
    BY <1>1, <1>2, <1>3 DEF DecidedFrame
<1>4. ASSUME NEW f, NEW g, DecidedCall(f, g) PROVE DecidedCall(f, g)'
    BY <1>2, <1>4 DEF DecidedCall
<1>5. ASSUME NEW desc, NEW pool, NEW r, ClaimDecided(A, desc, pool, r)
      PROVE  ClaimDecided(A, desc, pool, r)'
    BY <1>2, <1>5 DEF ClaimDecided, Answerable
<1>6. DecidedStack(A, stack)'
    BY <1>1, <1>3, <1>4 DEF Decided, DecidedStack
<1>7. DecidedReturn(A, stack, ret)'
    BY <1>1, <1>2, <1>5 DEF Decided, DecidedReturn, RouteDecided
<1> QED BY <1>6, <1>7 DEF Decided

LEMMA CInit == Init => CInv
BY ExplainedInit, SoundInit DEF Init, CInv, Still

LEMMA CStep == CInv /\ [Next]_vars => CInv'
<1> SUFFICES ASSUME CInv, [Next]_vars PROVE CInv'
    OBVIOUS
<1>1. EInv'
    BY ExplainedStep DEF CInv
<1>2. TypeOK /\ world \in Worlds /\ ret \in Returns
    BY DEF CInv, EInv, IInv, TypeOK, Returns
<1>3. SInv'
    BY SoundStep DEF CInv
<1>4. ASSUME Still', stage' # "crashed" PROVE AllDecided'
    <2>1. CASE Provide
        <3>1. UNCHANGED <<world, now>>
            BY <2>1 DEF Provide, env
        <3>2. \A A : IsAnswer(Timely, A) => Decided(A, stack', ret')
            BY <2>1, DecidedProvide DEF CInv
        <3> QED BY <3>1, <3>2, DecidedSame
    <2>2. CASE CheckExpired \/ CheckNotBefore \/ SessionReturns \/ TrySource \/ AuthorizeReturns
               \/ Exhausted
        <3>1. UNCHANGED <<world, now, revoked, stage, start>> /\ stage = "access"
            BY <2>2 DEF CheckExpired, CheckNotBefore, SessionReturns, TrySource,
               AuthorizeReturns, Exhausted, Running, env
        <3>2. Still /\ AllDecided /\ revoked = {}
            BY <1>4, <3>1 DEF Still, Quiet, CInv
        <3>3. \A A : IsAnswer(Timely, A) => Decided(A, stack', ret')
            BY <2>2, <3>2, DecidedCheckExpired, DecidedCheckNotBefore, DecidedSessionReturns,
               DecidedTrySource, DecidedAuthorizeReturns, DecidedExhausted DEF CInv, AllDecided
        <3> QED BY <3>1, <3>3, DecidedSame
    <2>3. CASE Answer \/ UNCHANGED vars
        <3>1. /\ UNCHANGED <<world, now, revoked, start, stack, ret>>
              /\ stage # "received" /\ stage # "crashed"
            BY <1>4, <2>3 DEF Answer, vars, env, Still
        <3>2. Still /\ AllDecided
            BY <1>4, <3>1 DEF Still, Quiet, CInv
        <3>3. \A A : IsAnswer(Timely, A) => Decided(A, stack', ret')
            BY <3>1, <3>2 DEF AllDecided
        <3> QED BY <3>1, <3>3, DecidedSame
    <2>4. CASE Tick
        <3>1. now' = now + 1 /\ UNCHANGED <<stage, start>>
            BY <2>4 DEF Tick
        <3>2. now \in Int /\ start.now \in Int
            BY <1>2 DEF TypeOK
        <3>3. start.now <= now /\ now' = start.now
            BY <1>4, <3>1 DEF Still, Quiet, CInv, SInv, SoundStart
        <3> QED BY <3>1, <3>2, <3>3
    <2>5. CASE Revoke
        BY <1>4, <2>5 DEF Revoke, Still
    <2>6. CASE SessionPanics
        BY <1>4, <2>6 DEF SessionPanics
    <2> QED BY <2>1, <2>2, <2>3, <2>4, <2>5, <2>6 DEF Next, Serve
<1> QED BY <1>1, <1>3, <1>4 DEF CInv

\* With a still clock and nothing revoked, Access finds an authorization exactly
\* when there is one, for all delegation graphs: no order of the proofs, and no
\* proof that fails, keeps the search from it (validator/lib.go 244-318, 361-408,
\* 483-508).
THEOREM AccessIsRight == Spec => []AccessDecides
<1>1. ASSUME CInv PROVE AccessDecides
    <2> SUFFICES ASSUME stage \in {"handled", "unauthorized"}, Quiet, revoked = {}
                 PROVE  stage = "handled" <=> Authorizations(Timely) # {}
        BY DEF AccessDecides
    <2> DEFINE A == Answers(Timely)
    <2>1. EInv /\ TypeOK /\ StageOK /\ ExplainedStage /\ world \in Worlds /\ stack = <<>>
        BY <1>1 DEF CInv, EInv, IInv, TypeOK
    <2>2. IsAnswer(Timely, A)
        BY <2>1, AnswersSettle
    <2> HIDE DEF A
    <2>3. Decided(A, stack, ret)
        BY <1>1, <2>2 DEF CInv, Still, AllDecided
    <2>4. stage = "handled" <=> ret.is = "ok"
        BY <2>1 DEF StageOK, ExplainedStage
    <2>5. ret.is # "none"
        BY <2>1, <2>4 DEF ExplainedStage
    <2>6. ret.is = "ok" <=> Answerable(A, Provided, {world.root})
        BY <2>1, <2>3, <2>5 DEF Decided, DecidedReturn, ClaimDecided
    <2>7. Answerable(A, Provided, {world.root}) <=> ClaimRoutes(A, Provided, {world.root}) # {}
        BY ClaimRoutesIff
    <2> QED BY <2>4, <2>6, <2>7 DEF Authorizations, A
<1> QED BY <1>1, CInit, CStep, PTL DEF Spec
=============================================================================
