----------------------- MODULE DelegationViewsProofs -----------------------
(***************************************************************************)
(* What views of block stores promise, for all graphs of proofs, receipts  *)
(* and sequences of operations.  An export is a closure under proofs, and  *)
(* so is what a view has to have; the invariant says that the store of     *)
(* every view has it, and that a store is never replaced by another one of *)
(* its name.                                                               *)
(***************************************************************************)
EXTENDS DelegationViews, TLAPS

----------------------------------------------------------------------------
(* Closures.                                                               *)

Closed(S, N) == \A k \in S : N[k] \subseteq S

\* The least closed set with l.
Closure(l, N) ==
    {m \in Link : \A S \in SUBSET Link : l \in S /\ Closed(S, N) => m \in S}

LEMMA ClosureLeast ==
    ASSUME NEW N, NEW l, NEW S \in SUBSET Link, l \in S, Closed(S, N)
    PROVE  Closure(l, N) \subseteq S
BY DEF Closure

LEMMA ClosureClosed ==
    ASSUME NEW N \in [Link -> SUBSET Link], NEW l \in Link
    PROVE  /\ l \in Closure(l, N) /\ Closure(l, N) \subseteq Link
           /\ Closed(Closure(l, N), N)
BY DEF Closure, Closed

\* A closure contains those of its members.
LEMMA ClosureContains ==
    ASSUME NEW N \in [Link -> SUBSET Link], NEW l \in Link, NEW k \in Closure(l, N)
    PROVE  Closure(k, N) \subseteq Closure(l, N)
BY ClosureClosed, ClosureLeast

LEMMA ClosureUnfolds ==
    ASSUME NEW N \in [Link -> SUBSET Link], NEW l \in Link
    PROVE  Closure(l, N) = {l} \cup UNION {Closure(p, N) : p \in N[l]}
<1> DEFINE U == {l} \cup UNION {Closure(p, N) : p \in N[l]}
<1>1. U \subseteq Link /\ l \in U
  BY ClosureClosed
<1>2. Closed(U, N)
  <2> SUFFICES ASSUME NEW k \in U PROVE N[k] \subseteq U
    BY DEF Closed
  <2>1. CASE k = l
    BY <2>1, ClosureClosed
  <2>2. CASE \E p \in N[l] : k \in Closure(p, N)
    BY <2>2, ClosureClosed DEF Closed
  <2> QED BY <2>1, <2>2
<1>3. Closure(l, N) \subseteq U
  BY <1>1, <1>2, ClosureLeast
<1>4. \A p \in N[l] : Closure(p, N) \subseteq Closure(l, N)
  BY ClosureClosed, ClosureContains DEF Closed
<1> QED BY <1>3, <1>4, ClosureClosed

\* What is below a link is a closure.
Above(lacks) == [l \in Link |-> Range(Proofs[l]) \ lacks]

LEMMA BelowIsClosure ==
    ASSUME NEW l \in Link, NEW lacks
    PROVE  /\ Above(lacks) \in [Link -> SUBSET Link]
           /\ Below(l, lacks) = Closure(l, Above(lacks))
<1>1. Above(lacks) \in [Link -> SUBSET Link]
  BY ViewsAssumption DEF Above, Range
<1>2. \A S \in SUBSET Link : Closed(S, Above(lacks)) <=> \A k \in S : Range(Proofs[k]) \ lacks \subseteq S
  BY DEF Above, Closed
<1> QED BY <1>1, <1>2 DEF Below, Closure

\* An export is a closure as well: no two functions satisfy its definition, since
\* proofs do not come back to where they began.
Needs(blocks, omit) == [l \in Link |-> (Range(Proofs[l]) \cap blocks) \ omit]

LEMMA ExportIsClosure ==
    ASSUME NEW blocks, NEW omit
    PROVE  /\ Needs(blocks, omit) \in [Link -> SUBSET Link]
           /\ Export(blocks, omit) = [l \in Link |-> Closure(l, Needs(blocks, omit))]
<1> DEFINE N == Needs(blocks, omit)
           G(f) == [l \in Link |-> {l} \cup UNION {f[p] : p \in (Range(Proofs[l]) \cap blocks) \ omit}]
           c == [l \in Link |-> Closure(l, N)]
           e == CHOOSE f : f = G(f)
<1>1. N \in [Link -> SUBSET Link] /\ \A l \in Link : N[l] \subseteq Range(Proofs[l])
  BY ViewsAssumption DEF Needs, Range
<1>2. c = G(c)
  <2>1. ASSUME NEW l \in Link PROVE c[l] = {l} \cup UNION {c[p] : p \in N[l]}
    <3>1. {c[p] : p \in N[l]} = {Closure(p, N) : p \in N[l]}
      BY <1>1
    <3> QED BY <1>1, <3>1, ClosureUnfolds
  <2> QED BY <2>1 DEF Needs
<1>3. e = G(e)
  BY <1>2
<1>4. e = c
  <2> DEFINE S == {l \in Link : e[l] # c[l]}
  <2>1. SUFFICES ASSUME S # {} PROVE FALSE
    BY <1>2, <1>3
  <2>2. PICK l \in S : Range(Proofs[l]) \cap S = {}
    BY <2>1, AcyclicAssumption
  <2>3. \A p \in N[l] : e[p] = c[p]
    BY <1>1, <2>2
  <2>4. e[l] = {l} \cup UNION {e[p] : p \in N[l]} /\ c[l] = {l} \cup UNION {c[p] : p \in N[l]}
    BY <1>2, <1>3 DEF Needs
  <2> HIDE DEF e, c, N
  <2>5. {e[p] : p \in N[l]} = {c[p] : p \in N[l]}
    BY <2>3
  <2> QED BY <2>2, <2>4, <2>5
<1> QED BY <1>1, <1>4 DEF Export

\* What an export has: the link, and what is below it as far as the store has it.
LEMMA ExportHas ==
    ASSUME NEW l \in Link, NEW blocks, NEW omit, NEW lacks, Below(l, lacks) \subseteq blocks
    PROVE  /\ l \in Export(blocks, omit)[l] /\ Export(blocks, omit)[l] \subseteq Link
           /\ Below(l, lacks \cup omit) \subseteq Export(blocks, omit)[l]
           /\ Export(blocks, omit)[l] \subseteq Below(l, {})
<1> DEFINE E == Export(blocks, omit)[l]
           N == Needs(blocks, omit)
           M == Above(lacks \cup omit)
<1>1. E = Closure(l, N) /\ N \in [Link -> SUBSET Link]
  BY ExportIsClosure
<1>2. l \in E /\ E \subseteq Link /\ Closed(E, N)
  BY <1>1, ClosureClosed
<1>3. /\ Below(l, lacks) = Closure(l, Above(lacks)) /\ Above(lacks) \in [Link -> SUBSET Link]
      /\ Below(l, lacks \cup omit) = Closure(l, M) /\ M \in [Link -> SUBSET Link]
      /\ Below(l, {}) = Closure(l, Above({})) /\ Above({}) \in [Link -> SUBSET Link]
  BY BelowIsClosure
<1>4. Below(l, lacks \cup omit) \subseteq E
  <2> DEFINE S == E \cap Below(l, lacks)
  <2>1. l \in S /\ S \subseteq Link
    BY <1>2, <1>3, ClosureClosed
  <2>2. \A k \in S : M[k] \subseteq N[k] /\ M[k] \subseteq Above(lacks)[k]
    <3> TAKE k \in S
    <3>1. k \in Link /\ k \in Below(l, lacks)
      BY <2>1
    <3>2. Above(lacks)[k] \subseteq blocks
      BY <1>3, <3>1, ClosureClosed DEF Closed
    <3> QED BY <3>1, <3>2 DEF Needs, Above
  <2>3. Closed(S, M)
    <3>1. \A k \in E : N[k] \subseteq E
      BY <1>2 DEF Closed
    <3>2. \A k \in Below(l, lacks) : Above(lacks)[k] \subseteq Below(l, lacks)
      BY <1>3, ClosureClosed DEF Closed
    <3> HIDE DEF E, N, M
    <3> QED BY <2>2, <3>1, <3>2 DEF Closed
  <2> QED BY <1>3, <2>1, <2>3, ClosureLeast
<1>5. E \subseteq Below(l, {})
  <2>1. \A k \in Link : N[k] \subseteq Above({})[k]
    <3>1. \A k \in Link : N[k] = (Range(Proofs[k]) \cap blocks) \ omit
      BY DEF Needs
    <3>2. \A k \in Link : Above({})[k] = Range(Proofs[k]) \ {}
      BY DEF Above
    <3> HIDE DEF N
    <3> QED BY <3>1, <3>2
  <2>2. l \in Below(l, {}) /\ Below(l, {}) \subseteq Link /\ Closed(Below(l, {}), Above({}))
    BY <1>3, ClosureClosed
  <2>3. Closed(Below(l, {}), N)
    BY <2>1, <2>2 DEF Closed
  <2> QED BY <1>1, <2>2, <2>3, ClosureLeast
<1> QED BY <1>2, <1>4, <1>5

\* Nothing but the link is below it if everything is lacking.
LEMMA BelowAll == ASSUME NEW l \in Link PROVE Below(l, Link) = {l}
<1>1. Above(Link) \in [Link -> SUBSET Link] /\ Below(l, Link) = Closure(l, Above(Link))
  BY BelowIsClosure
<1>2. \A k \in Link : Above(Link)[k] = {}
  BY ViewsAssumption DEF Above, Range
<1>3. Closed({l}, Above(Link))
  BY <1>2 DEF Closed
<1> QED BY <1>1, <1>3, ClosureLeast, ClosureClosed

\* A set with the link that has the proofs of all its members but for `lacks` has
\* all below it.
LEMMA BelowLeast ==
    ASSUME NEW l \in Link, NEW lacks, NEW S \in SUBSET Link, l \in S,
           \A k \in S : Range(Proofs[k]) \ lacks \subseteq S
    PROVE  Below(l, lacks) \subseteq S
BY DEF Below

LEMMA BelowClosed ==
    ASSUME NEW l \in Link, NEW lacks
    PROVE  /\ l \in Below(l, lacks) /\ Below(l, lacks) \subseteq Link
           /\ \A k \in Below(l, lacks) : Range(Proofs[k]) \ lacks \subseteq Below(l, lacks)
<1>1. Above(lacks) \in [Link -> SUBSET Link] /\ Below(l, lacks) = Closure(l, Above(lacks))
  BY BelowIsClosure
<1> QED BY <1>1, ClosureClosed DEF Closed, Above

\* The less is lacking, the more is below.
LEMMA BelowMonotone ==
    ASSUME NEW l \in Link, NEW lacks, NEW more, lacks \subseteq more
    PROVE  Below(l, more) \subseteq Below(l, lacks)
BY BelowLeast, BelowClosed
----------------------------------------------------------------------------
(* The inductive invariant.                                                *)

Names == ((Link \cup Receipt \cup {"message"}) \X Nat) \cup (Receipt \X Nat \X {"attached"})

StoreRecs == [blocks : SUBSET Block, writable : BOOLEAN]
DlgRecs   == [store : Names, attached : SUBSET Extra, lacks : SUBSET Link, carries : SUBSET Extra]
RcptRecs  == [store : Names, lacks : SUBSET Link]
Numbered(of) == of \X Nat
Caches(of) == UNION {[D -> Numbered(of)] : D \in SUBSET of}
MsgRecs   == [store : Names, execute : SUBSET Link, report : SUBSET Receipt, invs : Caches(Link),
              rcpts : Caches(Receipt), lacks : SUBSET Link, carries : SUBSET Extra]

DlgsTyped(ds)  == ds \in [Link -> Seq(DlgRecs)]
RcptsTyped(rs) == rs \in [Receipt -> Seq(RcptRecs)]
StoresTyped(st) == \A name \in DOMAIN st : st[name] \in StoreRecs

\* The stores st have what a delegation, a receipt or a message needs.
DlgGood(st, l, d) ==
    /\ d.store \in DOMAIN st
    /\ Below(l, d.lacks) \subseteq st[d.store].blocks
    /\ d.carries \subseteq st[d.store].blocks \cup d.attached

Refers(st, rc, store, lacks) ==
    \A l \in Linked(rc) \ lacks : Below(l, lacks) \subseteq st[store].blocks

RcptGood(st, rc, r) == r.store \in DOMAIN st /\ Refers(st, rc, r.store, r.lacks)

MsgGood(st, m) ==
    /\ m.store \in DOMAIN st
    /\ m.carries \subseteq st[m.store].blocks
    /\ \A l \in m.execute : Below(l, m.lacks) \subseteq st[m.store].blocks
    /\ \A rc \in m.report : Refers(st, rc, m.store, m.lacks)

\* A cached view is a view of what it is cached under.
Cached(m, ds, rs) ==
    /\ \A l \in DOMAIN m.invs : m.invs[l][1] = l /\ m.invs[l][2] \in 1..Len(ds[l])
    /\ \A rc \in DOMAIN m.rcpts : m.rcpts[rc][1] = rc /\ m.rcpts[rc][2] \in 1..Len(rs[rc])

\* What a store may be named for.  A receipt gets a store of its own when it gets
\* its invocation, once.
Named(name, st, ds, rs, ms) ==
    \/ \E l \in Link : \E k \in 1..Len(ds[l]) : name = <<l, k>>
    \/ \E rc \in Receipt : \E k \in 1..Len(rs[rc]) : name = <<rc, k>>
    \/ \E k \in 1..Len(ms) : name = <<"message", k>>
    \/ \E rc \in Receipt : \E k \in 1..Len(rs[rc]) :
          name = <<rc, k, "attached">> /\ Ran[rc] \in st[rs[rc][k].store].blocks

\* A receipt is on a store of its own or on that of a message.
OwnStore(rc, k, store, ms) ==
    store \in {<<rc, k>>, <<rc, k, "attached">>} \cup {<<"message", i>> : i \in 1..Len(ms)}

Stored == StoresTyped(stores) /\ \A name \in DOMAIN stores : Named(name, stores, dlgs, rcpts, msgs)

DlgsGood ==
    /\ DlgsTyped(dlgs)
    /\ \A l \in Link : \A k \in 1..Len(dlgs[l]) : DlgGood(stores, l, dlgs[l][k])

RcptsGood ==
    /\ RcptsTyped(rcpts)
    /\ \A rc \in Receipt : \A k \in 1..Len(rcpts[rc]) :
          RcptGood(stores, rc, rcpts[rc][k]) /\ OwnStore(rc, k, rcpts[rc][k].store, msgs)

MsgsGood ==
    /\ msgs \in Seq(MsgRecs)
    /\ \A i \in 1..Len(msgs) : /\ MsgGood(stores, msgs[i]) /\ Cached(msgs[i], dlgs, rcpts)
                               /\ msgs[i].store = <<"message", i>>

IInv == Stored /\ DlgsGood /\ RcptsGood /\ MsgsGood

----------------------------------------------------------------------------
(* What steps do, one part of the state at a time.                         *)

\* No store loses a block, and the new ones are named for something new.
StoresGrow(st) ==
    \A name \in DOMAIN stores : name \in DOMAIN st /\ stores[name].blocks \subseteq st[name].blocks

StoreStep ==
    /\ StoresTyped(stores') /\ StoresGrow(stores')
    /\ \A name \in DOMAIN stores' \ DOMAIN stores : Named(name, stores', dlgs', rcpts', msgs')

DlgStep ==
    /\ DlgsTyped(dlgs')
    /\ \A l \in Link : \A k \in 1..Len(dlgs[l]) :
          /\ k \in 1..Len(dlgs'[l])
          /\ dlgs'[l][k].store = dlgs[l][k].store
          /\ dlgs[l][k].attached \subseteq dlgs'[l][k].attached
    /\ \A l \in Link : \A k \in 1..Len(dlgs'[l]) :
          \/ k \in 1..Len(dlgs[l]) /\ dlgs'[l][k] = dlgs[l][k]
          \/ DlgGood(stores', l, dlgs'[l][k])

RcptStep ==
    /\ RcptsTyped(rcpts')
    /\ \A rc \in Receipt : \A k \in 1..Len(rcpts[rc]) :
          /\ k \in 1..Len(rcpts'[rc])
          /\ stores[rcpts[rc][k].store].blocks \subseteq stores'[rcpts'[rc][k].store].blocks
    /\ \A rc \in Receipt : \A k \in 1..Len(rcpts'[rc]) :
          \/ k \in 1..Len(rcpts[rc]) /\ rcpts'[rc][k] = rcpts[rc][k]
          \/ RcptGood(stores', rc, rcpts'[rc][k]) /\ OwnStore(rc, k, rcpts'[rc][k].store, msgs')

MsgStep ==
    /\ msgs' \in Seq(MsgRecs) /\ \A i \in 1..Len(msgs) : i \in 1..Len(msgs')
    /\ \A i \in 1..Len(msgs') :
          \/ i \in 1..Len(msgs) /\ msgs'[i] = msgs[i]
          \/ /\ MsgGood(stores', msgs'[i]) /\ Cached(msgs'[i], dlgs', rcpts')
             /\ msgs'[i].store = <<"message", i>>

GoodStep == StoreStep /\ DlgStep /\ RcptStep /\ MsgStep

\* What is good stays so when stores grow.
LEMMA GoodGrows ==
    ASSUME NEW st, StoresGrow(st)
    PROVE  /\ \A l, d : DlgGood(stores, l, d) => DlgGood(st, l, d)
           /\ \A rc, r : RcptGood(stores, rc, r) => RcptGood(st, rc, r)
           /\ \A m : MsgGood(stores, m) => MsgGood(st, m)
<1>1. ASSUME NEW l, NEW d, DlgGood(stores, l, d) PROVE DlgGood(st, l, d)
  BY <1>1 DEF StoresGrow, DlgGood
<1>2. ASSUME NEW rc, NEW r, RcptGood(stores, rc, r) PROVE RcptGood(st, rc, r)
  BY <1>2 DEF StoresGrow, RcptGood, Refers
<1>3. ASSUME NEW m, MsgGood(stores, m) PROVE MsgGood(st, m)
  BY <1>3 DEF StoresGrow, MsgGood, Refers
<1> QED BY <1>1, <1>2, <1>3

\* Such steps keep the invariant.
LEMMA GoodStepIInv == ASSUME IInv, GoodStep PROVE IInv'
<1> USE DEF IInv, GoodStep
<1>1. StoresGrow(stores')
  BY DEF StoreStep
<1>2. DlgsGood'
  <2>1. ASSUME NEW l \in Link, NEW k \in 1..Len(dlgs'[l]) PROVE DlgGood(stores', l, dlgs'[l][k])
    BY <1>1, GoodGrows DEF DlgsGood, DlgStep
  <2> QED BY <2>1 DEF DlgsGood, DlgStep
<1>3. RcptsGood'
  <2>1. \A rc, k, name : OwnStore(rc, k, name, msgs) => OwnStore(rc, k, name, msgs')
    BY DEF OwnStore, MsgStep
  <2>2. ASSUME NEW rc \in Receipt, NEW k \in 1..Len(rcpts'[rc])
        PROVE  RcptGood(stores', rc, rcpts'[rc][k]) /\ OwnStore(rc, k, rcpts'[rc][k].store, msgs')
    BY <1>1, <2>1, GoodGrows DEF RcptsGood, RcptStep
  <2> QED BY <2>2 DEF RcptsGood, RcptStep
<1>4. MsgsGood'
  <2>1. ASSUME NEW m \in MsgRecs, Cached(m, dlgs, rcpts) PROVE Cached(m, dlgs', rcpts')
    <3>1. DOMAIN m.invs \subseteq Link /\ DOMAIN m.rcpts \subseteq Receipt
      BY DEF MsgRecs, Caches
    <3> QED BY <2>1, <3>1 DEF Cached, DlgStep, RcptStep
  <2>2. ASSUME NEW i \in 1..Len(msgs')
        PROVE  /\ MsgGood(stores', msgs'[i]) /\ Cached(msgs'[i], dlgs', rcpts')
               /\ msgs'[i].store = <<"message", i>>
    <3>1. i \in 1..Len(msgs) => msgs[i] \in MsgRecs
      BY DEF MsgsGood
    <3> QED BY <1>1, <2>1, <3>1, GoodGrows DEF MsgsGood, MsgStep
  <2> QED BY <2>2 DEF MsgsGood, MsgStep
<1>5. Stored'
  <2>1. ASSUME NEW name \in DOMAIN stores PROVE Named(name, stores', dlgs', rcpts', msgs')
    <3>1. Named(name, stores, dlgs, rcpts, msgs)
      BY DEF Stored
    <3>2. CASE \E l \in Link : \E k \in 1..Len(dlgs[l]) : name = <<l, k>>
      BY <3>2 DEF Named, DlgStep
    <3>3. CASE \E rc \in Receipt : \E k \in 1..Len(rcpts[rc]) : name = <<rc, k>>
      BY <3>3 DEF Named, RcptStep
    <3>4. CASE \E k \in 1..Len(msgs) : name = <<"message", k>>
      BY <3>4 DEF Named, MsgStep
    <3>5. CASE \E rc \in Receipt : \E k \in 1..Len(rcpts[rc]) :
                  name = <<rc, k, "attached">> /\ Ran[rc] \in stores[rcpts[rc][k].store].blocks
      BY <3>5 DEF Named, RcptStep
    <3> QED BY <3>1, <3>2, <3>3, <3>4, <3>5 DEF Named
  <2> QED BY <2>1 DEF Stored, StoreStep
<1> QED BY <1>2, <1>3, <1>4, <1>5

\* A part of the state that a step leaves alone.
LEMMA SameParts ==
    ASSUME IInv, StoresGrow(stores')
    PROVE  /\ UNCHANGED stores => StoreStep
           /\ UNCHANGED dlgs => DlgStep
           /\ UNCHANGED rcpts => RcptStep
           /\ UNCHANGED msgs => MsgStep
<1> USE DEF IInv
<1>1. ASSUME UNCHANGED stores PROVE StoreStep
  BY <1>1 DEF Stored, StoreStep
<1>2. ASSUME UNCHANGED dlgs PROVE DlgStep
  BY <1>2 DEF DlgsGood, DlgStep
<1>3. ASSUME UNCHANGED rcpts PROVE RcptStep
  <2>1. \A rc \in Receipt : \A k \in 1..Len(rcpts[rc]) : rcpts[rc][k].store \in DOMAIN stores
    BY DEF RcptsGood, RcptGood
  <2> QED BY <1>3, <2>1 DEF RcptsGood, RcptStep, StoresGrow
<1>4. ASSUME UNCHANGED msgs PROVE MsgStep
  BY <1>4 DEF MsgsGood, MsgStep
<1> QED BY <1>1, <1>2, <1>3, <1>4

----------------------------------------------------------------------------
(* New stores and new views.                                               *)

\* The elements of a list that one was appended to.
LEMMA Appended ==
    ASSUME NEW S, NEW s \in Seq(S), NEW x \in S, NEW t, t = Append(s, x)
    PROVE  /\ t \in Seq(S) /\ Len(s) \in Nat /\ Len(t) = Len(s) + 1
           /\ \A k \in 1..Len(s) : k \in 1..Len(t) /\ t[k] = s[k]
           /\ \A k \in 1..Len(t) : k \in 1..Len(s) \/ (k = Len(s) + 1 /\ t[k] = x)
OBVIOUS

\* The stores after one was made.
LEMMA StoreMade ==
    ASSUME NEW name, NEW blocks, NEW writable, Store(name, blocks, writable)
    PROVE  /\ DOMAIN stores' = DOMAIN stores \cup {name}
           /\ stores'[name] = [blocks |-> blocks, writable |-> writable]
           /\ \A n \in DOMAIN stores \ {name} : stores'[n] = stores[n]
BY DEF Store, With

LEMMA NewStore ==
    ASSUME IInv, NEW name, NEW blocks \in SUBSET Block, NEW writable \in BOOLEAN,
           Store(name, blocks, writable), name \notin DOMAIN stores,
           Named(name, stores', dlgs', rcpts', msgs')
    PROVE  StoreStep /\ StoresGrow(stores')
<1>1. /\ DOMAIN stores' = DOMAIN stores \cup {name}
      /\ stores'[name] = [blocks |-> blocks, writable |-> writable]
      /\ \A n \in DOMAIN stores \ {name} : stores'[n] = stores[n]
  BY StoreMade
<1>2. StoresGrow(stores')
  BY <1>1 DEF StoresGrow
<1>3. StoresTyped(stores')
  BY <1>1 DEF IInv, Stored, StoresTyped, StoreRecs
<1>4. \A n \in DOMAIN stores' \ DOMAIN stores : n = name
  BY <1>1
<1> QED BY <1>2, <1>3, <1>4 DEF StoreStep

\* A view that is not there yet has no store.
LEMMA FreshNames ==
    ASSUME IInv
    PROVE  /\ \A l \in Link : NewDlg(l) \notin DOMAIN stores
           /\ \A rc \in Receipt : NewRcpt(rc) \notin DOMAIN stores
           /\ NewMsg \notin DOMAIN stores
           /\ \A rc \in Receipt : \A k \in 1..Len(rcpts[rc]) :
                 Ran[rc] \notin stores[rcpts[rc][k].store].blocks
                     => <<rc, k, "attached">> \notin DOMAIN stores
<1> USE DEF IInv
<1>1. /\ \A l \in Link : Len(dlgs[l]) \in Nat
      /\ \A rc \in Receipt : Len(rcpts[rc]) \in Nat
      /\ Len(msgs) \in Nat
  BY DEF DlgsGood, DlgsTyped, RcptsGood, RcptsTyped, MsgsGood
<1>2. \A a, b, c, d, e : <<a, b>> # <<c, d, e>>
  <2> TAKE a, b, c, d, e
  <2>1. Len(<<a, b>>) = 2 /\ Len(<<c, d, e>>) = 3
    OBVIOUS
  <2> QED BY <2>1
<1>3. \A name \in DOMAIN stores : Named(name, stores, dlgs, rcpts, msgs)
  BY DEF Stored
<1>4. ASSUME NEW l \in Link PROVE <<l, Len(dlgs[l]) + 1>> \notin DOMAIN stores
  BY <1>1, <1>2, <1>3, NamesAssumption DEF Named
<1>5. ASSUME NEW rc \in Receipt PROVE <<rc, Len(rcpts[rc]) + 1>> \notin DOMAIN stores
  BY <1>1, <1>2, <1>3, NamesAssumption DEF Named
<1>6. <<"message", Len(msgs) + 1>> \notin DOMAIN stores
  BY <1>1, <1>2, <1>3, NamesAssumption DEF Named
<1>7. ASSUME NEW rc \in Receipt, NEW k \in 1..Len(rcpts[rc]),
             <<rc, k, "attached">> \in DOMAIN stores
      PROVE  Ran[rc] \in stores[rcpts[rc][k].store].blocks
  BY <1>2, <1>3, <1>7 DEF Named
<1> QED BY <1>4, <1>5, <1>6, <1>7 DEF NewDlg, NewRcpt, NewMsg

NoAttachment(store, lacks, carries) ==
    [store |-> store, attached |-> {}, lacks |-> lacks, carries |-> carries]

LEMMA NewDlgView ==
    ASSUME IInv, NEW l \in Link, NEW store \in Names, NEW lacks \in SUBSET Link,
           NEW carries \in SUBSET Extra, AddDlg(l, store, lacks, carries),
           DlgGood(stores', l, NoAttachment(store, lacks, carries))
    PROVE  /\ DlgStep
           /\ Len(dlgs[l]) \in Nat /\ Len(dlgs'[l]) = Len(dlgs[l]) + 1
           /\ \A x \in Link \ {l} : dlgs'[x] = dlgs[x]
<1> DEFINE d == NoAttachment(store, lacks, carries)
<1>1. DlgsTyped(dlgs) /\ dlgs[l] \in Seq(DlgRecs) /\ d \in DlgRecs
  BY DEF IInv, DlgsGood, DlgsTyped, NoAttachment, DlgRecs
<1>2. dlgs' = [dlgs EXCEPT ![l] = Append(dlgs[l], d)]
  BY DEF AddDlg, NoAttachment
<1> HIDE DEF d
<1>3. dlgs'[l] = Append(dlgs[l], d) /\ \A x \in Link \ {l} : dlgs'[x] = dlgs[x]
  BY <1>1, <1>2 DEF DlgsTyped
<1>4. DlgsTyped(dlgs')
  BY <1>1, <1>2, Appended DEF DlgsTyped
<1>5. /\ Len(dlgs[l]) \in Nat /\ Len(dlgs'[l]) = Len(dlgs[l]) + 1
      /\ \A k \in 1..Len(dlgs[l]) : k \in 1..Len(dlgs'[l]) /\ dlgs'[l][k] = dlgs[l][k]
      /\ \A k \in 1..Len(dlgs'[l]) : k \in 1..Len(dlgs[l]) \/ dlgs'[l][k] = d
  BY <1>1, <1>3, Appended
<1> QED BY <1>3, <1>4, <1>5 DEF DlgStep, d

LEMMA NewRcptView ==
    ASSUME IInv, NEW rc \in Receipt, NEW store \in Names, NEW lacks \in SUBSET Link,
           AddRcpt(rc, store, lacks), StoresGrow(stores'),
           RcptGood(stores', rc, [store |-> store, lacks |-> lacks]),
           OwnStore(rc, Len(rcpts[rc]) + 1, store, msgs')
    PROVE  /\ RcptStep
           /\ Len(rcpts[rc]) \in Nat /\ Len(rcpts'[rc]) = Len(rcpts[rc]) + 1
           /\ \A x \in Receipt \ {rc} : rcpts'[x] = rcpts[x]
<1> DEFINE r == [store |-> store, lacks |-> lacks]
<1>1. RcptsTyped(rcpts) /\ rcpts[rc] \in Seq(RcptRecs) /\ r \in RcptRecs
  BY DEF IInv, RcptsGood, RcptsTyped, RcptRecs
<1>2. rcpts' = [rcpts EXCEPT ![rc] = Append(rcpts[rc], r)] /\ r.store = store
  BY DEF AddRcpt
<1> HIDE DEF r
<1>3. rcpts'[rc] = Append(rcpts[rc], r) /\ \A x \in Receipt \ {rc} : rcpts'[x] = rcpts[x]
  BY <1>1, <1>2 DEF RcptsTyped
<1>4. RcptsTyped(rcpts')
  BY <1>1, <1>2, Appended DEF RcptsTyped
<1>5. /\ Len(rcpts[rc]) \in Nat /\ Len(rcpts'[rc]) = Len(rcpts[rc]) + 1
      /\ \A k \in 1..Len(rcpts[rc]) : k \in 1..Len(rcpts'[rc]) /\ rcpts'[rc][k] = rcpts[rc][k]
      /\ \A k \in 1..Len(rcpts'[rc]) :
            k \in 1..Len(rcpts[rc]) \/ (k = Len(rcpts[rc]) + 1 /\ rcpts'[rc][k] = r)
  BY <1>1, <1>3, Appended
<1>6. \A x \in Receipt : \A k \in 1..Len(rcpts[x]) :
         k \in 1..Len(rcpts'[x]) /\ rcpts'[x][k] = rcpts[x][k]
  BY <1>3, <1>5
<1>7. \A x \in Receipt : \A k \in 1..Len(rcpts[x]) : rcpts[x][k].store \in DOMAIN stores
  BY DEF IInv, RcptsGood, RcptGood
<1>8. \A x \in Receipt : \A k \in 1..Len(rcpts[x]) :
         stores[rcpts[x][k].store].blocks \subseteq stores'[rcpts'[x][k].store].blocks
  BY <1>6, <1>7 DEF StoresGrow
<1>9. ASSUME NEW x \in Receipt, NEW k \in 1..Len(rcpts'[x])
      PROVE  \/ k \in 1..Len(rcpts[x]) /\ rcpts'[x][k] = rcpts[x][k]
             \/ RcptGood(stores', x, rcpts'[x][k]) /\ OwnStore(x, k, rcpts'[x][k].store, msgs')
  <2>1. CASE x = rc
    BY <1>2, <1>5, <2>1 DEF r
  <2>2. CASE x # rc
    BY <1>3, <2>2
  <2> QED BY <2>1, <2>2
<1> QED BY <1>3, <1>4, <1>5, <1>6, <1>8, <1>9 DEF RcptStep

LEMMA NewMsgView ==
    ASSUME IInv, NEW m \in MsgRecs, msgs' = Append(msgs, m),
           MsgGood(stores', m), Cached(m, dlgs', rcpts'), m.store = NewMsg
    PROVE  MsgStep /\ Len(msgs) \in Nat /\ Len(msgs') = Len(msgs) + 1
<1>1. msgs \in Seq(MsgRecs)
  BY DEF IInv, MsgsGood
<1>2. /\ msgs' \in Seq(MsgRecs) /\ Len(msgs) \in Nat /\ Len(msgs') = Len(msgs) + 1
      /\ \A k \in 1..Len(msgs) : k \in 1..Len(msgs') /\ msgs'[k] = msgs[k]
      /\ \A k \in 1..Len(msgs') : k \in 1..Len(msgs) \/ (k = Len(msgs) + 1 /\ msgs'[k] = m)
  BY <1>1, Appended
<1> QED BY <1>2 DEF MsgStep, NewMsg

----------------------------------------------------------------------------
(* What the invariant says of views.                                       *)

LEMMA ViewFacts ==
    ASSUME IInv, NEW v \in Views
    PROVE  /\ v[1] \in Link /\ v[2] \in 1..Len(dlgs[v[1]]) /\ v[2] \in Nat /\ v = <<v[1], v[2]>>
           /\ Dlg(v) = dlgs[v[1]][v[2]] /\ Dlg(v) \in DlgRecs
           /\ Dlg(v).store \in DOMAIN stores /\ Has(Dlg(v).store) \in SUBSET Block
           /\ Below(v[1], Dlg(v).lacks) \subseteq Has(Dlg(v).store)
           /\ Dlg(v).carries \subseteq Blocks(v) /\ Blocks(v) \in SUBSET Block
<1>1. PICK l \in Link : \E k \in DOMAIN dlgs[l] : v = <<l, k>>
  BY DEF Views
<1> PICK k \in DOMAIN dlgs[l] : v = <<l, k>>
  BY <1>1
<1>2. dlgs[l] \in Seq(DlgRecs) /\ DlgGood(stores, l, dlgs[l][k]) /\ k \in 1..Len(dlgs[l])
  BY <1>1 DEF IInv, DlgsGood, DlgsTyped
<1>3. v[1] = l /\ v[2] = k /\ dlgs[l][k] \in DlgRecs /\ k \in Nat
  BY <1>1, <1>2
<1>4. Has(Dlg(v).store) \in SUBSET Block
  BY <1>2, <1>3 DEF IInv, Stored, StoresTyped, StoreRecs, DlgGood, Has, Dlg
<1>5. Dlg(v).attached \subseteq Extra
  BY <1>2, <1>3 DEF Dlg, DlgRecs
<1> QED BY <1>1, <1>2, <1>3, <1>4, <1>5 DEF DlgGood, Dlg, Has, Blocks, Block

LEMMA ReceiptFacts ==
    ASSUME IInv, NEW v \in Receipts
    PROVE  /\ v[1] \in Receipt /\ v[2] \in 1..Len(rcpts[v[1]]) /\ v[2] \in Nat /\ v = <<v[1], v[2]>>
           /\ Rcpt(v) = rcpts[v[1]][v[2]] /\ Rcpt(v) \in RcptRecs
           /\ Rcpt(v).store \in DOMAIN stores /\ Has(Rcpt(v).store) \in SUBSET Block
           /\ Linked(v[1]) \in SUBSET Link
           /\ \A l \in Linked(v[1]) \ Rcpt(v).lacks : Below(l, Rcpt(v).lacks) \subseteq Has(Rcpt(v).store)
           /\ OwnStore(v[1], v[2], Rcpt(v).store, msgs)
<1>1. PICK rc \in Receipt : \E k \in DOMAIN rcpts[rc] : v = <<rc, k>>
  BY DEF Receipts
<1> PICK k \in DOMAIN rcpts[rc] : v = <<rc, k>>
  BY <1>1
<1>2. rcpts[rc] \in Seq(RcptRecs) /\ RcptGood(stores, rc, rcpts[rc][k]) /\ k \in 1..Len(rcpts[rc])
      /\ OwnStore(rc, k, rcpts[rc][k].store, msgs)
  BY <1>1 DEF IInv, RcptsGood, RcptsTyped
<1>3. v[1] = rc /\ v[2] = k /\ rcpts[rc][k] \in RcptRecs /\ k \in Nat
  BY <1>1, <1>2
<1>4. Has(Rcpt(v).store) \in SUBSET Block
  BY <1>2, <1>3 DEF IInv, Stored, StoresTyped, StoreRecs, RcptGood, Has, Rcpt
<1>5. Linked(rc) \in SUBSET Link
  BY ViewsAssumption DEF Linked
<1> QED BY <1>1, <1>2, <1>3, <1>4, <1>5 DEF RcptGood, Refers, Rcpt, Has

\* An export has what the view promises, and nothing else.
LEMMA ExportsFacts ==
    ASSUME IInv, NEW v \in Views, NEW omit
    PROVE  /\ v[1] \in Exports(v, omit) /\ Exports(v, omit) \in SUBSET Block
           /\ Below(v[1], Dlg(v).lacks \cup omit) \subseteq Exports(v, omit)
           /\ Dlg(v).attached \subseteq Exports(v, omit)
           /\ Exports(v, omit) \subseteq Below(v[1], {}) \cup Dlg(v).attached
<1> DEFINE E == Export(Has(Dlg(v).store), omit)[v[1]]
<1>1. /\ v[1] \in E /\ E \subseteq Link
      /\ Below(v[1], Dlg(v).lacks \cup omit) \subseteq E /\ E \subseteq Below(v[1], {})
  BY ViewFacts, ExportHas
<1>2. Dlg(v).attached \subseteq Extra
  BY ViewFacts DEF DlgRecs
<1> QED BY <1>1, <1>2 DEF Exports, Block

LEMMA ReceiptExportsFacts ==
    ASSUME IInv, NEW v \in Receipts
    PROVE  /\ ReceiptExports(v) \in SUBSET Block
           /\ \A l \in Linked(v[1]) \ Rcpt(v).lacks : Below(l, Rcpt(v).lacks) \subseteq ReceiptExports(v)
           /\ ReceiptExports(v) \subseteq {v[1]} \cup UNION {Below(l, {}) : l \in Linked(v[1])}
<1> DEFINE blocks == Has(Rcpt(v).store)
           E(l) == Export(blocks, {})[l]
<1>1. ASSUME NEW l \in Linked(v[1]) \cap blocks
      PROVE  E(l) \subseteq Link /\ E(l) \subseteq Below(l, {})
  <2>1. l \in Link
    BY ReceiptFacts
  <2>2. Below(l, Link) \subseteq blocks
    BY <2>1, BelowAll
  <2> QED BY <2>1, <2>2, ExportHas
<1>2. ASSUME NEW l \in Linked(v[1]) \ Rcpt(v).lacks
      PROVE  l \in blocks /\ Below(l, Rcpt(v).lacks) \subseteq E(l)
  <2>1. l \in Link /\ Below(l, Rcpt(v).lacks) \subseteq blocks
    BY ReceiptFacts
  <2>2. Below(l, Rcpt(v).lacks \cup {}) \subseteq E(l) /\ Rcpt(v).lacks \cup {} = Rcpt(v).lacks
    BY <2>1, ExportHas
  <2> QED BY <2>1, <2>2, BelowClosed
<1>3. ReceiptExports(v) = {v[1]} \cup UNION {E(l) : l \in Linked(v[1]) \cap blocks}
  BY DEF ReceiptExports
<1> HIDE DEF E, blocks
<1>4. v[1] \in Block
  BY ReceiptFacts DEF Block
<1>5. ReceiptExports(v) \in SUBSET Block
  BY <1>1, <1>3, <1>4 DEF Block
<1>6. \A l \in Linked(v[1]) \ Rcpt(v).lacks : Below(l, Rcpt(v).lacks) \subseteq ReceiptExports(v)
  BY <1>2, <1>3
<1>7. ReceiptExports(v) \subseteq {v[1]} \cup UNION {Below(l, {}) : l \in Linked(v[1])}
  BY <1>1, <1>3
<1> QED BY <1>5, <1>6, <1>7

----------------------------------------------------------------------------
(* Making a view with a store of its own.                                  *)

\* No store that is there changes, and no receipt changes its store.
Quiet ==
    /\ \A name \in DOMAIN stores : name \in DOMAIN stores' /\ stores'[name] = stores[name]
    /\ \A rc \in Receipt : \A k \in 1..Len(rcpts[rc]) : rcpts'[rc][k].store = rcpts[rc][k].store

\* The stores after a new one was made.
LEMMA QuietStores ==
    ASSUME NEW name, NEW blocks, NEW writable, Store(name, blocks, writable), name \notin DOMAIN stores
    PROVE  /\ StoresGrow(stores')
           /\ name \in DOMAIN stores' /\ stores'[name].blocks = blocks
           /\ \A n \in DOMAIN stores : n \in DOMAIN stores' /\ stores'[n] = stores[n]
<1>1. /\ DOMAIN stores' = DOMAIN stores \cup {name}
      /\ stores'[name] = [blocks |-> blocks, writable |-> writable]
      /\ \A n \in DOMAIN stores \ {name} : stores'[n] = stores[n]
  BY StoreMade
<1> QED BY <1>1 DEF StoresGrow

\* Appending a receipt leaves the others where they are.
LEMMA RcptStoresStay ==
    ASSUME IInv, NEW rc \in Receipt, NEW store \in Names, NEW lacks \in SUBSET Link,
           rcpts' = [rcpts EXCEPT ![rc] = Append(@, [store |-> store, lacks |-> lacks])]
    PROVE  \A x \in Receipt : \A k \in 1..Len(rcpts[x]) :
              k \in 1..Len(rcpts'[x]) /\ rcpts'[x][k] = rcpts[x][k]
<1>1. RcptsTyped(rcpts) /\ rcpts[rc] \in Seq(RcptRecs)
      /\ [store |-> store, lacks |-> lacks] \in RcptRecs
  BY DEF IInv, RcptsGood, RcptsTyped, RcptRecs
<1>2. \A x \in Receipt \ {rc} : rcpts'[x] = rcpts[x]
  BY <1>1 DEF RcptsTyped
<1>3. rcpts'[rc] = Append(rcpts[rc], [store |-> store, lacks |-> lacks])
  BY <1>1 DEF RcptsTyped
<1>4. \A k \in 1..Len(rcpts[rc]) : k \in 1..Len(rcpts'[rc]) /\ rcpts'[rc][k] = rcpts[rc][k]
  BY <1>1, <1>3, Appended
<1> QED BY <1>2, <1>4

LEMMA MakesDlg ==
    ASSUME IInv, NEW l \in Link, NEW blocks \in SUBSET Block, NEW writable \in BOOLEAN,
           NEW lacks \in SUBSET Link, NEW carries \in SUBSET Extra,
           Store(NewDlg(l), blocks, writable), AddDlg(l, NewDlg(l), lacks, carries),
           UNCHANGED <<rcpts, msgs>>, Below(l, lacks) \subseteq blocks, carries \subseteq blocks
    PROVE  GoodStep /\ Quiet
<1>1. NewDlg(l) \notin DOMAIN stores
  BY FreshNames
<1>2. /\ StoresGrow(stores')
      /\ NewDlg(l) \in DOMAIN stores' /\ stores'[NewDlg(l)].blocks = blocks
      /\ \A n \in DOMAIN stores : n \in DOMAIN stores' /\ stores'[n] = stores[n]
  BY <1>1, QuietStores
<1>3. DlgGood(stores', l, NoAttachment(NewDlg(l), lacks, carries))
  BY <1>2 DEF DlgGood, NoAttachment
<1>4. NewDlg(l) \in Names
  <2>1. dlgs[l] \in Seq(DlgRecs)
    BY DEF IInv, DlgsGood, DlgsTyped
  <2> QED BY <2>1 DEF NewDlg, Names
<1>5. DlgStep /\ Len(dlgs[l]) \in Nat /\ Len(dlgs'[l]) = Len(dlgs[l]) + 1
  BY <1>3, <1>4, NewDlgView
<1>6. Named(NewDlg(l), stores', dlgs', rcpts', msgs')
  BY <1>5 DEF Named, NewDlg
<1>7. StoreStep
  BY <1>1, <1>6, NewStore
<1>8. RcptStep /\ MsgStep
  BY <1>2, SameParts
<1> QED BY <1>2, <1>5, <1>7, <1>8 DEF GoodStep, Quiet

LEMMA MakesRcpt ==
    ASSUME IInv, NEW rc \in Receipt, NEW blocks \in SUBSET Block, NEW writable \in BOOLEAN,
           NEW lacks \in SUBSET Link,
           Store(NewRcpt(rc), blocks, writable), AddRcpt(rc, NewRcpt(rc), lacks),
           UNCHANGED <<dlgs, msgs>>, \A l \in Linked(rc) \ lacks : Below(l, lacks) \subseteq blocks
    PROVE  GoodStep /\ Quiet
<1>1. NewRcpt(rc) \notin DOMAIN stores
  BY FreshNames
<1>2. /\ StoresGrow(stores')
      /\ NewRcpt(rc) \in DOMAIN stores' /\ stores'[NewRcpt(rc)].blocks = blocks
      /\ \A n \in DOMAIN stores : n \in DOMAIN stores' /\ stores'[n] = stores[n]
  BY <1>1, QuietStores
<1>3. RcptGood(stores', rc, [store |-> NewRcpt(rc), lacks |-> lacks])
  BY <1>2 DEF RcptGood, Refers
<1>4. NewRcpt(rc) \in Names /\ OwnStore(rc, Len(rcpts[rc]) + 1, NewRcpt(rc), msgs')
  <2>1. rcpts[rc] \in Seq(RcptRecs)
    BY DEF IInv, RcptsGood, RcptsTyped
  <2> QED BY <2>1 DEF NewRcpt, Names, OwnStore
<1>5. RcptStep /\ Len(rcpts[rc]) \in Nat /\ Len(rcpts'[rc]) = Len(rcpts[rc]) + 1
  BY <1>2, <1>3, <1>4, NewRcptView
<1>6. Named(NewRcpt(rc), stores', dlgs', rcpts', msgs')
  BY <1>5 DEF Named, NewRcpt
<1>7. StoreStep
  BY <1>1, <1>6, NewStore
<1>8. DlgStep /\ MsgStep
  BY <1>2, SameParts
<1>9. Quiet
  <2>1. \A x \in Receipt : \A k \in 1..Len(rcpts[x]) : rcpts'[x][k].store = rcpts[x][k].store
    BY <1>3, <1>4, RcptStoresStay DEF AddRcpt
  <2> QED BY <1>2, <2>1 DEF Quiet
<1> QED BY <1>5, <1>7, <1>8, <1>9 DEF GoodStep

LEMMA MakesMsg ==
    ASSUME IInv, NEW m \in MsgRecs, NEW blocks \in SUBSET Block, NEW writable \in BOOLEAN,
           Store(NewMsg, blocks, writable), AddMsg(m), UNCHANGED <<dlgs, rcpts>>,
           m.store = NewMsg, Cached(m, dlgs, rcpts), m.carries \subseteq blocks,
           \A l \in m.execute : Below(l, m.lacks) \subseteq blocks,
           \A rc \in m.report : \A l \in Linked(rc) \ m.lacks : Below(l, m.lacks) \subseteq blocks
    PROVE  GoodStep /\ Quiet
<1>1. NewMsg \notin DOMAIN stores
  BY FreshNames
<1>2. /\ StoresGrow(stores')
      /\ NewMsg \in DOMAIN stores' /\ stores'[NewMsg].blocks = blocks
      /\ \A n \in DOMAIN stores : n \in DOMAIN stores' /\ stores'[n] = stores[n]
  BY <1>1, QuietStores
<1>3. MsgGood(stores', m)
  BY <1>2 DEF MsgGood, Refers
<1>4. MsgStep /\ Len(msgs) \in Nat /\ Len(msgs') = Len(msgs) + 1
  BY <1>3, NewMsgView DEF AddMsg
<1>5. Named(NewMsg, stores', dlgs', rcpts', msgs')
  BY <1>4 DEF Named, NewMsg
<1>6. StoreStep
  BY <1>1, <1>5, NewStore
<1>7. DlgStep /\ RcptStep
  BY <1>2, SameParts
<1> QED BY <1>2, <1>4, <1>6, <1>7 DEF GoodStep, Quiet

----------------------------------------------------------------------------
(* What is gathered from views.                                            *)

LEMMA Gathered ==
    ASSUME IInv, NEW vs \in SUBSET Views
    PROVE  /\ Written(vs) \in SUBSET Block /\ Links(vs) \in SUBSET Link
           /\ Lacks(vs) \in SUBSET Link /\ Carries(vs) \in SUBSET Extra
           /\ Carries(vs) \subseteq Written(vs)
           /\ \A v \in vs : Below(v[1], Dlg(v).lacks) \subseteq Written(vs)
<1>1. ASSUME NEW v \in vs
      PROVE  /\ v[1] \in Link /\ Dlg(v).lacks \in SUBSET Link /\ Dlg(v).carries \in SUBSET Extra
             /\ Blocks(v) \in SUBSET Block /\ Dlg(v).carries \subseteq Blocks(v)
             /\ Below(v[1], Dlg(v).lacks) \subseteq Blocks(v)
  BY ViewFacts DEF DlgRecs, Blocks
<1> QED BY <1>1 DEF Written, Links, Lacks, Carries

\* What is below a link is in what is gathered from views of its proofs.
LEMMA GatheredBelow ==
    ASSUME IInv, NEW vs \in SUBSET Views, NEW link \in Link, NEW lacks,
           Range(Proofs[link]) \ lacks \subseteq Links(vs), Lacks(vs) \subseteq lacks
    PROVE  Below(link, lacks) \subseteq {link} \cup Written(vs)
<1> DEFINE S == {link} \cup UNION {Below(v[1], lacks) : v \in vs}
<1>1. ASSUME NEW v \in vs
      PROVE  /\ v[1] \in Link /\ v[1] \in Below(v[1], lacks) /\ Below(v[1], lacks) \subseteq Link
             /\ \A k \in Below(v[1], lacks) : Range(Proofs[k]) \ lacks \subseteq Below(v[1], lacks)
             /\ Below(v[1], lacks) \subseteq Written(vs)
  <2>1. v[1] \in Link /\ Dlg(v).lacks \subseteq lacks
    BY Gathered DEF Links, Lacks
  <2>2. Below(v[1], Dlg(v).lacks) \subseteq Written(vs)
    BY Gathered
  <2> QED BY <2>1, <2>2, BelowClosed, BelowMonotone
<1>2. S \in SUBSET Link /\ link \in S /\ S \subseteq {link} \cup Written(vs)
  BY <1>1
<1>3. \A k \in S : Range(Proofs[k]) \ lacks \subseteq S
  BY <1>1 DEF Links
<1> HIDE DEF S
<1> QED BY <1>2, <1>3, BelowLeast

----------------------------------------------------------------------------
(* The operations that make a delegation.                                  *)

LEMMA DelegateStep ==
    ASSUME IInv, NEW link \in Link, Delegate(link)
    PROVE  GoodStep /\ Quiet
<1>1. PICK vs \in OneEach(Range(Proofs[link])) :
         /\ Store(NewDlg(link), {link} \cup Written(vs), TRUE)
         /\ AddDlg(link, NewDlg(link), Lacks(vs) \cup (Range(Proofs[link]) \ Links(vs)), Carries(vs))
         /\ UNCHANGED <<rcpts, msgs>>
  BY DEF Delegate
<1>2. vs \in SUBSET Views
  BY DEF OneEach
<1> DEFINE lacks == Lacks(vs) \cup (Range(Proofs[link]) \ Links(vs))
           blocks == {link} \cup Written(vs)
<1>3. /\ lacks \in SUBSET Link /\ blocks \in SUBSET Block
      /\ Carries(vs) \in SUBSET Extra /\ Carries(vs) \subseteq blocks
  BY <1>2, Gathered, ViewsAssumption DEF Range, Block
<1>4. Below(link, lacks) \subseteq blocks
  <2>1. Range(Proofs[link]) \ lacks \subseteq Links(vs) /\ Lacks(vs) \subseteq lacks
    OBVIOUS
  <2> QED BY <1>2, <2>1, GatheredBelow
<1>5. Store(NewDlg(link), blocks, TRUE) /\ AddDlg(link, NewDlg(link), lacks, Carries(vs))
  BY <1>1
<1> HIDE DEF lacks, blocks
<1> QED BY <1>1, <1>3, <1>4, <1>5, MakesDlg

LEMMA ExtractStep ==
    ASSUME IInv, NEW v \in Views, Extract(v)
    PROVE  GoodStep /\ Quiet
<1>1. /\ v[1] \in Link /\ Dlg(v).lacks \in SUBSET Link /\ Dlg(v).attached \in SUBSET Extra
  BY ViewFacts DEF DlgRecs
<1>2. Exports(v, {}) \in SUBSET Block /\ Dlg(v).attached \subseteq Exports(v, {})
      /\ Below(v[1], Dlg(v).lacks) \subseteq Exports(v, {})
  <2>1. Dlg(v).lacks \cup {} = Dlg(v).lacks
    OBVIOUS
  <2> QED BY <2>1, ExportsFacts
<1>3. /\ Store(NewDlg(v[1]), Exports(v, {}), FALSE)
      /\ AddDlg(v[1], NewDlg(v[1]), Dlg(v).lacks, Dlg(v).attached) /\ UNCHANGED <<rcpts, msgs>>
  BY DEF Extract
<1> QED BY <1>1, <1>2, <1>3, MakesDlg

LEMMA OmitProofsStep ==
    ASSUME IInv, NEW v \in Views, OmitProofs(v)
    PROVE  GoodStep /\ Quiet
<1> DEFINE omit == Range(Proofs[v[1]])
<1>1. /\ v[1] \in Link /\ Dlg(v).lacks \cup omit \in SUBSET Link /\ Dlg(v).attached \in SUBSET Extra
  BY ViewFacts, ViewsAssumption DEF DlgRecs, Range
<1>2. Exports(v, omit) \in SUBSET Block /\ Dlg(v).attached \subseteq Exports(v, omit)
      /\ Below(v[1], Dlg(v).lacks \cup omit) \subseteq Exports(v, omit)
  BY ExportsFacts
<1>3. /\ Store(NewDlg(v[1]), Exports(v, omit), FALSE)
      /\ AddDlg(v[1], NewDlg(v[1]), Dlg(v).lacks \cup omit, Dlg(v).attached)
      /\ UNCHANGED <<rcpts, msgs>>
  BY DEF OmitProofs
<1> HIDE DEF omit
<1> QED BY <1>1, <1>2, <1>3, MakesDlg

LEMMA AttachStep ==
    ASSUME IInv, NEW v \in Views, Attach(v)
    PROVE  GoodStep /\ Quiet
<1>1. PICK x \in Extra : dlgs' = [dlgs EXCEPT ![v[1]][v[2]] = WithBlock(@, x)]
  BY DEF Attach
<1>2. UNCHANGED <<stores, rcpts, msgs>>
  BY DEF Attach
<1>3. StoreStep /\ RcptStep /\ MsgStep /\ Quiet
  <2>1. StoresGrow(stores')
    BY <1>2 DEF StoresGrow
  <2> QED BY <1>2, <2>1, SameParts DEF Quiet
<1> DEFINE d == dlgs[v[1]][v[2]]
           e == WithBlock(d, x)
<1>4. /\ DlgsTyped(dlgs) /\ v[1] \in Link /\ v[2] \in 1..Len(dlgs[v[1]]) /\ d \in DlgRecs
      /\ dlgs[v[1]] \in Seq(DlgRecs)
  BY ViewFacts DEF IInv, DlgsGood, DlgsTyped
<1>5. dlgs' = [dlgs EXCEPT ![v[1]] = [dlgs[v[1]] EXCEPT ![v[2]] = e]]
  BY <1>1
<1>6. /\ e \in DlgRecs /\ e.store = d.store /\ e.lacks = d.lacks
      /\ e.attached = d.attached \cup {x} /\ e.carries = d.carries \cup {x}
  <2>1. ASSUME NEW r \in DlgRecs
        PROVE  /\ WithBlock(r, x) \in DlgRecs /\ WithBlock(r, x).store = r.store /\ WithBlock(r, x).lacks = r.lacks
               /\ WithBlock(r, x).attached = r.attached \cup {x} /\ WithBlock(r, x).carries = r.carries \cup {x}
    BY DEF DlgRecs, WithBlock
  <2> HIDE DEF d
  <2> QED BY <1>4, <2>1
<1> HIDE DEF e
<1>7. DlgGood(stores, v[1], e)
  <2>1. DlgGood(stores, v[1], d)
    BY <1>4 DEF IInv, DlgsGood
  <2> QED BY <1>6, <2>1 DEF DlgGood
<1>8. e.store = d.store /\ d.attached \subseteq e.attached
  BY <1>6
<1> HIDE DEF d, e
<1>9. /\ \A l \in Link \ {v[1]} : dlgs'[l] = dlgs[l]
      /\ dlgs'[v[1]] \in Seq(DlgRecs) /\ Len(dlgs'[v[1]]) = Len(dlgs[v[1]])
      /\ \A k \in 1..Len(dlgs[v[1]]) :
            dlgs'[v[1]][k] = IF k = v[2] THEN e ELSE dlgs[v[1]][k]
  <2>1. dlgs'[v[1]] = [dlgs[v[1]] EXCEPT ![v[2]] = e] /\ \A l \in Link \ {v[1]} : dlgs'[l] = dlgs[l]
    BY <1>4, <1>5 DEF DlgsTyped
  <2>2. ASSUME NEW s \in Seq(DlgRecs), NEW k \in 1..Len(s)
        PROVE  /\ [s EXCEPT ![k] = e] \in Seq(DlgRecs) /\ Len([s EXCEPT ![k] = e]) = Len(s)
               /\ \A i \in 1..Len(s) : [s EXCEPT ![k] = e][i] = IF i = k THEN e ELSE s[i]
    BY <1>6
  <2> QED BY <1>4, <2>1, <2>2
<1>10. DlgsTyped(dlgs')
  BY <1>4, <1>5, <1>9 DEF DlgsTyped
<1>11. ASSUME NEW l \in Link, NEW k \in 1..Len(dlgs[l])
       PROVE  /\ k \in 1..Len(dlgs'[l])
              /\ dlgs'[l][k].store = dlgs[l][k].store
              /\ dlgs[l][k].attached \subseteq dlgs'[l][k].attached
  BY <1>8, <1>9 DEF d
<1>12. ASSUME NEW l \in Link, NEW k \in 1..Len(dlgs'[l])
       PROVE  \/ k \in 1..Len(dlgs[l]) /\ dlgs'[l][k] = dlgs[l][k]
              \/ DlgGood(stores', l, dlgs'[l][k])
  BY <1>2, <1>7, <1>9
<1>13. DlgStep
  BY <1>10, <1>11, <1>12 DEF DlgStep
<1> QED BY <1>3, <1>13 DEF GoodStep

----------------------------------------------------------------------------
(* The operations that make a receipt.                                     *)

LEMMA GatheredHas ==
    ASSUME IInv, NEW vs \in SUBSET Views, NEW l \in Links(vs), NEW lacks, Lacks(vs) \subseteq lacks
    PROVE  l \in Link /\ Below(l, lacks) \subseteq Written(vs)
<1>1. PICK v \in vs : v[1] = l
  BY DEF Links
<1>2. l \in Link /\ Below(l, Dlg(v).lacks) \subseteq Written(vs)
  BY <1>1, Gathered
<1>3. Dlg(v).lacks \subseteq lacks
  BY DEF Lacks
<1> QED BY <1>2, <1>3, BelowMonotone

LEMMA IssueStep ==
    ASSUME IInv, NEW rc \in Receipt, Issue(rc)
    PROVE  GoodStep /\ Quiet
<1>1. PICK vs \in OneEach(Linked(rc)) :
         /\ Store(NewRcpt(rc), {rc} \cup Written(vs), TRUE)
         /\ AddRcpt(rc, NewRcpt(rc), Lacks(vs) \cup (Linked(rc) \ Links(vs)))
         /\ UNCHANGED <<dlgs, msgs>>
  BY DEF Issue
<1>2. vs \in SUBSET Views
  BY DEF OneEach
<1> DEFINE lacks == Lacks(vs) \cup (Linked(rc) \ Links(vs))
           blocks == {rc} \cup Written(vs)
<1>3. lacks \in SUBSET Link /\ blocks \in SUBSET Block
  BY <1>2, Gathered, ViewsAssumption DEF Linked, Block
<1>4. \A l \in Linked(rc) \ lacks : Below(l, lacks) \subseteq blocks
  BY <1>2, GatheredHas
<1>5. Store(NewRcpt(rc), blocks, TRUE) /\ AddRcpt(rc, NewRcpt(rc), lacks)
  BY <1>1
<1> HIDE DEF lacks, blocks
<1> QED BY <1>1, <1>3, <1>4, <1>5, MakesRcpt

LEMMA CloneStep ==
    ASSUME IInv, NEW v \in Receipts, Clone(v) \/ Rebind(v)
    PROVE  GoodStep /\ Quiet
<1>1. /\ v[1] \in Receipt /\ Rcpt(v).lacks \in SUBSET Link /\ Has(Rcpt(v).store) \in SUBSET Block
      /\ \A l \in Linked(v[1]) \ Rcpt(v).lacks : Below(l, Rcpt(v).lacks) \subseteq Has(Rcpt(v).store)
  BY ReceiptFacts DEF RcptRecs
<1>2. PICK writable \in BOOLEAN :
         /\ Store(NewRcpt(v[1]), Has(Rcpt(v).store), writable)
         /\ AddRcpt(v[1], NewRcpt(v[1]), Rcpt(v).lacks) /\ UNCHANGED <<dlgs, msgs>>
  BY DEF Clone, Rebind
<1> QED BY <1>1, <1>2, MakesRcpt

LEMMA ExtractReceiptStep ==
    ASSUME IInv, NEW v \in Receipts, ExtractReceipt(v)
    PROVE  GoodStep /\ Quiet
<1>1. /\ v[1] \in Receipt /\ Rcpt(v).lacks \in SUBSET Link /\ ReceiptExports(v) \in SUBSET Block
      /\ \A l \in Linked(v[1]) \ Rcpt(v).lacks : Below(l, Rcpt(v).lacks) \subseteq ReceiptExports(v)
  BY ReceiptFacts, ReceiptExportsFacts DEF RcptRecs
<1>2. /\ Store(NewRcpt(v[1]), ReceiptExports(v), FALSE)
      /\ AddRcpt(v[1], NewRcpt(v[1]), Rcpt(v).lacks) /\ UNCHANGED <<dlgs, msgs>>
  BY DEF ExtractReceipt
<1> QED BY <1>1, <1>2, MakesRcpt

----------------------------------------------------------------------------
(* The operations that make a view on the store of another.                *)

\* With nothing of what it refers to, a view has at least its own block.
LEMMA OwnBlock ==
    ASSUME NEW l \in Link, NEW blocks, l \in blocks
    PROVE  Below(l, Link) \subseteq blocks
BY BelowAll

LEMMA ViewStep ==
    ASSUME IInv, NEW v \in Receipts, View(v)
    PROVE  GoodStep /\ Quiet
<1>1. PICK link \in Linked(v[1]) \cap Has(Rcpt(v).store) :
         AddDlg(link, Rcpt(v).store, IF link \in Rcpt(v).lacks THEN Link ELSE Rcpt(v).lacks, {})
  BY DEF View
<1>2. UNCHANGED <<stores, rcpts, msgs>>
  BY DEF View
<1> DEFINE lacks == IF link \in Rcpt(v).lacks THEN Link ELSE Rcpt(v).lacks
<1>3. /\ link \in Link /\ lacks \in SUBSET Link /\ Rcpt(v).store \in Names
      /\ Rcpt(v).store \in DOMAIN stores
  BY ReceiptFacts DEF RcptRecs
<1>4. Below(link, lacks) \subseteq Has(Rcpt(v).store)
  BY <1>3, ReceiptFacts, OwnBlock
<1>5. AddDlg(link, Rcpt(v).store, lacks, {})
  BY <1>1
<1> HIDE DEF lacks
<1>6. DlgGood(stores', link, NoAttachment(Rcpt(v).store, lacks, {}))
  BY <1>2, <1>3, <1>4 DEF DlgGood, NoAttachment, Has
<1>7. DlgStep
  BY <1>3, <1>5, <1>6, NewDlgView
<1>8. StoreStep /\ RcptStep /\ MsgStep /\ Quiet
  <2>1. StoresGrow(stores')
    BY <1>2 DEF StoresGrow
  <2> QED BY <1>2, <2>1, SameParts DEF Quiet
<1> QED BY <1>7, <1>8 DEF GoodStep

LEMMA MessageFacts ==
    ASSUME IInv, NEW m \in DOMAIN msgs
    PROVE  /\ m \in 1..Len(msgs) /\ msgs[m] \in MsgRecs /\ msgs[m].store \in DOMAIN stores
           /\ Has(msgs[m].store) \in SUBSET Block /\ msgs[m].carries \subseteq Has(msgs[m].store)
           /\ \A l \in msgs[m].execute : Below(l, msgs[m].lacks) \subseteq Has(msgs[m].store)
           /\ \A rc \in msgs[m].report : \A l \in Linked(rc) \ msgs[m].lacks :
                 Below(l, msgs[m].lacks) \subseteq Has(msgs[m].store)
           /\ MsgGood(stores, msgs[m]) /\ Cached(msgs[m], dlgs, rcpts)
           /\ msgs[m].store = <<"message", m>> /\ msgs \in Seq(MsgRecs)
<1>1. msgs \in Seq(MsgRecs) /\ m \in 1..Len(msgs)
  BY DEF IInv, MsgsGood
<1>2. /\ msgs[m] \in MsgRecs /\ MsgGood(stores, msgs[m]) /\ Cached(msgs[m], dlgs, rcpts)
      /\ msgs[m].store = <<"message", m>>
  BY <1>1 DEF IInv, MsgsGood
<1>3. Has(msgs[m].store) \in SUBSET Block
  BY <1>2 DEF IInv, Stored, StoresTyped, StoreRecs, MsgGood, Has
<1> QED BY <1>1, <1>2, <1>3 DEF MsgGood, Refers, Has

\* A cache with one more view.
LEMMA CacheWith ==
    ASSUME NEW of, NEW c \in Caches(of), NEW x \in of, NEW y \in Numbered(of)
    PROVE  /\ With(c, x, y) \in Caches(of) /\ DOMAIN With(c, x, y) = DOMAIN c \cup {x}
           /\ With(c, x, y)[x] = y /\ \A z \in DOMAIN c \ {x} : With(c, x, y)[z] = c[z]
<1>1. PICK D \in SUBSET of : c \in [D -> Numbered(of)]
  BY DEF Caches
<1>2. With(c, x, y) \in [D \cup {x} -> Numbered(of)] /\ D \cup {x} \in SUBSET of
  BY <1>1 DEF With
<1> QED BY <1>1, <1>2 DEF Caches, With

\* A message that changes its caches alone.
LEMMA Recached ==
    ASSUME IInv, NEW m \in DOMAIN msgs, NEW e \in MsgRecs, UNCHANGED stores,
           msgs' = [msgs EXCEPT ![m] = e], Cached(e, dlgs', rcpts'),
           e.store = msgs[m].store, e.execute = msgs[m].execute, e.report = msgs[m].report,
           e.lacks = msgs[m].lacks, e.carries = msgs[m].carries
    PROVE  MsgStep /\ StoreStep /\ Len(msgs') = Len(msgs)
<1>1. /\ m \in 1..Len(msgs) /\ msgs \in Seq(MsgRecs) /\ MsgGood(stores, msgs[m])
      /\ msgs[m].store = <<"message", m>>
  BY MessageFacts
<1>2. MsgGood(stores', e)
  BY <1>1 DEF MsgGood
<1>3. /\ msgs' \in Seq(MsgRecs) /\ Len(msgs') = Len(msgs)
      /\ \A i \in 1..Len(msgs) : msgs'[i] = IF i = m THEN e ELSE msgs[i]
  BY <1>1
<1>4. StoreStep
  BY SameParts DEF StoresGrow
<1> QED BY <1>1, <1>2, <1>3, <1>4 DEF MsgStep

LEMMA InvocationStep ==
    ASSUME IInv, NEW m \in DOMAIN msgs, NEW link \in Link, Invocation(m, link)
    PROVE  GoodStep /\ Quiet
<1> DEFINE lacks == IF link \in msgs[m].execute THEN msgs[m].lacks ELSE Link
           invs == With(msgs[m].invs, link, NewDlg(link))
           e == [msgs[m] EXCEPT !.invs = invs]
<1>1. /\ link \in Has(msgs[m].store) \ DOMAIN msgs[m].invs
      /\ AddDlg(link, msgs[m].store, lacks, msgs[m].carries)
      /\ msgs' = [msgs EXCEPT ![m] = e] /\ UNCHANGED <<stores, rcpts>>
  BY DEF Invocation
<1>2. msgs[m] \in MsgRecs /\ Cached(msgs[m], dlgs, rcpts) /\ msgs[m].store \in DOMAIN stores
  BY MessageFacts
<1>3. /\ lacks \in SUBSET Link /\ msgs[m].carries \in SUBSET Extra /\ msgs[m].store \in Names
      /\ msgs[m].invs \in Caches(Link)
  BY <1>2 DEF MsgRecs
<1>4. Below(link, lacks) \subseteq Has(msgs[m].store) /\ msgs[m].carries \subseteq Has(msgs[m].store)
  BY <1>1, MessageFacts, OwnBlock
<1>5. DlgGood(stores', link, NoAttachment(msgs[m].store, lacks, msgs[m].carries))
  BY <1>1, <1>2, <1>4 DEF DlgGood, NoAttachment, Has
<1> HIDE DEF lacks
<1>6. /\ DlgStep /\ Len(dlgs[link]) \in Nat /\ Len(dlgs'[link]) = Len(dlgs[link]) + 1
      /\ \A x \in Link \ {link} : dlgs'[x] = dlgs[x]
  BY <1>1, <1>3, <1>5, NewDlgView
<1>7. NewDlg(link) \in Numbered(Link) /\ NewDlg(link)[1] = link
      /\ NewDlg(link)[2] \in 1..Len(dlgs'[link])
  BY <1>6 DEF NewDlg, Numbered
<1>8. /\ invs \in Caches(Link) /\ DOMAIN invs = DOMAIN msgs[m].invs \cup {link}
      /\ invs[link] = NewDlg(link)
      /\ \A z \in DOMAIN msgs[m].invs \ {link} : invs[z] = msgs[m].invs[z]
  <2> DEFINE c == msgs[m].invs
             y == NewDlg(link)
  <2>1. c \in Caches(Link) /\ y \in Numbered(Link)
    BY <1>3, <1>7
  <2> HIDE DEF c, y
  <2>2. /\ With(c, link, y) \in Caches(Link) /\ DOMAIN With(c, link, y) = DOMAIN c \cup {link}
        /\ With(c, link, y)[link] = y
        /\ \A z \in DOMAIN c \ {link} : With(c, link, y)[z] = c[z]
    BY <2>1, CacheWith
  <2> QED BY <2>2 DEF c, y
<1> HIDE DEF invs
<1>9. /\ e \in MsgRecs /\ e.invs = invs /\ e.rcpts = msgs[m].rcpts
      /\ e.store = msgs[m].store /\ e.execute = msgs[m].execute /\ e.report = msgs[m].report
      /\ e.lacks = msgs[m].lacks /\ e.carries = msgs[m].carries
  BY <1>2, <1>8 DEF MsgRecs
<1> HIDE DEF e
<1>10. DOMAIN msgs[m].invs \subseteq Link
  BY <1>3 DEF Caches
<1>11. Cached(e, dlgs', rcpts')
  <2>1. ASSUME NEW x \in DOMAIN invs
        PROVE  invs[x][1] = x /\ invs[x][2] \in 1..Len(dlgs'[x])
    <3>1. CASE x = link
      BY <1>7, <1>8, <3>1
    <3>2. CASE x # link
      BY <1>2, <1>6, <1>8, <1>10, <3>2 DEF Cached
    <3> QED BY <3>1, <3>2
  <2> QED BY <1>1, <1>2, <1>9, <2>1 DEF Cached
<1>12. MsgStep /\ StoreStep
  BY <1>1, <1>9, <1>11, Recached
<1>13. RcptStep /\ Quiet
  <2>1. StoresGrow(stores')
    BY <1>1 DEF StoresGrow
  <2> QED BY <1>1, <2>1, SameParts DEF Quiet
<1> QED BY <1>6, <1>12, <1>13 DEF GoodStep

LEMMA ReceiptOfStep ==
    ASSUME IInv, NEW m \in DOMAIN msgs, NEW rc \in Receipt, ReceiptOf(m, rc)
    PROVE  GoodStep /\ Quiet
<1> DEFINE lacks == IF rc \in msgs[m].report THEN msgs[m].lacks ELSE Link
           rs == With(msgs[m].rcpts, rc, NewRcpt(rc))
           e == [msgs[m] EXCEPT !.rcpts = rs]
<1>1. /\ AddRcpt(rc, msgs[m].store, lacks)
      /\ msgs' = [msgs EXCEPT ![m] = e] /\ UNCHANGED <<stores, dlgs>>
  BY DEF ReceiptOf
<1>2. /\ msgs[m] \in MsgRecs /\ Cached(msgs[m], dlgs, rcpts) /\ msgs[m].store \in DOMAIN stores
      /\ m \in 1..Len(msgs) /\ msgs[m].store = <<"message", m>>
  BY MessageFacts
<1>3. /\ lacks \in SUBSET Link /\ msgs[m].store \in Names /\ msgs[m].rcpts \in Caches(Receipt)
  BY <1>2 DEF MsgRecs
<1>4. \A l \in Linked(rc) \ lacks : Below(l, lacks) \subseteq Has(msgs[m].store)
  BY MessageFacts, ViewsAssumption DEF Linked
<1>5. RcptGood(stores', rc, [store |-> msgs[m].store, lacks |-> lacks])
  BY <1>1, <1>2, <1>4 DEF RcptGood, Refers, Has
<1> HIDE DEF lacks
<1>6. StoresGrow(stores')
  BY <1>1 DEF StoresGrow
<1>7. msgs \in Seq(MsgRecs) /\ Len(msgs') = Len(msgs)
  BY <1>1, MessageFacts
<1>8. OwnStore(rc, Len(rcpts[rc]) + 1, msgs[m].store, msgs')
  BY <1>2, <1>7 DEF OwnStore
<1>9. /\ RcptStep /\ Len(rcpts[rc]) \in Nat /\ Len(rcpts'[rc]) = Len(rcpts[rc]) + 1
      /\ \A x \in Receipt \ {rc} : rcpts'[x] = rcpts[x]
  BY <1>1, <1>3, <1>5, <1>6, <1>8, NewRcptView
<1>10. NewRcpt(rc) \in Numbered(Receipt) /\ NewRcpt(rc)[1] = rc
       /\ NewRcpt(rc)[2] \in 1..Len(rcpts'[rc])
  BY <1>9 DEF NewRcpt, Numbered
<1>11. /\ rs \in Caches(Receipt) /\ DOMAIN rs = DOMAIN msgs[m].rcpts \cup {rc}
       /\ rs[rc] = NewRcpt(rc)
       /\ \A z \in DOMAIN msgs[m].rcpts \ {rc} : rs[z] = msgs[m].rcpts[z]
  <2> DEFINE c == msgs[m].rcpts
             y == NewRcpt(rc)
  <2>1. c \in Caches(Receipt) /\ y \in Numbered(Receipt)
    BY <1>3, <1>10
  <2> HIDE DEF c, y
  <2>2. /\ With(c, rc, y) \in Caches(Receipt) /\ DOMAIN With(c, rc, y) = DOMAIN c \cup {rc}
        /\ With(c, rc, y)[rc] = y
        /\ \A z \in DOMAIN c \ {rc} : With(c, rc, y)[z] = c[z]
    BY <2>1, CacheWith
  <2> QED BY <2>2 DEF c, y
<1> HIDE DEF rs
<1>12. /\ e \in MsgRecs /\ e.rcpts = rs /\ e.invs = msgs[m].invs
       /\ e.store = msgs[m].store /\ e.execute = msgs[m].execute /\ e.report = msgs[m].report
       /\ e.lacks = msgs[m].lacks /\ e.carries = msgs[m].carries
  BY <1>2, <1>11 DEF MsgRecs
<1> HIDE DEF e
<1>13. DOMAIN msgs[m].rcpts \subseteq Receipt
  BY <1>3 DEF Caches
<1>14. Cached(e, dlgs', rcpts')
  <2>1. ASSUME NEW x \in DOMAIN rs
        PROVE  rs[x][1] = x /\ rs[x][2] \in 1..Len(rcpts'[x])
    <3>1. CASE x = rc
      BY <1>10, <1>11, <3>1
    <3>2. CASE x # rc
      BY <1>2, <1>9, <1>11, <1>13, <3>2 DEF Cached
    <3> QED BY <3>1, <3>2
  <2> QED BY <1>1, <1>2, <1>12, <2>1 DEF Cached
<1>15. MsgStep /\ StoreStep
  BY <1>1, <1>12, <1>14, Recached
<1>16. DlgStep
  BY <1>1, <1>6, SameParts
<1>17. Quiet
  <2>1. \A x \in Receipt : \A k \in 1..Len(rcpts[x]) :
           k \in 1..Len(rcpts'[x]) /\ rcpts'[x][k] = rcpts[x][k]
    BY <1>1, <1>3, RcptStoresStay DEF AddRcpt
  <2> QED BY <1>1, <2>1 DEF Quiet
<1> QED BY <1>9, <1>15, <1>16, <1>17 DEF GoodStep

LEMMA ReadStep ==
    ASSUME IInv, NEW m \in DOMAIN msgs, NEW rc \in Receipt, Read(m, rc)
    PROVE  GoodStep /\ Quiet
<1>1. /\ rc \in msgs[m].report /\ Store(NewRcpt(rc), Has(msgs[m].store), FALSE)
      /\ AddRcpt(rc, NewRcpt(rc), msgs[m].lacks) /\ UNCHANGED <<dlgs, msgs>>
  BY DEF Read
<1>2. /\ msgs[m].lacks \in SUBSET Link /\ Has(msgs[m].store) \in SUBSET Block
      /\ \A l \in Linked(rc) \ msgs[m].lacks : Below(l, msgs[m].lacks) \subseteq Has(msgs[m].store)
  BY <1>1, MessageFacts DEF MsgRecs
<1> QED BY <1>1, <1>2, MakesRcpt

----------------------------------------------------------------------------
(* The operations that make a message.                                     *)

\* A cache of views, and that of none.
LEMMA CacheOf ==
    ASSUME NEW of, NEW vs, \A v \in vs : v \in Numbered(of)
    PROVE  /\ Cache(vs) \in Caches(of) /\ Cache({}) \in Caches(of) /\ DOMAIN Cache({}) = {}
           /\ \A x \in DOMAIN Cache(vs) : Cache(vs)[x] \in vs /\ Cache(vs)[x][1] = x
<1>1. /\ Links(vs) \in SUBSET of /\ DOMAIN Cache(vs) = Links(vs)
      /\ \A x \in Links(vs) : Cache(vs)[x] \in vs /\ Cache(vs)[x][1] = x
  <2>1. \A v \in vs : v[1] \in of
    BY DEF Numbered
  <2>2. ASSUME NEW x \in Links(vs)
        PROVE  Cache(vs)[x] \in vs /\ Cache(vs)[x][1] = x
    <3>1. \E v \in vs : v[1] = x
      BY DEF Links
    <3>2. Cache(vs)[x] = CHOOSE v \in vs : v[1] = x
      BY DEF Cache
    <3> QED BY <3>1, <3>2
  <2> QED BY <2>1, <2>2 DEF Links, Cache
<1>2. Cache(vs) \in [Links(vs) -> Numbered(of)]
  BY <1>1 DEF Cache
<1>3. Cache({}) \in [{} -> Numbered(of)]
  BY DEF Cache, Links
<1> QED BY <1>1, <1>2, <1>3 DEF Caches

LEMMA BuildStep == ASSUME IInv, Build PROVE GoodStep /\ Quiet
<1>1. PICK vs \in OneEach(Link) : \E rs \in SUBSET Receipts :
         /\ Store(NewMsg, Written(vs) \cup UNION {Has(Rcpt(r).store) : r \in rs}, TRUE)
         /\ AddMsg([store   |-> NewMsg,
                 execute |-> Links(vs), report |-> Links(rs),
                 invs    |-> Cache(vs), rcpts |-> Cache(rs),
                 lacks   |-> Lacks(vs) \cup UNION {Rcpt(r).lacks : r \in rs},
                 carries |-> Carries(vs)])
         /\ UNCHANGED <<dlgs, rcpts>>
  BY DEF Build
<1> PICK rs \in SUBSET Receipts :
         /\ Store(NewMsg, Written(vs) \cup UNION {Has(Rcpt(r).store) : r \in rs}, TRUE)
         /\ AddMsg([store   |-> NewMsg,
                 execute |-> Links(vs), report |-> Links(rs),
                 invs    |-> Cache(vs), rcpts |-> Cache(rs),
                 lacks   |-> Lacks(vs) \cup UNION {Rcpt(r).lacks : r \in rs},
                 carries |-> Carries(vs)])
         /\ UNCHANGED <<dlgs, rcpts>>
  BY <1>1
<1> DEFINE lacks == Lacks(vs) \cup UNION {Rcpt(r).lacks : r \in rs}
           blocks == Written(vs) \cup UNION {Has(Rcpt(r).store) : r \in rs}
           m == [store |-> NewMsg, execute |-> Links(vs), report |-> Links(rs),
                 invs |-> Cache(vs), rcpts |-> Cache(rs), lacks |-> lacks, carries |-> Carries(vs)]
<1>2. vs \in SUBSET Views
  BY DEF OneEach
<1>3. ASSUME NEW r \in rs
      PROVE  /\ r \in Numbered(Receipt) /\ r[1] \in Receipt /\ r[2] \in 1..Len(rcpts[r[1]])
             /\ Rcpt(r).lacks \in SUBSET Link /\ Has(Rcpt(r).store) \in SUBSET Block
             /\ Linked(r[1]) \in SUBSET Link
             /\ \A l \in Linked(r[1]) \ Rcpt(r).lacks :
                   Below(l, Rcpt(r).lacks) \subseteq Has(Rcpt(r).store)
  <2>1. r \in Receipts
    OBVIOUS
  <2>2. /\ r[1] \in Receipt /\ r[2] \in 1..Len(rcpts[r[1]]) /\ r[2] \in Nat /\ r = <<r[1], r[2]>>
        /\ Rcpt(r) \in RcptRecs /\ Has(Rcpt(r).store) \in SUBSET Block
        /\ Linked(r[1]) \in SUBSET Link
        /\ \A l \in Linked(r[1]) \ Rcpt(r).lacks :
              Below(l, Rcpt(r).lacks) \subseteq Has(Rcpt(r).store)
    BY <2>1, ReceiptFacts
  <2>3. r \in Numbered(Receipt)
    BY <2>2 DEF Numbered
  <2>4. Rcpt(r).lacks \in SUBSET Link
    BY <2>2 DEF RcptRecs
  <2> QED BY <2>2, <2>3, <2>4
<1>4. ASSUME NEW v \in vs
      PROVE  v \in Numbered(Link) /\ v[2] \in 1..Len(dlgs[v[1]])
  <2>1. v[1] \in Link /\ v[2] \in 1..Len(dlgs[v[1]]) /\ v[2] \in Nat /\ v = <<v[1], v[2]>>
    BY <1>2, ViewFacts
  <2> QED BY <2>1 DEF Numbered
<1>5. /\ lacks \in SUBSET Link /\ blocks \in SUBSET Block
      /\ Carries(vs) \in SUBSET Extra /\ Carries(vs) \subseteq blocks
      /\ Links(vs) \in SUBSET Link
  BY <1>2, <1>3, Gathered
<1>6. Links(rs) \in SUBSET Receipt
  BY <1>3 DEF Links
<1>7. /\ Cache(vs) \in Caches(Link) /\ Cache(rs) \in Caches(Receipt)
      /\ \A x \in DOMAIN Cache(vs) : Cache(vs)[x] \in vs /\ Cache(vs)[x][1] = x
      /\ \A x \in DOMAIN Cache(rs) : Cache(rs)[x] \in rs /\ Cache(rs)[x][1] = x
  BY <1>3, <1>4, CacheOf
<1>8. \A l \in Links(vs) : Below(l, lacks) \subseteq blocks
  BY <1>2, GatheredHas
<1>9. ASSUME NEW rc \in Links(rs), NEW l \in Linked(rc) \ lacks
      PROVE  Below(l, lacks) \subseteq blocks
  <2>1. PICK r \in rs : r[1] = rc
    BY DEF Links
  <2>2. l \in Link /\ Below(l, Rcpt(r).lacks) \subseteq Has(Rcpt(r).store) /\ Rcpt(r).lacks \subseteq lacks
    BY <1>3, <2>1
  <2>3. Has(Rcpt(r).store) \subseteq blocks
    OBVIOUS
  <2> HIDE DEF lacks, blocks
  <2> QED BY <2>2, <2>3, BelowMonotone
<1>10. Store(NewMsg, blocks, TRUE) /\ AddMsg(m) /\ UNCHANGED <<dlgs, rcpts>>
  OBVIOUS
<1> HIDE DEF lacks, blocks
<1>11. NewMsg \in Names
  <2>1. msgs \in Seq(MsgRecs)
    BY DEF IInv, MsgsGood
  <2> QED BY <2>1 DEF NewMsg, Names
<1>12. m \in MsgRecs
  BY <1>5, <1>6, <1>7, <1>11 DEF MsgRecs
<1>13. Cached(m, dlgs, rcpts)
  <2>1. \A x \in DOMAIN Cache(vs) : Cache(vs)[x][1] = x /\ Cache(vs)[x][2] \in 1..Len(dlgs[x])
    BY <1>4, <1>7
  <2>2. \A x \in DOMAIN Cache(rs) : Cache(rs)[x][1] = x /\ Cache(rs)[x][2] \in 1..Len(rcpts[x])
    BY <1>3, <1>7
  <2> QED BY <2>1, <2>2 DEF Cached
<1>14. /\ m.store = NewMsg /\ m.carries \subseteq blocks
       /\ \A l \in m.execute : Below(l, m.lacks) \subseteq blocks
       /\ \A rc \in m.report : \A l \in Linked(rc) \ m.lacks : Below(l, m.lacks) \subseteq blocks
  BY <1>5, <1>8, <1>9
<1> HIDE DEF m
<1> QED BY <1>5, <1>10, <1>12, <1>13, <1>14, MakesMsg

LEMMA NewMessageStep ==
    ASSUME IInv, NEW i \in DOMAIN msgs, NewMessage(i)
    PROVE  GoodStep /\ Quiet
<1> DEFINE blocks == Has(msgs[i].store)
           m == [msgs[i] EXCEPT !.store = NewMsg, !.invs = Cache({}), !.rcpts = Cache({})]
<1>1. Store(NewMsg, blocks, FALSE) /\ AddMsg(m) /\ UNCHANGED <<dlgs, rcpts>>
  BY DEF NewMessage
<1>2. /\ msgs[i] \in MsgRecs /\ blocks \in SUBSET Block /\ msgs[i].carries \subseteq blocks
      /\ \A l \in msgs[i].execute : Below(l, msgs[i].lacks) \subseteq blocks
      /\ \A rc \in msgs[i].report : \A l \in Linked(rc) \ msgs[i].lacks :
            Below(l, msgs[i].lacks) \subseteq blocks
      /\ msgs \in Seq(MsgRecs)
  BY MessageFacts
<1>3. NewMsg \in Names
  BY <1>2 DEF NewMsg, Names
<1>4. Cache({}) \in Caches(Link) /\ Cache({}) \in Caches(Receipt) /\ DOMAIN Cache({}) = {}
  BY CacheOf
<1>5. /\ m \in MsgRecs /\ m.store = NewMsg /\ m.invs = Cache({}) /\ m.rcpts = Cache({})
      /\ m.execute = msgs[i].execute /\ m.report = msgs[i].report
      /\ m.lacks = msgs[i].lacks /\ m.carries = msgs[i].carries
  BY <1>2, <1>3, <1>4 DEF MsgRecs
<1> HIDE DEF m, blocks
<1>6. Cached(m, dlgs, rcpts)
  BY <1>4, <1>5 DEF Cached
<1> QED BY <1>1, <1>2, <1>5, <1>6, MakesMsg

----------------------------------------------------------------------------
(* Attaching an invocation to a receipt.                                   *)

\* What the receipt refers to then is in its store and in the export.
LEMMA AttachedRefers ==
    ASSUME IInv, NEW v \in Receipts, NEW w \in Views, w[1] = Ran[v[1]], NEW blocks,
           Has(Rcpt(v).store) \subseteq blocks, Exports(w, {}) \subseteq blocks
    PROVE  /\ LacksAfter(v, w) \in SUBSET Link
           /\ \A l \in Linked(v[1]) \ LacksAfter(v, w) : Below(l, LacksAfter(v, w)) \subseteq blocks
<1> DEFINE lacks == LacksAfter(v, w)
           B == Below(w[1], Dlg(w).lacks)
<1>1. /\ w[1] \in Link /\ Dlg(w).lacks \in SUBSET Link /\ Rcpt(v).lacks \in SUBSET Link
      /\ Linked(v[1]) \in SUBSET Link
      /\ \A l \in Linked(v[1]) \ Rcpt(v).lacks : Below(l, Rcpt(v).lacks) \subseteq blocks
  BY ViewFacts, ReceiptFacts DEF DlgRecs, RcptRecs
<1>2. /\ lacks = (Rcpt(v).lacks \ {w[1]}) \cup Dlg(w).lacks /\ Dlg(w).lacks \subseteq lacks
  BY DEF LacksAfter
<1>3. B \subseteq blocks
  <2>1. Dlg(w).lacks \cup {} = Dlg(w).lacks
    OBVIOUS
  <2>2. Below(w[1], Dlg(w).lacks \cup {}) \subseteq Exports(w, {})
    BY ExportsFacts
  <2> QED BY <2>1, <2>2
<1>4. /\ w[1] \in B /\ B \subseteq Link
      /\ \A k \in B : Range(Proofs[k]) \ Dlg(w).lacks \subseteq B
  BY <1>1, BelowClosed
<1> HIDE DEF B, lacks
<1>5. ASSUME NEW l \in Linked(v[1]) \ lacks
      PROVE  Below(l, lacks) \subseteq blocks
  <2>1. CASE l = w[1]
    <3>1. Below(w[1], lacks) \subseteq B
      BY <1>1, <1>2, BelowMonotone DEF B
    <3> QED BY <1>3, <2>1, <3>1
  <2>2. CASE l # w[1]
    <3> DEFINE R == Below(l, Rcpt(v).lacks)
    <3>1. l \in Link /\ l \notin Rcpt(v).lacks /\ R \subseteq blocks
      BY <1>1, <1>2, <2>2
    <3>2. l \in R /\ R \subseteq Link /\ \A k \in R : Range(Proofs[k]) \ Rcpt(v).lacks \subseteq R
      BY <3>1, BelowClosed
    <3> HIDE DEF R
    <3>3. \A k \in R \cup B : Range(Proofs[k]) \ lacks \subseteq R \cup B
      BY <1>2, <1>4, <3>2
    <3>4. Below(l, lacks) \subseteq R \cup B
      BY <1>4, <3>1, <3>2, <3>3, BelowLeast
    <3> QED BY <1>3, <3>1, <3>4
  <2> QED BY <2>1, <2>2
<1> QED BY <1>1, <1>2, <1>5 DEF lacks

\* The receipt v is on `store`, and has what the invocation w has.
Replaces(v, w, store) ==
    rcpts' = [rcpts EXCEPT ![v[1]][v[2]] = [store |-> store, lacks |-> LacksAfter(v, w)]]

LEMMA ReplacedReceipt ==
    ASSUME IInv, NEW v \in Receipts, NEW w \in Views, w[1] = Ran[v[1]], NEW store \in Names,
           Replaces(v, w, store),
           UNCHANGED msgs, StoresGrow(stores'), store \in DOMAIN stores',
           Has(Rcpt(v).store) \subseteq stores'[store].blocks,
           Exports(w, {}) \subseteq stores'[store].blocks,
           OwnStore(v[1], v[2], store, msgs)
    PROVE  /\ RcptStep
           /\ rcpts'[v[1]][v[2]].store = store /\ Len(rcpts'[v[1]]) = Len(rcpts[v[1]])
           /\ \A x \in Receipts : x # v => rcpts'[x[1]][x[2]] = rcpts[x[1]][x[2]]
<1> DEFINE r == [store |-> store, lacks |-> LacksAfter(v, w)]
<1>1. /\ v[1] \in Receipt /\ v[2] \in 1..Len(rcpts[v[1]]) /\ v = <<v[1], v[2]>>
      /\ RcptsTyped(rcpts) /\ rcpts[v[1]] \in Seq(RcptRecs)
  BY ReceiptFacts DEF IInv, RcptsGood, RcptsTyped
<1>2. /\ LacksAfter(v, w) \in SUBSET Link
      /\ \A l \in Linked(v[1]) \ LacksAfter(v, w) :
            Below(l, LacksAfter(v, w)) \subseteq stores'[store].blocks
  BY AttachedRefers
<1>3. /\ r \in RcptRecs /\ r.store = store /\ RcptGood(stores', v[1], r)
      /\ OwnStore(v[1], v[2], r.store, msgs')
  BY <1>2 DEF RcptRecs, RcptGood, Refers
<1>4. rcpts' = [rcpts EXCEPT ![v[1]] = [rcpts[v[1]] EXCEPT ![v[2]] = r]]
  BY DEF Replaces
<1> HIDE DEF r
<1>5. /\ \A x \in Receipt \ {v[1]} : rcpts'[x] = rcpts[x]
      /\ rcpts'[v[1]] \in Seq(RcptRecs) /\ Len(rcpts'[v[1]]) = Len(rcpts[v[1]])
      /\ \A k \in 1..Len(rcpts[v[1]]) : rcpts'[v[1]][k] = IF k = v[2] THEN r ELSE rcpts[v[1]][k]
  <2>1. /\ rcpts'[v[1]] = [rcpts[v[1]] EXCEPT ![v[2]] = r]
        /\ \A x \in Receipt \ {v[1]} : rcpts'[x] = rcpts[x]
    BY <1>1, <1>4 DEF RcptsTyped
  <2>2. ASSUME NEW s \in Seq(RcptRecs), NEW k \in 1..Len(s)
        PROVE  /\ [s EXCEPT ![k] = r] \in Seq(RcptRecs) /\ Len([s EXCEPT ![k] = r]) = Len(s)
               /\ \A i \in 1..Len(s) : [s EXCEPT ![k] = r][i] = IF i = k THEN r ELSE s[i]
    BY <1>3
  <2> QED BY <1>1, <2>1, <2>2
<1>6. RcptsTyped(rcpts')
  BY <1>1, <1>4, <1>5 DEF RcptsTyped
<1>7. ASSUME NEW x \in Receipt, NEW k \in 1..Len(rcpts[x])
      PROVE  /\ k \in 1..Len(rcpts'[x])
             /\ stores[rcpts[x][k].store].blocks \subseteq stores'[rcpts'[x][k].store].blocks
  <2>1. rcpts[x][k].store \in DOMAIN stores
    BY DEF IInv, RcptsGood, RcptGood
  <2>2. CASE x = v[1] /\ k = v[2]
    BY <1>1, <1>3, <1>5, <2>2 DEF Has, Rcpt
  <2>3. CASE ~(x = v[1] /\ k = v[2])
    BY <1>5, <2>1, <2>3 DEF StoresGrow
  <2> QED BY <2>2, <2>3
<1>8. ASSUME NEW x \in Receipt, NEW k \in 1..Len(rcpts'[x])
      PROVE  \/ k \in 1..Len(rcpts[x]) /\ rcpts'[x][k] = rcpts[x][k]
             \/ RcptGood(stores', x, rcpts'[x][k]) /\ OwnStore(x, k, rcpts'[x][k].store, msgs')
  <2>1. CASE x = v[1] /\ k = v[2]
    BY <1>1, <1>3, <1>5, <2>1
  <2>2. CASE ~(x = v[1] /\ k = v[2])
    BY <1>5, <2>2
  <2> QED BY <2>1, <2>2
<1>9. ASSUME NEW x \in Receipts, x # v
      PROVE  rcpts'[x[1]][x[2]] = rcpts[x[1]][x[2]]
  <2>1. x[1] \in Receipt /\ x[2] \in 1..Len(rcpts[x[1]]) /\ x = <<x[1], x[2]>>
    BY ReceiptFacts
  <2>2. ~(x[1] = v[1] /\ x[2] = v[2])
    BY <1>1, <1>9, <2>1
  <2> QED BY <1>5, <2>1, <2>2
<1>10. RcptStep
  BY <1>6, <1>7, <1>8 DEF RcptStep
<1> QED BY <1>1, <1>3, <1>5, <1>9, <1>10

\* Of the receipts that are not on the store of a message only v changes.
OnMessage(x) == \E m \in Range(msgs) : m.store = Rcpt(x).store

OnlyReceipt(v) ==
    \A x \in Receipts : ~OnMessage(x) /\ x # v => Has(Rcpt(x).store)' = Has(Rcpt(x).store)

\* No two receipts share a store, unless it is that of a message.
LEMMA StoresApart ==
    ASSUME IInv, NEW x \in Receipts, NEW v \in Receipts, ~OnMessage(x), Rcpt(x).store = Rcpt(v).store
    PROVE  x = v
<1>1. /\ x = <<x[1], x[2]>> /\ OwnStore(x[1], x[2], Rcpt(x).store, msgs)
      /\ v = <<v[1], v[2]>> /\ OwnStore(v[1], v[2], Rcpt(v).store, msgs)
  BY ReceiptFacts
<1>2. Rcpt(x).store \notin {<<"message", i>> : i \in 1..Len(msgs)}
  <2> SUFFICES ASSUME NEW i \in 1..Len(msgs), Rcpt(x).store = <<"message", i>> PROVE FALSE
    OBVIOUS
  <2>1. msgs[i].store = <<"message", i>> /\ i \in DOMAIN msgs
    BY DEF IInv, MsgsGood
  <2> QED BY <2>1 DEF OnMessage, Range
<1>3. Rcpt(x).store \in {<<x[1], x[2]>>, <<x[1], x[2], "attached">>}
      /\ Rcpt(x).store \in {<<v[1], v[2]>>, <<v[1], v[2], "attached">>}
  BY <1>1, <1>2 DEF OwnStore
<1>4. \A a, b, c, d, e : /\ <<a, b>> # <<c, d, e>>
                         /\ <<a, b>> = <<c, d>> => a = c /\ b = d
                         /\ <<a, b, e>> = <<c, d, e>> => a = c /\ b = d
  OBVIOUS
<1>5. x[1] = v[1] /\ x[2] = v[2]
  BY <1>3, <1>4
<1> QED BY <1>1, <1>5

LEMMA AttachWritesStep ==
    ASSUME IInv, NEW v \in Receipts, NEW w \in Views, w[1] = Ran[v[1]],
           AttachWrites(v, w), UNCHANGED <<dlgs, msgs>>
    PROVE  GoodStep /\ OnlyReceipt(v)
<1> DEFINE s == Rcpt(v).store
           E == Exports(w, {})
<1>1. /\ s \in DOMAIN stores /\ s \in Names /\ OwnStore(v[1], v[2], s, msgs)
      /\ E \in SUBSET Block /\ StoresTyped(stores)
  BY ReceiptFacts, ExportsFacts DEF RcptRecs, IInv, Stored
<1>2. /\ stores' = [stores EXCEPT ![s] = [stores[s] EXCEPT !.blocks = stores[s].blocks \cup E]]
      /\ Replaces(v, w, s)
  BY DEF AttachWrites, Replaces
<1> HIDE DEF s, E
<1>3. /\ DOMAIN stores' = DOMAIN stores
      /\ \A n \in DOMAIN stores \ {s} : stores'[n] = stores[n]
      /\ stores'[s] = [stores[s] EXCEPT !.blocks = stores[s].blocks \cup E]
  BY <1>1, <1>2
<1>4. stores[s] \in StoreRecs
  BY <1>1 DEF StoresTyped
<1>5. stores'[s] \in StoreRecs /\ stores'[s].blocks = stores[s].blocks \cup E
  BY <1>1, <1>3, <1>4 DEF StoreRecs
<1>6. StoresTyped(stores') /\ StoresGrow(stores')
  BY <1>1, <1>3, <1>5 DEF StoresTyped, StoresGrow
<1>7. StoreStep /\ DlgStep /\ MsgStep
  BY <1>3, <1>6, SameParts DEF StoreStep
<1>8. Has(Rcpt(v).store) \subseteq stores'[s].blocks /\ Exports(w, {}) \subseteq stores'[s].blocks
  BY <1>5 DEF s, E, Has
<1>9. /\ RcptStep /\ rcpts'[v[1]][v[2]].store = s
      /\ \A x \in Receipts : x # v => rcpts'[x[1]][x[2]] = rcpts[x[1]][x[2]]
  <2>1. UNCHANGED msgs /\ Replaces(v, w, s) /\ StoresGrow(stores') /\ s \in DOMAIN stores'
    BY <1>1, <1>2, <1>3, <1>6
  <2> QED BY <1>1, <1>8, <2>1, ReplacedReceipt
<1>10. ASSUME NEW x \in Receipts, ~OnMessage(x), x # v
       PROVE  Has(Rcpt(x).store)' = Has(Rcpt(x).store)
  <2>1. Rcpt(x).store # s /\ Rcpt(x).store \in DOMAIN stores
    BY <1>10, StoresApart, ReceiptFacts DEF s
  <2>2. Rcpt(x).store' = Rcpt(x).store
    BY <1>9, <1>10 DEF Rcpt
  <2> QED BY <1>3, <2>1, <2>2 DEF Has
<1> QED BY <1>7, <1>9, <1>10 DEF GoodStep, OnlyReceipt

LEMMA AttachReaderStep ==
    ASSUME IInv, NEW v \in Receipts, NEW w \in Views, w[1] = Ran[v[1]],
           w[1] \notin Has(Rcpt(v).store), AttachReader(v, w), UNCHANGED <<dlgs, msgs>>
    PROVE  GoodStep /\ OnlyReceipt(v)
<1> DEFINE s == <<v[1], v[2], "attached">>
           blocks == Has(Rcpt(v).store) \cup Exports(w, {})
<1>1. /\ v[1] \in Receipt /\ v[2] \in 1..Len(rcpts[v[1]]) /\ v[2] \in Nat
      /\ Has(Rcpt(v).store) \in SUBSET Block /\ Rcpt(v) = rcpts[v[1]][v[2]]
  BY ReceiptFacts
<1>2. s \notin DOMAIN stores
  BY <1>1, FreshNames DEF Has
<1>3. Exports(w, {}) \in SUBSET Block /\ w[1] \in Exports(w, {})
  BY ExportsFacts
<1>4. blocks \in SUBSET Block /\ Ran[v[1]] \in blocks
  BY <1>1, <1>3
<1>5. /\ Store(s, blocks, FALSE)
      /\ Replaces(v, w, s)
  BY DEF AttachReader, Replaces
<1>6. s \in Names /\ OwnStore(v[1], v[2], s, msgs)
  BY <1>1 DEF Names, OwnStore
<1>7. /\ Has(Rcpt(v).store) \subseteq blocks /\ Exports(w, {}) \subseteq blocks
  OBVIOUS
<1>8. /\ StoresGrow(stores') /\ s \in DOMAIN stores' /\ stores'[s].blocks = blocks
      /\ \A n \in DOMAIN stores : n \in DOMAIN stores' /\ stores'[n] = stores[n]
  <2> HIDE DEF s, blocks
  <2> QED BY <1>2, <1>5, QuietStores
<1> HIDE DEF s
<1>9. /\ RcptStep /\ rcpts'[v[1]][v[2]].store = s /\ Len(rcpts'[v[1]]) = Len(rcpts[v[1]])
      /\ \A x \in Receipts : x # v => rcpts'[x[1]][x[2]] = rcpts[x[1]][x[2]]
  BY <1>5, <1>6, <1>7, <1>8, ReplacedReceipt
<1>10. Named(s, stores', dlgs', rcpts', msgs')
  <2>1. v[2] \in 1..Len(rcpts'[v[1]]) /\ Ran[v[1]] \in stores'[rcpts'[v[1]][v[2]].store].blocks
    BY <1>1, <1>4, <1>8, <1>9
  <2> QED BY <1>1, <2>1 DEF Named, s
<1>11. StoreStep
  BY <1>2, <1>4, <1>5, <1>10, NewStore
<1>12. DlgStep /\ MsgStep
  BY <1>8, SameParts
<1>13. ASSUME NEW x \in Receipts, x # v
       PROVE  Has(Rcpt(x).store)' = Has(Rcpt(x).store)
  <2>1. Rcpt(x).store \in DOMAIN stores
    BY ReceiptFacts
  <2>2. Rcpt(x).store' = Rcpt(x).store
    BY <1>9, <1>13 DEF Rcpt
  <2> QED BY <1>8, <2>1, <2>2 DEF Has
<1> QED BY <1>9, <1>11, <1>12, <1>13 DEF GoodStep, OnlyReceipt

----------------------------------------------------------------------------
(* The invariant, and what follows from it.                                *)

LEMMA InitIInv == ASSUME Init PROVE IInv
<1>1. DOMAIN stores = {} /\ (\A l \in Link : Len(dlgs[l]) = 0)
      /\ (\A rc \in Receipt : Len(rcpts[rc]) = 0) /\ Len(msgs) = 0
  BY DEF Init
<1>2. DlgsTyped(dlgs) /\ RcptsTyped(rcpts) /\ msgs \in Seq(MsgRecs)
  BY DEF Init, DlgsTyped, RcptsTyped
<1> QED BY <1>1, <1>2 DEF IInv, Stored, StoresTyped, DlgsGood, RcptsGood, MsgsGood

LEMMA StepGood ==
    ASSUME IInv, Next
    PROVE  GoodStep /\ (Quiet \/ \E v \in Receipts : OnlyReceipt(v))
<1>1. CASE \E link \in Link : Delegate(link)
  BY <1>1, DelegateStep
<1>2. CASE \E v \in Views : Attach(v) \/ Extract(v) \/ OmitProofs(v)
  BY <1>2, AttachStep, ExtractStep, OmitProofsStep
<1>3. CASE \E rc \in Receipt : Issue(rc)
  BY <1>3, IssueStep
<1>4. CASE \E v \in Receipts : Clone(v) \/ Rebind(v) \/ ExtractReceipt(v) \/ View(v)
  BY <1>4, CloneStep, ExtractReceiptStep, ViewStep
<1>5. CASE \E v \in Receipts, w \in Views : AttachInvocation(v, w)
  <2>1. PICK v \in Receipts, w \in Views : AttachInvocation(v, w)
    BY <1>5
  <2>2. /\ w[1] = Ran[v[1]] /\ w[1] \notin Has(Rcpt(v).store)
        /\ AttachWrites(v, w) \/ AttachReader(v, w)
        /\ UNCHANGED <<dlgs, msgs>>
    BY <2>1 DEF AttachInvocation
  <2> QED BY <2>2, AttachWritesStep, AttachReaderStep
<1>6. CASE Build
  BY <1>6, BuildStep
<1>7. CASE \E m \in DOMAIN msgs : NewMessage(m)
  BY <1>7, NewMessageStep
<1>8. CASE \E m \in DOMAIN msgs : \E link \in Link : Invocation(m, link)
  BY <1>8, InvocationStep
<1>9. CASE \E m \in DOMAIN msgs : \E rc \in Receipt : ReceiptOf(m, rc) \/ Read(m, rc)
  BY <1>9, ReceiptOfStep, ReadStep
<1> QED BY <1>1, <1>2, <1>3, <1>4, <1>5, <1>6, <1>7, <1>8, <1>9 DEF Next

LEMMA StepIInv == ASSUME IInv, [Next]_vars PROVE IInv'
<1>1. CASE Next
  BY <1>1, StepGood, GoodStepIInv
<1>2. CASE UNCHANGED vars
  BY <1>2 DEF vars, IInv, Stored, DlgsGood, RcptsGood, MsgsGood
<1> QED BY <1>1, <1>2

LEMMA Invariant == Spec => []IInv
BY InitIInv, StepIInv, PTL DEF Spec

LEMMA Narrowed ==
    ASSUME NEW A, NEW B, NEW s \in Seq(A), \A k \in 1..Len(s) : s[k] \in B
    PROVE  s \in Seq(B)
OBVIOUS

LEMMA IInvTypeOK == ASSUME IInv PROVE TypeOK
<1>1. \A name \in DOMAIN stores : stores[name] \in [blocks : SUBSET Block, writable : BOOLEAN]
  BY DEF IInv, Stored, StoresTyped, StoreRecs
<1>2. dlgs \in [Link -> Seq([store : DOMAIN stores, attached : SUBSET Extra,
                             lacks : SUBSET Link, carries : SUBSET Extra])]
  <2> DEFINE D == [store : DOMAIN stores, attached : SUBSET Extra,
                   lacks : SUBSET Link, carries : SUBSET Extra]
  <2>1. ASSUME NEW l \in Link, NEW k \in 1..Len(dlgs[l])
        PROVE  dlgs[l][k] \in D
    <3>1. dlgs[l][k] \in DlgRecs /\ dlgs[l][k].store \in DOMAIN stores
      BY DEF IInv, DlgsGood, DlgsTyped, DlgGood
    <3> QED BY <3>1 DEF DlgRecs
  <2>2. dlgs \in [Link -> Seq(DlgRecs)]
    BY DEF IInv, DlgsGood, DlgsTyped
  <2> HIDE DEF D
  <2>3. \A l \in Link : dlgs[l] \in Seq(D)
    BY <2>1, <2>2, Narrowed
  <2>4. dlgs \in [Link -> Seq(D)]
    BY <2>2, <2>3
  <2> QED BY <2>4 DEF D
<1>3. rcpts \in [Receipt -> Seq([store : DOMAIN stores, lacks : SUBSET Link])]
  <2> DEFINE R == [store : DOMAIN stores, lacks : SUBSET Link]
  <2>1. ASSUME NEW rc \in Receipt, NEW k \in 1..Len(rcpts[rc])
        PROVE  rcpts[rc][k] \in R
    <3>1. rcpts[rc][k] \in RcptRecs /\ rcpts[rc][k].store \in DOMAIN stores
      BY DEF IInv, RcptsGood, RcptsTyped, RcptGood
    <3> QED BY <3>1 DEF RcptRecs
  <2>2. rcpts \in [Receipt -> Seq(RcptRecs)]
    BY DEF IInv, RcptsGood, RcptsTyped
  <2> HIDE DEF R
  <2>3. \A rc \in Receipt : rcpts[rc] \in Seq(R)
    BY <2>1, <2>2, Narrowed
  <2>4. rcpts \in [Receipt -> Seq(R)]
    BY <2>2, <2>3
  <2> QED BY <2>4 DEF R
<1>4. ASSUME NEW m \in Range(msgs)
      PROVE  /\ m.store \in DOMAIN stores
             /\ \A l \in DOMAIN m.invs : m.invs[l] \in Views /\ m.invs[l][1] = l
             /\ \A rc \in DOMAIN m.rcpts : m.rcpts[rc] \in Receipts /\ m.rcpts[rc][1] = rc
  <2>1. PICK i \in DOMAIN msgs : m = msgs[i]
    BY DEF Range
  <2>2. m \in MsgRecs /\ Cached(m, dlgs, rcpts) /\ m.store \in DOMAIN stores
    BY <2>1, MessageFacts
  <2>3. m.invs \in Caches(Link) /\ m.rcpts \in Caches(Receipt)
    BY <2>2 DEF MsgRecs
  <2>4. \A l \in DOMAIN m.invs : l \in Link /\ m.invs[l] \in Numbered(Link)
    BY <2>3 DEF Caches
  <2>5. \A rc \in DOMAIN m.rcpts : rc \in Receipt /\ m.rcpts[rc] \in Numbered(Receipt)
    BY <2>3 DEF Caches
  <2>6. ASSUME NEW l \in DOMAIN m.invs PROVE m.invs[l] \in Views /\ m.invs[l][1] = l
    <3>1. m.invs[l][1] = l /\ m.invs[l][2] \in 1..Len(dlgs[l]) /\ l \in Link
      BY <2>2, <2>4 DEF Cached
    <3>2. m.invs[l] = <<l, m.invs[l][2]>>
      BY <2>4, <3>1 DEF Numbered
    <3>3. m.invs[l][2] \in DOMAIN dlgs[l]
      BY <3>1 DEF IInv, DlgsGood, DlgsTyped
    <3> DEFINE k == m.invs[l][2]
    <3>4. m.invs[l] = <<l, k>> /\ k \in DOMAIN dlgs[l] /\ l \in Link
      BY <3>1, <3>2, <3>3
    <3> HIDE DEF k
    <3>5. <<l, k>> \in Views
      BY <3>4 DEF Views
    <3> QED BY <3>1, <3>4, <3>5
  <2>7. ASSUME NEW rc \in DOMAIN m.rcpts PROVE m.rcpts[rc] \in Receipts /\ m.rcpts[rc][1] = rc
    <3>1. m.rcpts[rc][1] = rc /\ m.rcpts[rc][2] \in 1..Len(rcpts[rc]) /\ rc \in Receipt
      BY <2>2, <2>5 DEF Cached
    <3>2. m.rcpts[rc] = <<rc, m.rcpts[rc][2]>>
      BY <2>5, <3>1 DEF Numbered
    <3>3. m.rcpts[rc][2] \in DOMAIN rcpts[rc]
      BY <3>1 DEF IInv, RcptsGood, RcptsTyped
    <3> DEFINE k == m.rcpts[rc][2]
    <3>4. m.rcpts[rc] = <<rc, k>> /\ k \in DOMAIN rcpts[rc] /\ rc \in Receipt
      BY <3>1, <3>2, <3>3
    <3> HIDE DEF k
    <3>5. <<rc, k>> \in Receipts
      BY <3>4 DEF Receipts
    <3> QED BY <3>1, <3>4, <3>5
  <2> QED BY <2>2, <2>6, <2>7
<1> QED BY <1>1, <1>2, <1>3, <1>4 DEF TypeOK

\* Views, receipts and messages are on stores that exist, and a message caches
\* under a link views of that link alone (core/message/message.go 36-72).
THEOREM TypeCorrect == Spec => []TypeOK
BY Invariant, IInvTypeOK, PTL

\* Whatever sequence of archives, messages, receipts and delegations it went
\* through, a delegation exports every proof below it that nobody left out, and so
\* does a receipt for what it refers to (core/delegation/delegation.go 161-210,
\* core/receipt/receipt.go 241-269).
THEOREM ExportsTravel == Spec => []ProofsTravel
<1>1. ASSUME IInv PROVE ProofsTravel
  <2>1. ASSUME NEW v \in Views PROVE Below(v[1], Dlg(v).lacks) \subseteq Exports(v, {})
    <3>1. Dlg(v).lacks \cup {} = Dlg(v).lacks
      OBVIOUS
    <3>2. Below(v[1], Dlg(v).lacks \cup {}) \subseteq Exports(v, {})
      BY <1>1, ExportsFacts
    <3> QED BY <3>1, <3>2
  <2>2. \A v \in Receipts : \A l \in Linked(v[1]) \ Rcpt(v).lacks :
           Below(l, Rcpt(v).lacks) \subseteq ReceiptExports(v)
    BY <1>1, ReceiptExportsFacts
  <2> QED BY <2>1, <2>2 DEF ProofsTravel
<1> QED BY <1>1, Invariant, PTL

\* Nothing is exported but the token with what is below it and was attached to it,
\* however much else its store has (core/delegation/delegation.go 161-210,
\* core/receipt/receipt.go 241-269).
THEOREM ExportsKeepToOwn == Spec => []ExportsOnlyOwn
<1>1. ASSUME IInv PROVE ExportsOnlyOwn
  BY <1>1, ExportsFacts, ReceiptExportsFacts DEF ExportsOnlyOwn
<1> QED BY <1>1, Invariant, PTL

\* Attached blocks are in all that is made of a delegation by iterating over its
\* blocks (core/delegation/delegation.go 56-80, core/message/message.go 118-129).
THEOREM AttachmentsKept == Spec => []AttachmentsTravel
<1>1. ASSUME IInv PROVE AttachmentsTravel
  BY <1>1, ViewFacts DEF AttachmentsTravel
<1> QED BY <1>1, Invariant, PTL

\* No operation takes a block from a view that exists, the replacement of a
\* receipt's reader included (core/receipt/receipt.go 299-316).
THEOREM NoBlockLost == Spec => BlocksKept
<1>1. ASSUME IInv, Next
      PROVE  /\ \A v \in Views : Blocks(v) \subseteq Blocks(v)'
             /\ \A v \in Receipts : Has(Rcpt(v).store) \subseteq Has(Rcpt(v).store)'
  <2>1. StoresGrow(stores') /\ DlgStep /\ RcptStep
    BY <1>1, StepGood DEF GoodStep, StoreStep
  <2>2. ASSUME NEW v \in Views PROVE Blocks(v) \subseteq Blocks(v)'
    <3>1. /\ v[1] \in Link /\ v[2] \in 1..Len(dlgs[v[1]]) /\ Dlg(v) = dlgs[v[1]][v[2]]
          /\ Dlg(v).store \in DOMAIN stores
      BY <1>1, ViewFacts
    <3>2. Dlg(v)'.store = Dlg(v).store /\ Dlg(v).attached \subseteq Dlg(v)'.attached
      BY <2>1, <3>1 DEF DlgStep, Dlg
    <3>3. stores[Dlg(v).store].blocks \subseteq stores'[Dlg(v)'.store].blocks
      BY <2>1, <3>1, <3>2 DEF StoresGrow
    <3> QED BY <3>2, <3>3 DEF Blocks, Has
  <2>3. ASSUME NEW v \in Receipts PROVE Has(Rcpt(v).store) \subseteq Has(Rcpt(v).store)'
    <3>1. v[1] \in Receipt /\ v[2] \in 1..Len(rcpts[v[1]])
      BY <1>1, ReceiptFacts
    <3> QED BY <2>1, <3>1 DEF RcptStep, Rcpt, Has
  <2> QED BY <2>2, <2>3
<1> QED BY <1>1, Invariant, PTL DEF Spec, BlocksKept

\* Attaching an invocation to a receipt changes no other receipt, unless both are on
\* the store of one message: not its clones, nor those it was made from
\* (core/receipt/receipt.go 271-283, 299-316).
THEOREM ClonesIndependent == Spec => ReceiptsIndependent
<1> DEFINE Apart == {r \in Receipts : \A m \in Range(msgs) : m.store # Rcpt(r).store}
           Changed(x) == Has(Rcpt(x).store) # Has(Rcpt(x).store)'
<1>1. ASSUME IInv, Next
      PROVE  \A v, w \in Apart : Changed(v) /\ Changed(w) => v = w
  <2> SUFFICES ASSUME NEW v \in Apart, NEW w \in Apart, Changed(v), Changed(w) PROVE v = w
    OBVIOUS
  <2>1. v \in Receipts /\ ~OnMessage(v) /\ w \in Receipts /\ ~OnMessage(w)
    BY DEF OnMessage
  <2>2. CASE Quiet
    <3>1. v[1] \in Receipt /\ v[2] \in 1..Len(rcpts[v[1]]) /\ Rcpt(v).store \in DOMAIN stores
          /\ Rcpt(v) = rcpts[v[1]][v[2]]
      BY <1>1, <2>1, ReceiptFacts
    <3>2. Rcpt(v)'.store = Rcpt(v).store
      BY <2>2, <3>1 DEF Quiet, Rcpt
    <3>3. ~Changed(v)
      BY <2>2, <3>1, <3>2 DEF Quiet, Has
    <3> QED BY <3>3
  <2>3. CASE \E u \in Receipts : OnlyReceipt(u)
    BY <2>1, <2>3 DEF OnlyReceipt
  <2> QED BY <1>1, <2>2, <2>3, StepGood
<1>2. ASSUME IInv, [Next]_vars
      PROVE  [\A v, w \in Apart : Changed(v) /\ Changed(w) => v = w]_vars
  BY <1>1, <1>2
<1> QED BY <1>2, Invariant, PTL DEF Spec, ReceiptsIndependent

=============================================================================
