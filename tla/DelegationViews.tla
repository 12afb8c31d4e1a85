-------------------------- MODULE DelegationViews --------------------------
(***************************************************************************)
(* Delegations, receipts and agent messages as views of block stores, and  *)
(* the operations that make one view from another (core/delegation,        *)
(* core/receipt, core/message): what is carried along, what is left        *)
(* behind, and who shares a store with whom.                               *)
(*                                                                         *)
(* A block is named by its link, so the proofs of a link never change.     *)
(* Blocks of a view is all that its store has, Export only what belongs to *)
(* it.  The fields lacks and carries are history and in no condition: the  *)
(* links a view was made without, and the attached blocks it was made from.*)
(* The root blocks of archives and messages are left out.                  *)
(***************************************************************************)
EXTENDS Naturals, FiniteSets, SequencesExt

CONSTANTS Link,      \* delegations and invocations
          Proofs,    \* the proofs of each, in order
          Extra,     \* blocks that may be attached
          Receipt,   \* receipts
          Ran,       \* the invocation each is for
          Refs,      \* the effects and the proofs of each
          MaxViews   \* bound on the views and messages that are made

VARIABLES stores,    \* [blocks, writable], by the view they were made for
          dlgs,      \* the views of each delegation, in the order they are made
          rcpts,     \* the views of each receipt
          msgs       \* agent messages

vars == <<stores, dlgs, rcpts, msgs>>

Block == Link \cup Extra \cup Receipt

ASSUME ViewsAssumption ==
    /\ Proofs \in [Link -> Seq(Link)]
    /\ Ran \in [Receipt -> Link] /\ Refs \in [Receipt -> SUBSET Link]
    /\ MaxViews \in Nat

\* A link is the hash of its block, which has the links of the proofs: no chain of
\* proofs comes back to itself.
ASSUME AcyclicAssumption ==
    \A S \in SUBSET Link : S # {} => \E l \in S : Range(Proofs[l]) \cap S = {}

\* Nothing has two names.
ASSUME NamesAssumption == Link \cap Receipt = {} /\ "message" \notin Link \cup Receipt

Linked(rc) == {Ran[rc]} \cup Refs[rc]

----------------------------------------------------------------------------
(* A view is named by what it is of and its number; it is made with a new  *)
(* store of that name, or on the store of another.                         *)

Views    == UNION {{<<l, k>> : k \in DOMAIN dlgs[l]} : l \in Link}
Receipts == UNION {{<<rc, k>> : k \in DOMAIN rcpts[rc]} : rc \in Receipt}

Dlg(v)  == dlgs[v[1]][v[2]]
Rcpt(v) == rcpts[v[1]][v[2]]

\* MaxViews is not reached.
Room == Cardinality(Views) + Cardinality(Receipts) + Len(msgs) < MaxViews

NewDlg(link)  == <<link, Len(dlgs[link]) + 1>>
NewRcpt(rc)   == <<rc, Len(rcpts[rc]) + 1>>

AddDlg(link, store, lacks, carries) ==
    /\ Room
    /\ dlgs' = [dlgs EXCEPT ![link] = Append(@,
                   [store |-> store, attached |-> {}, lacks |-> lacks, carries |-> carries])]

AddRcpt(rc, store, lacks) ==
    /\ Room
    /\ rcpts' = [rcpts EXCEPT ![rc] = Append(@, [store |-> store, lacks |-> lacks])]

\* The map f with a key set.
With(f, key, value) == [k \in DOMAIN f \cup {key} |-> IF k = key THEN value ELSE f[k]]

\* A blockstore can be written to, a blockreader cannot.
Store(name, blocks, writable) ==
    stores' = With(stores, name, [blocks |-> blocks, writable |-> writable])

Has(name) == stores[name].blocks

----------------------------------------------------------------------------
(* Reading a view.                                                         *)

\* Mutant: attached blocks are not iterated.
BlocksOfStore(v) == Has(Dlg(v).store)

\* Every block behind the view.
Blocks(v) == Has(Dlg(v).store) \cup Dlg(v).attached

\* Mutant: only the proofs of the view itself are exported.
ExportShallow(blocks, omit) ==
    [l \in Link |-> {l} \cup ((Range(Proofs[l]) \cap blocks) \ omit)]

\* A delegation and its proofs, each with its own: those that are there and
\* are not omitted.
Export(blocks, omit) ==
    LET export[l \in Link] ==
            {l} \cup UNION {export[p] : p \in (Range(Proofs[l]) \cap blocks) \ omit}
    IN  export

\* Mutant: the export is all that the store has.
ExportsBlocks(v, omit) == Blocks(v) \ omit

Exports(v, omit) == Dlg(v).attached \cup Export(Has(Dlg(v).store), omit)[v[1]]

\* The invocation, effects and proofs that are there, and the receipt.
ReceiptExports(v) ==
    LET blocks == Has(Rcpt(v).store)
    IN  {v[1]} \cup UNION {Export(blocks, {})[l] : l \in Linked(v[1]) \cap blocks}

----------------------------------------------------------------------------
(* Making delegations.                                                     *)

Links(vs)   == {v[1] : v \in vs}
Lacks(vs)   == UNION {Dlg(v).lacks : v \in vs}
Carries(vs) == UNION {Dlg(v).carries : v \in vs}
Written(vs) == UNION {Blocks(v) : v \in vs}

\* At most one view of each of the links.
OneEach(links) ==
    {vs \in SUBSET {v \in Views : v[1] \in links} : \A v, w \in vs : v[1] = w[1] => v = w}

\* Delegate, Invoke: a proof is given as a delegation, all of whose blocks are
\* written into the new store, or as a link.  Every token is issued once, as its
\* link stands for its content.
Delegate(link) ==
    /\ dlgs[link] = <<>>
    /\ \E vs \in OneEach(Range(Proofs[link])) :
       /\ Store(NewDlg(link), {link} \cup Written(vs), TRUE)
       /\ AddDlg(link, NewDlg(link), Lacks(vs) \cup (Range(Proofs[link]) \ Links(vs)), Carries(vs))
       /\ UNCHANGED <<rcpts, msgs>>

\* The view with one more block attached.
WithBlock(d, x) == [d EXCEPT !.attached = @ \cup {x}, !.carries = @ \cup {x}]

\* Each block is attached once, which bounds the instance.
Attach(v) ==
    \E x \in Extra \ UNION {Dlg(w).attached : w \in Views} :
       /\ dlgs' = [dlgs EXCEPT ![v[1]][v[2]] = WithBlock(@, x)]
       /\ UNCHANGED <<stores, rcpts, msgs>>

\* Archive or Format, then Extract or Parse.
Extract(v) ==
    /\ Store(NewDlg(v[1]), Exports(v, {}), FALSE)
    /\ AddDlg(v[1], NewDlg(v[1]), Dlg(v).lacks, Dlg(v).attached)
    /\ UNCHANGED <<rcpts, msgs>>

\* A retrieval client takes the proofs out of an invocation, to send them one by
\* one.
OmitProofs(v) ==
    LET omit == Range(Proofs[v[1]])
    IN  /\ omit # {}
        /\ Store(NewDlg(v[1]), Exports(v, omit), FALSE)
        /\ AddDlg(v[1], NewDlg(v[1]), Dlg(v).lacks \cup omit, Dlg(v).attached)
        /\ UNCHANGED <<rcpts, msgs>>

----------------------------------------------------------------------------
(* Receipts.                                                               *)

\* The invocation and the effects are given as views or as links.
Issue(rc) ==
    /\ rcpts[rc] = <<>>
    /\ \E vs \in OneEach(Linked(rc)) :
       /\ Store(NewRcpt(rc), {rc} \cup Written(vs), TRUE)
       /\ AddRcpt(rc, NewRcpt(rc), Lacks(vs) \cup (Linked(rc) \ Links(vs)))
       /\ UNCHANGED <<dlgs, msgs>>

\* Mutant: the clone keeps the store of the original.
CloneShared(v) ==
    /\ AddRcpt(v[1], Rcpt(v).store, Rcpt(v).lacks)
    /\ UNCHANGED <<stores, dlgs, msgs>>

Clone(v) ==
    /\ Store(NewRcpt(v[1]), Has(Rcpt(v).store), TRUE)
    /\ AddRcpt(v[1], NewRcpt(v[1]), Rcpt(v).lacks)
    /\ UNCHANGED <<dlgs, msgs>>

\* The receipt with other types, on a reader of the same blocks.
Rebind(v) ==
    /\ Store(NewRcpt(v[1]), Has(Rcpt(v).store), FALSE)
    /\ AddRcpt(v[1], NewRcpt(v[1]), Rcpt(v).lacks)
    /\ UNCHANGED <<dlgs, msgs>>

\* Archive, then Extract.
ExtractReceipt(v) ==
    /\ Store(NewRcpt(v[1]), ReceiptExports(v), FALSE)
    /\ AddRcpt(v[1], NewRcpt(v[1]), Rcpt(v).lacks)
    /\ UNCHANGED <<dlgs, msgs>>

\* The invocation or an effect, as a view on the store of the receipt.
View(v) ==
    \E link \in Linked(v[1]) \cap Has(Rcpt(v).store) :
       /\ AddDlg(link, Rcpt(v).store,
                 IF link \in Rcpt(v).lacks THEN Link ELSE Rcpt(v).lacks, {})
       /\ UNCHANGED <<stores, rcpts, msgs>>

\* What a receipt that gets the invocation w still lacks.
LacksAfter(v, w) == (Rcpt(v).lacks \ {w[1]}) \cup Dlg(w).lacks

\* Mutant: a receipt that was read gets a reader of the invocation alone.
AttachReaderAlone(v, w) ==
    /\ ~stores[Rcpt(v).store].writable
    /\ Store(<<v[1], v[2], "attached">>, Exports(w, {}), FALSE)
    /\ rcpts' = [rcpts EXCEPT ![v[1]][v[2]] =
                    [store |-> <<v[1], v[2], "attached">>, lacks |-> LacksAfter(v, w)]]

\* Into the store of the receipt where it can be written, or into a reader of
\* its own.
AttachWrites(v, w) ==
    /\ stores[Rcpt(v).store].writable
    /\ stores' = [stores EXCEPT ![Rcpt(v).store].blocks = @ \cup Exports(w, {})]
    /\ rcpts' = [rcpts EXCEPT ![v[1]][v[2]] =
                    [store |-> Rcpt(v).store, lacks |-> LacksAfter(v, w)]]

AttachReader(v, w) ==
    /\ ~stores[Rcpt(v).store].writable
    /\ Store(<<v[1], v[2], "attached">>, Has(Rcpt(v).store) \cup Exports(w, {}), FALSE)
    /\ rcpts' = [rcpts EXCEPT ![v[1]][v[2]] =
                    [store |-> <<v[1], v[2], "attached">>, lacks |-> LacksAfter(v, w)]]

\* The invocation the receipt is for, unless the receipt has it.
AttachInvocation(v, w) ==
    /\ w[1] = Ran[v[1]]
    /\ w[1] \notin Has(Rcpt(v).store)
    /\ AttachWrites(v, w) \/ AttachReader(v, w)
    /\ UNCHANGED <<dlgs, msgs>>

----------------------------------------------------------------------------
(* Agent messages.  execute and report list what a message is about; invs  *)
(* and rcpts are its caches of views.                                      *)

Cache(vs) == [x \in Links(vs) |-> CHOOSE v \in vs : v[1] = x]

NewMsg == <<"message", Len(msgs) + 1>>
AddMsg(m) == Room /\ msgs' = Append(msgs, m)

Build ==
    \E vs \in OneEach(Link), rs \in SUBSET Receipts :
       /\ vs \cup rs # {}
       /\ \A v, w \in rs : v[1] = w[1] => v = w
       /\ Store(NewMsg, Written(vs) \cup UNION {Has(Rcpt(r).store) : r \in rs}, TRUE)
       /\ AddMsg([store   |-> NewMsg,
               execute |-> Links(vs), report |-> Links(rs),
               invs    |-> Cache(vs), rcpts |-> Cache(rs),
               lacks   |-> Lacks(vs) \cup UNION {Rcpt(r).lacks : r \in rs},
               carries |-> Carries(vs)])
       /\ UNCHANGED <<dlgs, rcpts>>

\* Encoded, decoded and read by NewMessage at the other end.
NewMessage(m) ==
    /\ Store(NewMsg, Has(msgs[m].store), FALSE)
    /\ AddMsg([msgs[m] EXCEPT !.store = NewMsg, !.invs = Cache({}), !.rcpts = Cache({})])
    /\ UNCHANGED <<dlgs, rcpts>>

\* Mutant: the number is taken after the view was added, and names no view.
InvocationMisfiled(m, link) ==
    /\ link \in Has(msgs[m].store) \ DOMAIN msgs[m].invs
    /\ AddDlg(link, msgs[m].store,
              IF link \in msgs[m].execute THEN msgs[m].lacks ELSE Link, msgs[m].carries)
    /\ msgs' = [msgs EXCEPT ![m].invs = With(@, link, <<link, Len(dlgs'[link]) + 1>>)]
    /\ UNCHANGED <<stores, rcpts>>

\* A delegation of the message; a cached one is returned without a step.
Invocation(m, link) ==
    /\ link \in Has(msgs[m].store) \ DOMAIN msgs[m].invs
    /\ AddDlg(link, msgs[m].store,
              IF link \in msgs[m].execute THEN msgs[m].lacks ELSE Link, msgs[m].carries)
    /\ msgs' = [msgs EXCEPT ![m].invs = With(@, link, NewDlg(link))]
    /\ UNCHANGED <<stores, rcpts>>

\* A receipt of the message, on its store.
ReceiptOf(m, rc) ==
    /\ rc \in Has(msgs[m].store) \ DOMAIN msgs[m].rcpts
    /\ AddRcpt(rc, msgs[m].store,
               IF rc \in msgs[m].report THEN msgs[m].lacks ELSE Link)
    /\ msgs' = [msgs EXCEPT ![m].rcpts = With(@, rc, NewRcpt(rc))]
    /\ UNCHANGED <<stores, dlgs>>

\* A receipt reader copies all blocks of the message.
Read(m, rc) ==
    /\ rc \in msgs[m].report
    /\ Store(NewRcpt(rc), Has(msgs[m].store), FALSE)
    /\ AddRcpt(rc, NewRcpt(rc), msgs[m].lacks)
    /\ UNCHANGED <<dlgs, msgs>>

----------------------------------------------------------------------------
Init ==
    /\ stores = [name \in {} |-> {}]
    /\ dlgs = [l \in Link |-> <<>>]
    /\ rcpts = [rc \in Receipt |-> <<>>]
    /\ msgs = <<>>

Next ==
    \/ \E link \in Link : Delegate(link)
    \/ \E v \in Views : Attach(v) \/ Extract(v) \/ OmitProofs(v)
    \/ \E rc \in Receipt : Issue(rc)
    \/ \E v \in Receipts : Clone(v) \/ Rebind(v) \/ ExtractReceipt(v) \/ View(v)
    \/ \E v \in Receipts, w \in Views : AttachInvocation(v, w)
    \/ Build
    \/ \E m \in DOMAIN msgs : \/ NewMessage(m)
                              \/ \E link \in Link : Invocation(m, link)
                              \/ \E rc \in Receipt : ReceiptOf(m, rc) \/ Read(m, rc)

Spec == Init /\ [][Next]_vars
----------------------------------------------------------------------------
(* What the views promise.                                                 *)

\* The types of the state; what a message caches under a link is a view of that
\* link (core/message/message.go 36-72).
TypeOK ==
    /\ \A name \in DOMAIN stores : stores[name] \in [blocks : SUBSET Block, writable : BOOLEAN]
    /\ dlgs \in [Link -> Seq([store : DOMAIN stores, attached : SUBSET Extra,
                              lacks : SUBSET Link, carries : SUBSET Extra])]
    /\ rcpts \in [Receipt -> Seq([store : DOMAIN stores, lacks : SUBSET Link])]
    /\ \A m \in Range(msgs) :
          /\ m.store \in DOMAIN stores
          /\ \A l \in DOMAIN m.invs : m.invs[l] \in Views /\ m.invs[l][1] = l
          /\ \A rc \in DOMAIN m.rcpts : m.rcpts[rc] \in Receipts /\ m.rcpts[rc][1] = rc

\* A link and what is below it, but for what is only below `lacks`: the least
\* set with it that is closed under proofs.
Below(link, lacks) ==
    {m \in Link : \A S \in SUBSET Link :
        link \in S /\ (\A l \in S : Range(Proofs[l]) \ lacks \subseteq S) => m \in S}

\* Whatever a delegation went through, an archive, a message, a receipt or
\* another delegation, it exports every proof below it that nobody left out
\* (delegation.go 161-210; delegation.go 51-52 "the blocks for the delegation and
\* it's proofs").
ProofsTravel ==
    /\ \A v \in Views : Below(v[1], Dlg(v).lacks) \subseteq Exports(v, {})
    /\ \A v \in Receipts : \A l \in Linked(v[1]) \ Rcpt(v).lacks :
          Below(l, Rcpt(v).lacks) \subseteq ReceiptExports(v)

\* Although a view shares its store with everything that came in the same
\* message, it exports nothing of the others (delegation.go 51-55 "Export ONLY
\* the blocks"; receipt.go 241-242).
ExportsOnlyOwn ==
    /\ \A v \in Views : Exports(v, {}) \subseteq Below(v[1], {}) \cup Dlg(v).attached
    /\ \A v \in Receipts :
          ReceiptExports(v) \subseteq {v[1]} \cup UNION {Below(l, {}) : l \in Linked(v[1])}

\* Blocks attached to a delegation are in all that is made of it by iteration,
\* whatever is made of that: other delegations, messages, and what is read from
\* them.  Export carries on those attached to the very view it is called on
\* (delegation.go 56-59, 78-80; message.go 118-129).
AttachmentsTravel == \A v \in Views : Dlg(v).carries \subseteq Blocks(v)

\* No operation takes a block from a view that exists, the replacement of a
\* receipt's reader included (receipt.go 299-316).
BlocksKept ==
    [][/\ \A v \in Views : Blocks(v) \subseteq Blocks(v)'
       /\ \A v \in Receipts : Has(Rcpt(v).store) \subseteq Has(Rcpt(v).store)']_vars

\* Attaching an invocation to a receipt changes no other receipt, unless both are
\* on the store of one message: clones are independent (receipt.go 271-283 "by
\* copying r's backing blockstore", 299-316).
ReceiptsIndependent ==
    [][\A v, w \in {r \in Receipts : \A m \in Range(msgs) : m.store # Rcpt(r).store} :
          Has(Rcpt(v).store) # Has(Rcpt(v).store)' /\ Has(Rcpt(w).store) # Has(Rcpt(w).store)'
             => v = w]_vars
=============================================================================
