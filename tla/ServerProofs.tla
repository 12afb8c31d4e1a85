---------------------------- MODULE ServerProofs ----------------------------
(***************************************************************************)
(* A batch handled by the server implements BatchInvocation: for every     *)
(* batch, request, handler result and interleaving.  The receipts are      *)
(* appended by many goroutines; the invariant says that each receipt is    *)
(* listed once its goroutine has released the lock, and that what is       *)
(* listed is the receipt of a run.  A one-to-one matching of the list with *)
(* the goroutines that have released the lock then counts them.            *)
(***************************************************************************)
EXTENDS ServerExecute, FiniteSetTheorems, FunctionTheorems, TLAPS

----------------------------------------------------------------------------
(* Positions and lists.                                                    *)

Receipts == [ran : Invocation, out : Outcomes]

\* The positions of the batch, and the invocations at them.
LEMMA Positions ==
    /\ Len(Batch) \in Nat /\ Pos = 1..Len(Batch) /\ IsFiniteSet(Pos)
    /\ \A k \in Pos : Batch[k] \in Invocation
    /\ Range(Batch) = {Batch[k] : k \in Pos}
<1>1. Len(Batch) \in Nat /\ Pos = 1..Len(Batch) /\ \A k \in Pos : Batch[k] \in Invocation
  BY BatchAssumption DEF Pos
<1>2. IsFiniteSet(Pos)
  BY <1>1, FS_Interval
<1> QED BY <1>1, <1>2 DEF Range, Pos

\* A receipt is not what a goroutine has before it has one.
LEMMA NoReceiptIsNone ==
    /\ NoReceipt \notin Receipts
    /\ \A k \in Pos, out \in Outcomes : Receipt(Batch[k], out) \in Receipts
<1>1. NoReceipt.out \notin Outcomes
  BY DEF NoReceipt, Receipt, Outcomes
<1> QED BY <1>1, Positions DEF Receipts, Receipt

\* The list has, for each receipt, a first one for the same invocation.
HasFirst(rs) ==
    \A k \in DOMAIN rs : \E f \in DOMAIN rs :
        rs[f].ran = rs[k].ran /\ \A j \in 1..f - 1 : rs[j].ran # rs[k].ran

\* What appending to the list adds to it.
LEMMA AppendToList ==
    ASSUME NEW rs \in Seq(Receipts), NEW r \in Receipts, HasFirst(rs)
    PROVE  /\ Append(rs, r) \in Seq(Receipts)
           /\ Range(Append(rs, r)) = Range(rs) \cup {r}
           /\ HasFirst(Append(rs, r))
<1> DEFINE t == Append(rs, r)
           n == Len(rs)
<1>1. /\ t \in Seq(Receipts) /\ n \in Nat /\ t[n + 1] = r
      /\ \A k \in 1..n : t[k] = rs[k]
      /\ DOMAIN rs = 1..n /\ DOMAIN t = 1..n + 1
  OBVIOUS
<1>2. DOMAIN t = DOMAIN rs \cup {n + 1}
  BY <1>1
<1> HIDE DEF t, n
<1>3. Range(t) = Range(rs) \cup {r}
  BY <1>1, <1>2 DEF Range
<1>4. HasFirst(t)
  <2> SUFFICES ASSUME NEW k \in DOMAIN t
               PROVE  \E f \in DOMAIN t : t[f].ran = t[k].ran /\ \A j \in 1..f - 1 : t[j].ran # t[k].ran
    BY DEF HasFirst
  <2>1. CASE \E m \in DOMAIN rs : rs[m].ran = t[k].ran
    <3>1. PICK m \in DOMAIN rs : rs[m].ran = t[k].ran
      BY <2>1
    <3>2. PICK f \in DOMAIN rs : rs[f].ran = rs[m].ran /\ \A j \in 1..f - 1 : rs[j].ran # rs[m].ran
      BY <3>1 DEF HasFirst
    <3>3. f \in DOMAIN t /\ \A j \in 1..f : t[j] = rs[j]
      BY <1>1, <3>2
    <3>4. t[f] = rs[f] /\ \A j \in 1..f - 1 : t[j] = rs[j]
      BY <1>1, <3>2, <3>3
    <3> QED BY <3>1, <3>2, <3>3, <3>4
  <2>2. CASE \A m \in DOMAIN rs : rs[m].ran # t[k].ran
    <3>1. k = n + 1
      BY <1>1, <1>2, <2>2
    <3>2. \A j \in 1..k - 1 : t[j].ran # t[k].ran
      BY <1>1, <2>2, <3>1
    <3> QED BY <3>2
  <2> QED BY <2>1, <2>2
<1> QED BY <1>1, <1>3, <1>4 DEF t

----------------------------------------------------------------------------
(* The inductive invariant.                                                *)

\* The goroutines that run.
Active == {k \in Pos : pc[k] \notin {"idle", "done"}}

Types ==
    /\ phase \in {"received", "spawning", "answered", "crashed"}
    /\ request \in Requests
    /\ next \in 1..Len(Batch) + 1
    /\ pc \in [Pos -> {"idle", "run", "handle", "log", "issued", "append", "error",
                       "return", "done"}]
    /\ rcpt \in [Pos -> Receipts \cup {NoReceipt}]
    /\ lock \in Pos \cup {0}
    /\ rcpts \in Seq(Receipts)
    /\ seen \in [Pos -> Seq(Receipts)]
    /\ rerr \in Errors \cup {"nil"}
    /\ answer.is \in {"none", "status", "error", "message"}

\* The wait group counts the goroutines that run, started in the order of the batch.
Counted ==
    /\ wg = Cardinality(Active)
    /\ \A k \in Pos : pc[k] = "idle" <=> next <= k

\* There is no answer before the end, and nothing runs after it.
Phases ==
    /\ phase \in {"received", "spawning"} => answer = NoAnswer
    /\ phase \in {"received", "answered"} => \A k \in Pos : pc[k] \in {"idle", "done"}

\* What a goroutine has in hand is its own receipt; one that returned without has
\* left an error.
InHand ==
    \A k \in Pos :
        /\ pc[k] \in {"idle", "run", "handle", "error"} => rcpt[k] = NoReceipt
        /\ pc[k] \in {"log", "issued", "append"} => rcpt[k] # NoReceipt
        /\ rcpt[k] # NoReceipt => rcpt[k].ran = Batch[k]
        /\ pc[k] \in {"return", "done"} /\ rcpt[k] = NoReceipt => rerr # "nil"

\* A goroutine that appends holds the lock, and the list has not changed since.
Locked == \A k \in Pos : pc[k] = "append" => lock = k /\ seen[k] = rcpts

\* The receipts of those that returned are listed, and no others.
Listed ==
    /\ \A k \in Pos : pc[k] \in {"return", "done"} /\ rcpt[k] # NoReceipt => rcpt[k] \in Range(rcpts)
    /\ \A r \in Range(rcpts) : \E k \in Pos : pc[k] \in {"return", "done"} /\ rcpt[k] = r
    /\ HasFirst(rcpts)

IInv == Types /\ Counted /\ Phases /\ InHand /\ Locked /\ Listed

\* The invariant gives the types.
LEMMA InvType == IInv => TypeOK
BY DEF IInv, Types, Counted, TypeOK, Active, Receipts

\* Only finitely many goroutines run.
LEMMA ActiveIsFinite == IsFiniteSet(Active)
BY Positions, FS_Subset DEF Active

\* The invariant holds initially.
LEMMA InitIInv == Init => IInv
<1> SUFFICES ASSUME Init PROVE IInv
  OBVIOUS
<1>1. Types
  BY Positions DEF Init, Types, NoAnswer, Errors
<1>2. Counted
  <2>1. Active = {}
    BY DEF Init, Active
  <2> QED BY <2>1, FS_EmptySet, Positions DEF Init, Counted
<1>3. Phases /\ InHand /\ Locked
  BY DEF Init, Phases, InHand, Locked
<1>4. Listed
  BY DEF Init, Listed, HasFirst, Range
<1> QED BY <1>1, <1>2, <1>3, <1>4 DEF IInv

----------------------------------------------------------------------------
(* Every step keeps the invariant.                                         *)

\* The request is accepted, or answered at once.
LEMMA HandleStep == ASSUME IInv, Handle PROVE IInv'
<1> USE DEF IInv
<1>1. Types'
  <2>1. \/ phase' = "answered" /\ answer'.is \in {"status", "error"} /\ next' = next
        \/ phase' = "spawning" /\ UNCHANGED <<next, answer>>
    <3>1. \A x : Status(x).is = "status" /\ Error(x).is = "error"
      BY DEF Status, Error
    <3>2. \A ans : Refuse(ans) => phase' = "answered" /\ answer' = ans /\ next' = next
      BY DEF Refuse
    <3>3. \/ \E x : Refuse(Status(x))
          \/ \E x : Refuse(Error(x))
          \/ phase' = "spawning" /\ UNCHANGED <<next, answer>>
      BY Zenon DEF Handle
    <3> QED BY <3>1, <3>2, <3>3
  <2> QED BY <2>1 DEF Handle, share, Types
<1>2. Counted'
  BY DEF Handle, Counted, Active, Refuse
<1>3. Phases'
  BY DEF Handle, Phases, Refuse
<1>4. InHand'
  BY DEF Handle, share, InHand
<1>5. Locked'
  BY DEF Handle, share, Locked
<1>6. Listed'
  BY DEF Handle, share, Listed
<1> QED BY <1>1, <1>2, <1>3, <1>4, <1>5, <1>6

\* The next goroutine is started.
LEMMA SpawnStep == ASSUME IInv, Spawn PROVE IInv'
<1> USE DEF IInv
<1>1. Types'
  BY Positions DEF Spawn, share, Types
<1>2. Counted'
  <2>1. next \in Pos /\ next \notin Active /\ Active' = Active \cup {next}
    BY DEF Spawn, Types, Counted, Active
  <2>2. wg' = Cardinality(Active')
    BY <2>1, ActiveIsFinite, FS_AddElement DEF Spawn, Counted
  <2>3. \A k \in Pos : pc'[k] = "idle" <=> next' <= k
    BY Positions DEF Spawn, Types, Counted
  <2> QED BY <2>2, <2>3 DEF Counted
<1>3. Phases'
  BY DEF Spawn, Phases
<1>4. InHand'
  BY DEF Spawn, share, Types, InHand, Counted
<1>5. Locked'
  BY DEF Spawn, share, Locked
<1>6. Listed'
  <2>1. \A j \in Pos : pc'[j] \in {"return", "done"} <=> pc[j] \in {"return", "done"}
    BY Positions DEF Spawn, Counted
  <2> QED BY <2>1 DEF Spawn, share, Listed
<1> QED BY <1>1, <1>2, <1>3, <1>4, <1>5, <1>6

\* The request is answered when the wait group is empty.
LEMMA WaitStep == ASSUME IInv, Wait PROVE IInv'
<1> USE DEF IInv
<1>1. Types'
  BY Positions DEF Wait, share, Types, Error, Message
<1>2. Counted'
  BY DEF Wait, Counted, Active
<1>3. Phases'
  <2>1. Cardinality(Active) = 0 => Active = {}
    BY ActiveIsFinite, FS_EmptySet
  <2> QED BY <2>1 DEF Wait, Phases, Counted, Active
<1>4. InHand'
  BY DEF Wait, share, InHand
<1>5. Locked'
  BY DEF Wait, share, Locked
<1>6. Listed'
  BY DEF Wait, share, Listed
<1> QED BY <1>1, <1>2, <1>3, <1>4, <1>5, <1>6

\* What a goroutine does before it locks the receipts concerns its own alone.
LEMMA PrivateStep ==
    ASSUME IInv, NEW k \in Pos, pc[k] \in {"run", "handle", "log"}, phase # "crashed",
           NEW at \in {"handle", "log", "issued", "error"}, pc' = [pc EXCEPT ![k] = at],
           \/ /\ at \in {"log", "issued"}
              /\ \E out \in Outcomes : rcpt' = [rcpt EXCEPT ![k] = Receipt(Batch[k], out)]
           \/ at = "issued" /\ pc[k] = "log" /\ rcpt' = rcpt
           \/ at \in {"handle", "error"} /\ pc[k] # "log" /\ rcpt' = rcpt,
           UNCHANGED <<main, request, wg, share>>
    PROVE  IInv'
<1> USE DEF IInv
<1>1. \A j \in Pos \ {k} : pc'[j] = pc[j] /\ rcpt'[j] = rcpt[j]
  BY DEF Types
<1>2. /\ pc'[k] = at
      /\ at \in {"log", "issued"} => rcpt'[k] \in Receipts /\ rcpt'[k].ran = Batch[k]
      /\ at \in {"handle", "error"} => rcpt'[k] = NoReceipt
  <2>1. CASE \E out \in Outcomes : rcpt' = [rcpt EXCEPT ![k] = Receipt(Batch[k], out)]
    <3>1. PICK out \in Outcomes : rcpt'[k] = Receipt(Batch[k], out)
      BY <2>1 DEF Types
    <3>2. Receipt(Batch[k], out).ran = Batch[k]
      BY DEF Receipt
    <3> QED BY <2>1, <3>1, <3>2, NoReceiptIsNone DEF Types, InHand
  <2>2. CASE rcpt' = rcpt
    BY <2>2, NoReceiptIsNone DEF Types, InHand
  <2> QED BY <2>1, <2>2
<1>3. Types'
  <2>1. rcpt' = [rcpt EXCEPT ![k] = rcpt'[k]] /\ rcpt'[k] \in Receipts \cup {NoReceipt}
    BY <1>2 DEF Types
  <2> QED BY <2>1 DEF main, share, Types
<1>4. Counted'
  <2>1. Active' = Active
    BY <1>1, <1>2 DEF Active
  <2> QED BY <2>1, <1>1, <1>2 DEF main, Counted
<1>5. Phases'
  BY <1>1, <1>2 DEF main, Phases
<1>6. InHand' /\ Locked'
  BY <1>1, <1>2, NoReceiptIsNone DEF share, InHand, Locked
<1>7. Listed'
  <2>1. \A j \in Pos : pc'[j] \in {"return", "done"} <=> pc[j] \in {"return", "done"} /\ j # k
    BY <1>1, <1>2
  <2>2. pc[k] \notin {"return", "done"}
    OBVIOUS
  <2> QED BY <1>1, <2>1, <2>2 DEF share, Listed
<1> QED BY <1>3, <1>4, <1>5, <1>6, <1>7

\* A run ends with a receipt or goes on to the handler.
LEMMA RunStep == ASSUME IInv, NEW k \in Pos, Run(k) PROVE IInv'
<1>1. CASE \E out \in Outcomes : Issue(k, out)
  BY <1>1, PrivateStep DEF Run, Go, Issue
<1>2. CASE pc' = [pc EXCEPT ![k] = "handle"] /\ UNCHANGED rcpt
  BY <1>2, PrivateStep DEF Run, Go
<1> QED BY <1>1, <1>2 DEF Run, Outcomes

\* Every result of a handler is a receipt, or a cancellation.
LEMMA HandlerReturnsStep == ASSUME IInv, NEW k \in Pos, HandlerReturns(k) PROVE IInv'
<1>1. CASE \E out \in Outcomes : Issue(k, out)
  BY <1>1, PrivateStep DEF HandlerReturns, Go, Issue
<1>2. CASE \E out \in Outcomes : /\ rcpt' = [rcpt EXCEPT ![k] = Receipt(Batch[k], out)]
                                 /\ pc' = [pc EXCEPT ![k] = "log"]
  BY <1>2, PrivateStep DEF HandlerReturns, Go
<1>3. CASE pc' = [pc EXCEPT ![k] = "error"] /\ UNCHANGED rcpt
  BY <1>3, PrivateStep DEF HandlerReturns, Go
<1> QED BY <1>1, <1>2, <1>3 DEF HandlerReturns, Outcomes

\* The receipt that is logged may be replaced before it is listed.
LEMMA LogReceiptStep == ASSUME IInv, NEW k \in Pos, LogReceipt(k) PROVE IInv'
<1>1. CASE \E out \in Outcomes : Issue(k, out)
  BY <1>1, PrivateStep DEF LogReceipt, Go, Issue
<1>2. CASE pc' = [pc EXCEPT ![k] = "issued"] /\ UNCHANGED rcpt
  BY <1>2, PrivateStep DEF LogReceipt, Go
<1> QED BY <1>1, <1>2 DEF LogReceipt, Outcomes

\* The end of the process.
LEMMA HandlerPanicsStep == ASSUME IInv, NEW k \in Pos, HandlerPanics(k) PROVE IInv'
<1> USE DEF IInv
<1>1. Types'
  BY Positions, NoReceiptIsNone DEF HandlerPanics, share, Types, Error
<1>2. Counted'
  <2>1. Active' = Active
    BY DEF HandlerPanics, Active
  <2> QED BY <2>1 DEF HandlerPanics, Counted
<1>3. Phases'
  BY DEF HandlerPanics, Phases
<1>4. InHand'
  BY NoReceiptIsNone DEF HandlerPanics, share, InHand
<1>5. Locked'
  BY DEF HandlerPanics, share, Locked
<1>6. Listed'
  BY DEF HandlerPanics, share, Listed
<1> QED BY <1>1, <1>2, <1>3, <1>4, <1>5, <1>6

\* The lock excludes every other append.
LEMMA LockStep == ASSUME IInv, NEW k \in Pos, Lock(k) PROVE IInv'
<1> USE DEF IInv
<1>1. Types'
  BY Positions, NoReceiptIsNone DEF Lock, main, Types
<1>2. Counted'
  <2>1. Active' = Active
    BY DEF Lock, Go, Active
  <2> QED BY <2>1 DEF Lock, Go, main, Counted
<1>3. Phases'
  BY DEF Lock, Go, main, Phases
<1>4. InHand'
  BY NoReceiptIsNone DEF Lock, Go, InHand
<1>5. Locked'
  BY Positions DEF Lock, Types, Locked
<1>6. Listed'
  BY DEF Lock, Go, Listed
<1> QED BY <1>1, <1>2, <1>3, <1>4, <1>5, <1>6

\* The receipt is listed with all that were listed before it.
LEMMA AppendReceiptStep == ASSUME IInv, NEW k \in Pos, AppendReceipt(k) PROVE IInv'
<1> USE DEF IInv
<1>1. Types'
  <2>1. rcpts' \in Seq(Receipts) /\ Range(rcpts') = Range(rcpts) \cup {rcpt[k]} /\ HasFirst(rcpts')
    BY AppendToList, NoReceiptIsNone DEF AppendReceipt, Go, Types, Locked, InHand, Listed
  <2> QED BY <2>1 DEF AppendReceipt, main, Types
<1>2. Counted'
  <2>1. Active' = Active
    BY DEF AppendReceipt, Go, Active
  <2> QED BY <2>1 DEF AppendReceipt, Go, main, Counted
<1>3. Phases'
  BY DEF AppendReceipt, Go, main, Phases
<1>4. InHand'
  BY NoReceiptIsNone DEF AppendReceipt, Go, InHand
<1>5. Locked'
  BY DEF AppendReceipt, Go, Types, Locked
<1>6. Listed'
  <2>1. Range(rcpts') = Range(rcpts) \cup {rcpt[k]} /\ HasFirst(rcpts')
    BY AppendToList, NoReceiptIsNone DEF AppendReceipt, Go, Types, Locked, InHand, Listed
  <2>2. /\ pc'[k] = "return" /\ rcpt' = rcpt
        /\ \A j \in Pos \ {k} : pc'[j] = pc[j]
    BY DEF AppendReceipt, Types
  <2>3. \A j \in Pos : pc'[j] \in {"return", "done"} <=> pc[j] \in {"return", "done"} \/ j = k
    BY <2>2
  <2> QED BY <2>1, <2>2, <2>3 DEF Listed
<1> QED BY <1>1, <1>2, <1>3, <1>4, <1>5, <1>6

\* An error is left, whatever its value.
LEMMA SetErrorStep == ASSUME IInv, NEW k \in Pos, SetError(k) PROVE IInv'
<1> USE DEF IInv
<1>1. Types'
  BY Positions, NoReceiptIsNone DEF SetError, main, Types, Errors
<1>2. Counted'
  <2>1. Active' = Active
    BY DEF SetError, Go, Active
  <2> QED BY <2>1 DEF SetError, Go, main, Counted
<1>3. Phases'
  BY DEF SetError, Go, main, Phases
<1>4. InHand'
  BY NoReceiptIsNone DEF SetError, InHand, Errors
<1>5. Locked'
  BY DEF SetError, Locked
<1>6. Listed'
  BY DEF SetError, Go, InHand, Listed
<1> QED BY <1>1, <1>2, <1>3, <1>4, <1>5, <1>6

\* A goroutine leaves the wait group.
LEMMA DoneStep == ASSUME IInv, NEW k \in Pos, Done(k) PROVE IInv'
<1> USE DEF IInv
<1>1. Types'
  BY Positions, NoReceiptIsNone DEF Done, main, share, Types
<1>2. Counted'
  <2>1. k \in Active /\ Active' = Active \ {k}
    BY DEF Done, Go, Types, Active
  <2>2. wg' = Cardinality(Active')
    BY <2>1, ActiveIsFinite, FS_RemoveElement DEF Done, Counted
  <2> QED BY <2>2 DEF Done, Go, main, Counted
<1>3. Phases'
  BY DEF Done, main, Phases
<1>4. InHand'
  BY NoReceiptIsNone DEF Done, Go, share, InHand
<1>5. Locked'
  BY DEF Done, share, Locked
<1>6. Listed'
  BY DEF Done, Go, share, Listed
<1> QED BY <1>1, <1>2, <1>3, <1>4, <1>5, <1>6

\* Every step keeps the invariant.
LEMMA StepIInv == IInv /\ [Next]_vars => IInv'
<1> SUFFICES ASSUME IInv, [Next]_vars PROVE IInv'
  OBVIOUS
<1>1. CASE Main
  BY <1>1, HandleStep, SpawnStep, WaitStep DEF Main
<1>2. ASSUME NEW k \in Pos, Goroutine(k) PROVE IInv'
  BY <1>2, RunStep, HandlerReturnsStep, HandlerPanicsStep, LogReceiptStep, LockStep,
     AppendReceiptStep, SetErrorStep, DoneStep DEF Goroutine
<1>3. CASE UNCHANGED vars
  BY <1>3 DEF vars, main, share, IInv, Types, Counted, Active, Phases, InHand, Locked, Listed
<1> QED BY <1>1, <1>2, <1>3 DEF Next

----------------------------------------------------------------------------
(* The refinement.                                                         *)

\* What the invariant says of the outcomes of the runs, and of the reply.
LEMMA OutcomesOfRuns ==
    ASSUME IInv, NEW k \in Pos
    PROVE  /\ Outcome(k) \in Outcomes \cup {"canceled", "unsettled"}
           /\ pc[k] \in {"idle", "run", "handle", "log"} => Outcome(k) = "unsettled"
           /\ pc[k] \in {"issued", "append"} => Outcome(k) = rcpt[k].out /\ rcpt[k] \in Receipts
           /\ pc[k] = "error" => Outcome(k) = "canceled"
           /\ pc[k] \in {"return", "done"} =>
                 Outcome(k) = IF rcpt[k] = NoReceipt THEN "canceled" ELSE rcpt[k].out
BY DEF IInv, Types, InHand, Outcome, Receipts

\* No outcome is the lack of one.
LEMMA OutcomesSettled == "unsettled" \notin Outcomes /\ "canceled" \notin Outcomes
BY DEF Outcomes

\* A request has no reply until it has an answer.
LEMMA PendingReply ==
    /\ answer = NoAnswer => Returned = Call!Pending
    /\ answer.is \in {"status", "error"} => Returned = Call!Failed
    /\ answer.is = "message" => Returned = Call!Report(answer.report.values)
BY DEF Returned, NoAnswer, Call!Pending, Call!Failed, Call!Report

\* The sides of the refinement: what the runs came to, and the reply.
Runs == [k \in Pos |-> Outcome(k)]
View == <<Runs, Returned>>

\* Goroutines run only before the answer.
LEMMA RunsBeforeAnswer ==
    ASSUME IInv, NEW k \in Pos, phase # "crashed", pc[k] \notin {"idle", "done"}
    PROVE  phase = "spawning" /\ Returned = Call!Pending
BY PendingReply DEF IInv, Types, Phases

\* The answer stays while nothing is answered, and so do the outcomes of the others.
LEMMA Settles ==
    ASSUME IInv, NEW k \in Pos, phase # "crashed", pc[k] \in {"run", "handle", "log"},
           UNCHANGED answer, \A j \in Pos \ {k} : pc'[j] = pc[j] /\ rcpt'[j] = rcpt[j],
           \/ pc'[k] = "issued" /\ rcpt'[k].out \in Outcomes
           \/ pc'[k] = "error"
    PROVE  Call!Settle(k)
<1>1. \A j \in Pos \ {k} : Outcome(j)' = Outcome(j)
  BY DEF Outcome
<1>2. Outcome(k) = "unsettled" /\ Outcome(k)' \in Outcomes \cup {"canceled"}
  BY DEF Outcome
<1>3. Runs' = [Runs EXCEPT ![k] = Outcome(k)']
  BY <1>1 DEF Runs
<1>4. Returned = Call!Pending /\ Returned' = Returned
  BY RunsBeforeAnswer DEF Returned
<1>5. Runs[k] = "unsettled"
  BY <1>2 DEF Runs
<1> QED BY <1>2, <1>3, <1>4, <1>5 DEF Call!Settle, Call!Unsettled, Runs

\* A step that leaves every outcome as it is, and the answer.
LEMMA Stutters ==
    ASSUME NEW k \in Pos, UNCHANGED answer,
           \A j \in Pos \ {k} : pc'[j] = pc[j] /\ rcpt'[j] = rcpt[j], Outcome(k)' = Outcome(k)
    PROVE  UNCHANGED View
<1>1. \A j \in Pos : Outcome(j)' = Outcome(j)
  BY DEF Outcome
<1> QED BY <1>1 DEF View, Runs, Returned

\* The steps of a goroutine.
LEMMA GoroutineRefines ==
    ASSUME IInv, NEW k \in Pos, Goroutine(k)
    PROVE  [Call!Next]_View
<1> USE DEF IInv
<1>1. ASSUME Run(k) \/ HandlerReturns(k) \/ LogReceipt(k) PROVE Call!Settle(k) \/ UNCHANGED View
  <2>1. /\ UNCHANGED answer /\ phase # "crashed" /\ pc[k] \in {"run", "handle", "log"}
        /\ \A j \in Pos \ {k} : pc'[j] = pc[j] /\ rcpt'[j] = rcpt[j]
    BY <1>1 DEF Run, HandlerReturns, LogReceipt, Go, Issue, main, Types
  <2>2. \/ pc'[k] \in {"handle", "log"}
        \/ pc'[k] = "issued" /\ rcpt'[k].out \in Outcomes
        \/ pc'[k] = "error"
    <3>1. \A out : Receipt(Batch[k], out).out = out
      BY DEF Receipt
    <3>2. rcpt[k] \in Receipts => rcpt[k].out \in Outcomes
      BY DEF Receipts
    <3>3. \A out \in Outcomes : Issue(k, out) => pc'[k] = "issued" /\ rcpt'[k].out \in Outcomes
      BY <3>1 DEF Issue, Types
    <3>4. CASE Run(k)
      BY <3>3, <3>4 DEF Run, Types, Outcomes
    <3>5. CASE HandlerReturns(k)
      BY <3>3, <3>5 DEF HandlerReturns, Types, Outcomes
    <3>6. CASE LogReceipt(k)
      <4>1. CASE \E out \in Outcomes : Issue(k, out)
        BY <3>3, <4>1
      <4>2. CASE pc' = [pc EXCEPT ![k] = "issued"] /\ UNCHANGED rcpt
        BY <3>2, <3>6, <4>2 DEF LogReceipt, Go, Types, InHand
      <4> QED BY <3>6, <4>1, <4>2 DEF LogReceipt, Outcomes
    <3> QED BY <1>1, <3>4, <3>5, <3>6
  <2>3. CASE pc'[k] \in {"handle", "log"}
    <3>1. Outcome(k)' = Outcome(k)
      BY <2>1, <2>3 DEF Outcome
    <3> QED BY <2>1, <3>1, Stutters
  <2> QED BY <2>1, <2>2, <2>3, Settles
<1>2. ASSUME HandlerPanics(k) PROVE Call!Fail
  <2>1. Returned = Call!Pending
    BY <1>2, RunsBeforeAnswer DEF HandlerPanics, Go
  <2>2. Returned' = Call!Failed
    BY <1>2 DEF HandlerPanics, Error, Returned, Call!Failed
  <2>3. Runs' = Runs
    BY <1>2 DEF HandlerPanics, Runs, Outcome
  <2> QED BY <2>1, <2>2, <2>3 DEF Call!Fail, Runs
<1>3. ASSUME Lock(k) \/ AppendReceipt(k) \/ SetError(k) \/ Done(k) PROVE UNCHANGED View
  <2>1. /\ UNCHANGED <<answer, rcpt>>
        /\ \A j \in Pos \ {k} : pc'[j] = pc[j]
        /\ \/ pc[k] = "issued" /\ pc'[k] = "append"
           \/ pc[k] = "append" /\ pc'[k] = "return"
           \/ pc[k] = "error" /\ pc'[k] = "return"
           \/ pc[k] = "return" /\ pc'[k] = "done"
    BY <1>3 DEF Lock, AppendReceipt, SetError, Done, Go, main, Types
  <2>2. Outcome(k)' = Outcome(k)
    BY <2>1 DEF Outcome, InHand
  <2> QED BY <2>1, <2>2, Stutters
<1> QED BY <1>1, <1>2, <1>3 DEF Goroutine, Call!Next, Pos

\* The report of a batch whose runs have all ended with a receipt names each of its
\* invocations and no other, with the outcome of one of its runs.
LEMMA ReportOfBatch ==
    ASSUME IInv, rerr = "nil", \A k \in Pos : pc[k] = "done"
    PROVE  LET values == Report(rcpts).values
           IN  /\ DOMAIN values = Range(Batch)
               /\ \A k \in Pos : \E j \in Pos : Batch[j] = Batch[k] /\ values[Batch[k]] = Outcome(j)
               /\ \A k \in Pos : Outcome(k) # "unsettled"
<1> USE DEF IInv
<1> DEFINE values == Report(rcpts).values
           First(i, f) == rcpts[f].ran = i /\ \A j \in 1..f - 1 : rcpts[j].ran # i
<1>1. \A k \in Pos : /\ rcpt[k] \in Receipts /\ rcpt[k].ran = Batch[k] /\ rcpt[k] \in Range(rcpts)
                     /\ Outcome(k) = rcpt[k].out
  BY DEF Types, InHand, Listed, Outcome
<1>2. \A k \in Pos : Outcome(k) # "unsettled"
  BY <1>1, OutcomesSettled DEF Receipts
<1>3. values = [i \in {r.ran : r \in Range(rcpts)} |->
                  rcpts[CHOOSE f \in DOMAIN rcpts : First(i, f)].out]
  BY DEF Report
<1>4. {r.ran : r \in Range(rcpts)} = Range(Batch)
  <2>1. \A r \in Range(rcpts) : \E k \in Pos : r.ran = Batch[k]
    BY <1>1 DEF Listed
  <2>2. \A k \in Pos : \E r \in Range(rcpts) : r.ran = Batch[k]
    BY <1>1
  <2>3. Range(Batch) = {Batch[k] : k \in Pos}
    BY Positions
  <2>4. ASSUME NEW x PROVE x \in {r.ran : r \in Range(rcpts)} <=> \E k \in Pos : x = Batch[k]
    <3>1. x \in {r.ran : r \in Range(rcpts)} <=> \E r \in Range(rcpts) : x = r.ran
      OBVIOUS
    <3> QED BY <2>1, <2>2, <3>1, Zenon
  <2> QED BY <2>3, <2>4
<1>5. ASSUME NEW k \in Pos
      PROVE  \E j \in Pos : Batch[j] = Batch[k] /\ values[Batch[k]] = Outcome(j)
  <2>1. PICK m \in DOMAIN rcpts : rcpts[m] = rcpt[k]
    BY <1>1 DEF Range
  <2>2. \E f \in DOMAIN rcpts : First(Batch[k], f)
    BY <1>1, <2>1 DEF Listed, HasFirst
  <2> DEFINE first == CHOOSE f \in DOMAIN rcpts : First(Batch[k], f)
  <2>3. first \in DOMAIN rcpts /\ rcpts[first].ran = Batch[k]
    BY <2>2
  <2>4. values[Batch[k]] = rcpts[first].out
    BY <1>3, <1>4, Positions
  <2>5. PICK j \in Pos : rcpt[j] = rcpts[first]
    BY <2>3 DEF Listed, Range
  <2> HIDE DEF values, first
  <2> QED BY <1>1, <2>3, <2>4, <2>5
<1>6. DOMAIN values = Range(Batch)
  BY <1>3, <1>4
<1> QED BY <1>2, <1>5, <1>6

\* A request that is not accepted is refused.
LEMMA HandleAnswers ==
    ASSUME Handle
    PROVE  UNCHANGED answer \/ answer'.is \in {"status", "error"}
<1>1. UNCHANGED <<next, answer>> \/ (\E s : Refuse(Status(s))) \/ (\E e : Refuse(Error(e)))
  <2>1. CASE Range(Batch) \subseteq request.blocks
    BY <2>1, Zenon DEF Handle
  <2>2. CASE ~(Range(Batch) \subseteq request.blocks)
    BY <2>2, Zenon DEF Handle
  <2> QED BY <2>1, <2>2
<1>2. ASSUME NEW s, Refuse(Status(s)) PROVE answer'.is = "status"
  BY <1>2 DEF Refuse, Status
<1>3. ASSUME NEW e, Refuse(Error(e)) PROVE answer'.is = "error"
  BY <1>3 DEF Refuse, Error
<1> QED BY <1>1, <1>2, <1>3

\* The steps of the goroutine that serves the request.
LEMMA MainRefines ==
    ASSUME IInv, Main
    PROVE  [Call!Next]_View
<1> USE DEF IInv
<1>1. ASSUME Handle PROVE Call!Fail \/ UNCHANGED View
  <2>1. Returned = Call!Pending
    BY <1>1, PendingReply DEF Handle, Phases
  <2>2. Runs' = Runs
    BY <1>1 DEF Handle, Runs, Outcome
  <2>3. UNCHANGED answer \/ answer'.is \in {"status", "error"}
    BY <1>1, HandleAnswers
  <2>4. UNCHANGED Returned \/ Returned' = Call!Failed
    BY <2>3 DEF Returned, Call!Failed
  <2> QED BY <2>1, <2>2, <2>4 DEF Call!Fail, View, Runs
<1>2. ASSUME Spawn PROVE UNCHANGED View
  <2>1. PICK k \in Pos : k = next /\ pc[k] = "idle"
    BY <1>2, Positions DEF Spawn, Counted
  <2>2. /\ pc'[k] = "run" /\ UNCHANGED answer
        /\ \A j \in Pos \ {k} : pc'[j] = pc[j] /\ rcpt'[j] = rcpt[j]
    BY <1>2, <2>1 DEF Spawn, Types
  <2>3. Outcome(k)' = Outcome(k)
    BY <2>1, <2>2 DEF Outcome
  <2> QED BY <2>2, <2>3, Stutters
<1>3. ASSUME Wait PROVE Call!Reply \/ Call!Fail
  <2>1. Returned = Call!Pending /\ Runs' = Runs
    BY <1>3, PendingReply DEF Wait, Phases, Runs, Outcome
  <2>2. CASE rerr # "nil"
    <3>1. Returned' = Call!Failed
      BY <1>3, <2>2 DEF Wait, Error, Returned, Call!Failed
    <3> QED BY <2>1, <3>1 DEF Call!Fail, Runs
  <2>3. CASE rerr = "nil"
    <3>1. \A k \in Pos : pc[k] = "done"
      <4>1. Active = {}
        BY <1>3, ActiveIsFinite, FS_EmptySet DEF Wait, Counted
      <4>2. \A k \in Pos : pc[k] # "idle"
        BY <1>3, Positions DEF Wait, Types, Counted
      <4> QED BY <4>1, <4>2 DEF Active
    <3> DEFINE values == Report(rcpts).values
    <3>2. Returned' = [is |-> "report", outcomes |-> values]
      BY <1>3, <2>3 DEF Wait, Message, Returned
    <3>3. /\ DOMAIN values = Range(Batch)
          /\ \A k \in Pos : \E j \in Pos : Batch[j] = Batch[k] /\ values[Batch[k]] = Outcome(j)
          /\ \A k \in Pos : Outcome(k) # "unsettled"
      BY <2>3, <3>1, ReportOfBatch
    <3> HIDE DEF values
    <3>4. Returned'.is = "report" /\ Returned'.outcomes = values
      BY <3>2
    <3>5. \A k \in Pos : Runs[k] = Outcome(k)
      BY DEF Runs
    <3>6. DOMAIN values = Call!Range(Batch)
      BY <3>3 DEF Range, Call!Range
    <3> QED BY <2>1, <3>3, <3>4, <3>5, <3>6 DEF Call!Reply, Call!Unsettled, Runs, Pos
  <2> QED BY <2>2, <2>3
<1> QED BY <1>1, <1>2, <1>3 DEF Main, Call!Next

\* A step is a step of the abstract batch, or none.
LEMMA StepRefines == IInv /\ [Next]_vars => [Call!Next]_View
<1>1. CASE UNCHANGED vars
  BY <1>1 DEF vars, main, View, Runs, Outcome, Returned
<1> QED BY <1>1, MainRefines, GoroutineRefines DEF Next

\* The initial state maps to the initial state.
LEMMA InitRefines == Init => Call!Init
<1> SUFFICES ASSUME Init PROVE Call!Init
  OBVIOUS
<1>1. \A k \in Pos : Outcome(k) = "unsettled"
  BY DEF Init, Outcome
<1>2. Returned = Call!Pending
  BY PendingReply DEF Init
<1> QED BY <1>1, <1>2 DEF Call!Init, Call!Unsettled, Pos

----------------------------------------------------------------------------
(* The theorems.                                                           *)

\* The invariant holds in every state.
LEMMA Invariant == Spec => []IInv
BY InitIInv, StepIInv, PTL DEF Spec

\* The state is well typed, and the wait group counts the goroutines that run
\* (server.go 291-305).
THEOREM TypeCorrect == Spec => []TypeOK
BY Invariant, InvType, PTL

\* Whatever the goroutines interleave, the answer is a failure or has for every
\* invocation the outcome of one of its own runs, and nothing runs once it is given
\* (server.go 271-312, message.go 141-158).
THEOREM ServerIsBatchInvocation == Spec => ImplementsBatchInvocation
<1>1. Init => Call!Init
  BY InitRefines
<1>2. IInv /\ [Next]_vars => [Call!Next]_View
  BY StepRefines
<1> QED BY <1>1, <1>2, Invariant, PTL DEF Spec, ImplementsBatchInvocation, Call!Spec, View, Runs

----------------------------------------------------------------------------
(* The report of a batch has as many receipts for an invocation as the     *)
(* batch has runs of it.                                                   *)

\* The goroutines whose receipts are listed.
Listing == {k \in Pos : pc[k] \in {"return", "done"} /\ rcpt[k] # NoReceipt}

\* A one-to-one matching of the listed receipts with those goroutines.
Matching(f) ==
    /\ f \in [1..Len(rcpts) -> Listing]
    /\ \A m, n \in 1..Len(rcpts) : f[m] = f[n] => m = n
    /\ \A k \in Listing : \E n \in 1..Len(rcpts) : f[n] = k
    /\ \A n \in 1..Len(rcpts) : rcpts[n] = rcpt[f[n]]

RInv == IInv /\ (\E f : Matching(f)) /\ WholeOrNothing

\* The invariant holds initially.
LEMMA InitRInv == Init => RInv
<1> SUFFICES ASSUME Init PROVE RInv
  OBVIOUS
<1>1. Listing = {} /\ 1..Len(rcpts) = {}
  BY DEF Init, Listing
<1>2. Matching([n \in 1..Len(rcpts) |-> 1])
  BY <1>1 DEF Matching
<1>3. WholeOrNothing
  BY DEF Init, NoAnswer, WholeOrNothing
<1> QED BY <1>2, <1>3, InitIInv DEF RInv

\* A step that lists no receipt keeps the matching.
LEMMA MatchingStays ==
    ASSUME NEW f, Matching(f), UNCHANGED <<rcpts, Listing>>,
           \A k \in Listing : rcpt'[k] = rcpt[k]
    PROVE  Matching(f)'
BY DEF Matching

\* The goroutine that appends is matched with the end of the list.
LEMMA MatchingGrows ==
    ASSUME RInv, NEW k \in Pos, AppendReceipt(k)
    PROVE  \E f : Matching(f)'
<1> USE DEF RInv, IInv
<1>1. PICK f : Matching(f)
  OBVIOUS
<1> DEFINE n == Len(rcpts)
           g == [m \in 1..n + 1 |-> IF m \in 1..n THEN f[m] ELSE k]
<1>2. n \in Nat /\ 1..n + 1 = 1..n \cup {n + 1} /\ n + 1 \notin 1..n
  BY DEF Types
<1>3. rcpt[k] \in Receipts /\ rcpt[k] # NoReceipt /\ seen[k] = rcpts
  BY NoReceiptIsNone DEF AppendReceipt, Go, Types, InHand, Locked
<1>4. /\ Len(rcpts') = n + 1
      /\ rcpts'[n + 1] = rcpt[k]
      /\ \A m \in 1..n : rcpts'[m] = rcpts[m]
  BY <1>3 DEF AppendReceipt, Types
<1>5. UNCHANGED rcpt /\ k \notin Listing /\ Listing' = Listing \cup {k}
  BY <1>3 DEF AppendReceipt, Go, Listing, Types
<1> HIDE DEF n
<1>6. /\ g[n + 1] = k /\ \A m \in 1..n : g[m] = f[m] /\ f[m] \in Listing
      /\ g \in [1..n + 1 -> Listing']
  BY <1>1, <1>2, <1>5 DEF Matching, n
<1> HIDE DEF g
<1>7. \A l, m \in 1..n + 1 : g[l] = g[m] => l = m
  <2>1. \A l, m \in 1..n : f[l] = f[m] => l = m
    BY <1>1 DEF Matching, n
  <2>2. \A m \in 1..n : g[m] \in Listing /\ g[m] = f[m]
    BY <1>6
  <2>3. g[n + 1] \notin Listing
    BY <1>5, <1>6
  <2> QED BY <1>2, <2>1, <2>2, <2>3
<1>8. \A j \in Listing' : \E m \in 1..n + 1 : g[m] = j
  BY <1>1, <1>2, <1>5, <1>6 DEF Matching, n
<1>9. \A m \in 1..n + 1 : rcpts'[m] = rcpt'[g[m]]
  BY <1>1, <1>2, <1>4, <1>5, <1>6 DEF Matching, n
<1> QED BY <1>4, <1>6, <1>7, <1>8, <1>9 DEF Matching

\* Every other step lists nothing.
LEMMA StepMatching == ASSUME RInv, [Next]_vars PROVE \E f : Matching(f)'
<1> USE DEF RInv, IInv
<1>1. PICK f : Matching(f)
  OBVIOUS
<1>2. CASE \E k \in Pos : AppendReceipt(k)
  BY <1>2, MatchingGrows
<1>3. CASE Main \/ UNCHANGED vars
  <2>1. UNCHANGED <<rcpt, rcpts>>
    BY <1>3 DEF Main, Handle, Spawn, Wait, vars, share
  <2>2. \A k \in Pos : pc'[k] \in {"return", "done"} <=> pc[k] \in {"return", "done"}
    <3>1. CASE Spawn
      BY <3>1, Positions DEF Spawn, Types, Counted
    <3>2. CASE Handle \/ Wait \/ UNCHANGED vars
      BY <3>2 DEF Handle, Wait, vars
    <3> QED BY <1>3, <3>1, <3>2 DEF Main
  <2>3. Listing' = Listing
    BY <2>1, <2>2 DEF Listing
  <2> QED BY <1>1, <2>1, <2>3, MatchingStays
<1>4. ASSUME NEW k \in Pos, Goroutine(k), ~AppendReceipt(k) PROVE \E h : Matching(h)'
  <2>1. UNCHANGED rcpts
    BY <1>4 DEF Goroutine, Run, HandlerReturns, HandlerPanics, LogReceipt, Lock, SetError, Done, share
  <2>2. \A j \in Pos \ {k} : pc'[j] = pc[j] /\ rcpt'[j] = rcpt[j]
    BY <1>4 DEF Goroutine, Run, HandlerReturns, HandlerPanics, LogReceipt, Lock, SetError, Done,
                Issue, Types
  <2>3. \/ pc[k] \notin {"return", "done"} /\ pc'[k] \notin {"return", "done"}
        \/ pc[k] = "error" /\ pc'[k] = "return" /\ rcpt'[k] = rcpt[k]
        \/ pc[k] = "return" /\ pc'[k] = "done" /\ rcpt'[k] = rcpt[k]
    <3>1. CASE Run(k) \/ HandlerReturns(k) \/ LogReceipt(k)
      BY <3>1 DEF Run, HandlerReturns, LogReceipt, Go, Issue, Types
    <3>2. CASE HandlerPanics(k) \/ Lock(k) \/ SetError(k) \/ Done(k)
      BY <3>2 DEF HandlerPanics, Lock, SetError, Done, Go, Types
    <3> QED BY <1>4, <3>1, <3>2 DEF Goroutine
  <2>4. pc[k] = "error" => rcpt[k] = NoReceipt
    BY DEF InHand
  <2>5. Listing' = Listing /\ \A j \in Listing : rcpt'[j] = rcpt[j]
    BY <2>2, <2>3, <2>4 DEF Listing
  <2> QED BY <1>1, <2>1, <2>5, MatchingStays
<1> QED BY <1>2, <1>3, <1>4 DEF Next

\* A report made when every goroutine has listed its receipt counts the batch.
LEMMA ReportCounts ==
    ASSUME RInv, rerr = "nil", \A k \in Pos : pc[k] = "done", NEW i \in Invocation
    PROVE  LET keys == Report(rcpts).keys
           IN  Cardinality({n \in DOMAIN keys : keys[n] = i}) = Cardinality({k \in Pos : Batch[k] = i})
<1> USE DEF RInv, IInv
<1> DEFINE keys == Report(rcpts).keys
           A == {n \in DOMAIN keys : keys[n] = i}
           B == {k \in Pos : Batch[k] = i}
<1>1. PICK f : Matching(f)
  OBVIOUS
<1> DEFINE g == [k \in B |-> CHOOSE n \in 1..Len(rcpts) : f[n] = k]
<1>2. Listing = Pos
  BY DEF Listing, InHand
<1>3. DOMAIN keys = 1..Len(rcpts) /\ \A n \in 1..Len(rcpts) : keys[n] = rcpts[n].ran
  BY DEF Report, Types
<1>4. \A n \in 1..Len(rcpts) : f[n] \in Pos /\ keys[n] = Batch[f[n]]
  BY <1>1, <1>2, <1>3 DEF Matching, Listing, InHand
<1> HIDE DEF keys
<1>5. \A k \in B : g[k] \in 1..Len(rcpts) /\ f[g[k]] = k
  BY <1>1, <1>2 DEF Matching
<1>6. g \in [B -> A]
  <2>1. \A k \in B : g[k] \in A
    BY <1>3, <1>4, <1>5
  <2> HIDE DEF A, B
  <2> QED BY <2>1
<1>7. \A k, l \in B : g[k] = g[l] => k = l
  BY <1>5
<1>8. \A n \in A : f[n] \in B /\ g[f[n]] = n
  BY <1>1, <1>3, <1>4, <1>5 DEF Matching
<1> HIDE DEF g, A
<1>9. g \in Bijection(B, A)
  BY <1>6, <1>7, <1>8, Fun_IsBij
<1>10. IsFiniteSet(B)
  BY Positions, FS_Subset
<1> HIDE DEF B
<1> QED BY <1>9, <1>10, FS_Bijection DEF ExistsBijection, A, B, keys

\* The answer is a report when no goroutine has left an error, and stays.
LEMMA StepWhole == ASSUME RInv, [Next]_vars PROVE WholeOrNothing'
<1> USE DEF RInv, IInv
<1>1. CASE Wait /\ rerr = "nil"
  <2>1. \A k \in Pos : pc[k] = "done"
    <3>1. Active = {}
      BY <1>1, ActiveIsFinite, FS_EmptySet DEF Wait, Counted
    <3>2. \A k \in Pos : pc[k] # "idle"
      BY <1>1, Positions DEF Wait, Types, Counted
    <3> QED BY <3>1, <3>2 DEF Active
  <2>2. \A k \in Pos : rcpt[k] # NoReceipt
    BY <1>1, <2>1 DEF InHand
  <2>3. answer'.report = Report(rcpts) /\ UNCHANGED rcpt
    BY <1>1 DEF Wait, Message
  <2>4. \A i \in Invocation :
           Cardinality({n \in DOMAIN Report(rcpts).keys : Report(rcpts).keys[n] = i})
               = Cardinality({k \in Pos : Batch[k] = i})
    BY <1>1, <2>1, ReportCounts
  <2> QED BY <2>2, <2>3, <2>4 DEF WholeOrNothing
<1>2. CASE answer.is = "message"
  <2>1. phase \notin {"received", "spawning"}
    BY <1>2 DEF Phases, NoAnswer
  <2>2. ~Main /\ \A k \in Pos : ~Goroutine(k)
    <3>1. \A k \in Pos : phase = "crashed" \/ pc[k] \in {"idle", "done"}
      BY <2>1 DEF Phases, Types
    <3> QED BY <2>1, <3>1 DEF Main, Handle, Spawn, Wait, Goroutine, Run, HandlerReturns, HandlerPanics,
               LogReceipt, Lock, AppendReceipt, SetError, Done, Go
  <2>3. UNCHANGED <<answer, rcpt>>
    BY <2>2 DEF Next, vars, main
  <2> QED BY <2>3 DEF WholeOrNothing
<1>3. CASE answer.is # "message" /\ ~(Wait /\ rerr = "nil")
  <2>1. \A x : Status(x).is = "status" /\ Error(x).is = "error"
    BY DEF Status, Error
  <2>2. answer'.is # "message"
    <3>1. CASE Main \/ UNCHANGED vars
      <4>1. CASE Handle
        BY <1>3, <4>1, HandleAnswers
      <4>2. CASE Wait
        BY <1>3, <2>1, <4>2 DEF Wait
      <4>3. CASE Spawn \/ UNCHANGED vars
        BY <1>3, <4>3 DEF Spawn, vars, main
      <4> QED BY <3>1, <4>1, <4>2, <4>3 DEF Main
    <3>2. ASSUME NEW k \in Pos, Goroutine(k) PROVE answer'.is # "message"
      BY <1>3, <2>1, <3>2 DEF Goroutine, Run, HandlerReturns, HandlerPanics, LogReceipt, Lock,
         AppendReceipt, SetError, Done, main
    <3> QED BY <3>1, <3>2 DEF Next
  <2> QED BY <2>2 DEF WholeOrNothing
<1> QED BY <1>1, <1>2, <1>3

\* An answer that is a report has a receipt of every run, and of every invocation as
\* many as the batch has runs of it (server.go 290-311, message.go 141-158).
THEOREM ReportsAreWhole == Spec => []WholeOrNothing
<1>1. RInv /\ [Next]_vars => RInv'
  BY StepIInv, StepMatching, StepWhole DEF RInv
<1>2. RInv => WholeOrNothing
  BY DEF RInv
<1> QED BY <1>1, <1>2, InitRInv, PTL DEF Spec
=============================================================================
