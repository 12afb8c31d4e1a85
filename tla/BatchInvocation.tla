-------------------------- MODULE BatchInvocation --------------------------
(***************************************************************************)
(* What a batch of invocations promises whoever sends it, whatever order   *)
(* they are run in: there is one reply; it names for every invocation of   *)
(* the batch the outcome of one of its runs, or it is a failure; and once  *)
(* it was given nothing runs any more.                                     *)
(***************************************************************************)
EXTENDS Naturals, Functions

CONSTANTS Batch,      \* the invocations, in the order they were sent
          Outcomes    \* what a run can come to

VARIABLES outcome,    \* what the run at each position came to
          reply       \* Pending, Failed, or the outcomes reported

Unsettled == "unsettled"
Pending   == [is |-> "pending"]
Failed    == [is |-> "failed"]
Report(f) == [is |-> "report", outcomes |-> f]

Init == /\ outcome = [k \in DOMAIN Batch |-> Unsettled]
        /\ reply = Pending

Settle(k) ==
    /\ reply = Pending /\ outcome[k] = Unsettled
    /\ \E o \in Outcomes : outcome' = [outcome EXCEPT ![k] = o]
    /\ UNCHANGED reply

\* A report is of the runs of this batch: an outcome for every invocation.
Reply ==
    /\ reply = Pending
    /\ \A k \in DOMAIN Batch : outcome[k] # Unsettled
    /\ reply'.is = "report"
    /\ DOMAIN reply'.outcomes = Range(Batch)
    /\ \A k \in DOMAIN Batch :
          \E j \in DOMAIN Batch : Batch[j] = Batch[k] /\ reply'.outcomes[Batch[k]] = outcome[j]
    /\ UNCHANGED outcome

Fail ==
    /\ reply = Pending
    /\ reply' = Failed
    /\ UNCHANGED outcome

Next == (\E k \in DOMAIN Batch : Settle(k)) \/ Reply \/ Fail

Spec == Init /\ [][Next]_<<outcome, reply>>
=============================================================================
