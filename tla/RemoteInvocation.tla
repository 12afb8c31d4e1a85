-------------------------- MODULE RemoteInvocation --------------------------
(***************************************************************************)
(* What a client may rely on when it executes an invocation on a remote    *)
(* service, whatever the transport does in between: the service runs its   *)
(* handler at most once each time the transport sends a request again by   *)
(* itself, and only with all the delegations the invocation rests on; a    *)
(* result is the result of the last of these runs.  A failed Execute says  *)
(* nothing of the handler, which may still run.                            *)
(***************************************************************************)
EXTENDS Naturals, Sequences

CONSTANTS Client,   \* one call of Execute each
          Link,     \* delegations
          Block,    \* everything a message is made of
          Root,     \* the invocation of a client
          Proofs,   \* the proofs a delegation lists
          Try       \* how often a request may be sent again

VARIABLES outcome,  \* what Execute returned
          try,      \* how often a request was sent again
          view      \* what the handler ran with on each try, {} if it has not run

vars == <<outcome, try, view>>

\* The blocks include the invocation, its proofs, their proofs and so on.
Whole(c, blocks) ==
    \E dlgs \in SUBSET (blocks \cap Link) :
        /\ Root[c] \in dlgs
        /\ \A l \in dlgs : \A k \in DOMAIN Proofs[l] : Proofs[l][k] \in dlgs

Init == /\ outcome = [c \in Client |-> "pending"]
        /\ try = [c \in Client |-> 0]
        /\ view = [c \in Client |-> [t \in Try |-> {}]]

Run(c, t) ==
    /\ t <= try[c] /\ view[c][t] = {}
    /\ view'[c][t] \subseteq Block /\ Whole(c, view'[c][t])
    /\ view' = [view EXCEPT ![c][t] = view'[c][t]]
    /\ UNCHANGED <<outcome, try>>

Resend(c) ==
    /\ outcome[c] = "pending" /\ try[c] + 1 \in Try
    /\ try' = [try EXCEPT ![c] = @ + 1]
    /\ UNCHANGED <<outcome, view>>

Succeed(c) ==
    /\ outcome[c] = "pending" /\ view[c][try[c]] # {}
    /\ outcome' = [outcome EXCEPT ![c] = "done"]
    /\ UNCHANGED <<try, view>>

Fail(c) ==
    /\ outcome[c] = "pending"
    /\ outcome' = [outcome EXCEPT ![c] = "failed"]
    /\ UNCHANGED <<try, view>>

Next ==
    \/ \E c \in Client : Resend(c) \/ Succeed(c) \/ Fail(c)
    \/ \E c \in Client, t \in Try : Run(c, t)

Spec == Init /\ [][Next]_vars
=============================================================================
