------------------------------ MODULE BlockSet ------------------------------
(***************************************************************************)
(* What a block store promises the goroutines that share it: a set that    *)
(* only grows.  A Put takes effect before it returns, and a Get sees what  *)
(* is stored.  An iteration lists what is stored only if nobody begins to  *)
(* put a new block between its opening and its end; otherwise blocks may   *)
(* be missing, errors among what it yields.                                *)
(***************************************************************************)
CONSTANTS Thread, Block,
          None       \* an error in a list

VARIABLES stored,   \* the blocks of the store
          putting,  \* the threads that put a block that was not there
          put,      \* the blocks whose Put has returned
          alone,    \* the threads whose last iterator no such thread has disturbed
          got       \* what each thread read last

vars == <<stored, putting, put, alone, got>>

Nothing      == [is |-> "nothing"]
Found(b, ok) == [is |-> "block", block |-> b, ok |-> ok]
Listed(bs)   == [is |-> "list", blocks |-> bs]

Init ==
    /\ stored = {} /\ putting = {} /\ put = {} /\ alone = {}
    /\ got = [t \in Thread |-> Nothing]

Begin(t) ==
    /\ putting' = putting \cup {t} /\ alone' = {}
    /\ UNCHANGED <<stored, put, got>>

Put(b) ==
    /\ putting # {}
    /\ stored' = stored \cup {b}
    /\ UNCHANGED <<putting, put, alone, got>>

End(t) ==
    /\ putting' = putting \ {t}
    /\ UNCHANGED <<stored, put, alone, got>>

Return(b) ==
    /\ b \in stored /\ put' = put \cup {b}
    /\ UNCHANGED <<stored, putting, alone, got>>

Get(t, b) ==
    /\ putting = {}
    /\ got' = [got EXCEPT ![t] = Found(b, b \in stored)]
    /\ UNCHANGED <<stored, putting, put, alone>>

Open(t) ==
    /\ putting = {}
    /\ alone' = alone \cup {t}
    /\ UNCHANGED <<stored, putting, put, got>>

List(t) ==
    /\ \E bs \in SUBSET (stored \cup {None}) :
          /\ t \in alone => bs = stored
          /\ got' = [got EXCEPT ![t] = Listed(bs)]
    /\ UNCHANGED <<stored, putting, put, alone>>

Next == \/ \E b \in Block : Put(b) \/ Return(b)
        \/ \E t \in Thread : \/ Begin(t) \/ End(t) \/ Open(t) \/ List(t)
                             \/ \E b \in Block : Get(t, b)

Spec == Init /\ [][Next]_vars
=============================================================================
