--------------------------- MODULE ServerExecute ---------------------------
(***************************************************************************)
(* The server's handling of one request (server/server.go): Handle accepts *)
(* and decodes it, Execute runs each invocation of the message in a        *)
(* goroutine of its own, Run calls the handler and issues a receipt, and   *)
(* the receipts become the report of the answer (core/message/message.go). *)
(*                                                                         *)
(* The goroutines share the slice of receipts, under a lock, and the error *)
(* of the batch, without one.  Handlers, receipt loggers and what they     *)
(* return are the environment.                                             *)
(***************************************************************************)
EXTENDS Naturals, SequencesExt

CONSTANTS Invocation,    \* links of invocations
          Batch,         \* the invocations of the message, in order
          Single,        \* those with exactly one capability
          Service,       \* those the service has a handler for
          Requests,      \* the requests the message may come in
          ContentType,   \* the one media type of the codec
          HandlerResult  \* what a handler may come to

VARIABLES phase,     \* of the goroutine that serves the request
          request,   \* never changed
          next,      \* the invocation to be started next
          wg,        \* the wait group
          pc,        \* of the goroutine of each invocation
          rcpt,      \* the receipt, or the error, a goroutine has in hand
          lock,      \* the goroutine that holds the lock, 0 if none does
          seen,      \* the receipts a goroutine is appending to
          rcpts,     \* the receipts of the batch
          rerr,      \* the error of the batch
          answer     \* the answer to the request

main  == <<phase, next, answer>>
share == <<lock, seen, rcpts, rerr>>
vars  == <<main, request, wg, pc, rcpt, share>>

Pos == DOMAIN Batch

ASSUME BatchAssumption ==
    /\ Batch \in Seq(Invocation)
    /\ Single \subseteq Invocation /\ Service \subseteq Invocation
    /\ HandlerResult \subseteq {"ok", "failure", "error", "unencodable", "canceled", "panic"}
    /\ \A r \in Requests : /\ r.blocks \subseteq Invocation
                           /\ r.wellFormed \in BOOLEAN

----------------------------------------------------------------------------
(* Receipts.  The last three outcomes are a HandlerExecutionError, told    *)
(* apart by their cause.                                                   *)

Outcomes == {"ok", "failure", "InvocationCapabilityError", "HandlerNotFoundError",
             "handler error", "encoding error", "logger error"}

Errors == {"canceled", "torn"}

Receipt(inv, out) == [ran |-> inv, out |-> out]

NoReceipt == Receipt("", "")

\* Of several receipts for one invocation the report keeps the first.
Report(rs) ==
    [keys   |-> [k \in DOMAIN rs |-> rs[k].ran],
     values |-> [i \in {r.ran : r \in Range(rs)} |->
                    LET first == CHOOSE k \in DOMAIN rs :
                                    /\ rs[k].ran = i
                                    /\ \A j \in 1..k - 1 : rs[j].ran # i
                    IN  rs[first].out]]

NoAnswer        == [is |-> "none"]
Status(code)    == [is |-> "status", status |-> code]
Error(err)      == [is |-> "error", error |-> err]
Message(report) == [is |-> "message", report |-> report]

----------------------------------------------------------------------------
(* Handle and Execute, up to the first goroutine.                          *)

UnsupportedMediaType(r) == r.contentType # ContentType

\* No Accept header is as good as any type; a list must name the codec's own.
NotAcceptable(r) == r.accept \notin {{}, {"*/*"}} /\ ContentType \notin r.accept

Accepted(r) == ~UnsupportedMediaType(r) /\ ~NotAcceptable(r)

Refuse(ans) == phase' = "answered" /\ answer' = ans /\ UNCHANGED next

Handle ==
    /\ phase = "received"
    /\ \/ UnsupportedMediaType(request) /\ Refuse(Status(415))
       \/ /\ ~UnsupportedMediaType(request) /\ NotAcceptable(request)
          /\ Refuse(Status(406))
       \/ Accepted(request) /\ ~request.wellFormed /\ Refuse(Status(400))
       \/ /\ Accepted(request) /\ request.wellFormed
          /\ IF Range(Batch) \subseteq request.blocks
             THEN phase' = "spawning" /\ UNCHANGED <<next, answer>>
             ELSE Refuse(Error("missing block"))
    /\ UNCHANGED <<request, wg, pc, rcpt, share>>

Spawn ==
    /\ phase = "spawning" /\ next \in Pos
    /\ wg' = wg + 1
    /\ pc' = [pc EXCEPT ![next] = "run"]
    /\ next' = next + 1
    /\ UNCHANGED <<phase, answer, request, rcpt, share>>

\* Mutant: the first error is the answer at once.
WaitFailsFast ==
    /\ phase = "spawning" /\ next \notin Pos /\ (wg = 0 \/ rerr # "nil")
    /\ phase' = "answered"
    /\ answer' = IF rerr # "nil" THEN Error(rerr) ELSE Message(Report(rcpts))
    /\ UNCHANGED <<next, request, wg, pc, rcpt, share>>

\* Mutant: a receipt of every run is waited for.
WaitForReceipts ==
    /\ phase = "spawning" /\ Len(rcpts) = Len(Batch)
    /\ phase' = "answered"
    /\ answer' = Message(Report(rcpts))
    /\ UNCHANGED <<next, request, wg, pc, rcpt, share>>

\* Wait, then the error of any run, or else the receipts, are the answer.
Wait ==
    /\ phase = "spawning" /\ next \notin Pos /\ wg = 0
    /\ phase' = "answered"
    /\ answer' = IF rerr # "nil" THEN Error(rerr) ELSE Message(Report(rcpts))
    /\ UNCHANGED <<next, request, wg, pc, rcpt, share>>

----------------------------------------------------------------------------
(* The goroutine of one invocation: Run, then its place among the receipts. *)

Go(k, at) == phase # "crashed" /\ pc[k] = at

Issue(k, out) ==
    /\ rcpt' = [rcpt EXCEPT ![k] = Receipt(Batch[k], out)]
    /\ pc' = [pc EXCEPT ![k] = "issued"]

\* Run, up to the handler.
Run(k) ==
    /\ Go(k, "run")
    /\ CASE Batch[k] \notin Single -> Issue(k, "InvocationCapabilityError")
         [] Batch[k] \in Single \ Service -> Issue(k, "HandlerNotFoundError")
         [] OTHER -> pc' = [pc EXCEPT ![k] = "handle"] /\ UNCHANGED rcpt
    /\ UNCHANGED <<main, request, wg, share>>

\* The handler returns: a result goes to the receipt logger, and an error is
\* reported instead, unless it is the cancellation of a context.
HandlerReturns(k) ==
    /\ Go(k, "handle")
    /\ \/ \E r \in HandlerResult \cap {"ok", "failure"} :
             /\ rcpt' = [rcpt EXCEPT ![k] = Receipt(Batch[k], r)]
             /\ pc' = [pc EXCEPT ![k] = "log"]
       \/ "error" \in HandlerResult /\ Issue(k, "handler error")
       \/ "unencodable" \in HandlerResult /\ Issue(k, "encoding error")
       \/ /\ "canceled" \in HandlerResult
          /\ pc' = [pc EXCEPT ![k] = "error"] /\ UNCHANGED rcpt
    /\ UNCHANGED <<main, request, wg, share>>

\* Nothing recovers a panic of a handler: the process of the server ends.
HandlerPanics(k) ==
    /\ Go(k, "handle")
    /\ "panic" \in HandlerResult
    /\ phase' = "crashed" /\ answer' = Error("connection lost") /\ UNCHANGED next
    /\ UNCHANGED <<request, wg, pc, rcpt, share>>

\* The receipt logger; when it fails its error is reported instead.
LogReceipt(k) ==
    /\ Go(k, "log")
    /\ \/ pc' = [pc EXCEPT ![k] = "issued"] /\ UNCHANGED rcpt
       \/ Issue(k, "logger error")
    /\ UNCHANGED <<main, request, wg, share>>

\* Mutant: the receipts are not locked.
LockNever(k) ==
    /\ Go(k, "issued")
    /\ lock' = k
    /\ seen' = [seen EXCEPT ![k] = rcpts]
    /\ pc' = [pc EXCEPT ![k] = "append"]
    /\ UNCHANGED <<main, request, wg, rcpt, rcpts, rerr>>

\* Lock, and the first half of append, which reads the slice.
Lock(k) ==
    /\ Go(k, "issued")
    /\ lock = 0
    /\ lock' = k
    /\ seen' = [seen EXCEPT ![k] = rcpts]
    /\ pc' = [pc EXCEPT ![k] = "append"]
    /\ UNCHANGED <<main, request, wg, rcpt, rcpts, rerr>>

\* The other half, Unlock.
AppendReceipt(k) ==
    /\ Go(k, "append")
    /\ rcpts' = Append(seen[k], rcpt[k])
    /\ seen' = [seen EXCEPT ![k] = <<>>]
    /\ lock' = 0
    /\ pc' = [pc EXCEPT ![k] = "return"]
    /\ UNCHANGED <<main, request, wg, rcpt, rerr>>

\* The error is assigned without the lock: where another one was, or is being,
\* assigned, an interface of both may be left behind.
SetError(k) ==
    /\ Go(k, "error")
    /\ rerr' \in (IF rerr = "nil" THEN {"canceled"} ELSE Errors)
    /\ pc' = [pc EXCEPT ![k] = "return"]
    /\ UNCHANGED <<main, request, wg, rcpt, lock, seen, rcpts>>

\* Mutant: a run that failed does not leave the wait group.
DoneUnlessError(k) ==
    /\ Go(k, "return")
    /\ wg' = IF rcpt[k] = NoReceipt THEN wg ELSE wg - 1
    /\ pc' = [pc EXCEPT ![k] = "done"]
    /\ UNCHANGED <<main, request, rcpt, share>>

Done(k) ==
    /\ Go(k, "return")
    /\ wg' = wg - 1
    /\ pc' = [pc EXCEPT ![k] = "done"]
    /\ UNCHANGED <<main, request, rcpt, share>>

----------------------------------------------------------------------------
Init ==
    /\ phase = "received"
    /\ request \in Requests
    /\ next = 1
    /\ wg = 0
    /\ pc = [k \in Pos |-> "idle"]
    /\ rcpt = [k \in Pos |-> NoReceipt]
    /\ lock = 0
    /\ seen = [k \in Pos |-> <<>>]
    /\ rcpts = <<>>
    /\ rerr = "nil"
    /\ answer = NoAnswer

Main == Handle \/ Spawn \/ Wait

Goroutine(k) ==
    \/ Run(k) \/ HandlerReturns(k) \/ HandlerPanics(k) \/ LogReceipt(k)
    \/ Lock(k) \/ AppendReceipt(k) \/ SetError(k) \/ Done(k)

Next == Main \/ \E k \in Pos : Goroutine(k)

Spec == Init /\ [][Next]_vars

\* The scheduler runs what can run, and handlers and loggers return.
FairSpec == Spec /\ WF_vars(Main) /\ \A k \in Pos : WF_vars(Goroutine(k))
----------------------------------------------------------------------------
(* Properties.                                                             *)

\* The types of the state; the wait group counts the goroutines that were started
\* and have not returned (server.go 291-305).
TypeOK ==
    /\ phase \in {"received", "spawning", "answered", "crashed"}
    /\ request \in Requests
    /\ next \in 1..Len(Batch) + 1
    /\ pc \in [Pos -> {"idle", "run", "handle", "log", "issued", "append", "error",
                       "return", "done"}]
    /\ rcpt \in [Pos -> [ran : Invocation, out : Outcomes] \cup {NoReceipt}]
    /\ lock \in Pos \cup {0}
    /\ rcpts \in Seq([ran : Invocation, out : Outcomes])
    /\ seen \in [Pos -> Seq([ran : Invocation, out : Outcomes])]
    /\ rerr \in Errors \cup {"nil"}
    /\ answer.is \in {"none", "status", "error", "message"}
    /\ wg = Cardinality({k \in Pos : pc[k] \notin {"idle", "done"}})

\* What a run came to, once its receipt will not be replaced any more.
Outcome(k) ==
    CASE pc[k] \in {"issued", "append"} -> rcpt[k].out
      [] pc[k] = "error"                -> "canceled"
      [] pc[k] \in {"return", "done"}   -> IF rcpt[k] = NoReceipt THEN "canceled" ELSE rcpt[k].out
      [] OTHER                          -> "unsettled"

\* What the client's Execute returns; an answer that is no message cannot be decoded.
Returned ==
    CASE answer.is = "none"    -> [is |-> "pending"]
      [] answer.is = "message" -> [is |-> "report", outcomes |-> answer.report.values]
      [] OTHER                 -> [is |-> "failed"]

Call == INSTANCE BatchInvocation
          WITH outcome <- [k \in Pos |-> Outcome(k)], reply <- Returned,
               Outcomes <- Outcomes \cup {"canceled"}

\* Whatever the goroutines interleave, the answer is a failure or has for every
\* invocation the outcome of one of its own runs, and nothing runs once it is
\* given (server.go 271-312, message.go 141-158).
ImplementsBatchInvocation == Call!Spec

\* The assignments to the error race with each other, and still a request fails
\* whenever a run was canceled, and no answer reports a part of the batch: it
\* carries exactly one receipt per invocation sent (server.go 290-311).
WholeOrNothing ==
    answer.is = "message" =>
        /\ \A k \in Pos : rcpt[k] # NoReceipt
        /\ \A i \in Invocation :
              Cardinality({n \in DOMAIN answer.report.keys : answer.report.keys[n] = i})
                  = Cardinality({k \in Pos : Batch[k] = i})

\* Every request is answered, unless the process ends (server.go 306).
RequestAnswered == <>(answer.is # "none")

\* "Returning an error from this function will cause the server to fail the
\* request and send an error response back to the client" (server.go 90-91).
LoggerFailureFailsRequest ==
    answer.is = "message" => \A k \in Pos : rcpt[k].out # "logger error"
=============================================================================
