------------------------------ MODULE Exchange ------------------------------
(***************************************************************************)
(* One call of Execute over HTTP POST (client/connection.go,               *)
(* transport/http/channel.go, transport/car, core/car/car.go).  Request    *)
(* and response are CARs, each written block by block into a pipe by a     *)
(* goroutine of its own.  net/http copies the request from its pipe to the *)
(* connection, and the HTTP adapter of the README (README.md:159) the      *)
(* response.  At the other end the blocks are read until the body ends;    *)
(* how it ended, and that the root is there, is all a reader can tell.     *)
(*                                                                         *)
(* The environment loses the connection and cancels the context; a proxy   *)
(* may refuse the request, or end a body cleanly that it lost the rest of. *)
(* A body cannot be read twice, so net/http does not send it again.        *)
(***************************************************************************)
EXTENDS Naturals, SequencesExt

CONSTANTS Block,
          Blocks,     \* of each message but its root, in the order of its store
          Root,       \* the root of each message
          Buffer,     \* how many blocks a connection holds
          MaxFaults   \* bound on faults

VARIABLES client,    \* progress of Execute
          server,    \* progress of the goroutine that serves the request
          enc,       \* the goroutines that encode the messages
          copier,    \* what copies a pipe to the connection
          written,   \* number of blocks copied
          body,      \* those of them that arrive, and how the body ends after them
          read,      \* number of blocks the other side read
          lost,      \* whether no more can be copied
          status,    \* of the response, 0 before there is one
          view,      \* the blocks the handlers ran with, {} if they did not
          faults     \* number of faults so far

streams == <<enc, copier, written, body, read, lost>>
vars == <<client, server, streams, status, view, faults>>

Direction == {"request", "response"}

ASSUME MessageAssumption ==
    /\ Blocks \in [Direction -> Seq(Block)]
    /\ Root \in [Direction -> Block]
    /\ Buffer \in Nat \ {0} /\ MaxFaults \in Nat

\* A block store holds a block once.
ASSUME StoreAssumption ==
    \A d \in Direction : IsInjective(Blocks[d]) /\ Root[d] \notin Range(Blocks[d])

----------------------------------------------------------------------------
(* Bodies.                                                                 *)

\* Mutant: the root comes first.
SectionsRootFirst(d) == <<Root[d]>> \o Blocks[d]

\* Build: the root is put into the store after everything else.
Sections(d) == Append(Blocks[d], Root[d])

Received(d) == {Sections(d)[k] : k \in 1..read[d]}

\* Mutant: an error does not stop the iterator.
AtEndOfFile(d) == read[d] = body[d].blocks /\ body[d].end = "clean"

\* The iterator over the blocks stops at the end of the body, and at an error.
AtEnd(d) == read[d] = body[d].blocks /\ body[d].end # "none"

\* Mutant: the root is not looked for.
DecodesWithoutRoot(d) == body[d].end = "clean"

\* However few blocks there are before it, a clean end of the body is the end of
\* the CAR.  The message needs its root.
Decodes(d) == body[d].end = "clean" /\ Root[d] \in Received(d)

Bodies == [blocks : Nat, end : {"none", "clean", "broken"}]

\* What may arrive once the connection is lost.
Remainders(d) ==
    IF lost[d] THEN {body[d]}
    ELSE {b \in [blocks : read[d]..body[d].blocks, end : {"clean", "broken"}] \cup {body[d]} :
             b.end # "none"}

\* The connection is lost in the directions D.
Lose(D) ==
    /\ \E req \in Remainders("request"), res \in Remainders("response") :
          body' = [request  |-> IF "request" \in D THEN req ELSE body["request"],
                   response |-> IF "response" \in D THEN res ELSE body["response"]]
    /\ lost' = [d \in Direction |-> d \in D \/ lost[d]]
    /\ UNCHANGED <<enc, copier, written, read>>

\* Read the next block.
Read(d) ==
    /\ read[d] < body[d].blocks
    /\ read' = [read EXCEPT ![d] = @ + 1]
    /\ UNCHANGED <<enc, copier, written, body, lost>>

----------------------------------------------------------------------------
(* Encoding and copying.                                                   *)

Start(d) == /\ enc' = [enc EXCEPT ![d] = "writing"]
            /\ UNCHANGED <<written, body, read, lost>>

\* Mutant: the body given to net/http cannot be closed.
ClosedNever(d) == FALSE

\* net/http closes the body of a request when it is done with it, the adapter
\* does not close that of the response.
Closed(d) == d = "request" /\ copier[d] = "ended"

\* A write into the pipe returns once the copier took the block.
Write(d) ==
    /\ enc[d] = "writing" /\ copier[d] = "copying" /\ ~lost[d]
    /\ written[d] < Len(Sections(d)) /\ written[d] - read[d] < Buffer
    /\ written' = [written EXCEPT ![d] = @ + 1]
    /\ body' = [body EXCEPT ![d].blocks = @ + 1]
    /\ UNCHANGED <<enc, copier, read, lost>>

\* The goroutine closes the pipe after the last block, or when a write fails.
EncodeEnds(d) ==
    /\ enc[d] = "writing"
    /\ written[d] = Len(Sections(d)) \/ Closed(d)
    /\ enc' = [enc EXCEPT ![d] = "ended"]
    /\ UNCHANGED <<copier, written, body, read, lost>>

\* Mutant: an empty pipe is taken for the end of it.
CopyEndsEarly(d) ==
    /\ enc[d] # "idle" /\ copier[d] = "copying" /\ ~lost[d]
    /\ copier' = [copier EXCEPT ![d] = "ended"]
    /\ body' = [body EXCEPT ![d].end = "clean"]
    /\ UNCHANGED <<enc, written, read, lost>>

CopyEnds(d) ==
    /\ enc[d] = "ended" /\ copier[d] = "copying" /\ ~lost[d]
    /\ copier' = [copier EXCEPT ![d] = "ended"]
    /\ body' = [body EXCEPT ![d].end = "clean"]
    /\ UNCHANGED <<enc, written, read, lost>>

CopyFails(d) ==
    /\ copier[d] = "copying" /\ lost[d]
    /\ copier' = [copier EXCEPT ![d] = "ended"]
    /\ UNCHANGED <<enc, written, body, read, lost>>

Stream(d) ==
    /\ Write(d) \/ EncodeEnds(d) \/ CopyEnds(d) \/ CopyFails(d)
    /\ UNCHANGED <<client, server, status, view, faults>>

----------------------------------------------------------------------------
(* The client.                                                             *)

Encode ==
    /\ client = "ready" /\ client' = "sending"
    /\ Start("request") /\ UNCHANGED copier

\* http.NewRequestWithContext refuses the method or the context: nothing reads,
\* and nothing closes, the body.
CreateFails ==
    /\ client = "sending" /\ copier["request"] = "idle"
    /\ client' = "failed"
    /\ UNCHANGED streams

Do ==
    /\ client = "sending" /\ copier["request"] = "idle"
    /\ copier' = [copier EXCEPT !["request"] = "copying"]
    /\ UNCHANGED <<client, enc, written, body, read, lost>>

\* The response is there before the body of the request has been sent if the
\* request was refused.
Respond ==
    /\ client = "sending" /\ status # 0
    /\ client' = IF status = 200 THEN "decoding" ELSE "failed"
    /\ UNCHANGED streams

DoFails ==
    /\ client = "sending" /\ \E d \in Direction : lost[d]
    /\ client' = "failed"
    /\ UNCHANGED streams

ReadResponse == client = "decoding" /\ Read("response") /\ UNCHANGED client

DecodeResponse ==
    /\ client = "decoding" /\ AtEnd("response")
    /\ client' = IF Decodes("response") THEN "done" ELSE "failed"
    /\ UNCHANGED streams

\* Execute closes the body of the response, or net/http gives the request up; the
\* connection is not kept if it still carries something.
Release ==
    /\ client = "failed" /\ copier["request"] # "idle"
    /\ \E d \in Direction : ~lost[d]
    /\ Lose(Direction)
    /\ UNCHANGED client

ClientStep ==
    /\ \/ Encode \/ CreateFails \/ Do \/ Respond \/ DoFails
       \/ ReadResponse \/ DecodeResponse \/ Release
    /\ UNCHANGED <<server, status, view, faults>>

----------------------------------------------------------------------------
(* The server.                                                             *)

\* The status of an answer, if it arrives.
Answer(s) == server' = "ended" /\ status' = IF lost["response"] THEN 0 ELSE s

Serve ==
    /\ server = "idle" /\ copier["request"] # "idle"
    /\ ~lost["request"]
    /\ server' = "decoding"
    /\ UNCHANGED <<streams, status, view>>

\* Accept, or a proxy, refuses the request before its body is read.
Refuse ==
    /\ server = "decoding" /\ read["request"] = 0
    /\ Answer(415)
    /\ UNCHANGED <<streams, view>>

ReadRequest ==
    /\ server = "decoding" /\ Read("request")
    /\ UNCHANGED <<server, status, view>>

DecodeRequest ==
    /\ server = "decoding" /\ AtEnd("request")
    /\ IF Decodes("request")
       THEN server' = "executing" /\ UNCHANGED status
       ELSE Answer(400)
    /\ UNCHANGED <<streams, view>>

Run ==
    /\ server = "executing" /\ view = {}
    /\ view' = Received("request")
    /\ UNCHANGED <<server, streams, status>>

Reply ==
    /\ server = "executing" /\ view # {}
    /\ Answer(200)
    /\ Start("response") /\ copier' = [copier EXCEPT !["response"] = "copying"]
    /\ UNCHANGED view

\* Execute fails: there is no response, and the adapter panics.
Panic ==
    /\ server = "executing"
    /\ server' = "panicked"
    /\ Lose(Direction)
    /\ UNCHANGED <<status, view>>

\* net/http stops reading the body of a request that was answered.
HangUp ==
    /\ server = "ended" /\ copier["request"] = "copying" /\ ~lost["request"]
    /\ Lose({"request"})
    /\ UNCHANGED <<server, status, view>>

ServerStep ==
    /\ \/ Serve \/ Refuse \/ ReadRequest \/ DecodeRequest
       \/ Run \/ Reply \/ Panic \/ HangUp
    /\ UNCHANGED <<client, faults>>

----------------------------------------------------------------------------
(* The environment.                                                        *)

Cut ==
    /\ copier["request"] # "idle"
    /\ \E d \in Direction : ~lost[d]
    /\ Lose(Direction)
    /\ UNCHANGED client

Cancel ==
    /\ client \in {"sending", "decoding"} /\ copier["request"] # "idle"
    /\ client' = "failed"
    /\ UNCHANGED streams

Fault ==
    /\ faults < MaxFaults /\ faults' = faults + 1
    /\ Cut \/ Cancel
    /\ UNCHANGED <<server, status, view>>

Init ==
    /\ client = "ready" /\ server = "idle"
    /\ enc = [d \in Direction |-> "idle"]
    /\ copier = [d \in Direction |-> "idle"]
    /\ written = [d \in Direction |-> 0]
    /\ body = [d \in Direction |-> [blocks |-> 0, end |-> "none"]]
    /\ read = [d \in Direction |-> 0]
    /\ lost = [d \in Direction |-> FALSE]
    /\ status = 0 /\ view = {} /\ faults = 0

Step == ClientStep \/ ServerStep \/ \E d \in Direction : Stream(d)

Next == Step \/ Fault

Spec == Init /\ [][Next]_vars

\* Goroutines and the connection make progress; handlers return.
FairSpec == Spec /\ WF_vars(Step)

----------------------------------------------------------------------------
(* Properties.                                                             *)

\* What arrives is the beginning of what was sent, what was read the beginning of
\* that, and no connection holds more than it can.
Streams(d) ==
    /\ read[d] <= body[d].blocks /\ body[d].blocks <= written[d]
    /\ written[d] <= Len(Sections(d)) /\ written[d] - read[d] <= Buffer
    /\ ~lost[d] => /\ body[d].blocks = written[d] /\ body[d].end # "broken"
                   /\ copier[d] = "ended" => enc[d] = "ended"
    /\ body[d].end = "clean" /\ ~lost[d] => written[d] = Len(Sections(d))

\* The type invariant of the pipes and connections of Encode and Request.
TypeOK ==
    /\ client \in {"ready", "sending", "decoding", "done", "failed"}
    /\ server \in {"idle", "decoding", "executing", "ended", "panicked"}
    /\ enc \in [Direction -> {"idle", "writing", "ended"}]
    /\ copier \in [Direction -> {"idle", "copying", "ended"}]
    /\ written \in [Direction -> Nat] /\ read \in [Direction -> Nat]
    /\ body \in [Direction -> Bodies]
    /\ lost \in [Direction -> BOOLEAN]
    /\ status \in {0, 200, 400, 415}
    /\ view \subseteq Block /\ faults \in 0..MaxFaults
    /\ \A d \in Direction : Streams(d)

\* Decode takes a body that stops short at the end of a block for a whole CAR.
\* Still, Execute returns no response that has lost a block on its way, and none
\* unless the handlers ran.
ResultComplete ==
    client = "done" => view # {} /\ Received("response") = Range(Sections("response"))

\* The handlers run at most once, and only with the whole message: the message is
\* an invocation of everything in it, and a request is never resent.
OneClient == {"c"}
Remote ==
    INSTANCE RemoteInvocation WITH
        Client  <- OneClient,
        Link    <- Range(Sections("request")),
        Root    <- [c \in OneClient |-> Root["request"]],
        Proofs  <- [l \in Range(Sections("request")) |->
                       IF l = Root["request"] THEN Blocks["request"] ELSE <<>>],
        Try     <- {0},
        outcome <- [c \in OneClient |-> IF client \in {"done", "failed"} THEN client ELSE "pending"],
        try     <- [c \in OneClient |-> 0],
        view    <- [c \in OneClient |-> [t \in {0} |-> view]]

\* Execute over HTTP (client/connection.go:97, server.Handle) keeps the promise
\* of RemoteInvocation.
ImplementsRemoteInvocation == Remote!Spec

\* What Execute may fail from: the connection or the context, the request, its
\* refusal, an error of the server.
Excused == \/ faults > 0 \/ copier["request"] = "idle"
           \/ status = 415 \/ server = "panicked"

\* Execute returns, whoever waits for whom to read or to close, and with a result
\* unless there is a reason.
ExecuteReturns == <>(client = "done" \/ (client = "failed" /\ Excused))

\* The goroutine that encodes the request ends once net/http has the request,
\* however little of it is read; that of the response does unless the connection
\* is lost or given up, since no one closes its pipe then.
EncodersEnd ==
    /\ copier["request"] # "idle" ~> enc["request"] = "ended"
    /\ enc["response"] = "writing" ~> enc["response"] = "ended" \/ faults > 0
=============================================================================
