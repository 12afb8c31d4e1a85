--------------------------- MODULE ExchangeProofs ---------------------------
(***************************************************************************)
(* Exchange implements RemoteInvocation, and a result is a whole response: *)
(* for all messages, connections and any number of faults.  A reader only  *)
(* knows that the body ended cleanly and that the root is there; since the *)
(* root is the last of different blocks, that is enough.                   *)
(***************************************************************************)
EXTENDS Exchange, TLAPS

----------------------------------------------------------------------------
(* Messages.                                                               *)

\* The sections of a message: other blocks, then its root.
LEMMA SectionsFacts ==
    ASSUME NEW d \in Direction
    PROVE  /\ Sections(d) \in Seq(Block) /\ Len(Sections(d)) = Len(Blocks[d]) + 1
           /\ Len(Blocks[d]) \in Nat /\ Len(Sections(d)) \in Nat \ {0}
           /\ DOMAIN Sections(d) = 1..Len(Sections(d))
           /\ Sections(d)[Len(Sections(d))] = Root[d]
           /\ \A k \in 1..Len(Blocks[d]) : Sections(d)[k] = Blocks[d][k] /\ Blocks[d][k] # Root[d]
<1>1. Blocks[d] \in Seq(Block) /\ Root[d] \in Block
  BY MessageAssumption
<1>2. DOMAIN Blocks[d] = 1..Len(Blocks[d]) /\ Len(Blocks[d]) \in Nat
  BY <1>1
<1>3. \A k \in 1..Len(Blocks[d]) : Blocks[d][k] # Root[d]
  BY <1>2, StoreAssumption DEF Range
<1>4. /\ Sections(d) \in Seq(Block) /\ Len(Sections(d)) = Len(Blocks[d]) + 1
      /\ Sections(d)[Len(Blocks[d]) + 1] = Root[d]
      /\ \A k \in 1..Len(Blocks[d]) : Sections(d)[k] = Blocks[d][k]
  BY <1>1 DEF Sections
<1> QED BY <1>2, <1>3, <1>4

\* Who read the root read everything.
LEMMA RootIsLast ==
    ASSUME NEW d \in Direction, read[d] \in Nat, read[d] <= Len(Sections(d)),
           Root[d] \in Received(d)
    PROVE  read[d] = Len(Sections(d)) /\ Received(d) = Range(Sections(d))
<1>1. PICK k \in 1..read[d] : Sections(d)[k] = Root[d]
  BY DEF Received
<1>2. k = Len(Sections(d))
  BY <1>1, SectionsFacts
<1>3. read[d] = Len(Sections(d))
  BY <1>1, <1>2, SectionsFacts
<1> QED BY <1>3, SectionsFacts DEF Received, Range

\* Blocks that were read are blocks.
LEMMA ReceivedBlocks ==
    ASSUME NEW d \in Direction, read[d] \in Nat, read[d] <= Len(Sections(d))
    PROVE  Received(d) \subseteq Block
<1> SUFFICES ASSUME NEW k \in 1..read[d] PROVE Sections(d)[k] \in Block
  BY DEF Received
<1>1. k \in 1..Len(Sections(d)) /\ Sections(d) \in Seq(Block)
  BY SectionsFacts
<1> QED BY <1>1

----------------------------------------------------------------------------
(* The inductive invariant.                                                *)

StreamTypes ==
    /\ enc \in [Direction -> {"idle", "writing", "ended"}]
    /\ copier \in [Direction -> {"idle", "copying", "ended"}]
    /\ written \in [Direction -> Nat] /\ read \in [Direction -> Nat]
    /\ body \in [Direction -> Bodies]
    /\ lost \in [Direction -> BOOLEAN]

\* A goroutine that ended wrote everything, unless its pipe was closed.
Encoded(d) ==
    /\ enc[d] = "idle" => written[d] = 0
    /\ enc[d] = "ended" /\ copier[d] # "ended" => written[d] = Len(Sections(d))

Streaming == StreamTypes /\ \A d \in Direction : Streams(d) /\ Encoded(d)

ControlTypes ==
    /\ client \in {"ready", "sending", "decoding", "done", "failed"}
    /\ server \in {"idle", "decoding", "executing", "ended", "panicked"}
    /\ status \in {0, 200, 400, 415}
    /\ view \subseteq Block /\ faults \in 0..MaxFaults

\* The request is executed once all of it has been read, and answered after that.
Order ==
    /\ client = "ready" => copier["request"] = "idle" /\ enc["request"] = "idle"
    /\ server = "executing" => Root["request"] \in Received("request")
    /\ server \in {"idle", "decoding", "executing"} => enc["response"] = "idle"
    /\ enc["response"] # "idle" => view # {}

IInv == ControlTypes /\ Streaming /\ Order /\ ResultComplete

----------------------------------------------------------------------------
(* Streams.                                                                *)

LEMMA Directions == "request" \in Direction /\ "response" \in Direction
BY DEF Direction

\* Losing a connection leaves a beginning of what was sent.
LEMMA LoseStreams ==
    ASSUME Streaming, NEW D \in SUBSET Direction, Lose(D)
    PROVE  Streaming'
<1>1. /\ lost' = [d \in Direction |-> d \in D \/ lost[d]]
      /\ enc' = enc /\ copier' = copier /\ written' = written /\ read' = read
  BY DEF Lose
<1>2. ASSUME NEW d \in Direction, NEW b \in Remainders(d)
      PROVE  /\ b \in Bodies /\ read[d] <= b.blocks /\ b.blocks <= body[d].blocks
             /\ lost[d] => b = body[d]
  <2>1. /\ read[d] \in Nat /\ body[d] \in Bodies /\ body[d].blocks \in Nat
        /\ read[d] <= body[d].blocks
    BY DEF Streaming, StreamTypes, Streams, Bodies
  <2>2. CASE lost[d]
    BY <2>1, <2>2, <1>2 DEF Remainders
  <2>3. CASE ~lost[d]
    <3>1. b \in [blocks : read[d]..body[d].blocks, end : {"clean", "broken"}] \/ b = body[d]
      BY <2>3, <1>2 DEF Remainders
    <3> QED BY <3>1, <2>1, <2>3 DEF Bodies
  <2> QED BY <2>2, <2>3
<1>3. PICK req \in Remainders("request"), res \in Remainders("response") :
         body' = [request  |-> IF "request" \in D THEN req ELSE body["request"],
                  response |-> IF "response" \in D THEN res ELSE body["response"]]
  BY DEF Lose
<1>4. ASSUME NEW d \in Direction
      PROVE  /\ body'[d] \in Bodies /\ read[d] <= body'[d].blocks
             /\ body'[d].blocks <= body[d].blocks
             /\ d \notin D \/ lost[d] => body'[d] = body[d]
  <2>1. body[d] \in Bodies /\ read[d] <= body[d].blocks /\ body[d].blocks \in Nat
    BY DEF Streaming, StreamTypes, Streams, Bodies
  <2>2. CASE d = "request"
    BY <2>1, <2>2, <1>2, <1>3, Directions
  <2>3. CASE d = "response"
    BY <2>1, <2>3, <1>2, <1>3, Directions
  <2> QED BY <2>2, <2>3 DEF Direction
<1>5. body' \in [Direction -> Bodies]
  <2>1. body' = [d \in Direction |-> body'[d]]
    BY <1>3 DEF Direction
  <2> QED BY <2>1, <1>4
<1>6. StreamTypes'
  BY <1>1, <1>5 DEF Streaming, StreamTypes
<1>7. ASSUME NEW d \in Direction PROVE Streams(d)' /\ Encoded(d)'
  <2>1. /\ Streams(d) /\ Encoded(d) /\ body[d].blocks \in Nat /\ read[d] \in Nat
        /\ written[d] \in Nat /\ body'[d].blocks \in Nat
    BY <1>4 DEF Streaming, StreamTypes, Bodies
  <2>2. ~lost'[d] => d \notin D /\ ~lost[d]
    BY <1>1
  <2> QED BY <1>1, <1>4, <2>1, <2>2 DEF Streams, Encoded
<1> QED BY <1>6, <1>7 DEF Streaming

\* Reading.
LEMMA ReadStreams ==
    ASSUME Streaming, NEW e \in Direction, Read(e)
    PROVE  Streaming'
<1>1. /\ read[e] < body[e].blocks /\ read' = [read EXCEPT ![e] = @ + 1]
      /\ UNCHANGED <<enc, copier, written, body, lost>>
  BY DEF Read
<1>2. StreamTypes'
  BY <1>1 DEF Streaming, StreamTypes
<1>3. ASSUME NEW d \in Direction PROVE Streams(d)' /\ Encoded(d)'
  <2>1. /\ Streams(d) /\ Encoded(d) /\ read[d] \in Nat /\ body[d].blocks \in Nat
        /\ written[d] \in Nat /\ Buffer \in Nat
    BY MessageAssumption DEF Streaming, StreamTypes, Bodies
  <2>2. read'[d] = IF d = e THEN read[d] + 1 ELSE read[d]
    BY <1>1 DEF Streaming, StreamTypes
  <2> QED BY <1>1, <2>1, <2>2 DEF Streams, Encoded
<1> QED BY <1>2, <1>3 DEF Streaming

\* Encoding and copying.
LEMMA CopyStreams ==
    ASSUME Streaming, NEW e \in Direction,
           Write(e) \/ EncodeEnds(e) \/ CopyEnds(e) \/ CopyFails(e)
    PROVE  Streaming'
<1>1. StreamTypes'
  <2>1. CASE Write(e)
    <3>1. body[e] \in Bodies /\ [body[e] EXCEPT !.blocks = @ + 1] \in Bodies
      BY DEF Streaming, StreamTypes, Bodies
    <3> QED BY <2>1, <3>1 DEF Write, Streaming, StreamTypes
  <2>2. CASE EncodeEnds(e)
    BY <2>2 DEF EncodeEnds, Streaming, StreamTypes
  <2>3. CASE CopyEnds(e)
    <3>1. body[e] \in Bodies /\ [body[e] EXCEPT !.end = "clean"] \in Bodies
      BY DEF Streaming, StreamTypes, Bodies
    <3> QED BY <2>3, <3>1 DEF CopyEnds, Streaming, StreamTypes
  <2>4. CASE CopyFails(e)
    BY <2>4 DEF CopyFails, Streaming, StreamTypes
  <2> QED BY <2>1, <2>2, <2>3, <2>4
<1>2. ASSUME NEW d \in Direction PROVE Streams(d)' /\ Encoded(d)'
  <2>1. /\ Streams(d) /\ Encoded(d) /\ read[d] \in Nat /\ body[d].blocks \in Nat
        /\ body[d].end \in {"none", "clean", "broken"}
        /\ written[d] \in Nat /\ Buffer \in Nat /\ Len(Sections(d)) \in Nat
    BY MessageAssumption, SectionsFacts DEF Streaming, StreamTypes, Bodies
  <2>2. CASE Write(e)
    <3>1. /\ written'[d] = IF d = e THEN written[d] + 1 ELSE written[d]
          /\ body'[d].blocks = IF d = e THEN body[d].blocks + 1 ELSE body[d].blocks
          /\ body'[d].end = body[d].end
          /\ UNCHANGED <<enc, copier, read, lost>>
      BY <2>2 DEF Write, Streaming, StreamTypes, Bodies
    <3>2. /\ enc[e] = "writing" /\ copier[e] = "copying" /\ ~lost[e]
          /\ written[e] < Len(Sections(e)) /\ written[e] - read[e] < Buffer
      BY <2>2 DEF Write
    <3>3. CASE d # e
      BY <2>1, <3>1, <3>3 DEF Streams, Encoded
    <3>4. CASE d = e
      <4>1. /\ written'[d] = written[d] + 1 /\ body'[d].blocks = body[d].blocks + 1
            /\ body'[d].end = body[d].end /\ UNCHANGED <<enc, copier, read, lost>>
            /\ enc[d] = "writing" /\ copier[d] = "copying" /\ ~lost[d]
            /\ written[d] < Len(Sections(d)) /\ written[d] - read[d] < Buffer
        BY <3>1, <3>2, <3>4
      <4>2. /\ body[d].blocks = written[d] /\ body[d].end = "none" /\ read[d] <= body[d].blocks
            /\ enc'[d] = "writing"
        BY <2>1, <4>1 DEF Streams
      <4>3. read[d] <= written[d] + 1 /\ written[d] + 1 <= Len(Sections(d))
            /\ written[d] + 1 - read[d] <= Buffer
        BY <2>1, <4>1, <4>2
      <4> QED BY <2>1, <4>1, <4>2, <4>3 DEF Streams, Encoded
    <3> QED BY <3>3, <3>4
  <2>3. CASE EncodeEnds(e)
    <3>1. /\ enc'[d] = IF d = e THEN "ended" ELSE enc[d]
          /\ UNCHANGED <<copier, written, body, read, lost>>
          /\ enc[e] = "writing" /\ (written[e] = Len(Sections(e)) \/ copier[e] = "ended")
      BY <2>3 DEF EncodeEnds, Closed, Streaming, StreamTypes
    <3> QED BY <2>1, <3>1 DEF Streams, Encoded
  <2>4. CASE CopyEnds(e)
    <3>1. /\ copier'[d] = IF d = e THEN "ended" ELSE copier[d]
          /\ body'[d].end = IF d = e THEN "clean" ELSE body[d].end
          /\ body'[d].blocks = body[d].blocks
          /\ UNCHANGED <<enc, written, read, lost>>
          /\ enc[e] = "ended" /\ copier[e] = "copying" /\ ~lost[e]
      BY <2>4 DEF CopyEnds, Streaming, StreamTypes, Bodies
    <3> QED BY <2>1, <3>1 DEF Streams, Encoded
  <2>5. CASE CopyFails(e)
    <3>1. /\ copier'[d] = IF d = e THEN "ended" ELSE copier[d]
          /\ UNCHANGED <<enc, written, body, read, lost>> /\ lost[e]
      BY <2>5 DEF CopyFails, Streaming, StreamTypes
    <3> QED BY <2>1, <3>1 DEF Streams, Encoded
  <2> QED BY <2>2, <2>3, <2>4, <2>5
<1> QED BY <1>1, <1>2 DEF Streaming

\* An encoder and its copier start.
LEMMA StartStreams ==
    ASSUME Streaming, NEW e \in Direction, NEW x \in {"idle", "copying"}, enc[e] = "idle",
           Start(e), copier' = [copier EXCEPT ![e] = x]
    PROVE  Streaming'
<1>1. StreamTypes'
  BY DEF Start, Streaming, StreamTypes
<1>2. ASSUME NEW d \in Direction PROVE Streams(d)' /\ Encoded(d)'
  <2>1. /\ enc'[d] = IF d = e THEN "writing" ELSE enc[d]
        /\ copier'[d] = IF d = e THEN x ELSE copier[d]
        /\ UNCHANGED <<written, body, read, lost>>
    BY DEF Start, Streaming, StreamTypes
  <2> QED BY <2>1 DEF Streaming, Streams, Encoded
<1> QED BY <1>1, <1>2 DEF Streaming

\* net/http takes the request.
LEMMA DoStreams ==
    ASSUME Streaming, copier["request"] = "idle",
           copier' = [copier EXCEPT !["request"] = "copying"],
           UNCHANGED <<enc, written, body, read, lost>>
    PROVE  Streaming'
<1>1. StreamTypes'
  BY DEF Streaming, StreamTypes
<1>2. ASSUME NEW d \in Direction PROVE Streams(d)' /\ Encoded(d)'
  <2>1. copier'[d] = IF d = "request" THEN "copying" ELSE copier[d]
    BY DEF Streaming, StreamTypes
  <2> QED BY <2>1 DEF Streaming, Streams, Encoded
<1> QED BY <1>1, <1>2 DEF Streaming

\* Nothing happens to the streams.
LEMMA SameStreams ==
    ASSUME Streaming, UNCHANGED streams
    PROVE  Streaming'
BY DEF Streaming, StreamTypes, Streams, Encoded, streams, Closed

\* Whoever reads does not change the rest.
LEMMA ReceivedSame ==
    ASSUME NEW d \in Direction, read'[d] = read[d]
    PROVE  Received(d)' = Received(d)
BY DEF Received

----------------------------------------------------------------------------
(* Steps.                                                                  *)

\* The steps of the client.
LEMMA ClientSteps == ASSUME IInv, ClientStep PROVE IInv'
<1>0. ControlTypes /\ Streaming /\ Order /\ ResultComplete /\ UNCHANGED <<server, status, view, faults>>
  BY DEF IInv, ClientStep
<1> USE Directions
<1>1. ASSUME Streaming', enc' = enc, read' = read,
             client' \in {"sending", "failed"} \/ client' = client,
             client' # "ready" \/ copier' = copier
      PROVE  IInv'
  <2>1. \A d \in Direction : Received(d)' = Received(d)
    BY <1>1, ReceivedSame
  <2> QED BY <1>0, <1>1, <2>1 DEF IInv, ControlTypes, Order, ResultComplete
<1>2. CASE Encode
  <2>1. enc["request"] = "idle" /\ copier["request"] = "idle"
    BY <1>0, <1>2 DEF Encode, Order
  <2>2. copier' = [copier EXCEPT !["request"] = "idle"]
    BY <1>0, <1>2, <2>1 DEF Encode, Streaming, StreamTypes
  <2>3. Streaming'
    BY <1>0, <1>2, <2>1, <2>2, StartStreams DEF Encode
  <2>4. client' = "sending" /\ read' = read /\ enc'["response"] = enc["response"]
    BY <1>0, <1>2 DEF Encode, Start, Streaming, StreamTypes
  <2>5. Received("request")' = Received("request")
    BY <2>4, ReceivedSame
  <2> QED BY <1>0, <2>3, <2>4, <2>5 DEF IInv, ControlTypes, Order, ResultComplete
<1>3. CASE CreateFails \/ DoFails
  BY <1>0, <1>1, <1>3, SameStreams DEF CreateFails, DoFails, streams
<1>4. CASE Do
  BY <1>0, <1>1, <1>4, DoStreams DEF Do
<1>5. CASE Respond
  <2>1. Streaming' /\ read' = read /\ enc' = enc /\ copier' = copier
    BY <1>0, <1>5, SameStreams DEF Respond, streams
  <2>2. client' \in {"decoding", "failed"}
    BY <1>5 DEF Respond
  <2>3. \A d \in Direction : Received(d)' = Received(d)
    BY <2>1, ReceivedSame
  <2> QED BY <1>0, <2>1, <2>2, <2>3 DEF IInv, ControlTypes, Order, ResultComplete
<1>6. CASE ReadResponse
  <2>1. Streaming'
    BY <1>0, <1>6, ReadStreams DEF ReadResponse
  <2>2. read'["request"] = read["request"] /\ UNCHANGED <<client, enc, copier>> /\ client = "decoding"
    BY <1>0, <1>6 DEF ReadResponse, Read, Streaming, StreamTypes
  <2>3. Received("request")' = Received("request")
    BY <2>2, ReceivedSame
  <2> QED BY <1>0, <2>1, <2>2, <2>3 DEF IInv, ControlTypes, Order, ResultComplete
<1>7. CASE DecodeResponse
  <2>1. Streaming' /\ read' = read /\ enc' = enc /\ copier' = copier
    BY <1>0, <1>7, SameStreams DEF DecodeResponse, streams
  <2>2. client' = "failed" \/ (client' = "done" /\ Root["response"] \in Received("response"))
    BY <1>7 DEF DecodeResponse, Decodes
  <2>3. \A d \in Direction : Received(d)' = Received(d)
    BY <2>1, ReceivedSame
  <2>4. ASSUME Root["response"] \in Received("response")
        PROVE  view # {} /\ Received("response") = Range(Sections("response"))
    <3>1. /\ read["response"] \in Nat /\ written["response"] \in Nat
          /\ read["response"] <= body["response"].blocks /\ body["response"].blocks \in Nat
          /\ body["response"].blocks <= written["response"]
          /\ written["response"] <= Len(Sections("response"))
      BY <1>0 DEF Streaming, StreamTypes, Streams, Bodies
    <3>2. Len(Sections("response")) \in Nat \ {0}
      BY SectionsFacts
    <3>3. /\ read["response"] = Len(Sections("response"))
          /\ Received("response") = Range(Sections("response"))
      BY <2>4, <3>1, <3>2, RootIsLast
    <3>4. enc["response"] # "idle"
      BY <1>0, <3>1, <3>2, <3>3 DEF Streaming, Encoded
    <3> QED BY <1>0, <3>3, <3>4 DEF Order
  <2>5. ResultComplete'
    BY <1>0, <2>2, <2>3, <2>4 DEF ResultComplete
  <2> QED BY <1>0, <2>1, <2>2, <2>3, <2>5 DEF IInv, ControlTypes, Order
<1>8. CASE Release
  <2>1. Streaming'
    BY <1>0, <1>8, LoseStreams DEF Release
  <2> QED BY <1>0, <1>1, <1>8, <2>1 DEF Release, Lose
<1> QED BY <1>2, <1>3, <1>4, <1>5, <1>6, <1>7, <1>8 DEF ClientStep

\* The steps of the server.
LEMMA ServerSteps == ASSUME IInv, ServerStep PROVE IInv'
<1>0. ControlTypes /\ Streaming /\ Order /\ ResultComplete /\ UNCHANGED <<client, faults>>
  BY DEF IInv, ServerStep
<1> USE Directions
<1>1. ASSUME Streaming', enc' = enc, read' = read, copier' = copier, view' = view,
             server' \in {"decoding", "ended", "panicked"} \/ server' = server,
             server' = "ended" \/ server' = "panicked" \/ enc["response"] = "idle",
             status' \in {0, 200, 400, 415}
      PROVE  IInv'
  <2>1. \A d \in Direction : Received(d)' = Received(d)
    BY <1>1, ReceivedSame
  <2> QED BY <1>0, <1>1, <2>1 DEF IInv, ControlTypes, Order, ResultComplete
<1>2. CASE Serve
  BY <1>0, <1>1, <1>2, SameStreams DEF Serve, Order, ControlTypes, streams
<1>3. CASE Refuse
  BY <1>0, <1>1, <1>3, SameStreams DEF Refuse, Answer, streams
<1>4. CASE ReadRequest
  <2>1. Streaming'
    BY <1>0, <1>4, ReadStreams DEF ReadRequest
  <2>2. /\ read'["response"] = read["response"] /\ UNCHANGED <<enc, copier, server, status, view>>
        /\ server = "decoding"
    BY <1>0, <1>4 DEF ReadRequest, Read, Streaming, StreamTypes
  <2>3. Received("response")' = Received("response")
    BY <2>2, ReceivedSame
  <2> QED BY <1>0, <2>1, <2>2, <2>3 DEF IInv, ControlTypes, Order, ResultComplete
<1>5. CASE DecodeRequest
  <2>1. Streaming' /\ read' = read /\ enc' = enc /\ copier' = copier /\ view' = view
    BY <1>0, <1>5, SameStreams DEF DecodeRequest, streams
  <2>2. enc["response"] = "idle"
    BY <1>0, <1>5 DEF DecodeRequest, Order
  <2>3. \A d \in Direction : Received(d)' = Received(d)
    BY <2>1, ReceivedSame
  <2>4. \/ server' = "ended" /\ status' \in {0, 400}
        \/ server' = "executing" /\ status' = status /\ Root["request"] \in Received("request")
    BY <1>5 DEF DecodeRequest, Answer, Decodes
  <2> QED BY <1>0, <2>1, <2>2, <2>3, <2>4 DEF IInv, ControlTypes, Order, ResultComplete
<1>6. CASE Run
  <2>1. Streaming' /\ read' = read /\ enc' = enc /\ copier' = copier /\ UNCHANGED <<server, status>>
    BY <1>0, <1>6, SameStreams DEF Run, streams
  <2>2. view' = Received("request") /\ server = "executing" /\ view = {}
    BY <1>6 DEF Run
  <2>3. view' \subseteq Block
    <3>1. /\ read["request"] \in Nat /\ read["request"] <= body["request"].blocks
          /\ body["request"].blocks \in Nat /\ body["request"].blocks <= written["request"]
          /\ written["request"] \in Nat /\ written["request"] <= Len(Sections("request"))
      BY <1>0 DEF Streaming, StreamTypes, Streams, Bodies
    <3>2. Len(Sections("request")) \in Nat
      BY SectionsFacts
    <3>3. read["request"] <= Len(Sections("request"))
      BY <3>1, <3>2
    <3> QED BY <2>2, <3>1, <3>3, ReceivedBlocks
  <2>4. \A d \in Direction : Received(d)' = Received(d)
    BY <2>1, ReceivedSame
  <2>5. client # "done" /\ enc["response"] = "idle"
    BY <1>0, <2>2 DEF ResultComplete, Order
  <2> QED BY <1>0, <2>1, <2>2, <2>3, <2>4, <2>5 DEF IInv, ControlTypes, Order, ResultComplete
<1>7. CASE Reply
  <2>1. /\ server = "executing" /\ view # {} /\ view' = view /\ server' = "ended"
        /\ status' \in {0, 200} /\ enc["response"] = "idle"
    BY <1>0, <1>7 DEF Reply, Answer, Order
  <2>2. Streaming'
    BY <1>0, <1>7, <2>1, StartStreams DEF Reply
  <2>3. /\ read' = read /\ enc'["request"] = enc["request"]
        /\ copier'["request"] = copier["request"]
    BY <1>0, <1>7 DEF Reply, Start, Streaming, StreamTypes
  <2>4. \A d \in Direction : Received(d)' = Received(d)
    BY <2>3, ReceivedSame
  <2> QED BY <1>0, <2>1, <2>2, <2>3, <2>4 DEF IInv, ControlTypes, Order, ResultComplete
<1>8. CASE Panic
  BY <1>0, <1>1, <1>8, LoseStreams DEF Panic, Lose, ControlTypes
<1>9. CASE HangUp
  <2>1. Streaming' /\ server = "ended" /\ UNCHANGED <<enc, copier, read, server, status, view>>
    BY <1>0, <1>9, LoseStreams DEF HangUp, Lose
  <2> QED BY <1>0, <1>1, <2>1 DEF ControlTypes
<1> QED BY <1>2, <1>3, <1>4, <1>5, <1>6, <1>7, <1>8, <1>9 DEF ServerStep

\* The steps of the encoders and the copiers.
LEMMA StreamSteps == ASSUME IInv, NEW e \in Direction, Stream(e) PROVE IInv'
<1>1. /\ ControlTypes /\ Streaming /\ Order /\ ResultComplete
      /\ Write(e) \/ EncodeEnds(e) \/ CopyEnds(e) \/ CopyFails(e)
      /\ UNCHANGED <<client, server, status, view, faults>>
  BY DEF IInv, Stream
<1>2. Streaming' /\ read' = read
  BY <1>1, CopyStreams DEF Write, EncodeEnds, CopyEnds, CopyFails
<1>3. \A d \in Direction : Received(d)' = Received(d)
  BY <1>2, ReceivedSame
<1>4. /\ \A d \in Direction : enc[d] = "idle" => enc'[d] = "idle"
      /\ \A d \in Direction : enc'[d] = "idle" => enc[d] = "idle"
  BY <1>1 DEF Write, EncodeEnds, CopyEnds, CopyFails, Streaming, StreamTypes
<1>5. copier["request"] = "idle" => copier'["request"] = "idle"
  BY <1>1, Directions DEF Write, EncodeEnds, CopyEnds, CopyFails, Streaming, StreamTypes
<1> QED BY <1>1, <1>2, <1>3, <1>4, <1>5, Directions DEF IInv, ControlTypes, Order, ResultComplete

\* Faults.
LEMMA FaultSteps == ASSUME IInv, Fault PROVE IInv'
<1>1. /\ ControlTypes /\ Streaming /\ Order /\ ResultComplete
      /\ faults' \in 0..MaxFaults /\ UNCHANGED <<server, status, view>>
  BY MessageAssumption DEF IInv, Fault, ControlTypes
<1>2. /\ Streaming' /\ read' = read /\ enc' = enc /\ copier' = copier
      /\ client' = client \/ client' = "failed"
  <2>1. CASE Cut
    BY <1>1, <2>1, LoseStreams DEF Cut, Lose
  <2>2. CASE Cancel
    BY <1>1, <2>2, SameStreams DEF Cancel, streams
  <2> QED BY <2>1, <2>2 DEF Fault
<1>3. \A d \in Direction : Received(d)' = Received(d)
  BY <1>2, ReceivedSame
<1> QED BY <1>1, <1>2, <1>3, Directions DEF IInv, ControlTypes, Order, ResultComplete

\* Every step preserves the invariant.
LEMMA StepIInv == ASSUME IInv, [Next]_vars PROVE IInv'
<1>1. CASE UNCHANGED vars
  <2>1. ControlTypes /\ Streaming /\ Order /\ ResultComplete
    BY DEF IInv
  <2>2. Streaming' /\ UNCHANGED <<client, server, status, view, faults, enc, copier, read>>
    BY <1>1, <2>1, SameStreams DEF vars, streams
  <2>3. \A d \in Direction : Received(d)' = Received(d)
    BY <2>2, ReceivedSame
  <2> QED BY <2>1, <2>2, <2>3, Directions DEF IInv, ControlTypes, Order, ResultComplete
<1> QED BY <1>1, ClientSteps, ServerSteps, StreamSteps, FaultSteps DEF Next, Step

\* The invariant holds initially.
LEMMA InitIInv == ASSUME Init PROVE IInv
<1>1. \A d \in Direction : Len(Sections(d)) \in Nat
  BY SectionsFacts
<1>2. Buffer \in Nat /\ MaxFaults \in Nat
  BY MessageAssumption
<1>3. Streaming
  BY <1>1, <1>2 DEF Init, Streaming, StreamTypes, Streams, Encoded, Bodies
<1> QED BY <1>2, <1>3, Directions DEF Init, IInv, ControlTypes, Order, ResultComplete

\* What the pipes and connections hold is in order (car.go 23-60, channel.go 67-100).
THEOREM TypeCorrect == Spec => []TypeOK
<1>1. IInv => TypeOK
  BY DEF IInv, ControlTypes, Streaming, StreamTypes, TypeOK
<1> QED BY InitIInv, StepIInv, <1>1, PTL DEF Spec

\* A result is a whole response of handlers that ran, however the connection was lost
\* (car.go 81-141, message.go 122-190 and 192-199).
THEOREM ResultsComplete == Spec => []ResultComplete
<1>1. IInv => ResultComplete
  BY DEF IInv
<1> QED BY InitIInv, StepIInv, <1>1, PTL DEF Spec

----------------------------------------------------------------------------
(* Refinement.                                                             *)

Outcome == [c \in OneClient |-> IF client \in {"done", "failed"} THEN client ELSE "pending"]
View == [c \in OneClient |-> [t \in {0} |-> view]]

\* The handlers run.
LEMMA Runs == ASSUME IInv, ServerStep, Run PROVE Remote!Next
<1> DEFINE dlgs == Range(Sections("request"))
<1>1. /\ view = {} /\ view' = Received("request") /\ Root["request"] \in Received("request")
      /\ view' \subseteq Block
  <2>1. IInv'
    BY ServerSteps
  <2> QED BY <2>1 DEF IInv, ControlTypes, Order, Run
<1>2. Received("request") = dlgs
  <2>1. /\ read["request"] \in Nat /\ read["request"] <= body["request"].blocks
        /\ body["request"].blocks \in Nat /\ body["request"].blocks <= written["request"]
        /\ written["request"] \in Nat /\ written["request"] <= Len(Sections("request"))
    BY Directions DEF IInv, Streaming, StreamTypes, Streams, Bodies
  <2>2. Len(Sections("request")) \in Nat
    BY SectionsFacts, Directions
  <2>3. read["request"] <= Len(Sections("request"))
    BY <2>1, <2>2
  <2> QED BY <1>1, <2>1, <2>3, RootIsLast, Directions
<1>3. \A k \in DOMAIN Blocks["request"] : Blocks["request"][k] \in dlgs
  <2> SUFFICES ASSUME NEW k \in DOMAIN Blocks["request"] PROVE Blocks["request"][k] \in dlgs
    OBVIOUS
  <2>1. k \in 1..Len(Blocks["request"])
    BY MessageAssumption, Directions
  <2>2. k \in DOMAIN Sections("request") /\ Sections("request")[k] = Blocks["request"][k]
    BY <2>1, SectionsFacts, Directions
  <2> QED BY <2>2 DEF Range
<1>4. \A l \in dlgs : \A k \in DOMAIN (IF l = Root["request"] THEN Blocks["request"] ELSE <<>>) :
         (IF l = Root["request"] THEN Blocks["request"] ELSE <<>>)[k] \in dlgs
  <2> SUFFICES ASSUME NEW l \in dlgs,
                      NEW k \in DOMAIN (IF l = Root["request"] THEN Blocks["request"] ELSE <<>>)
               PROVE  (IF l = Root["request"] THEN Blocks["request"] ELSE <<>>)[k] \in dlgs
    OBVIOUS
  <2>1. CASE l = Root["request"]
    BY <1>3, <2>1
  <2>2. CASE l # Root["request"]
    BY <2>2
  <2> QED BY <2>1, <2>2
<1>5. Remote!Whole("c", Received("request"))
  <2>1. dlgs \in SUBSET (Received("request") \cap dlgs) /\ Root["request"] \in dlgs
    BY <1>1, <1>2
  <2> QED BY <2>1, <1>4 DEF Remote!Whole, OneClient
<1>6. client' = client
  BY DEF ServerStep
<1>7. View["c"][0] = {} /\ View'["c"][0] = Received("request")
      /\ View' = [View EXCEPT !["c"][0] = Received("request")]
  BY <1>1 DEF View, OneClient
<1>8. Remote!Run("c", 0)
  BY <1>1, <1>5, <1>6, <1>7 DEF Remote!Run, View, Outcome, OneClient
<1> QED BY <1>8 DEF Remote!Next, OneClient

\* A call that has not returned may fail.
LEMMA Fails ==
    ASSUME client \notin {"done", "failed"}, client' = "failed", view' = view
    PROVE  Remote!Next
<1>1. Outcome["c"] = "pending" /\ Outcome' = [Outcome EXCEPT !["c"] = "failed"] /\ View' = View
  BY DEF Outcome, View, OneClient
<1>2. Remote!Fail("c")
  BY <1>1 DEF Remote!Fail, Outcome, View, OneClient
<1> QED BY <1>2 DEF Remote!Next, OneClient

\* It returns a result if the handlers ran.
LEMMA Succeeds ==
    ASSUME client \notin {"done", "failed"}, client' = "done", view' = view, view # {}
    PROVE  Remote!Next
<1>1. /\ Outcome["c"] = "pending" /\ Outcome' = [Outcome EXCEPT !["c"] = "done"]
      /\ View' = View /\ View["c"][0] # {}
  BY DEF Outcome, View, OneClient
<1>2. Remote!Succeed("c")
  BY <1>1 DEF Remote!Succeed, Outcome, View, OneClient
<1> QED BY <1>2 DEF Remote!Next, OneClient

\* Nothing happens that the abstract specification sees.
LEMMA Stutters ==
    ASSUME client' = client \/ {client, client'} \cap {"done", "failed"} = {}, view' = view
    PROVE  UNCHANGED Remote!vars
BY DEF Remote!vars, OneClient

\* Every step is a step of the abstract specification, or none.
LEMMA StepRefines == ASSUME IInv, [Next]_vars PROVE [Remote!Next]_(Remote!vars)
<1>0. IInv' /\ ControlTypes
  BY StepIInv DEF IInv
<1>1. CASE ClientStep
  <2>1. view' = view
    BY <1>1 DEF ClientStep
  <2>2. CASE Encode \/ Do \/ ReadResponse \/ Release
    BY <2>1, <2>2, Stutters DEF Encode, Do, ReadResponse, Release
  <2>3. CASE CreateFails \/ DoFails
    BY <2>1, <2>3, Fails DEF CreateFails, DoFails
  <2>4. CASE Respond
    BY <2>1, <2>4, Stutters, Fails DEF Respond
  <2>5. CASE DecodeResponse
    <3>1. client' = "done" => view # {}
      BY <1>0, <2>1 DEF IInv, ResultComplete
    <3> QED BY <2>1, <2>5, <3>1, Fails, Succeeds DEF DecodeResponse
  <2> QED BY <1>1, <2>2, <2>3, <2>4, <2>5 DEF ClientStep
<1>2. CASE ServerStep
  <2>1. CASE Run
    BY <1>2, <2>1, Runs
  <2>2. CASE ~Run
    <3>1. view' = view /\ client' = client
      BY <1>2, <2>2 DEF ServerStep, Serve, Refuse, ReadRequest, DecodeRequest, Reply, Panic, HangUp
    <3> QED BY <3>1, Stutters
  <2> QED BY <2>1, <2>2
<1>3. CASE (\E d \in Direction : Stream(d)) \/ UNCHANGED vars
  BY <1>3, Stutters DEF Stream, vars
<1>4. CASE Fault
  <2>1. view' = view /\ (client' = client \/ (client \notin {"done", "failed"} /\ client' = "failed"))
    BY <1>4 DEF Fault, Cut, Cancel
  <2> QED BY <2>1, Stutters, Fails
<1> QED BY <1>1, <1>2, <1>3, <1>4 DEF Next, Step

\* The initial state maps to the initial state.
LEMMA InitRefines == ASSUME Init PROVE Remote!Init
BY DEF Init, Remote!Init, OneClient

\* Over HTTP POST an Execute is one remote invocation that is never sent again: the
\* handlers run at most once, and with the whole message (connection.go 105-128,
\* server.go 252-276).
THEOREM ExchangeIsRemoteInvocation == Spec => ImplementsRemoteInvocation
<1>1. Init => IInv
  BY InitIInv
<1>2. IInv /\ [Next]_vars => IInv'
  BY StepIInv
<1>3. Init => Remote!Init
  BY InitRefines
<1>4. IInv /\ [Next]_vars => [Remote!Next]_(Remote!vars)
  BY StepRefines
<1> QED BY <1>1, <1>2, <1>3, <1>4, PTL DEF Spec, ImplementsRemoteInvocation, Remote!Spec
=============================================================================
