----------------------------- MODULE Retrieval -----------------------------
(***************************************************************************)
(* Retrieval over HTTP headers (client/retrieval/connection.go,            *)
(* server/retrieval/server.go and cache.go).  An invocation whose message  *)
(* does not fit in a header is sent in parts: first the invocation without *)
(* its proofs, then whichever proof the server misses, one per request.    *)
(* Between the requests the server keeps what it was sent in a bounded     *)
(* least-recently-used cache, shared by all its clients.                   *)
(*                                                                         *)
(* Each client is one call of Execute; each request is served by its own   *)
(* goroutine, one step per access to the cache.  The environment loses     *)
(* connections, cancels contexts and restarts the server.  The requests    *)
(* are GETs without a body, which net/http sends again when the reused     *)
(* connection they went out on breaks: two goroutines then serve the same  *)
(* request.                                                                *)
(***************************************************************************)
EXTENDS Naturals, SequencesExt

CONSTANTS Client, Link, Block, Root, Proofs,
          Rank,             \* a delegation is made after its proofs
          Attached,         \* what a client exports: its invocation and proofs at hand
          Extra,            \* the blocks a client attached with Attach
          TooLarge(_),      \* the client's limit: EncodeHeader refuses the blocks
          MayReject(_),     \* the limit of a server on the way, which answers 431
          HandlerStatus,    \* what a handler, or the failure of one, answers
          Capacities,       \* what NewMemoryDelegationCache is called with
          MaxResends,       \* no more requests are resent once those of a client were so often
          MaxFaults         \* bound on faults

VARIABLES client,    \* progress of Execute
          part,      \* the delegation to be sent next
          parts,     \* the proofs that were not sent yet
          try,       \* how often net/http sent a request again
          handler,   \* the server's side of the last request of each try
          response,  \* the answer to the current try on its way back
          cache,     \* its size, and delegations, the most recently used last
          view,      \* what the handler ran with, {} if it did not
          faults     \* number of faults so far

clientVars == <<client, part, parts, try>>
vars == <<clientVars, handler, response, cache, view, faults>>

Try == 0..MaxResends

TypeOfProofs == Proofs \in [Link -> Seq(Link)]

\* A handler answers none of the two statuses of the negotiation, which the client
\* could not tell from an answer of the server (client/retrieval/connection.go 70-71);
\* 0, with which a handler leaves the status to the encoder, is the encoder's here.
ASSUME RetrievalAssumption ==
    /\ Link \subseteq Block
    /\ Root \in [Client -> Link]
    /\ TypeOfProofs
    /\ Attached \in [Client -> SUBSET Link]
    /\ Extra \in [Client -> SUBSET (Block \ Link)]
    /\ \A c \in Client : Root[c] \in Attached[c]
    /\ HandlerStatus \subseteq Nat /\ HandlerStatus \cap {0, 431, 510} = {}
    /\ Capacities \subseteq Nat \ {0}
    /\ MaxResends \in Nat /\ MaxFaults \in Nat

\* A link is the hash of a token, so no token contains itself.
ASSUME AcyclicAssumption ==
    /\ Rank \in [Link -> Nat]
    /\ \A l \in Link : \A p \in Range(Proofs[l]) : Rank[p] < Rank[l]

----------------------------------------------------------------------------
(* Requests and responses.                                                 *)

Handlers ==
    [pc : {"idle", "receive", "walk"}, blocks : SUBSET Block, queue : Seq(Link),
     fresh : Seq(Link), dlgs : SUBSET Link, missing : Seq(Link)]

NewHandler(pc, blocks) ==
    [pc |-> pc, blocks |-> blocks, queue |-> <<>>, fresh |-> <<>>, dlgs |-> {}, missing |-> <<>>]

NoRequest == NewHandler("idle", {})

Responses == [status : HandlerStatus \cup {0, 431, 510}, missing : Seq(Link)]

NoResponse == [status |-> 0, missing |-> <<>>]

\* Request: put the message in flight.
Request(c, t, blocks) ==
    /\ handler' = [handler EXCEPT ![c][t] = NewHandler("receive", blocks)]
    /\ response' = [response EXCEPT ![c] = NoResponse]

\* Only the answer to the current try finds somebody waiting, if at all.
Reply(c, t, status, missing) ==
    /\ handler' = [handler EXCEPT ![c][t] = NoRequest]
    /\ response' = [response EXCEPT
                      ![c] = IF t = try[c] /\ client[c] \in {"probing", "waiting"}
                             THEN [status |-> status, missing |-> missing] ELSE @]

Answered(c) == response[c].status # 0

\* Mutant: a partial content is taken for a failure.
SucceededWhole(c) == response[c].status = 200

\* The statuses of an answer that carries a result.
Succeeded(c) == response[c].status \in {200, 206}

----------------------------------------------------------------------------
(* The cache.                                                              *)

\* The other entries: there is at most one for a link.
EntriesBut(link) ==
    IF link \in Range(cache.data)
    THEN RemoveAt(cache.data, CHOOSE k \in DOMAIN cache.data : cache.data[k] = link)
    ELSE cache.data

\* Mutant: an entry is taken out.
CacheGetTakes(link) == [cache EXCEPT !.data = EntriesBut(link)]

CacheGet(link) == [cache EXCEPT !.data = Append(EntriesBut(link), link)]

\* Mutant: a new entry replaces none.
CachePutUnbounded(link) == [cache EXCEPT !.data = Append(EntriesBut(link), link)]

CachePut(link) ==
    LET data == Append(EntriesBut(link), link)
    IN  [cache EXCEPT !.data = IF Len(data) > cache.size THEN Tail(data) ELSE data]

----------------------------------------------------------------------------
(* The client.                                                             *)

Become(c, state) ==
    client' = [client EXCEPT ![c] = state] /\ UNCHANGED <<part, parts, try>>

SendNext(c, link, rest) ==
    /\ client' = [client EXCEPT ![c] = "sending"]
    /\ part' = [part EXCEPT ![c] = link]
    /\ parts' = [parts EXCEPT ![c] = rest]
    /\ UNCHANGED try

\* The parts are the proofs, their proofs and so on, which must all be at hand.
Split(c) ==
    LET prfs == Attached[c] \ {Root[c]}
    IN  IF prfs # {} /\ \A l \in Attached[c] : Range(Proofs[l]) \subseteq Attached[c]
        THEN SendNext(c, Root[c], prfs)
        ELSE Become(c, "failed")

\* What the request being sent is made of: everything, or one part without its
\* proofs and without what is attached to it.
Message(c) == IF client[c] \in {"ready", "probing"} THEN Attached[c] \cup Extra[c] ELSE {part[c]}

\* Execute: the complete message first.
Probe(c) ==
    /\ client[c] = "ready"
    /\ IF TooLarge(Message(c))
       THEN Split(c) /\ UNCHANGED <<handler, response>>
       ELSE Become(c, "probing") /\ Request(c, try[c], Message(c))
    /\ UNCHANGED <<cache, view, faults>>

\* The answer to the complete message; only 431 leads to another request.
Probed(c) ==
    /\ client[c] = "probing" /\ Answered(c)
    /\ IF response[c].status = 431 THEN Split(c)
       ELSE Become(c, IF Succeeded(c) THEN "done" ELSE "failed")
    /\ UNCHANGED <<handler, response, cache, view, faults>>

\* The next part.
SendPart(c) ==
    /\ client[c] = "sending"
    /\ IF TooLarge(Message(c))
       THEN Become(c, "failed") /\ UNCHANGED <<handler, response>>
       ELSE Become(c, "waiting") /\ Request(c, try[c], Message(c))
    /\ UNCHANGED <<cache, view, faults>>

\* Mutant: a part may be sent any number of times.
PartAnsweredAgain(c) ==
    /\ client[c] = "waiting" /\ Answered(c)
    /\ IF response[c].status = 510
       THEN LET next == Head(response[c].missing)
            IN  IF next \in Attached[c]
                THEN SendNext(c, next, parts[c])
                ELSE Become(c, "failed")
       ELSE Become(c, IF Succeeded(c) THEN "done" ELSE "failed")
    /\ UNCHANGED <<handler, response, cache, view, faults>>

\* The answer to a part: the first missing proof is sent next, unless it was
\* already sent or is not a proof of this invocation.
PartAnswered(c) ==
    /\ client[c] = "waiting" /\ Answered(c)
    /\ IF response[c].status = 510
       THEN LET next == Head(response[c].missing)
            IN  IF next \in parts[c]
                THEN SendNext(c, next, parts[c] \ {next})
                ELSE Become(c, "failed")
       ELSE Become(c, IF Succeeded(c) THEN "done" ELSE "failed")
    /\ UNCHANGED <<handler, response, cache, view, faults>>

----------------------------------------------------------------------------
(* The server: handle, Execute and ExtractInvocation.                      *)

\* An HTTP server turns a header that is too large away before any handler.
Receive(c, t) ==
    /\ handler[c][t].pc = "receive"
    /\ \/ MayReject(handler[c][t].blocks) /\ Reply(c, t, 431, <<>>)
       \/ /\ handler' = [handler EXCEPT ![c][t].pc = "walk", ![c][t].queue = <<Root[c]>>]
          /\ UNCHANGED response
    /\ UNCHANGED <<clientVars, cache, view, faults>>

Walking(c, t) == handler[c][t].pc = "walk" /\ handler[c][t].queue # <<>>
Walked(c, t)  == handler[c][t].pc = "walk" /\ handler[c][t].queue = <<>>

\* The next link of the queue is in this request: its proofs are looked for too.
VisitNew(c, t) ==
    /\ Walking(c, t)
    /\ LET link == Head(handler[c][t].queue)
       IN  /\ link \in handler[c][t].blocks
           /\ handler' = [handler EXCEPT ![c][t].queue = Tail(@) \o Proofs[link],
                                         ![c][t].fresh = Append(@, link),
                                         ![c][t].dlgs  = @ \cup {link}]
    /\ UNCHANGED <<clientVars, response, cache, view, faults>>

\* It is in the cache.
VisitCached(c, t) ==
    /\ Walking(c, t)
    /\ LET link == Head(handler[c][t].queue)
       IN  /\ link \notin handler[c][t].blocks /\ link \in Range(cache.data)
           /\ cache' = CacheGet(link)
           /\ handler' = [handler EXCEPT ![c][t].queue = Tail(@) \o Proofs[link],
                                         ![c][t].dlgs  = @ \cup {link}]
    /\ UNCHANGED <<clientVars, response, view, faults>>

\* Mutant: a proof that is nowhere is passed over.
VisitMissingIgnored(c, t) ==
    /\ Walking(c, t)
    /\ LET link == Head(handler[c][t].queue)
       IN  /\ link \notin handler[c][t].blocks /\ link \notin Range(cache.data)
           /\ handler' = [handler EXCEPT ![c][t].queue = Tail(@)]
    /\ UNCHANGED <<clientVars, response, cache, view, faults>>

\* It is nowhere.
VisitMissing(c, t) ==
    /\ Walking(c, t)
    /\ LET link == Head(handler[c][t].queue)
       IN  /\ link \notin handler[c][t].blocks /\ link \notin Range(cache.data)
           /\ handler' = [handler EXCEPT ![c][t].queue = Tail(@), ![c][t].missing = Append(@, link)]
    /\ UNCHANGED <<clientVars, response, cache, view, faults>>

\* Something is missing: what came with the request is kept for the next one.
CacheNew(c, t) ==
    /\ Walked(c, t) /\ handler[c][t].missing # <<>> /\ handler[c][t].fresh # <<>>
    /\ cache' = CachePut(Head(handler[c][t].fresh))
    /\ handler' = [handler EXCEPT ![c][t].fresh = Tail(@)]
    /\ UNCHANGED <<clientVars, response, view, faults>>

NotExtended(c, t) ==
    /\ Walked(c, t) /\ handler[c][t].missing # <<>> /\ handler[c][t].fresh = <<>>
    /\ Reply(c, t, 510, handler[c][t].missing)
    /\ UNCHANGED <<clientVars, cache, view, faults>>

\* Run: the handler is called with the blocks of this request and of the
\* delegations that were walked.
Run(c, t) ==
    /\ Walked(c, t) /\ handler[c][t].missing = <<>>
    /\ view' = [view EXCEPT ![c][t] = handler[c][t].blocks \cup handler[c][t].dlgs]
    /\ \E status \in HandlerStatus : Reply(c, t, status, <<>>)
    /\ UNCHANGED <<clientVars, cache, faults>>

----------------------------------------------------------------------------
(* Faults.                                                                 *)

\* The connection is lost or the context canceled: Execute returns the error,
\* and the server goes on with the request it has.
Disconnect(c) ==
    /\ faults < MaxFaults /\ faults' = faults + 1
    /\ client[c] \in {"probing", "sending", "waiting"}
    /\ Become(c, "failed")
    /\ UNCHANGED <<handler, response, cache, view>>

\* The reused connection breaks before the answer arrives and net/http sends the
\* same request on a new one; Execute learns nothing of it, nor does a goroutine
\* that serves the first.
Resend(c) ==
    /\ client[c] \in {"probing", "waiting"}
    /\ \A d \in Client : try[d] < MaxResends
    /\ try' = [try EXCEPT ![c] = @ + 1]
    /\ Request(c, try'[c], Message(c))
    /\ UNCHANGED <<client, part, parts, cache, view, faults>>

\* The server restarts with an empty cache; requests being served are lost.
Restart ==
    /\ faults < MaxFaults /\ faults' = faults + 1
    /\ cache' = [cache EXCEPT !.data = <<>>]
    /\ handler' = [c \in Client |-> [t \in Try |-> NoRequest]]
    /\ UNCHANGED <<clientVars, response, view>>

\* The client of a request that was lost notices.
ConnectionReset(c) ==
    /\ client[c] \in {"probing", "waiting"}
    /\ handler[c][try[c]].pc = "idle" /\ ~Answered(c)
    /\ Become(c, "failed")
    /\ UNCHANGED <<handler, response, cache, view, faults>>

----------------------------------------------------------------------------
Init ==
    /\ client   = [c \in Client |-> "ready"]
    /\ part     = Root
    /\ parts    = [c \in Client |-> {}]
    /\ try      = [c \in Client |-> 0]
    /\ handler  = [c \in Client |-> [t \in Try |-> NoRequest]]
    /\ response = [c \in Client |-> NoResponse]
    /\ cache    \in [size : Capacities, data : {<<>>}]
    /\ view     = [c \in Client |-> [t \in Try |-> {}]]
    /\ faults   = 0

ClientStep(c) ==
    \/ Probe(c) \/ Probed(c) \/ SendPart(c) \/ PartAnswered(c)
    \/ ConnectionReset(c)

ServerStep(c, t) ==
    \/ Receive(c, t) \/ VisitNew(c, t) \/ VisitCached(c, t) \/ VisitMissing(c, t)
    \/ CacheNew(c, t) \/ NotExtended(c, t) \/ Run(c, t)

Next ==
    \/ \E c \in Client : ClientStep(c) \/ Disconnect(c) \/ Resend(c)
    \/ \E c \in Client, t \in Try : ServerStep(c, t)
    \/ Restart

Spec == Init /\ [][Next]_vars

\* No client has to wait for another and no goroutine for another: while one of
\* them can go on, one of them does.
FairSpec ==
    /\ Spec
    /\ WF_vars(\E c \in Client : ClientStep(c))
    /\ WF_vars(\E c \in Client, t \in Try : ServerStep(c, t))
----------------------------------------------------------------------------
(* Properties.                                                             *)

\* The types of the state; the cache is bounded and lists nothing twice, and what
\* is sent as a part is at hand (cache.go 14-43, connection.go 189-205).
TypeOK ==
    /\ client \in [Client -> {"ready", "probing", "sending", "waiting", "done", "failed"}]
    /\ part \in [Client -> Link]
    /\ parts \in [Client -> SUBSET Link]
    /\ try \in [Client -> Try]
    /\ handler \in [Client -> [Try -> Handlers]]
    /\ response \in [Client -> Responses]
    /\ cache \in [size : Capacities, data : Seq(Link)]
    /\ view \in [Client -> [Try -> SUBSET Block]]
    /\ faults \in 0..MaxFaults
    /\ Len(cache.data) <= cache.size /\ IsInjective(cache.data)
    /\ \A c \in Client : part[c] \in Attached[c] /\ parts[c] \subseteq Attached[c]

Pending == {"ready", "probing", "sending", "waiting"}

\* Execute over any number of requests is one remote invocation.
RPC == INSTANCE RemoteInvocation
         WITH outcome <- [c \in Client |-> IF client[c] \in Pending THEN "pending" ELSE client[c]]

\* However the requests of several clients share and displace each other's cache
\* entries, and wherever a request is lost or sent twice, a handler runs at most
\* once per Execute and resent request, never without a delegation its invocation
\* rests on, and a result comes from the run of the last request
\* (connection.go 131-273, server.go 306-428, transport/http/channel.go 76).
ImplementsRemoteInvocation == RPC!Spec

\* Every Execute returns, even with proofs that displace each other from the
\* cache for ever (connection.go 212-272).
ExecuteReturns == \A c \in Client : <>(client[c] \in {"done", "failed"})

\* A cache that never displaces a delegation.
CacheSuffices == IsFiniteSet(Link) /\ cache.size >= Cardinality(Link)

\* "The server caches proofs between requests, so each proof only needs to be sent
\* once per session" (connection.go 120-121): a server that was not restarted
\* never misses what this client has sent it.
NeverAskedTwice ==
    \A c \in Client : client[c] = "waiting" /\ faults = 0 /\ CacheSuffices
        => Range(response[c].missing) \cap (Attached[c] \ parts[c]) = {}

\* Without faults, an invocation whose parts all fit in a header is executed, and
\* Execute fails only if the handler does (connection.go 109-121).
ExecuteSucceeds ==
    \A c \in Client : CacheSuffices =>
        <>(client[c] = "done" \/ faults > 0 \/ response[c].status \in HandlerStatus \ {200, 206})

\* "Export ... the blocks for the delegation and it's proofs, as well as blocks
\* attached using Attach" (core/delegation/delegation.go 51-52): a handler finds
\* what the client attached to its invocation.
AttachmentsDelivered ==
    \A c \in Client : \A t \in Try : view[c][t] # {} => Extra[c] \subseteq view[c][t]
=============================================================================
