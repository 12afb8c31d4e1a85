-------------------------- MODULE RetrievalProofs --------------------------
(***************************************************************************)
(* Retrieval implements RemoteInvocation: for all clients, delegation      *)
(* graphs, header limits and cache sizes, and any number of faults and     *)
(* resent requests.  The inductive invariant of that does not mention the  *)
(* cache: what it forgets costs a result, never the completeness of a run. *)
(* A second one is about what a cache that forgets nothing saves.          *)
(***************************************************************************)
EXTENDS Retrieval, FiniteSetTheorems, TLAPS

----------------------------------------------------------------------------
(* Sequences.                                                              *)

\* What appending to a queue adds to it.
LEMMA RangeOfAppend ==
    ASSUME NEW S, NEW s \in Seq(S), NEW x \in S
    PROVE  Append(s, x) \in Seq(S) /\ Range(Append(s, x)) = Range(s) \cup {x}
<1> DEFINE t == Append(s, x)
<1>1. t \in Seq(S) /\ Len(t) = Len(s) + 1 /\ t[Len(s) + 1] = x
      /\ \A k \in 1..Len(s) : t[k] = s[k]
  OBVIOUS
<1>2. Len(s) \in Nat /\ DOMAIN s = 1..Len(s) /\ DOMAIN t = 1..Len(t)
  BY <1>1
<1>3. Range(t) \subseteq Range(s) \cup {x}
  <2> SUFFICES ASSUME NEW k \in 1..Len(s) + 1 PROVE t[k] \in Range(s) \cup {x}
    BY <1>1, <1>2 DEF Range
  <2>1. k \in 1..Len(s) \/ k = Len(s) + 1
    BY <1>2
  <2> QED BY <2>1, <1>1, <1>2 DEF Range
<1>4. Range(s) \subseteq Range(t)
  <2> SUFFICES ASSUME NEW k \in 1..Len(s) PROVE s[k] \in Range(t)
    BY <1>2 DEF Range
  <2>1. k \in 1..Len(t)
    BY <1>1, <1>2
  <2> QED BY <2>1, <1>1, <1>2 DEF Range
<1>5. x \in Range(t)
  <2>1. Len(s) + 1 \in 1..Len(t)
    BY <1>1, <1>2
  <2> QED BY <2>1, <1>1, <1>2 DEF Range
<1> QED BY <1>1, <1>3, <1>4, <1>5

\* A queue is its head and its tail, and what is put behind it.
LEMMA RangeOfNext ==
    ASSUME NEW S, NEW s \in Seq(S), s # <<>>, NEW t \in Seq(S)
    PROVE  /\ Head(s) \in S /\ Tail(s) \in Seq(S) /\ Tail(s) \o t \in Seq(S)
           /\ Range(s) \subseteq {Head(s)} \cup Range(Tail(s))
           /\ Range(Tail(s)) \cup Range(t) \subseteq Range(Tail(s) \o t)
<1> DEFINE u == Tail(s)
<1> DEFINE w == u \o t
<1>1. Head(s) \in S /\ u \in Seq(S) /\ w \in Seq(S) /\ Head(s) = s[1]
  OBVIOUS
<1>2. Len(s) \in Nat \ {0} /\ Len(u) = Len(s) - 1 /\ \A k \in 1..Len(u) : u[k] = s[k + 1]
  OBVIOUS
<1>3. Len(u) \in Nat /\ Len(t) \in Nat /\ Len(w) = Len(u) + Len(t)
      /\ (\A k \in 1..Len(u) : w[k] = u[k]) /\ \A k \in 1..Len(t) : w[Len(u) + k] = t[k]
  BY <1>1
<1>4. DOMAIN s = 1..Len(s) /\ DOMAIN u = 1..Len(u) /\ DOMAIN t = 1..Len(t) /\ DOMAIN w = 1..Len(w)
  BY <1>1
<1> HIDE DEF u, w
<1>5. Range(s) \subseteq {Head(s)} \cup Range(u)
  <2> SUFFICES ASSUME NEW k \in 1..Len(s), k # 1 PROVE s[k] \in Range(u)
    BY <1>1, <1>4 DEF Range
  <2>1. k - 1 \in 1..Len(u) /\ (k - 1) + 1 = k
    BY <1>2
  <2>2. u[k - 1] = s[k]
    BY <2>1, <1>2
  <2> QED BY <2>1, <2>2, <1>4 DEF Range
<1>6. Range(u) \subseteq Range(w)
  <2> SUFFICES ASSUME NEW k \in 1..Len(u) PROVE u[k] \in Range(w)
    BY <1>4 DEF Range
  <2>1. k \in 1..Len(w)
    BY <1>3
  <2> QED BY <2>1, <1>3, <1>4 DEF Range
<1>7. Range(t) \subseteq Range(w)
  <2> SUFFICES ASSUME NEW k \in 1..Len(t) PROVE t[k] \in Range(w)
    BY <1>4 DEF Range
  <2>1. Len(u) + k \in 1..Len(w)
    BY <1>3
  <2> QED BY <2>1, <1>3, <1>4 DEF Range
<1> QED BY <1>1, <1>5, <1>6, <1>7 DEF u, w

\* One queue behind another.
LEMMA RangeOfCat ==
    ASSUME NEW S, NEW s \in Seq(S), NEW t \in Seq(S)
    PROVE  Range(s \o t) \subseteq Range(s) \cup Range(t)
<1> DEFINE w == s \o t
<1>1. /\ Len(s) \in Nat /\ Len(t) \in Nat /\ DOMAIN w = 1..Len(s) + Len(t)
      /\ DOMAIN s = 1..Len(s) /\ DOMAIN t = 1..Len(t)
      /\ (\A k \in 1..Len(s) : w[k] = s[k]) /\ \A k \in 1..Len(t) : w[Len(s) + k] = t[k]
  OBVIOUS
<1> HIDE DEF w
<1>2. ASSUME NEW k \in 1..Len(s) + Len(t) PROVE w[k] \in Range(s) \cup Range(t)
  <2>1. CASE k <= Len(s)
    <3>1. k \in 1..Len(s)
      BY <1>1, <2>1
    <3> QED BY <1>1, <3>1 DEF Range
  <2>2. CASE ~(k <= Len(s))
    <3> DEFINE n == k - Len(s)
    <3>1. n \in 1..Len(t) /\ Len(s) + n = k
      BY <1>1, <2>2
    <3>2. w[k] = t[n]
      BY <1>1, <3>1
    <3> HIDE DEF n
    <3> QED BY <1>1, <3>1, <3>2 DEF Range
  <2> QED BY <2>1, <2>2
<1> QED BY <1>1, <1>2 DEF Range, w

\* The head of a nonempty sequence.
LEMMA HeadOfSeq ==
    ASSUME NEW S, NEW s \in Seq(S), s # <<>>
    PROVE  Head(s) \in S /\ Tail(s) \in Seq(S)
OBVIOUS

\* A queue of one.
LEMMA RangeOfOne ==
    ASSUME NEW S, NEW x \in S
    PROVE  <<x>> \in Seq(S) /\ <<x>> # <<>> /\ Range(<<x>>) = {x} /\ Range(<<>>) = {}
BY DEF Range

----------------------------------------------------------------------------
(* The inductive invariant.                                                *)

Types ==
    /\ client \in [Client -> {"ready", "probing", "sending", "waiting", "done", "failed"}]
    /\ part \in [Client -> Link]
    /\ parts \in [Client -> SUBSET Link]
    /\ try \in [Client -> Try]
    /\ handler \in [Client -> [Try -> Handlers]]
    /\ response \in [Client -> Responses]
    /\ view \in [Client -> [Try -> SUBSET Block]]

\* A try has no request and no run yet.
Unused(c, t) == handler[c][t].pc = "idle" /\ view[c][t] = {}

\* There is at most one request for each try, and none after the handler has run;
\* an answer is that of the current try.
OneRequest(c) ==
    /\ client[c] \in {"ready", "sending"} => Unused(c, try[c])
    /\ \A t \in Try : /\ t > try[c] => Unused(c, t)
                      /\ handler[c][t].pc # "idle" => view[c][t] = {}
    /\ handler[c][try[c]].pc # "idle" => response[c].status = 0
    /\ response[c].status \in {431, 510} => view[c][try[c]] = {}
    /\ response[c].status \in HandlerStatus => view[c][try[c]] # {}

\* Whatever a walked delegation rests on was walked, is queued or is missing.
Frontier(h) == h.dlgs \cup Range(h.queue) \cup Range(h.missing)

\* The walk of the invocation at link root.
WalkFrom(root, h) ==
    /\ h.pc = "receive" => h.dlgs = {}
    /\ h.pc = "walk" => root \in Frontier(h)
    /\ \A l \in h.dlgs : Range(Proofs[l]) \subseteq Frontier(h)

Closing(c) == \A t \in Try : WalkFrom(Root[c], handler[c][t])

IInv == Types /\ \A c \in Client : OneRequest(c) /\ Closing(c)

----------------------------------------------------------------------------
(* A step of client c, or of its request, says nothing of another one.     *)

Others(c) ==
    \A d \in Client \ {c} : /\ client'[d] = client[d] /\ handler'[d] = handler[d]
                            /\ response'[d] = response[d] /\ view'[d] = view[d]
                            /\ try'[d] = try[d]

\* So the invariant of the others is kept.
LEMMA OthersKeep ==
    ASSUME NEW c \in Client, IInv, Types', Others(c), OneRequest(c)', Closing(c)'
    PROVE  IInv'
<1>1. ASSUME NEW d \in Client \ {c} PROVE OneRequest(d)' /\ Closing(d)'
  <2>1. /\ client'[d] = client[d] /\ handler'[d] = handler[d] /\ try'[d] = try[d]
        /\ response'[d] = response[d] /\ view'[d] = view[d]
    BY DEF Others
  <2>2. OneRequest(d) /\ Closing(d)
    BY DEF IInv
  <2>3. OneRequest(d)'
    BY <2>1, <2>2 DEF OneRequest, Unused
  <2>4. Closing(d)'
    BY <2>1, <2>2 DEF Closing, WalkFrom, Frontier
  <2> QED BY <2>3, <2>4
<1> QED BY <1>1 DEF IInv

\* The client's part of a step, where only its own state changes.
LEMMA ClientMoves ==
    ASSUME IInv, NEW c \in Client, NEW to \in {"probing", "waiting", "done", "failed"},
           Become(c, to), UNCHANGED <<handler, response, view>>
    PROVE  IInv'
<1>1. Types'
  BY DEF IInv, Types, Become
<1>2. Others(c)
  BY DEF IInv, Types, Become, Others
<1>3. OneRequest(c)' /\ Closing(c)'
  BY DEF IInv, Types, Become, OneRequest, Closing, WalkFrom, Frontier, Unused
<1> QED BY <1>1, <1>2, <1>3, OthersKeep

\* A client decides on its next part only while it has no request.
LEMMA ClientDecides ==
    ASSUME IInv, NEW c \in Client, NEW link \in Link, NEW rest \in SUBSET Link,
           SendNext(c, link, rest), UNCHANGED <<handler, response, view>>,
           Unused(c, try[c])
    PROVE  IInv'
<1>1. Types'
  BY DEF IInv, Types, SendNext
<1>2. Others(c)
  BY DEF IInv, Types, SendNext, Others
<1>3. OneRequest(c)' /\ Closing(c)'
  BY DEF IInv, Types, SendNext, OneRequest, Closing, WalkFrom, Frontier, Unused
<1> QED BY <1>1, <1>2, <1>3, OthersKeep

\* Splitting an invocation.
LEMMA Splits ==
    ASSUME IInv, NEW c \in Client, Split(c), UNCHANGED <<handler, response, view>>,
           Unused(c, try[c])
    PROVE  IInv'
<1>1. Root[c] \in Link /\ Attached[c] \in SUBSET Link
  BY RetrievalAssumption
<1>2. CASE Become(c, "failed")
  BY <1>2, ClientMoves
<1>3. CASE SendNext(c, Root[c], Attached[c] \ {Root[c]})
  BY <1>3, <1>1, ClientDecides
<1> QED BY <1>2, <1>3 DEF Split

\* Only one try of one client changes.
LEMMA OneSlot ==
    ASSUME IInv, NEW c \in Client, NEW t \in Try, NEW g \in Handlers,
           handler' = [handler EXCEPT ![c][t] = g]
    PROVE  /\ handler' \in [Client -> [Try -> Handlers]]
           /\ handler'[c][t] = g
           /\ \A s \in Try \ {t} : handler'[c][s] = handler[c][s]
           /\ \A d \in Client \ {c} : handler'[d] = handler[d]
<1>1. handler \in [Client -> [Try -> Handlers]]
  BY DEF IInv, Types
<1> QED BY <1>1

\* Sending a request, for the first time or again, as a try that is not used yet.
LEMMA Requests ==
    ASSUME IInv, NEW c \in Client, NEW t \in Try, NEW blocks \in SUBSET Block,
           Request(c, t, blocks), Unused(c, t), t >= try[c], UNCHANGED <<part, parts, view>>,
           try' = [try EXCEPT ![c] = t],
           NEW to \in {"probing", "waiting"}, client' = [client EXCEPT ![c] = to]
    PROVE  IInv'
<1> DEFINE h == NewHandler("receive", blocks)
<1>1. h \in Handlers /\ h.pc = "receive" /\ h.dlgs = {}
      /\ NoResponse \in Responses /\ NoResponse.status = 0
  BY DEF NewHandler, NoResponse, Handlers, Responses
<1> HIDE DEF h
<1>2. handler' = [handler EXCEPT ![c][t] = h] /\ response' = [response EXCEPT ![c] = NoResponse]
  BY DEF Request, h
<1>3. /\ handler' \in [Client -> [Try -> Handlers]]
      /\ handler'[c][t] = h
      /\ \A s \in Try \ {t} : handler'[c][s] = handler[c][s]
      /\ \A d \in Client \ {c} : handler'[d] = handler[d]
  BY <1>1, <1>2, OneSlot, Zenon
<1>4. Types'
  BY <1>1, <1>2, <1>3 DEF IInv, Types
<1>5. Others(c)
  BY <1>2, <1>3 DEF IInv, Types, Others
<1>6. /\ response'[c] = NoResponse /\ client'[c] = to /\ try'[c] = t /\ view' = view
      /\ try[c] \in Int /\ t \in Int
  BY <1>2, RetrievalAssumption DEF IInv, Types, Try
<1>7. \A s \in Try : /\ s > t => Unused(c, s)'
                     /\ handler'[c][s].pc # "idle" => view'[c][s] = {}
  <2> SUFFICES ASSUME NEW s \in Try
               PROVE  /\ s > t => Unused(c, s)'
                      /\ handler'[c][s].pc # "idle" => view'[c][s] = {}
    OBVIOUS
  <2>1. CASE s = t
    BY <1>3, <1>6, <2>1 DEF Unused
  <2>2. CASE s # t
    <3>1. handler'[c][s] = handler[c][s] /\ s \in Int
      BY <1>3, <2>2, RetrievalAssumption DEF Try
    <3>2. s > t => s > try[c]
      BY <1>6, <3>1
    <3> QED BY <1>6, <3>1, <3>2 DEF IInv, OneRequest, Unused
  <2> QED BY <2>1, <2>2
<1>8. OneRequest(c)'
  BY <1>1, <1>3, <1>6, <1>7, RetrievalAssumption DEF OneRequest
<1>9. Closing(c)'
  BY <1>1, <1>3 DEF IInv, Closing, WalkFrom, Frontier
<1> QED BY <1>4, <1>5, <1>8, <1>9, OthersKeep

\* What the handler of other tries ran with stays.
OneView(c, t) ==
    /\ \A s \in Try \ {t} : view'[c][s] = view[c][s]
    /\ \A d \in Client \ {c} : view'[d] = view[d]

\* Answering a request: with the handler's status exactly if it has run.
LEMMA Replies ==
    ASSUME IInv, NEW c \in Client, NEW t \in Try,
           NEW status \in HandlerStatus \cup {431, 510}, NEW missing \in Seq(Link),
           Reply(c, t, status, missing),
           UNCHANGED <<client, part, parts, try>>, handler[c][t].pc # "idle",
           view' \in [Client -> [Try -> SUBSET Block]], OneView(c, t),
           status \in {431, 510} => view'[c][t] = {},
           status \in HandlerStatus => view'[c][t] # {}
    PROVE  IInv'
<1> DEFINE r == [status |-> status, missing |-> missing]
<1>1. NoRequest \in Handlers /\ NoRequest.pc = "idle" /\ NoRequest.dlgs = {} /\ r \in Responses /\ r.status = status
  BY DEF NoRequest, NewHandler, Handlers, Responses
<1> HIDE DEF r
<1>2. /\ handler' = [handler EXCEPT ![c][t] = NoRequest]
      /\ response' = [response EXCEPT
                        ![c] = IF t = try[c] /\ client[c] \in {"probing", "waiting"} THEN r ELSE @]
  BY DEF Reply, r
<1>3. /\ handler' \in [Client -> [Try -> Handlers]]
      /\ handler'[c][t] = NoRequest
      /\ \A s \in Try \ {t} : handler'[c][s] = handler[c][s]
      /\ \A d \in Client \ {c} : handler'[d] = handler[d]
  <2>1. NoRequest \in Handlers /\ handler \in [Client -> [Try -> Handlers]]
    BY <1>1 DEF IInv, Types
  <2> QED BY <1>2, <2>1
<1>4. /\ view' \in [Client -> [Try -> SUBSET Block]]
      /\ \A s \in Try \ {t} : view'[c][s] = view[c][s]
      /\ \A d \in Client \ {c} : view'[d] = view[d]
  BY DEF OneView
<1>5. client' = client /\ part' = part /\ parts' = parts /\ try' = try
  OBVIOUS
<1> DEFINE x == IF t = try[c] /\ client[c] \in {"probing", "waiting"} THEN r ELSE response[c]
<1>20. x \in Responses /\ response \in [Client -> Responses]
  BY <1>1 DEF IInv, Types
<1>21. response' = [response EXCEPT ![c] = x]
  BY <1>2
<1>6. response' \in [Client -> Responses]
      /\ response'[c] = x
      /\ \A d \in Client \ {c} : response'[d] = response[d]
  <2> HIDE DEF x
  <2> QED BY <1>20, <1>21
<1>7. Types'
  BY <1>3, <1>4, <1>5, <1>6 DEF IInv, Types
<1>8. Others(c)
  BY <1>3, <1>4, <1>5, <1>6 DEF Others
<1>9. ~(t > try[c]) /\ (client[c] \in {"ready", "sending"} => t # try[c])
      /\ (t = try[c] => response[c].status = 0)
  BY DEF IInv, OneRequest, Unused
<1>10. try[c] \in Try
  BY DEF IInv, Types
<1>11. \A s \in Try : /\ s > try[c] => Unused(c, s)'
                      /\ handler'[c][s].pc # "idle" => view'[c][s] = {}
  BY <1>1, <1>3, <1>4, <1>9 DEF IInv, OneRequest, Unused
<1>22. OneRequest(c) /\ Closing(c)
  BY DEF IInv
<1>12. client[c] \in {"ready", "sending"} => Unused(c, try[c])'
  <2> SUFFICES ASSUME client[c] \in {"ready", "sending"} PROVE Unused(c, try[c])'
    OBVIOUS
  <2>1. try[c] \in Try \ {t} /\ Unused(c, try[c])
    BY <1>9, <1>10, <1>22 DEF OneRequest
  <2>2. handler'[c][try[c]] = handler[c][try[c]] /\ view'[c][try[c]] = view[c][try[c]]
    BY <1>3, <1>4, <2>1
  <2> QED BY <1>5, <2>1, <2>2 DEF Unused
<1>13. /\ handler'[c][try[c]].pc # "idle" => response'[c].status = 0
       /\ response'[c].status \in {431, 510} => view'[c][try[c]] = {}
       /\ response'[c].status \in HandlerStatus => view'[c][try[c]] # {}
  <2>1. CASE t = try[c] /\ client[c] \in {"probing", "waiting"}
    BY <1>1, <1>3, <1>4, <1>6, <2>1
  <2>2. CASE t = try[c] /\ client[c] \notin {"probing", "waiting"}
    <3>1. response'[c].status = 0
      BY <1>6, <1>9, <2>2
    <3> QED BY <3>1, RetrievalAssumption
  <2>3. CASE t # try[c]
    <3>1. handler'[c][try[c]] = handler[c][try[c]] /\ view'[c][try[c]] = view[c][try[c]]
          /\ response'[c] = response[c]
      BY <1>3, <1>4, <1>6, <1>10, <2>3
    <3> QED BY <1>22, <3>1 DEF OneRequest
  <2> QED BY <2>1, <2>2, <2>3
<1>14. OneRequest(c)'
  BY <1>5, <1>11, <1>12, <1>13 DEF OneRequest
<1>15. Closing(c)'
  <2> SUFFICES ASSUME NEW s \in Try PROVE WalkFrom(Root[c], handler'[c][s])
    BY DEF Closing
  <2>1. CASE s = t
    BY <1>1, <1>3, <2>1 DEF WalkFrom
  <2>2. CASE s # t
    BY <1>3, <1>22, <2>2 DEF Closing
  <2> QED BY <2>1, <2>2
<1> QED BY <1>7, <1>8, <1>14, <1>15, OthersKeep

\* A reply without a run.
LEMMA Refuses ==
    ASSUME IInv, NEW c \in Client, NEW t \in Try, NEW status \in {431, 510},
           NEW missing \in Seq(Link), Reply(c, t, status, missing),
           UNCHANGED <<client, part, parts, try, view>>, handler[c][t].pc # "idle"
    PROVE  IInv'
<1>1. view[c][t] = {} /\ view \in [Client -> [Try -> SUBSET Block]] /\ view' = view
  BY DEF IInv, OneRequest, Types
<1>2. view' \in [Client -> [Try -> SUBSET Block]] /\ OneView(c, t) /\ view'[c][t] = {}
  BY <1>1 DEF OneView
<1>3. status \notin HandlerStatus
  BY RetrievalAssumption
<1>4. status \in HandlerStatus \cup {431, 510} /\ UNCHANGED <<client, part, parts, try>>
  OBVIOUS
<1> QED BY <1>2, <1>3, <1>4, Replies

\* A step of the walk, from h to g.
LEMMA Walks ==
    ASSUME IInv, NEW c \in Client, NEW t \in Try, NEW g \in Handlers,
           handler' = [handler EXCEPT ![c][t] = g], handler[c][t].pc # "idle", g.pc = "walk",
           UNCHANGED <<client, part, parts, try, response, view>>,
           Root[c] \in Frontier(g), \A l \in g.dlgs : Range(Proofs[l]) \subseteq Frontier(g)
    PROVE  IInv'
<1>1. /\ handler' \in [Client -> [Try -> Handlers]]
      /\ handler'[c][t] = g
      /\ \A s \in Try \ {t} : handler'[c][s] = handler[c][s]
      /\ \A d \in Client \ {c} : handler'[d] = handler[d]
  BY OneSlot
<1>2. /\ client' = client /\ part' = part /\ parts' = parts /\ try' = try
      /\ response' = response /\ view' = view
  OBVIOUS
<1>3. Types'
  BY <1>1, <1>2 DEF IInv, Types
<1>4. Others(c)
  BY <1>1, <1>2 DEF Others
<1>5. \A s \in Try : handler'[c][s].pc = "idle" <=> handler[c][s].pc = "idle"
  BY <1>1
<1>6. try[c] \in Try
  BY DEF IInv, Types
<1>9. OneRequest(c)
  BY DEF IInv
<1>7. OneRequest(c)'
  BY <1>2, <1>5, <1>6, <1>9 DEF OneRequest, Unused
<1>8. Closing(c)'
  BY <1>1 DEF IInv, Closing, WalkFrom
<1> QED BY <1>3, <1>4, <1>7, <1>8, OthersKeep

----------------------------------------------------------------------------
(* The invariant holds.                                                    *)

\* The parts of the invariant at a request that is being walked.
LEMMA Walker ==
    ASSUME IInv, NEW c \in Client, NEW t \in Try, handler[c][t].pc = "walk"
    PROVE  /\ handler[c][t] \in Handlers
           /\ Root[c] \in Frontier(handler[c][t])
           /\ \A l \in handler[c][t].dlgs : Range(Proofs[l]) \subseteq Frontier(handler[c][t])
           /\ view[c][t] = {} /\ t <= try[c]
<1>1. t \in Int /\ try[c] \in Int
  BY RetrievalAssumption DEF IInv, Types, Try
<1>2. handler[c][t] \in Handlers /\ OneRequest(c) /\ WalkFrom(Root[c], handler[c][t])
  BY DEF IInv, Types, Closing
<1>3. view[c][t] = {} /\ t <= try[c]
  BY <1>1, <1>2 DEF OneRequest, Unused
<1> QED BY <1>2, <1>3 DEF WalkFrom

\* Visiting a link: its proofs are queued.
LEMMA Visits ==
    ASSUME IInv, NEW c \in Client, NEW t \in Try, Walking(c, t), NEW fresh \in Seq(Link),
           NEW g, g = [handler[c][t] EXCEPT !.queue = Tail(@) \o Proofs[Head(handler[c][t].queue)],
                                         !.fresh = fresh,
                                         !.dlgs  = @ \cup {Head(handler[c][t].queue)}],
           handler' = [handler EXCEPT ![c][t] = g],
           UNCHANGED <<client, part, parts, try, response, view>>
    PROVE  IInv'
<1> DEFINE h == handler[c][t]
<1> DEFINE link == Head(h.queue)
<1>1. h \in Handlers /\ h.queue \in Seq(Link) /\ h.queue # <<>> /\ h.pc = "walk"
  BY Walker DEF Walking, Handlers
<1>2. link \in Link /\ Tail(h.queue) \in Seq(Link)
  BY <1>1, HeadOfSeq
<1>3. Proofs[link] \in Seq(Link)
  BY <1>2, RetrievalAssumption DEF TypeOfProofs
<1>4. /\ Tail(h.queue) \o Proofs[link] \in Seq(Link)
      /\ Range(h.queue) \subseteq {link} \cup Range(Tail(h.queue))
      /\ Range(Tail(h.queue)) \cup Range(Proofs[link]) \subseteq Range(Tail(h.queue) \o Proofs[link])
  BY <1>1, <1>3, RangeOfNext
<1>5. g \in Handlers /\ g.pc = "walk" /\ g.queue = Tail(h.queue) \o Proofs[link]
      /\ g.dlgs = h.dlgs \cup {link} /\ g.missing = h.missing
  BY <1>1, <1>2, <1>4 DEF Handlers
<1> HIDE DEF link, h
<1>6. Frontier(h) \subseteq Frontier(g)
  BY <1>4, <1>5 DEF Frontier
<1>7. Range(Proofs[link]) \subseteq Frontier(g)
  BY <1>4, <1>5 DEF Frontier
<1>8. Root[c] \in Frontier(g) /\ \A l \in g.dlgs : Range(Proofs[l]) \subseteq Frontier(g)
  BY <1>1, <1>5, <1>6, <1>7, Walker DEF h
<1> QED BY <1>1, <1>5, <1>8, Walks DEF h

\* A walk that is finished and misses nothing is closed.
LEMMA RunFrontier ==
    ASSUME NEW h, h.queue = <<>>, h.missing = <<>>
    PROVE  Frontier(h) = h.dlgs
BY DEF Frontier, Range

\* The initial state satisfies the invariant.
LEMMA InitIInv == ASSUME Init PROVE IInv
<1>1. NoRequest \in Handlers /\ NoRequest.pc = "idle" /\ NoRequest.dlgs = {}
  BY DEF NoRequest, NewHandler, Handlers
<1>2. NoResponse \in Responses /\ NoResponse.status = 0
  BY DEF NoResponse, Responses
<1>3. 0 \in Try
  BY RetrievalAssumption DEF Try
<1>4. Types
  BY <1>1, <1>2, <1>3, RetrievalAssumption DEF Init, Types
<1>5. ASSUME NEW c \in Client PROVE OneRequest(c) /\ Closing(c)
  BY <1>1, <1>2, <1>3, RetrievalAssumption DEF Init, OneRequest, Closing, WalkFrom, Unused
<1> QED BY <1>4, <1>5 DEF IInv

\* Every step keeps the invariant.
LEMMA StepIInv == ASSUME IInv, [Next]_vars PROVE IInv'
<1>0. Root \in [Client -> Link] /\ Link \subseteq Block
      /\ \A c \in Client : Attached[c] \in SUBSET Link /\ Extra[c] \in SUBSET Block
  BY RetrievalAssumption
<1>100. /\ \A c \in Client : try[c] \in Try /\ try[c] >= try[c]
        /\ try = [c \in Client |-> try[c]] /\ client = [c \in Client |-> client[c]]
  BY RetrievalAssumption DEF IInv, Types, Try
<1>101. \A c \in Client : Message(c) \in SUBSET Block
  <2> TAKE c \in Client
  <2>1. {part[c]} \in SUBSET Block
    BY <1>0 DEF IInv, Types
  <2>2. Attached[c] \cup Extra[c] \in SUBSET Block
    BY <1>0
  <2> QED BY <2>1, <2>2 DEF Message
<1>1. ASSUME NEW c \in Client, Probe(c) PROVE IInv'
  <2>1. Unused(c, try[c]) /\ client[c] = "ready"
    BY <1>1 DEF Probe, IInv, OneRequest
  <2>2. CASE TooLarge(Message(c))
    BY <1>1, <2>1, <2>2, Splits DEF Probe
  <2>3. CASE ~TooLarge(Message(c))
    <3>1. Become(c, "probing") /\ Request(c, try[c], Message(c)) /\ UNCHANGED view
      BY <1>1, <2>3 DEF Probe
    <3>2. try' = [try EXCEPT ![c] = try[c]]
      BY <1>100, <3>1 DEF Become
    <3> QED BY <1>100, <1>101, <2>1, <3>1, <3>2, Requests DEF Become
  <2> QED BY <2>2, <2>3
<1>2. ASSUME NEW c \in Client, Probed(c) PROVE IInv'
  <2>1. UNCHANGED <<handler, response, view>> /\ Answered(c)
    BY <1>2 DEF Probed
  <2>2. CASE response[c].status = 431
    <3>1. Unused(c, try[c])
      BY <2>1, <2>2 DEF IInv, OneRequest, Answered, Unused
    <3> QED BY <1>2, <2>1, <2>2, <3>1, Splits DEF Probed
  <2>3. CASE response[c].status # 431
    <3>1. PICK to \in {"done", "failed"} : Become(c, to)
      BY <1>2, <2>3 DEF Probed
    <3> QED BY <2>1, <3>1, ClientMoves
  <2> QED BY <2>2, <2>3
<1>3. ASSUME NEW c \in Client, SendPart(c) PROVE IInv'
  <2>1. CASE TooLarge(Message(c))
    <3>1. Become(c, "failed") /\ UNCHANGED <<handler, response, view>>
      BY <1>3, <2>1 DEF SendPart
    <3> QED BY <3>1, ClientMoves
  <2>2. CASE ~TooLarge(Message(c))
    <3>1. Become(c, "waiting") /\ Request(c, try[c], Message(c)) /\ UNCHANGED view
          /\ Unused(c, try[c])
      BY <1>3, <2>2 DEF SendPart, IInv, OneRequest
    <3>2. try' = [try EXCEPT ![c] = try[c]]
      BY <1>100, <3>1 DEF Become
    <3> QED BY <1>100, <1>101, <3>1, <3>2, Requests DEF Become
  <2> QED BY <2>1, <2>2
<1>4. ASSUME NEW c \in Client, PartAnswered(c) PROVE IInv'
  <2> DEFINE next == Head(response[c].missing)
  <2>1. UNCHANGED <<handler, response, view>> /\ Answered(c)
    BY <1>4 DEF PartAnswered
  <2>2. CASE response[c].status = 510 /\ next \in parts[c]
    <3>1. Unused(c, try[c])
      BY <2>1, <2>2 DEF IInv, OneRequest, Answered, Unused
    <3>2. SendNext(c, next, parts[c] \ {next})
      BY <1>4, <2>2 DEF PartAnswered
    <3>3. next \in Link /\ parts[c] \ {next} \in SUBSET Link
      BY <2>2 DEF IInv, Types
    <3> QED BY <2>1, <3>1, <3>2, <3>3, ClientDecides
  <2>3. CASE ~(response[c].status = 510 /\ next \in parts[c])
    <3>1. PICK to \in {"done", "failed"} : Become(c, to)
      BY <1>4, <2>3 DEF PartAnswered
    <3> QED BY <2>1, <3>1, ClientMoves
  <2> QED BY <2>2, <2>3
<1>5. ASSUME NEW c \in Client, ConnectionReset(c) PROVE IInv'
  BY <1>5, ClientMoves DEF ConnectionReset
<1>6. ASSUME NEW c \in Client, Disconnect(c) PROVE IInv'
  BY <1>6, ClientMoves DEF Disconnect
<1>7. ASSUME NEW c \in Client, NEW t \in Try, Receive(c, t) PROVE IInv'
  <2>1. UNCHANGED <<client, part, parts, try, view>> /\ handler[c][t].pc = "receive" /\ handler[c][t] \in Handlers
    BY <1>7 DEF Receive, clientVars, IInv, Types
  <2>2. CASE Reply(c, t, 431, <<>>)
    <3> DEFINE missing == <<>>
               status  == 431
    <3>1. missing \in Seq(Link) /\ status \in {431, 510}
      OBVIOUS
    <3>2. UNCHANGED <<client, part, parts, try, view>> /\ handler[c][t].pc # "idle"
      BY <2>1
    <3>3. Reply(c, t, status, missing)
      BY <2>2
    <3> HIDE DEF missing, status
    <3> QED BY <3>1, <3>2, <3>3, Refuses
  <2>3. CASE handler' = [handler EXCEPT ![c][t].pc = "walk", ![c][t].queue = <<Root[c]>>]
             /\ UNCHANGED response
    <3> DEFINE g == [handler[c][t] EXCEPT !.pc = "walk", !.queue = <<Root[c]>>]
    <3>1. handler' = [handler EXCEPT ![c][t] = g]
      BY <2>3 DEF IInv, Types
    <3>2. Root[c] \in Link /\ <<Root[c]>> \in Seq(Link) /\ Range(<<Root[c]>>) = {Root[c]}
      BY <1>0, RangeOfOne
    <3>3. g \in Handlers /\ g.pc = "walk" /\ g.queue = <<Root[c]>> /\ g.dlgs = handler[c][t].dlgs
      BY <2>1, <3>2 DEF Handlers
    <3>4. handler[c][t].dlgs = {}
      BY <2>1 DEF IInv, Closing, WalkFrom
    <3>5. Root[c] \in Frontier(g) /\ \A l \in g.dlgs : Range(Proofs[l]) \subseteq Frontier(g)
      BY <3>2, <3>3, <3>4 DEF Frontier
    <3>6. UNCHANGED <<client, part, parts, try, response, view>> /\ handler[c][t].pc # "idle"
      BY <2>1, <2>3
    <3> HIDE DEF g
    <3> QED BY <3>1, <3>3, <3>5, <3>6, Walks
  <2> QED BY <1>7, <2>2, <2>3 DEF Receive
<1>8. ASSUME NEW c \in Client, NEW t \in Try, VisitNew(c, t) PROVE IInv'
  <2> DEFINE h == handler[c][t]
  <2> DEFINE link == Head(h.queue)
  <2>1. Walking(c, t) /\ UNCHANGED <<client, part, parts, try, response, view>>
    BY <1>8 DEF VisitNew, clientVars
  <2>2. h \in Handlers /\ h.queue # <<>>
    BY <2>1, Walker DEF Walking
  <2>3. link \in Link
    BY <2>2, HeadOfSeq DEF Handlers
  <2>4. Append(h.fresh, link) \in Seq(Link)
    BY <2>2, <2>3, RangeOfAppend DEF Handlers
  <2> DEFINE g == [h EXCEPT !.queue = Tail(@) \o Proofs[link],
                            !.fresh = Append(h.fresh, link), !.dlgs = @ \cup {link}]
  <2>5. handler' = [handler EXCEPT ![c][t] = g]
    BY <1>8 DEF VisitNew, clientVars
  <2> QED BY <2>1, <2>4, <2>5, Visits
<1>9. ASSUME NEW c \in Client, NEW t \in Try, VisitCached(c, t) PROVE IInv'
  <2> DEFINE h == handler[c][t]
  <2> DEFINE link == Head(h.queue)
  <2>1. Walking(c, t) /\ UNCHANGED <<client, part, parts, try, response, view>>
    BY <1>9 DEF VisitCached, clientVars
  <2>2. h \in Handlers /\ h.fresh \in Seq(Link)
    BY <2>1, Walker DEF Walking, Handlers
  <2> DEFINE g == [h EXCEPT !.queue = Tail(@) \o Proofs[link],
                            !.fresh = h.fresh, !.dlgs = @ \cup {link}]
  <2>3. handler' = [handler EXCEPT ![c][t] = g]
    BY <1>9, <2>2 DEF VisitCached, Handlers
  <2> QED BY <2>1, <2>2, <2>3, Visits
<1>10. ASSUME NEW c \in Client, NEW t \in Try, VisitMissing(c, t) PROVE IInv'
  <2> DEFINE h == handler[c][t]
  <2> DEFINE link == Head(h.queue)
  <2> DEFINE g == [h EXCEPT !.queue = Tail(@), !.missing = Append(@, link)]
  <2>1. Walking(c, t) /\ UNCHANGED <<client, part, parts, try, response, view>>
    BY <1>10 DEF VisitMissing, clientVars
  <2>2. h \in Handlers /\ h.queue \in Seq(Link) /\ h.queue # <<>> /\ h.missing \in Seq(Link)
        /\ h.pc = "walk"
    BY <2>1, Walker DEF Walking, Handlers
  <2>3. link \in Link /\ Tail(h.queue) \in Seq(Link) /\ <<>> \in Seq(Link)
    BY <2>2, HeadOfSeq
  <2>4. Range(h.queue) \subseteq {link} \cup Range(Tail(h.queue))
    BY <2>2, <2>3, RangeOfNext
  <2>5. Append(h.missing, link) \in Seq(Link)
        /\ Range(Append(h.missing, link)) = Range(h.missing) \cup {link}
    BY <2>2, <2>3, RangeOfAppend
  <2>6. g \in Handlers /\ g.pc = "walk" /\ g.queue = Tail(h.queue)
        /\ g.missing = Append(h.missing, link) /\ g.dlgs = h.dlgs
    BY <2>2, <2>3, <2>5 DEF Handlers
  <2>7. handler' = [handler EXCEPT ![c][t] = g]
    BY <1>10 DEF VisitMissing, clientVars
  <2> HIDE DEF link, g
  <2>8. Frontier(h) \subseteq Frontier(g)
    BY <2>4, <2>5, <2>6 DEF Frontier
  <2>9. Root[c] \in Frontier(g) /\ \A l \in g.dlgs : Range(Proofs[l]) \subseteq Frontier(g)
    BY <2>2, <2>6, <2>8, Walker
  <2> QED BY <2>1, <2>2, <2>6, <2>7, <2>9, Walks
<1>11. ASSUME NEW c \in Client, NEW t \in Try, CacheNew(c, t) PROVE IInv'
  <2> DEFINE h == handler[c][t]
  <2> DEFINE g == [h EXCEPT !.fresh = Tail(@)]
  <2>1. UNCHANGED <<client, part, parts, try, response, view>> /\ h.pc = "walk" /\ h.fresh # <<>>
        /\ handler' = [handler EXCEPT ![c][t] = g]
    BY <1>11 DEF CacheNew, Walked, clientVars
  <2>2. h \in Handlers
    BY <2>1, Walker
  <2>3. Tail(h.fresh) \in Seq(Link)
    BY <2>1, <2>2, HeadOfSeq DEF Handlers
  <2>4. g \in Handlers /\ g.pc = "walk" /\ Frontier(g) = Frontier(h) /\ g.dlgs = h.dlgs
    BY <2>1, <2>2, <2>3 DEF Handlers, Frontier
  <2>5. Root[c] \in Frontier(g) /\ \A l \in g.dlgs : Range(Proofs[l]) \subseteq Frontier(g)
    BY <2>1, <2>4, Walker
  <2>6. h.pc # "idle"
    BY <2>1
  <2> HIDE DEF g
  <2> QED BY <2>1, <2>4, <2>5, <2>6, Walks
<1>12. ASSUME NEW c \in Client, NEW t \in Try, NotExtended(c, t) PROVE IInv'
  <2>1. handler[c][t].pc = "walk" /\ UNCHANGED <<client, part, parts, try, view>>
        /\ Reply(c, t, 510, handler[c][t].missing)
    BY <1>12 DEF NotExtended, Walked, clientVars
  <2>2. handler[c][t].missing \in Seq(Link)
    BY <2>1, Walker DEF Handlers
  <2> DEFINE missing == handler[c][t].missing
             status  == 510
  <2>3. missing \in Seq(Link) /\ status \in {431, 510} /\ Reply(c, t, status, missing)
    BY <2>1, <2>2
  <2>4. UNCHANGED <<client, part, parts, try, view>> /\ handler[c][t].pc # "idle"
    BY <2>1
  <2> HIDE DEF missing, status
  <2> QED BY <2>3, <2>4, Refuses
<1>13. ASSUME NEW c \in Client, NEW t \in Try, Run(c, t) PROVE IInv'
  <2> DEFINE ran == handler[c][t].blocks \cup handler[c][t].dlgs
  <2>1. handler[c][t].pc = "walk" /\ UNCHANGED <<client, part, parts, try>> /\ view' = [view EXCEPT ![c][t] = ran]
    BY <1>13 DEF Run, Walked, clientVars
  <2>2. PICK status \in HandlerStatus : Reply(c, t, status, <<>>)
    BY <1>13 DEF Run, clientVars
  <2>3. Root[c] \in handler[c][t].dlgs
    BY <1>13, <2>1, Walker, RunFrontier DEF Run, Walked, clientVars
  <2>4. handler[c][t].blocks \in SUBSET Block /\ handler[c][t].dlgs \in SUBSET Block
    BY <1>0, <2>1, Walker DEF Handlers
  <2>5. ran \in SUBSET Block /\ ran # {}
    BY <2>3, <2>4
  <2>8. view \in [Client -> [Try -> SUBSET Block]]
    BY DEF IInv, Types
  <2>6. status \notin {431, 510} /\ <<>> \in Seq(Link)
    BY RetrievalAssumption
  <2>7. handler[c][t].pc # "idle" /\ status \in HandlerStatus \cup {431, 510}
    BY <2>1, <2>6
  <2> HIDE DEF ran
  <2>9. view' \in [Client -> [Try -> SUBSET Block]] /\ view'[c][t] # {} /\ OneView(c, t)
    BY <2>1, <2>5, <2>8 DEF OneView
  <2> DEFINE missing == <<>>
  <2>10. missing \in Seq(Link) /\ Reply(c, t, status, missing)
    BY <2>2, <2>6
  <2>11. UNCHANGED <<client, part, parts, try>>
    BY <2>1
  <2>12. status \in {431, 510} => view'[c][t] = {}
    BY <2>6
  <2> HIDE DEF missing
  <2> QED BY <2>7, <2>9, <2>10, <2>11, <2>12, Replies
<1>14. CASE Restart
  <2>1. NoRequest \in Handlers /\ NoRequest.pc = "idle" /\ NoRequest.dlgs = {}
    BY DEF NoRequest, NewHandler, Handlers
  <2>2. handler' = [c \in Client |-> [t \in Try |-> NoRequest]]
        /\ UNCHANGED <<client, part, parts, try, response, view>>
    BY <1>14 DEF Restart, clientVars
  <2> QED BY <1>100, <2>1, <2>2 DEF IInv, Types, OneRequest, Closing, WalkFrom, Unused
<1>15. CASE UNCHANGED vars
  BY <1>15 DEF vars, clientVars, IInv, Types, OneRequest, Closing, WalkFrom, Frontier, Unused
<1>16. ASSUME NEW c \in Client, Resend(c) PROVE IInv'
  <2> DEFINE t == try[c] + 1
  <2>1. try[c] < MaxResends /\ try' = [try EXCEPT ![c] = t] /\ try'[c] = t
    BY <1>16 DEF Resend, IInv, Types
  <2>2. t \in Try /\ t > try[c] /\ t >= try[c]
    BY <1>100, <2>1, RetrievalAssumption DEF Try
  <2> HIDE DEF t
  <2>3. Unused(c, t)
    BY <2>2 DEF IInv, OneRequest
  <2>4. Request(c, t, Message(c)) /\ UNCHANGED <<part, parts, view>>
        /\ client[c] \in {"probing", "waiting"} /\ client' = client
    BY <1>16, <2>1 DEF Resend
  <2>5. client' = [client EXCEPT ![c] = client[c]]
    BY <1>100, <2>4
  <2> QED BY <1>101, <2>1, <2>2, <2>3, <2>4, <2>5, Requests
<1> QED
  BY <1>1, <1>2, <1>3, <1>4, <1>5, <1>6, <1>7, <1>8, <1>9, <1>10, <1>11, <1>12, <1>13,
     <1>14, <1>15, <1>16 DEF Next, ClientStep, ServerStep

----------------------------------------------------------------------------
(* The cache.                                                              *)

\* Taking one entry out of a list that has each at most once.
LEMMA RemoveOne ==
    ASSUME NEW S, NEW s \in Seq(S), IsInjective(s), NEW k \in DOMAIN s
    PROVE  /\ RemoveAt(s, k) \in Seq(S) /\ IsInjective(RemoveAt(s, k))
           /\ Len(RemoveAt(s, k)) = Len(s) - 1
           /\ Range(RemoveAt(s, k)) = Range(s) \ {s[k]}
<1> DEFINE u == SubSeq(s, 1, k - 1)
<1> DEFINE w == SubSeq(s, k + 1, Len(s))
<1> DEFINE t == u \o w
<1>1. DOMAIN s = 1..Len(s) /\ Len(s) \in Nat /\ k \in 1..Len(s)
  OBVIOUS
<1>2. u \in Seq(S) /\ Len(u) = k - 1 /\ \A j \in 1..k - 1 : u[j] = s[j]
  BY <1>1
<1>3. w \in Seq(S) /\ Len(w) = Len(s) - k /\ \A j \in 1..Len(s) - k : w[j] = s[k + j]
  BY <1>1
<1> HIDE DEF u, w
<1>11. u \in Seq(S) /\ w \in Seq(S)
  BY <1>2, <1>3
<1>9. t \in Seq(S) /\ Len(t) = Len(u) + Len(w)
      /\ (\A j \in 1..Len(u) : t[j] = u[j]) /\ \A j \in 1..Len(w) : t[Len(u) + j] = w[j]
  BY <1>11
<1> HIDE DEF t
<1>4. t \in Seq(S) /\ Len(t) = Len(s) - 1 /\ DOMAIN t = 1..Len(s) - 1
  BY <1>1, <1>2, <1>3, <1>9
<1>5. \A j \in 1..Len(s) - 1 : t[j] = IF j < k THEN s[j] ELSE s[j + 1]
  <2> SUFFICES ASSUME NEW j \in 1..Len(s) - 1
               PROVE  t[j] = IF j < k THEN s[j] ELSE s[j + 1]
    OBVIOUS
  <2>1. CASE j < k
    <3>1. j \in 1..Len(u) /\ t[j] = u[j]
      BY <1>1, <1>2, <1>9, <2>1
    <3> QED BY <1>2, <2>1, <3>1
  <2>2. CASE ~(j < k)
    <3> DEFINE n == j - Len(u)
    <3>1. n \in 1..Len(w) /\ Len(u) + n = j /\ k + n = j + 1 /\ n \in 1..Len(s) - k
      BY <1>1, <1>2, <1>3, <2>2
    <3>2. t[j] = w[n] /\ w[n] = s[k + n]
      <4> HIDE DEF n
      <4> QED BY <1>3, <1>9, <3>1
    <3> QED BY <2>2, <3>1, <3>2
  <2> QED BY <2>1, <2>2
<1>6. IsInjective(t)
  <2> SUFFICES ASSUME NEW a \in 1..Len(s) - 1, NEW b \in 1..Len(s) - 1, t[a] = t[b]
               PROVE  a = b
    BY <1>4 DEF IsInjective
  <2> DEFINE x == IF a < k THEN a ELSE a + 1
  <2> DEFINE y == IF b < k THEN b ELSE b + 1
  <2>1. x \in DOMAIN s /\ y \in DOMAIN s /\ s[x] = s[y]
    BY <1>1, <1>5
  <2>2. x = y
    BY <2>1 DEF IsInjective
  <2> QED BY <1>1, <2>2
<1>7. Range(t) \subseteq Range(s) \ {s[k]}
  <2> SUFFICES ASSUME NEW a \in 1..Len(s) - 1 PROVE t[a] \in Range(s) \ {s[k]}
    BY <1>4 DEF Range
  <2> DEFINE x == IF a < k THEN a ELSE a + 1
  <2>1. x \in DOMAIN s /\ x # k /\ t[a] = s[x]
    BY <1>1, <1>5
  <2> QED BY <2>1 DEF IsInjective, Range
<1>8. Range(s) \ {s[k]} \subseteq Range(t)
  <2> SUFFICES ASSUME NEW x \in DOMAIN s, x # k PROVE s[x] \in Range(t)
    BY DEF Range
  <2> DEFINE a == IF x < k THEN x ELSE x - 1
  <2>1. a \in 1..Len(s) - 1 /\ t[a] = s[x]
    BY <1>1, <1>5
  <2> QED BY <1>4, <2>1 DEF Range
<1>10. RemoveAt(s, k) = t
  BY DEF RemoveAt, t, u, w
<1> QED BY <1>4, <1>6, <1>7, <1>8, <1>10

\* Appending what a list does not have yet.
LEMMA AppendNew ==
    ASSUME NEW S, NEW s \in Seq(S), IsInjective(s), NEW x \in S, x \notin Range(s)
    PROVE  IsInjective(Append(s, x))
<1> DEFINE t == Append(s, x)
<1>1. Len(s) \in Nat /\ DOMAIN s = 1..Len(s) /\ DOMAIN t = 1..Len(s) + 1 /\ t[Len(s) + 1] = x
      /\ \A k \in 1..Len(s) : t[k] = s[k]
  OBVIOUS
<1> HIDE DEF t
<1>2. SUFFICES ASSUME NEW a \in 1..Len(s) + 1, NEW b \in 1..Len(s) + 1, t[a] = t[b]
               PROVE  a = b
  BY <1>1 DEF IsInjective, t
<1>3. \A k \in 1..Len(s) : t[k] # x
  BY <1>1 DEF Range
<1>4. (a \in 1..Len(s) \/ a = Len(s) + 1) /\ (b \in 1..Len(s) \/ b = Len(s) + 1)
  BY <1>1
<1> QED BY <1>1, <1>2, <1>3, <1>4 DEF IsInjective

\* A list that has each entry at most once is no longer than there are entries.
LEMMA LenOfInjective ==
    ASSUME NEW S, IsFiniteSet(S), NEW s \in Seq(S), IsInjective(s)
    PROVE  Len(s) <= Cardinality(S)
<1>1. Len(s) \in Nat /\ s \in [1..Len(s) -> S]
  OBVIOUS
<1>2. s \in Injection(1..Len(s), S)
  BY <1>1 DEF Injection, IsInjective
<1>3. Cardinality(1..Len(s)) <= Cardinality(S)
  BY <1>2, FS_Injection
<1>4. Cardinality(1..Len(s)) = Len(s)
  BY <1>1, FS_Interval
<1> QED BY <1>3, <1>4

\* The cache is bounded and lists nothing twice.
CacheOK ==
    /\ cache \in [size : Capacities, data : Seq(Link)]
    /\ Len(cache.data) <= cache.size /\ IsInjective(cache.data)

Cached == Range(cache.data)

\* What is left of the cache without an entry.
LEMMA EntriesButOne ==
    ASSUME CacheOK, NEW link \in Link
    PROVE  /\ EntriesBut(link) \in Seq(Link) /\ IsInjective(EntriesBut(link))
           /\ Range(EntriesBut(link)) = Cached \ {link}
           /\ link \in Cached => Len(EntriesBut(link)) = Len(cache.data) - 1
           /\ link \notin Cached => EntriesBut(link) = cache.data
<1>1. cache.data \in Seq(Link) /\ IsInjective(cache.data)
  BY DEF CacheOK
<1>2. CASE link \in Cached
  <2> DEFINE k == CHOOSE n \in DOMAIN cache.data : cache.data[n] = link
  <2>1. \E n \in DOMAIN cache.data : cache.data[n] = link
    BY <1>2 DEF Cached, Range
  <2>2. k \in DOMAIN cache.data /\ cache.data[k] = link
    BY <2>1
  <2>3. EntriesBut(link) = RemoveAt(cache.data, k)
    BY <1>2 DEF EntriesBut, Cached
  <2> HIDE DEF k
  <2> QED BY <1>1, <1>2, <2>2, <2>3, RemoveOne DEF Cached
<1>3. CASE link \notin Cached
  BY <1>1, <1>3 DEF EntriesBut, Cached
<1> QED BY <1>2, <1>3

\* The list after Get, and before a displacement after Put.
LEMMA Refreshed ==
    ASSUME CacheOK, NEW link \in Link
    PROVE  LET data == Append(EntriesBut(link), link)
           IN  /\ data \in Seq(Link) /\ IsInjective(data) /\ Range(data) = Cached \cup {link}
               /\ link \in Cached => Len(data) = Len(cache.data)
               /\ link \notin Cached => Len(data) = Len(cache.data) + 1
<1> DEFINE rest == EntriesBut(link)
<1> DEFINE data == Append(rest, link)
<1>1. rest \in Seq(Link) /\ IsInjective(rest) /\ Range(rest) = Cached \ {link}
  BY EntriesButOne
<1>2. /\ link \in Cached => Len(rest) = Len(cache.data) - 1
      /\ link \notin Cached => rest = cache.data
  BY EntriesButOne
<1> HIDE DEF rest
<1>3. IsInjective(data)
  BY <1>1, AppendNew
<1>4. data \in Seq(Link) /\ Range(data) = Cached \cup {link}
  BY <1>1, RangeOfAppend
<1>5. Len(data) = Len(rest) + 1 /\ Len(rest) \in Nat /\ Len(cache.data) \in Nat
  BY <1>1 DEF CacheOK
<1> QED BY <1>2, <1>3, <1>4, <1>5 DEF rest

\* The cache lists the same delegations.
LEMMA GetKeeps ==
    ASSUME CacheOK, NEW link \in Cached, cache' = CacheGet(link)
    PROVE  CacheOK' /\ cache'.size = cache.size /\ Cached' = Cached
<1>0. link \in Link
  BY DEF Cached, CacheOK, Range
<1> DEFINE data == Append(EntriesBut(link), link)
<1>1. data \in Seq(Link) /\ IsInjective(data) /\ Range(data) = Cached /\ Len(data) = Len(cache.data)
  BY <1>0, Refreshed
<1>2. cache' = [cache EXCEPT !.data = data]
  BY DEF CacheGet
<1> HIDE DEF data
<1>3. cache' \in [size : Capacities, data : Seq(Link)] /\ cache'.size = cache.size /\ cache'.data = data
  BY <1>1, <1>2 DEF CacheOK
<1> QED BY <1>1, <1>3 DEF CacheOK, Cached

\* It lists one more; where there is room for all of them, none less.
LEMMA PutKeeps ==
    ASSUME CacheOK, NEW link \in Link, cache' = CachePut(link)
    PROVE  /\ CacheOK' /\ cache'.size = cache.size
           /\ CacheSuffices => Cached' = Cached \cup {link}
<1> DEFINE data == Append(EntriesBut(link), link)
<1>1. /\ data \in Seq(Link) /\ IsInjective(data) /\ Range(data) = Cached \cup {link}
      /\ link \in Cached => Len(data) = Len(cache.data)
      /\ link \notin Cached => Len(data) = Len(cache.data) + 1
  BY Refreshed
<1>2. cache' = [cache EXCEPT !.data = IF Len(data) > cache.size THEN Tail(data) ELSE data]
  BY DEF CachePut
<1>6. Capacities \subseteq Nat
  BY RetrievalAssumption
<1>3. cache.size \in Nat /\ Len(cache.data) \in Nat /\ Len(cache.data) <= cache.size
  <2>1. cache.size \in Capacities /\ cache.data \in Seq(Link) /\ Len(cache.data) <= cache.size
    BY DEF CacheOK
  <2>2. cache.size \in Nat
    BY <1>6, <2>1
  <2>3. Len(cache.data) \in Nat
    BY <2>1
  <2> QED BY <2>1, <2>2, <2>3
<1> HIDE DEF data
<1>4. CASE Len(data) > cache.size
  <2>1. /\ cache' \in [size : Capacities, data : Seq(Link)]
        /\ cache'.size = cache.size /\ cache'.data = Tail(data)
    <3>1. Tail(data) \in Seq(Link)
      BY <1>1, <1>3, <1>4
    <3> QED BY <1>2, <1>4, <3>1 DEF CacheOK
  <2>2. Len(Tail(data)) <= cache.size /\ DOMAIN Tail(data) = 1..Len(data) - 1
        /\ DOMAIN data = 1..Len(data) /\ \A k \in DOMAIN Tail(data) : Tail(data)[k] = data[k + 1]
    BY <1>1, <1>3, <1>4
  <2>3. IsInjective(Tail(data))
    <3> SUFFICES ASSUME NEW a \in 1..Len(data) - 1, NEW b \in 1..Len(data) - 1,
                        data[a + 1] = data[b + 1]
                 PROVE  a = b
      BY <2>2 DEF IsInjective
    <3>1. a + 1 \in DOMAIN data /\ b + 1 \in DOMAIN data
      BY <2>2
    <3>2. a + 1 = b + 1
      BY <1>1, <3>1 DEF IsInjective
    <3> QED BY <3>2
  <2>4. ~CacheSuffices
    <3>1. IsFiniteSet(Link) => Len(data) <= Cardinality(Link) /\ Cardinality(Link) \in Nat
      BY <1>1, LenOfInjective, FS_CardinalityType
    <3> QED BY <1>1, <1>3, <1>4, <3>1 DEF CacheSuffices
  <2> QED BY <2>1, <2>2, <2>3, <2>4 DEF CacheOK
<1>5. CASE ~(Len(data) > cache.size)
  <2>1. /\ cache' \in [size : Capacities, data : Seq(Link)]
        /\ cache'.size = cache.size /\ cache'.data = data
    BY <1>1, <1>2, <1>5 DEF CacheOK
  <2> QED BY <1>1, <1>3, <1>5, <2>1 DEF CacheOK, Cached
<1> QED BY <1>4, <1>5

----------------------------------------------------------------------------
(* Types, and what is sent as a part is at hand.                           *)

PartsAtHand == \A c \in Client : part[c] \in Attached[c] /\ parts[c] \subseteq Attached[c]

TInv == CacheOK /\ PartsAtHand /\ faults \in 0..MaxFaults

\* The cache through a step.
LEMMA StepCache ==
    ASSUME IInv, CacheOK, faults \in 0..MaxFaults, [Next]_vars
    PROVE  /\ CacheOK' /\ cache'.size = cache.size
           /\ CacheSuffices /\ faults' = 0 => faults = 0 /\ Cached \subseteq Cached'
<1>0. MaxFaults \in Nat
  BY RetrievalAssumption
<1>1. CASE cache' = cache /\ faults' = faults
  <2>1. (CacheSuffices /\ faults' = 0 => faults = 0) /\ Cached' = Cached
    BY <1>1 DEF Cached
  <2> QED BY <1>1, <2>1 DEF CacheOK
<1>2. ASSUME NEW c \in Client, NEW t \in Try, VisitCached(c, t)
      PROVE  CacheOK' /\ cache'.size = cache.size /\ Cached' = Cached /\ faults' = faults
  <2>1. Head(handler[c][t].queue) \in Cached /\ cache' = CacheGet(Head(handler[c][t].queue))
        /\ faults' = faults
    BY <1>2 DEF VisitCached, Cached
  <2> QED BY <2>1, GetKeeps
<1>3. ASSUME NEW c \in Client, NEW t \in Try, CacheNew(c, t)
      PROVE  /\ CacheOK' /\ cache'.size = cache.size /\ faults' = faults
             /\ CacheSuffices => Cached \subseteq Cached'
  <2>1. handler[c][t].fresh # <<>> /\ cache' = CachePut(Head(handler[c][t].fresh)) /\ faults' = faults
    BY <1>3 DEF CacheNew
  <2>2. handler[c][t].fresh \in Seq(Link)
    BY DEF IInv, Types, Handlers
  <2>3. Head(handler[c][t].fresh) \in Link
    BY <2>1, <2>2, HeadOfSeq
  <2> QED BY <2>1, <2>3, PutKeeps
<1>4. ASSUME NEW c \in Client, Disconnect(c) PROVE cache' = cache /\ faults' = faults + 1
  BY <1>4 DEF Disconnect
<1>5. ASSUME Restart PROVE CacheOK' /\ cache'.size = cache.size /\ faults' = faults + 1
  <2>1. cache' = [cache EXCEPT !.data = <<>>] /\ faults' = faults + 1
    BY <1>5 DEF Restart
  <2>2. <<>> \in Seq(Link) /\ Len(<<>>) = 0 /\ IsInjective(<<>>)
    BY DEF IsInjective
  <2>3. cache \in [size : Capacities, data : Seq(Link)]
    BY DEF CacheOK
  <2>4. cache' \in [size : Capacities, data : Seq(Link)] /\ cache'.size = cache.size /\ cache'.data = <<>>
    BY <2>1, <2>2, <2>3
  <2>5. Capacities \subseteq Nat
    BY RetrievalAssumption
  <2>6. cache'.size \in Nat
    BY <2>4, <2>5
  <2>7. Len(cache'.data) <= cache'.size /\ IsInjective(cache'.data)
    BY <2>2, <2>4, <2>6
  <2> QED BY <2>1, <2>4, <2>7 DEF CacheOK
<1>6. faults' = faults + 1 => faults' # 0
  BY <1>0
<1>7. ASSUME NEW c \in Client, ClientStep(c) \/ Resend(c) PROVE cache' = cache /\ faults' = faults
  BY <1>7 DEF ClientStep, Probe, Probed, SendPart, PartAnswered, ConnectionReset, Resend
<1>8. ASSUME NEW c \in Client, NEW t \in Try, ServerStep(c, t), ~VisitCached(c, t), ~CacheNew(c, t)
      PROVE  cache' = cache /\ faults' = faults
  BY <1>8 DEF ServerStep, Receive, VisitNew, VisitMissing, NotExtended, Run
<1>9. UNCHANGED vars => cache' = cache /\ faults' = faults
  BY DEF vars
<1>10. ASSUME NEW c \in Client, NEW t \in Try, ServerStep(c, t)
       PROVE  VisitCached(c, t) \/ CacheNew(c, t) \/ (cache' = cache /\ faults' = faults)
  BY <1>8, <1>10
<1>11. CASE \E c \in Client, t \in Try : ServerStep(c, t)
  BY <1>1, <1>2, <1>3, <1>10, <1>11
<1>12. CASE \E c \in Client : ClientStep(c) \/ Disconnect(c) \/ Resend(c)
  <2>1. CASE \E c \in Client : Disconnect(c)
    <3>1. cache' = cache /\ faults' # 0
      BY <1>4, <1>6, <2>1
    <3> QED BY <3>1 DEF CacheOK
  <2> QED BY <1>1, <1>7, <1>12, <2>1
<1>13. CASE Restart
  BY <1>5, <1>6, <1>13
<1> QED
  BY <1>1, <1>9, <1>11, <1>12, <1>13 DEF Next

\* What is to be sent, and what is sent next, through a step.
LEMMA StepParts ==
    ASSUME IInv, PartsAtHand, [Next]_vars
    PROVE  PartsAtHand'
<1>0. /\ part \in [Client -> Link] /\ parts \in [Client -> SUBSET Link]
      /\ \A c \in Client : Root[c] \in Attached[c]
  BY RetrievalAssumption DEF IInv, Types
<1>1. CASE UNCHANGED <<part, parts>>
  BY <1>1 DEF PartsAtHand
<1>2. ASSUME NEW c \in Client, NEW link \in Attached[c], NEW rest \in SUBSET Attached[c],
             SendNext(c, link, rest)
      PROVE  PartsAtHand'
  <2>1. part' = [part EXCEPT ![c] = link] /\ parts' = [parts EXCEPT ![c] = rest]
    BY <1>2 DEF SendNext
  <2> QED BY <1>0, <2>1 DEF PartsAtHand
<1>3. ASSUME NEW c \in Client, Split(c) PROVE PartsAtHand'
  <2>1. Root[c] \in Attached[c] /\ Attached[c] \ {Root[c]} \in SUBSET Attached[c]
    BY <1>0
  <2>2. SendNext(c, Root[c], Attached[c] \ {Root[c]}) \/ UNCHANGED <<part, parts>>
    BY <1>3 DEF Split, Become
  <2> QED BY <1>1, <1>2, <2>1, <2>2
<1>4. ASSUME NEW c \in Client, PartAnswered(c) PROVE PartsAtHand'
  <2> DEFINE next == Head(response[c].missing)
  <2>1. \/ next \in parts[c] /\ SendNext(c, next, parts[c] \ {next})
        \/ UNCHANGED <<part, parts>>
    BY <1>4 DEF PartAnswered, Become
  <2>2. next \in parts[c] => next \in Attached[c] /\ parts[c] \ {next} \in SUBSET Attached[c]
    BY DEF PartsAtHand
  <2> QED BY <1>1, <1>2, <2>1, <2>2
<1>5. ASSUME NEW c \in Client, Probe(c) \/ Probed(c)
      PROVE  Split(c) \/ UNCHANGED <<part, parts>>
  BY <1>5 DEF Probe, Probed, Become
<1>6. ASSUME NEW c \in Client, SendPart(c) \/ ConnectionReset(c) \/ Disconnect(c) \/ Resend(c)
      PROVE  UNCHANGED <<part, parts>>
  BY <1>6 DEF SendPart, ConnectionReset, Disconnect, Resend, Become
<1>7. ASSUME NEW c \in Client, NEW t \in Try, ServerStep(c, t) PROVE UNCHANGED <<part, parts>>
  BY <1>7 DEF ServerStep, Receive, VisitNew, VisitCached, VisitMissing, CacheNew, NotExtended, Run,
              clientVars
<1>8. Restart \/ UNCHANGED vars => UNCHANGED <<part, parts>>
  BY DEF Restart, vars, clientVars
<1> QED
  BY <1>1, <1>3, <1>4, <1>5, <1>6, <1>7, <1>8 DEF Next, ClientStep

\* The types hold initially.
LEMMA InitTInv == ASSUME Init PROVE TInv
<1>1. <<>> \in Seq(Link) /\ Len(<<>>) = 0 /\ IsInjective(<<>>)
  BY DEF IsInjective
<1>2. cache \in [size : Capacities, data : Seq(Link)] /\ cache.data = <<>>
  BY <1>1 DEF Init
<1>3. Capacities \subseteq Nat /\ MaxFaults \in Nat /\ Root \in [Client -> Link]
      /\ \A c \in Client : Root[c] \in Attached[c]
  BY RetrievalAssumption
<1>4. cache.size \in Nat
  BY <1>2, <1>3
<1>5. CacheOK
  BY <1>1, <1>2, <1>4 DEF CacheOK
<1>6. PartsAtHand /\ faults \in 0..MaxFaults
  BY <1>3 DEF Init, PartsAtHand
<1> QED BY <1>5, <1>6 DEF TInv

\* Every step keeps the types.
LEMMA StepTInv == ASSUME IInv, TInv, [Next]_vars PROVE TInv'
<1>0. MaxFaults \in Nat
  BY RetrievalAssumption
<1>1. CacheOK' /\ PartsAtHand'
  BY StepCache, StepParts DEF TInv
<1>2. CASE faults' = faults
  BY <1>1, <1>2 DEF TInv
<1>3. CASE faults < MaxFaults /\ faults' = faults + 1
  BY <1>0, <1>1, <1>3 DEF TInv
<1>4. faults' = faults \/ (faults < MaxFaults /\ faults' = faults + 1)
  <2>1. ASSUME NEW c \in Client, ClientStep(c) \/ Resend(c) PROVE faults' = faults
    BY <2>1 DEF ClientStep, Probe, Probed, SendPart, PartAnswered, ConnectionReset, Resend
  <2>2. ASSUME NEW c \in Client, NEW t \in Try, ServerStep(c, t) PROVE faults' = faults
    BY <2>2 DEF ServerStep, Receive, VisitNew, VisitCached, VisitMissing, CacheNew, NotExtended, Run
  <2>3. ASSUME NEW c \in Client, Disconnect(c) PROVE faults < MaxFaults /\ faults' = faults + 1
    BY <2>3 DEF Disconnect
  <2>4. Restart => faults < MaxFaults /\ faults' = faults + 1
    BY DEF Restart
  <2>5. UNCHANGED vars => faults' = faults
    BY DEF vars
  <2> QED BY <2>1, <2>2, <2>3, <2>4, <2>5 DEF Next
<1> QED BY <1>1, <1>2, <1>3, <1>4 DEF TInv

\* For any number of clients and any cache size the state keeps its types: the cache
\* never outgrows its capacity nor lists a delegation twice, whatever goroutines put
\* into it, and only what a client has at hand is sent as a part (cache.go 14-43,
\* connection.go 189-205).
THEOREM TypeCorrect == Spec => []TypeOK
<1>1. Init => IInv /\ TInv
  BY InitIInv, InitTInv
<1>2. IInv /\ TInv /\ [Next]_vars => (IInv /\ TInv)'
  BY StepIInv, StepTInv
<1>3. IInv /\ TInv => TypeOK
  BY DEF IInv, Types, TInv, CacheOK, PartsAtHand, TypeOK
<1> QED BY <1>1, <1>2, <1>3, PTL DEF Spec

----------------------------------------------------------------------------
(* Nothing is asked for twice.  A server that forgets nothing, and misses  *)
(* a part of an invocation, knows a chain of proofs that leads to it: so   *)
(* does the walk of the request with that part, which keeps it.            *)

\* The known delegations lead from root to link: every set with the root, and with
\* the proofs of its known members, has the link.
Leads(known, root, link) ==
    \A X \in SUBSET Link :
        root \in X /\ (\A l \in X \cap known : Range(Proofs[l]) \subseteq X) => link \in X

\* The state of an Execute that sends `now` as a part, having sent `sent`: the root
\* of the invocation, what it sent and sends, the links in the cache, and the
\* request h being served.
IsSent(root, sent, now, cached, h) ==
    /\ now \in sent
    /\ sent \ {now} \subseteq cached
    /\ Leads(cached \ Range(h.missing), root, now)

IsWalk(root, sent, now, cached, h) ==
    /\ h.pc # "idle" => h.blocks = {now}
    /\ Range(h.missing) \cap sent = {}
    /\ h.dlgs \subseteq cached \cup Range(h.fresh)
    /\ \A l \in Range(h.queue) \cup Range(h.missing) : Leads(h.dlgs, root, l)

\* And the answer r, once there is one.
IsKept(root, sent, now, cached, r) ==
    /\ Range(r.missing) \cap sent = {}
    /\ r.status = 510 => /\ now \in cached /\ r.missing # <<>>
                         /\ \A l \in Range(r.missing) : Leads(cached, root, l)

Sent(c) == Attached[c] \ parts[c]

OnceFor(c) ==
    LET h == handler[c][try[c]]
    IN  /\ client[c] \in {"sending", "waiting"} => IsSent(Root[c], Sent(c), part[c], Cached, h)
        /\ client[c] = "waiting" => /\ IsWalk(Root[c], Sent(c), part[c], Cached, h)
                                    /\ IsKept(Root[c], Sent(c), part[c], Cached, response[c])

\* A request that is not walked yet, or not any more, has found nothing.
Unwalked(h) == h.pc # "walk" => h.missing = <<>> /\ h.queue = <<>> /\ h.dlgs = {}

NothingLost == CacheSuffices /\ faults = 0

OInv ==
    /\ \A c \in Client : \A t \in Try : Unwalked(handler[c][t])
    /\ NothingLost => \A c \in Client : OnceFor(c)

\* The more is known, the further it leads.
LEMMA LeadsFurther ==
    ASSUME NEW known, NEW more, known \subseteq more, NEW root, NEW link, Leads(known, root, link)
    PROVE  Leads(more, root, link)
BY DEF Leads

\* To the root, and on to the proofs of what is known.
LEMMA LeadsOn ==
    ASSUME NEW known, NEW root, NEW link, Leads(known, root, link)
    PROVE  /\ Leads(known, root, root)
           /\ \A l \in Range(Proofs[link]) : Leads(known \cup {link}, root, l)
BY DEF Leads

\* Another client, or a request whose answer nobody waits for, only adds to the cache.
LEMMA MoreCached ==
    ASSUME NEW root, NEW sent, NEW now, NEW cached, NEW more, cached \subseteq more, NEW h, NEW r
    PROVE  /\ IsSent(root, sent, now, cached, h) => IsSent(root, sent, now, more, h)
           /\ IsWalk(root, sent, now, cached, h) => IsWalk(root, sent, now, more, h)
           /\ IsKept(root, sent, now, cached, r) => IsKept(root, sent, now, more, r)
<1>1. cached \ Range(h.missing) \subseteq more \ Range(h.missing)
  OBVIOUS
<1>2. IsSent(root, sent, now, cached, h) => IsSent(root, sent, now, more, h)
  BY <1>1, LeadsFurther DEF IsSent
<1>3. IsWalk(root, sent, now, cached, h) => IsWalk(root, sent, now, more, h)
  BY DEF IsWalk
<1>4. IsKept(root, sent, now, cached, r) => IsKept(root, sent, now, more, r)
  BY LeadsFurther DEF IsKept
<1> QED BY <1>2, <1>3, <1>4

\* So what holds of a client that does not take part is kept.
LEMMA OnceForKept ==
    ASSUME NEW c \in Client, OnceFor(c), Cached \subseteq Cached',
           client'[c] = client[c], part'[c] = part[c], parts'[c] = parts[c], try'[c] = try[c],
           handler'[c][try[c]] = handler[c][try[c]], response'[c] = response[c]
    PROVE  OnceFor(c)'
<1>1. Sent(c)' = Sent(c)
  BY DEF Sent
<1> QED BY <1>1, MoreCached DEF OnceFor

\* A step of client c, or of a request of it, and the other clients.
LEMMA OthersOnce ==
    ASSUME NEW c \in Client, OInv, Others(c), NothingLost' => NothingLost /\ Cached \subseteq Cached',
           \A d \in Client \ {c} : part'[d] = part[d] /\ parts'[d] = parts[d],
           \A t \in Try : Unwalked(handler'[c][t]),
           NothingLost' => OnceFor(c)'
    PROVE  OInv'
<1>1. \A d \in Client \ {c} : \A t \in Try : Unwalked(handler'[d][t])
  BY DEF Others, OInv
<1>2. \A d \in Client : \A t \in Try : Unwalked(handler'[d][t])
  BY <1>1
<1>3. (\A d \in Client : \A t \in Try : Unwalked(handler[d][t]))'
  BY <1>2 DEF Unwalked
<1>4. ASSUME NothingLost', NEW d \in Client \ {c} PROVE OnceFor(d)'
  <2>1. OnceFor(d) /\ Cached \subseteq Cached'
    BY <1>4 DEF OInv
  <2> QED BY <2>1, OnceForKept DEF Others
<1> QED BY <1>3, <1>4 DEF OInv

\* The first part is the invocation.
LEMMA FirstPart ==
    ASSUME NEW root, NEW cached, NEW h
    PROVE  IsSent(root, {root}, root, cached, h)
BY DEF IsSent, Leads

\* The next one is a proof that was missing.
LEMMA NextPart ==
    ASSUME NEW root, NEW sent, NEW now, NEW cached, NEW h, NEW r, NEW next \in Range(r.missing),
           sent \ {now} \subseteq cached, IsKept(root, sent, now, cached, r), r.status = 510,
           h.missing = <<>>
    PROVE  IsSent(root, sent \cup {next}, next, cached, h)
<1>1. Range(h.missing) = {}
  BY DEF Range
<1>2. sent \subseteq cached /\ Leads(cached, root, next)
  BY DEF IsKept
<1>3. cached \subseteq cached \ Range(h.missing)
  BY <1>1
<1>4. Leads(cached \ Range(h.missing), root, next)
  BY <1>2, <1>3, LeadsFurther
<1>5. next \in sent \cup {next} /\ (sent \cup {next}) \ {next} \subseteq cached
  BY <1>2
<1> QED BY <1>4, <1>5 DEF IsSent

\* The request with it.
LEMMA PartRequested ==
    ASSUME NEW root, NEW sent, NEW now, NEW cached, NEW h, IsSent(root, sent, now, cached, h),
           NEW g, g = NewHandler("receive", {now})
    PROVE  /\ IsSent(root, sent, now, cached, g) /\ IsWalk(root, sent, now, cached, g)
           /\ IsKept(root, sent, now, cached, NoResponse)
<1>1. g.missing = <<>> /\ g.queue = <<>> /\ g.dlgs = {} /\ g.blocks = {now} /\ NoResponse.missing = <<>>
      /\ NoResponse.status # 510
  BY DEF NewHandler, NoResponse
<1>2. Range(g.missing) = {} /\ Range(g.queue) = {} /\ Range(NoResponse.missing) = {}
  BY <1>1 DEF Range
<1>3. cached \ Range(h.missing) \subseteq cached \ Range(g.missing)
  BY <1>2
<1>4. IsSent(root, sent, now, cached, g)
  BY <1>3, LeadsFurther DEF IsSent
<1>5. IsWalk(root, sent, now, cached, g)
  BY <1>1, <1>2 DEF IsWalk
<1>6. IsKept(root, sent, now, cached, NoResponse)
  BY <1>1, <1>2 DEF IsKept
<1> QED BY <1>4, <1>5, <1>6

\* A request that has found nothing missing yet.
LEMMA SentAnyway ==
    ASSUME NEW root, NEW sent, NEW now, NEW cached, NEW h, IsSent(root, sent, now, cached, h),
           NEW g, g.missing = <<>>
    PROVE  IsSent(root, sent, now, cached, g)
<1>1. cached \ Range(h.missing) \subseteq cached \ Range(g.missing)
  BY DEF Range
<1> QED BY <1>1, LeadsFurther DEF IsSent

\* The walk starts at the root.
LEMMA WalkStarts ==
    ASSUME NEW root \in Link, NEW sent, NEW now, NEW cached, NEW h, NEW g,
           IsWalk(root, sent, now, cached, h), h.pc # "idle",
           g.queue = <<root>>, g.missing = <<>>, g.dlgs = {}, g.blocks = h.blocks
    PROVE  IsWalk(root, sent, now, cached, g)
<1>1. Range(g.queue) = {root} /\ Range(g.missing) = {}
  BY RangeOfOne DEF Range
<1>2. Leads(g.dlgs, root, root)
  BY DEF Leads
<1> QED BY <1>1, <1>2 DEF IsWalk

\* It goes on from a delegation that came with the request or is in the cache.
LEMMA WalkVisits ==
    ASSUME NEW root, NEW sent, NEW now, NEW cached, NEW h, NEW g,
           IsWalk(root, sent, now, cached, h), h.pc # "idle",
           h.queue \in Seq(Link), h.queue # <<>>,
           g.queue = Tail(h.queue) \o Proofs[Head(h.queue)], g.missing = h.missing,
           g.dlgs = h.dlgs \cup {Head(h.queue)}, g.blocks = h.blocks,
           Range(h.fresh) \subseteq Range(g.fresh), Head(h.queue) \in cached \cup Range(g.fresh)
    PROVE  IsWalk(root, sent, now, cached, g)
<1> DEFINE link == Head(h.queue)
<1>1. link \in Link /\ link \in Range(h.queue) /\ Tail(h.queue) \in Seq(Link)
      /\ Range(Tail(h.queue)) \subseteq Range(h.queue)
  <2>1. Len(h.queue) \in Nat \ {0} /\ DOMAIN h.queue = 1..Len(h.queue) /\ link = h.queue[1]
        /\ link \in Link /\ Tail(h.queue) \in Seq(Link)
        /\ DOMAIN Tail(h.queue) = 1..Len(h.queue) - 1
        /\ \A k \in 1..Len(h.queue) - 1 : Tail(h.queue)[k] = h.queue[k + 1]
    OBVIOUS
  <2>2. 1 \in DOMAIN h.queue /\ \A k \in 1..Len(h.queue) - 1 : k + 1 \in DOMAIN h.queue
    BY <2>1
  <2> QED BY <2>1, <2>2 DEF Range
<1>2. Proofs[link] \in Seq(Link)
  BY <1>1, RetrievalAssumption DEF TypeOfProofs
<1>3. Range(g.queue) \subseteq Range(h.queue) \cup Range(Proofs[link])
  <2>1. Range(g.queue) \subseteq Range(Tail(h.queue)) \cup Range(Proofs[link])
    BY <1>1, <1>2, RangeOfCat
  <2> QED BY <1>1, <2>1
<1> HIDE DEF link
<1>4. Leads(h.dlgs, root, link)
  BY <1>1 DEF IsWalk
<1>5. h.dlgs \subseteq g.dlgs /\ g.dlgs = h.dlgs \cup {link}
  BY DEF link
<1>6. \A l \in Range(Proofs[link]) : Leads(g.dlgs, root, l)
  BY <1>4, <1>5, LeadsOn
<1>7. \A l \in Range(h.queue) \cup Range(h.missing) : Leads(g.dlgs, root, l)
  BY <1>5, LeadsFurther DEF IsWalk
<1>8. g.dlgs \subseteq cached \cup Range(g.fresh)
  BY DEF IsWalk
<1>9. \A l \in Range(g.queue) \cup Range(g.missing) : Leads(g.dlgs, root, l)
  BY <1>3, <1>6, <1>7
<1> QED BY <1>8, <1>9 DEF IsWalk

\* What is missing was not sent, and was not known when the part was asked for.
LEMMA WalkMisses ==
    ASSUME NEW root, NEW sent, NEW now, NEW cached, NEW h, NEW g,
           IsSent(root, sent, now, cached, h), IsWalk(root, sent, now, cached, h), h.pc # "idle",
           h.queue \in Seq(Link), h.queue # <<>>, h.missing \in Seq(Link),
           g.queue = Tail(h.queue), g.missing = Append(h.missing, Head(h.queue)),
           g.dlgs = h.dlgs, g.blocks = h.blocks, g.fresh = h.fresh,
           Head(h.queue) \notin cached, Head(h.queue) \notin h.blocks
    PROVE  IsSent(root, sent, now, cached, g) /\ IsWalk(root, sent, now, cached, g)
<1> DEFINE link == Head(h.queue)
<1>1. link \in Link /\ link \in Range(h.queue) /\ Range(Tail(h.queue)) \subseteq Range(h.queue)
  <2>1. Len(h.queue) \in Nat \ {0} /\ DOMAIN h.queue = 1..Len(h.queue) /\ link = h.queue[1]
        /\ link \in Link /\ DOMAIN Tail(h.queue) = 1..Len(h.queue) - 1
        /\ \A k \in 1..Len(h.queue) - 1 : Tail(h.queue)[k] = h.queue[k + 1]
    OBVIOUS
  <2>2. 1 \in DOMAIN h.queue /\ \A k \in 1..Len(h.queue) - 1 : k + 1 \in DOMAIN h.queue
    BY <2>1
  <2> QED BY <2>1, <2>2 DEF Range
<1>2. Range(g.missing) = Range(h.missing) \cup {link}
  BY <1>1, RangeOfAppend
<1>3. link \notin cached /\ link \notin sent
  BY DEF IsSent, IsWalk
<1>4. cached \ Range(g.missing) = cached \ Range(h.missing)
  BY <1>2, <1>3
<1>5. IsSent(root, sent, now, cached, g)
  BY <1>4 DEF IsSent
<1>6. Range(g.missing) \cap sent = {}
  BY <1>2, <1>3 DEF IsWalk
<1>7. Range(g.queue) \cup Range(g.missing) \subseteq Range(h.queue) \cup Range(h.missing)
  BY <1>1, <1>2
<1>8. \A l \in Range(g.queue) \cup Range(g.missing) : Leads(g.dlgs, root, l)
  BY <1>7 DEF IsWalk
<1>9. g.dlgs \subseteq cached \cup Range(g.fresh)
  BY DEF IsWalk
<1> QED BY <1>5, <1>6, <1>8, <1>9 DEF IsWalk

\* What came with the request goes into the cache.
LEMMA WalkCaches ==
    ASSUME NEW root, NEW sent, NEW now, NEW cached, NEW more, NEW h, NEW g,
           IsSent(root, sent, now, cached, h), IsWalk(root, sent, now, cached, h), h.pc # "idle",
           h.fresh \in Seq(Link), h.fresh # <<>>, g.fresh = Tail(h.fresh), g.queue = h.queue,
           g.missing = h.missing, g.dlgs = h.dlgs, g.blocks = h.blocks,
           more = cached \cup {Head(h.fresh)}
    PROVE  IsSent(root, sent, now, more, g) /\ IsWalk(root, sent, now, more, g)
<1>1. <<>> \in Seq(Link)
  OBVIOUS
<1>2. Range(h.fresh) \subseteq {Head(h.fresh)} \cup Range(Tail(h.fresh))
  BY <1>1, RangeOfNext
<1>3. g.dlgs \subseteq more \cup Range(g.fresh)
  BY <1>2 DEF IsWalk
<1>4. IsSent(root, sent, now, more, h)
  BY MoreCached
<1>5. IsSent(root, sent, now, more, g)
  BY <1>4 DEF IsSent
<1> QED BY <1>3, <1>5 DEF IsWalk

\* A walk that misses something has kept the part: what was known when the part was
\* asked for leads to it, and the walk went wherever that leads.
LEMMA WalkEnds ==
    ASSUME NEW root, NEW sent, NEW now, NEW cached, NEW h \in Handlers, NEW r,
           IsSent(root, sent, now, cached, h), IsWalk(root, sent, now, cached, h), h.pc = "walk",
           WalkFrom(root, h), h.queue = <<>>, h.fresh = <<>>, h.missing # <<>>,
           r.missing = h.missing
    PROVE  IsKept(root, sent, now, cached, r)
<1> DEFINE X == Frontier(h)
<1>1. Range(h.queue) = {} /\ Range(h.fresh) = {}
  BY DEF Range
<1>2. X = h.dlgs \cup Range(h.missing) /\ h.dlgs \subseteq cached
  BY <1>1 DEF Frontier, IsWalk
<1>3. X \in SUBSET Link
  <2>1. h.missing \in Seq(Link) /\ h.dlgs \subseteq Link
    BY DEF Handlers
  <2>2. Range(h.missing) \subseteq Link
    BY <2>1 DEF Range
  <2> QED BY <1>2, <2>1, <2>2
<1>4. root \in X /\ \A l \in h.dlgs : Range(Proofs[l]) \subseteq X
  BY DEF WalkFrom
<1>5. X \cap (cached \ Range(h.missing)) \subseteq h.dlgs
  BY <1>2
<1> HIDE DEF X
<1>6. now \in X
  BY <1>3, <1>4, <1>5 DEF IsSent, Leads
<1>7. now \in cached
  BY <1>2, <1>6 DEF IsSent, IsWalk
<1>8. \A l \in Range(h.missing) : Leads(cached, root, l)
  BY <1>2, LeadsFurther DEF IsWalk
<1> QED BY <1>7, <1>8 DEF IsKept, IsWalk

\* A step of one request.
Serves(c, t, g) ==
    /\ handler[c][t].pc # "idle"
    /\ handler' = [handler EXCEPT ![c][t] = g]
    /\ UNCHANGED <<client, part, parts, try>>

\* What holds while c waits for the answer to a part.
PartOf(c, cached, h, r) ==
    /\ IsSent(Root[c], Sent(c), part[c], cached, h)
    /\ IsWalk(Root[c], Sent(c), part[c], cached, h)
    /\ IsKept(Root[c], Sent(c), part[c], cached, r)

\* A step of a request of c to g: it matters only where c waits for it.
LEMMA Served ==
    ASSUME IInv, OInv, NEW c \in Client, NEW t \in Try, NEW g \in Handlers,
           Serves(c, t, g), Unwalked(g),
           \A d \in Client \ {c} : response'[d] = response[d],
           t # try[c] => response'[c] = response[c],
           view' \in [Client -> [Try -> SUBSET Block]], OneView(c, t),
           NothingLost' => NothingLost /\ Cached \subseteq Cached',
           NothingLost' /\ PartOf(c, Cached, handler[c][t], response[c])
              => PartOf(c, Cached', g, response'[c])
    PROVE  OInv'
<1>1. /\ handler'[c][t] = g
      /\ \A s \in Try \ {t} : handler'[c][s] = handler[c][s]
      /\ \A d \in Client \ {c} : handler'[d] = handler[d]
  BY OneSlot DEF Serves
<1>7. handler[c][t].pc # "idle" /\ UNCHANGED <<client, part, parts, try>>
  BY DEF Serves
<1>2. Others(c)
  BY <1>1, <1>7 DEF Others, OneView
<1>3. \A s \in Try : Unwalked(handler'[c][s])
  BY <1>1 DEF OInv
<1>4. try[c] \in Try /\ (client[c] \in {"ready", "sending"} => t # try[c])
  BY <1>7 DEF IInv, Types, OneRequest, Unused
<1>5. Sent(c)' = Sent(c)
  BY <1>7 DEF Sent
<1>6. ASSUME NothingLost' PROVE OnceFor(c)'
  <2>1. OnceFor(c) /\ Cached \subseteq Cached'
    BY <1>6 DEF OInv
  <2>2. CASE client[c] \notin {"sending", "waiting"}
    BY <1>7, <2>2 DEF OnceFor
  <2>3. CASE client[c] = "sending"
    <3>1. handler'[c][try[c]] = handler[c][try[c]]
      BY <1>1, <1>4, <2>3
    <3>2. IsSent(Root[c], Sent(c), part[c], Cached, handler[c][try[c]])
      BY <2>1, <2>3 DEF OnceFor
    <3>3. IsSent(Root[c], Sent(c), part[c], Cached', handler[c][try[c]])
      BY <2>1, <3>2, MoreCached
    <3> QED BY <1>5, <1>7, <2>3, <3>1, <3>3 DEF OnceFor
  <2>4. CASE client[c] = "waiting" /\ t # try[c]
    <3>1. handler'[c][try[c]] = handler[c][try[c]] /\ response'[c] = response[c]
      BY <1>1, <1>4, <2>4
    <3> QED BY <1>7, <2>1, <3>1, OnceForKept
  <2>5. CASE client[c] = "waiting" /\ t = try[c]
    <3>1. PartOf(c, Cached, handler[c][t], response[c])
      BY <2>1, <2>5 DEF OnceFor, PartOf
    <3>2. PartOf(c, Cached', g, response'[c])
      BY <1>6, <3>1
    <3> QED BY <1>1, <1>5, <1>7, <2>5, <3>2 DEF OnceFor, PartOf
  <2> QED BY <2>2, <2>3, <2>4, <2>5
<1> QED BY <1>2, <1>3, <1>6, <1>7, OthersOnce

\* A step of the walk.
LEMMA ServedWalk ==
    ASSUME IInv, OInv, NEW c \in Client, NEW t \in Try, NEW g \in Handlers,
           handler' = [handler EXCEPT ![c][t] = g], g.pc = "walk", handler[c][t].pc # "idle",
           UNCHANGED <<client, part, parts, try, response, view>>,
           NothingLost' => NothingLost /\ Cached \subseteq Cached',
           /\ NothingLost'
           /\ IsSent(Root[c], Sent(c), part[c], Cached, handler[c][t])
           /\ IsWalk(Root[c], Sent(c), part[c], Cached, handler[c][t])
           => /\ IsSent(Root[c], Sent(c), part[c], Cached', g)
              /\ IsWalk(Root[c], Sent(c), part[c], Cached', g)
    PROVE  OInv'
<1>1. view' \in [Client -> [Try -> SUBSET Block]] /\ OneView(c, t)
  BY DEF IInv, Types, OneView
<1>2. Unwalked(g)
  BY DEF Unwalked
<1>3. NothingLost' /\ IsKept(Root[c], Sent(c), part[c], Cached, response[c])
      => IsKept(Root[c], Sent(c), part[c], Cached', response[c])
  BY MoreCached
<1>4. (\A d \in Client \ {c} : response'[d] = response[d]) /\ response'[c] = response[c]
  OBVIOUS
<1>5. Serves(c, t, g)
  BY DEF Serves
<1>6. NothingLost' /\ PartOf(c, Cached, handler[c][t], response[c])
         => PartOf(c, Cached', g, response'[c])
  BY <1>3, <1>4 DEF PartOf
<1> QED BY <1>1, <1>2, <1>4, <1>5, <1>6, Served

\* The answer r goes to whoever waits for it, and the request is done.
Answers(c, t, r) ==
    /\ handler' = [handler EXCEPT ![c][t] = NoRequest]
    /\ response' = [response EXCEPT
                      ![c] = IF t = try[c] /\ client[c] \in {"probing", "waiting"} THEN r ELSE @]

\* A reply: where something is missing, the part was kept.
LEMMA ServedReply ==
    ASSUME IInv, OInv, NEW c \in Client, NEW t \in Try, NEW r, Answers(c, t, r),
           handler[c][t].pc # "idle", UNCHANGED <<client, part, parts, try, cache, faults>>,
           view' \in [Client -> [Try -> SUBSET Block]], OneView(c, t),
           /\ IsSent(Root[c], Sent(c), part[c], Cached, handler[c][t])
           /\ IsWalk(Root[c], Sent(c), part[c], Cached, handler[c][t])
           => IsKept(Root[c], Sent(c), part[c], Cached, r)
    PROVE  OInv'
<1>1. /\ NoRequest \in Handlers /\ Unwalked(NoRequest) /\ NoRequest.pc = "idle"
      /\ NoRequest.missing = <<>> /\ NoRequest.queue = <<>> /\ NoRequest.dlgs = {}
  BY DEF NoRequest, NewHandler, Handlers, Unwalked
<1>2. PICK g \in Handlers : g = NoRequest
  BY <1>1
<1>3. /\ \A d \in Client \ {c} : response'[d] = response[d]
      /\ response'[c] = IF t = try[c] /\ client[c] \in {"probing", "waiting"} THEN r ELSE response[c]
  BY DEF Answers, IInv, Types
<1>4. Cached' = Cached /\ (NothingLost' => NothingLost)
  BY DEF Cached, NothingLost, CacheSuffices
<1>5. IsSent(Root[c], Sent(c), part[c], Cached, handler[c][t])
      => IsSent(Root[c], Sent(c), part[c], Cached, g)
  BY <1>1, <1>2, SentAnyway
<1>6. IsWalk(Root[c], Sent(c), part[c], Cached, g)
  BY <1>1, <1>2 DEF IsWalk, Range
<1>7. IsKept(Root[c], Sent(c), part[c], Cached, response[c]) /\ IsKept(Root[c], Sent(c), part[c], Cached, r)
      => IsKept(Root[c], Sent(c), part[c], Cached', response'[c])
  BY <1>3, <1>4
<1>8. NothingLost' /\ PartOf(c, Cached, handler[c][t], response[c])
         => PartOf(c, Cached', g, response'[c])
  BY <1>4, <1>5, <1>6, <1>7 DEF PartOf
<1>9. t # try[c] => response'[c] = response[c]
  BY <1>3
<1>10. NothingLost' => NothingLost /\ Cached \subseteq Cached'
  BY <1>4
<1>11. Unwalked(g)
  BY <1>1, <1>2
<1>12. Serves(c, t, g)
  BY <1>2 DEF Serves, Answers
<1>13. \A d \in Client \ {c} : response'[d] = response[d]
  BY <1>3
<1> QED BY <1>8, <1>9, <1>10, <1>11, <1>12, <1>13, Served

\* The client moves, and waits for nothing afterwards.
LEMMA OnceLeaves ==
    ASSUME IInv, OInv, NEW c \in Client, NEW to \in {"probing", "done", "failed"}, Become(c, to),
           UNCHANGED <<handler, response, view, cache, faults>>
    PROVE  OInv'
<1>1. Others(c) /\ client'[c] = to /\ part' = part /\ parts' = parts
  BY DEF IInv, Types, Become, Others
<1>2. Cached' = Cached /\ (NothingLost' => NothingLost)
  BY DEF Cached, NothingLost, CacheSuffices
<1>3. \A t \in Try : Unwalked(handler'[c][t])
  BY DEF OInv
<1>4. OnceFor(c)'
  BY <1>1 DEF OnceFor
<1> QED BY <1>1, <1>2, <1>3, <1>4, OthersOnce

\* The client decides on its next part.
LEMMA OnceDecides ==
    ASSUME IInv, OInv, NEW c \in Client, NEW link \in Link, NEW rest \in SUBSET Link,
           SendNext(c, link, rest), UNCHANGED <<handler, response, view, cache, faults>>,
           NothingLost => IsSent(Root[c], Attached[c] \ rest, link, Cached, handler[c][try[c]])
    PROVE  OInv'
<1>1. /\ Others(c) /\ client'[c] = "sending" /\ part'[c] = link /\ parts'[c] = rest /\ try' = try
      /\ \A d \in Client \ {c} : part'[d] = part[d] /\ parts'[d] = parts[d]
  BY DEF IInv, Types, SendNext, Others
<1>2. Cached' = Cached /\ (NothingLost' => NothingLost)
  BY DEF Cached, NothingLost, CacheSuffices
<1>3. \A t \in Try : Unwalked(handler'[c][t])
  BY DEF OInv
<1>4. Sent(c)' = Attached[c] \ rest
  BY <1>1 DEF Sent
<1>5. NothingLost' => OnceFor(c)'
  BY <1>1, <1>2, <1>4 DEF OnceFor
<1> QED BY <1>1, <1>2, <1>3, <1>5, OthersOnce

\* Splitting an invocation starts with its root.
LEMMA OnceSplits ==
    ASSUME IInv, OInv, NEW c \in Client, Split(c),
           UNCHANGED <<handler, response, view, cache, faults>>
    PROVE  OInv'
<1>1. Root[c] \in Link /\ Attached[c] \in SUBSET Link /\ Root[c] \in Attached[c]
  BY RetrievalAssumption
<1>2. CASE Become(c, "failed")
  BY <1>2, OnceLeaves
<1>3. CASE SendNext(c, Root[c], Attached[c] \ {Root[c]})
  <2>1. Attached[c] \ (Attached[c] \ {Root[c]}) = {Root[c]}
    BY <1>1
  <2>2. IsSent(Root[c], Attached[c] \ (Attached[c] \ {Root[c]}), Root[c], Cached, handler[c][try[c]])
    BY <2>1, FirstPart
  <2>3. Attached[c] \ {Root[c]} \in SUBSET Link
    BY <1>1
  <2> QED BY <1>1, <1>3, <2>2, <2>3, OnceDecides
<1> QED BY <1>2, <1>3 DEF Split

\* A request, with everything or with a part, that nobody serves yet.
LEMMA OnceRequests ==
    ASSUME IInv, OInv, NEW c \in Client, NEW t \in Try, Request(c, t, Message(c)),
           UNCHANGED <<part, parts, view, cache, faults>>, try' = [try EXCEPT ![c] = t],
           NEW to \in {"probing", "waiting"}, client' = [client EXCEPT ![c] = to],
           Message(c) \in SUBSET Block,
           to = "waiting" => client[c] \in {"sending", "waiting"}
    PROVE  OInv'
<1> DEFINE h == NewHandler("receive", Message(c))
<1>1. h \in Handlers /\ Unwalked(h)
  BY DEF NewHandler, Handlers, Unwalked
<1> HIDE DEF h
<1>2. handler' = [handler EXCEPT ![c][t] = h] /\ response' = [response EXCEPT ![c] = NoResponse]
  BY DEF Request, h
<1>3. /\ handler'[c][t] = h
      /\ \A s \in Try \ {t} : handler'[c][s] = handler[c][s]
      /\ \A d \in Client \ {c} : handler'[d] = handler[d]
  BY <1>1, <1>2, OneSlot, Zenon
<1>4. /\ client'[c] = to /\ try'[c] = t /\ response'[c] = NoResponse
      /\ \A d \in Client \ {c} : client'[d] = client[d] /\ try'[d] = try[d] /\ response'[d] = response[d]
  BY <1>2 DEF IInv, Types
<1>5. Others(c)
  BY <1>3, <1>4 DEF Others
<1>6. Cached' = Cached /\ (NothingLost' => NothingLost)
  BY DEF Cached, NothingLost, CacheSuffices
<1>7. \A s \in Try : Unwalked(handler'[c][s])
  BY <1>1, <1>3 DEF OInv
<1>8. Sent(c)' = Sent(c)
  BY DEF Sent
<1>9. ASSUME NothingLost', to = "waiting" PROVE OnceFor(c)'
  <2>1. IsSent(Root[c], Sent(c), part[c], Cached, handler[c][try[c]])
    BY <1>6, <1>9 DEF OInv, OnceFor
  <2>2. h = NewHandler("receive", {part[c]})
    BY <1>9 DEF Message, h
  <2>3. /\ IsSent(Root[c], Sent(c), part[c], Cached, h) /\ IsWalk(Root[c], Sent(c), part[c], Cached, h)
        /\ IsKept(Root[c], Sent(c), part[c], Cached, NoResponse)
    BY <2>1, <2>2, PartRequested
  <2> QED BY <1>3, <1>4, <1>6, <1>8, <2>3 DEF OnceFor
<1>10. to # "waiting" => OnceFor(c)'
  BY <1>4 DEF OnceFor
<1>11. \A d \in Client \ {c} : part'[d] = part[d] /\ parts'[d] = parts[d]
  OBVIOUS
<1> QED BY <1>5, <1>6, <1>7, <1>9, <1>10, <1>11, OthersOnce

\* The steps of a request that is served.
LEMMA ServerOnce ==
    ASSUME IInv, CacheOK, OInv, NEW c \in Client, NEW t \in Try, ServerStep(c, t),
           NothingLost' => NothingLost /\ Cached \subseteq Cached'
    PROVE  OInv'
<1> DEFINE h == handler[c][t]
<1> DEFINE link == Head(h.queue)
<1>1. h \in Handlers /\ Root[c] \in Link /\ handler = [d \in Client |-> [s \in Try |-> handler[d][s]]]
  BY RetrievalAssumption DEF IInv, Types
<1>2. /\ h.queue \in Seq(Link) /\ h.fresh \in Seq(Link) /\ h.missing \in Seq(Link)
      /\ h.blocks \in SUBSET Block /\ h.dlgs \in SUBSET Link /\ <<>> \in Seq(Link)
  BY <1>1 DEF Handlers
<1>3. Unwalked(h) /\ WalkFrom(Root[c], h)
  BY DEF OInv, IInv, Closing
<1>4. h.queue # <<>> => /\ link \in Link /\ Tail(h.queue) \in Seq(Link)
                        /\ Tail(h.queue) \o Proofs[link] \in Seq(Link)
                        /\ Append(h.missing, link) \in Seq(Link)
                        /\ Append(h.fresh, link) \in Seq(Link)
                        /\ Range(Append(h.fresh, link)) = Range(h.fresh) \cup {link}
  <2> SUFFICES ASSUME h.queue # <<>>
               PROVE  /\ link \in Link /\ Tail(h.queue) \in Seq(Link)
                      /\ Tail(h.queue) \o Proofs[link] \in Seq(Link)
                      /\ Append(h.missing, link) \in Seq(Link)
                      /\ Append(h.fresh, link) \in Seq(Link)
                      /\ Range(Append(h.fresh, link)) = Range(h.fresh) \cup {link}
    OBVIOUS
  <2>1. link \in Link /\ Tail(h.queue) \in Seq(Link)
    BY <1>2, HeadOfSeq
  <2>2. Proofs[link] \in Seq(Link)
    BY <2>1, RetrievalAssumption DEF TypeOfProofs
  <2>3. Tail(h.queue) \o Proofs[link] \in Seq(Link)
    BY <2>1, <2>2
  <2> HIDE DEF link
  <2> QED BY <1>2, <2>1, <2>3, RangeOfAppend
<1>5. ASSUME VisitNew(c, t) PROVE OInv'
  <2> DEFINE g == [h EXCEPT !.queue = Tail(@) \o Proofs[link],
                            !.fresh = Append(@, link), !.dlgs = @ \cup {link}]
  <2>1. /\ h.pc = "walk" /\ h.queue # <<>> /\ link \in h.blocks
        /\ UNCHANGED <<client, part, parts, try, response, view>> /\ cache' = cache
    BY <1>5 DEF VisitNew, Walking, clientVars
  <2>2. handler' = [handler EXCEPT ![c][t] = g]
    BY <1>5 DEF VisitNew
  <2>3. /\ g \in Handlers /\ g.pc = "walk" /\ g.queue = Tail(h.queue) \o Proofs[link]
        /\ g.fresh = Append(h.fresh, link) /\ g.missing = h.missing
        /\ g.dlgs = h.dlgs \cup {link} /\ g.blocks = h.blocks
    BY <1>1, <1>2, <1>4, <2>1 DEF Handlers
  <2> HIDE DEF g
  <2>4. Range(h.fresh) \subseteq Range(g.fresh) /\ link \in Range(g.fresh) /\ Cached' = Cached
    BY <1>4, <2>1, <2>3 DEF Cached
  <2>5. IsWalk(Root[c], Sent(c), part[c], Cached, h) => IsWalk(Root[c], Sent(c), part[c], Cached', g)
    BY <1>2, <2>1, <2>3, <2>4, WalkVisits
  <2>6. IsSent(Root[c], Sent(c), part[c], Cached, h) => IsSent(Root[c], Sent(c), part[c], Cached', g)
    BY <2>3, <2>4 DEF IsSent
  <2> QED BY <2>1, <2>2, <2>3, <2>5, <2>6, ServedWalk
<1>6. ASSUME VisitCached(c, t) PROVE OInv'
  <2> DEFINE g == [h EXCEPT !.queue = Tail(@) \o Proofs[link], !.dlgs = @ \cup {link}]
  <2>1. /\ h.pc = "walk" /\ h.queue # <<>> /\ link \in Cached /\ cache' = CacheGet(link)
        /\ UNCHANGED <<client, part, parts, try, response, view>>
    BY <1>6 DEF VisitCached, Walking, clientVars, Cached
  <2>2. handler' = [handler EXCEPT ![c][t] = g]
    BY <1>6 DEF VisitCached
  <2>3. /\ g \in Handlers /\ g.pc = "walk" /\ g.queue = Tail(h.queue) \o Proofs[link]
        /\ g.fresh = h.fresh /\ g.missing = h.missing
        /\ g.dlgs = h.dlgs \cup {link} /\ g.blocks = h.blocks
    BY <1>1, <1>2, <1>4, <2>1 DEF Handlers
  <2> HIDE DEF g
  <2>4. Cached' = Cached
    BY <2>1, GetKeeps
  <2>5. IsWalk(Root[c], Sent(c), part[c], Cached, h) => IsWalk(Root[c], Sent(c), part[c], Cached', g)
    BY <1>2, <2>1, <2>3, <2>4, WalkVisits
  <2>6. IsSent(Root[c], Sent(c), part[c], Cached, h) => IsSent(Root[c], Sent(c), part[c], Cached', g)
    BY <2>3, <2>4 DEF IsSent
  <2> QED BY <2>1, <2>2, <2>3, <2>5, <2>6, ServedWalk
<1>7. ASSUME VisitMissing(c, t) PROVE OInv'
  <2> DEFINE g == [h EXCEPT !.queue = Tail(@), !.missing = Append(@, link)]
  <2>1. /\ h.pc = "walk" /\ h.queue # <<>> /\ link \notin Cached /\ link \notin h.blocks
        /\ UNCHANGED <<client, part, parts, try, response, view>> /\ cache' = cache
    BY <1>7 DEF VisitMissing, Walking, clientVars, Cached
  <2>2. handler' = [handler EXCEPT ![c][t] = g]
    BY <1>7 DEF VisitMissing
  <2>3. /\ g \in Handlers /\ g.pc = "walk" /\ g.queue = Tail(h.queue)
        /\ g.fresh = h.fresh /\ g.missing = Append(h.missing, link)
        /\ g.dlgs = h.dlgs /\ g.blocks = h.blocks
    BY <1>1, <1>2, <1>4, <2>1 DEF Handlers
  <2> HIDE DEF g
  <2>4. Cached' = Cached
    BY <2>1 DEF Cached
  <2>5. IsSent(Root[c], Sent(c), part[c], Cached, h) /\ IsWalk(Root[c], Sent(c), part[c], Cached, h)
        => IsSent(Root[c], Sent(c), part[c], Cached', g) /\ IsWalk(Root[c], Sent(c), part[c], Cached', g)
    BY <1>2, <2>1, <2>3, <2>4, WalkMisses
  <2> QED BY <2>1, <2>2, <2>3, <2>5, ServedWalk
<1>8. ASSUME CacheNew(c, t) PROVE OInv'
  <2> DEFINE g == [h EXCEPT !.fresh = Tail(@)]
  <2>1. /\ h.pc = "walk" /\ h.fresh # <<>> /\ cache' = CachePut(Head(h.fresh))
        /\ UNCHANGED <<client, part, parts, try, response, view>>
    BY <1>8 DEF CacheNew, Walked, clientVars
  <2>2. handler' = [handler EXCEPT ![c][t] = g]
    BY <1>8 DEF CacheNew
  <2>3. Head(h.fresh) \in Link /\ Tail(h.fresh) \in Seq(Link)
    BY <1>2, <2>1, HeadOfSeq
  <2>4. /\ g \in Handlers /\ g.pc = "walk" /\ g.queue = h.queue
        /\ g.fresh = Tail(h.fresh) /\ g.missing = h.missing
        /\ g.dlgs = h.dlgs /\ g.blocks = h.blocks
    BY <1>1, <2>1, <2>3 DEF Handlers
  <2> HIDE DEF g
  <2>5. NothingLost' => Cached' = Cached \cup {Head(h.fresh)}
    BY <2>1, <2>3, PutKeeps DEF NothingLost
  <2>6. /\ NothingLost'
        /\ IsSent(Root[c], Sent(c), part[c], Cached, h) /\ IsWalk(Root[c], Sent(c), part[c], Cached, h)
        => IsSent(Root[c], Sent(c), part[c], Cached', g) /\ IsWalk(Root[c], Sent(c), part[c], Cached', g)
    BY <1>2, <2>1, <2>4, <2>5, WalkCaches
  <2> QED BY <2>1, <2>2, <2>4, <2>6, ServedWalk
<1>9. ASSUME NotExtended(c, t) PROVE OInv'
  <2> DEFINE r == [status |-> 510, missing |-> h.missing]
  <2>1. /\ h.pc = "walk" /\ h.queue = <<>> /\ h.missing # <<>> /\ h.fresh = <<>>
        /\ Reply(c, t, 510, h.missing) /\ UNCHANGED <<client, part, parts, try, cache, view, faults>>
    BY <1>9 DEF NotExtended, Walked, clientVars
  <2>2. view' \in [Client -> [Try -> SUBSET Block]] /\ OneView(c, t)
    BY <2>1 DEF IInv, Types, OneView
  <2>3. IsSent(Root[c], Sent(c), part[c], Cached, h) /\ IsWalk(Root[c], Sent(c), part[c], Cached, h)
        => IsKept(Root[c], Sent(c), part[c], Cached, r)
    BY <1>1, <1>3, <2>1, WalkEnds
  <2>4. h.pc # "idle" /\ UNCHANGED <<client, part, parts, try, cache, faults>>
    BY <2>1
  <2>5. Answers(c, t, r)
    BY <2>1 DEF Reply, Answers
  <2> HIDE DEF r
  <2> QED BY <2>2, <2>3, <2>4, <2>5, ServedReply
<1>10. ASSUME NEW status \in HandlerStatus \cup {431}, Reply(c, t, status, <<>>), h.pc # "idle",
              UNCHANGED <<client, part, parts, try, cache, faults>>,
              view' \in [Client -> [Try -> SUBSET Block]], OneView(c, t)
       PROVE  OInv'
  <2> DEFINE r == [status |-> status, missing |-> <<>>]
  <2>1. status # 510
    BY RetrievalAssumption
  <2>2. IsKept(Root[c], Sent(c), part[c], Cached, r)
    BY <2>1 DEF IsKept, Range
  <2>3. Answers(c, t, r)
    BY <1>10 DEF Reply, Answers
  <2> HIDE DEF r
  <2> QED BY <1>10, <2>2, <2>3, ServedReply
<1>11. ASSUME Receive(c, t) PROVE OInv'
  <2>1. h.pc = "receive" /\ UNCHANGED <<client, part, parts, try, cache, view, faults>>
    BY <1>11 DEF Receive, clientVars
  <2>2. view' \in [Client -> [Try -> SUBSET Block]] /\ OneView(c, t)
    BY <2>1 DEF IInv, Types, OneView
  <2>3. CASE Reply(c, t, 431, <<>>)
    BY <1>10, <2>1, <2>2, <2>3
  <2>4. CASE /\ handler' = [handler EXCEPT ![c][t].pc = "walk", ![c][t].queue = <<Root[c]>>]
             /\ UNCHANGED response
    <3> DEFINE g == [h EXCEPT !.pc = "walk", !.queue = <<Root[c]>>]
    <3>1. handler' = [handler EXCEPT ![c][t] = g]
      BY <1>1, <2>4
    <3>2. <<Root[c]>> \in Seq(Link)
      BY <1>1
    <3>3. h.missing = <<>> /\ h.dlgs = {}
      BY <1>3, <2>1 DEF Unwalked
    <3>4. /\ g \in Handlers /\ g.pc = "walk" /\ g.queue = <<Root[c]>> /\ g.missing = <<>>
          /\ g.dlgs = {} /\ g.blocks = h.blocks
      BY <1>1, <3>2, <3>3 DEF Handlers
    <3> HIDE DEF g
    <3>5. Cached' = Cached
      BY <2>1 DEF Cached
    <3>6. IsWalk(Root[c], Sent(c), part[c], Cached, h) => IsWalk(Root[c], Sent(c), part[c], Cached', g)
      BY <1>1, <2>1, <3>4, <3>5, WalkStarts
    <3>7. IsSent(Root[c], Sent(c), part[c], Cached, h) => IsSent(Root[c], Sent(c), part[c], Cached', g)
      BY <3>4, <3>5, SentAnyway
    <3>8. h.pc # "idle" /\ UNCHANGED <<client, part, parts, try, response, view>>
      BY <2>1, <2>4
    <3> QED BY <3>1, <3>4, <3>6, <3>7, <3>8, ServedWalk
  <2> QED BY <1>11, <2>3, <2>4 DEF Receive
<1>12. ASSUME Run(c, t) PROVE OInv'
  <2> DEFINE ran == h.blocks \cup h.dlgs
  <2>1. h.pc = "walk" /\ UNCHANGED <<client, part, parts, try, cache, faults>>
        /\ view' = [view EXCEPT ![c][t] = ran]
    BY <1>12 DEF Run, Walked, clientVars
  <2>2. PICK status \in HandlerStatus : Reply(c, t, status, <<>>)
    BY <1>12 DEF Run
  <2>3. ran \in SUBSET Block /\ view \in [Client -> [Try -> SUBSET Block]]
    BY <1>2, RetrievalAssumption DEF IInv, Types
  <2> HIDE DEF ran
  <2>4. view' \in [Client -> [Try -> SUBSET Block]] /\ OneView(c, t)
    BY <2>1, <2>3 DEF OneView
  <2> QED BY <1>10, <2>1, <2>2, <2>4
<1> QED BY <1>5, <1>6, <1>7, <1>8, <1>9, <1>11, <1>12 DEF ServerStep

\* The initial state: nobody has sent anything.
LEMMA InitOInv == ASSUME Init PROVE OInv
<1>1. \A c \in Client : \A t \in Try : handler[c][t] = NoRequest
  BY DEF Init
<1>2. Unwalked(NoRequest)
  BY DEF Unwalked, NoRequest, NewHandler
<1>3. \A c \in Client : OnceFor(c)
  BY DEF Init, OnceFor
<1> QED BY <1>1, <1>2, <1>3 DEF OInv

\* Every step keeps what is known of the parts that were sent.
LEMMA StepOInv == ASSUME IInv, TInv, OInv, [Next]_vars PROVE OInv'
<1>0. /\ CacheOK' /\ cache'.size = cache.size
      /\ CacheSuffices /\ faults' = 0 => faults = 0 /\ Cached \subseteq Cached'
  BY StepCache DEF TInv
<1>100. NothingLost' => NothingLost /\ Cached \subseteq Cached'
  BY <1>0 DEF NothingLost, CacheSuffices
<1>101. /\ try = [c \in Client |-> try[c]] /\ client = [c \in Client |-> client[c]]
        /\ \A c \in Client : try[c] \in Try
  BY DEF IInv, Types
<1>102. \A c \in Client : Message(c) \in SUBSET Block
  <2> TAKE c \in Client
  <2>1. Link \subseteq Block /\ Attached[c] \in SUBSET Link /\ Extra[c] \in SUBSET Block
    BY RetrievalAssumption
  <2>2. {part[c]} \in SUBSET Block /\ Attached[c] \cup Extra[c] \in SUBSET Block
    BY <2>1 DEF IInv, Types
  <2> QED BY <2>2 DEF Message
<1>1. ASSUME NEW c \in Client, Probe(c) PROVE OInv'
  <2>1. UNCHANGED <<cache, view, faults>>
    BY <1>1 DEF Probe
  <2>2. CASE TooLarge(Message(c))
    BY <1>1, <2>1, <2>2, OnceSplits DEF Probe
  <2>3. CASE ~TooLarge(Message(c))
    <3>1. Become(c, "probing") /\ Request(c, try[c], Message(c))
      BY <1>1, <2>3 DEF Probe
    <3>2. try' = [try EXCEPT ![c] = try[c]] /\ UNCHANGED <<part, parts>>
          /\ client' = [client EXCEPT ![c] = "probing"]
      BY <1>101, <3>1 DEF Become
    <3> QED BY <1>101, <1>102, <2>1, <3>1, <3>2, OnceRequests
  <2> QED BY <2>2, <2>3
<1>2. ASSUME NEW c \in Client, Probed(c) PROVE OInv'
  <2>1. UNCHANGED <<handler, response, view, cache, faults>>
    BY <1>2 DEF Probed
  <2>2. Split(c) \/ Become(c, "done") \/ Become(c, "failed")
    BY <1>2 DEF Probed
  <2> QED BY <2>1, <2>2, OnceSplits, OnceLeaves
<1>3. ASSUME NEW c \in Client, SendPart(c) PROVE OInv'
  <2>1. UNCHANGED <<cache, view, faults>> /\ client[c] = "sending"
    BY <1>3 DEF SendPart
  <2>2. CASE TooLarge(Message(c))
    BY <1>3, <2>1, <2>2, OnceLeaves DEF SendPart
  <2>3. CASE ~TooLarge(Message(c))
    <3>1. Become(c, "waiting") /\ Request(c, try[c], Message(c))
      BY <1>3, <2>3 DEF SendPart
    <3>2. try' = [try EXCEPT ![c] = try[c]] /\ UNCHANGED <<part, parts>>
          /\ client' = [client EXCEPT ![c] = "waiting"]
      BY <1>101, <3>1 DEF Become
    <3> QED BY <1>101, <1>102, <2>1, <3>1, <3>2, OnceRequests
  <2> QED BY <2>2, <2>3
<1>4. ASSUME NEW c \in Client, PartAnswered(c) PROVE OInv'
  <2> DEFINE r == response[c]
  <2> DEFINE next == Head(r.missing)
  <2>1. UNCHANGED <<handler, response, view, cache, faults>> /\ client[c] = "waiting" /\ r.status # 0
    BY <1>4 DEF PartAnswered, Answered
  <2>2. CASE r.status = 510 /\ next \in parts[c]
    <3>1. SendNext(c, next, parts[c] \ {next})
      BY <1>4, <2>2 DEF PartAnswered
    <3>2. next \in Attached[c] /\ next \in Link /\ parts[c] \ {next} \in SUBSET Link
      BY <2>2 DEF TInv, PartsAtHand, IInv, Types
    <3>3. handler[c][try[c]].missing = <<>>
      BY <1>101, <2>1 DEF IInv, OneRequest, OInv, Unwalked
    <3>4. Attached[c] \ (parts[c] \ {next}) = Sent(c) \cup {next}
      BY <3>2 DEF Sent
    <3>5. ASSUME NothingLost
          PROVE  IsSent(Root[c], Sent(c) \cup {next}, next, Cached, handler[c][try[c]])
      <4>1. /\ IsSent(Root[c], Sent(c), part[c], Cached, handler[c][try[c]])
            /\ IsKept(Root[c], Sent(c), part[c], Cached, r)
        BY <2>1, <3>5 DEF OInv, OnceFor
      <4>2. next \in Range(r.missing)
        <5>1. r.missing # <<>> /\ r.missing \in Seq(Link)
          BY <2>2, <4>1 DEF IsKept, IInv, Types, Responses
        <5>2. next = r.missing[1] /\ 1 \in DOMAIN r.missing
          BY <5>1
        <5> HIDE DEF next, r
        <5> QED BY <5>2 DEF Range
      <4>3. Sent(c) \ {part[c]} \subseteq Cached
        BY <4>1 DEF IsSent
      <4> HIDE DEF next, r
      <4> QED BY <2>2, <3>3, <4>1, <4>2, <4>3, NextPart
    <3> HIDE DEF next
    <3> QED BY <2>1, <3>1, <3>2, <3>4, <3>5, OnceDecides
  <2>3. CASE ~(r.status = 510 /\ next \in parts[c])
    <3>1. Become(c, "done") \/ Become(c, "failed")
      BY <1>4, <2>3 DEF PartAnswered
    <3> QED BY <2>1, <3>1, OnceLeaves
  <2> QED BY <2>2, <2>3
<1>5. ASSUME NEW c \in Client, ConnectionReset(c) PROVE OInv'
  BY <1>5, OnceLeaves DEF ConnectionReset
<1>6. ASSUME NEW c \in Client, Disconnect(c) PROVE OInv'
  <2>1. faults' = faults + 1 /\ MaxFaults \in Nat /\ faults \in 0..MaxFaults
        /\ UNCHANGED <<handler, response, cache, view>>
    BY <1>6, RetrievalAssumption DEF Disconnect, TInv
  <2>2. ~NothingLost'
    BY <2>1 DEF NothingLost
  <2> QED BY <2>1, <2>2 DEF OInv, Unwalked
<1>7. ASSUME NEW c \in Client, Resend(c) PROVE OInv'
  <2> DEFINE t == try[c] + 1
  <2>1. /\ try[c] < MaxResends /\ try' = [try EXCEPT ![c] = t] /\ try'[c] = t
        /\ UNCHANGED <<client, part, parts, cache, view, faults>> /\ Request(c, try'[c], Message(c))
        /\ client[c] \in {"probing", "waiting"}
    BY <1>7 DEF Resend, IInv, Types
  <2>2. t \in Try
    BY <1>101, <2>1, RetrievalAssumption DEF Try
  <2>3. client' = [client EXCEPT ![c] = client[c]] /\ Request(c, t, Message(c))
    BY <1>101, <2>1
  <2> HIDE DEF t
  <2> QED BY <1>102, <2>1, <2>2, <2>3, OnceRequests
<1>8. CASE Restart
  <2>1. faults' = faults + 1 /\ MaxFaults \in Nat /\ faults \in 0..MaxFaults
        /\ handler' = [c \in Client |-> [t \in Try |-> NoRequest]]
    BY <1>8, RetrievalAssumption DEF Restart, TInv
  <2>2. ~NothingLost'
    BY <2>1 DEF NothingLost
  <2>3. \A c \in Client : \A t \in Try : Unwalked(handler'[c][t])
    BY <2>1 DEF Unwalked, NoRequest, NewHandler
  <2> QED BY <2>2, <2>3 DEF OInv, Unwalked
<1>9. CASE UNCHANGED vars
  <2>1. UNCHANGED <<client, part, parts, try, handler, response, cache, faults>>
    BY <1>9 DEF vars, clientVars
  <2>2. NothingLost' => NothingLost
    BY <2>1 DEF NothingLost, CacheSuffices
  <2>3. \A c \in Client : OnceFor(c) => OnceFor(c)'
    BY <2>1, OnceForKept DEF Cached
  <2> QED BY <2>1, <2>2, <2>3 DEF OInv, Unwalked
<1>10. ASSUME NEW c \in Client, NEW t \in Try, ServerStep(c, t) PROVE OInv'
  BY <1>10, <1>100, ServerOnce DEF TInv
<1> QED
  BY <1>1, <1>2, <1>3, <1>4, <1>5, <1>6, <1>7, <1>8, <1>9, <1>10 DEF Next, ClientStep

\* With a cache for every delegation, a server that was not restarted never asks a
\* client again for what it was sent, for any number of clients that share the cache
\* and for any delegations they share (connection.go 120-121, server.go 363-412).
THEOREM EachProofSentOnce == Spec => []NeverAskedTwice
<1>1. Init => IInv /\ TInv /\ OInv
  BY InitIInv, InitTInv, InitOInv
<1>2. IInv /\ TInv /\ OInv /\ [Next]_vars => (IInv /\ TInv /\ OInv)'
  BY StepIInv, StepTInv, StepOInv
<1>3. OInv => NeverAskedTwice
  BY DEF OInv, OnceFor, IsKept, NothingLost, NeverAskedTwice, Sent
<1> QED BY <1>1, <1>2, <1>3, PTL DEF Spec

----------------------------------------------------------------------------
(* The refinement.                                                         *)

Outcome == [c \in Client |-> IF client[c] \in Pending THEN "pending" ELSE client[c]]

\* A client that goes on has the same outcome.
LEMMA OutcomeOfPending ==
    ASSUME Types, NEW c \in Client, NEW to \in Pending, client[c] \in Pending,
           client' = [client EXCEPT ![c] = to]
    PROVE  Outcome' = Outcome
BY DEF Outcome, Types, Pending

\* A client that ends has the outcome it ends with.
LEMMA OutcomeOfEnd ==
    ASSUME Types, NEW c \in Client, NEW to \in {"done", "failed"}, client[c] \in Pending,
           Become(c, to)
    PROVE  Outcome[c] = "pending" /\ Outcome' = [Outcome EXCEPT ![c] = to] /\ try' = try
BY DEF Outcome, Types, Pending, Become

\* Whatever fails, fails for the abstract client.
LEMMA Fails ==
    ASSUME Types, NEW c \in Client, client[c] \in Pending, Become(c, "failed"), UNCHANGED view
    PROVE  RPC!Next
BY OutcomeOfEnd DEF RPC!Next, RPC!Fail, Outcome

\* A final status is success only if the handler has run.
LEMMA Ends ==
    ASSUME IInv, NEW c \in Client, client[c] \in Pending, UNCHANGED view, Answered(c),
           Become(c, IF Succeeded(c) THEN "done" ELSE "failed")
    PROVE  RPC!Next
<1>1. CASE Succeeded(c)
  <2>1. view[c][try[c]] # {}
    <3>1. response[c] \in Responses
      BY DEF IInv, Types
    <3>2. response[c].status \in HandlerStatus
      BY <1>1, <3>1 DEF Responses, Succeeded
    <3> QED BY <3>2 DEF IInv, OneRequest
  <2>2. Outcome[c] = "pending" /\ Outcome' = [Outcome EXCEPT ![c] = "done"] /\ try' = try
    BY <1>1, OutcomeOfEnd DEF IInv
  <2> QED BY <2>1, <2>2 DEF RPC!Next, RPC!Succeed, Outcome
<1>2. CASE ~Succeeded(c)
  BY <1>2, Fails DEF IInv
<1> QED BY <1>1, <1>2

\* Splitting is a stutter or a failure.
LEMMA SplitSteps ==
    ASSUME Types, NEW c \in Client, client[c] \in Pending, Split(c), UNCHANGED view
    PROVE  [RPC!Next]_(RPC!vars)
<1>1. CASE Become(c, "failed")
  BY <1>1, Fails
<1>2. CASE client' = [client EXCEPT ![c] = "sending"] /\ UNCHANGED try
  BY <1>2, OutcomeOfPending DEF Pending, RPC!vars, Outcome
<1> QED BY <1>1, <1>2 DEF Split, SendNext

\* Running the handler.
LEMMA Runs ==
    ASSUME IInv, NEW c \in Client, NEW t \in Try, Run(c, t)
    PROVE  RPC!Next
<1> DEFINE h == handler[c][t]
<1> DEFINE blocks == h.blocks \cup h.dlgs
<1>1. h \in Handlers /\ h.pc = "walk" /\ view[c][t] = {} /\ t <= try[c] /\ UNCHANGED <<client, try>>
      /\ view' = [view EXCEPT ![c][t] = blocks] /\ h.queue = <<>> /\ h.missing = <<>>
  BY Walker DEF Run, Walked, clientVars
<1>9. Frontier(h) = h.dlgs
  BY <1>1, RunFrontier
<1>2. Root[c] \in h.dlgs /\ \A l \in h.dlgs : Range(Proofs[l]) \subseteq h.dlgs
  BY <1>1, <1>9, Walker
<1>3. h.dlgs \in SUBSET (blocks \cap Link) /\ blocks \subseteq Block
  BY <1>1, RetrievalAssumption DEF Handlers
<1>4. \A l \in h.dlgs : \A k \in DOMAIN Proofs[l] : Proofs[l][k] \in h.dlgs
  BY <1>2 DEF Range
<1>5. RPC!Whole(c, blocks)
  BY <1>2, <1>3, <1>4 DEF RPC!Whole
<1>6. view'[c][t] = blocks
  BY <1>1 DEF IInv, Types
<1>7. Outcome' = Outcome
  BY <1>1 DEF Outcome
<1>8. RPC!Run(c, t)
  BY <1>1, <1>3, <1>5, <1>6, <1>7 DEF RPC!Run, Outcome
<1> QED BY <1>8 DEF RPC!Next

\* Every step is a step of the abstract specification, or none.
LEMMA StepRefines == ASSUME IInv, [Next]_vars PROVE [RPC!Next]_(RPC!vars)
<1>0. Types
  BY DEF IInv
<1>1. ASSUME NEW c \in Client, Probe(c) PROVE [RPC!Next]_(RPC!vars)
  <2>1. client[c] \in Pending /\ UNCHANGED view
    BY <1>1 DEF Probe, Pending
  <2>2. CASE Split(c)
    BY <1>0, <2>1, <2>2, SplitSteps
  <2>3. CASE Become(c, "probing")
    BY <1>0, <2>1, <2>3, OutcomeOfPending DEF Pending, Become, RPC!vars, Outcome
  <2> QED BY <1>1, <2>2, <2>3 DEF Probe
<1>2. ASSUME NEW c \in Client, Probed(c) PROVE [RPC!Next]_(RPC!vars)
  <2>1. client[c] \in Pending /\ UNCHANGED view /\ Answered(c)
    BY <1>2 DEF Probed, Pending
  <2> QED BY <1>0, <1>2, <2>1, SplitSteps, Ends DEF Probed
<1>3. ASSUME NEW c \in Client, SendPart(c) PROVE [RPC!Next]_(RPC!vars)
  <2>1. client[c] \in Pending /\ UNCHANGED view
    BY <1>3 DEF SendPart, Pending
  <2>2. CASE Become(c, "failed")
    BY <1>0, <2>1, <2>2, Fails
  <2>3. CASE Become(c, "waiting")
    BY <1>0, <2>1, <2>3, OutcomeOfPending DEF Pending, Become, RPC!vars, Outcome
  <2> QED BY <1>3, <2>2, <2>3 DEF SendPart
<1>4. ASSUME NEW c \in Client, PartAnswered(c) PROVE [RPC!Next]_(RPC!vars)
  <2>1. client[c] \in Pending /\ UNCHANGED view /\ Answered(c)
    BY <1>4 DEF PartAnswered, Pending
  <2>2. CASE client' = [client EXCEPT ![c] = "sending"] /\ UNCHANGED try
    BY <1>0, <2>1, <2>2, OutcomeOfPending DEF Pending, RPC!vars, Outcome
  <2>3. CASE Become(c, "failed")
    BY <1>0, <2>1, <2>3, Fails
  <2> QED BY <1>4, <2>1, <2>2, <2>3, Ends DEF PartAnswered, SendNext
<1>5. ASSUME NEW c \in Client, Disconnect(c) \/ ConnectionReset(c) PROVE [RPC!Next]_(RPC!vars)
  <2>1. client[c] \in Pending /\ UNCHANGED view /\ Become(c, "failed")
    BY <1>5 DEF Disconnect, ConnectionReset, Pending
  <2> QED BY <1>0, <2>1, Fails
<1>6. ASSUME NEW c \in Client, NEW t \in Try, ServerStep(c, t), ~Run(c, t)
      PROVE [RPC!Next]_(RPC!vars)
  <2>1. UNCHANGED <<client, try, view>>
    BY <1>6 DEF ServerStep, Receive, VisitNew, VisitCached, VisitMissing, CacheNew, NotExtended,
                clientVars
  <2> QED BY <2>1 DEF RPC!vars
<1>7. CASE Restart \/ UNCHANGED vars
  BY <1>7 DEF Restart, vars, clientVars, RPC!vars
<1>8. ASSUME NEW c \in Client, Resend(c) PROVE [RPC!Next]_(RPC!vars)
  <2>1. /\ client' = client /\ view' = view /\ client[c] \in Pending
        /\ try[c] < MaxResends /\ try' = [try EXCEPT ![c] = @ + 1]
    BY <1>8 DEF Resend, Pending
  <2>2. try[c] + 1 \in Try
    BY <1>0, <2>1, RetrievalAssumption DEF Types, Try
  <2>3. Outcome' = Outcome /\ Outcome[c] = "pending"
    BY <2>1 DEF Outcome
  <2>4. RPC!Resend(c)
    BY <2>1, <2>2, <2>3 DEF RPC!Resend, Outcome
  <2> QED BY <2>4 DEF RPC!Next
<1> QED
  BY <1>1, <1>2, <1>3, <1>4, <1>5, <1>6, <1>7, <1>8, Runs DEF Next, ClientStep, ServerStep

\* The initial state maps to the initial state.
LEMMA InitRefines == ASSUME Init PROVE RPC!Init
BY DEF Init, RPC!Init, Pending

\* However many requests an Execute takes, it is one remote invocation: the handler
\* runs at most once more than net/http sent a request again, only with every
\* delegation its invocation rests on, and the client's success is the result of the
\* last run (connection.go 131-273, server.go 306-428, channel.go 76).
THEOREM RetrievalIsRemoteInvocation == Spec => ImplementsRemoteInvocation
<1>1. Init => IInv
  BY InitIInv
<1>2. IInv /\ [Next]_vars => IInv'
  BY StepIInv
<1>3. Init => RPC!Init
  BY InitRefines
<1>4. IInv /\ [Next]_vars => [RPC!Next]_(RPC!vars)
  BY StepRefines
<1> QED BY <1>1, <1>2, <1>3, <1>4, PTL DEF Spec, ImplementsRemoteInvocation, RPC!Spec
=============================================================================
