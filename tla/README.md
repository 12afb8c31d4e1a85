# A verification development for go-ucanto

go-ucanto is a library for services that are invoked with UCANs: a client sends
an *invocation*, a signed token that names a capability and carries delegations
as proofs; the server finds out whether the proofs authorize it, runs a handler
and answers with a signed receipt. This directory holds TLA+ models of the code
that does this, the TLC configurations that check them on small instances, and
proofs of their most important properties that TLAPS checks for every instance.
Paths are relative to the root of the repository, `src/` in PROJECT.json.

## Inventory

| component | code | state it keeps | operations | what makes it correct |
|---|---|---|---|---|
| proof search | `validator/lib.go`, `authorization.go` | a call stack, attestations met so far | Access, Claim, Authorize, Validate, VerifySession, ResolveSources | it grants exactly what the delegations grant; an authorization is a path of aligned, valid, signed or attested, unrevoked delegations; it ends |
| capabilities | `validator/capability.go` | none | Match, Select, Derives, Delegate, Invoke | a derived capability is covered by its delegation |
| UCAN tokens | `ucan/` | none | Issue, VerifySignature, IsExpired, IsTooEarly | time bounds; every field a validator relies on is signed |
| provided handlers | `server/handler.go` | none | Provide | no handler without an authorization and the right audience |
| server options | `server/options.go`, `server/retrieval/options.go` | the context of validations | With..., NewServer | what was configured is what validates |
| batch server | `server/server.go` | receipts, error, wait group, lock of one request | Handle, Execute, Run | one receipt per invocation, or an error; always an answer |
| client connection | `client/connection.go` | none | Execute | a result is the whole of what the server answered; it returns |
| agent messages | `core/message/` | blocks, report, caches of views | Build, NewMessage, Get | a report has the receipt of every invocation |
| receipts | `core/receipt/`, `core/result/` | blocks | Issue, Rebind, Export, AttachInvocation | the receipt is of the run it names |
| block store | `core/dag/blockstore/` | keys, map, readers-writer lock | Put, Get, Iterator | a set that grows; a loop over it lists all of it if nothing is put meanwhile |
| delegations | `core/delegation/` | root, blocks, attached blocks | Delegate, Attach, Export, Archive, Extract, Format, Parse | what is exported is what the delegation needs |
| proof pruning | `validator/proof_pruning.go` | none | NewProofPruner | the pruned proofs authorize what the pool did |
| retrieval client | `client/retrieval/connection.go` | parts not sent yet | Execute, sendPartialInvocations | it ends; one run; nothing is lost by splitting |
| retrieval server | `server/retrieval/` | LRU cache of delegations | Handle, Execute, ExtractInvocation, Run | never runs on an incomplete invocation |
| transports | `transport/`, `core/car/` | the pipe of a message being encoded | Accept, Encode, Decode, Request | content negotiation; which statuses are errors; nobody waits for ever for a pipe |
| principals, DIDs | `principal/`, `did/` | keys | Sign, Verify, Wrap, Parse | a verifier accepts its own key only |
| schemas, IPLD | `core/schema/`, `core/ipld/`, `core/iterable/` | none | Read, Encode, Decode | single values |

How they interact. A client builds a message (blocks of invocations and proofs),
a codec encodes it in a goroutine of its own, through a pipe from which the
channel sends it. `Handle` decodes it and `Execute` runs
every invocation in its own goroutine; `Run` calls the handler that `Provide`
built, which calls `Access` with callbacks to the environment (revocation store,
proof resolver, DID resolver, clock). The receipts become the report of the
answer. Retrieval is the same over HTTP headers, which are small: an invocation
that does not fit is sent in parts, and the server caches the parts of all its
clients in one bounded cache. Every delegation sits on block stores, which are
shared by whoever shares the delegation.

Where it is hard. The proof search is sequential, but reads a moving clock twice
per proof, asks for revocations once per candidate, and is recursive in two ways
(proofs of proofs, attestations of attestations) with errors that mean different
things. A batch shares slices and an error between goroutines, only some of it
under a lock. The block store has its lock modes exchanged, and is iterated without
the lock, over a slice that a `Put` may be half way through storing. Retrieval is a
protocol over lossy requests with a shared cache that forgets, and its requests
may be sent again without its knowledge. A message is written, sent and read at
the same time, and a CAR that is cut at the end of a block looks like a whole one. PROJECT.json
lists every such place under "hazards", with the properties aimed at it.

## Modules

* **Principals** - DIDs, keys, signers and verifiers: pure operators. Strings are
  sequences of the parts the code tells apart; a signature is the key that made
  it, under the name of an algorithm, over a payload.
* **Ucan** - what a token's signature is over and how it is checked, time bounds,
  and the matching of a claimed against a delegated capability, with the error
  each failure becomes; schemas are the sets of values they read.
* **ServerOptions** - the options of a server and of a retrieval server, and the
  context of validations `NewServer` makes of them. A function passed as an
  option is what it answers.
* **Validator** - one invocation through `Provide` and the proof search. The Go
  call stack is the variable `stack`, with a frame per active `Claim` or
  `Authorize`; one step validates one proof (two, as the clock is read twice) or
  tries one match; `ret` is what a finished call gives its caller, with the
  errors it collected: each names the delegation it blames. `Tick` and `Revoke`
  are the environment. A proof without capabilities may end the process
  (`SessionPanics`). CONSTANT `Worlds` are the delegation graphs: who delegated
  what to whom, signed by which key and changed afterwards or not, which proofs
  are at hand, and with which options the server was made.
* **ValidatorReference** - what `Access` should decide, without a search: a
  recursive function from questions (along which sets of delegations is a match
  authorized? which attestations make a delegation valid beside its pool?) to the
  sets that answer them.
* **ProofPruning** - which delegations of an authorization `NewProofPruner`
  selects, which blocks survive in the new delegation, and what that delegation
  authorizes according to ValidatorReference. The pruner validates with a context
  of its own, which is that of a server without options (`ByPruner`): no DID is
  resolved, no proof fetched, nothing revoked.
* **MinimalPruning** - which of the selected proofs could be left out as well.
* **DelegationGraphs, MCValidator** - families of graphs, for all of the above.
* **RemoteInvocation** - abstract: one Execute, one run at most for every time the
  transport sent it again, on a complete invocation; success only after a run.
* **Retrieval** - client and server of the retrieval protocol. `Probe`/`Probed`
  are the request with everything, `SendPart`/`PartAnswered` the loop of parts;
  a request is served in one step per cache access (`Receive`, `VisitNew`,
  `VisitCached`, `VisitMissing`, `CacheNew`, `NotExtended`, `Run`), so that
  other clients' requests interleave with it. Requests are GET, which net/http
  sends again by itself (`Resend`): `handler` and `view` are kept per try, and
  what is left of an earlier try goes on. Faults: a connection lost or a
  context canceled at any time (`Disconnect`), a restart that empties the cache
  and drops requests (`Restart`, `ConnectionReset`). Blocks have no content:
  a message is a set of blocks, and header limits are predicates on sets.
* **MCRetrieval** - two clients whose proofs form a diamond; one has to split its
  invocation because the header is too large, the other because the server says so.
* **Exchange** - one Execute over HTTP POST, block by block: `enc` are the
  goroutines that encode request and response into pipes, `copier` what copies a
  pipe to the connection, `written`, `body` and `read` how many blocks got how
  far and how the body ends. The client creates, sends, reads and decodes; the
  server accepts, decodes, runs, replies or panics; net/http closes what it is
  done with. Connections are lost and contexts canceled at any time, and what is
  left of a body may end cleanly in the middle, as a proxy can make it. How the
  batch itself runs is ServerExecute's.
* **MCExchange** - a request of four blocks, a response of three.
* **BatchInvocation** - abstract: a batch gets one reply, with the outcome of a
  run for each of its invocations, or a failure; then nothing runs any more.
* **ServerExecute** - one request through `Handle`, `Execute` and `Run`: the
  goroutine that serves it (`phase`, `next`, `wg`) and one per invocation (`pc`,
  `rcpt`), the lock, the slice in two half steps (`append` reads and writes it),
  the error that is assigned without the lock: where two of them overlap the
  value may be torn. Handlers and loggers return anything, or panic.
* **MCServer** - one batch of four with a duplicate, an invocation of two
  capabilities and one without a handler.
* **BlockSet** - abstract: a set that grows. A Get meets no Put half done; a list
  is the whole set unless somebody began to put a new block since the iterator was
  made, when it is some blocks, with errors among them.
* **BlockStore** - `Put`, `Get`, `Iterator`, one step per access to the lock, the
  map or the slice of keys. The slice is a header of two words (`keys`) and the
  arrays it was ever on (`arrays`); an append reads the words one by one (`Load`),
  decides to extend the array or to copy it to a new one of any of `Capacities`
  (`PutAppend`), and stores the key and the words in any order (`PutStore`). A loop
  reads the words the same way when it begins, then one cell and one block at a
  time (`Yield`): behind its array it may find anything, in a cell nobody stored to
  no key, which yields "missing block for key". `raced` has the threads whose
  iterator is older than some insertion. The runtime may end the process when a map
  is accessed during a write, or a loop reads a string stored in part (`Fatal`).
  Four things are coarser than the code: the capacity goes with the array, a cell
  is stored whole (a loop that meets a half may end the process or find none), a
  thread makes one call at a time and loops once over an iterator, and two Puts that
  write to the map at once, undetected, leave it whole.
* **MCBlockStore** - a goroutine that puts, one that gets and one that iterates; or
  two that put.
* **DelegationViews** - delegations, receipts and agent messages as views on
  block stores. `stores` are the stores, `dlgs` and `rcpts` the views of each
  token, `msgs` the messages with their caches; one action per operation that
  makes a view or writes to a store (`Delegate`, `Attach`, `Extract`,
  `OmitProofs`, `Issue`, `Clone`, `Rebind`, `ExtractReceipt`, `View`,
  `AttachInvocation`, `Build`, `NewMessage`, `Invocation`, `ReceiptOf`, `Read`).
  What a view was made without (`lacks`) and with (`carries`) is history: the
  properties compare it with what the stores have.
* **MCDelegationViews** - an invocation, a chain of two proofs, a second
  delegation that shares the lower one, a receipt, a block to attach.
* **ValidatorProofs, ReferenceProofs, PruningProofs, RetrievalProofs,
  ExchangeProofs, ServerProofs, BlockStoreProofs, DelegationViewsProofs** - the
  theorems.

An operator whose comment begins with "Mutant" is a wrong version of the
definition that follows it; substituting it breaks the property that guards it.

## Runs

| run | instance | shows |
|---|---|---|
| access | 7164 graphs, servers and options: searches and attestations against clock 1..3 and revocations at any moment, signatures and options, and 6656 that stand still; fairness | what a handler ran on is a path (`HandledOnPath`), signed or attested by others (`AttestationsGrounded`), as it was signed (`OnlyAsIssued`), not revoked before (`RevokedNeverHandled`), valid at one instant (`ValidWhileValidating`); what a refusal says is true (`RefusalTrue`) and says something of every proof (`RefusalExplained`); no more calls are active than there are pairs of delegations and two (`DepthBounded`), ends the process for one reason only (`CrashNeedsEmptyProof`) and always answers (`Answered`); it decides as the reference does (`AccessDecides`), and so does the server that gets the pruned proofs (`PrunedStillAuthorizes`) |
| every_option | searches and attestations | violated: a revoked authorization hides an unrevoked one below the same match (`validator/lib.go` 308 against the comment at 244) |
| pruned_minimal | graphs that stand still | violated: proofs of proofs are listed as direct proofs (`validator/proof_pruning.go` 160 against `core/delegation/delegate.go` 91) |
| alternative_audiences | a retrieval server with an alternative audience | violated: it refuses an invocation addressed to it (`server/retrieval/server.go` 116-141 against `server/retrieval/options.go` 127) |
| retrieval | two clients, caches of 1 and 4, one resend, one fault, any status, fairness | the protocol implements `RemoteInvocation`; every Execute ends; with the larger cache no part is asked for twice and, without a fault, every Execute succeeds |
| retrieval_attachments | two clients, large cache | violated: attached blocks are lost when an invocation is split (`client/retrieval/connection.go` 281) |
| exchange | 4 + 3 blocks, a connection that holds one, two faults, fairness | Execute over POST implements `RemoteInvocation`; a result is a whole response (`ResultComplete`); Execute returns, with a reason if it fails; the goroutines that encode end (`EncodersEnd`) |
| server_batch | a batch of 4 with a duplicate, 8 kinds of request, every handler result, fairness | the batch implements `BatchInvocation`; an answer is whole or an error; every request is answered |
| server_logger | the same batch | violated: a failing receipt logger does not fail the request (`server/server.go` 90, 352) |
| store_one_writer | one goroutine puts, one gets, one iterates; 3 blocks, arrays of 1 and 3 | the store implements `BlockSet`: no Get meets a Put half done, and a loop that no insertion disturbs lists every block and no error (`ImplementsBlockSet`); only a disturbed loop can end the process (`FatalOnlyInIteration`) |
| store_attach | two put | violated: a block that was put is never iterated (`core/dag/blockstore/blockstore.go` 56) |
| delegation_views | 4 tokens, a receipt, an attached block, 5 views and messages | proofs and attached blocks travel (`ProofsTravel`, `AttachmentsTravel`), nothing foreign is exported (`ExportsOnlyOwn`), no view loses a block (`BlocksKept`), receipts do not write into each other (`ReceiptsIndependent`) |

More that the models, or the reading they are made from, show without a run of
their own:

* A token is refused at the very second of its notBefore (`ucan/lib.go` 237), as
  `IsTooEarly` of Ucan says; `ucan/view.go` 23 reads as if it were valid.
* A token that expires before it becomes valid may be accepted: the clock is read
  for each of the two bounds, and moves between them (`validator/lib.go` 36-45).
  `ValidWhileValidating` leaves out these tokens (`EverValid`).
* A loop over a block store into which a goroutine puts a new block meanwhile, even
  if it is the only one that puts, may miss blocks, yield "missing block for key" for a key not
  stored yet or a block not seen yet, go beyond its array, or end the process
  (`core/dag/blockstore/blockstore.go` 80-85 against 64-65). No comment or test says
  otherwise, so it is what `BlockSet` allows a disturbed loop, not a finding.
* With a cache smaller than what the negotiations in progress need, a part that
  was acknowledged is evicted, asked for again, and the client gives up
  (`client/retrieval/connection.go` 120 and 266): that is why `NeverAskedTwice`
  and `ExecuteSucceeds` ask for `CacheSuffices`.
* A GET that net/http sends again runs the handler a second time for one Execute
  (`transport/http/channel.go` 76): `RemoteInvocation` says at most once per try.
* `EncodersEnd` has two exceptions the code makes. A request that cannot be
  created is not read, and its pipe is not closed (`transport/http/channel.go` 76);
  nobody closes the pipe of a response that could not be sent. Likewise the
  in-process channel, a server used as the channel of a client, does not read a
  request it answers with 415.
* The bodies of a 431 or of an unexpected status are not closed in
  `sendPartialInvocations` (`client/retrieval/connection.go` 229-250).
* To a message without exactly one invocation `handle` of the retrieval server
  answers with error receipts under the encoder's status 200
  (`server/retrieval/server.go` 242-260), although `Execute` would say 400 (306-325):
  it is never called for such a message.

CHECK_DEADLOCK is FALSE in every configuration because each system stops when its
calls have returned (in the block store: when the runtime ended the process).

Bounds and why they are enough. Delegation graphs have six links: an invocation,
chains of three, two competing proofs and two attestations that may attest each
other; every branch of the search is taken in some graph, and the clock and the
revocations move between any two steps. `MaxTime` 3 puts a tick before, between
and after the two bounds of a token. For signatures every field of a token is
changed once after it was signed, under keys of both kinds and parsers of one or
both. A cache of 1 is smaller than what any client needs, of 4 holds every
delegation; one fault and one request sent again may happen at any point of the
negotiations, which makes three goroutines that serve two clients. In Exchange a
connection that holds one block makes each writer wait for its reader, there are
blocks before the invocation so that a cut message has something, and two faults
are a cancellation beside a loss in either order. Three goroutines are needed for an append that is lost
between two others and for a duplicate beside another invocation; the batch of
four adds an invocation that has no handler. In the views, five lets a token be
delegated, sent, read, exported and read again beside another one; each token is
issued once, as its link stands for its content, and each block is attached once.
In the block store three blocks and arrays of one and three let a loop span several
Puts, some of which extend the array in place and others copy it; the goroutine
that gets and the one that iterates write nothing, so a second of either would meet
the same states.

## Fairness

`Serve` of Validator is weakly fair: a runnable goroutine is scheduled, and the
resolvers return (the code waits for them without a timeout). In Retrieval some
client that can go on does, and some goroutine of the server: no client waits for
another, and each does only finitely many steps, so weak fairness of the two
disjunctions is as good as of every client. Faults and resends are not fair, so
liveness does not count on them; a lost request is noticed because its connection
is reset. In Exchange the steps of client, server and the four goroutines that
write and copy are together weakly fair, for the same reason: there are finitely
many of them. Handlers return there, and in ServerExecute handlers and loggers
return; one that never does blocks its whole batch, as `wg.Wait` has no timeout.
No strong fairness is used: nothing waits for a condition that is disabled again
for ever (each goroutine takes the lock once).

## What is proved

For all values of the constants that satisfy the assumptions in Ucan, Validator,
Retrieval, Exchange, ServerExecute, BlockStore and DelegationViews (types; that
attestations are named by caveats; that there are finitely many links; that no
chain of proofs comes back to its beginning, as a link is the hash of a token that
has the links of its proofs; that there are blocks; that a block store holds a
block once; that links of delegations and of receipts differ). Three of them narrow
what the theorems say. A resolver that has a delegation has those of its proofs
that the invocation carries (`IsWorld`): the code looks in the blocks of a resolved
delegation, not of the invocation (`validator/lib.go` 552-562), and with this
`Available` is the same for all. A retrieval handler answers neither 431 nor 510,
which the client would take for the server's request for another part
(`client/retrieval/connection.go` 153 and 239-243), and its status 0, which leaves the
status to the encoder (`server/retrieval/server.go` 285-288), counts as the encoder's
(`RetrievalAssumption`). And one goroutine puts into a block store (`SinglePutter`).
Every safety property of a passing run is among the theorems.

* `ValidatorProofs!TypeCorrect`: `Spec => []TypeOK`.
* `ValidatorProofs!HandlerRunsOnPath`: `Spec => []HandledOnPath`. The property
  speaks of the finished search only, so the inductive invariant `IInv` speaks of
  the calls in progress: every source of a frame comes from a proof of its pool
  (`FrameOK`), the pool of an Authorize is the aligned proofs of the match it was
  called for (`CallOK`), the first frame is the Claim of the invocation
  (`BaseOK`), and a returned path is a path that its caller's match extends
  (`ReturnOK`). Each return makes the path one match longer. One step of the
  proof per action.
* `ValidatorProofs`, soundness: `AttestationsGrounded`, `RevokedNeverHandled`,
  `ValidWhileValidating`, `OnlyAsIssued`, `RefusalTrue` and `CrashNeedsEmptyProof`
  from one stronger invariant, `SInv`, on the calls in progress. Every source of a
  frame is vouched for: its delegation passed both reads of the clock since Access
  began, and is signed by its issuer's key as it is, or attested (`SoundFrame`);
  the attestations a frame holds for it are grounded, that is, no set of unsigned
  delegations among them is attested only from inside; every error a frame
  collected is true, and a call that failed selected something that failed. A call
  of `Claim` about a session looks among the other proofs (`SoundCall`), which is
  what keeps a delegation from vouching for itself; what a call returns is sound
  for its caller's frame (`SoundReturn`). Truth of errors survives the clock
  because it is about some instant of the validation.
* `ValidatorProofs!RefusalIsExplained`: `Spec => []RefusalExplained`. `EInv`
  accounts for what a frame is past: every candidate it has examined is a source or
  blamed, every source it has tried is blamed or was revoked (`ExplainedFrame`), and
  what a failed call returns blames all proofs of the match it was called for
  (`ExplainedReturn`). The errors of a caller only grow, so nothing is forgotten on
  the way up.
* `ValidatorProofs!SearchIsShallow`: `Spec => []DepthBounded`. The code bounds the
  recursion by no counter. `Weight` is what a call has before it: what is below its
  pool, then the pool. A call of Authorize goes on strictly below (the graph has no
  circles), a session keeps what is below and leaves out one proof of its pool; so
  each call weighs less than its caller (`DInv`).
* `ReferenceProofs!AccessIsRight`: `Spec => []AccessDecides`, that Access finds an
  authorization exactly when there is one, for a still clock and nothing revoked.
  The reference has the time bounds (`Timely`) from the comparisons the search makes,
  so it says nothing of them; `ValidWhileValidating` measures them against the fields
  of the token (`ValidAt`).
  First the definition has a value: the questions are ranked (`Rank`) by what is
  below and the size of the pool, and a function that answers all questions up to a
  rank extends to the next (`AnswerExists`), an induction on numbers. The invariant
  `CInv` says for every such function what the calls in progress have settled: what
  a frame selected is what the answers select, a candidate it is past became a
  source exactly if it is vouched for, a source it is past has no answer
  (`DecidedFrame`), and a call returns what the answer to its question is
  (`DecidedReturn`).
* `PruningProofs!PruningKeepsAuthority`: `Spec => []PrunedStillAuthorizes`. `PInv`
  says of an authorization being put together that its links answer the question it
  is for, contain a set of attestations for each delegation that needs one, and stay
  below the pool it came from (`BackedFrame`, `BackedClaim`). Then, by induction on
  the rank, what some of the kept delegations answer in the graph of the draft they
  answer in the graph of the reissued delegation, where there are no others
  (`KeptAnswers`). The reissued delegation may have proofs that the draft had not,
  proofs of proofs, but more proofs beside it take no answer from a delegation as
  long as no DID is resolved to a key: with one, an attestation that is refused
  keeps a signature from being looked at. That is why the theorem is about the
  context of the pruner (`ByPruner`). The theorems about ValidatorReference are used
  for both graphs, through an instance.
* `RetrievalProofs!RetrievalIsRemoteInvocation`: `Spec =>
  ImplementsRemoteInvocation`. The invariant is `Types`, `OneRequest` (the server
  works on a try only if it was sent, and on the last one only while its client
  waits or has failed, so a handler runs once per try) and `Closing` (what the
  server has walked is closed under proofs but for what is in its queue or
  missing). It does not mention what is in the cache: forgetting costs a result,
  never completeness.
* `RetrievalProofs!TypeCorrect` and `EachProofSentOnce`: `Spec => []TypeOK` and
  `Spec => []NeverAskedTwice`. The cache is a list that has each link once and no
  more entries than its size; if the links are no more than that (`CacheSuffices`),
  putting one in drops none. `OInv` follows each Execute under that condition and
  without a fault: what it sent is cached but for the part on its way, what the
  server calls missing was not sent, and the known delegations lead from the root to
  whatever is asked for (`Leads`), so that nothing foreign is.
* `ExchangeProofs`: `TypeOK`, `ResultComplete` and `ImplementsRemoteInvocation`.
  `Streaming` relates the counters of each direction: read, arrived, written are
  each a beginning of the next, and without a loss a body ends only when all of it
  was copied. `Order` says who did what before: the handlers run only after a
  message was read that has its root, and there is a response only after they ran.
  The root is the last block of a message, so a beginning that has it is all of
  it; that blocks are distinct (`StoreAssumption`) is what makes the first block
  equal to the root the last one.
* `ServerProofs!TypeCorrect` and `ServerIsBatchInvocation`: `Spec => []TypeOK` and
  `Spec => ImplementsBatchInvocation`, for batches of any length. The wait group
  is the number of goroutines that run (`Counted`), nobody runs when it is empty,
  and then either an error was left or every goroutine has a receipt (`InHand`).
  Every receipt is in the list once its goroutine has released the lock, and
  nothing else is (`Listed`), because whoever appends holds the lock and has seen
  the list as it is (`Locked`). That the report takes the first of several
  receipts for an invocation needs a first one; `HasFirst` keeps it, as an
  induction over the list is out of reach.
* `ServerProofs!ReportsAreWhole`: `Spec => []WholeOrNothing`. `IInv` says which
  receipts are listed, not how often; the invariant adds a one-to-one matching of
  the list with the goroutines that released the lock (`Matching`). Each append
  extends it, and when all have returned its restriction to one invocation shows
  that the report has as many receipts for it as the batch has runs.
* `BlockStoreProofs!TypeCorrect`, `OnlyIterationsAreUnsafe`, `PutIsIterated` and
  `StoreIsSet`, for one goroutine that puts (`SinglePutter`), any number that get and
  iterate, any blocks and capacities. `Locks`: a Get excludes every Put, though with
  the modes exchanged. `Content`: between two insertions the header and the first
  cells of its array list the blocks of the map, each once (`KeysAre`); during an
  append the words it has read are those of the header (`Current`), and the element
  and the words, stored or to be stored, will list them (`Appending`). `Loops`: what
  a loop that is not in `raced` has read is what is stored, and nobody is inserting
  (`Undisturbed`), because whoever inserts puts all threads into `raced`. The order
  of the stores of an append does not matter to a Get, which waits for the lock, nor
  to such a loop, which sees none of them. With two goroutines that put `TypeCorrect`,
  `PutIsIterated` and `StoreIsSet` are false, as store_attach shows.
* `DelegationViewsProofs`: all six properties of DelegationViews, for all graphs of
  proofs, receipts and sequences of operations. An export is a function defined by
  recursion and what a view promises, `Below`, a least closed set; that no chain of
  proofs comes back to itself makes them the same closure (`ExportIsClosure`),
  without an induction. The invariant says that the store of every view has what
  the view was made with (`DlgGood`, `RcptGood`, `MsgGood`), that a store has the
  name of something that exists (`Named`), so that a new one replaces none, and
  that a receipt is on a store of its own or on that of a message (`OwnStore`).
  Actions are sorted by what they make: all of them let stores grow only
  (`GoodStep`), all but one change no store that exists (`Quiet`), and that one
  changes a single receipt (`OnlyReceipt`).

Only model-checked: liveness (`Answered`, `ExecuteReturns`, `ExecuteSucceeds`,
`EncodersEnd`, `RequestAnswered`), as the prover reaches neither fairness nor
ENABLED. Of `Answered` the theorem that the search is shallow proves one half: it
cannot go down for ever. The properties of the runs that expect a violation are
false, so there is nothing to prove of them, but for `AttachedIsIterated`, which
holds of one goroutine that puts (`PutIsIterated`). That the definitions by recursion are
used in proofs at all rests on their being functions over a finite set ordered by a
number; what a fold over a list of unknown length computes is avoided by invariants
that carry what is needed of it (`HasFirst`, `CacheOK`).

## What is not modelled

* Cryptography, encoding and hashing: a block is its link, a signature the key,
  the algorithm and the payload it was made with. The bytes of DIDs and headers.
* Schemas beyond the set of values they read (`core/schema/`), IPLD plumbing
  (`core/ipld/`, `core/iterable/`, `core/result/`): functions of single values
  without state.
* `Capability.Delegate` and `Invoke`, which only pass their arguments on.
* Panics other than a handler's and that of `validator/lib.go` 474.
* The retrieval server's refusals of a request before it looks at the invocation
  (415, 400, no or several invocations): they are those of ServerExecute but for
  the status named above, and end the exchange without a change of state.
* A failing block store: an iterator of the library yields an error only when a
  block is put into its store meanwhile (see above), which nothing in the library
  does while a message is encoded, so an encoder of Exchange fails only when its pipe
  is closed. `Wrap` of a parsed did:key never fails, and no world has such a failure.
* Examples, test helpers, generated code.

## Plan

1. Validator, Retrieval, ServerExecute, BlockStore and the first theorems: done.
2. Pruning against the reference (ProofPruning), views of delegations, receipts
   and messages (DelegationViews): done.
3. Signers, tokens changed after signing, options of both servers, and the errors
   of a refusal in Validator; requests sent again in Retrieval; one Execute over
   POST with its pipes (Exchange): done.
4. Theorems: the refinements and all safety properties of the passing runs, with
   the agreement of search and reference and the authority of pruned proofs: done.
   Next: more about the operators (that Export is least, that a path authorizes
   what it claims at every link), and a stronger `AccessDecides` that says which
   revocations may hide an authorization.
5. The other refusals of the retrieval server, with the composition of Retrieval
   and the header transport at the level of Exchange.

Of the candidates for a run only those are kept that ask a question of their own;
a new one should replace a weaker one or join the configuration of its module.
