------------------------------ MODULE DNSServer ------------------------------
(***************************************************************************)
(* The DNS server of internal/dnsudp/server.go with the decisions of       *)
(* runDNS: one reader takes requests off the socket into pooled buffers    *)
(* and starts a handler for each, at most Slots at a time; a handler       *)
(* answers from its buffer or forwards it upstream, then gives back its    *)
(* slot and its buffer.                                                    *)
(*                                                                         *)
(* A request is [client, question]; a response carries the request it was  *)
(* copied from.  Requests may be lost, duplicated and reordered by the     *)
(* network, and so may the exchange with the upstream.                     *)
(***************************************************************************)
EXTENDS Naturals, FiniteSets

CONSTANTS
  Slots,       \* capacity of the jobs channel: 256
  Handlers,    \* identities of handler goroutines, more than Slots
  Buffers,     \* identities of buffers
  Clients,
  Questions,   \* what a request may ask, "garbage" for one that does not parse
  Asked,       \* the requests the clients send
  MaxHung,     \* bound on calls of Decide that never return
  MaxRequests  \* bound on requests sent

Requests == [client : Clients, question : Questions]

ASSUME SlotsAssumption ==
  /\ Slots \in Nat \ {0}
  /\ IsFiniteSet(Handlers) /\ Cardinality(Handlers) > Slots
  /\ "none" \notin Buffers
  /\ Asked \subseteq Requests
  /\ MaxHung \in Nat /\ MaxRequests \in Nat

VARIABLES
  network,   \* requests on their way to the server
  sent,      \* requests sent so far
  pool,      \* buffers in the sync.Pool
  mem,       \* mem[b]: the request in buffer b
  reader,    \* the Serve loop
  jobs,      \* slots taken
  handler,   \* handler[h]: its pc, buffer and the address it answers to
  reply      \* the last response written, until its handler returns

vars == <<network, sent, pool, mem, reader, jobs, handler, reply>>

NoBuffer == "none"
Blank == [client |-> "none", question |-> "none"]
Idle == [pc |-> "idle", buffer |-> NoBuffer, source |-> "none", parsed |-> "none",
         decision |-> "none", relayed |-> Blank]

NoReply == [to |-> "none", echo |-> Blank, parsed |-> "none", kind |-> "none"]

\* handler with h about to run its deferred function, its locals dead.
Returned(h) ==
  [handler EXCEPT ![h] = [Idle EXCEPT !.pc = "release", !.buffer = handler[h].buffer]]

InUse(b) == reader.buffer = b \/ \E h \in Handlers : handler[h].buffer = b

Init ==
  /\ network = {} /\ sent = 0
  /\ pool = {}
  /\ mem = [b \in Buffers |-> Blank]
  /\ reader = [pc |-> "get", buffer |-> NoBuffer, source |-> "none"]
  /\ jobs = 0
  /\ handler = [h \in Handlers |-> Idle]
  /\ reply = NoReply
-----------------------------------------------------------------------------
(* The clients and the network.                                            *)

Send(r) ==
  /\ sent < MaxRequests
  /\ sent' = sent + 1
  /\ network' = network \cup {r}
  /\ UNCHANGED <<pool, mem, reader, jobs, handler, reply>>

Lose(r) ==
  /\ network' = network \ {r}
  /\ UNCHANGED <<sent, pool, mem, reader, jobs, handler, reply>>
-----------------------------------------------------------------------------
(* Serve.                                                                  *)

\* pool.Get returns a buffer of the pool or makes one.
GetBuffer ==
  /\ reader.pc = "get"
  /\ \E b \in Buffers :
       /\ b \in pool \/ ~InUse(b)
       /\ pool' = pool \ {b}
       /\ reader' = [reader EXCEPT !.pc = "read", !.buffer = b]
  /\ UNCHANGED <<network, sent, mem, jobs, handler, reply>>

\* conn.ReadFrom; a duplicated datagram stays in the network.
ReadRequest(r) ==
  /\ reader.pc = "read"
  /\ network' \in {network, network \ {r}}
  /\ mem' = [mem EXCEPT ![reader.buffer] = r]
  /\ reader' = [reader EXCEPT !.pc = "acquire", !.source = r.client]
  /\ UNCHANGED <<sent, pool, jobs, handler, reply>>

\* The socket fails: Serve returns, and the process with it.
ReadFails ==
  /\ reader.pc = "read"
  /\ pool' = pool \cup {reader.buffer}
  /\ reader' = [reader EXCEPT !.pc = "returned", !.buffer = NoBuffer]
  /\ UNCHANGED <<network, sent, mem, jobs, handler, reply>>

\* Mutant: the channel has one slot too many.
StartHandlerOver(h) ==
  /\ reader.pc = "acquire" /\ handler[h].pc = "idle"
  /\ jobs <= Slots
  /\ jobs' = jobs + 1
  /\ handler' = [handler EXCEPT ![h] = [Idle EXCEPT !.pc = "parse", !.buffer = reader.buffer,
                                                   !.source = reader.source]]
  /\ reader' = [pc |-> "get", buffer |-> NoBuffer, source |-> "none"]
  /\ UNCHANGED <<network, sent, pool, mem, reply>>

\* The send on jobs blocks while the channel is full; then a handler starts.
StartHandler(h) ==
  /\ reader.pc = "acquire" /\ handler[h].pc = "idle"
  /\ jobs < Slots
  /\ jobs' = jobs + 1
  /\ handler' = [handler EXCEPT ![h] = [Idle EXCEPT !.pc = "parse", !.buffer = reader.buffer,
                                                   !.source = reader.source]]
  /\ reader' = [pc |-> "get", buffer |-> NoBuffer, source |-> "none"]
  /\ UNCHANGED <<network, sent, pool, mem, reply>>
-----------------------------------------------------------------------------
(* Respond and forward, one step per access to the buffer.                 *)

\* Mutant: the buffer goes back to the pool once it is parsed.
ParseAndPut(h) ==
  /\ handler[h].pc = "parse"
  /\ handler' = [handler EXCEPT ![h].pc = "decide",
                                ![h].parsed = mem[handler[h].buffer].question]
  /\ pool' = pool \cup {handler[h].buffer}
  /\ UNCHANGED <<network, sent, mem, reader, jobs, reply>>

ParseQuestion(h) ==
  /\ handler[h].pc = "parse"
  /\ LET q == mem[handler[h].buffer].question IN
       handler' = IF q = "garbage"
                  THEN Returned(h)
                  ELSE [handler EXCEPT ![h].pc = "decide", ![h].parsed = q]
  /\ UNCHANGED <<network, sent, pool, mem, reader, jobs, reply>>

\* What Decide may say.  A reverse name may have a mapping or not, a tags name
\* a node or not; a protected name has an address, cannot be given one, or is
\* passed through when the identity source fails.
Decisions(q) ==
  CASE q = "reverse"  -> {"ptr", "noPtr"}
    [] q = "tagsA"    -> {"address", "noResponse"}
    [] q = "tags"     -> {"noResponse"}
    [] q = "ordinary" -> {"passthrough"}
    [] OTHER          -> {"address", "unavailable", "passthrough"}

Decide(h) ==
  /\ handler[h].pc = "decide"
  /\ \E d \in Decisions(handler[h].parsed) :
       handler' = [handler EXCEPT ![h].decision = d,
                     ![h].pc = IF d = "passthrough" THEN "forward" ELSE "answer"]
  /\ UNCHANGED <<network, sent, pool, mem, reader, jobs, reply>>

\* A statement of the allocation store has no deadline of its own, and Serve's
\* context has none either: a database that stops answering keeps the handler.
Hang(h) ==
  /\ handler[h].pc = "decide"
  /\ Cardinality({g \in Handlers : handler[g].pc = "hung"}) < MaxHung
  /\ handler' = [handler EXCEPT ![h].pc = "hung"]
  /\ UNCHANGED <<network, sent, pool, mem, reader, jobs, reply>>

\* The response an outcome has for a type of question; an address has none for
\* types other than A and AAAA.
Response(q, d) ==
  CASE d = "address" /\ q \in {"A", "tagsA"} -> {"address"}
    [] d = "address" /\ q = "AAAA"            -> {"empty"}
    [] d = "ptr"                              -> {"ptr"}
    [] d = "noPtr"                            -> {"empty"}
    [] d = "unavailable"                      -> {"servfail"}
    [] OTHER                                  -> {}

Reply(h, echo, kind) ==
  [to |-> handler[h].source, echo |-> echo, parsed |-> handler[h].parsed, kind |-> kind]

\* The response is copied from the request in the buffer and written.
Answer(h) ==
  /\ handler[h].pc = "answer"
  /\ LET kinds == Response(handler[h].parsed, handler[h].decision) IN
       \/ kinds = {} /\ UNCHANGED reply
       \/ \E k \in kinds : reply' = Reply(h, mem[handler[h].buffer], k)
  /\ handler' = Returned(h)
  /\ UNCHANGED <<network, sent, pool, mem, reader, jobs>>

\* Mutant: the slot is given back before the upstream answers.
ForwardReleased(h) ==
  /\ handler[h].pc = "forward"
  /\ handler' = [handler EXCEPT ![h].pc = "waiting", ![h].relayed = mem[handler[h].buffer]]
  /\ jobs' = jobs - 1
  /\ UNCHANGED <<network, sent, pool, mem, reader, reply>>

\* The request is sent upstream on a socket of its own, or that fails.
Forward(h) ==
  /\ handler[h].pc = "forward"
  /\ \/ handler' = [handler EXCEPT ![h].pc = "waiting", ![h].relayed = mem[handler[h].buffer]]
     \/ handler' = Returned(h)
  /\ UNCHANGED <<network, sent, pool, mem, reader, jobs, reply>>

UpstreamAnswers(h) ==
  /\ handler[h].pc = "waiting"
  /\ reply' = Reply(h, handler[h].relayed, "real")
  /\ handler' = Returned(h)
  /\ UNCHANGED <<network, sent, pool, mem, reader, jobs>>

\* Mutant: the upstream socket has no deadline.
NoDeadline(h) == FALSE /\ UNCHANGED vars

\* The deadline of two seconds passes.
Deadline(h) ==
  /\ handler[h].pc = "waiting"
  /\ handler' = Returned(h)
  /\ UNCHANGED <<network, sent, pool, mem, reader, jobs, reply>>

\* The deferred function: the slot, then the buffer.
ReleaseSlot(h) ==
  /\ handler[h].pc = "release"
  /\ jobs' = jobs - 1
  /\ handler' = [handler EXCEPT ![h] = [Idle EXCEPT !.pc = "put", !.buffer = handler[h].buffer]]
  /\ reply' = NoReply
  /\ UNCHANGED <<network, sent, pool, mem, reader>>

\* What a pooled buffer still holds is not told apart.
PutBuffer(h) ==
  /\ handler[h].pc = "put"
  /\ pool' = pool \cup {handler[h].buffer}
  /\ mem' = [mem EXCEPT ![handler[h].buffer] = Blank]
  /\ handler' = [handler EXCEPT ![h] = Idle]
  /\ UNCHANGED <<network, sent, reader, jobs, reply>>
-----------------------------------------------------------------------------
Handle(h) ==
  \/ ParseQuestion(h) \/ Decide(h) \/ Hang(h) \/ Answer(h) \/ Forward(h)
  \/ UpstreamAnswers(h) \/ Deadline(h) \/ ReleaseSlot(h) \/ PutBuffer(h)

Next ==
  \/ \E r \in Asked : Send(r)
  \/ \E r \in network : ReadRequest(r) \/ Lose(r)
  \/ GetBuffer \/ ReadFails
  \/ \E h \in Handlers : StartHandler(h) \/ Handle(h)

Spec == Init /\ [][Next]_vars

\* The Go scheduler runs the reader and every handler; the deadline
\* fires; all but MaxHung calls of Decide return.  The upstream and the network promise nothing.
Fairness ==
  /\ WF_vars(GetBuffer)
  /\ WF_vars(\E h \in Handlers : StartHandler(h))
  /\ \A h \in Handlers :
       /\ WF_vars(ParseQuestion(h) \/ Decide(h) \/ Answer(h) \/ Forward(h))
       /\ WF_vars(Deadline(h)) /\ WF_vars(ReleaseSlot(h)) /\ WF_vars(PutBuffer(h))

FairSpec == Spec /\ Fairness
-----------------------------------------------------------------------------
Contents == Requests \cup {Blank}

HandlerStates ==
  [pc : {"idle", "parse", "decide", "hung", "answer", "forward", "waiting", "release", "put"},
   buffer : Buffers \cup {NoBuffer}, source : Clients \cup {"none"},
   parsed : Questions \cup {"none"},
   decision : {"none", "address", "ptr", "noPtr", "noResponse", "unavailable", "passthrough"},
   relayed : Contents]

\* The types of the server's state: the reader holds a buffer exactly between
\* pool.Get and the start of a handler, a handler exactly until it puts it back.
TypeOK ==
  /\ network \subseteq Requests /\ sent \in 0..MaxRequests
  /\ pool \subseteq Buffers
  /\ mem \in [Buffers -> Contents]
  /\ reader \in [pc : {"get", "read", "acquire", "returned"},
                 buffer : Buffers \cup {NoBuffer}, source : Clients \cup {"none"}]
  /\ reader.buffer = NoBuffer <=> reader.pc \in {"get", "returned"}
  /\ jobs \in 0..Slots
  /\ handler \in [Handlers -> HandlerStates]
  /\ \A h \in Handlers : handler[h].buffer = NoBuffer <=> handler[h].pc = "idle"

\* A response goes to the client whose request it echoes, and the question that
\* was decided is the question it echoes: no handler's buffer is read over by
\* the reader or by another handler while it is still in use.
OwnAnswer ==
  reply.to = reply.echo.client /\ reply.parsed = reply.echo.question

\* "At most 256 request handlers are active": no more handlers than slots are
\* between their start and the release of their slot, and slots are neither
\* leaked nor given back twice on any path.
HandlersBounded ==
  /\ Cardinality({h \in Handlers : handler[h].pc \notin {"idle", "put"}}) = jobs
  /\ jobs <= Slots

\* The reader never stays blocked on a full channel: whatever the upstream does,
\* and however the hanging calls of Decide are spread, it gets back to the socket
\* as long as fewer of them hang than there are slots.
ReaderProceeds == reader.pc = "acquire" ~> reader.pc = "read"
=============================================================================
