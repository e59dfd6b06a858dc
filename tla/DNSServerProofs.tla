--------------------------- MODULE DNSServerProofs ---------------------------
(***************************************************************************)
(* The DNS server answers every client from that client's own request, and *)
(* keeps its bound on handlers, for any number of slots, handlers, buffers *)
(* and clients.                                                            *)
(***************************************************************************)
EXTENDS DNSServer, FiniteSetTheorems, TLAPS

\* Every buffer has one owner: the reader, one handler, or the pool.
Ownership ==
  /\ \A h \in Handlers : handler[h].buffer # NoBuffer =>
       handler[h].buffer # reader.buffer /\ handler[h].buffer \notin pool
  /\ \A g, h \in Handlers :
       g # h /\ handler[h].buffer # NoBuffer => handler[g].buffer # handler[h].buffer
  /\ reader.buffer \notin pool

\* What a handler has taken from its buffer is still what the buffer holds.
HoldsRequest(h) ==
  LET request == mem[handler[h].buffer] IN
    /\ handler[h].pc \in {"parse", "decide", "answer", "forward"} =>
         request.client = handler[h].source
    /\ handler[h].pc \in {"decide", "answer", "forward"} =>
         request.question = handler[h].parsed
    /\ handler[h].pc = "waiting" =>
         /\ handler[h].relayed.client = handler[h].source
         /\ handler[h].relayed.question = handler[h].parsed

Inv ==
  /\ Ownership
  /\ reader.pc = "acquire" => mem[reader.buffer].client = reader.source
  /\ \A h \in Handlers : HoldsRequest(h)
  /\ OwnAnswer

\* The handlers that hold a slot.
Active == {h \in Handlers : handler[h].pc \notin {"idle", "put"}}

Counted == Cardinality(Active) = jobs
-----------------------------------------------------------------------------
\* Initially no buffer, slot or handler is in use.
LEMMA InitHolds == Init => TypeOK /\ Counted /\ Inv
<1> SUFFICES ASSUME Init PROVE TypeOK /\ Counted /\ Inv
  OBVIOUS
<1>1. TypeOK
  BY SlotsAssumption DEF Init, TypeOK, Idle, Blank, NoBuffer, HandlerStates, Contents
<1>2. Counted
  <2>1. Active = {}
    BY DEF Init, Active, Idle
  <2> QED
    BY <2>1, FS_EmptySet DEF Init, Counted
<1>3. Inv
  BY SlotsAssumption
     DEF Init, Inv, Ownership, HoldsRequest, OwnAnswer, Idle, NoReply, Blank, NoBuffer
<1> QED
  BY <1>1, <1>2, <1>3

\* A handler that holds a slot is counted, so a slot can be given back.
LEMMA SlotHeld ==
  ASSUME TypeOK, Counted, NEW h \in Handlers, handler[h].pc \notin {"idle", "put"}
  PROVE  jobs > 0
<1>1. h \in Active /\ IsFiniteSet(Active)
  BY SlotsAssumption, FS_Subset DEF Active
<1>2. Cardinality(Active) \in Nat /\ Cardinality(Active) # 0
  BY <1>1, FS_EmptySet, FS_CardinalityType
<1> QED
  BY <1>2 DEF Counted, TypeOK

\* Every step keeps the types; only giving back a slot needs the count.
LEMMA TypesKept ==
  ASSUME TypeOK, Counted, [Next]_vars
  PROVE  TypeOK'
<1>1. ASSUME NEW r \in Asked, Send(r) PROVE TypeOK'
  BY <1>1, SlotsAssumption DEF Send, TypeOK
<1>2. ASSUME NEW r \in network, Lose(r) PROVE TypeOK'
  BY <1>2 DEF Lose, TypeOK
<1>3. CASE GetBuffer
  <2>1. PICK b \in Buffers : /\ pool' = pool \ {b}
                             /\ reader' = [reader EXCEPT !.pc = "read", !.buffer = b]
    BY <1>3 DEF GetBuffer
  <2>2. b # NoBuffer
    BY SlotsAssumption DEF NoBuffer
  <2>3. /\ reader' \in [pc : {"get", "read", "acquire", "returned"},
                        buffer : Buffers \cup {NoBuffer}, source : Clients \cup {"none"}]
        /\ reader'.pc = "read" /\ reader'.buffer = b
    BY <2>1 DEF TypeOK
  <2> QED
    BY <1>3, <2>1, <2>2, <2>3 DEF GetBuffer, TypeOK
<1>4. ASSUME NEW r \in network, ReadRequest(r) PROVE TypeOK'
  BY <1>4 DEF ReadRequest, TypeOK, Requests, Contents
<1>5. CASE ReadFails
  BY <1>5 DEF ReadFails, TypeOK, NoBuffer
<1>6. ASSUME NEW h \in Handlers, StartHandler(h) PROVE TypeOK'
  <2>1. [Idle EXCEPT !.pc = "parse", !.buffer = reader.buffer, !.source = reader.source]
          \in HandlerStates
    BY DEF TypeOK, Idle, HandlerStates, Contents
  <2> QED
    BY <1>6, <2>1, SlotsAssumption DEF StartHandler, TypeOK, NoBuffer, Idle
<1>7. ASSUME NEW h \in Handlers, Handle(h) PROVE TypeOK'
  <2>0. [Idle EXCEPT !.pc = "release", !.buffer = handler[h].buffer] \in HandlerStates
        /\ [Idle EXCEPT !.pc = "put", !.buffer = handler[h].buffer] \in HandlerStates
        /\ Idle \in HandlerStates
    BY DEF TypeOK, Idle, HandlerStates, Contents, NoBuffer
  <2>a. handler[h].pc # "idle" => Returned(h) \in [Handlers -> HandlerStates]
          /\ \A g \in Handlers : Returned(h)[g].buffer = NoBuffer <=> Returned(h)[g].pc = "idle"
    BY <2>0 DEF TypeOK, Returned, Idle
  <2>1. CASE ParseQuestion(h)
    <3>1. mem[handler[h].buffer].question \in Questions \cup {"none"}
      BY <2>1 DEF ParseQuestion, TypeOK, Contents, Requests, Blank, HandlerStates
    <3>2. handler' = Returned(h) \/
          handler' = [handler EXCEPT ![h].pc = "decide",
                                     ![h].parsed = mem[handler[h].buffer].question]
      BY <2>1 DEF ParseQuestion
    <3>3. CASE handler' = Returned(h)
      BY <2>1, <2>a, <3>3 DEF ParseQuestion, TypeOK
    <3>4. CASE handler' = [handler EXCEPT ![h].pc = "decide",
                                          ![h].parsed = mem[handler[h].buffer].question]
      <4>0. handler[h] \in HandlerStates
        BY DEF TypeOK
      <4>1. [handler[h] EXCEPT !.pc = "decide", !.parsed = mem[handler[h].buffer].question]
              \in HandlerStates
        BY <3>1, <4>0 DEF HandlerStates
      <4>2. handler' = [handler EXCEPT ![h] =
              [handler[h] EXCEPT !.pc = "decide", !.parsed = mem[handler[h].buffer].question]]
        BY <3>4 DEF TypeOK
      <4>3. handler'[h].buffer = handler[h].buffer /\ handler'[h].pc = "decide"
        BY <4>0, <4>2 DEF TypeOK, HandlerStates
      <4> QED
        BY <2>1, <4>1, <4>2, <4>3 DEF ParseQuestion, TypeOK
    <3> QED
      BY <3>2, <3>3, <3>4
  <2>2. CASE Decide(h)
    <3>1. PICK d \in Decisions(handler[h].parsed) :
            handler' = [handler EXCEPT ![h].decision = d,
                          ![h].pc = IF d = "passthrough" THEN "forward" ELSE "answer"]
      BY <2>2 DEF Decide
    <3>2. d \in {"address", "ptr", "noPtr", "noResponse", "unavailable", "passthrough"}
      BY DEF Decisions
    <3> QED
      BY <2>2, <3>1, <3>2 DEF Decide, TypeOK, HandlerStates
  <2>9. CASE Hang(h)
    BY <2>9 DEF Hang, TypeOK, HandlerStates
  <2>3. CASE Answer(h)
    BY <2>3, <2>a DEF Answer, TypeOK
  <2>4. CASE Forward(h)
    <3>1. mem[handler[h].buffer] \in Contents
      BY <2>4 DEF Forward, TypeOK, HandlerStates
    <3>2. handler' = Returned(h) \/
          handler' = [handler EXCEPT ![h].pc = "waiting", ![h].relayed = mem[handler[h].buffer]]
      BY <2>4 DEF Forward
    <3>3. CASE handler' = Returned(h)
      BY <2>4, <2>a, <3>3 DEF Forward, TypeOK
    <3>4. CASE handler' = [handler EXCEPT ![h].pc = "waiting",
                                          ![h].relayed = mem[handler[h].buffer]]
      <4>0. handler[h] \in HandlerStates
        BY DEF TypeOK
      <4>1. [handler[h] EXCEPT !.pc = "waiting", !.relayed = mem[handler[h].buffer]]
              \in HandlerStates
        BY <3>1, <4>0 DEF HandlerStates
      <4>2. handler' = [handler EXCEPT ![h] =
              [handler[h] EXCEPT !.pc = "waiting", !.relayed = mem[handler[h].buffer]]]
        BY <3>4 DEF TypeOK
      <4>3. handler'[h].buffer = handler[h].buffer /\ handler'[h].pc = "waiting"
        BY <4>0, <4>2 DEF TypeOK, HandlerStates
      <4> QED
        BY <2>4, <4>1, <4>2, <4>3 DEF Forward, TypeOK
    <3> QED
      BY <3>2, <3>3, <3>4
  <2>5. CASE UpstreamAnswers(h)
    BY <2>5, <2>a DEF UpstreamAnswers, TypeOK
  <2>6. CASE Deadline(h)
    BY <2>6, <2>a DEF Deadline, TypeOK
  <2>7. CASE ReleaseSlot(h)
    <3>1. jobs > 0
      BY <2>7, SlotHeld DEF ReleaseSlot
    <3> QED
      BY <2>7, <2>0, <3>1, SlotsAssumption DEF ReleaseSlot, TypeOK, Idle
  <2>8. CASE PutBuffer(h)
    BY <2>8, <2>0 DEF PutBuffer, TypeOK, HandlerStates, Contents, Idle, NoBuffer
  <2> QED
    BY <1>7, <2>1, <2>2, <2>3, <2>4, <2>5, <2>6, <2>7, <2>8, <2>9 DEF Handle
<1>8. CASE UNCHANGED vars
  BY <1>8 DEF vars, TypeOK
<1> QED
  BY <1>1, <1>2, <1>3, <1>4, <1>5, <1>6, <1>7, <1>8 DEF Next

\* What a step of a handler leaves alone: the other handlers, the reader, and
\* every buffer but its own.
LEMMA HandlerFrame ==
  ASSUME TypeOK, NEW h \in Handlers, Handle(h)
  PROVE  /\ UNCHANGED <<network, sent, reader>>
         /\ \A g \in Handlers \ {h} : handler'[g] = handler[g]
         /\ handler'[h].buffer \in {handler[h].buffer, NoBuffer}
         /\ \A b \in Buffers : b # handler[h].buffer => mem'[b] = mem[b]
         /\ ~ReleaseSlot(h) => jobs' = jobs /\
              (handler[h].pc \in {"idle", "put"} <=> handler'[h].pc \in {"idle", "put"})
<1>1. CASE ParseQuestion(h)
  BY <1>1 DEF ParseQuestion, TypeOK, HandlerStates, Returned, Idle
<1>2. CASE Decide(h)
  BY <1>2 DEF Decide, TypeOK, HandlerStates
<1>9. CASE Hang(h)
  BY <1>9 DEF Hang, TypeOK, HandlerStates
<1>3. CASE Answer(h)
  BY <1>3 DEF Answer, TypeOK, Returned, Idle
<1>4. CASE Forward(h)
  <2>1. CASE handler' = Returned(h)
    BY <1>4, <2>1 DEF Forward, TypeOK, Returned, Idle
  <2>2. CASE handler' = [handler EXCEPT ![h].pc = "waiting",
                                        ![h].relayed = mem[handler[h].buffer]]
    BY <1>4, <2>2 DEF Forward, TypeOK, HandlerStates
  <2> QED
    BY <1>4, <2>1, <2>2 DEF Forward
<1>5. CASE UpstreamAnswers(h)
  BY <1>5 DEF UpstreamAnswers, TypeOK, Returned, Idle
<1>6. CASE Deadline(h)
  BY <1>6 DEF Deadline, TypeOK, Returned, Idle
<1>7. CASE ReleaseSlot(h)
  BY <1>7 DEF ReleaseSlot, TypeOK, Idle
<1>8. CASE PutBuffer(h)
  BY <1>8 DEF PutBuffer, TypeOK, Idle
<1> QED
  BY <1>1, <1>2, <1>3, <1>4, <1>5, <1>6, <1>7, <1>8, <1>9 DEF Handle

\* The count follows a handler that takes or gives back a slot, and stays when
\* no handler does.
LEMMA CountFollows ==
  ASSUME TypeOK, Counted, [Next]_vars
  PROVE  Counted'
<1>0. IsFiniteSet(Active) /\ Cardinality(Active) \in Nat
  BY SlotsAssumption, FS_Subset, FS_CardinalityType DEF Active
<1>1. ASSUME NEW h \in Handlers, StartHandler(h) PROVE Counted'
  <2>1. Active' = Active \cup {h} /\ h \notin Active
    BY <1>1 DEF StartHandler, Active, TypeOK, Idle
  <2> QED
    BY <1>0, <1>1, <2>1, FS_AddElement DEF Counted, StartHandler
<1>2. ASSUME NEW h \in Handlers, ReleaseSlot(h) PROVE Counted'
  <2>1. Active' = Active \ {h} /\ h \in Active
    BY <1>2 DEF ReleaseSlot, Active, TypeOK, Idle
  <2> QED
    BY <1>0, <1>2, <2>1, FS_RemoveElement DEF Counted, ReleaseSlot
<1>3. ASSUME NEW h \in Handlers, Handle(h), ~ReleaseSlot(h) PROVE Counted'
  <2>1. Active' = Active
    BY <1>3, HandlerFrame DEF Active
  <2> QED
    BY <1>3, <2>1, HandlerFrame DEF Counted
<1>4. ASSUME UNCHANGED <<jobs, handler>> PROVE Counted'
  BY <1>4 DEF Counted, Active
<1> QED
  BY <1>1, <1>2, <1>3, <1>4
     DEF Next, vars, Send, Lose, GetBuffer, ReadRequest, ReadFails

\* A buffer is passed from the pool to the reader, to one handler, and back.
LEMMA OwnershipKept ==
  ASSUME TypeOK, TypeOK', Ownership, [Next]_vars
  PROVE  Ownership'
<1>1. CASE GetBuffer
  BY <1>1, SlotsAssumption DEF GetBuffer, Ownership, InUse, TypeOK, NoBuffer
<1>2. CASE ReadFails
  BY <1>2, SlotsAssumption DEF ReadFails, Ownership, TypeOK, NoBuffer
<1>3. ASSUME NEW h \in Handlers, StartHandler(h) PROVE Ownership'
  BY <1>3, SlotsAssumption DEF StartHandler, Ownership, TypeOK, Idle, NoBuffer
<1>4. ASSUME NEW h \in Handlers, PutBuffer(h) PROVE Ownership'
  BY <1>4, SlotsAssumption DEF PutBuffer, Ownership, TypeOK, Idle, NoBuffer
<1>5. ASSUME NEW h \in Handlers, Handle(h), pool' = pool PROVE Ownership'
  BY <1>5, HandlerFrame DEF Ownership
<1>6. ASSUME pool' = pool, handler' = handler, reader'.buffer = reader.buffer PROVE Ownership'
  BY <1>6 DEF Ownership
<1>7. ASSUME NEW r \in network, ReadRequest(r) PROVE reader'.buffer = reader.buffer
  BY <1>7 DEF ReadRequest, TypeOK
<1>8. ASSUME NEW h \in Handlers, Handle(h) PROVE Ownership'
  BY <1>4, <1>5, <1>8
     DEF Handle, ParseQuestion, Decide, Hang, Answer, Forward, UpstreamAnswers, Deadline, ReleaseSlot
<1> QED
  BY <1>1, <1>2, <1>3, <1>6, <1>7, <1>8 DEF Next, vars, Send, Lose, ReadRequest

\* A handler's view of its request survives every step: its own steps keep it,
\* and the buffer is out of reach of all others.
LEMMA RequestsKept ==
  ASSUME TypeOK, TypeOK', Inv, [Next]_vars, NEW g \in Handlers
  PROVE  HoldsRequest(g)'
<1>1. ASSUME handler'[g] = handler[g], mem'[handler[g].buffer] = mem[handler[g].buffer]
      PROVE  HoldsRequest(g)'
  BY <1>1 DEF Inv, HoldsRequest
<1>2. ASSUME NEW r \in network, ReadRequest(r) PROVE HoldsRequest(g)'
  <2>1. CASE handler[g].buffer = NoBuffer
    BY <1>2, <2>1 DEF ReadRequest, HoldsRequest, TypeOK, HandlerStates
  <2>2. CASE handler[g].buffer # NoBuffer
    BY <1>1, <1>2, <2>2 DEF ReadRequest, Inv, Ownership, TypeOK, HandlerStates
  <2> QED
    BY <2>1, <2>2
<1>3. ASSUME NEW h \in Handlers, StartHandler(h) PROVE HoldsRequest(g)'
  BY <1>3 DEF StartHandler, Inv, HoldsRequest, TypeOK, Idle
<1>4. ASSUME NEW h \in Handlers, Handle(h), h # g PROVE HoldsRequest(g)'
  <2>1. CASE handler[g].buffer = NoBuffer
    BY <1>4, <2>1, HandlerFrame DEF HoldsRequest, TypeOK, HandlerStates
  <2>2. CASE handler[g].buffer # NoBuffer
    BY <1>1, <1>4, <2>2, HandlerFrame DEF Inv, Ownership, TypeOK, HandlerStates
  <2> QED
    BY <2>1, <2>2
<1>5. ASSUME Handle(g) PROVE HoldsRequest(g)'
  <2>1. CASE ParseQuestion(g)
    BY <2>1 DEF ParseQuestion, Inv, HoldsRequest, TypeOK, HandlerStates, Returned, Idle
  <2>2. CASE Decide(g)
    BY <2>2 DEF Decide, Inv, HoldsRequest, TypeOK, HandlerStates
  <2>7. CASE Hang(g)
    <3>1. handler'[g].pc = "hung"
      BY <2>7 DEF Hang, TypeOK, HandlerStates
    <3> QED
      BY <3>1 DEF HoldsRequest
  <2>3. CASE Forward(g)
    <3>1. CASE handler' = Returned(g)
      BY <3>1 DEF HoldsRequest, TypeOK, Returned, Idle
    <3>2. CASE handler' = [handler EXCEPT ![g].pc = "waiting",
                                          ![g].relayed = mem[handler[g].buffer]]
      BY <2>3, <3>2 DEF Forward, Inv, HoldsRequest, TypeOK, HandlerStates
    <3> QED
      BY <2>3, <3>1, <3>2 DEF Forward
  <2>4. CASE Answer(g) \/ UpstreamAnswers(g) \/ Deadline(g)
    <3>1. handler' = Returned(g)
      BY <2>4 DEF Answer, UpstreamAnswers, Deadline
    <3> QED
      BY <3>1 DEF HoldsRequest, TypeOK, Returned, Idle
  <2>5. CASE ReleaseSlot(g)
    BY <2>5 DEF ReleaseSlot, HoldsRequest, TypeOK, Idle
  <2>6. CASE PutBuffer(g)
    <3>1. handler'[g].pc = "idle"
      BY <2>6 DEF PutBuffer, TypeOK, Idle
    <3> QED
      BY <3>1 DEF HoldsRequest
  <2> QED
    BY <1>5, <2>1, <2>2, <2>3, <2>4, <2>5, <2>6, <2>7 DEF Handle
<1>6. ASSUME UNCHANGED <<handler, mem>> PROVE HoldsRequest(g)'
  BY <1>1, <1>6
<1> QED
  BY <1>2, <1>3, <1>4, <1>5, <1>6 DEF Next, vars, Send, Lose, GetBuffer, ReadFails

\* The reader keeps the address of the request it has read with the request.
LEMMA SourceKept ==
  ASSUME TypeOK, TypeOK', Inv, [Next]_vars
  PROVE  reader'.pc = "acquire" => mem'[reader'.buffer].client = reader'.source
<1>1. ASSUME NEW r \in network, ReadRequest(r)
      PROVE  mem'[reader'.buffer].client = reader'.source
  BY <1>1 DEF ReadRequest, TypeOK
<1>2. ASSUME NEW h \in Handlers, Handle(h), reader.pc = "acquire"
      PROVE  mem'[reader'.buffer].client = reader'.source
  <2>1. reader.buffer \in Buffers /\ reader.buffer # handler[h].buffer
    BY <1>2 DEF TypeOK, Inv, Ownership
  <2> QED
    BY <1>2, <2>1, HandlerFrame DEF Inv
<1>3. ASSUME UNCHANGED <<reader, mem>>, reader.pc = "acquire"
      PROVE  mem'[reader'.buffer].client = reader'.source
  BY <1>3 DEF Inv
<1>4. ASSUME NEW h \in Handlers, Handle(h) PROVE reader' = reader
  BY <1>4, HandlerFrame
<1>5. ASSUME GetBuffer PROVE reader'.pc = "read"
  BY <1>5 DEF GetBuffer, TypeOK
<1>6. ASSUME ReadFails PROVE reader'.pc = "returned"
  BY <1>6 DEF ReadFails, TypeOK
<1>7. ASSUME NEW h \in Handlers, StartHandler(h) PROVE reader'.pc = "get"
  BY <1>7 DEF StartHandler
<1> QED
  BY <1>1, <1>2, <1>3, <1>4, <1>5, <1>6, <1>7 DEF Next, vars, Send, Lose

\* A response is written from the handler's own request.
LEMMA AnswersKept ==
  ASSUME TypeOK, Inv, [Next]_vars
  PROVE  OwnAnswer'
<1>1. ASSUME NEW h \in Handlers, Answer(h) PROVE OwnAnswer'
  <2>1. CASE UNCHANGED reply
    BY <2>1 DEF Inv, OwnAnswer
  <2>2. ASSUME NEW k, reply' = Reply(h, mem[handler[h].buffer], k) PROVE OwnAnswer'
    BY <1>1, <2>2 DEF Answer, Inv, HoldsRequest, OwnAnswer, Reply
  <2> QED
    BY <1>1, <2>1, <2>2 DEF Answer
<1>2. ASSUME NEW h \in Handlers, UpstreamAnswers(h) PROVE OwnAnswer'
  BY <1>2 DEF UpstreamAnswers, Inv, HoldsRequest, OwnAnswer, Reply
<1>3. ASSUME UNCHANGED reply PROVE OwnAnswer'
  BY <1>3 DEF Inv, OwnAnswer
<1>4. ASSUME NEW h \in Handlers, ReleaseSlot(h) PROVE OwnAnswer'
  BY <1>4 DEF ReleaseSlot, OwnAnswer, NoReply, Blank
<1> QED
  BY <1>1, <1>2, <1>3, <1>4
     DEF Next, Handle, vars, Send, Lose, GetBuffer, ReadRequest, ReadFails, StartHandler,
         ParseQuestion, Decide, Hang, Forward, Deadline, PutBuffer

\* The three invariants are inductive together.
LEMMA Inductive == Spec => [](TypeOK /\ Counted /\ Inv)
<1>1. TypeOK /\ Counted /\ Inv /\ [Next]_vars => (TypeOK /\ Counted /\ Inv)'
  <2> SUFFICES ASSUME TypeOK, Counted, Inv, [Next]_vars
               PROVE  TypeOK' /\ Counted' /\ Inv'
    OBVIOUS
  <2>1. TypeOK' /\ Counted'
    BY TypesKept, CountFollows
  <2>2. Ownership'
    BY <2>1, OwnershipKept DEF Inv
  <2>3. \A g \in Handlers : HoldsRequest(g)'
    BY <2>1, RequestsKept
  <2> QED
    BY <2>1, <2>2, <2>3, SourceKept, AnswersKept DEF Inv
<1> QED
  BY <1>1, InitHolds, PTL DEF Spec

\* The server's state keeps its types, whatever the schedule of its goroutines.
THEOREM ServerTypes == Spec => []TypeOK
  BY Inductive, PTL

\* Serve answers each client from that client's own request: no interleaving of
\* the reader, the handlers and the pool lets one request overwrite another.
THEOREM AnswersAreOwn == Spec => []OwnAnswer
<1>1. Inv => OwnAnswer
  BY DEF Inv
<1> QED
  BY <1>1, Inductive, PTL

\* "At most 256 request handlers are active", and every slot is accounted for.
THEOREM BoundHolds == Spec => []HandlersBounded
<1>1. TypeOK /\ Counted => HandlersBounded
  BY SlotsAssumption DEF TypeOK, Counted, HandlersBounded, Active
<1> QED
  BY <1>1, Inductive, PTL
=============================================================================
