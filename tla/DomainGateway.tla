---------------------------- MODULE DomainGateway ----------------------------
(***************************************************************************)
(* The system end to end: nodes ask the DNS role for names, keep the       *)
(* answers for their TTL and open flows to them; the egress that routes    *)
(* the address recovers the name through a PTR query, authorizes the flow  *)
(* against the policy of that moment and dials the name                    *)
(* (internal/domain/service.go, state.go, gateway.go,                      *)
(* cmd/domain-gateway/main.go).                                            *)
(*                                                                         *)
(* There is one DNS process, with its RAM, its lastRenewed and the table.  *)
(* A request to it ends within the tick in which it started and is one     *)
(* step, but for one request at a time that stands between the two halves  *)
(* of LookupKeyLive.  The steps of requests are in AllocationStore, whose  *)
(* invariant CacheInverse lets byKey, byIP and expires be one function.    *)
(*                                                                         *)
(* Every time is kept as the ticks that are left of it, or that have gone  *)
(* by, so the states are finite and time is not bounded.                   *)
(***************************************************************************)
EXTENDS Policy, FiniteSetsExt

CONSTANTS
  Nodes,       \* tailnet nodes that ask for names
  Names,
  Policies, Entries, \* Entries[p]: the list of capability entries of policy p
  Egresses, Assigned, \* Assigned[e]: the gateway record of egress e
  Ports,
  Flows,       \* identities of client connections
  TTL,         \* of DNS answers
  Leases,      \* the leases -allocation-lease may name
  Debounce,
  MaxDelay,    \* longest time from a client's connect to the PTR answer
  Faults       \* which of "identity", "db" and "restart" happen

ASSUME TimesAssumption ==
  Leases \subseteq Nat \ {0} /\ Debounce \in Nat /\ TTL \in Nat /\ MaxDelay \in Nat

VARIABLES
  lease,         \* the configured lease
  caps,          \* caps[s]: the policy the control plane has for s
  holds, left,   \* the table: address of each (ranges, name), ticks to its expiry
  ram,           \* the Allocator: the same of each (ranges, name) in RAM
  debounce,      \* SQLStore.lastRenewed: ticks until a renewal is due
  asking,        \* the request between the two halves of LookupKeyLive
  stub,          \* stub[s][n]: the answer node s keeps for name n
  flow,          \* the flows
  lost           \* history: the keys whose last UPDATE failed

table    == <<holds, left>>
registry == <<table, ram, debounce, lost>>
vars     == <<lease, caps, registry, asking, stub, flow>>

\* What Parse makes of each policy, and RangesForName of a name under it.
Grants   == [p \in Policies |-> Parse(Entries[p])]
RangesOf == [p \in Policies |-> [n \in Names |-> RangesForName(Grants[p], n)]]

KeyOf(p, n) == <<rangeKey(RangesOf[p][n]), n>>
Granted == {pn \in Policies \X Names : RangesOf[pn[1]][pn[2]] # <<>>}
Keys == {KeyOf(pn[1], pn[2]) : pn \in Granted}

NoAddr == 0
NoEntry == [addr |-> NoAddr, left |-> 0]
NoRequest == [node |-> ""]
NoAnswer == [addr |-> NoAddr, age |-> 0, under |-> "", doubt |-> {}]
NoFlow == [pc |-> "closed", node |-> "", asked |-> <<>>, answer |-> NoAnswer, port |-> 0,
           egress |-> "", wait |-> 0, name |-> <<>>, seen |-> {}]

Init ==
  /\ lease \in Leases
  /\ caps \in [Nodes -> Policies]
  /\ holds = [k \in Keys |-> NoAddr]
  /\ left = [k \in Keys |-> 0]
  /\ ram = [k \in Keys |-> NoEntry]
  /\ debounce = [k \in Keys |-> 0]
  /\ asking = NoRequest
  /\ stub = [s \in Nodes |-> [n \in Names |-> NoAnswer]]
  /\ flow = [f \in Flows |-> NoFlow]
  /\ lost = {}
-----------------------------------------------------------------------------
(* The registry: RAM, then the table.                                      *)

\* LookupLive: an entry that is absent has expired too.
RamLive(a) == \E k \in Keys : ram[k].addr = a /\ ram[k].left > 0

Forget(a) == [k \in Keys |-> IF ram[k].addr = a THEN NoEntry ELSE ram[k]]

\* RememberUntil: m with a for k, unless either is there.
Remember(m, k, a) ==
  IF m[k].addr # NoAddr \/ \E j \in Keys : m[j].addr = a
  THEN m ELSE [m EXCEPT ![k] = [addr |-> a, left |-> lease]]

Live(k) == holds[k] # NoAddr /\ left[k] > 0

\* DELETE ... WHERE expires_at <= now.
DeleteExpired ==
  /\ holds' = [k \in Keys |-> IF Live(k) THEN holds[k] ELSE NoAddr]
  /\ left' = [k \in Keys |-> IF Live(k) THEN left[k] ELSE 0]

\* The addresses of a list of prefixes, network addresses apart, in scan order.
Pool == [ranges \in {k[1] : k \in Keys} |->
  FlattenSeq([i \in DOMAIN ranges |->
    [j \in 1..(ranges[i].size - 1) |-> ranges[i].base + j]])]

Free(ranges) ==
  {i \in DOMAIN Pool[ranges] : \A k \in Keys : Live(k) => holds[k] # Pool[ranges][i]}

FirstFree(ranges) == Pool[ranges][Min(Free(ranges))]

\* DELETE, then the first INSERT that meets no conflict.
Insert(k) ==
  /\ holds' = [j \in Keys |-> IF j = k THEN FirstFree(k[1])
                              ELSE IF Live(j) THEN holds[j] ELSE NoAddr]
  /\ left' = [j \in Keys |-> IF j = k THEN lease ELSE IF Live(j) THEN left[j] ELSE 0]

Due(k, force) == force \/ debounce[k] = 0

\* Mutant: the row keeps the expiry it was added with.
UpdateNothing(k) == UNCHANGED left

\* UPDATE ... SET expires_at; no row is no error.
UpdateRow(k) ==
  left' = [left EXCEPT ![k] = IF holds[k] = NoAddr THEN @ ELSE lease]

Stamp(k) == debounce' = [debounce EXCEPT ![k] = Debounce]

\* SQLStore.renew when it returns nil.
Renew(k, force) ==
  \/ ~Due(k, force) /\ UNCHANGED <<left, debounce, lost>>
  \/ /\ Due(k, force)
     /\ Stamp(k)
     /\ UpdateRow(k)
     /\ lost' = IF holds[k] = NoAddr THEN lost ELSE lost \ {k}

\* SQLStore.renew when the UPDATE fails, applied or not: lastRenewed is set.
RenewFails(k, force) ==
  /\ "db" \in Faults
  /\ Due(k, force)
  /\ Stamp(k)
  /\ \/ UpdateRow(k) /\ UNCHANGED lost
     \/ UNCHANGED left /\ lost' = lost \cup {k}
-----------------------------------------------------------------------------
(* The DNS role.  dnsGateways configures no gateway, so IsGateway holds of *)
(* no node and only its failure matters.                                   *)

\* DNSAnswer passes the query to ordinary DNS: no grant, or no answer from the
\* identity source.  The answer for an AAAA query changes nothing here.
Passthrough(s, n) ==
  /\ <<caps[s], n>> \notin Granted \/ "identity" \in Faults
  /\ stub' = [stub EXCEPT ![s][n] = NoAnswer]
  /\ UNCHANGED <<lease, caps, registry, asking, flow>>

\* A request that reaches AllocationLifecycle.Allocate and has read byKey.
Request(s, n) ==
  [node |-> s, name |-> n, under |-> caps[s], key |-> KeyOf(caps[s], n),
   addr |-> ram[KeyOf(caps[s], n)].addr]

\* An address for an A query, an empty answer for an AAAA query.
Send(q, a, doubt) ==
  \/ stub' = [stub EXCEPT ![q.node][q.name] =
                [addr |-> a, age |-> 0, under |-> q.under, doubt |-> doubt]]
  \/ UNCHANGED stub

ServFail == UNCHANGED stub

\* History: what the debounce or the two halves of LookupKeyLive let pass.
Doubt(k, a) ==
  (IF ram[k].addr # a THEN {"raced"} ELSE {})
    \cup (IF \E j \in lost' : ram[j].addr = a THEN {"lost"} ELSE {})

\* The address is live in RAM; whose it is is not compared.
AnswerFromRAM(q) ==
  /\ RamLive(q.addr)
  /\ UNCHANGED <<ram, holds>>
  /\ \/ Renew(q.key, FALSE) /\ Send(q, q.addr, Doubt(q.key, q.addr))
     \/ RenewFails(q.key, FALSE) /\ ServFail

AnswerFromTable(q) ==
  /\ ~RamLive(q.addr) /\ Live(q.key)
  /\ ram' = Remember(Forget(q.addr), q.key, holds[q.key])
  /\ UNCHANGED holds
  /\ \/ Renew(q.key, TRUE) /\ Send(q, holds[q.key], {})
     \/ RenewFails(q.key, TRUE) /\ ServFail

\* SQLStore.Allocate, whose own LookupKeyLive misses as that of LookupKey did.
AnswerNew(q) ==
  /\ ~RamLive(q.addr) /\ ~Live(q.key)
  /\ \/ /\ Free(q.key[1]) # {}
        /\ Insert(q.key)
        /\ ram' = Remember(Forget(q.addr), q.key, holds'[q.key])
        /\ Stamp(q.key)
        /\ lost' = lost \ {q.key}
        /\ Send(q, holds'[q.key], {})
     \/ /\ Free(q.key[1]) = {}
        /\ DeleteExpired
        /\ ram' = Forget(q.addr)
        /\ ServFail
        /\ UNCHANGED <<debounce, lost>>

\* A SELECT, the DELETE, an INSERT or the SELECT after it fails, applied or not.
AnswerFails(q) ==
  /\ "db" \in Faults
  /\ ~RamLive(q.addr)
  /\ \/ UNCHANGED table
     \/ ~Live(q.key) /\ DeleteExpired
     \/ ~Live(q.key) /\ Free(q.key[1]) # {} /\ Insert(q.key)
  /\ ram' = Forget(q.addr)
  /\ ServFail
  /\ UNCHANGED <<debounce, lost>>

Answer(q) ==
  /\ AnswerFromRAM(q) \/ AnswerFromTable(q) \/ AnswerNew(q) \/ AnswerFails(q)
  /\ UNCHANGED <<lease, caps, flow>>

Synthesize(s, n) ==
  /\ <<caps[s], n>> \in Granted
  /\ Answer(Request(s, n))
  /\ UNCHANGED asking

\* LookupKey has found an address and LookupLive has not been called.
Ask(s, n) ==
  /\ asking = NoRequest
  /\ <<caps[s], n>> \in Granted
  /\ Request(s, n).addr # NoAddr
  /\ asking' = Request(s, n)
  /\ UNCHANGED <<lease, caps, registry, stub, flow>>

Finish ==
  /\ asking # NoRequest
  /\ Answer(asking)
  /\ asking' = NoRequest

\* The process ends and starts again with empty memory.
Restart ==
  /\ "restart" \in Faults
  /\ ram' = [k \in Keys |-> NoEntry]
  /\ debounce' = [k \in Keys |-> 0]
  /\ lost' = {}
  /\ asking' = NoRequest
  /\ UNCHANGED <<lease, caps, table, stub, flow>>
-----------------------------------------------------------------------------
(* The egress role: ProxyTCP.                                              *)

containsPrefix(prefixes, a) == \E i \in DOMAIN prefixes : PrefixContains(prefixes[i], a)

\* The network routes the address to an egress that advertises a prefix of it.
Connect(f, s, n, port, e) ==
  /\ flow[f].pc \in {"closed", "denied"}
  /\ stub[s][n].addr # NoAddr
  /\ containsPrefix(Assigned[e].prefixes, stub[s][n].addr)
  /\ flow' = [flow EXCEPT ![f] =
                [pc |-> "ptr", node |-> s, asked |-> n, answer |-> stub[s][n], port |-> port,
                 egress |-> e, wait |-> 0, name |-> <<>>, seen |-> {caps[s]}]]
  /\ UNCHANGED <<lease, caps, registry, asking, stub>>

\* The PTR answer names the owner of the address.  History: the answer the
\* client has may be older than a lease less the debounce.
Named(f, k) ==
  flow' = [flow EXCEPT ![f].pc = "authorize", ![f].name = k[2],
             ![f].answer.doubt = @ \cup (IF k \in lost' THEN {"lost"} ELSE {})
               \cup (IF flow[f].answer.age + Debounce > lease THEN {"late"} ELSE {}),
             ![f].answer.age = 0, ![f].wait = 0]

Closed(f) == flow' = [flow EXCEPT ![f] = NoFlow]

\* The PTR query: SQLStore.Lookup at the DNS role, which renews the row.
LookupPTR(f) ==
  LET a == flow[f].answer.addr IN
    /\ flow[f].pc = "ptr"
    /\ \/ /\ RamLive(a)
          /\ \E k \in Keys :
               /\ ram[k].addr = a
               /\ \/ Renew(k, FALSE) /\ Named(f, k)
                  \/ RenewFails(k, FALSE) /\ Closed(f)
          /\ UNCHANGED <<ram, holds>>
       \/ /\ ~RamLive(a)
          /\ \E k \in Keys :
               /\ Live(k) /\ holds[k] = a
               /\ ram' = Remember(Forget(a), k, a)
               /\ \/ Renew(k, TRUE) /\ Named(f, k)
                  \/ RenewFails(k, TRUE) /\ Closed(f)
          /\ UNCHANGED holds
    /\ UNCHANGED <<lease, caps, asking, stub>>

\* No name, or the SELECT fails: the connection is closed.
LookupPTRFails(f) ==
  LET a == flow[f].answer.addr IN
    /\ flow[f].pc = "ptr"
    /\ ~RamLive(a)
    /\ "db" \in Faults \/ \A k \in Keys : Live(k) => holds[k] # a
    /\ ram' = Forget(a)
    /\ Closed(f)
    /\ UNCHANGED <<lease, caps, table, debounce, lost, asking, stub>>

\* Mutants: the policy of the DNS answer authorizes; the protocol is not TCP.
DecisionUnder(f) ==
  GatewayFor(Grants[flow[f].answer.under], Assigned[flow[f].egress], flow[f].name,
             "tcp", flow[f].port)
DecisionUDP(f) ==
  GatewayFor(Grants[caps[flow[f].node]], Assigned[flow[f].egress], flow[f].name,
             "udp", flow[f].port)

Decision(f) ==
  GatewayFor(Grants[caps[flow[f].node]], Assigned[flow[f].egress], flow[f].name,
             "tcp", flow[f].port)

\* FlowDomain.  The name of a PTR answer is normal, and the egress has one
\* gateway, which holds the address.
FlowDomain(f) ==
  /\ flow[f].pc = "authorize"
  /\ flow' = [flow EXCEPT ![f].pc = IF Decision(f).ok THEN "dial" ELSE "denied"]
  /\ UNCHANGED <<lease, caps, registry, asking, stub>>

FlowDomainFails(f) ==
  /\ "identity" \in Faults
  /\ flow[f].pc = "authorize"
  /\ Closed(f)
  /\ UNCHANGED <<lease, caps, registry, asking, stub>>

\* The backend of the name is resolved and dialled, or it is not; what is copied
\* until the flow ends is module Relay's.
Dial(f) ==
  /\ flow[f].pc = "dial"
  /\ Closed(f)
  /\ UNCHANGED <<lease, caps, registry, asking, stub>>
-----------------------------------------------------------------------------
\* The control plane gives a node another policy.
SetPolicy(s, p) ==
  /\ p # caps[s]
  /\ caps' = [caps EXCEPT ![s] = p]
  /\ flow' = [f \in Flows |-> IF flow[f].node = s /\ flow[f].pc \in {"ptr", "authorize"}
                                THEN [flow[f] EXCEPT !.seen = @ \cup {p}] ELSE flow[f]]
  /\ UNCHANGED <<lease, registry, asking, stub>>

Less(n) == IF n = 0 THEN 0 ELSE n - 1

\* A node drops an answer when its TTL ends; the PTR answer comes in MaxDelay.
Tick ==
  /\ asking = NoRequest
  /\ \A f \in Flows : flow[f].wait < MaxDelay
  /\ left' = [k \in Keys |-> Less(left[k])]
  /\ ram' = [k \in Keys |-> [ram[k] EXCEPT !.left = Less(@)]]
  /\ debounce' = [k \in Keys |-> Less(debounce[k])]
  /\ stub' = [s \in Nodes |-> [n \in Names |->
                IF stub[s][n].addr = NoAddr \/ stub[s][n].age + 1 = TTL THEN NoAnswer
                ELSE [stub[s][n] EXCEPT !.age = @ + 1]]]
  /\ flow' = [f \in Flows |-> IF flow[f].pc # "ptr" THEN flow[f]
                ELSE [flow[f] EXCEPT !.wait = @ + 1, !.answer.age = @ + 1]]
  /\ UNCHANGED <<lease, caps, holds, asking, lost>>

Next ==
  \/ \E s \in Nodes, n \in Names :
       \/ Passthrough(s, n) \/ Synthesize(s, n) \/ Ask(s, n)
       \/ \E f \in Flows, port \in Ports, e \in Egresses : Connect(f, s, n, port, e)
  \/ Finish
  \/ Restart
  \/ \E f \in Flows :
       \/ LookupPTR(f) \/ LookupPTRFails(f)
       \/ FlowDomain(f) \/ FlowDomainFails(f)
       \/ Dial(f)
  \/ \E s \in Nodes, p \in Policies : SetPolicy(s, p)
  \/ Tick

Spec == Init /\ [][Next]_vars
-----------------------------------------------------------------------------
\* The name an egress finds for a flow is the name the client asked for when it
\* got the address, however the leases, answers and policies of others moved on
\* and whatever failed, with three exceptions: the PTR query comes later than a
\* lease less the debounce after the answer (a short lease allows that within
\* the TTL); the RAM entry that answered the client or the PTR query is one
\* whose last UPDATE failed, which lastRenewed counts as done; and another
\* request took the address over between the two halves of LookupKeyLive.
ReachesNameAsked ==
  \A f \in Flows :
    flow[f].pc \in {"authorize", "dial"} /\ flow[f].answer.doubt = {} =>
      flow[f].name = flow[f].asked

\* "policy changes therefore take effect on the next DNS request/connection": a
\* flow is dialled only under a policy that was in force after it was opened and
\* that grants its name and port at this egress.
FlowsReauthorized ==
  \A f \in Flows : flow[f].pc = "dial" =>
    \E p \in flow[f].seen :
      Authorize(Grants[p], Assigned[flow[f].egress].prefixes, flow[f].name, "tcp", flow[f].port)

\* DNS and egress agree: a client whose policy has not changed since its answer,
\* and whose flow reached the name asked, is refused only for the port or for a
\* conflict between resolvers.
AnswersAreReachable ==
  \A f \in Flows :
    /\ flow[f].pc = "denied"
    /\ flow[f].seen = {flow[f].answer.under}
    /\ flow[f].answer.doubt = {}
    => LET v == {v \in ToSet(Visits(Grants[flow[f].answer.under])) :
                   match(v.resource.domain, flow[f].asked)
                   /\ allowedPort(v.resource.ip, "tcp", flow[f].port)}
           chosen == {Choice(w, Assigned[flow[f].egress]) : w \in v}
       IN  v = {} \/ \E c, d \in chosen : c.priority = d.priority /\ c # d
=============================================================================
