------------------------------- MODULE Queries -------------------------------
(***************************************************************************)
(* One handler of the DNS role from the bytes of a request to those of its *)
(* response: Respond of internal/dnsudp/server.go with the Decide function *)
(* of runDNS (cmd/domain-gateway/main.go) over the reverse names, the tag  *)
(* names and the service.  Handlers share nothing that this module keeps,  *)
(* so one of them, answering request after request, stands for all.        *)
(*                                                                         *)
(* The service is taken at its interface: Outcomes[n] holds what DNSAnswer *)
(* may say of name n, Mappings the synthetic addresses that have a name.   *)
(***************************************************************************)
EXTENDS DNSMessage, TagNames

CONSTANTS
  Messages,     \* requests that may arrive
  Inventories,  \* what the tailnet status may be
  Mappings,     \* Mappings[a]: the name of synthetic address a
  Outcomes,     \* Outcomes[n]: outcomes of DNSAnswer for the normal name n,
                \* "passthrough" for other names
  Synthetic     \* the address a name is given

VARIABLES
  status,    \* the tailnet status, which the control plane changes
  request, valid,  \* the request, and whether its source has an address
  phase,
  question,
  decision,
  response

vars == <<status, request, valid, phase, question, decision, response>>

NoRequest == [rd |-> FALSE, counts |-> [qd |-> 0, an |-> 0, ns |-> 0, ar |-> 0], body |-> <<>>]
NoDecision == [outcome |-> "none", address |-> 0, name |-> <<>>]
NoResponse == Response(NoRequest, 0, 0, <<>>)

Init ==
  /\ status \in Inventories
  /\ request = NoRequest /\ valid = FALSE /\ phase = "idle"
  /\ question = NoQuestion /\ decision = NoDecision /\ response = NoResponse
-----------------------------------------------------------------------------
Receive(m, v) ==
  /\ phase = "idle"
  /\ request' = m /\ valid' = v /\ phase' = "parse"
  /\ UNCHANGED <<status, question, decision, response>>

\* Tags and nodes change; a request sees the status of the time it is decided.
ControlPlane ==
  /\ phase \in {"idle", "decide"}
  /\ status' \in Inventories
  /\ UNCHANGED <<request, valid, phase, question, decision, response>>

Parse ==
  /\ phase = "parse"
  /\ question' = parseQuestion(request)
  /\ phase' = IF question'.ok THEN "decide" ELSE "dropped"
  /\ UNCHANGED <<status, request, valid, decision, response>>

Decided(outcome, address, name) ==
  /\ decision' = [outcome |-> outcome, address |-> address, name |-> name]
  /\ phase' = "respond"
  /\ UNCHANGED <<status, request, valid, question, response>>

\* The address a PTR question is about.
Reversed == IF question.type = TypePTR THEN ReverseIPv4(question.name) ELSE NoAddr

\* A reverse name is answered here, without a name where there is none or the
\* store fails.
DecideReverse ==
  /\ phase = "decide" /\ Reversed # NoAddr
  /\ \/ Decided("ptr", 0, <<>>)
     \/ Reversed \in DOMAIN Mappings /\ Decided("ptr", 0, Mappings[Reversed])

\* The parts that TagExpression splits the name into.
Parts == Split(TrimDot(ToLower(question.name)))

\* A tag name has the first address for A and is left without response otherwise.
DecideTag ==
  /\ phase = "decide" /\ Reversed = NoAddr
  /\ \E r \in ResolveTags(Parts, status) :
       /\ r.tagged
       /\ IF question.type = TypeA /\ r.addresses # <<>>
          THEN Decided("address", Head(r.addresses), <<>>)
          ELSE Decided("none", 0, <<>>)

\* Any other name is the service's, for a source with an address.
DecideName ==
  /\ phase = "decide" /\ Reversed = NoAddr
  /\ \E r \in ResolveTags(Parts, status) : ~r.tagged
  /\ IF ~valid THEN Decided("none", 0, <<>>)
     ELSE LET name == ToLower(TrimDot(question.name)) IN
            \E o \in IF name \in DOMAIN Outcomes THEN Outcomes[name] ELSE {"passthrough"} :
              Decided(o, IF o = "address" THEN Synthetic ELSE 0, <<>>)

\* The responses of an outcome: none for "none", for a type without records,
\* and for a request that is passed through.
Responses ==
  LET end == question.end IN
    CASE decision.outcome = "address" /\ question.type = TypeA ->
           {addressAnswer(request, end, decision.address)}
      [] decision.outcome = "address" /\ question.type = TypeAAAA -> {emptyAnswer(request, end)}
      [] decision.outcome = "ptr" /\ decision.name # <<>> ->
           {ptrAnswer(request, end, decision.name)}
      [] decision.outcome = "ptr" -> {emptyAnswer(request, end)}
      [] decision.outcome = "unavailable" -> {serverFailure(request, end)}
      [] OTHER -> {}

Respond ==
  /\ phase = "respond"
  /\ \/ /\ Responses # {}
        /\ response' \in Responses /\ phase' = "answered"
     \/ /\ Responses = {}
        /\ phase' = IF decision.outcome = "passthrough" THEN "forwarded" ELSE "dropped"
        /\ UNCHANGED response
  /\ UNCHANGED <<status, request, valid, question, decision>>

Return ==
  /\ phase \in {"answered", "forwarded", "dropped"}
  /\ request' = NoRequest /\ valid' = FALSE /\ phase' = "idle"
  /\ question' = NoQuestion /\ decision' = NoDecision /\ response' = NoResponse
  /\ UNCHANGED status

Next ==
  \/ \E m \in Messages, v \in BOOLEAN : Receive(m, v)
  \/ ControlPlane \/ Parse
  \/ DecideReverse \/ DecideTag \/ DecideName
  \/ Respond \/ Return

Spec == Init /\ [][Next]_vars
-----------------------------------------------------------------------------
\* The starts of the labels of a question: a chain of lengths from the first
\* byte to a zero byte that leaves room for the type and the class.
Starts(b) ==
  {S \in SUBSET {p \in DOMAIN b : b[p] <= MaxLabel} :
     /\ 1 \in S
     /\ \A p \in S : \/ b[p] > 0 /\ p + b[p] + 1 \in S
                     \/ b[p] = 0 /\ p + 4 <= Len(b) /\ \A r \in S : r <= p}

\* parseQuestion reads exactly the well-formed questions, within the bytes that
\* were received, and ends where the question does; the name it makes of them is
\* the bytes from the first label to the last, a dot for each length between.
ReadsTheGrammar ==
  phase \in {"decide", "dropped"} =>
    LET b == request.body IN
      /\ question.ok <=> request.counts.qd = 1 /\ Starts(b) # {}
      /\ question.ok => \E S \in Starts(b) :
           /\ question.end = Max(S) + 4
           /\ question.name = [i \in 1..(Max(S) - 2) |-> IF i + 1 \in S THEN Dot ELSE b[i + 1]]

Decimal(part) == MapThenSumSet(LAMBDA i : (part[i] - 48) * 10^(Len(part) - i), DOMAIN part)

\* The address a reverse name stands for, in decimal from its fourth part to its first.
AddressAsked ==
  IF /\ Len(Parts) = 6 /\ SubSeq(Parts, 5, 6) = <<InAddr, Arpa>>
     /\ \A i \in 1..4 : ToSet(Parts[i]) \subseteq 48..57 /\ Decimal(Parts[i]) <= 255
  THEN [i \in 1..4 |-> Decimal(Parts[5 - i])]
  ELSE NoAddr

\* "An unavailable inventory is still a handled .tags request: it must not be
\* forwarded to an unrelated upstream resolver": no question for a tag name, of
\* whatever type and tailnet status, and no PTR question for a reverse name leaves
\* the tailnet.  (Questions of other types for reverse names do.)
PrivateNamesStayHere ==
  phase = "forwarded" =>
    /\ valid
    /\ question.type = TypePTR => AddressAsked = NoAddr
    /\ Len(Parts) > 1 /\ Last(Parts) = TagsLabel =>
         \E l \in ToSet(Front(Parts)) : \E o \in OptionsOf(l) : o.tag = ""

\* A PTR answer carries, in bytes that read back, the name of the very address
\* that was asked for.
PTRNamesAddressAsked ==
  phase = "answered" /\ question.type = TypePTR /\ response.answers # <<>> =>
    LET a == AddressAsked IN
      /\ a \in DOMAIN Mappings
      /\ Labels(response.answers[1].data \o <<0, 0, 0, 0>>, 1, <<>>).name = Mappings[a]

\* "a.b.tags. (AND), a-or-b.tags. (OR), and a.no-b.tags. (exclusion)".
Plain(label) == Cardinality(OptionsOf(label)) = 1 \/ \A o \in OptionsOf(label) : ~o.no
Reads(label, tags) == \E o \in OptionsOf(label) : o.no # (o.tag \in tags)

\* A tag name is answered with the same address however the daemon lists its
\* peers: the first, by its text, of the nodes that match the expression.
TagNamesResolve ==
  phase = "respond" /\ question.type = TypeA /\ isTagName(Parts) /\ status.ok =>
    LET labels == ToSet(Front(Parts))
        nodes == {n \in status.peers \cup {status.self} :
                    n.tags # {} /\ \A l \in labels : Reads(l, n.tags)}
        found == {ip.text : ip \in {ip \in UNION {ToSet(n.ips) : n \in nodes} : ip.v4}}
    IN  (\A l \in labels : Plain(l)) =>
          decision.address = IF found = {} THEN 0 ELSE Min(found)
=============================================================================
