---------------------------- MODULE EgressProofs ----------------------------
(***************************************************************************)
(* Proofs about the egress as a whole: what it does with a connection is   *)
(* what module Relay allows, so that Relay's theorem is one of Egress; and *)
(* no connection is routed to a process that does not own it yet.          *)
(***************************************************************************)
EXTENDS Egress, RelayProofs, SequenceTheorems

\* Every step of an egress is a step of Relay or leaves it alone.
LEMMA EgressStepRelays == [Next]_vars => [RelayNext]_relay
<1> SUFFICES ASSUME [Next]_vars PROVE [RelayNext]_relay
  OBVIOUS
<1>0. ASSUME Return PROVE RelayNext
  BY <1>0 DEF Return, RelayNext
<1>1. CASE Starting /\ UNCHANGED <<relay, conn>>
  BY <1>1
<1>2. CASE Route
  BY <1>2 DEF Route, RelayNext
<1>3. CASE AcceptTCP
  BY <1>3 DEF AcceptTCP, RelayNext
<1>4. CASE AcceptFails
  BY <1>4 DEF AcceptFails, RelayNext
<1>5. CASE OriginalDestination
  BY <1>0, <1>5 DEF OriginalDestination
<1>6. CASE ProxyTCP
  <2>1. CASE LookupPTR
    BY <1>0, <2>1 DEF LookupPTR, Continue
  <2>2. CASE FlowDomain
    BY <1>0, <2>2 DEF FlowDomain, Continue
  <2>3. CASE ChooseResolver
    BY <1>0, <2>3 DEF ChooseResolver, Continue
  <2>4. CASE LookupBackend
    BY <1>0, <2>4 DEF LookupBackend, Continue
  <2>5. CASE Dial
    BY <1>0, <2>5 DEF Dial, RelayNext
  <2> QED BY <1>6, <2>1, <2>2, <2>3, <2>4, <2>5 DEF ProxyTCP
<1>7. CASE Copying /\ UNCHANGED <<startup, conn>>
  BY <1>7 DEF RelayNext
<1>8. CASE Surroundings
  BY <1>8 DEF Surroundings, RelayNext
<1>9. CASE UNCHANGED vars
  BY <1>9 DEF vars
<1> QED
  BY <1>1, <1>2, <1>3, <1>4, <1>5, <1>6, <1>7, <1>8, <1>9 DEF Next

\* The egress implements the relay of one connection: whatever start-up, policy
\* and resolvers do, they only accept, refuse, dial or leave it alone.
THEOREM EgressImplementsRelay == Spec => RelaySpec
<1>1. Init => RelayInit
  BY DEF Init
<1> QED
  BY <1>1, EgressStepRelays, PTL DEF Spec, RelaySpec

\* What DownloadIsComplete says of the relay holds of the running egress.
THEOREM EgressDownloads == Spec => []DownloadComplete
BY EgressImplementsRelay, DownloadIsComplete, PTL
-----------------------------------------------------------------------------
\* Routes are published by a process that has its receiver, and a process that
\* loses the receiver has stopped.
OwnerInv ==
  /\ phase \in {"routes", "serving"} => receiver
  /\ routes => phase \in {"serving", "stopped"}
  /\ "pc" \in DOMAIN conn /\ NoSynWithoutReceiver

\* A step of start-up keeps the order of receiver and routes.
LEMMA StartingOrdered ==
  OwnerInv /\ Starting /\ UNCHANGED conn => OwnerInv'
<1> SUFFICES ASSUME OwnerInv, Starting, UNCHANGED conn PROVE OwnerInv'
  OBVIOUS
<1> USE DEF OwnerInv, NoSynWithoutReceiver
<1>0. ASSUME NEW r, Stop(r) PROVE OwnerInv'
  BY <1>0 DEF Stop
<1>1. CASE ParseCommand
  BY <1>0, <1>1 DEF ParseCommand, Enter
<1>2. CASE OpenTransport
  BY <1>0, <1>2 DEF OpenTransport, Enter
<1>3. CASE AcceptRoutes
  BY <1>0, <1>3 DEF AcceptRoutes, Enter
<1>4. CASE ChooseUpstream
  BY <1>0, <1>4 DEF ChooseUpstream, Enter
<1>5. CASE ChooseResolvers
  <2> PICK advertised \in DNSConfigs :
         \/ Stop(ChoiceFails(advertised))
         \/ Enter("receiver") /\ UNCHANGED <<receiver, routes>>
    BY <1>5 DEF ChooseResolvers
  <2> HIDE DEF OwnerInv
  <2>1. CASE Stop(ChoiceFails(advertised))
    BY <1>0, <2>1
  <2>2. CASE Enter("receiver") /\ UNCHANGED <<receiver, routes>>
    BY <1>5, <2>2 DEF Enter, ChooseResolvers, OwnerInv
  <2> QED BY <2>1, <2>2
<1>6. CASE OpenStore
  BY <1>0, <1>6 DEF OpenStore, Enter
<1>7. CASE Listen
  BY <1>0, <1>7 DEF Listen, Enter
<1>8. CASE RegisterHandler
  BY <1>0, <1>8 DEF RegisterHandler, Enter
<1>9. CASE AdvertiseRoutes
  BY <1>0, <1>9 DEF AdvertiseRoutes, Enter
<1> QED
  BY <1>1, <1>2, <1>3, <1>4, <1>5, <1>6, <1>7, <1>8, <1>9 DEF Starting

\* So does every other step, and none meets a connection without an owner.
LEMMA OwnerStep == OwnerInv /\ [Next]_vars => OwnerInv'
<1> SUFFICES ASSUME OwnerInv, [Next]_vars PROVE OwnerInv'
  OBVIOUS
<1> USE DEF OwnerInv, NoSynWithoutReceiver
<1>0. ASSUME Return PROVE OwnerInv'
  BY <1>0 DEF Return, NoConn, startup
<1>1. CASE Starting /\ UNCHANGED <<relay, conn>>
  BY <1>1, StartingOrdered
<1>2. CASE Route
  BY <1>2 DEF Route, NoConn, startup
<1>3. CASE AcceptTCP
  BY <1>3 DEF AcceptTCP, NoConn, startup
<1>4. CASE AcceptFails
  BY <1>4 DEF AcceptFails, Stop, NoConn
<1>5. CASE OriginalDestination
  BY <1>0, <1>5 DEF OriginalDestination
<1>6. CASE ProxyTCP
  <2>1. ASSUME NEW p \in {"authorize", "ptr", "resolver", "lookup", "dial"}, UNCHANGED startup,
               "pc" \in DOMAIN conn', conn'.pc = p
        PROVE  OwnerInv'
    BY <2>1 DEF startup
  <2>2. CASE LookupPTR
    BY <1>0, <2>1, <2>2 DEF LookupPTR, Continue
  <2>3. CASE FlowDomain
    BY <1>0, <2>1, <2>3 DEF FlowDomain, Continue
  <2>4. CASE ChooseResolver
    BY <1>0, <2>1, <2>4 DEF ChooseResolver, Continue
  <2>5. CASE LookupBackend
    BY <1>0, <2>1, <2>5 DEF LookupBackend, Continue
  <2>6. CASE Dial
    <3>1. CASE conn' = [NoConn EXCEPT !.pc = "copying"] /\ UNCHANGED startup
      <4>1. "pc" \in DOMAIN conn' /\ conn'.pc = "copying"
        BY <3>1 DEF NoConn
      <4> QED BY <3>1, <4>1 DEF startup
    <3> QED BY <1>0, <2>6, <3>1 DEF Dial
  <2> QED BY <1>6, <2>2, <2>3, <2>4, <2>5, <2>6 DEF ProxyTCP
<1>7. CASE Copying /\ UNCHANGED <<startup, conn>>
  BY <1>7 DEF startup
<1>8. CASE Surroundings
  BY <1>8 DEF Surroundings, HostChanges, startup
<1>9. CASE UNCHANGED vars
  BY <1>9 DEF vars, startup
<1> QED
  BY <1>1, <1>2, <1>3, <1>4, <1>5, <1>6, <1>7, <1>8, <1>9 DEF Next

\* ServeTSNetGateway registers its handler before it publishes the routes, so
\* wherever start-up stands no connection arrives that nobody owns.
THEOREM EverySynIsOwned == Spec => []NoSynWithoutReceiver
<1>1. Init => OwnerInv
  <2> SUFFICES ASSUME Init PROVE OwnerInv
    OBVIOUS
  <2>1. "pc" \in DOMAIN conn /\ conn.pc = "none"
    BY DEF Init, NoConn
  <2>2. phase = "command" /\ routes = FALSE
    BY DEF Init, StartupInit
  <2> QED BY <2>1, <2>2 DEF OwnerInv, NoSynWithoutReceiver
<1>2. OwnerInv => NoSynWithoutReceiver
  BY DEF OwnerInv
<1> QED
  BY <1>1, <1>2, OwnerStep, PTL DEF Spec
-----------------------------------------------------------------------------
\* What normalizeResolver makes of a host with a bracket.
Bracketed == [host |-> "a]b", port |-> {53}]

\* What was accepted stays acceptable: the command line of a process past its
\* check, and the resolver an attribute gave it unless it has a bracket.
AcceptedInv ==
  /\ phase \notin {"command", "stopped"} => validCommand(cmd)
  /\ nodeConfig.has => validConfigured(nodeConfig.upstream) \/ nodeConfig.upstream = Bracketed
  /\ phase # "stopped" => why # "config"
  /\ AcceptedConfigRuns

\* A resolver that normalizeResolver accepts is one that it accepts again, unless
\* its host has a bracket.
LEMMA NormalizedIsValid ==
  ASSUME NEW r \in Resolvers, r # NoResolver, validResolver(r)
  PROVE  validResolver(normalizeResolver(r)) \/ normalizeResolver(r) = Bracketed
<1>1. CASE IsSystemResolver(r) \/ r.port # {}
  BY <1>1 DEF normalizeResolver
<1>2. CASE ~IsSystemResolver(r) /\ r.port = {}
  <2>1. r.host # "" /\ r.host # "a:b:c"
    <3>1. r = [host |-> r.host, port |-> r.port]
      BY DEF Resolvers
    <3>2. r.host # ""
      BY <1>2, <3>1, Zenon DEF NoResolver
    <3>3. r.host # "a:b:c"
      BY <1>2, Zenon DEF validResolver
    <3> QED BY <3>2, <3>3, Zenon
  <2>2. /\ normalizeResolver(r).host = r.host /\ normalizeResolver(r).port = {53}
        /\ normalizeResolver(r) = [host |-> r.host, port |-> {53}]
    BY <1>2 DEF normalizeResolver, Resolvers
  <2>3. \A n : n.host = r.host /\ n.port = {53} /\ r.host # "a]b" => validResolver(n)
    <3> SUFFICES ASSUME NEW n, n.host = r.host, n.port = {53}, r.host # "a]b"
                 PROVE  validResolver(n)
      OBVIOUS
    <3>1. 53 \in PortNumbers
      BY SMT DEF PortNumbers
    <3>2. n.port # {} /\ n.port \subseteq PortNumbers
      BY <3>1
    <3> QED BY <2>1, <3>2 DEF validResolver
  <2> QED BY <2>2, <2>3, Zenon DEF Bracketed
<1> QED BY <1>1, <1>2

\* ConfigFromNodeAttrs hands on a resolver that configuredResolver accepts, but
\* for that host.
LEMMA AttrIsValid ==
  ASSUME NEW a \in NodeAttrs, ConfigFromNodeAttrs(a).has
  PROVE  \/ validConfigured(ConfigFromNodeAttrs(a).upstream)
         \/ ConfigFromNodeAttrs(a).upstream = Bracketed
<1> DEFINE u == a.values[1].upstream
<1>1. validAttrs(a.values) /\ ConfigFromNodeAttrs(a).upstream = normalizeResolver(u)
  BY DEF ConfigFromNodeAttrs, NodeConfigErr
<1>2. a.values \in Seq([upstream : Resolvers, gateways : BOOLEAN]) /\ a.values # <<>>
  BY <1>1, AttrsAssumption DEF validAttrs
<1>3. 1 \in DOMAIN a.values /\ 1 \in 1..Len(a.values)
  <2>1. ASSUME NEW S, NEW s \in Seq(S), s # <<>> PROVE 1 \in DOMAIN s /\ 1 \in 1..Len(s)
    BY <2>1
  <2> QED BY <1>2, <2>1, Zenon
<1>4. u \in Resolvers
  <2>1. a.values[1] \in [upstream : Resolvers, gateways : BOOLEAN]
    BY <1>2, <1>3, ElementOfSeq, Zenon
  <2> QED BY <2>1, Zenon
<1>5. u # NoResolver /\ validResolver(u)
  BY <1>1, <1>3 DEF validAttrs
<1> QED BY <1>1, <1>4, <1>5, NormalizedIsValid, Zenon DEF validConfigured

\* runEgress finds nothing wrong with what was accepted, but for that host.
LEMMA ChoiceAccepts ==
  ASSUME AcceptedInv, phase = "resolvers", cmd.role = "egress", NEW advertised
  PROVE  ChoiceFails(advertised) = "config" => nodeConfig.has /\ nodeConfig.upstream = Bracketed
<1>1. /\ ValidRanges(config.ranges) /\ validPTRResolver(config.ptr)
      /\ validInterface(config.upstreamInterface) /\ validInterface(config.ptrInterface)
      /\ validConfigured(config.upstream)
  BY DEF AcceptedInv, validCommand, config
<1>2. validConfigured(System)
  BY DEF validConfigured, validResolver, System, IsSystemResolver
<1>3. CASE nodeConfig.has /\ nodeConfig.upstream = Bracketed
  BY <1>3
<1>4. CASE ~(nodeConfig.has /\ nodeConfig.upstream = Bracketed)
  <2>1. validConfigured(BackendResolver)
    BY <1>1, <1>2, <1>4, Zenon DEF AcceptedInv, BackendResolver
  <2> QED BY <1>1, <2>1 DEF ChoiceFails
<1> QED BY <1>3, <1>4

\* A step of start-up stops for the configuration with such a host only.
LEMMA StartingAccepts == AcceptedInv /\ Starting => AcceptedInv'
<1> SUFFICES ASSUME AcceptedInv, Starting PROVE AcceptedInv'
  OBVIOUS
<1>0. ASSUME NEW r, Stop(r),
             r = "config" => nodeConfig.has /\ nodeConfig.upstream = Bracketed
      PROVE  AcceptedInv'
  BY <1>0, Zenon DEF Stop, AcceptedInv, AcceptedConfigRuns, Bracketed
<1>12. phase # "stopped"
  BY DEF Starting, ParseCommand, OpenTransport, AcceptRoutes, ChooseUpstream, ChooseResolvers,
         OpenStore, Listen, RegisterHandler, AdvertiseRoutes
<1>1. ASSUME NEW p, Enter(p), UNCHANGED nodeConfig, validCommand(cmd) PROVE AcceptedInv'
  BY <1>1, <1>12 DEF Enter, AcceptedInv, AcceptedConfigRuns
<1>2. phase \notin {"command", "stopped"} => validCommand(cmd)
  BY DEF AcceptedInv
<1>3. CASE ParseCommand
  BY <1>0, <1>1, <1>3 DEF ParseCommand
<1>4. CASE OpenTransport
  <2>1. CASE Stop("directory") \/ Stop("network")
    BY <1>0, <2>1
  <2>2. CASE \E n \in {ConfigFromNodeAttrs(a) : a \in NodeAttrs} \cup {NodeConfigErr} :
               nodeConfig' = n
    <3>1. nodeConfig'.has => validConfigured(nodeConfig'.upstream) \/ nodeConfig'.upstream = Bracketed
      BY <2>2, AttrIsValid DEF NodeConfigErr
    <3>2. CASE ~(Stop("directory") \/ Stop("network"))
      BY <1>2, <1>4, <3>1, <3>2 DEF OpenTransport, Enter, AcceptedInv, AcceptedConfigRuns
    <3> QED BY <2>1, <3>2
  <2> QED BY <1>4, <2>1, <2>2 DEF OpenTransport
<1>5. CASE AcceptRoutes
  BY <1>0, <1>1, <1>2, <1>5 DEF AcceptRoutes
<1>6. CASE ChooseUpstream
  BY <1>0, <1>1, <1>2, <1>6 DEF ChooseUpstream
<1>7. CASE ChooseResolvers
  <2>1. PICK advertised \in DNSConfigs :
          \/ Stop(ChoiceFails(advertised))
          \/ Enter("receiver") /\ UNCHANGED nodeConfig
    BY <1>7 DEF ChooseResolvers
  <2>2. ChoiceFails(advertised) = "config" => nodeConfig.has /\ nodeConfig.upstream = Bracketed
    BY <1>7, ChoiceAccepts DEF ChooseResolvers
  <2> QED BY <1>0, <1>1, <1>2, <1>7, <2>1, <2>2 DEF ChooseResolvers
<1>8. CASE OpenStore
  BY <1>0, <1>1, <1>2, <1>8 DEF OpenStore
<1>9. CASE Listen
  BY <1>0, <1>1, <1>2, <1>9 DEF Listen
<1>10. CASE RegisterHandler
  BY <1>0, <1>1, <1>2, <1>10 DEF RegisterHandler
<1>11. CASE AdvertiseRoutes
  BY <1>0, <1>1, <1>2, <1>11 DEF AdvertiseRoutes
<1> QED
  BY <1>3, <1>4, <1>5, <1>6, <1>7, <1>8, <1>9, <1>10, <1>11 DEF Starting

\* Every other step leaves it alone.
LEMMA AcceptedStep == AcceptedInv /\ [Next]_vars => AcceptedInv'
<1> SUFFICES ASSUME AcceptedInv, [Next]_vars PROVE AcceptedInv'
  OBVIOUS
<1>1. ASSUME UNCHANGED <<cmd, phase, why, nodeConfig>> PROVE AcceptedInv'
  BY <1>1 DEF AcceptedInv, AcceptedConfigRuns, validCommand
<1>2. CASE Starting
  BY <1>2, StartingAccepts
<1>3. CASE AcceptFails
  BY <1>3 DEF AcceptFails, Stop, AcceptedInv, AcceptedConfigRuns
<1>4. CASE UNCHANGED startup
  BY <1>1, <1>4 DEF startup
<1>5. CASE Surroundings
  BY <1>1, <1>5 DEF Surroundings, HostChanges, startup
<1>6. ASSUME Return PROVE UNCHANGED startup
  BY <1>6 DEF Return
<1>7. ASSUME ProxyTCP PROVE UNCHANGED startup
  BY <1>6, <1>7 DEF ProxyTCP, LookupPTR, FlowDomain, ChooseResolver, LookupBackend, Dial,
                    Continue
<1> QED
  BY <1>2, <1>3, <1>4, <1>5, <1>6, <1>7
     DEF Next, Route, AcceptTCP, OriginalDestination, vars

\* Whatever parseCommand accepted of ranges, interfaces and resolvers, runEgress
\* accepts when it reads it again, for every configuration and every attribute of
\* the node but one whose host has a bracket and no port.
THEOREM AcceptedConfigurationRuns == Spec => []AcceptedConfigRuns
<1>1. Init => AcceptedInv
  <2> SUFFICES ASSUME Init PROVE AcceptedInv
    OBVIOUS
  <2>1. phase = "command" /\ why = "" /\ nodeConfig = NodeConfigErr
    BY Zenon DEF Init, StartupInit
  <2>2. ~nodeConfig.has
    BY <2>1 DEF NodeConfigErr
  <2> QED BY <2>1, <2>2 DEF AcceptedInv, AcceptedConfigRuns
<1>2. AcceptedInv => AcceptedConfigRuns
  BY DEF AcceptedInv
<1> QED
  BY <1>1, <1>2, AcceptedStep, PTL DEF Spec
=============================================================================
