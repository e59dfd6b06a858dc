------------------------------- MODULE Startup -------------------------------
(***************************************************************************)
(* How a process of either role starts: the command line and configuration *)
(* (parseCommand), the transport (openTailnetTransport), the node's        *)
(* attributes (ConfigFromNodeAttrs), the resolvers it will use, and the    *)
(* order in which it opens its receiver and publishes its routes           *)
(* (cmd/domain-gateway/main.go and transport.go, internal/domain/          *)
(* upstream.go and tsnet_gateway.go).                                      *)
(*                                                                         *)
(* A configuration is what parseCommand and the roles read of the file,    *)
(* the flags applied.  Resolvers are those of module Policy, and IPs are   *)
(* the hosts that are addresses.  resolv.conf is the sequence of its       *)
(* nameservers, the tailnet's status the addresses of its nodes and those  *)
(* inside its peers' routes.                                               *)
(***************************************************************************)
EXTENDS Policy

CONSTANTS
  Commands,     \* [role, mode, config]
  NodeAttrs,    \* [present, values]: what the control plane may say of the node
  DNSConfigs,   \* the resolver lists it may advertise
  ResolvConfs,  \* contents of /etc/resolv.conf
  Statuses,     \* [nodes, routed]: what the tailnet may look like
  IPs, MagicDNS

Resolvers == [host : STRING, port : SUBSET Nat]

ASSUME AttrsAssumption ==
  NodeAttrs \subseteq
    [present : BOOLEAN, values : Seq([upstream : Resolvers, gateways : BOOLEAN])]

VARIABLES
  cmd, phase,
  why,          \* why the process stopped
  resolvconf, status,
  nodeConfig,   \* [err, has, upstream]
  chosen,       \* [resolver, system]: the backends' resolver, or DNS's upstream
  ptr,          \* the resolvers that know the synthetic addresses
  receiver,     \* a socket or fallback handler takes what arrives
  routes        \* the prefixes are advertised

config == cmd.config
startup == <<cmd, phase, why, resolvconf, status, nodeConfig, chosen, ptr, receiver, routes>>

System == [host |-> "system", port |-> {}]
Unset == [resolver |-> NoResolver, system |-> FALSE]
NodeConfigErr == [err |-> TRUE, has |-> FALSE, upstream |-> NoResolver]

StartupInit ==
  /\ cmd \in Commands /\ phase = "command" /\ why = ""
  /\ resolvconf \in ResolvConfs /\ status \in Statuses
  /\ nodeConfig = NodeConfigErr
  /\ chosen = Unset /\ ptr = <<>>
  /\ receiver = FALSE /\ routes = FALSE
-----------------------------------------------------------------------------
(* Resolvers.                                                              *)

\* configuredResolver's two results; "" stays.
configuredResolver(r) == IF r = NoResolver THEN r ELSE normalizeResolver(r)
validConfigured(r) == r = NoResolver \/ validResolver(r)

\* Mutant: MagicDNS is a nameserver like the others.
systemUpstreamFirst(conf) ==
  LET usable == SelectSeq(conf, LAMBDA h : h \in IPs)
  IN  IF usable = <<>> THEN NoResolver ELSE [host |-> Head(usable), port |-> {53}]

\* The first nameserver that is an address and not Tailscale's; NoResolver is
\* its error.
systemUpstream(conf) ==
  LET usable == SelectSeq(conf, LAMBDA h : h \in IPs \ {MagicDNS})
  IN  IF usable = <<>> THEN NoResolver ELSE [host |-> Head(usable), port |-> {53}]

\* egressPTRResolver takes addresses only; a missing port is 53.
egressPTRResolver(r) == IF r.port = {} THEN [r EXCEPT !.port = {53}] ELSE r
validPTRResolver(r) == r = NoResolver \/ (r.host \in IPs /\ r.port \subseteq PortNumbers)

egressResolverInterface(i) == IF i = "" THEN "auto" ELSE i
validInterface(i) == egressResolverInterface(i) \in {"auto", "tailnet", "host"}

\* tailnetResolver and peerRoutesContainResolver, on the status of the moment.
autoUsesTailnet(s, r) == r.host \in IPs /\ r.host \in s.nodes \cup s.routed

\* The paths resolverDialFor may take; status may be unavailable, which is no
\* error but the host's network.
resolverDial(i, r) ==
  CASE egressResolverInterface(i) = "tailnet" -> {"tailnet"}
    [] egressResolverInterface(i) = "host"    -> {"host"}
    [] OTHER -> {"host"} \cup (IF autoUsesTailnet(status, r) THEN {"tailnet"} ELSE {})

\* Any invalid value, or two that differ, invalidates the whole.
validAttrs(values) ==
  /\ values # <<>>
  /\ \A i \in DOMAIN values :
       /\ values[i].upstream # NoResolver /\ validResolver(values[i].upstream)
       /\ ~values[i].gateways
       /\ normalizeResolver(values[i].upstream) = normalizeResolver(values[1].upstream)

\* No attribute is no preference.
ConfigFromNodeAttrs(a) ==
  IF ~a.present THEN [err |-> FALSE, has |-> FALSE, upstream |-> System]
  ELSE IF ~validAttrs(a.values) THEN NodeConfigErr
  ELSE [err |-> FALSE, has |-> TRUE, upstream |-> normalizeResolver(a.values[1].upstream)]


\* The precedence of egressBackendResolver.
BackendResolver ==
  LET r == IF nodeConfig.has THEN nodeConfig.upstream ELSE config.upstream
  IN  IF r = NoResolver THEN System ELSE r

\* "system" is read once, here.
Resolve(r) ==
  IF IsSystemResolver(r) THEN [resolver |-> systemUpstream(resolvconf), system |-> TRUE]
  ELSE [resolver |-> configuredResolver(r), system |-> FALSE]
-----------------------------------------------------------------------------
Stop(reason) ==
  /\ phase' = "stopped" /\ why' = reason
  /\ receiver' = FALSE
  /\ UNCHANGED <<cmd, resolvconf, status, nodeConfig, chosen, ptr, routes>>

Enter(p) == phase' = p /\ UNCHANGED <<cmd, why, resolvconf, status>>

\* Mutant: the PTR resolver is not validated.
validCommandNoPTR(c) ==
  /\ c.role \in {"dns", "egress"} /\ c.mode \in {"tsnet", "tailscaled"}
  /\ ~c.config.legacy /\ c.config.lease \in {"", "positive"}
  /\ c.role = "dns" => ~c.config.egress
  /\ c.role = "egress" => /\ c.config.egress /\ ValidRanges(c.config.ranges)
                          /\ validInterface(c.config.upstreamInterface)
                          /\ validInterface(c.config.ptrInterface)
                          /\ validConfigured(c.config.upstream)

\* parseCommand's checks, those of a file it can read.
validCommand(c) ==
  /\ c.role \in {"dns", "egress"} /\ c.mode \in {"tsnet", "tailscaled"}
  /\ ~c.config.legacy /\ c.config.lease \in {"", "positive"}
  /\ c.role = "dns" => ~c.config.egress
  /\ c.role = "egress" => /\ c.config.egress /\ ValidRanges(c.config.ranges)
                          /\ validInterface(c.config.upstreamInterface)
                          /\ validInterface(c.config.ptrInterface)
                          /\ validPTRResolver(c.config.ptr)
                          /\ validConfigured(c.config.upstream)

ParseCommand ==
  /\ phase = "command"
  /\ \/ ~validCommand(cmd) /\ Stop("command")
     \/ /\ validCommand(cmd) /\ Enter("transport")
        /\ UNCHANGED <<nodeConfig, chosen, ptr, receiver, routes>>

\* openTailnetTransport.  tsnet needs its directory and must come up; the daemon
\* is asked for the address DNS listens on.  Attributes that cannot be read or
\* are invalid are kept as an error.
OpenTransport ==
  /\ phase = "transport"
  /\ \/ cmd.mode = "tsnet" /\ ~config.dir /\ Stop("directory")
     \/ /\ \/ cmd.mode = "tsnet" /\ config.dir
           \/ cmd.mode = "tailscaled" /\ cmd.role = "dns"
        /\ Stop("network")
     \/ /\ cmd.mode = "tsnet" => config.dir
        /\ \E n \in {ConfigFromNodeAttrs(a) : a \in NodeAttrs} \cup {NodeConfigErr} :
             nodeConfig' = n
        /\ Enter(IF cmd.mode = "tsnet" /\ cmd.role = "egress" THEN "prefs" ELSE "resolvers")
        /\ UNCHANGED <<chosen, ptr, receiver, routes>>

\* runEgress in tsnet mode: EditPrefs RouteAll.
AcceptRoutes ==
  /\ phase = "prefs"
  /\ \/ Stop("prefs")
     \/ Enter("resolvers") /\ UNCHANGED <<nodeConfig, chosen, ptr, receiver, routes>>

\* dnsGateways: DNS goes by its attribute alone, whose default is "system".
ChooseUpstream ==
  /\ phase = "resolvers" /\ cmd.role = "dns"
  /\ \/ nodeConfig.err /\ Stop("nodeattr")
     \/ /\ ~nodeConfig.err /\ Resolve(nodeConfig.upstream).resolver = NoResolver
        /\ Stop("resolvconf")
     \/ /\ ~nodeConfig.err /\ Resolve(nodeConfig.upstream).resolver # NoResolver
        /\ chosen' = Resolve(nodeConfig.upstream)
        /\ Enter("store")
        /\ UNCHANGED <<nodeConfig, ptr, receiver, routes>>

\* The PTR resolvers of runEgress: the configured one; in tsnet mode those that
\* are advertised; in tailscaled mode the host's, which is the empty list.
PTRResolvers(advertised) ==
  IF config.ptr # NoResolver THEN <<egressPTRResolver(config.ptr)>>
  ELSE IF cmd.mode = "tailscaled" THEN <<>>
  ELSE LET named == SelectSeq(advertised, LAMBDA r : r # NoResolver)
       IN  [i \in DOMAIN named |-> egressPTRResolver(named[i])]

\* What stops the choice of an egress, in the order of runEgress.
ChoiceFails(advertised) ==
  IF \/ cmd.mode = "tsnet" /\ ~(/\ validInterface(config.upstreamInterface)
                                /\ validInterface(config.ptrInterface))
     \/ ~validConfigured(BackendResolver)                         THEN "config"
  ELSE IF Resolve(BackendResolver).resolver = NoResolver          THEN "resolvconf"
  ELSE IF ~validPTRResolver(config.ptr)                           THEN "config"
  ELSE IF cmd.mode = "tsnet" /\ PTRResolvers(advertised) = <<>>   THEN "dnsconfig"
  ELSE IF ~ValidRanges(config.ranges)                             THEN "config"
  ELSE ""

ChooseResolvers ==
  /\ phase = "resolvers" /\ cmd.role = "egress"
  /\ \E advertised \in DNSConfigs :
       \/ ChoiceFails(advertised) # "" /\ Stop(ChoiceFails(advertised))
       \/ /\ ChoiceFails(advertised) = ""
          /\ chosen' = Resolve(BackendResolver)
          /\ ptr' = PTRResolvers(advertised)
          /\ Enter("receiver")
          /\ UNCHANGED <<nodeConfig, receiver, routes>>

\* allocationStore: no database is no store.
OpenStore ==
  /\ phase = "store"
  /\ \/ config.database /\ Stop("store")
     \/ Enter("receiver") /\ UNCHANGED <<nodeConfig, chosen, ptr, receiver, routes>>

\* listenUDP and mustAddr of DNS, net.Listen of ServeTCP.
Listen ==
  /\ phase = "receiver" /\ (cmd.role = "dns" \/ cmd.mode = "tailscaled")
  /\ \/ Stop("listen")
     \/ receiver' = TRUE /\ Enter("serving") /\ UNCHANGED <<nodeConfig, chosen, ptr, routes>>

\* Mutant: the routes are published first.
AdvertiseFirst ==
  /\ phase = "receiver" /\ cmd.role = "egress" /\ cmd.mode = "tsnet"
  /\ routes' = TRUE /\ Enter("routes") /\ UNCHANGED <<nodeConfig, chosen, ptr, receiver>>

\* ServeTSNetGateway: the fallback handler, then the routes.
RegisterHandler ==
  /\ phase = "receiver" /\ cmd.role = "egress" /\ cmd.mode = "tsnet"
  /\ \/ Stop("network")
     \/ receiver' = TRUE /\ Enter("routes") /\ UNCHANGED <<nodeConfig, chosen, ptr, routes>>

AdvertiseRoutes ==
  /\ phase = "routes"
  /\ \/ Stop("routes")
     \/ routes' = TRUE /\ Enter("serving") /\ UNCHANGED <<nodeConfig, chosen, ptr, receiver>>

\* The host's resolv.conf and the tailnet change under the process.
HostChanges ==
  /\ \/ resolvconf' \in ResolvConfs \ {resolvconf} /\ UNCHANGED status
     \/ status' \in Statuses \ {status} /\ UNCHANGED resolvconf
  /\ UNCHANGED <<cmd, phase, why, nodeConfig, chosen, ptr, receiver, routes>>

Starting ==
  \/ ParseCommand \/ OpenTransport \/ AcceptRoutes
  \/ ChooseUpstream \/ ChooseResolvers
  \/ OpenStore \/ Listen \/ RegisterHandler \/ AdvertiseRoutes
-----------------------------------------------------------------------------
\* What parseCommand accepted of ranges, interfaces and resolvers, runEgress
\* accepts when it reads it again.  The one value that it refuses on the second
\* reading comes from the control plane: a host with a bracket and no port, to
\* which normalizeResolver adds the port that configuredResolver stumbles over.
\* (tsnet.dir, the database and the listen address are read only once, later,
\* and stop the process for reasons of their own.)
AcceptedConfigRuns ==
  why = "config" => nodeConfig.has /\ nodeConfig.upstream = [host |-> "a]b", port |-> {53}]
=============================================================================
