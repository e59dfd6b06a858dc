------------------------------- MODULE Egress -------------------------------
(***************************************************************************)
(* The egress role from its command line to the last byte of a flow: a     *)
(* process that starts (module Startup), the connections it is given while *)
(* it does, and what ProxyTCP does with one (module Relay holds its two    *)
(* ends and its goroutines): PTR lookup, authorization, the choice of a    *)
(* resolver and of a path to it, the backend's lookup and dial             *)
(* (internal/domain/gateway.go, service.go, cmd/domain-gateway/main.go).   *)
(*                                                                         *)
(* What a flow is allowed is decided on a policy of the moment, by         *)
(* GatewayFor of module Policy.  Names and ports are the flow's own and do *)
(* not matter here: module DomainGateway is about them.                    *)
(***************************************************************************)
EXTENDS Startup, Relay

CONSTANTS
  Policies,    \* lists of capability entries a client may have
  Name, Port   \* what the flow asks for

VARIABLE conn  \* the locals of ProxyTCP

\* seen: the contents of resolv.conf since the flow was authorized.
NoConn == [pc |-> "none", at |-> 1, policy |-> <<>>, g |-> Denied, resolver |-> NoResolver,
           path |-> "", seen |-> {}]

vars == <<startup, relay, conn>>

Init == StartupInit /\ RelayInit /\ conn = NoConn

Gateway ==
  [prefixes |-> config.ranges, resolver |-> chosen.resolver, system |-> chosen.system]

Return == Refuse /\ conn' = [NoConn EXCEPT !.pc = "returned"] /\ UNCHANGED startup

Continue(c) == conn' = c /\ UNCHANGED <<startup, relay>>
-----------------------------------------------------------------------------
(* The dataplanes.                                                         *)

\* A SYN for an advertised address: the netstack gives it to the fallback
\* handler, or nobody has it.
Route ==
  /\ routes /\ phase # "stopped" /\ conn.pc = "none"
  /\ \/ receiver /\ Accept /\ conn' = [NoConn EXCEPT !.pc = "ptr"]
     \/ ~receiver /\ conn' = [NoConn EXCEPT !.pc = "unowned"] /\ UNCHANGED relay
  /\ UNCHANGED startup

\* ServeTCP: a redirected connection.
AcceptTCP ==
  /\ phase = "serving" /\ cmd.role = "egress" /\ cmd.mode = "tailscaled"
  /\ Accept /\ conn' = [NoConn EXCEPT !.pc = "redirected"]
  /\ UNCHANGED startup

\* Any error of Accept ends the process, and with it every connection.
AcceptFails ==
  /\ phase = "serving" /\ cmd.role = "egress" /\ cmd.mode = "tailscaled"
  /\ Stop("accept")
  /\ Exit /\ conn' = NoConn

\* originalDestination passes getsockopt the length itself where the kernel
\* wants the address of one, so the call fails (EFAULT) and proxy returns.
OriginalDestination ==
  /\ conn.pc = "redirected"
  /\ Return
-----------------------------------------------------------------------------
(* ProxyTCP.                                                               *)

\* lookupPTR asks the resolvers in turn for the first that has names; ProxyTCP
\* wants exactly one.
LookupPTR ==
  /\ conn.pc = "ptr"
  /\ \/ Continue([conn EXCEPT !.pc = "authorize"])
     \/ conn.at < Len(ptr) /\ Continue([conn EXCEPT !.at = @ + 1])
     \/ Return

\* What Parse makes of each policy.
Grants == [p \in Policies |-> Parse(p)]

\* FlowDomain.
Authorized(policy) == GatewayFor(Grants[policy], Gateway, Name, "tcp", Port)

FlowDomain ==
  /\ conn.pc = "authorize"
  /\ \/ \E p \in Policies :
          /\ Authorized(p).ok
          /\ Continue([conn EXCEPT !.pc = "resolver", !.policy = p, !.g = Authorized(p),
                                   !.seen = {resolvconf}])
     \/ Return

\* A policy's "system" is read again for every flow.
ResolverAddress ==
  IF conn.g.system /\ IsSystemResolver(conn.g.resolver)
  THEN systemUpstream(resolvconf) ELSE conn.g.resolver

ChooseResolver ==
  /\ conn.pc = "resolver"
  /\ \/ /\ ResolverAddress # NoResolver
        /\ Continue([conn EXCEPT !.pc = "lookup", !.resolver = ResolverAddress])
     \/ ResolverAddress = NoResolver /\ Return

\* The system's resolver is always reached from the host, and so is every
\* resolver where tailscaled is the dataplane.
ResolverPaths ==
  IF conn.g.system \/ cmd.mode = "tailscaled" THEN {"host"}
  ELSE resolverDial(config.upstreamInterface, conn.resolver)

LookupBackend ==
  /\ conn.pc = "lookup"
  /\ \/ \E p \in ResolverPaths : Continue([conn EXCEPT !.pc = "dial", !.path = p])
     \/ Return

Dial ==
  /\ conn.pc = "dial"
  /\ \/ DialBackend /\ conn' = [NoConn EXCEPT !.pc = "copying"] /\ UNCHANGED startup
     \/ Return
-----------------------------------------------------------------------------
\* The host and the network change, which nothing looks at while a flow is
\* copied; the two ends do what they like.
Surroundings ==
  \/ /\ handler \notin {"copying", "closing"} /\ HostChanges /\ UNCHANGED relay
     /\ conn' = [conn EXCEPT !.seen = IF conn.pc = "resolver" THEN @ \cup {resolvconf'} ELSE @]
  \/ Environment /\ UNCHANGED <<startup, conn>>

ProxyTCP == LookupPTR \/ FlowDomain \/ ChooseResolver \/ LookupBackend \/ Dial

Next ==
  \/ Starting /\ UNCHANGED <<relay, conn>>
  \/ Route \/ AcceptTCP \/ AcceptFails \/ OriginalDestination
  \/ ProxyTCP
  \/ Copying /\ UNCHANGED <<startup, conn>>
  \/ Surroundings

Spec == Init /\ [][Next]_vars

FairSpec == Spec /\ RelayFairness
-----------------------------------------------------------------------------
(* Properties.                                                             *)

\* "Install the receiver before publishing the routes": no connection is routed
\* to a process that does not own it yet, wherever its start-up is.
NoSynWithoutReceiver == conn.pc # "unowned"

OfHost(r) == r.host \in IPs \ {MagicDNS}

\* "system always means the host's non-Tailscale resolver": what is forwarded or
\* looked up for "system" goes to a nameserver of the host, over the host's
\* network, for DNS, for an egress's default and for a policy's choice, so that
\* ordinary names never come back through the tailnet's own DNS.
SystemMeansHost ==
  /\ chosen.system => OfHost(chosen.resolver)
  /\ conn.pc \in {"lookup", "dial"} /\ conn.g.system => OfHost(conn.resolver)
  /\ conn.pc = "dial" /\ conn.g.system => conn.path = "host"

\* The most specific resolver that policy names for the flow, as the set of
\* those that pairs of grant and resource ask for.
PolicyResolvers ==
  LET pairs == {v \in ToSet(Visits(Grants[conn.policy])) :
                  Authorizes(v, config.ranges, Name, "tcp", Port)}
      ofResource == {v.resource.upstream : v \in pairs} \ {NoResolver}
      ofGrant == {v.grant.upstream : v \in pairs} \ {NoResolver}
  IN  IF ofResource # {} THEN ofResource ELSE ofGrant


\* "The process uses SO_ORIGINAL_DST, so authorization sees the client-visible
\* synthetic address": no redirected connection is dropped before its
\* destination is known.
DestinationRecovered == cmd.mode = "tailscaled" => conn.pc # "returned"
=============================================================================
