---------------------------- MODULE CapabilityMap ----------------------------
(***************************************************************************)
(* The capability entries that the control plane holds for one source, as  *)
(* they are edited, and what the policy makes of every list of entries     *)
(* that results: decisions of RangesForName, GatewayFor and Authorize,     *)
(* compared with definitions that do not depend on the order of entries.   *)
(***************************************************************************)
EXTENDS Policy

CONSTANTS
  Entries,      \* entries an administrator may write
  MaxEntries,   \* bound on the list
  Names,        \* names asked for
  Gateways,     \* gateways, each [prefixes, resolver, system]
  Ports         \* port numbers

VARIABLE entries

Init == entries = <<>>

\* The policy file is edited outside the program; entries keep their order.
AddEntry(e) ==
  /\ Len(entries) < MaxEntries
  /\ entries' = Append(entries, e)

RemoveEntry(i) == entries' = RemoveAt(entries, i)

Next ==
  \/ \E e \in Entries : AddEntry(e)
  \/ \E i \in DOMAIN entries : RemoveEntry(i)

Spec == Init /\ [][Next]_entries
-----------------------------------------------------------------------------
Flows == [gateway : Gateways, name : Names, port : Ports]

Selected(f) == GatewayFor(Parse(entries), f.gateway, f.name, "tcp", f.port)

\* The choices of all resources that authorize f, whatever their order.
ChoicesFor(f) ==
  {Choice(v, f.gateway) : v \in
     {v \in ToSet(Visits(Parse(entries))) :
        Authorizes(v, f.gateway.prefixes, f.name, "tcp", f.port)}}

MostSpecific(f) ==
  {c \in ChoicesFor(f) : \A d \in ChoicesFor(f) : d.priority <= c.priority}

\* A flow that GatewayFor accepts uses the one resolver that every most specific
\* choice names, over the host's network path exactly when that choice says
\* "system" or leaves it to a gateway that does; so equally specific choices that
\* differ are refused, wherever they stand in the list.
SelectionIsUnanimous ==
  \A f \in Flows : Selected(f).ok =>
    /\ MostSpecific(f) # {}
    /\ \A c \in MostSpecific(f) :
         /\ c.resolver = Selected(f).resolver
         /\ Selected(f).system = IF c.priority = 0 THEN f.gateway.system
                                 ELSE IsSystemResolver(c.resolver)

\* A name gets ranges exactly when all grants for it carry the same ones, in
\* whatever order they come (RangesForName compares neighbours only).
RangesAreUnanimous ==
  \A n \in Names :
    LET ranges == {v.grant.ranges : v \in
                     {v \in ToSet(Visits(Parse(entries))) : match(v.resource.domain, n)}}
    IN  RangesForName(Parse(entries), n) # <<>> <=>
          \E r \in ranges : ranges = {r} /\ RangesForName(Parse(entries), n) = r

\* The DNS role and the egress role agree: when DNS gives a name addresses of
\* some ranges, only the gateway of exactly those ranges accepts flows to it.
RolesAgree ==
  \A f \in Flows :
    LET ranges == RangesForName(Parse(entries), f.name) IN
      ranges # <<>> /\ Selected(f).ok => f.gateway.prefixes = ranges

\* "A resource override wins over a grant override": when the resources that
\* authorize a flow name one resolver, the flow gets it.
ResourceOverrideWins ==
  \A f \in Flows : \A c \in MostSpecific(f) :
    c.priority = 2 /\ MostSpecific(f) = {c} => Selected(f).resolver = c.resolver
=============================================================================
