------------------------------ MODULE MCEgress ------------------------------
(* Instances of Egress for TLC. *)
EXTENDS Egress, TLC

Labels == {"git", "corp"}
LowerId == [l \in Labels |-> l]
TheName == <<"git", "corp">>

Magic   == "100.100.100.100"
HostNS  == "10.0.0.1"
OtherNS == "10.0.0.2"
Node    == "100.64.0.5"
Addresses == {Magic, HostNS, OtherNS, Node}

At(h, p) == [host |-> h, port |-> p]
Spelled == At("SYSTEM", {})

ResolvConf == {<<Magic, "ns.corp", HostNS>>, <<OtherNS>>}
ResolvConfOrNone == ResolvConf \cup {<<Magic>>}
Tailnets == {[nodes |-> {Node}, routed |-> {}], [nodes |-> {}, routed |-> {OtherNS}]}

Value(r) == [upstream |-> r, gateways |-> FALSE]
Attrs ==
  {[present |-> FALSE, values |-> <<>>],
   [present |-> TRUE, values |-> <<Value(At(Node, {})), Value(At(Node, {53}))>>],
   [present |-> TRUE, values |-> <<Value(Spelled)>>],
   [present |-> TRUE, values |-> <<Value(At("ns.corp", {5353})), Value(Spelled)>>]}
MoreAttrs == Attrs \cup
  {[present |-> TRUE, values |-> <<>>],
   [present |-> TRUE, values |-> <<[upstream |-> At(Node, {}), gateways |-> TRUE]>>],
   [present |-> TRUE, values |-> <<Value(At("a]b", {}))>>]}
Advertised == {<<>>, <<At(Node, {}), NoResolver, At(HostNS, {5353})>>}

Block == [base |-> 8, size |-> 4]
Basic ==
  [egress |-> TRUE, ranges |-> <<Block>>, ptr |-> NoResolver, ptrInterface |-> "",
   upstream |-> NoResolver, upstreamInterface |-> "", dir |-> TRUE, lease |-> "",
   database |-> FALSE, legacy |-> FALSE]
Tsnet(c) == [role |-> "egress", mode |-> "tsnet", config |-> c]
Kernel(c) == [role |-> "egress", mode |-> "tailscaled", config |-> c]
Dns(m, c) == [role |-> "dns", mode |-> m, config |-> c]
OfDns == [Basic EXCEPT !.egress = FALSE, !.ranges = <<>>]

Started ==
  {Tsnet(Basic),
   Tsnet([Basic EXCEPT !.ptr = At(Node, {}), !.upstream = At("ns.corp", {}),
                       !.upstreamInterface = "tailnet", !.ptrInterface = "host"])}
AllCommands == Started \cup
  {Kernel(Basic), Kernel([Basic EXCEPT !.ptr = At(HostNS, {53}), !.upstream = Spelled,
                                        !.upstreamInterface = "host"]),
   Dns("tsnet", OfDns), Dns("tailscaled", [OfDns EXCEPT !.database = TRUE, !.lease = "positive"]),
   Tsnet([Basic EXCEPT !.dir = FALSE]),
   Tsnet([Basic EXCEPT !.ptr = At("ns.corp", {})]),
   Tsnet([Basic EXCEPT !.upstream = At("a:b:c", {})]),
   Tsnet([Basic EXCEPT !.upstream = At("a]b", {53})]),
   Kernel([Basic EXCEPT !.upstream = At("a]b", {})]),
   Tsnet([Basic EXCEPT !.ranges = <<Block, Block>>]),
   Dns("tsnet", Basic), Dns("tsnet", [OfDns EXCEPT !.lease = "zero"]),
   Kernel([Basic EXCEPT !.legacy = TRUE])}
KernelOnly == {Kernel(Basic)}

Resource(r) == [form |-> "object", domain |-> TheName, ip |-> {}, numbers |-> {}, upstream |-> r]
Entry(up, r) == [ranges |-> <<Block>>, upstream |-> up, resources |-> <<Resource(r)>>]
FlowPolicies ==
  {<<Entry(NoResolver, NoResolver)>>,
   <<Entry(At(Node, {}), NoResolver)>>,
   <<Entry(At(Node, {}), System)>>,
   <<Entry(System, NoResolver), Entry(NoResolver, NoResolver)>>}

TwoDown == ("client" :> 1) @@ ("backend" :> 2)
=============================================================================
