--------------------------- MODULE MCDomainGateway ---------------------------
(* Instances of DomainGateway for TLC. *)
EXTENDS DomainGateway, TLC

RangeA == <<[base |-> 0, size |-> 2]>>
RangeB == <<[base |-> 2, size |-> 1]>>
LDHLabels == {"a", "b", "x"}
LowerCase == [l \in {"a", "b", "x", "*"} |-> l]
N1 == <<"a", "b">>
N2 == <<"x", "b">>
MCNames == {N1, N2}

Host(h) == [host |-> h, port |-> {53}]
Entry(ranges, domain, ip, upstream) ==
  [ranges |-> ranges, upstream |-> upstream, resources |->
     <<[form |-> "object", domain |-> domain, ip |-> ip, numbers |-> {},
        upstream |-> NoResolver]>>]
Tcp(n) == {[proto |-> "tcp", number |-> n]}

\* Both names share the one address of a range, the second with resolvers that
\* conflict; or the first is in a range that has no address to give and the second
\* is granted on another port.
PolicyBoth ==
  <<Entry(RangeA, N1, Tcp(80), NoResolver),
    Entry(RangeA, N2, {}, Host("r1")), Entry(RangeA, N2, Tcp(80), Host("r2"))>>
PolicyOther ==
  <<Entry(RangeB, N1, {}, NoResolver), Entry(RangeA, N2, Tcp(443), NoResolver)>>

MCEntries == "both" :> PolicyBoth @@ "other" :> PolicyOther

MCAssigned ==
  "e1" :> [prefixes |-> RangeA, resolver |-> Host("r0"), system |-> FALSE] @@
  "e2" :> [prefixes |-> RangeB, resolver |-> Host("r0"), system |-> FALSE]
=============================================================================
