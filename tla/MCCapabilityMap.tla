--------------------------- MODULE MCCapabilityMap ---------------------------
(* An instance of CapabilityMap for TLC. *)
EXTENDS CapabilityMap, TLC

RangeA == <<[base |-> 0, size |-> 4]>>
RangeB == <<[base |-> 4, size |-> 4], [base |-> 8, size |-> 2]>>
Overlapping == <<[base |-> 0, size |-> 4], [base |-> 2, size |-> 2]>>

LowerCase == "a" :> "a" @@ "A" :> "a" @@ "b" :> "b" @@ "x" :> "x" @@ "y" :> "y"
               @@ "*" :> "*" @@ "**" :> "**" @@ "-" :> "-"
LDHLabels == {"a", "b", "x", "y"}

Host(h) == [host |-> h, port |-> {}]
Tcp(n)  == {[proto |-> "tcp", number |-> n]}

Resource(domain, ip, upstream) ==
  [form |-> "object", domain |-> domain, ip |-> ip, numbers |-> {}, upstream |-> upstream]
Short(domain, numbers) ==
  [form |-> "short", domain |-> domain, ip |-> {}, numbers |-> numbers,
   upstream |-> NoResolver]
Entry(ranges, resources, upstream) ==
  [ranges |-> ranges, resources |-> resources, upstream |-> upstream]

MCNames == {<<"a", "b">>, <<"x", "a", "b">>, <<"y", "x", "a", "b">>}

\* Every way to match, both kinds of override with and without a port, "system"
\* in both spellings, and entries with one thing wrong.
MCEntries == {
  Entry(RangeA, <<Resource(<<"A", "b", "">>, {}, NoResolver)>>, NoResolver),
  Entry(RangeA, <<Resource(<<"*", "a", "b">>, Tcp(80), NoResolver)>>, Host("r1")),
  Entry(RangeA, <<Short(<<"**", "A", "b">>, {80, 443})>>, [host |-> "r1", port |-> {53}]),
  Entry(RangeA, <<Resource(<<"x", "a", "b">>, {}, NoResolver)>>, Host("r2")),
  Entry(RangeA, <<Resource(<<"x", "a", "b">>, {}, Host("r3")),
                  Resource(<<"**", "a", "b">>, {}, NoResolver)>>, Host("SYSTEM")),
  Entry(RangeA, <<Resource(<<"**", "a", "b">>, Tcp(443), Host("system"))>>, NoResolver),
  Entry(RangeB, <<Resource(<<"*", "a", "b">>, {}, NoResolver)>>, NoResolver),
  Entry(RangeB, <<Resource(<<"a", "b">>, Tcp(80), Host("r1"))>>, NoResolver),
  Entry(Overlapping, <<Resource(<<"a", "b">>, {}, NoResolver)>>, NoResolver),
  Entry(RangeA, <<Resource(<<"*", "-", "b">>, {}, NoResolver)>>, NoResolver),
  Entry(RangeA, <<Resource(<<"a", "b">>, Tcp(0), NoResolver)>>, NoResolver),
  Entry(RangeA, <<Resource(<<"a", "b">>, {}, [host |-> "r1", port |-> {0}])>>, NoResolver)}

MCGateways == {
  [prefixes |-> RangeA, resolver |-> [host |-> "r0", port |-> {53}], system |-> TRUE],
  [prefixes |-> RangeB, resolver |-> [host |-> "r0", port |-> {53}], system |-> FALSE]}
=============================================================================
