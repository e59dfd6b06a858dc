------------------------------ MODULE TagNames ------------------------------
(***************************************************************************)
(* Names under .tags (internal/domain/tags.go) and the inventory of tagged *)
(* nodes they are resolved against (taggedNodes of service.go, TaggedNodes *)
(* of service.go and tsnet.go).                                            *)
(*                                                                         *)
(* A name comes here in lower case and split at its dots.  Options[l] is   *)
(* what splitting part l at "-or-" gives: options with or without the      *)
(* prefix "no-", the tag "" for an empty one.  An address is its place in  *)
(* the order of the texts of addresses.                                    *)
(***************************************************************************)
EXTENDS Naturals, Sequences, SequencesExt

CONSTANTS
  TagsLabel,   \* the label "tags"
  Options      \* for the labels with tags that nodes may have

\* Mutant: the nodes are left in the order of the status.
SortedNever(nodes) == nodes

\* sort.Slice by the text of the address.
Sorted(nodes) == SortSeq(nodes, LAMBDA m, n : m.address < n.address)

\* The IPv4 addresses of the nodes that have tags.
taggedNodes(nodes) ==
  Sorted(FlattenSeq([i \in DOMAIN nodes |->
    LET v4 == SelectSeq(nodes[i].ips, LAMBDA ip : ip.v4) IN
      IF nodes[i].tags = {} THEN <<>>
      ELSE [j \in DOMAIN v4 |-> [address |-> v4[j].text, tags |-> nodes[i].tags]]]))

\* What TaggedNodes may return for a status: this node, then the peers in the
\* order of a map, which is any.
TaggedNodes(status) ==
  {taggedNodes(<<status.self>> \o peers) : peers \in SetToSeqs(status.peers)}

\* Any other label is a tag that no node has; an empty one is an empty option.
OptionsOf(label) ==
  IF label \in DOMAIN Options THEN ToSet(Options[label])
  ELSE {[no |-> FALSE, tag |-> IF label = <<>> THEN "" ELSE "unknown"]}

Wanted(label) == {o.tag : o \in {o \in OptionsOf(label) : ~o.no}}
Excluded(label) == {o.tag : o \in {o \in OptionsOf(label) : o.no}}

\* One positive option is required, of several one is enough; no excluded one.
Selects(node, label) ==
  /\ Wanted(label) = {} \/ Wanted(label) \cap node.tags # {}
  /\ Excluded(label) \cap node.tags = {}

\* A label with an empty option makes the name an ordinary one.
isTagName(parts) ==
  /\ Len(parts) >= 2 /\ Last(parts) = TagsLabel
  /\ \A i \in 1..(Len(parts) - 1) : \A o \in OptionsOf(parts[i]) : o.tag # ""

TagExpression(parts, nodes) ==
  LET chosen == SelectSeq(nodes, LAMBDA n : \A i \in 1..(Len(parts) - 1) : Selects(n, parts[i]))
  IN  IF ~isTagName(parts) THEN [tagged |-> FALSE, addresses |-> <<>>]
      ELSE [tagged |-> TRUE, addresses |-> [i \in DOMAIN chosen |-> chosen[i].address]]

\* Mutant: without an inventory the name is not a tag name.
ResolveTagsOrForward(parts, status) ==
  IF ~status.ok THEN {[tagged |-> FALSE, addresses |-> <<>>]}
  ELSE {TagExpression(parts, nodes) : nodes \in TaggedNodes(status)}

\* Without an inventory a tag name has no address.
ResolveTags(parts, status) ==
  IF ~status.ok THEN {TagExpression(parts, <<>>)}
  ELSE {TagExpression(parts, nodes) : nodes \in TaggedNodes(status)}
=============================================================================
