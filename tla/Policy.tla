-------------------------------- MODULE Policy --------------------------------
(***************************************************************************)
(* The policy of internal/domain/domain.go: how capability entries become  *)
(* grants (Parse), which ranges a name gets (RangesForName), and which     *)
(* flows a gateway accepts and through which resolver (GatewayFor).        *)
(*                                                                         *)
(* Text is kept only as far as the code tells it apart.  A domain is the   *)
(* sequence of its labels, the wildcards "*" and "**" being labels and a   *)
(* trailing dot an empty last label.  A resolver is a host and at most one *)
(* port, a port a protocol and a number, a prefix an aligned block of      *)
(* addresses.                                                              *)
(***************************************************************************)
EXTENDS Naturals, Sequences, SequencesExt

CONSTANTS
  LDH,    \* the labels a DNS name may have: lower-case letters, digits, hyphens
  Lower   \* Lower[l]: label l in lower case

Wildcards == {"*", "**"}

\* What ParseUint(port, 10, 16) accepts, less 0.
PortNumbers == 1..65535
-----------------------------------------------------------------------------
(* Prefixes: [base, size] is the block base..base+size-1 (netip.Prefix).   *)

PrefixContains(p, a) == p.base <= a /\ a < p.base + p.size
Overlaps(p, q) == p.base < q.base + q.size /\ q.base < p.base + p.size
IsMasked(p) == p.base % p.size = 0

\* The loop of Grant.UnmarshalJSON (egressGateways has the same): masked blocks
\* that do not overlap, in the order they are written.
ValidRanges(ranges) ==
  /\ ranges # <<>>
  /\ \A i \in DOMAIN ranges : IsMasked(ranges[i])
  /\ \A i, j \in DOMAIN ranges : i # j => ~Overlaps(ranges[i], ranges[j])
-----------------------------------------------------------------------------
(* Names and patterns.                                                     *)

LowerTrim(name) ==
  LET trimmed == IF name # <<>> /\ Last(name) = "" THEN Front(name) ELSE name
  IN  [i \in DOMAIN trimmed |-> Lower[trimmed[i]]]

validName(name) == Len(name) >= 2 /\ \A i \in DOMAIN name : name[i] \in LDH

\* NormalName's two results: the name, and whether it is valid.
NormalName(name) == LowerTrim(name)
IsNormal(name) == validName(NormalName(name))

\* "**." stands for one or more labels, "*." for exactly one.
match(pattern, name) ==
  LET suffix == Tail(pattern) IN
    CASE Head(pattern) = "**" -> IsStrictSuffix(suffix, name)
      [] Head(pattern) = "*"  -> IsSuffix(suffix, name) /\ Len(name) = Len(suffix) + 1
      [] OTHER                -> pattern = name

validPattern(pattern) ==
  IF Len(pattern) >= 2 /\ Head(pattern) \in Wildcards
  THEN validName(Tail(pattern)) ELSE validName(pattern)
-----------------------------------------------------------------------------
(* Ports: a set of [proto, number]; a resource without ports allows all.   *)

allowedPort(ports, proto, port) ==
  ports = {} \/ [proto |-> proto, number |-> port] \in ports

validPorts(ports) ==
  \A p \in ports : p.proto \in {"tcp", "udp"} /\ p.number \in PortNumbers
-----------------------------------------------------------------------------
(* Resolvers: [host, port], port a set of at most one number.              *)

NoResolver == [host |-> "", port |-> {}]

IsSystemResolver(r) == r.host \in {"system", "SYSTEM"} /\ r.port = {}

\* normalizeResolver's two results.  The spelling of "system" is kept.
normalizeResolver(r) ==
  IF IsSystemResolver(r) \/ r.port # {} THEN r ELSE [r EXCEPT !.port = {53}]

\* A colon in the host is an error without a port, unless the host is an IP; a
\* bracket is one with a port, where SplitHostPort looks for it.  "a:b:c" and
\* "a]b" stand for such hosts.
validResolver(r) ==
  \/ IsSystemResolver(r)
  \/ r.port = {} /\ r.host # "a:b:c"
  \/ r.port # {} /\ r.host \notin {"", "a]b"} /\ r.port \subseteq PortNumbers
-----------------------------------------------------------------------------
(* Capability entries and the grants Parse makes of them.                  *)

\* Resource.UnmarshalJSON: the shorthand domain:port,... lists TCP ports and has
\* no resolver; an object with the legacy "ports" field is refused.
ResourceOf(r) ==
  [domain   |-> LowerTrim(r.domain),
   ip       |-> IF r.form = "short"
                  THEN {[proto |-> "tcp", number |-> n] : n \in r.numbers} ELSE r.ip,
   upstream |-> IF r.form = "short" THEN NoResolver
                  ELSE IF r.upstream = NoResolver THEN NoResolver
                  ELSE normalizeResolver(r.upstream)]

validResource(r) ==
  /\ r.form # "legacy"
  /\ r.form = "short" => r.numbers # {}
  /\ validPattern(LowerTrim(r.domain))
  /\ validPorts(ResourceOf(r).ip)
  /\ r.form = "short" \/ r.upstream = NoResolver \/ validResolver(r.upstream)

validEntry(e) ==
  /\ ValidRanges(e.ranges)
  /\ e.resources # <<>>
  /\ e.upstream = NoResolver \/ validResolver(e.upstream)
  /\ \A i \in DOMAIN e.resources : validResource(e.resources[i])

GrantOf(e) ==
  [ranges    |-> e.ranges,
   resources |-> [i \in DOMAIN e.resources |-> ResourceOf(e.resources[i])],
   upstream  |-> IF e.upstream = NoResolver THEN NoResolver
                   ELSE normalizeResolver(e.upstream)]

\* An entry with anything invalid in it is skipped whole.
Parse(entries) ==
  LET valid == SelectSeq(entries, validEntry)
  IN  [i \in DOMAIN valid |-> GrantOf(valid[i])]
-----------------------------------------------------------------------------
\* The (grant, resource) pairs in the order the loops of GatewayFor, Authorize
\* and RangesForName visit them.
Visits(grants) ==
  FlattenSeq([i \in DOMAIN grants |->
    [j \in DOMAIN grants[i].resources |->
       [grant |-> grants[i], resource |-> grants[i].resources[j]]]])

\* Mutant: the ranges of the grant are not compared.
AuthorizesAnyRange(v, prefixes, name, proto, port) ==
  /\ match(v.resource.domain, name)
  /\ allowedPort(v.resource.ip, proto, port)

\* samePrefixSlice is equality of sequences.
Authorizes(v, prefixes, name, proto, port) ==
  /\ v.grant.ranges = prefixes
  /\ match(v.resource.domain, name)
  /\ allowedPort(v.resource.ip, proto, port)

\* The resolver a pair asks for, and how specific the choice is.
Choice(v, gateway) ==
  CASE v.resource.upstream # NoResolver ->
         [resolver |-> v.resource.upstream, priority |-> 2]
    [] v.resource.upstream = NoResolver /\ v.grant.upstream # NoResolver ->
         [resolver |-> v.grant.upstream, priority |-> 1]
    [] OTHER -> [resolver |-> gateway.resolver, priority |-> 0]

\* Mutant: an equally specific choice replaces the first.
PreferLast(acc, c) ==
  IF c.priority >= acc.priority
  THEN [acc EXCEPT !.matched = TRUE, !.resolver = c.resolver, !.priority = c.priority,
                   !.system = IF c.priority > 0 THEN IsSystemResolver(c.resolver) ELSE @]
  ELSE [acc EXCEPT !.matched = TRUE]

\* One turn of GatewayFor's loop; denied is its early return.
Prefer(acc, c) ==
  CASE acc.denied -> acc
    [] ~acc.denied /\ (~acc.matched \/ c.priority > acc.priority) ->
         [acc EXCEPT !.matched = TRUE, !.resolver = c.resolver, !.priority = c.priority,
                     !.system = IF c.priority > 0 THEN IsSystemResolver(c.resolver) ELSE @]
    [] OTHER ->
         [acc EXCEPT !.denied = c.priority = acc.priority /\ c.resolver # acc.resolver]

Denied == [ok |-> FALSE, resolver |-> NoResolver, system |-> FALSE]

\* A gateway is [prefixes, resolver, system].
GatewayFor(grants, gateway, name, proto, port) ==
  LET visits == SelectSeq(Visits(grants), LAMBDA v :
                  Authorizes(v, gateway.prefixes, name, proto, port))
      start  == [denied |-> FALSE, matched |-> FALSE, resolver |-> gateway.resolver,
                 priority |-> 0, system |-> gateway.system]
      final  == FoldLeft(Prefer, start, [i \in DOMAIN visits |-> Choice(visits[i], gateway)])
  IN  IF final.denied \/ ~final.matched THEN Denied
      ELSE [ok |-> TRUE, resolver |-> final.resolver, system |-> final.system]

Authorize(grants, prefixes, name, proto, port) ==
  \E i \in DOMAIN Visits(grants) :
    Authorizes(Visits(grants)[i], prefixes, name, proto, port)

\* Mutant: the first matching grant wins.
RangesOfFirst(grants, name) ==
  LET visits == SelectSeq(Visits(grants), LAMBDA v : match(v.resource.domain, name))
  IN  IF visits = <<>> THEN <<>> ELSE visits[1].grant.ranges

\* <<>> when the name is not authorized.  The loop returns at the first grant
\* whose ranges differ from the previous one's.
RangesForName(grants, name) ==
  LET visits == SelectSeq(Visits(grants), LAMBDA v : match(v.resource.domain, name))
      ranges(i) == visits[i].grant.ranges
  IN  IF visits = <<>> \/ \E i \in 2..Len(visits) : ranges(i) # ranges(i - 1)
      THEN <<>> ELSE ranges(1)

\* rangeKey joins the prefixes' text, which tells lists of prefixes apart.
rangeKey(prefixes) == prefixes
=============================================================================
