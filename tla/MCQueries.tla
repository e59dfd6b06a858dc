------------------------------ MODULE MCQueries ------------------------------
(***************************************************************************)
(* Queries for TLC.  Labels are single bytes but for the digits of reverse *)
(* names, which are those of ASCII; "web" is one letter, so that it has an *)
(* upper case.                                                             *)
(***************************************************************************)
EXTENDS Queries

InAddrLabel == <<1>>
ArpaLabel == <<2>>
TagsLast == <<3>>

Has(t) == [no |-> FALSE, tag |-> t]
Not(t) == [no |-> TRUE, tag |-> t]
Web == <<97>>  Db == <<5>>  WebOrDb == <<6>>  NoDb == <<7>>  WebOrNoDb == <<8>>
NoEmpty == <<9>>  OrEmpty == <<10>>  App == <<11>>
LabelOptions ==
  (Web :> <<Has("web")>>) @@ (Db :> <<Has("db")>>) @@ (WebOrDb :> <<Has("web"), Has("db")>>)
  @@ (NoDb :> <<Not("db")>>) @@ (WebOrNoDb :> <<Has("web"), Not("db")>>)
  @@ (NoEmpty :> <<Not("")>>) @@ (OrEmpty :> <<Has("web"), Has("")>>) @@ (App :> <<Has("app")>>)

V4(n) == [v4 |-> TRUE, text |-> n]
Node(tags, ips) == [tags |-> tags, ips |-> ips]
Status(self, peers) == [ok |-> TRUE, self |-> self, peers |-> peers]
Down == [ok |-> FALSE, self |-> Node({}, <<>>), peers |-> {}]
Tailnets ==
  {Down,
   Status(Node({}, <<V4(1)>>), {}),
   Status(Node({"db"}, <<V4(4)>>), {Node({"web"}, <<V4(3), [v4 |-> FALSE, text |-> 1]>>),
                                    Node({"web", "db"}, <<V4(2)>>), Node({}, <<V4(1)>>)}),
   Status(Node({"web"}, <<V4(3)>>), {Node({"app"}, <<V4(2)>>), Node({"web", "app"}, <<V4(1)>>)})}

Octets == {<<48>>, <<49>>, <<50, 53, 53>>, <<50, 53, 54>>, <<48, 49, 48>>, <<49, 48>>, <<49, 58>>}
ReverseNames ==
  {<<a, <<48>>, <<50, 53, 53>>, b, InAddrLabel, ArpaLabel>> : a, b \in Octets}
SomeMappings ==
  (<<10, 255, 0, 0>> :> Join(<<App, Web>>)) @@ (<<1, 255, 0, 255>> :> Join(<<<<49, 50, 51>>, App>>))

TagNameSet ==
  {<<l, TagsLast>> : l \in DOMAIN LabelOptions}
  \cup {<<l, m, TagsLast>> : l, m \in {Web, Db, WebOrDb, NoDb, App}} \cup {<<TagsLast>>}
ServiceNames == {<<App, Web>>, <<App, Db>>, <<App, App>>, <<>>}
ServiceOutcomes ==
  (Join(<<App, Web>>) :> {"address", "passthrough"})
  @@ (Join(<<App, Db>>) :> {"unavailable", "passthrough"})

\* Upper case, and dots inside labels: at the end, alone, doubled, and two parts
\* of a tag name or of a reverse name in one label.
OddNames ==
  {<<<<65>>, TagsLast>>, <<App, <<65>>>>, <<Web, TagsLast \o <<Dot>>>>, <<<<Dot>>>>,
   <<<<Dot>>, TagsLast>>, <<Web \o <<Dot>> \o TagsLast>>, <<Web \o <<Dot, Dot>>, TagsLast>>,
   <<<<48>>, <<48, Dot>> \o <<48>>, <<48>>, InAddrLabel, ArpaLabel>>,
   <<<<48>>, <<48>>, <<50, 53, 53>>, <<49, 48>>, InAddrLabel \o <<Dot>> \o ArpaLabel>>}

Request(body, counts) == [rd |-> TRUE, counts |-> counts, body |-> body]
One == [qd |-> 1, an |-> 0, ns |-> 0, ar |-> 0]
Asking(labels, type) ==
  Request(FlattenSeq([i \in DOMAIN labels |-> <<Len(labels[i])>> \o labels[i]])
            \o <<0, 0, type, 0, 1>>, One)
\* Byte sequences with and without a type and class at their end.
Wire ==
  {Request(b \o tail, One) : b \in SeqOf({0, 1, 2, Dot}, 5), tail \in {<<>>, <<0, 1, 0>>, <<0, 1, 0, 1>>}}
AllMessages ==
  Wire \cup {Asking(n, t) : n \in ReverseNames \cup TagNameSet \cup ServiceNames \cup OddNames,
                            t \in {TypeA, TypePTR, TypeAAAA, 15}}
  \cup {[Asking(n, TypeA) EXCEPT !.counts = c] : n \in ServiceNames \cup {<<Web, TagsLast>>},
          c \in {[One EXCEPT !.ar = 1], [One EXCEPT !.qd = 0], [One EXCEPT !.qd = 2]}}
=============================================================================
