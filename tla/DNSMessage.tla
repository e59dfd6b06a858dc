----------------------------- MODULE DNSMessage -----------------------------
(***************************************************************************)
(* The wire format of internal/dnsudp/server.go.  A message is the flags   *)
(* and counts of its header and the bytes after it.  A name is a string of *)
(* bytes: the labels of a question joined by dots, so that a dot inside a  *)
(* label makes it several labels for whoever splits the name again.        *)
(***************************************************************************)
EXTENDS Integers, SequencesExt

CONSTANTS
  InAddr, Arpa,   \* the labels "in-addr" and "arpa"
  MaxLabel        \* longest label: 63

TypeA == 1
TypePTR == 12
TypeAAAA == 28

Dot == 46

\* strings.Join(labels, ".") and strings.Split(text, "."): of the empty text, one
\* empty part.
Join(labels) ==
  IF labels = <<>> THEN <<>>
  ELSE FoldLeft(LAMBDA text, l : text \o <<Dot>> \o l, Head(labels), Tail(labels))

Split(text) ==
  FoldLeft(LAMBDA parts, c : IF c = Dot THEN Append(parts, <<>>)
                             ELSE [parts EXCEPT ![Len(parts)] = Append(@, c)],
           << <<>> >>, text)

\* strings.TrimSuffix(text, ".").
TrimDot(text) == IF text # <<>> /\ Last(text) = Dot THEN Front(text) ELSE text

ToLower(text) == [i \in DOMAIN text |-> IF text[i] \in 65..90 THEN text[i] + 32 ELSE text[i]]
-----------------------------------------------------------------------------
(* Questions.                                                              *)

NoQuestion == [ok |-> FALSE, name |-> <<>>, type |-> 0, end |-> 0]

\* The type and class after labels that end at byte p.
Question(b, p, labels) ==
  IF p + 4 > Len(b) THEN NoQuestion
  ELSE [ok |-> TRUE, name |-> Join(labels), type |-> 256 * b[p + 1] + b[p + 2], end |-> p + 4]

\* Mutant: a length above the bound, such as a compression pointer, ends the name.
RECURSIVE LabelsToPointer(_, _, _)
LabelsToPointer(b, p, labels) ==
  IF p > Len(b) THEN NoQuestion
  ELSE IF b[p] = 0 \/ b[p] > MaxLabel THEN Question(b, p, labels)
  ELSE IF p + b[p] > Len(b) THEN NoQuestion
  ELSE LabelsToPointer(b, p + 1 + b[p], Append(labels, SubSeq(b, p + 1, p + b[p])))

\* The loop over the labels of b from byte p on, after those already read.
RECURSIVE Labels(_, _, _)
Labels(b, p, labels) ==
  IF p > Len(b) THEN NoQuestion
  ELSE IF b[p] = 0 THEN Question(b, p, labels)
  ELSE IF b[p] > MaxLabel \/ p + b[p] > Len(b) THEN NoQuestion
  ELSE Labels(b, p + 1 + b[p], Append(labels, SubSeq(b, p + 1, p + b[p])))

\* A request of less than 17 bytes, or of several questions, is not read.
parseQuestion(request) ==
  IF Len(request.body) < 5 \/ request.counts.qd # 1 THEN NoQuestion
  ELSE Labels(request.body, 1, <<>>)
-----------------------------------------------------------------------------
(* Responses.                                                              *)

\* The header and question of the request, made a response with these answers.
Response(request, end, rcode, answers) ==
  [rd |-> request.rd, rcode |-> rcode,
   counts |-> IF answers = <<>> THEN request.counts ELSE [request.counts EXCEPT !.an = 1],
   question |-> SubSeq(request.body, 1, end),
   answers |-> answers]

emptyAnswer(request, end) == Response(request, end, 0, <<>>)

addressAnswer(request, end, ip) ==
  Response(request, end, 0, <<[type |-> TypeA, address |-> ip, data |-> <<>>]>>)

serverFailure(request, end) == Response(request, end, 2, <<>>)

encodeName(name) ==
  LET parts == Split(TrimDot(name))
  IN  FlattenSeq([i \in DOMAIN parts |-> <<Len(parts[i]) % 256>> \o parts[i]]) \o <<0>>

ptrAnswer(request, end, name) ==
  Response(request, end, 0, <<[type |-> TypePTR, address |-> <<>>, data |-> encodeName(name)]>>)
-----------------------------------------------------------------------------
(* Reverse names.                                                          *)

\* Mutant: the bound is tested once per label, on eight bits.
OctetWrapped(part) ==
  FoldLeft(LAMBDA n, c : IF c \notin 48..57 THEN 256 ELSE (n * 10 + c - 48) % 256, 0, part)

\* The loop over the digits of a label: more than 255 once it has failed.
Octet(part) ==
  FoldLeft(LAMBDA n, c : IF n > 255 \/ c \notin 48..57 THEN 256 ELSE n * 10 + c - 48, 0, part)

NoAddr == <<>>

ReverseIPv4(name) ==
  LET parts == Split(TrimDot(ToLower(name))) IN
    IF /\ Len(parts) = 6 /\ parts[5] = InAddr /\ parts[6] = Arpa
       /\ \A i \in 1..4 : Octet(parts[i]) <= 255
    THEN [i \in 1..4 |-> Octet(parts[5 - i])]
    ELSE NoAddr
=============================================================================
