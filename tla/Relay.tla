-------------------------------- MODULE Relay --------------------------------
(***************************************************************************)
(* One proxied TCP connection, from its accept to the end of its last      *)
(* goroutine (proxy and ProxyTCP of internal/domain/gateway.go, and the    *)
(* handler of tsnet_gateway.go).                                           *)
(*                                                                         *)
(* ProxyTCP decides, dials the backend, starts a goroutine that copies     *)
(* from the client and copies from the backend itself.  It returns when    *)
(* its own copy ends; the deferred closes follow.  Nothing passes one      *)
(* end's FIN on to the other, and nothing watches a context or a clock.    *)
(* Both copies are io.Copy: a read, then a write of what was read.         *)
(*                                                                         *)
(* Bytes travel in chunks, which are counted.  Connections share nothing,  *)
(* so one stands for all.                                                  *)
(***************************************************************************)
EXTENDS Naturals

CONSTANTS
  Chunks,   \* Chunks[e]: how many chunks end e may send
  Window    \* how many chunks TCP holds for an end that does not read

Ends == {"client", "backend"}
Other(e) == IF e = "client" THEN "backend" ELSE "client"

ASSUME ChunksAssumption == Chunks \in [Ends -> Nat] /\ Window \in Nat \ {0}

VARIABLES
  peer,     \* peer[e]: "fin" has finished sending but reads, "gone" has closed,
            \* "reset" has closed and its reset is here
  sent,     \* sent[e]: chunks e has sent
  inbox,    \* inbox[e]: those the proxy has not read
  got,      \* got[e]: chunks written to e
  unread,   \* unread[e]: those e has not read
  open,     \* open[e]: the proxy's connection with e is open
  copy,     \* copy[e]: where the copy from e is
  handler   \* where ProxyTCP and its caller are

relay == <<peer, sent, inbox, got, unread, open, copy, handler>>

\* The types of the two connections, the two copies and the handler.
RelayTypeOK ==
  /\ peer \in [Ends -> {"none", "open", "fin", "gone", "reset"}]
  /\ sent \in [Ends -> Nat] /\ inbox \in [Ends -> Nat]
  /\ got \in [Ends -> Nat] /\ unread \in [Ends -> Nat]
  /\ open \in [Ends -> BOOLEAN]
  /\ copy \in [Ends -> {"none", "read", "write", "done"}]
  /\ handler \in {"none", "deciding", "copying", "closing", "returned"}

RelayInit ==
  /\ peer = [e \in Ends |-> "none"]
  /\ sent = [e \in Ends |-> 0] /\ inbox = [e \in Ends |-> 0]
  /\ got = [e \in Ends |-> 0] /\ unread = [e \in Ends |-> 0]
  /\ open = [e \in Ends |-> FALSE]
  /\ copy = [e \in Ends |-> "none"]
  /\ handler = "none"
-----------------------------------------------------------------------------
(* The handler.                                                            *)

Accept ==
  /\ handler = "none"
  /\ handler' = "deciding"
  /\ peer' = [peer EXCEPT !["client"] = "open"]
  /\ open' = [open EXCEPT !["client"] = TRUE]
  /\ UNCHANGED <<sent, inbox, got, unread, copy>>

\* Every early return: the deferred close of the client is all that is left.
Refuse ==
  /\ handler = "deciding"
  /\ handler' = "returned"
  /\ open' = [open EXCEPT !["client"] = FALSE]
  /\ UNCHANGED <<peer, sent, inbox, got, unread, copy>>

\* The dial succeeds and both copies start.
DialBackend ==
  /\ handler = "deciding"
  /\ handler' = "copying"
  /\ peer' = [peer EXCEPT !["backend"] = "open"]
  /\ open' = [open EXCEPT !["backend"] = TRUE]
  /\ copy' = [e \in Ends |-> "read"]
  /\ UNCHANGED <<sent, inbox, got, unread>>

\* Mutant: ProxyTCP returns when either copy ends.
CloseOnAnyEnd ==
  /\ handler = "copying" /\ \E e \in Ends : copy[e] = "done"
  /\ handler' = "closing"
  /\ open' = [open EXCEPT !["backend"] = FALSE]
  /\ UNCHANGED <<peer, sent, inbox, got, unread, copy>>

\* Mutant: ProxyTCP waits for both copies.
CloseOnBothEnds ==
  /\ handler = "copying" /\ \A e \in Ends : copy[e] = "done"
  /\ handler' = "closing"
  /\ open' = [open EXCEPT !["backend"] = FALSE]
  /\ UNCHANGED <<peer, sent, inbox, got, unread, copy>>

\* The copy from the backend has ended: ProxyTCP returns and closes the backend.
CloseBackend ==
  /\ handler = "copying" /\ copy["backend"] = "done"
  /\ handler' = "closing"
  /\ open' = [open EXCEPT !["backend"] = FALSE]
  /\ UNCHANGED <<peer, sent, inbox, got, unread, copy>>

\* Mutant: the caller does not close the client.
ReturnOnly ==
  /\ handler = "closing"
  /\ handler' = "returned"
  /\ UNCHANGED <<peer, sent, inbox, got, unread, open, copy>>

\* Its caller closes the client.
CloseClient ==
  /\ handler = "closing"
  /\ handler' = "returned"
  /\ open' = [open EXCEPT !["client"] = FALSE]
  /\ UNCHANGED <<peer, sent, inbox, got, unread, copy>>

\* The process ends and the kernel closes what it had.
Exit ==
  /\ handler' = "returned"
  /\ open' = [e \in Ends |-> FALSE]
  /\ copy' = [e \in Ends |-> "none"]
  /\ UNCHANGED <<peer, sent, inbox, got, unread>>
-----------------------------------------------------------------------------
(* io.Copy from end e to the other.                                        *)

Read(e) ==
  /\ copy[e] = "read"
  /\ \/ /\ open[e] /\ inbox[e] > 0
        /\ inbox' = [inbox EXCEPT ![e] = @ - 1]
        /\ copy' = [copy EXCEPT ![e] = "write"]
     \/ /\ \/ ~open[e]
           \/ peer[e] = "reset"
           \/ peer[e] \in {"fin", "gone"} /\ inbox[e] = 0
        /\ copy' = [copy EXCEPT ![e] = "done"]
        /\ UNCHANGED inbox
  /\ UNCHANGED <<peer, sent, got, unread, open, handler>>

\* A write waits while the window is full; the first one to an end that has
\* closed is lost and brings its reset.
Write(e) ==
  LET d == Other(e) IN
    /\ copy[e] = "write"
    /\ \/ /\ open[d] /\ peer[d] \in {"open", "fin"} /\ unread[d] < Window
          /\ unread' = [unread EXCEPT ![d] = @ + 1]
          /\ got' = [got EXCEPT ![d] = @ + 1]
          /\ copy' = [copy EXCEPT ![e] = "read"]
          /\ UNCHANGED peer
       \/ /\ open[d] /\ peer[d] = "gone"
          /\ peer' = [peer EXCEPT ![d] = "reset"]
          /\ copy' = [copy EXCEPT ![e] = "read"]
          /\ UNCHANGED <<unread, got>>
       \/ /\ ~open[d] \/ peer[d] = "reset"
          /\ copy' = [copy EXCEPT ![e] = "done"]
          /\ UNCHANGED <<peer, unread, got>>
    /\ UNCHANGED <<sent, inbox, open, handler>>
-----------------------------------------------------------------------------
(* The client and the backend.                                             *)

Send(e) ==
  /\ peer[e] = "open" /\ open[e]
  /\ sent[e] < Chunks[e] /\ inbox[e] < Window
  /\ sent' = [sent EXCEPT ![e] = @ + 1]
  /\ inbox' = [inbox EXCEPT ![e] = @ + 1]
  /\ UNCHANGED <<peer, got, unread, open, copy, handler>>

Receive(e) ==
  /\ peer[e] \in {"open", "fin"} /\ unread[e] > 0
  /\ unread' = [unread EXCEPT ![e] = @ - 1]
  /\ UNCHANGED <<peer, sent, inbox, got, open, copy, handler>>

Finish(e) ==
  /\ peer[e] = "open"
  /\ peer' = [peer EXCEPT ![e] = "fin"]
  /\ UNCHANGED <<sent, inbox, got, unread, open, copy, handler>>

Leave(e) ==
  /\ peer[e] \in {"open", "fin"}
  /\ \E how \in {"gone", "reset"} : peer' = [peer EXCEPT ![e] = how]
  /\ UNCHANGED <<sent, inbox, got, unread, open, copy, handler>>
-----------------------------------------------------------------------------
Copying == CloseBackend \/ CloseClient \/ \E e \in Ends : Read(e) \/ Write(e)

Environment == \E e \in Ends : Send(e) \/ Receive(e) \/ Finish(e) \/ Leave(e)

RelayNext == Accept \/ Refuse \/ DialBackend \/ Exit \/ Copying \/ Environment

RelaySpec == RelayInit /\ [][RelayNext]_relay

\* The Go scheduler runs every goroutine; the two ends owe nothing.
RelayFairness ==
  /\ WF_relay(CloseBackend \/ CloseClient)
  /\ \A e \in Ends : WF_relay(Read(e) \/ Write(e))
-----------------------------------------------------------------------------
(* Properties.                                                             *)

\* Everything a backend sends reaches a client that stays: when ProxyTCP has
\* returned, all chunks of a backend that was not reset were written to the
\* client, whatever happened to the copy in the other direction.
DownloadComplete ==
  /\ handler \in {"closing", "returned"} /\ copy["backend"] = "done"
  /\ peer["backend"] \in {"open", "fin", "gone"}
  /\ peer["client"] \in {"open", "fin"}
  => got["client"] = sent["backend"]

Over == handler = "returned" /\ \A e \in Ends : ~open[e] /\ copy[e] \in {"none", "done"}

Stalled == unread["client"] = Window /\ peer["client"] \in {"open", "fin"}

\* What the backend has sent and the proxy has not passed on.
Coming == inbox["backend"] + (IF copy["backend"] = "write" THEN 1 ELSE 0)

\* A flow whose backend has finished ends, with both connections closed and no
\* goroutine left, unless its client stops reading for good without leaving.  A
\* flow whose client has closed ends when the backend next sends if the client's
\* reset is here, and when it sends twice if not: the first write is lost and
\* brings the reset.  (With a silent backend it stays: nothing looks.)
FlowsEnd ==
  /\ []<>~Stalled => (peer["backend"] \in {"fin", "gone", "reset"} ~> Over)
  /\ peer["client"] = "reset" /\ Coming > 0 ~> Over
  /\ peer["client"] = "gone" /\ Coming > 1 ~> Over

\* ProxyTCP leaves nothing behind: once its caller has returned, the goroutine
\* that copies from the client ends, wherever it was, and both connections are
\* closed.
NothingLeaks == handler = "returned" ~> Over
=============================================================================
