---------------------------- MODULE RelayProofs ----------------------------
(***************************************************************************)
(* Proof that ProxyTCP's two copies lose nothing a backend sends, for any  *)
(* number of chunks and any window.                                        *)
(*                                                                         *)
(* DownloadComplete is not inductive: it says nothing before the end.  The *)
(* strengthening accounts for every chunk of the backend, from the send to *)
(* the write, and says why the copy that carries them can have ended.      *)
(***************************************************************************)
EXTENDS Relay, TLAPS

\* Both ends are such that nothing may be lost on the way to the client.
Lossless == peer["client"] \in {"open", "fin"} /\ peer["backend"] # "reset"

\* A chunk that the copy from the backend has read and not yet written.
Held == IF copy["backend"] = "write" THEN 1 ELSE 0

\* Before the dial nothing of the backend exists; while the copy from the
\* backend runs both connections are open, so that only its ends can end it;
\* every chunk of the backend is written, held, or not yet read; and a copy
\* that has ended has seen the last.
RelayInv ==
  /\ RelayTypeOK
  /\ handler \in {"none", "deciding"} =>
       /\ copy["backend"] = "none" /\ peer["backend"] = "none"
       /\ sent["backend"] = 0 /\ inbox["backend"] = 0 /\ got["client"] = 0
       /\ copy["client"] = "none"
  /\ handler = "deciding" => open["client"]
  /\ copy["backend"] \in {"read", "write"} =>
       handler = "copying" /\ open["client"] /\ open["backend"]
  /\ Lossless /\ copy["backend"] # "none" =>
       sent["backend"] = got["client"] + Held + inbox["backend"]
  /\ Lossless /\ copy["backend"] = "done" =>
       inbox["backend"] = 0 /\ peer["backend"] \in {"fin", "gone"}

\* At the start no chunk exists.
LEMMA RelayInvInit == RelayInit => RelayInv
BY DEF RelayInit, RelayInv, RelayTypeOK, Lossless, Held, Ends

\* Every step of the handler, a copy or an end keeps the account.
LEMMA RelayInvStep == RelayInv /\ [RelayNext]_relay => RelayInv'
<1> SUFFICES ASSUME RelayInv, [RelayNext]_relay PROVE RelayInv'
  OBVIOUS
<1> USE ChunksAssumption DEF RelayInv, RelayTypeOK, Lossless, Held, Ends, Other
<1>1. CASE Accept
  BY <1>1 DEF Accept
<1>2. CASE Refuse
  BY <1>2 DEF Refuse
<1>3. CASE DialBackend
  BY <1>3 DEF DialBackend
<1>4. CASE Exit
  BY <1>4 DEF Exit
<1>5. CASE CloseBackend
  BY <1>5 DEF CloseBackend
<1>6. CASE CloseClient
  BY <1>6 DEF CloseClient
<1>7. ASSUME NEW e \in Ends, Read(e) PROVE RelayInv'
  <2>1. CASE e = "client"
    BY <1>7, <2>1 DEF Read
  <2>2. CASE e = "backend"
    BY <1>7, <2>2 DEF Read
  <2> QED BY <1>7, <2>1, <2>2
<1>8. ASSUME NEW e \in Ends, Write(e) PROVE RelayInv'
  <2>1. CASE e = "client"
    BY <1>8, <2>1 DEF Write
  <2>2. CASE e = "backend"
    BY <1>8, <2>2 DEF Write
  <2> QED BY <1>8, <2>1, <2>2
<1>9. ASSUME NEW e \in Ends, Send(e) PROVE RelayInv'
  BY <1>9 DEF Send
<1>10. ASSUME NEW e \in Ends, Receive(e) PROVE RelayInv'
  BY <1>10 DEF Receive
<1>11. ASSUME NEW e \in Ends, Finish(e) PROVE RelayInv'
  BY <1>11 DEF Finish
<1>12. ASSUME NEW e \in Ends, Leave(e) PROVE RelayInv'
  BY <1>12 DEF Leave
<1>13. CASE UNCHANGED relay
  BY <1>13 DEF relay
<1> QED
  BY <1>1, <1>2, <1>3, <1>4, <1>5, <1>6, <1>7, <1>8, <1>9, <1>10, <1>11, <1>12, <1>13
     DEF RelayNext, Copying, Environment

\* The account, read at the end.
LEMMA RelayInvComplete == RelayInv => DownloadComplete
BY DEF RelayInv, RelayTypeOK, Lossless, Held, DownloadComplete, Ends

\* The account holds throughout.
THEOREM RelayAccounts == RelaySpec => []RelayInv
BY RelayInvInit, RelayInvStep, PTL DEF RelaySpec

\* When ProxyTCP has returned, all that a backend which was not reset sent was
\* written to a client that stayed, however long the transfer and whatever
\* became of the upload.
THEOREM DownloadIsComplete == RelaySpec => []DownloadComplete
BY RelayAccounts, RelayInvComplete, PTL
=============================================================================
