----------------------------- MODULE MCDNSServer -----------------------------
(* DNSServer for TLC: what two clients ask. *)
EXTENDS DNSServer

TwoClients == {[client |-> "c1", question |-> "tagsA"], [client |-> "c2", question |-> "ordinary"]}
=============================================================================
