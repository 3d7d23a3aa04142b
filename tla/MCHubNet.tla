------------------------------ MODULE MCHubNet ------------------------------
(* One dialer and one listener: dialers meet only in `inner` being held.   *)
EXTENDS HubNet, FiniteSets

(* Enough connections for a dialer to shake hands, lose its connection and *)
(* then use up its budget of reconnections without another handshake.      *)
ASSUME EnoughConnections == Cardinality(ConnId) >= MaxRetries + 2
=============================================================================
