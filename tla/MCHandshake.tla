---------------------------- MODULE MCHandshake ----------------------------
(* Handshake.tla with two clients, for TLC.                                  *)
EXTENDS Handshake

CONSTANTS me, you

MCClients == {me, you}
MCPairing(m, n) == [x \in MCClients |-> IF x = me THEN m ELSE n]

(* Every two modes, in one of the two orders: the clients are alike otherwise. *)
MCPairings ==
  {MCPairing("required", m) : m \in Modes}
    \cup {MCPairing("preferred", m) : m \in Modes \ {"required"}}
    \cup {MCPairing("clear", m) : m \in {"clear", "foreign"}}
=============================================================================
