---------------------------- MODULE MCGatewaySocket ----------------------------
(* Symmetry for the model checker (safety runs only). *)
EXTENDS GatewaySocket, TLC

Symmetry == Permutations(Hooks) \cup Permutations(Sockets)
=============================================================================
