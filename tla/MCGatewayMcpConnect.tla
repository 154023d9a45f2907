--------------------------- MODULE MCGatewayMcpConnect ---------------------------
(* Instances of GatewayMcpConnect for TLC. *)
EXTENDS GatewayMcpConnect, TLC

HandlerSymmetry == Permutations(Handlers)
==================================================================================
