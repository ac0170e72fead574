-------------------------- MODULE MCGatewayClient ---------------------------
(* Instances of GatewayClient for TLC.                                      *)
EXTENDS GatewayClient

CONSTANT j1

OneJob == {j1}
=============================================================================
