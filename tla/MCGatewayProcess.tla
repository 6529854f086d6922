-------------------------- MODULE MCGatewayProcess --------------------------
(* GatewayProcess on small instances.                                        *)
EXTENDS GatewayProcess, TLC
=============================================================================
