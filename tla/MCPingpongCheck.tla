-------------------------- MODULE MCPingpongCheck --------------------------
(* Three nodes: one fails, one is told to stop and one is in its call; two *)
(* peers, so that a node may reach one of them only.  The configured       *)
(* retries are none, which the code raises to one.                         *)
EXTENDS PingpongCheck
=============================================================================
