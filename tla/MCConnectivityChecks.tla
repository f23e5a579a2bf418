------------------------ MODULE MCConnectivityChecks ------------------------
(* Three nodes of any types: enough for two full nodes and one of another  *)
(* type between them.                                                      *)
EXTENDS ConnectivityChecks
=============================================================================
