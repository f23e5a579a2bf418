---------------------------- MODULE MCStatusApi ----------------------------
(* Two checks, so that a result can be recorded between the two reads of a *)
(* handler and another one after them; one client, as handlers only read   *)
(* the shared state and clients cannot disturb each other.                 *)
EXTENDS StatusApi

MCRegistry == <<"smoke", "soc">>
MCDataChecks == {"smoke"}
MCConnectivity == {}
MCFilters == {<<"soc", "soc">>}
=============================================================================
