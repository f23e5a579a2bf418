--------------------------- MODULE MCCheckRunner ---------------------------
(* A registry of three checks, one of connectivity and two of content; one *)
(* filter names a check twice around an unknown name, one names nothing    *)
(* the registry knows.                                                     *)
EXTENDS CheckRunner

MCRegistry == <<"pingpong", "smoke", "soc">>
MCDataChecks == {"smoke"}
MCConnectivity == {"pingpong"}
MCFilters == {<<"smoke", "bogus", "smoke">>, <<"bogus">>, <<"soc", "pingpong">>}
=============================================================================
