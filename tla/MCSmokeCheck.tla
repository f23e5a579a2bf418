---------------------------- MODULE MCSmokeCheck ----------------------------
(* Two files and two iterations, so that a file follows another in the     *)
(* same iteration and in the next; the retries are those of the code.      *)
EXTENDS SmokeCheck
=============================================================================
