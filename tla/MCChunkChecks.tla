--------------------------- MODULE MCChunkChecks ---------------------------
(* Three nodes are enough for a full node besides the uploader and the     *)
(* nearest one; fewer retries than the code's 3 and 5 lengthen nothing but *)
(* the loops.                                                              *)
EXTENDS ChunkChecks

MCOverlayOf == <<<<0, 0>>, <<0, 1>>, <<1, 0>>>>
=============================================================================
