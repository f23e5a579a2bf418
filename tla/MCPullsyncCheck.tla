--------------------------- MODULE MCPullsyncCheck ---------------------------
(* Two bits, of which three addresses are taken: every chunk has a closest *)
(* node, and some chunks are near to two of them.  In the first depth map  *)
(* neighbourhoods overlap, in the second node 2 stores only its own.       *)
EXTENDS PullsyncCheck

MCOverlayOf == <<<<0, 0>>, <<0, 1>>, <<1, 0>>>>
MCDepths == {<<1, 1, 0>>, <<0, 2, 1>>}
=============================================================================
