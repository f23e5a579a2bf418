--------------------------- MODULE MCPostageBatch ---------------------------
(* Two full nodes, so that the preparation can succeed on one and fail on  *)
(* the other, and a check that calls a prepared node; or one full node and *)
(* two checks that call it both, the other node both, or one of them each; *)
(* or no full node.  Three batches let an old one stand beside two new     *)
(* ones, or every call create one.                                         *)
EXTENDS PostageBatch, TLC

CONSTANTS n1, n2, k1, k2

MCLayouts ==
    {[full |-> {n1, n2}, target |-> k1 :> n1],
     [full |-> {n1}, target |-> k1 :> n1 @@ k2 :> n1],
     [full |-> {n1}, target |-> k1 :> n2 @@ k2 :> n2],
     [full |-> {n1}, target |-> k1 :> n1 @@ k2 :> n2],
     [full |-> {}, target |-> k1 :> n1]}
=============================================================================
