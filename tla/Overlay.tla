------------------------------ MODULE Overlay ------------------------------
(***************************************************************************)
(* The address space of the nodes' overlay and of chunks, as far as the    *)
(* checks look at it: an address is a string of bits, two addresses are as *)
(* near as their first different bit is late, and the chunk belongs to the *)
(* node nearest to it.  SwarmAddress (distance, proximity) is a library's; *)
(* find_closest_node is in src/checks/pushsync.rs and pullsync.rs.         *)
(***************************************************************************)
EXTENDS Naturals, FiniteSetsExt

CONSTANT Bits    \* the length of an address; 256 in the network

ASSUME BitsAssumption == Bits \in Nat

Address == [1..Bits -> {0, 1}]

(* SwarmAddress::proximity: the length of the common prefix.               *)
Proximity(a, b) == Max({k \in 0..Bits : \A i \in 1..k : a[i] = b[i]})

(* distance(c, a) < distance(c, b): the XOR of two addresses, compared as  *)
(* a number, is decided by the first bit in which a and b differ.          *)
Closer(c, a, b) ==
    \E i \in 1..Bits :
        /\ a[i] = c[i] /\ b[i] # c[i]
        /\ \A j \in 1..(i - 1) : a[j] = b[j]

(* find_closest_node, among the nodes S whose addresses are known.         *)
FindClosestNode(chunk, overlay, S) ==
    CHOOSE n \in S : \A m \in S \ {n} : Closer(chunk, overlay[n], overlay[m])
=============================================================================
