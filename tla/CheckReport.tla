---------------------------- MODULE CheckReport ----------------------------
(***************************************************************************)
(* What a check hands back: NodeResult and CheckResult of                  *)
(* src/checks/traits.rs.  A NodeResult is reduced to the node it names and *)
(* its flag; error texts and details are left out.                         *)
(***************************************************************************)
EXTENDS Sequences, FiniteSets, Naturals

Passed(node) == [node |-> node, passed |-> TRUE]

Failed(node) == [node |-> node, passed |-> FALSE]

(* CheckResult::new: a check passes when none of its results failed, so in *)
(* particular when it has none.                                            *)
CheckVerdict(rs) ==
    IF \A i \in DOMAIN rs : rs[i].passed THEN "passed" ELSE "failed"
=============================================================================
