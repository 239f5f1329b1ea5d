------------------------------- MODULE MCJobs -------------------------------
(***************************************************************************)
(* Jobs, nodes and overlapping handlers. MCJobs.cfg: an inline job and a   *)
(* challenge over two nodes of which one may cheat, with two handlers      *)
(* under way; MCNodes.cfg: a committed challenge and protocol work of one  *)
(* node while operators and owners intervene; MCCommitment.cfg: one        *)
(* challenge that two nodes draw in turn.                                  *)
(***************************************************************************)
EXTENDS WorkJobs, TLC

\* What a customer's job costs; protocol work costs nothing.
MCPrice == [j \in Jobs |-> IF j \in Protocol THEN 0 ELSE 2]

Symmetry == Permutations(Handlers)
=============================================================================
