---------------------------- MODULE MCTaskBoard ----------------------------
(* Model-checking instance of TaskBoard. *)
EXTENDS TaskBoard, TLC

\* Rows of the tasks table are interchangeable, and so are agents.
Symmetry == Permutations(Tasks) \cup Permutations(Agents)
=============================================================================
