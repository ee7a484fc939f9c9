-------------------------- MODULE MCProvisionJobs --------------------------
(* Model-checking instance of ProvisionJobs. *)
EXTENDS ProvisionJobs, TLC

\* Tenants and admins are interchangeable.
Symmetry == Permutations(Actors) \cup Permutations(Tenants)
=============================================================================
