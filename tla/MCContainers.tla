---------------------------- MODULE MCContainers -----------------------------
(* Two interchangeable containers with a cap below their number, and one of   *)
(* Swarm that is not listed.                                                  *)
EXTENDS Containers, TLC

Interchangeable == Permutations(Container \ Swarm)

=============================================================================
