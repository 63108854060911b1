------------------------ MODULE MCContainerLifecycle ------------------------
(***************************************************************************)
(* ContainerLifecycle on small instances.                                  *)
(***************************************************************************)
EXTENDS ContainerLifecycle, TLC

(* Requests, process ids and handles are interchangeable; only the safety  *)
(* runs use this.                                                          *)
Symmetry == Permutations(Tasks) \cup Permutations(Pids) \cup Permutations(Handles)

====
