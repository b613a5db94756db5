------------------------------ MODULE MCNaming ------------------------------
(***************************************************************************)
(* Symmetry for model-checking the safety properties of Naming: transports, *)
(* proxies and endpoints are interchangeable.                              *)
(***************************************************************************)
EXTENDS Naming, TLC

MCSymmetry == Permutations(Procs) \cup Permutations(Nsds) \cup Permutations(Endpoints)
=============================================================================
