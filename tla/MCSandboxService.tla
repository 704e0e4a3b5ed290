-------------------------- MODULE MCSandboxService --------------------------
(***************************************************************************)
(* SandboxService for model checking: requests are interchangeable in      *)
(* every action and every property, so one of each orbit is enough.        *)
(***************************************************************************)
EXTENDS SandboxService, TLC

Symmetry == Permutations(Requests)
=============================================================================
