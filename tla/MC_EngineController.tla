------------------------ MODULE MC_EngineController ------------------------
(* Instances of EngineController for TLC: engine slots are interchangeable. *)
EXTENDS EngineController, TLC

EngineSymmetry == Permutations(Engines)
=============================================================================
