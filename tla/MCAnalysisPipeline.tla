------------------------- MODULE MCAnalysisPipeline -------------------------
(* Instances of AnalysisPipeline for TLC.                                  *)
EXTENDS AnalysisPipeline, TLC

(* Processes are interchangeable: no action tells two of them apart.       *)
ProcessSymmetry == Permutations(Requests) \cup Permutations(Workers)
=============================================================================
