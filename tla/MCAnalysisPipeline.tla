-------------------------- MODULE MCAnalysisPipeline --------------------------
(* Instances of AnalysisPipeline for TLC; the .cfg files give the constants. *)
EXTENDS AnalysisPipeline
=============================================================================
