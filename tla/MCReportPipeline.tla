-------------------------- MODULE MCReportPipeline --------------------------
(* ReportPipeline for TLC. *)
EXTENDS ReportPipeline, TLC

\* The servers are interchangeable; used by safety runs only.
ServerSymmetry == Permutations(Servers)
=============================================================================
