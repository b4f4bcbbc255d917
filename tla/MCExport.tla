----------------------------- MODULE MCExport -----------------------------
(* Exports, and imports of what they wrote, on the jobs of ExportJobs.     *)
EXTENDS Interchange, ExportJobs
=============================================================================
