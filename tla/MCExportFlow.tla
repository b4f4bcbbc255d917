--------------------------- MODULE MCExportFlow ---------------------------
(* Exports alone, on the few jobs that differ in how they flow.            *)
EXTENDS Export, ExportJobs
=============================================================================
