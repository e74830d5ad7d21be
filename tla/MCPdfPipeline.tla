---------------------------- MODULE MCPdfPipeline ----------------------------
(* PdfPipeline for TLC, by itself.                                         *)
EXTENDS PdfPipeline

SmallBudgets == {0, 1, Nothing}

=============================================================================
