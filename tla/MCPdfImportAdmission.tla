------------------------ MODULE MCPdfImportAdmission ------------------------
(* Model-checking instances of PdfImportAdmission. *)
EXTENDS PdfImportAdmission, TLC

Symmetry == Permutations(Web) \cup Permutations(Owner)
=============================================================================
