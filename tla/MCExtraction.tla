---------------------------- MODULE MCExtraction ----------------------------
(* Small instances of the extraction queue.                                *)
EXTENDS Extraction, TLC

\* A PDF read without and then with OCR changes the kind of its text.
TextOrOcr == {{"EXTRACTED_TEXT", "THUMBNAIL"}, {"OCR_TEXT"}}
JustText == {{"EXTRACTED_TEXT"}}

WorkerSymmetry == Permutations(Workers)
=============================================================================
