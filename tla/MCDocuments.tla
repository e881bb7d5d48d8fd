---------------------------- MODULE MCDocuments ----------------------------
(* A small instance of Documents.                                          *)
EXTENDS Documents
=============================================================================
