------------------------------ MODULE MCDesign -------------------------------
(* The chain of documents with the files and chapters that were edited.    *)
EXTENDS DesignChain
=============================================================================
