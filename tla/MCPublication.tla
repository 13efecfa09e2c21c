--------------------------- MODULE MCPublication ---------------------------
(* The model-checking instance of Publication.                             *)
EXTENDS Publication
=============================================================================
