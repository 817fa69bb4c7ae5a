--------------------------- MODULE MCIndigoClient ---------------------------
(* Instances of IndigoClient for TLC; the .cfg files name the model values. *)
EXTENDS IndigoClient
=============================================================================
