--------------------------- MODULE MCConfigEditor ---------------------------
(* The configuration editor on small sets of documents. *)
EXTENDS ConfigEditor
=============================================================================
