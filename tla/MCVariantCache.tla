--------------------------- MODULE MCVariantCache ---------------------------
(* Small instances of VariantCache: variants of one byte each.              *)
EXTENDS VariantCache

MCWeight == [m \in Masters |-> 1]
=============================================================================
