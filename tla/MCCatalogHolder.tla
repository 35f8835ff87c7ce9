-------------------------- MODULE MCCatalogHolder --------------------------
(* Small instances of CatalogHolder for TLC.                                *)
EXTENDS CatalogHolder, TLC

Interchangeable == Permutations(Readers)
=============================================================================
