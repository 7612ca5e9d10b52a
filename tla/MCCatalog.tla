------------------------------- MODULE MCCatalog -------------------------------
(* An instance of Catalog for TLC, over channels that hold one message. *)
EXTENDS Catalog

MCLocale == {"en", "pt"}
================================================================================
