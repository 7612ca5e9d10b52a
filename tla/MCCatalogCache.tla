----------------------------- MODULE MCCatalogCache -----------------------------
(* An instance of CatalogCache for TLC, over channels that hold one message. *)
EXTENDS CatalogCache

MCUnlisted == {1, 2, 3}
MCFollowed == {0}
MCLocale == {"en", "pt"}
================================================================================
