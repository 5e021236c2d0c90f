----------------------------- MODULE MCWikiDirty -----------------------------
(* Instances of WikiDirty; the constants are in the .cfg files. *)
EXTENDS WikiDirty, TLC
=============================================================================
