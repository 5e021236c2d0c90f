------------------------- MODULE MCKnowledgeCompile -------------------------
(* Instances of KnowledgeCompile; the constants are in the .cfg files. *)
EXTENDS KnowledgeCompile, TLC
=============================================================================
