---------------------------- MODULE MCRagIngestion ----------------------------
(***************************************************************************)
(* RagIngestion with three uploads, two of them of the same file.          *)
(***************************************************************************)
EXTENDS RagIngestion

MCDoc == {"first", "copy", "other"}
MCHashOf == [d \in MCDoc |-> IF d = "other" THEN "h2" ELSE "h1"]
=============================================================================
