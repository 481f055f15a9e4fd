---------------------------- MODULE MCFileDownload ---------------------------
(* FileDownload for TLC, with suffixes longer than the file. *)
EXTENDS FileDownload

MCRangeSets == {<<[first |-> NoBound, last |-> b]>> : b \in 0 .. 5}
=============================================================================
