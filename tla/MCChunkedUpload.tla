--------------------------- MODULE MCChunkedUpload ---------------------------
(* Instances of ChunkedUpload for TLC; bounds in the configurations.       *)
EXTENDS ChunkedUpload, TLC
=============================================================================
