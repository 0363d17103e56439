--------------------------- MODULE MCPreviewStore ---------------------------
(* Three posts are enough for a tie under the first order that the second  *)
(* decides and a third row between; two users for a join that chooses.     *)
EXTENDS PreviewStore
=============================================================================
