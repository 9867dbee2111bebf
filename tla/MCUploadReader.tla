--------------------------- MODULE MCUploadReader ---------------------------
(***************************************************************************)
(* Model checking of UploadReader: files from empty to beyond twice the    *)
(* limit, with a chunk that does not divide the limit.                     *)
(***************************************************************************)
EXTENDS UploadReader
=============================================================================
