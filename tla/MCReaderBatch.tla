--------------------------- MODULE MCReaderBatch ---------------------------
(* ReaderBatch for TLC; readers are numbers, in the order of dispatch. *)
EXTENDS ReaderBatch
=============================================================================
