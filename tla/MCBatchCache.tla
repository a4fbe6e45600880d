---------------------------- MODULE MCBatchCache ----------------------------
(***************************************************************************)
(* BatchCache with the pieces of its requests: the first has more than a   *)
(* batch holds, together they do not fill their batches.                   *)
(***************************************************************************)
EXTENDS BatchCache

PiecesOfTwo == <<3, 2>>
=============================================================================
