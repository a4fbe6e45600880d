----------------------------- MODULE MCExecutor -----------------------------
(***************************************************************************)
(* Executor with four requests, of which one thread sends three.           *)
(***************************************************************************)
EXTENDS Executor

PiecesOfFour == <<1, 2, 1, 1>>
PreviousOfFour == <<0, 1, 2, 0>>
=============================================================================
