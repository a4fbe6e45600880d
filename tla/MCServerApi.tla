---------------------------- MODULE MCServerApi -----------------------------
(***************************************************************************)
(* ServerApi with executors of one engine each, and a user who creates a   *)
(* session again.  That the other one does is the same with the users      *)
(* swapped.                                                                *)
(***************************************************************************)
EXTENDS ServerApi

Sessions == [u \in Users |-> IF u = 1 THEN 2 ELSE 1]
OneEngine == [n \in Names |-> 1]
=============================================================================
