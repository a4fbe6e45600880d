---------------------------- MODULE MCConnector -----------------------------
(***************************************************************************)
(* The model-checked instance of Connector: the one behind Inference.  p1  *)
(* is the response task of the session, p2 the TaskLoop of Inference, which*)
(* transmits the end of the stream only.                                   *)
(***************************************************************************)
EXTENDS Connector, TLC

CONSTANTS p1, p2

TwoProducers == {p1, p2}
DataAndEos == (p1 :> 2) @@ (p2 :> 1)
=============================================================================
