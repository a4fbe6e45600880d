-------------------------- MODULE OrderedResponses --------------------------
(***************************************************************************)
(* What a session of the infer server promises its user: the requests it   *)
(* accepted are over one by one in the order of their sending, each either *)
(* answered once or discarded, never two of them at the same time; and the *)
(* session goes away only when none is left.                               *)
(***************************************************************************)
EXTENDS Naturals

VARIABLES sent,        \* number of requests accepted
          closed,      \* number of requests that are over
          answering,   \* the request whose response is running, 0 if none
          gone         \* the session has been destroyed

responseVars == <<sent, closed, answering, gone>>

ResponsesInit == sent = 0 /\ closed = 0 /\ answering = 0 /\ gone = FALSE

Accept == /\ ~gone
          /\ sent' = sent + 1
          /\ UNCHANGED <<closed, answering, gone>>

Answer == /\ answering = 0
          /\ closed < sent
          /\ answering' = closed + 1
          /\ UNCHANGED <<sent, closed, gone>>

Answered == /\ answering # 0
            /\ answering' = 0
            /\ closed' = closed + 1
            /\ UNCHANGED <<sent, gone>>

Dismiss == /\ answering = 0
           /\ closed < sent
           /\ closed' = closed + 1
           /\ UNCHANGED <<sent, answering, gone>>

Vanish == /\ closed = sent
          /\ gone' = TRUE
          /\ UNCHANGED <<sent, closed, answering>>

ResponsesNext == Accept \/ Answer \/ Answered \/ Dismiss \/ Vanish

ResponsesSpec == ResponsesInit /\ [][ResponsesNext]_responseVars
=============================================================================
