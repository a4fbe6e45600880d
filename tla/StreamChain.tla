---------------------------- MODULE StreamChain -----------------------------
(***************************************************************************)
(* What a pipeline promises, without threads, queues, counters or locks:   *)
(* every module processes the frames of the stream one after the other, a  *)
(* module only what the module before it has processed, and the pipeline   *)
(* stops when every module has processed the end of the stream, unless     *)
(* somebody asks for an early stop.  Module 1 is the source of the stream, *)
(* which the stop does not reach.                                          *)
(***************************************************************************)
EXTENDS Integers

CONSTANTS N,  \* modules
          F   \* data frames; frame F + 1 ends the stream

VARIABLES done,     \* how many frames each module has processed
          running,  \* the pipeline runs
          early     \* an early stop has been asked for

streamVars == <<done, running, early>>

StreamInit == /\ done = [m \in 1 .. N |-> 0]
              /\ running = TRUE
              /\ early = FALSE

Advance(m) ==
    /\ done[m] <= F
    /\ m > 1 => /\ running
                /\ done[m] < done[m - 1]
    /\ done' = [done EXCEPT ![m] = @ + 1]
    /\ UNCHANGED <<running, early>>

AskEarly ==
    /\ early' = TRUE
    /\ UNCHANGED <<done, running>>

StopStream ==
    /\ early \/ \A m \in 1 .. N : done[m] = F + 1
    /\ running' = FALSE
    /\ UNCHANGED <<done, early>>

StreamNext == (\E m \in 1 .. N : Advance(m)) \/ AskEarly \/ StopStream

StreamSpec == StreamInit /\ [][StreamNext]_streamVars
=============================================================================
