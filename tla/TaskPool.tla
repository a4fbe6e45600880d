------------------------------ MODULE TaskPool ------------------------------
(***************************************************************************)
(* What a thread pool promises about the tasks that are pushed to it:      *)
(* a task is started at most once, in the order of the pushes or, in a     *)
(* ranked pool, before those of a lower priority, and ends at most once;   *)
(* its future then holds a value or an exception.  Only a pool that is     *)
(* being stopped may drop a task, and never one it started.                *)
(***************************************************************************)
EXTENDS Integers, Sequences, SequencesExt

CONSTANTS Tasks,
          Priority   \* of each task

VARIABLES pending,   \* the tasks that wait, in the order of their pushes
          status,    \* what became of each task
          stopping,  \* Stop has been called
          ranked     \* the priority counts, and not the order of the pushes

poolVars == <<pending, status, stopping, ranked>>

Ended == {"done", "threw", "broken"}

PoolInit == /\ pending = << >>
            /\ status = [t \in Tasks |-> "new"]
            /\ stopping = FALSE

Submit(t) == /\ status[t] = "new"
             /\ pending' = Append(pending, t)
             /\ status' = [status EXCEPT ![t] = "pending"]
             /\ UNCHANGED stopping

\* The places in the queue of the tasks that may be the next.
First == {k \in DOMAIN pending :
             IF ranked
             THEN \A j \in DOMAIN pending : Priority[pending[j]] <= Priority[pending[k]]
             ELSE k = 1}

Begin == /\ \E k \in First :
                /\ pending' = RemoveAt(pending, k)
                /\ status' = [status EXCEPT ![pending[k]] = "running"]
         /\ UNCHANGED stopping

End(t) == /\ status[t] = "running"
          /\ \E r \in {"done", "threw"} : status' = [status EXCEPT ![t] = r]
          /\ UNCHANGED <<pending, stopping>>

Drop == /\ stopping
        /\ \E k \in First :
               /\ pending' = RemoveAt(pending, k)
               /\ status' = [status EXCEPT ![pending[k]] = "broken"]
        /\ UNCHANGED stopping

PoolStop == /\ stopping' = TRUE
            /\ UNCHANGED <<pending, status>>

PoolNext == \/ \E t \in Tasks : Submit(t) \/ End(t)
            \/ Begin
            \/ Drop
            \/ PoolStop

\* What kind of pool it is never changes.
PoolSpec == PoolInit /\ [][PoolNext /\ ranked' = ranked]_poolVars
=============================================================================
