---------------------------- MODULE ConnectorOps ----------------------------
(***************************************************************************)
(* The class Connector of kernel/include/face_connector.hpp: the bounded   *)
(* frame queue in front of every module of a pipeline.  The ThreadSafeQueue *)
(* inside it is protected by a mutex, so a push or a pop of it is one step. *)
(* The element count current_size_ is a plain size_t that no lock protects *)
(* (the lock_guard lines are commented out), so `current_size_++' and      *)
(* `current_size_--' are a load and a store, each a step of its own: the   *)
(* memory accesses the compiled code makes.                                *)
(***************************************************************************)
EXTENDS Integers, Sequences

CONSTANTS Capacity,  \* max_size_, the queue_capicity of the module
          SizeMax    \* the largest value of size_t

ASSUME CapacityAssumption == /\ SizeMax \in Nat
                             /\ Capacity \in 1 .. SizeMax

VARIABLES queue,         \* queue_ of every connector
          current_size,  \* current_size_ of every connector
          stop           \* stop_ of every connector

connVars == <<queue, current_size, stop>>

Sizes == 0 .. SizeMax

\* size_t arithmetic wraps around at SizeMax.
Inc(n) == IF n = SizeMax THEN 0 ELSE n + 1
Dec(n) == IF n = 0 THEN SizeMax ELSE n - 1

\* current_size_ + 1 > max_size_: PushData refuses the frame.
IsFull(c) == Inc(current_size[c]) > Capacity

\* Mutant of Enqueue: a stack.
EnqueueFront(c, f) == queue' = [queue EXCEPT ![c] = <<f>> \o @]

\* queue_.Push(frame)
Enqueue(c, f) == queue' = [queue EXCEPT ![c] = Append(@, f)]

\* queue_.WaitAndTryPop(data, ...) when the queue is not empty
Dequeue(c) == /\ queue[c] # << >>
              /\ queue' = [queue EXCEPT ![c] = Tail(@)]

\* Mutant of StoreDec: GetData forgets current_size_--.
StoreDecForgotten(c, n) == UNCHANGED current_size

\* The store of current_size_++ and of current_size_-- by a thread that
\* loaded n.
StoreInc(c, n) == current_size' = [current_size EXCEPT ![c] = Inc(n)]
StoreDec(c, n) == current_size' = [current_size EXCEPT ![c] = Dec(n)]

\* Connector::Start and Connector::Stop
SetStop(c, b) == stop' = [stop EXCEPT ![c] = b]
=============================================================================
