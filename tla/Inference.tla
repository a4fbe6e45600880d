----------------------------- MODULE Inference ------------------------------
(***************************************************************************)
(* The module Inference (modules/inference/src/infer.cpp) and its observer *)
(* PostRetinObs (postproc/retinface_pos.cpp), between its connector and    *)
(* the module behind it.                                                   *)
(*                                                                         *)
(* The TaskLoop thread collects frames into batches and requests their     *)
(* inference from a session, which is what OrderedResponses says.  The     *)
(* session answers on a thread of its own, in Response: it pushes one task *)
(* per frame to a thread pool, which is what TaskPool says, waits for them *)
(* and transmits the frames.  The end of the stream is transmitted by the  *)
(* TaskLoop thread itself, as soon as it comes.                            *)
(*                                                                         *)
(* When the module behind has processed the end of the stream the observer *)
(* stops the pipeline, and Pipeline::Stop closes Inference.  The pipeline  *)
(* may be started again; the frames of all runs are numbered in order.     *)
(*                                                                         *)
(* The two threads that push here do so one at a time: what happens to     *)
(* current_size_ when they do not is in Connector.                         *)
(***************************************************************************)
EXTENDS Integers, Sequences, SequencesExt

CONSTANTS Runs,   \* times the pipeline is started
          F,      \* data frames of a run
          Batch,  \* frames in a request: 4 in Inference::Process
          Capacity   \* max_size_ of the next connector

ASSUME InferenceAssumption == /\ F \in Nat
                              /\ Runs \in Nat \ {0}
                              /\ Batch \in Nat \ {0}
                              /\ Capacity \in Nat \ {0}

Eos == 0
DataFrames == 1 .. Runs * F
AllFrames == {Eos} \union DataFrames

VARIABLES run,           \* number of the run
          fed,           \* the last data frame TaskLoop called Process with
          lpc,           \* where the TaskLoop thread is
          batch_array,   \* batch_array, whose length is batch_num
          packages,      \* the frames of each request
          sent, closed, answering, gone,   \* the session
          rpc, i,        \* where Response is, and the index of its loops
          pending, status, stopping,       \* the pool tp
          empty,         \* frames whose inference failed: null in the package
          queue, size,   \* queue_ and current_size_ of the next connector
          npc,           \* where the thread of the next module is
          taken,         \* history: what the next module has processed
          through,       \* runs whose end of the stream it has processed
          lost,          \* history: data frames that a Stop has lost
          stopped,       \* Pipeline::Stop has stopped the connectors
          crashed        \* undefined behaviour has ended the process

loopVars == <<fed, lpc, batch_array, packages>>
sessionVars == <<sent, closed, answering, gone>>
responseVars == <<rpc, i, empty>>
poolVars == <<pending, status, stopping>>
nextVars == <<queue, size, npc, taken, through, lost, stopped>>
endVars == <<run, crashed>>
vars == <<run, fed, lpc, batch_array, packages, sent, closed, answering, gone,
          rpc, i, pending, status, stopping, empty, queue, size, npc, taken,
          through, lost, stopped, crashed>>

Session == INSTANCE OrderedResponses
Pool == INSTANCE TaskPool WITH Tasks <- DataFrames, ranked <- FALSE,
                               Priority <- [f \in DataFrames |-> 0]

Init == /\ run = 1
        /\ fed = 0
        /\ lpc = "loop"
        /\ batch_array = << >>
        /\ packages = << >>
        /\ Session!ResponsesInit
        /\ rpc = "idle"
        /\ i = 1
        /\ Pool!PoolInit
        /\ empty = {}
        /\ queue = << >>
        /\ size = 0
        /\ npc = "loop"
        /\ taken = << >>
        /\ through = 0
        /\ lost = {}
        /\ stopped = FALSE
        /\ crashed = FALSE

\* The TaskLoop thread goes from one label to another; so does Response.
Loop(from, to) == ~crashed /\ lpc = from /\ lpc' = to
Resp(from, to) == ~crashed /\ rpc = from /\ rpc' = to

Push(f) == /\ size < Capacity
           /\ queue' = Append(queue, f)
           /\ size' = size + 1
           /\ UNCHANGED lost

\* ProvideData: the loop of TransmitData pushes until the next connector takes
\* the frame, which it may do when it is stopped, or gives up if it is.
Provide(f) == \/ Push(f)
              \/ /\ size >= Capacity /\ stopped
                 /\ lost' = lost \union ({f} \ {Eos})
                 /\ UNCHANGED <<queue, size>>

-----------------------------------------------------------------------------
(* Inference::Process.                                                     *)

\* Mutant of Collect: the newest frame goes to the front of the batch.
CollectFront ==
    /\ fed < run * F
    /\ fed' = fed + 1
    /\ batch_array' = << fed' >> \o batch_array
    /\ Loop("loop", IF Len(batch_array') = Batch THEN "request" ELSE "loop")
    /\ UNCHANGED <<packages, sessionVars, responseVars, poolVars, nextVars,
                   endVars>>

\* A data frame joins the batch.
Collect ==
    /\ fed < run * F
    /\ fed' = fed + 1
    /\ batch_array' = Append(batch_array, fed')
    /\ Loop("loop", IF Len(batch_array') = Batch THEN "request" ELSE "loop")
    /\ UNCHANGED <<packages, sessionVars, responseVars, poolVars, nextVars,
                   endVars>>

\* A full batch goes to the session.
Request ==
    /\ Loop("request", "loop")
    /\ Session!Accept
    /\ packages' = Append(packages, batch_array)
    /\ batch_array' = << >>
    /\ UNCHANGED <<fed, responseVars, poolVars, nextVars, endVars>>

ReceiveEos ==
    /\ fed = run * F
    /\ Loop("loop", "rightMove")
    /\ UNCHANGED <<fed, batch_array, packages, sessionVars, responseVars,
                   poolVars, nextVars, endVars>>

\* RightMove under the write lock, which a Transmit that waits keeps away.
EosRightMove ==
    /\ rpc # "push"
    /\ Loop("rightMove", "eos")
    /\ UNCHANGED <<fed, batch_array, packages, sessionVars, responseVars,
                   poolVars, nextVars, endVars>>

EosTransmit ==
    /\ Loop("eos", "end")
    /\ Provide(Eos)
    /\ UNCHANGED <<fed, batch_array, packages, sessionVars, responseVars,
                   poolVars, npc, taken, through, stopped,
                   endVars>>

-----------------------------------------------------------------------------
(* PostRetinObs::Response, for the frames of the request that is answered. *)

frames == packages[answering]

\* The status is printed only: the data of a frame that failed is null.
ResponseCall ==
    /\ Session!Answer
    /\ Resp("idle", "pushTasks")
    /\ i' = 1
    /\ \E failed \in SUBSET ToSet(packages[closed + 1]) :
           empty' = empty \union failed
    /\ UNCHANGED <<loopVars, poolVars, nextVars, endVars>>

PushTask ==
    /\ Resp("pushTasks", "pushTasks")
    /\ i <= Len(frames)
    /\ Pool!Submit(frames[i])
    /\ i' = i + 1
    /\ UNCHANGED <<empty, loopVars, sessionVars, nextVars, endVars>>

PushTasksEnd ==
    /\ Resp("pushTasks", "wait")
    /\ i > Len(frames)
    /\ i' = 1
    /\ UNCHANGED <<empty, loopVars, sessionVars, poolVars, nextVars, endVars>>

\* Mutant of WaitFuture: the futures are not waited for.
WaitFutureNot ==
    /\ Resp("wait", "wait")
    /\ i <= Len(frames)
    /\ i' = i + 1
    /\ UNCHANGED <<empty, loopVars, sessionVars, poolVars, nextVars, endVars>>

\* fu.wait(); fu.get()
WaitFuture ==
    /\ Resp("wait", "wait")
    /\ i <= Len(frames)
    /\ status[frames[i]] = "done"
    /\ i' = i + 1
    /\ UNCHANGED <<empty, loopVars, sessionVars, poolVars, nextVars, endVars>>

\* get() throws what DoResponse threw: the catch is behind the loop, so the
\* other futures are not waited for.
FutureThrows ==
    /\ Resp("wait", "transmit")
    /\ i <= Len(frames)
    /\ status[frames[i]] = "threw"
    /\ i' = 1
    /\ UNCHANGED <<empty, loopVars, sessionVars, poolVars, nextVars, endVars>>

WaitEnd ==
    /\ Resp("wait", "transmit")
    /\ i > Len(frames)
    /\ i' = 1
    /\ UNCHANGED <<empty, loopVars, sessionVars, poolVars, nextVars, endVars>>

TransmitLock ==
    /\ Resp("transmit", "push")
    /\ i <= Len(frames)
    /\ UNCHANGED <<i, empty, loopVars, sessionVars, poolVars, nextVars, endVars>>

\* Mutant of TransmitPush: nothing makes the loop of TransmitData give up.
TransmitPushStubborn ==
    /\ \/ Resp("push", "transmit") /\ Push(frames[i]) /\ i' = i + 1
       \/ Resp("push", "push") /\ UNCHANGED <<queue, size, lost, i>>
    /\ UNCHANGED <<empty, loopVars, sessionVars, poolVars, npc, taken,
                   through, stopped, endVars>>

TransmitPush ==
    /\ Resp("push", "transmit")
    /\ Provide(frames[i])
    /\ i' = i + 1
    /\ UNCHANGED <<empty, loopVars, sessionVars, poolVars, npc, taken,
                   through, stopped, endVars>>

\* Mutant of ResponseReturn: only the first frame is transmitted.
ResponseReturnEarly ==
    /\ i > 1
    /\ Session!Answered
    /\ Resp("transmit", "idle")
    /\ UNCHANGED <<i, empty, loopVars, poolVars, nextVars, endVars>>

ResponseReturn ==
    /\ Resp("transmit", "idle")
    /\ i > Len(frames)
    /\ Session!Answered
    /\ UNCHANGED <<i, empty, loopVars, poolVars, nextVars, endVars>>

-----------------------------------------------------------------------------
(* The pool, the next module and the end of the pipeline.                  *)

DoResponse == /\ ~crashed
              /\ \/ pending # << >> /\ Head(pending) \notin empty /\ Pool!Begin
                 \/ \E f \in DataFrames : Pool!End(f)
              /\ UNCHANGED <<loopVars, sessionVars, responseVars, nextVars,
                             endVars>>

\* It dereferences the data of its frame without a look at it.
DoResponseNull == /\ ~crashed
                  /\ pending # << >> /\ Head(pending) \in empty
                  /\ crashed' = TRUE
                  /\ UNCHANGED <<run, loopVars, sessionVars, responseVars,
                                 poolVars, nextVars>>

NextPop == /\ queue # << >>
           /\ queue' = Tail(queue)
           /\ size' = size - 1

NextModule == /\ ~crashed /\ ~stopped
              /\ NextPop
              /\ taken' = Append(taken, Head(queue))
              /\ through' = through + (IF Head(queue) = Eos THEN 1 ELSE 0)
              /\ UNCHANGED <<npc, lost, stopped, loopVars, sessionVars,
                             responseVars, poolVars, endVars>>

\* TaskLoop ends, and drops what GetData has still given it.
NextEnd == /\ ~crashed /\ stopped
           /\ npc = "loop" /\ npc' = "end"
           /\ \/ NextPop /\ lost' = lost \union {Head(queue)}
              \/ UNCHANGED <<queue, size, lost>>
           /\ UNCHANGED <<taken, through, stopped, loopVars, sessionVars,
                          responseVars, poolVars, endVars>>

\* The observer stops the pipeline when the end of the stream is through.
\* EmptyQueue leaves current_size_ as it is.
PipelineStop == /\ ~crashed /\ ~stopped
                /\ through = run
                /\ stopped' = TRUE
                /\ queue' = << >>
                /\ lost' = lost \union ToSet(queue)
                /\ UNCHANGED <<size, npc, taken, through, loopVars, sessionVars,
                               responseVars, poolVars, endVars>>

\* Close, after both TaskLoops were joined: ~Session waits for what is running.
Close == /\ ~crashed /\ stopped /\ ~gone
         /\ lpc = "end" /\ npc = "end"
         /\ Session!Vanish
         /\ UNCHANGED <<loopVars, responseVars, poolVars, nextVars, endVars>>

Reopen ==
    /\ ~crashed /\ gone
    /\ run < Runs /\ run' = run + 1
    /\ packages' = << >>
    /\ sent' = 0 /\ closed' = 0 /\ answering' = 0 /\ gone' = FALSE
    /\ pending' = << >> /\ stopping' = FALSE
    /\ status' = [f \in DataFrames |-> "new"]
    /\ empty' = {}
    /\ lpc' = "loop" /\ npc' = "loop" /\ stopped' = FALSE
    /\ UNCHANGED <<fed, rpc, i, queue, size, taken, through, lost>>

\* Mutant of Restart: Open begins with an empty batch.
RestartClean == Reopen /\ batch_array' = << >> /\ UNCHANGED crashed

\* Start again: Open makes a session and an observer with a new pool.  The old
\* pool is not destroyed but released with free(), with its workers in it: its
\* tasks are gone, or the process is.  Neither Close nor Open resets the batch.
Restart == Reopen /\ crashed' \in BOOLEAN /\ UNCHANGED batch_array

\* The connector has been emptied when it was full: it will take no frame, and
\* nothing goes on in a run that needs it to.
Clogged == queue = << >> /\ size >= Capacity

Terminating == (gone \/ crashed \/ Clogged) /\ UNCHANGED vars

-----------------------------------------------------------------------------
TaskLoop == Collect \/ Request \/ ReceiveEos \/ EosRightMove \/ EosTransmit

Response == \/ ResponseCall \/ PushTask \/ PushTasksEnd \/ WaitFuture
            \/ FutureThrows \/ WaitEnd \/ TransmitLock \/ TransmitPush
            \/ ResponseReturn

Next == \/ TaskLoop
        \/ Response
        \/ DoResponse \/ DoResponseNull
        \/ NextModule \/ NextEnd \/ PipelineStop \/ Close \/ Restart
        \/ Terminating

\* All threads are scheduled, the session answers what it accepted and the
\* pool runs its tasks; no request has to fail and no run to be started.
Fairness == /\ WF_vars(TaskLoop)
            /\ WF_vars(Response)
            /\ WF_vars(DoResponse \/ DoResponseNull)
            /\ WF_vars(NextModule \/ NextEnd)
            /\ WF_vars(PipelineStop) /\ WF_vars(Close)

Spec == Init /\ [][Next]_vars
FairSpec == Spec /\ Fairness

-----------------------------------------------------------------------------
TypeOK ==
    /\ run \in 1 .. Runs /\ fed \in 0 .. Runs * F
    /\ lpc \in {"loop", "request", "rightMove", "eos", "end"}
    /\ batch_array \in Seq(DataFrames) /\ Len(batch_array) <= Batch
    /\ packages \in Seq(Seq(DataFrames))
    /\ sent \in Nat /\ closed \in Nat /\ answering \in Nat
    /\ gone \in BOOLEAN
    /\ rpc \in {"idle", "pushTasks", "wait", "transmit", "push"}
    /\ i \in 1 .. Batch + 1
    /\ pending \in Seq(DataFrames)
    /\ status \in [DataFrames -> {"new", "pending", "running"} \union Pool!Ended]
    /\ stopping \in BOOLEAN
    /\ empty \in SUBSET DataFrames
    /\ queue \in Seq(AllFrames) /\ size \in Len(queue) .. Capacity
    /\ npc \in {"loop", "end"}
    /\ taken \in Seq(AllFrames) /\ through \in {run - 1, run}
    /\ lost \in SUBSET DataFrames
    /\ stopped \in BOOLEAN
    /\ crashed \in BOOLEAN

\* What has left Inference, but for what was lost.
out == taken \o queue

\* The data frames leave Inference in the order of the stream and none twice,
\* however the tasks of the pool overlap, and over all runs: what one run leaves
\* in the connector or in the batch comes before the frames of the next.  The
\* end of the stream leaves after every full batch was requested, although it
\* may overtake the frames of batches that are still in the inference server.
Carried(r) == (r * F) % Batch
OutInOrder ==
    /\ \A j, k \in 1 .. Len(out) :
          j < k /\ out[j] # Eos /\ out[k] # Eos => out[j] < out[k]
    /\ (through = run \/ Eos \in ToSet(queue)) =>
        sent = (Carried(run - 1) + F) \div Batch

\* A frame is not transmitted while DoResponse may still write to it, nor one
\* whose inference has failed (that ends the process first), except when
\* DoResponse of an earlier frame of its batch has thrown.
BatchOf(f) == {g \in DataFrames : (g - 1) \div Batch = (f - 1) \div Batch}
FinishedWhenSent ==
    \A f \in ToSet(out) \intersect UNION {ToSet(p) : p \in ToSet(packages)} :
        \/ status[f] \in Pool!Ended /\ f \notin empty
        \/ \E g \in BatchOf(f) : g # f /\ status[g] = "threw"

InferenceInv == TypeOK /\ FinishedWhenSent

\* Once all that a run requested is answered, exactly the frames that do not
\* fill a batch have not been transmitted, and none was dropped but by a Stop.
\* The next run, whatever the first one left behind, transmits them first: the
\* batch outlives Close and Open.
Remainder == {f \in DataFrames : f <= run * F /\ f > run * F - Carried(run)}
OnlyRemainderHeld ==
    fed = run * F /\ lpc # "request" /\ closed = sent /\ ~stopped /\ ~gone =>
        1 .. fed \ (ToSet(out) \union lost) = Remainder

\* Pipeline::Stop comes to its end although Response may be transmitting to a
\* connector that is full: once stopped it takes the frame or lets it go.  And
\* every run comes to its stop, unless the Stop of the run before has emptied
\* a connector that was full.
Closes == /\ stopped ~> (gone \/ crashed)
          /\ [](~stopped => <>(stopped \/ crashed \/ Clogged))
=============================================================================
