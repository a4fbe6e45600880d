------------------------------ MODULE Pipeline ------------------------------
(***************************************************************************)
(* A running pipeline (kernel/src/face_pipeline.cpp), between the return   *)
(* of Pipeline::Start and the end of Pipeline::Stop.  It is a chain of N   *)
(* modules, the shape BuildPipeline links and the only one it supports.    *)
(* Module 1 is Source: the main thread drives it through Source::Run.      *)
(* Every other module has a connector in front of it and a TaskLoop thread *)
(* that pops a frame, calls DoProcess and so pushes the frame on.          *)
(*                                                                         *)
(* Frames are numbers: 1 .. F are data, F + 1 is the end-of-stream frame   *)
(* that Source sends last.  A module that processes it calls RightMove,    *)
(* which takes one bit out of run_id; when one bit is left, RightMove sets *)
(* stop_pipeline_, which wakes the observer thread, which calls Stop.      *)
(*                                                                         *)
(* Every module here transmits in its own thread (HasTransmit is FALSE).   *)
(***************************************************************************)
EXTENDS ConnectorOps

CONSTANTS N,  \* modules
          F   \* data frames

ASSUME PipelineAssumption == N \in Nat \ {0} /\ F \in Nat

Modules == 1 .. N
Looped == 2 .. N      \* the modules with a connector and a TaskLoop thread
Eos == F + 1
AllFrames == 0 .. Eos   \* 0 where a thread has had no frame yet
Stoppers == {"observer", "user"}

VARIABLES pc,             \* where the thread of each module is
          frame,          \* the frame it works on, or last worked on
          reg,            \* what it loaded of a current_size_, 0 once stored
          processed,      \* history: the frames Process was called with
          run_id,         \* number of low bits set in run_id
          rid,            \* what the thread of each module loaded of run_id,
                          \* 0 once stored
          stop_pipeline,  \* stop_pipeline_ of the observer
          running,        \* running of the pipeline
          sp,             \* where each caller of Pipeline::Stop is
          todo,           \* the connectors it still has to stop
          cur,            \* the connector whose EmptyQueue it is in
          aborted         \* std::terminate has ended the process

moduleVars == <<pc, frame, reg, processed>>
runVars == <<run_id, rid, stop_pipeline>>
stopVars == <<running, sp, todo, cur, aborted>>
vars == <<queue, current_size, stop, pc, frame, reg, processed, run_id, rid,
          stop_pipeline, running, sp, todo, cur, aborted>>

\* Start has called LeftMove, run_id |= run_id << 1, once for every module.
Init ==
    /\ queue = [c \in Looped |-> << >>]
    /\ current_size = [c \in Looped |-> 0]
    /\ stop = [c \in Looped |-> FALSE]
    /\ pc = [m \in Modules |-> "loop"]
    /\ frame = [m \in Modules |-> 0]
    /\ reg = [m \in Modules |-> 0]
    /\ processed = [m \in Modules |-> << >>]
    /\ run_id = N + 1
    /\ rid = [m \in Modules |-> 0]
    /\ stop_pipeline = FALSE
    /\ running = TRUE
    /\ sp = [s \in Stoppers |-> "watch"]
    /\ todo = [s \in Stoppers |-> Looped]
    /\ cur = [s \in Stoppers |-> 0]
    /\ aborted = FALSE

\* A step of the thread of m from one label to the next.
Step(m, from, to) == /\ ~aborted
                     /\ pc[m] = from
                     /\ pc' = [pc EXCEPT ![m] = to]

\* The same for a caller of Pipeline::Stop.
StopGoto(s, from, to) == /\ ~aborted
                         /\ sp[s] = from
                         /\ sp' = [sp EXCEPT ![s] = to]

-----------------------------------------------------------------------------
(* The main thread: Source::Run calls DoProcess for every frame, then main *)
(* waits for the pipeline to stop running.                                 *)

SourceNext ==
    /\ frame[1] < Eos
    /\ Step(1, "loop", "process")
    /\ frame' = [frame EXCEPT ![1] = @ + 1]
    /\ UNCHANGED <<connVars, reg, processed, runVars, stopVars>>

SourceDone ==
    /\ frame[1] = Eos
    /\ Step(1, "loop", "spin")
    /\ UNCHANGED <<connVars, frame, reg, processed, runVars, stopVars>>

MainExit ==
    /\ ~running
    /\ Step(1, "spin", "exit")
    /\ UNCHANGED <<connVars, frame, reg, processed, runVars, stopVars>>

-----------------------------------------------------------------------------
(* TaskLoop and Connector::GetData.                                        *)

\* Mutant of LoopTest: stop_ is looked at only with a frame in hand.
LoopTestDeaf(m) ==
    /\ Step(m, "loop", "pop")
    /\ UNCHANGED <<connVars, frame, reg, processed, runVars, stopVars>>

\* while (!connector->IsStop() && data == nullptr)
LoopTest(m) ==
    /\ Step(m, "loop", IF stop[m] THEN "exit" ELSE "pop")
    /\ UNCHANGED <<connVars, frame, reg, processed, runVars, stopVars>>

\* Mutant of GetPop: the frame is read and stays in the queue.
GetPopPeek(m) ==
    /\ Step(m, "pop", "decLoad")
    /\ queue[m] # << >>
    /\ frame' = [frame EXCEPT ![m] = Head(queue[m])]
    /\ UNCHANGED <<connVars, reg, processed, runVars, stopVars>>

GetPop(m) ==
    /\ Step(m, "pop", "decLoad")
    /\ Dequeue(m)
    /\ frame' = [frame EXCEPT ![m] = Head(queue[m])]
    /\ UNCHANGED <<current_size, stop, reg, processed, runVars, stopVars>>

GetTimeout(m) ==
    /\ Step(m, "pop", "loop")
    /\ queue[m] = << >>
    /\ UNCHANGED <<connVars, frame, reg, processed, runVars, stopVars>>

GetLoad(m) ==
    /\ Step(m, "decLoad", "decStore")
    /\ reg' = [reg EXCEPT ![m] = current_size[m]]
    /\ UNCHANGED <<connVars, frame, processed, runVars, stopVars>>

GetStore(m) ==
    /\ Step(m, "decStore", "recheck")
    /\ StoreDec(m, reg[m])
    /\ reg' = [reg EXCEPT ![m] = 0]
    /\ UNCHANGED <<queue, stop, frame, processed, runVars, stopVars>>

\* if (connector->IsStop()) break, which drops the frame in hand.
Recheck(m) ==
    /\ Step(m, "recheck", IF stop[m] THEN "exit" ELSE "process")
    /\ UNCHANGED <<connVars, frame, reg, processed, runVars, stopVars>>

-----------------------------------------------------------------------------
(* DoProcess: Process, with RightMove when the stream ends, then           *)
(* DoTransmitData.                                                         *)

\* TransmitData: the last module has no output connector.
Transmit(m) == IF m = N THEN "loop" ELSE "push"

Process(m) ==
    /\ Step(m, "process", IF frame[m] = Eos THEN "rmLoad" ELSE Transmit(m))
    /\ processed' = [processed EXCEPT ![m] = Append(@, frame[m])]
    /\ UNCHANGED <<connVars, frame, reg, runVars, stopVars>>

\* run_id &= run_id >> 1 on an unsynchronised run_id: the lock that Process
\* holds is the lock of its own module.
RightMoveLoad(m) ==
    /\ Step(m, "rmLoad", "rmStore")
    /\ rid' = [rid EXCEPT ![m] = run_id]
    /\ UNCHANGED <<connVars, frame, reg, processed, run_id, stop_pipeline,
                   stopVars>>

RightMoveStore(m) ==
    /\ Step(m, "rmStore", "rmTest")
    /\ run_id' = IF rid[m] = 0 THEN 0 ELSE rid[m] - 1
    /\ rid' = [rid EXCEPT ![m] = 0]
    /\ UNCHANGED <<connVars, frame, reg, processed, stop_pipeline, stopVars>>

\* Mutant of RightMoveTest: if (run_id).
RightMoveTestAny(m) ==
    /\ Step(m, "rmTest", Transmit(m))
    /\ stop_pipeline' = (stop_pipeline \/ run_id # 0)
    /\ UNCHANGED <<connVars, frame, reg, processed, run_id, rid, stopVars>>

\* if (run_id == 1) observer_->SetStopTrue()
RightMoveTest(m) ==
    /\ Step(m, "rmTest", Transmit(m))
    /\ stop_pipeline' = (stop_pipeline \/ run_id = 1)
    /\ UNCHANGED <<connVars, frame, reg, processed, run_id, rid, stopVars>>

-----------------------------------------------------------------------------
(* TransmitData and Connector::PushData, into the connector of m + 1.      *)

PushCheck(m) ==
    /\ Step(m, "push", IF IsFull(m + 1) THEN "refused" ELSE "enqueue")
    /\ UNCHANGED <<connVars, frame, reg, processed, runVars, stopVars>>

\* PushData refused: try again, or give the frame up if m + 1 is stopped.
PushRefused(m) ==
    /\ Step(m, "refused", IF stop[m + 1] THEN "loop" ELSE "push")
    /\ UNCHANGED <<connVars, frame, reg, processed, runVars, stopVars>>

PushEnqueue(m) ==
    /\ Step(m, "enqueue", "incLoad")
    /\ Enqueue(m + 1, frame[m])
    /\ UNCHANGED <<current_size, stop, frame, reg, processed, runVars,
                   stopVars>>

PushLoad(m) ==
    /\ Step(m, "incLoad", "incStore")
    /\ reg' = [reg EXCEPT ![m] = current_size[m + 1]]
    /\ UNCHANGED <<connVars, frame, processed, runVars, stopVars>>

PushStore(m) ==
    /\ Step(m, "incStore", "loop")
    /\ StoreInc(m + 1, reg[m])
    /\ reg' = [reg EXCEPT ![m] = 0]
    /\ UNCHANGED <<queue, stop, frame, processed, runVars, stopVars>>

-----------------------------------------------------------------------------
(* Pipeline::Stop, called by the observer or by another thread.            *)

\* The observer calls it when stop_pipeline_ is set; the other thread may
\* call it once, at any time.  if (!IsRunning()) return true;
StopCall(s) ==
    /\ s = "observer" => stop_pipeline
    /\ StopGoto(s, "watch", IF running THEN "stop" ELSE "done")
    /\ UNCHANGED <<connVars, moduleVars, runVars, running, todo, cur, aborted>>

\* The connectors are visited in the order of an unordered_map.
StopConnector(s, c) ==
    /\ StopGoto(s, "stop", "empty")
    /\ c \in todo[s]
    /\ SetStop(c, TRUE)
    /\ todo' = [todo EXCEPT ![s] = @ \ {c}]
    /\ cur' = [cur EXCEPT ![s] = c]
    /\ UNCHANGED <<queue, current_size, moduleVars, runVars, running, aborted>>

\* A turn of the loop of EmptyQueue, and its end.
EmptyQueuePop(s) ==
    /\ ~aborted
    /\ sp[s] = "empty"
    /\ Dequeue(cur[s])
    /\ UNCHANGED <<current_size, stop, moduleVars, runVars, stopVars>>

EmptyQueueDone(s) ==
    /\ StopGoto(s, "empty", "stop")
    /\ queue[cur[s]] = << >>
    /\ cur' = [cur EXCEPT ![s] = 0]
    /\ UNCHANGED <<connVars, moduleVars, runVars, running, todo, aborted>>

StopJoin(s) ==
    /\ StopGoto(s, "stop", "join")
    /\ todo[s] = {}
    /\ UNCHANGED <<connVars, moduleVars, runVars, running, todo, cur, aborted>>

\* Mutant of StopDone: the threads are not joined.
StopDoneDetached(s) ==
    /\ StopGoto(s, "join", "done")
    /\ running' = FALSE
    /\ UNCHANGED <<connVars, moduleVars, runVars, todo, cur, aborted>>

\* The join returns, the modules are closed, running.store(false).
StopDone(s) ==
    /\ StopGoto(s, "join", "done")
    /\ \A m \in Looped : pc[m] = "exit"
    /\ running' = FALSE
    /\ UNCHANGED <<connVars, moduleVars, runVars, todo, cur, aborted>>

\* Two threads in the join loop join the same std::thread and clear the same
\* vector: undefined, and the process may be terminated.
StopAbort ==
    /\ ~aborted
    /\ \A s \in Stoppers : sp[s] = "join"
    /\ aborted' = TRUE
    /\ UNCHANGED <<connVars, moduleVars, runVars, running, sp, todo, cur>>

-----------------------------------------------------------------------------
SourceStep == SourceNext \/ SourceDone \/ MainExit

TaskStep(m) == LoopTest(m) \/ GetPop(m) \/ GetTimeout(m) \/ GetLoad(m)
               \/ GetStore(m) \/ Recheck(m)

ProcessStep(m) == Process(m) \/ RightMoveLoad(m) \/ RightMoveStore(m)
                  \/ RightMoveTest(m)

TransmitStep(m) == PushCheck(m) \/ PushRefused(m) \/ PushEnqueue(m)
                   \/ PushLoad(m) \/ PushStore(m)

Thread(m) == ProcessStep(m) \/ TransmitStep(m)

MainThread == SourceStep \/ Thread(1)
LoopThread(m) == TaskStep(m) \/ Thread(m)

StopStep(s) == \/ \E c \in Looped : StopConnector(s, c)
               \/ EmptyQueuePop(s)
               \/ EmptyQueueDone(s)
               \/ StopJoin(s)
               \/ StopDone(s)

\* Nothing left to do: main has returned from its wait, or the process ended.
Terminating == /\ aborted \/ pc[1] = "exit"
               /\ UNCHANGED vars

Next == \/ MainThread
        \/ \E m \in Looped : LoopThread(m)
        \/ \E s \in Stoppers : StopCall(s) \/ StopStep(s)
        \/ StopAbort
        \/ Terminating

\* Every thread of the process is scheduled; the early Stop is optional, but
\* one that was called runs on.
Fairness == /\ WF_vars(MainThread)
            /\ \A m \in Looped : WF_vars(LoopThread(m))
            /\ \A s \in Stoppers : WF_vars(StopStep(s))
            /\ WF_vars(StopCall("observer"))

Spec == Init /\ [][Next]_vars
FairSpec == Spec /\ Fairness

-----------------------------------------------------------------------------
Labels == {"loop", "pop", "decLoad", "decStore", "recheck", "process",
           "rmLoad", "rmStore", "rmTest", "push", "refused", "enqueue",
           "incLoad", "incStore", "spin", "exit"}

TypeOK ==
    /\ queue \in [Looped -> Seq(AllFrames)]
    /\ current_size \in [Looped -> Sizes]
    /\ stop \in [Looped -> BOOLEAN]
    /\ pc \in [Modules -> Labels]
    /\ frame \in [Modules -> AllFrames]
    /\ reg \in [Modules -> Sizes]
    /\ processed \in [Modules -> Seq(AllFrames)]
    /\ run_id \in 0 .. (N + 1)
    /\ rid \in [Modules -> 0 .. (N + 1)]
    /\ stop_pipeline \in BOOLEAN
    /\ running \in BOOLEAN
    /\ sp \in [Stoppers -> {"watch", "stop", "empty", "join", "done"}]
    /\ todo \in [Stoppers -> SUBSET Looped]
    /\ cur \in [Stoppers -> {0} \union Looped]
    /\ aborted \in BOOLEAN

\* Every module processes the frames of the stream in their order, without a
\* gap and without a repetition, also when TaskLoop drops the frame in its
\* hands, TransmitData gives one up or EmptyQueue throws some away while the
\* threads of the other modules run on.
InOrder ==
    \A m \in Modules :
        \A i \in 1 .. Len(processed[m]) : processed[m][i] = i

\* RightMove raises stop_pipeline_ only after every module has processed every
\* frame of the stream: the unsynchronised run_id counts the ends of stream
\* right, and no stop of the observer cuts the stream short.
DrainedBeforeStop ==
    stop_pipeline => \A m \in Modules : Len(processed[m]) = Eos

\* Two threads are never in RightMove at the same time, although no lock of
\* theirs keeps them apart: the end of the stream passes the modules one by
\* one.
InRightMove(m) == pc[m] \in {"rmLoad", "rmStore", "rmTest"}
RightMoveExclusive ==
    \A m, n \in Modules : InRightMove(m) /\ InRightMove(n) => m = n

\* Another thread has called Stop.
UserStopped == sp["user"] # "watch"

\* Until another thread stops the pipeline, no frame is lost: no connector
\* with frames in it is emptied and no TaskLoop drops one.
Drops == \/ \E s \in Stoppers : EmptyQueuePop(s)
         \/ \E m \in Looped : Recheck(m) /\ stop[m]
         \/ \E m \in Modules : PushRefused(m) /\ stop[m + 1]
NothingDropped == [][UserStopped \/ ~Drops]_vars

\* When running becomes FALSE no TaskLoop thread is left that could still call
\* a module.
QuietWhenStopped == ~running => \A m \in Looped : pc[m] = "exit"

\* The pipeline does what StreamChain promises.
Stream == INSTANCE StreamChain
              WITH done <- [m \in Modules |-> Len(processed[m])],
                   early <- UserStopped
StreamSpec == Stream!StreamSpec

\* Every Stop that was called ends, unless two collide in the join.
StopEnds == (\E s \in Stoppers : sp[s] = "stop")
            ~> (aborted \/ \A s \in Stoppers : sp[s] \in {"watch", "done"})

\* If no two updates of a count ever overlap, the end of the stream reaches
\* every module, the pipeline stops by itself and main returns.
Overlap == \E m \in 1 .. (N - 1) : pc[m] = "incStore" /\ pc[m + 1] = "decStore"
EndsUnlessRaced == [](~Overlap /\ ~UserStopped) => <>[](pc[1] = "exit")

-----------------------------------------------------------------------------
(* The inductive invariant behind InOrder, DrainedBeforeStop,              *)
(* NothingDropped and StreamSpec.                                          *)

Popped == {"decLoad", "decStore", "recheck"}
Unsent == {"rmLoad", "rmStore", "rmTest", "push", "refused", "enqueue"}
Sent == {"incLoad", "incStore"}

\* Frames module m has processed, frames it has taken off its connector, and
\* frames that were pushed (or given up) towards it.
Count(m) == Len(processed[m])
Took(m) == IF pc[m] \in Popped \union {"process"} THEN Count(m) + 1
           ELSE Count(m)
SentTo(m) == IF pc[m - 1] \in Unsent THEN Count(m - 1) - 1 ELSE Count(m - 1)

\* The threads are where threads of their kind can be.
PlaceOK == /\ pc[1] \notin Popped \union {"pop"}
           /\ pc[N] \notin {"push", "refused", "enqueue"} \union Sent
           /\ \A m \in Looped : pc[m] # "spin"
           /\ \A m \in Modules : InRightMove(m) => frame[m] = Eos

\* No frame has been lost in front of m.
Intact(m) == ~stop[m] \/ ~UserStopped

\* A thread works on the frame that is next, or on the one it processed last.
HandOK ==
    /\ \A m \in Modules : pc[m] = "process" => frame[m] = Count(m) + 1
    /\ \A m \in Modules : pc[m] \in Unsent \union Sent => frame[m] = Count(m)
    /\ \A m \in Looped : pc[m] \in Popped /\ Intact(m) => frame[m] = Count(m) + 1
    /\ pc[1] # "process" => frame[1] = Count(1)
    /\ \A m \in Modules : Count(m) <= Eos

\* The queue holds the frames between what was sent and what was taken.
QueueOK ==
    \A m \in Looped : Intact(m) =>
        /\ Len(queue[m]) = SentTo(m) - Took(m)
        /\ \A i \in 1 .. Len(queue[m]) : queue[m][i] = Took(m) + i

\* What m processes has been sent to it, stopped or not.
AheadOK ==
    \A m \in Looped :
        Count(m) + (IF pc[m] = "process" THEN 1 ELSE 0) <= SentTo(m)

\* The end of the stream reaches m when every module before it is through.
EosOrder ==
    \A m, n \in Modules : n < m /\ Count(m) = Eos =>
        Count(n) = Eos /\ pc[n] \notin Unsent

\* run_id has one bit more than there are modules that have not shifted it.
Moved(m) == Count(m) = Eos /\ pc[m] \notin {"rmLoad", "rmStore"}
RunIdOK ==
    /\ run_id >= 1
    /\ \A m \in Modules : Moved(m) <=> m <= N + 1 - run_id
    /\ \A m \in Modules : pc[m] = "rmStore" => rid[m] = run_id

\* Nobody stops a connector without having been allowed to.
StopOK ==
    /\ sp["observer"] # "watch" => stop_pipeline
    /\ \A m \in Looped : stop[m] => UserStopped \/ stop_pipeline
    /\ \A s \in Stoppers : sp[s] = "empty" => cur[s] \in Looped /\ stop[cur[s]]

IInv == /\ TypeOK
        /\ InOrder
        /\ DrainedBeforeStop
        /\ QuietWhenStopped
        /\ PlaceOK
        /\ HandOK
        /\ QueueOK
        /\ AheadOK
        /\ EosOrder
        /\ RunIdOK
        /\ StopOK
=============================================================================
