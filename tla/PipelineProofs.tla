--------------------------- MODULE PipelineProofs ---------------------------
(***************************************************************************)
(* Proofs about Pipeline for every number of modules, every length of the  *)
(* stream and every capacity of the queues.                                *)
(***************************************************************************)
EXTENDS Pipeline, TLAPS

\* The sets of modules and frames, as the other proofs use them.
LEMMA ModuleFacts == /\ N \in Nat /\ N >= 1
                     /\ 1 \in Modules /\ N \in Modules
                     /\ \A m \in Looped : m \in Modules /\ m - 1 \in Modules
                     /\ \A m \in Modules : m # 1 => m \in Looped
                     /\ \A m \in Modules : m # N => m + 1 \in Looped
                     /\ \A m \in Modules : m \in Int
BY PipelineAssumption DEF PipelineAssumption, Modules, Looped

LEMMA FrameFacts == /\ Eos \in AllFrames /\ 0 \in AllFrames
                    /\ Eos \in Nat
                    /\ \A f \in AllFrames : f < Eos => f + 1 \in AllFrames
                    /\ \A f \in AllFrames : f \in Int /\ 0 <= f /\ f <= Eos
BY PipelineAssumption DEF PipelineAssumption, AllFrames, Eos

LEMMA SizeFacts == /\ 0 \in Sizes
                   /\ \A n \in Sizes : Inc(n) \in Sizes /\ Dec(n) \in Sizes
BY CapacityAssumption DEF CapacityAssumption, Sizes, Inc, Dec

LEMMA SeqFacts ==
    ASSUME NEW S, NEW q \in Seq(S)
    PROVE  /\ \A e \in S : Append(q, e) \in Seq(S)
           /\ q # << >> => Head(q) \in S /\ Tail(q) \in Seq(S)
OBVIOUS

LEMMA TailFacts ==
    ASSUME NEW S, NEW q \in Seq(S), q # << >>
    PROVE  /\ Len(Tail(q)) = Len(q) - 1
           /\ \A i \in 1 .. Len(Tail(q)) : Tail(q)[i] = q[i + 1]
OBVIOUS

LEMMA AppendFacts ==
    ASSUME NEW S, NEW q \in Seq(S), NEW e \in S
    PROVE  /\ Len(Append(q, e)) = Len(q) + 1
           /\ \A i \in 1 .. Len(q) : Append(q, e)[i] = q[i]
           /\ Append(q, e)[Len(q) + 1] = e
OBVIOUS

LEMMA TypeInit == Init => TypeOK
<1> SUFFICES ASSUME Init PROVE TypeOK
  OBVIOUS
<1> USE ModuleFacts, FrameFacts, SizeFacts DEF Init
<1>1. /\ queue \in [Looped -> Seq(AllFrames)]
      /\ current_size \in [Looped -> Sizes]
      /\ stop \in [Looped -> BOOLEAN]
  OBVIOUS
<1>2. /\ pc \in [Modules -> Labels]
      /\ frame \in [Modules -> AllFrames]
      /\ reg \in [Modules -> Sizes]
      /\ processed \in [Modules -> Seq(AllFrames)]
  BY DEF Labels
<1>3. /\ run_id \in 0 .. (N + 1)
      /\ rid \in [Modules -> 0 .. (N + 1)]
      /\ stop_pipeline \in BOOLEAN
  <2>1. N + 1 \in 0 .. (N + 1) /\ 0 \in 0 .. (N + 1)
    BY N \in Nat
  <2> QED BY <2>1
<1>4. /\ running \in BOOLEAN
      /\ sp \in [Stoppers -> {"watch", "stop", "empty", "join", "done"}]
      /\ todo \in [Stoppers -> SUBSET Looped]
      /\ cur \in [Stoppers -> {0} \union Looped]
      /\ aborted \in BOOLEAN
  OBVIOUS
<1> QED BY <1>1, <1>2, <1>3, <1>4 DEF TypeOK

\* The steps of the source, of a TaskLoop, of DoProcess and TransmitData, and
\* of Pipeline::Stop preserve the types.
LEMMA TypeSource == TypeOK /\ SourceStep => TypeOK'
<1> SUFFICES ASSUME TypeOK, SourceStep PROVE TypeOK'
  OBVIOUS
<1> USE ModuleFacts, FrameFacts DEF TypeOK, Labels, Step, connVars, runVars, stopVars
<1>1. CASE SourceNext
  BY <1>1 DEF SourceNext
<1>2. CASE SourceDone
  BY <1>2 DEF SourceDone
<1>3. CASE MainExit
  BY <1>3 DEF MainExit
<1> QED BY <1>1, <1>2, <1>3 DEF SourceStep

LEMMA TypeTask == ASSUME NEW m \in Looped PROVE TypeOK /\ TaskStep(m) => TypeOK'
<1> SUFFICES ASSUME TypeOK, TaskStep(m) PROVE TypeOK'
  OBVIOUS
<1> USE ModuleFacts, SizeFacts
    DEF TypeOK, Labels, Step, connVars, runVars, stopVars
<1>1. CASE LoopTest(m)
  BY <1>1 DEF LoopTest
<1>2. CASE GetPop(m)
  BY <1>2 DEF GetPop, Dequeue
<1>3. CASE GetTimeout(m)
  BY <1>3 DEF GetTimeout
<1>4. CASE GetLoad(m)
  BY <1>4 DEF GetLoad
<1>5. CASE GetStore(m)
  BY <1>5 DEF GetStore, StoreDec
<1>6. CASE Recheck(m)
  BY <1>6 DEF Recheck
<1> QED BY <1>1, <1>2, <1>3, <1>4, <1>5, <1>6 DEF TaskStep

LEMMA TypeProcess ==
    ASSUME NEW m \in Modules PROVE TypeOK /\ ProcessStep(m) => TypeOK'
<1> SUFFICES ASSUME TypeOK, ProcessStep(m) PROVE TypeOK'
  OBVIOUS
<1> USE ModuleFacts
    DEF TypeOK, Labels, Step, Transmit, connVars, runVars, stopVars
<1>1. CASE Process(m)
  <2>1. Append(processed[m], frame[m]) \in Seq(AllFrames)
    BY SeqFacts
  <2>2. processed' \in [Modules -> Seq(AllFrames)]
    BY <1>1, <2>1 DEF Process
  <2> QED BY <1>1, <2>2 DEF Process
<1>2. CASE RightMoveLoad(m)
  BY <1>2 DEF RightMoveLoad
<1>3. CASE RightMoveStore(m)
  <2>1. rid[m] \in 0 .. (N + 1) /\ N \in Nat
    OBVIOUS
  <2>2. (IF rid[m] = 0 THEN 0 ELSE rid[m] - 1) \in 0 .. (N + 1)
    BY <2>1
  <2> QED BY SMTT(30), <1>3, <2>2 DEF RightMoveStore
<1>4. CASE RightMoveTest(m)
  BY <1>4 DEF RightMoveTest
<1> QED BY <1>1, <1>2, <1>3, <1>4 DEF ProcessStep

\* The last module has no output connector: it never transmits.
PlaceInv == TypeOK /\ PlaceOK

LEMMA TypeTransmit ==
    ASSUME NEW m \in Modules PROVE PlaceInv /\ TransmitStep(m) => TypeOK'
<1> SUFFICES ASSUME PlaceInv, TransmitStep(m) PROVE TypeOK'
  OBVIOUS
<1>0. m # N /\ m + 1 \in Looped
  BY ModuleFacts DEF PlaceInv, PlaceOK, TransmitStep, PushCheck, PushRefused,
                     PushEnqueue, PushLoad, PushStore, Step, Sent
<1> USE ModuleFacts, SizeFacts, <1>0
    DEF PlaceInv, TypeOK, Labels, Step, connVars, runVars, stopVars
<1>1. CASE PushCheck(m)
  BY <1>1 DEF PushCheck
<1>2. CASE PushRefused(m)
  BY <1>2 DEF PushRefused
<1>3. CASE PushEnqueue(m)
  <2>1. Append(queue[m + 1], frame[m]) \in Seq(AllFrames)
    BY SeqFacts
  <2>2. queue' \in [Looped -> Seq(AllFrames)]
    BY <1>3, <2>1 DEF PushEnqueue, Enqueue
  <2> QED BY <1>3, <2>2 DEF PushEnqueue
<1>4. CASE PushLoad(m)
  BY <1>4 DEF PushLoad
<1>5. CASE PushStore(m)
  BY <1>5 DEF PushStore, StoreInc
<1> QED BY <1>1, <1>2, <1>3, <1>4, <1>5 DEF TransmitStep

LEMMA TypeStop ==
    ASSUME NEW s \in Stoppers
    PROVE  TypeOK /\ (StopCall(s) \/ StopStep(s)) => TypeOK'
<1> SUFFICES ASSUME TypeOK, StopCall(s) \/ StopStep(s) PROVE TypeOK'
  OBVIOUS
<1> USE DEF TypeOK, StopGoto, connVars, moduleVars, runVars, stopVars
<1>1. CASE StopCall(s)
  BY <1>1 DEF StopCall
<1>2. ASSUME NEW c \in Looped, StopConnector(s, c) PROVE TypeOK'
  BY <1>2 DEF StopConnector, SetStop
<1>3. CASE EmptyQueuePop(s)
  <2>1. queue' \in [Looped -> Seq(AllFrames)]
    <3>1. CASE cur[s] \in Looped
      <4>1. Tail(queue[cur[s]]) \in Seq(AllFrames)
        BY <1>3, <3>1, SeqFacts DEF EmptyQueuePop, Dequeue
      <4> QED BY <1>3, <4>1 DEF EmptyQueuePop, Dequeue
    <3>2. CASE cur[s] \notin Looped
      BY <1>3, <3>2 DEF EmptyQueuePop, Dequeue
    <3> QED BY <3>1, <3>2
  <2> QED BY <1>3, <2>1 DEF EmptyQueuePop
<1>4. CASE EmptyQueueDone(s)
  BY <1>4 DEF EmptyQueueDone
<1>5. CASE StopJoin(s)
  BY <1>5 DEF StopJoin
<1>6. CASE StopDone(s)
  BY <1>6 DEF StopDone
<1> QED BY <1>1, <1>2, <1>3, <1>4, <1>5, <1>6 DEF StopStep

-----------------------------------------------------------------------------
(* Where the threads can be.                                               *)

LEMMA PlaceSource == PlaceInv /\ SourceStep => PlaceOK'
<1> SUFFICES ASSUME PlaceInv, SourceStep PROVE PlaceOK'
  OBVIOUS
<1>1. 1 \notin Looped
  BY DEF Looped
<1> USE ModuleFacts, <1>1
    DEF PlaceInv, TypeOK, PlaceOK, InRightMove, Popped, Sent, Step
<1>2. CASE SourceNext
  BY <1>2 DEF SourceNext
<1>3. CASE SourceDone
  BY <1>3 DEF SourceDone
<1>4. CASE MainExit
  BY <1>4 DEF MainExit
<1> QED BY <1>2, <1>3, <1>4 DEF SourceStep

LEMMA PlaceTask ==
    ASSUME NEW m \in Looped PROVE PlaceInv /\ TaskStep(m) => PlaceOK'
<1> SUFFICES ASSUME PlaceInv, TaskStep(m) PROVE PlaceOK'
  OBVIOUS
<1>1. m # 1
  BY DEF Looped
<1> USE ModuleFacts, <1>1
    DEF PlaceInv, TypeOK, PlaceOK, InRightMove, Popped, Sent, Step
<1>2. CASE LoopTest(m)
  BY <1>2 DEF LoopTest
<1>3. CASE GetPop(m)
  BY <1>3 DEF GetPop
<1>4. CASE GetTimeout(m)
  BY <1>4 DEF GetTimeout
<1>5. CASE GetLoad(m)
  BY <1>5 DEF GetLoad
<1>6. CASE GetStore(m)
  BY <1>6 DEF GetStore
<1>7. CASE Recheck(m)
  BY <1>7 DEF Recheck
<1> QED BY <1>2, <1>3, <1>4, <1>5, <1>6, <1>7 DEF TaskStep

LEMMA PlaceProcess ==
    ASSUME NEW m \in Modules PROVE PlaceInv /\ ProcessStep(m) => PlaceOK'
<1> SUFFICES ASSUME PlaceInv, ProcessStep(m) PROVE PlaceOK'
  OBVIOUS
<1> USE ModuleFacts
    DEF PlaceInv, TypeOK, PlaceOK, InRightMove, Popped, Sent, Step, Transmit
<1>1. CASE Process(m)
  BY <1>1 DEF Process
<1>2. CASE RightMoveLoad(m)
  BY <1>2 DEF RightMoveLoad
<1>3. CASE RightMoveStore(m)
  BY <1>3 DEF RightMoveStore
<1>4. CASE RightMoveTest(m)
  BY <1>4 DEF RightMoveTest
<1> QED BY <1>1, <1>2, <1>3, <1>4 DEF ProcessStep

LEMMA PlaceTransmit ==
    ASSUME NEW m \in Modules PROVE PlaceInv /\ TransmitStep(m) => PlaceOK'
<1> SUFFICES ASSUME PlaceInv, TransmitStep(m) PROVE PlaceOK'
  OBVIOUS
<1> USE ModuleFacts
    DEF PlaceInv, TypeOK, PlaceOK, InRightMove, Popped, Sent, Step
<1>1. CASE PushCheck(m)
  BY <1>1 DEF PushCheck
<1>2. CASE PushRefused(m)
  BY <1>2 DEF PushRefused
<1>3. CASE PushEnqueue(m) \/ PushLoad(m) \/ PushStore(m)
  BY ZenonT(30), <1>3 DEF PushEnqueue, PushLoad, PushStore
<1> QED BY <1>1, <1>2, <1>3 DEF TransmitStep

\* The steps of Pipeline::Stop touch neither the threads nor their frames.
LEMMA StopFrame ==
    ASSUME NEW s \in Stoppers, StopCall(s) \/ StopStep(s)
    PROVE  UNCHANGED <<moduleVars, runVars>>
BY DEF StopCall, StopStep, StopConnector, EmptyQueuePop, EmptyQueueDone,
       StopJoin, StopDone

LEMMA PlaceStep == PlaceInv /\ [Next]_vars => PlaceInv'
<1> SUFFICES ASSUME PlaceInv, [Next]_vars PROVE PlaceInv'
  OBVIOUS
<1> USE DEF PlaceInv
<1>1. CASE MainThread
  BY <1>1, ModuleFacts, TypeSource, PlaceSource, TypeProcess, PlaceProcess,
     TypeTransmit, PlaceTransmit DEF MainThread, Thread
<1>2. ASSUME NEW m \in Looped, LoopThread(m) PROVE PlaceInv'
  BY <1>2, ModuleFacts, TypeTask, PlaceTask, TypeProcess, PlaceProcess,
     TypeTransmit, PlaceTransmit DEF LoopThread, Thread
<1>3. ASSUME NEW s \in Stoppers, StopCall(s) \/ StopStep(s) PROVE PlaceInv'
  <2>1. TypeOK'
    BY <1>3, TypeStop
  <2>2. PlaceOK'
    BY <1>3, StopFrame DEF moduleVars, PlaceOK, InRightMove
  <2> QED BY <2>1, <2>2
<1>4. CASE StopAbort
  BY <1>4 DEF StopAbort, connVars, moduleVars, runVars, TypeOK, PlaceOK,
              InRightMove
<1>5. CASE UNCHANGED vars
  BY <1>5 DEF vars, TypeOK, PlaceOK, InRightMove
<1> QED BY <1>1, <1>2, <1>3, <1>4, <1>5 DEF Next, Terminating

\* Every variable has its type in every state of the pipeline.
THEOREM TypeCorrect == Spec => []TypeOK
<1>1. Init => PlaceInv
  <2> SUFFICES ASSUME Init PROVE PlaceInv
    OBVIOUS
  <2>1. PlaceOK
    BY ModuleFacts DEF Init, PlaceOK, InRightMove, Popped, Sent
  <2> QED BY <2>1, TypeInit DEF PlaceInv
<1>2. PlaceInv => TypeOK
  BY DEF PlaceInv
<1> QED BY <1>1, <1>2, PlaceStep, PTL DEF Spec

-----------------------------------------------------------------------------
(* The flow of the frames.                                                 *)

Flow == InOrder /\ HandOK /\ QueueOK /\ AheadOK /\ EosOrder
FlowInv == PlaceInv /\ Flow

\* A step of a thread that keeps its frame where it is keeps the flow.
LEMMA QuietStep ==
    ASSUME FlowInv, NEW m \in Modules, NEW l \in Labels,
           pc' = [pc EXCEPT ![m] = l],
           UNCHANGED <<queue, stop, sp, frame, processed>>,
           l \in Popped <=> pc[m] \in Popped,
           l = "process" <=> pc[m] = "process",
           (l \in Unsent <=> pc[m] \in Unsent) \/ (m = N /\ l = "loop"),
           l \in Sent => pc[m] \in Sent
    PROVE  Flow'
<1>1. \A k \in Modules : pc'[k] = IF k = m THEN l ELSE pc[k]
  BY DEF FlowInv, PlaceInv, TypeOK
<1>2. \A k \in Looped : /\ Took(k)' = Took(k)
                        /\ SentTo(k)' = SentTo(k)
                        /\ Intact(k)' = Intact(k)
  <2> SUFFICES ASSUME NEW k \in Looped
               PROVE  /\ Took(k)' = Took(k)
                      /\ SentTo(k)' = SentTo(k)
                      /\ Intact(k)' = Intact(k)
    OBVIOUS
  <2>1. Took(k)' = Took(k)
    BY <1>1, ModuleFacts DEF Took, Count
  <2>2. SentTo(k)' = SentTo(k)
    <3>1. k - 1 \in Modules /\ k - 1 # N
      BY ModuleFacts DEF Looped
    <3> QED BY <1>1, <3>1 DEF SentTo, Count, Unsent
  <2> QED BY <2>1, <2>2 DEF Intact, UserStopped
<1>3. InOrder'
  BY DEF FlowInv, Flow, InOrder
<1>4. HandOK'
  BY <1>1, <1>2, ModuleFacts DEF FlowInv, Flow, HandOK, Count, Unsent, Sent
<1>5. QueueOK'
  BY <1>2 DEF FlowInv, Flow, QueueOK
<1>6. AheadOK'
  BY <1>1, <1>2, ModuleFacts DEF FlowInv, Flow, AheadOK, Count
<1>7. EosOrder'
  BY <1>1, ModuleFacts DEF FlowInv, Flow, EosOrder, Count, Unsent
<1> QED BY <1>3, <1>4, <1>5, <1>6, <1>7 DEF Flow

\* When a connector is stopped and no other thread called Stop, every
\* module is through: nothing is in the queue, in hand or on its way.
LEMMA NothingLeft ==
    ASSUME FlowInv, DrainedBeforeStop, StopOK, NEW m \in Looped, stop[m],
           ~UserStopped
    PROVE  /\ pc[m] \notin Popped
           /\ queue[m] = << >>
           /\ pc[m - 1] \notin Unsent
<1>1. m \in Modules /\ m - 1 \in Modules /\ m - 1 < m
  BY ModuleFacts DEF Looped
<1>2. Count(m) = Eos /\ Count(m - 1) = Eos
  BY <1>1 DEF StopOK, DrainedBeforeStop, Count
<1>3. pc[m - 1] \notin Unsent
  BY <1>1, <1>2 DEF FlowInv, Flow, EosOrder
<1>4. Len(queue[m]) = Eos - Took(m) /\ Len(queue[m]) \in Nat
  BY <1>1, <1>2, <1>3
     DEF FlowInv, PlaceInv, TypeOK, Flow, QueueOK, Intact, SentTo
<1>5. Took(m) = Eos /\ pc[m] \notin Popped
  BY <1>2, <1>4, FrameFacts DEF Took
<1>6. Len(queue[m]) = 0
  BY <1>4, <1>5, FrameFacts
<1> QED BY <1>3, <1>5, <1>6 DEF FlowInv, PlaceInv, TypeOK

LEMMA FlowSourceNext == FlowInv /\ SourceNext => Flow'
<1> SUFFICES ASSUME FlowInv, SourceNext PROVE Flow'
  OBVIOUS
<1>1. \A k \in Modules : k # 1 => pc'[k] = pc[k] /\ frame'[k] = frame[k]
  BY DEF SourceNext, Step, FlowInv, PlaceInv, TypeOK
<1>2. /\ pc[1] = "loop" /\ pc'[1] = "process"
      /\ frame'[1] = Count(1) + 1
      /\ UNCHANGED <<queue, stop, sp, processed>>
  BY ModuleFacts DEF SourceNext, Step, connVars, stopVars, FlowInv, PlaceInv, TypeOK, Flow,
                     HandOK
<1>3. 1 \notin Looped
  BY DEF Looped
<1>4. \A k \in Looped : /\ Took(k)' = Took(k)
                        /\ SentTo(k)' = SentTo(k)
                        /\ Intact(k)' = Intact(k)
  BY <1>1, <1>2, <1>3, ModuleFacts DEF Took, SentTo, Intact, UserStopped, Count, Unsent
<1>5. InOrder' /\ QueueOK'
  BY <1>2, <1>4 DEF FlowInv, Flow, InOrder, QueueOK
<1>6. HandOK'
  BY <1>1, <1>2, <1>3, <1>4, ModuleFacts
     DEF FlowInv, Flow, HandOK, Count, Unsent, Sent
<1>7. AheadOK'
  BY <1>1, <1>2, <1>3, <1>4, ModuleFacts DEF FlowInv, Flow, AheadOK, Count
<1>8. EosOrder'
  BY <1>1, <1>2, ModuleFacts DEF FlowInv, Flow, EosOrder, Count, Unsent
<1> QED BY <1>5, <1>6, <1>7, <1>8 DEF Flow

LEMMA FlowGetPop ==
    ASSUME NEW m \in Looped, FlowInv, GetPop(m) PROVE Flow'
<1>1. \A k \in Modules : k # m => pc'[k] = pc[k] /\ frame'[k] = frame[k]
  BY DEF GetPop, Step, FlowInv, PlaceInv, TypeOK
<1>2. /\ pc[m] = "pop" /\ pc'[m] = "decLoad"
      /\ frame'[m] = Head(queue[m])
      /\ queue[m] # << >>
      /\ queue'[m] = Tail(queue[m])
      /\ \A k \in Looped : k # m => queue'[k] = queue[k]
      /\ UNCHANGED <<stop, sp, processed>>
  BY ModuleFacts DEF GetPop, Dequeue, Step, stopVars, FlowInv, PlaceInv, TypeOK
<1>3. m # 1 /\ m \in Modules
  BY ModuleFacts DEF Looped
<1>4. \A k \in Looped : /\ Took(k)' = IF k = m THEN Took(m) + 1 ELSE Took(k)
                        /\ SentTo(k)' = SentTo(k)
                        /\ Intact(k)' = Intact(k)
  BY <1>1, <1>2, <1>3, ModuleFacts
     DEF Took, SentTo, Intact, UserStopped, Count, Unsent, Popped
<1>5. queue[m] \in Seq(AllFrames)
  BY DEF FlowInv, PlaceInv, TypeOK
<1>6. /\ Took(m) = Count(m)
      /\ Intact(m) => Head(queue[m]) = Took(m) + 1
  BY <1>2, <1>3, <1>5 DEF Took, Popped, FlowInv, Flow, QueueOK
<1>7. Took(m) \in Nat /\ SentTo(m) \in Int
  BY <1>3, ModuleFacts
     DEF Took, SentTo, Count, FlowInv, PlaceInv, TypeOK
<1>8. QueueOK'
  <2> SUFFICES ASSUME NEW k \in Looped, Intact(k)
               PROVE  /\ Len(queue'[k]) = SentTo(k)' - Took(k)'
                      /\ \A i \in 1 .. Len(queue'[k]) :
                            queue'[k][i] = Took(k)' + i
    BY <1>4 DEF QueueOK
  <2>1. CASE k = m
    <3>1. /\ Len(queue[m]) = SentTo(m) - Took(m)
          /\ \A i \in 1 .. Len(queue[m]) : queue[m][i] = Took(m) + i
      BY <2>1 DEF FlowInv, Flow, QueueOK
    <3>2. /\ Len(queue'[m]) = Len(queue[m]) - 1
          /\ \A i \in 1 .. Len(queue'[m]) : queue'[m][i] = queue[m][i + 1]
      <4>1. /\ Len(Tail(queue[m])) = Len(queue[m]) - 1
            /\ \A i \in 1 .. Len(Tail(queue[m])) :
                   Tail(queue[m])[i] = queue[m][i + 1]
        BY <1>2, <1>5, TailFacts
      <4> QED BY <1>2, <4>1
    <3>3. Len(queue[m]) \in Nat
      BY <1>5
    <3>4. Took(m)' = Took(m) + 1 /\ SentTo(m)' = SentTo(m)
      BY <1>4
    <3>5. \A i \in 1 .. Len(queue'[m]) : queue'[m][i] = Took(m) + 1 + i
      <4> SUFFICES ASSUME NEW i \in 1 .. Len(queue'[m])
                   PROVE  queue'[m][i] = Took(m) + 1 + i
        OBVIOUS
      <4>1. i + 1 \in 1 .. Len(queue[m]) /\ i \in Int
        BY <3>2, <3>3
      <4>2. queue'[m][i] = Took(m) + (i + 1)
        BY <3>1, <3>2, <4>1
      <4> QED BY <4>1, <4>2, <1>7
    <3>6. Len(queue'[m]) = SentTo(m) - (Took(m) + 1)
      BY <3>1, <3>2, <1>7
    <3> QED BY <2>1, <3>4, <3>5, <3>6
  <2>2. CASE k # m
    BY <2>2, <1>2, <1>4 DEF FlowInv, Flow, QueueOK
  <2> QED BY <2>1, <2>2
<1>9. InOrder'
  BY <1>2 DEF FlowInv, Flow, InOrder
<1>10. HandOK'
  BY ZenonT(30), <1>1, <1>2, <1>3, <1>4, <1>6, ModuleFacts
     DEF FlowInv, Flow, HandOK, Count, Unsent, Sent, Popped
<1>11. AheadOK'
  BY ZenonT(30), <1>1, <1>2, <1>3, <1>4, ModuleFacts DEF FlowInv, Flow, AheadOK, Count
<1>12. EosOrder'
  BY <1>1, <1>2, <1>3, ModuleFacts DEF FlowInv, Flow, EosOrder, Count, Unsent
<1> QED BY <1>8, <1>9, <1>10, <1>11, <1>12 DEF Flow

LEMMA FlowRecheck ==
    ASSUME NEW m \in Looped, FlowInv, DrainedBeforeStop, StopOK, Recheck(m)
    PROVE  Flow'
<1>1. \A k \in Modules : k # m => pc'[k] = pc[k]
  BY DEF Recheck, Step, FlowInv, PlaceInv, TypeOK
<1>2. /\ pc[m] = "recheck"
      /\ pc'[m] = IF stop[m] THEN "exit" ELSE "process"
      /\ UNCHANGED <<queue, stop, sp, frame, processed>>
  BY ModuleFacts DEF Recheck, Step, connVars, stopVars, FlowInv, PlaceInv, TypeOK
<1>3. m # 1 /\ m \in Modules
  BY ModuleFacts DEF Looped
<1>4. stop[m] => UserStopped
  BY <1>2, NothingLeft DEF Popped
<1>5. \A k \in Looped : /\ Intact(k) => Took(k)' = Took(k)
                        /\ SentTo(k)' = SentTo(k)
                        /\ Intact(k)' = Intact(k)
  BY <1>1, <1>2, <1>3, <1>4, ModuleFacts
     DEF Took, SentTo, Intact, UserStopped, Count, Unsent, Popped
<1>6. InOrder' /\ QueueOK'
  BY <1>2, <1>5 DEF FlowInv, Flow, InOrder, QueueOK
<1>7. HandOK'
  BY <1>1, <1>2, <1>3, <1>5, ModuleFacts
     DEF FlowInv, Flow, HandOK, Intact, Count, Unsent, Sent, Popped
<1>8. AheadOK'
  <2>1. ~stop[m] => Count(m) + 1 <= SentTo(m)
    <3> SUFFICES ASSUME ~stop[m] PROVE Count(m) + 1 <= SentTo(m)
      OBVIOUS
    <3>1. Len(queue[m]) = SentTo(m) - (Count(m) + 1) /\ Len(queue[m]) \in Nat
      BY <1>2 DEF FlowInv, PlaceInv, TypeOK, Flow, QueueOK, Intact, Took, Popped
    <3>2. SentTo(m) \in Int /\ Count(m) \in Int
      BY <1>3, ModuleFacts DEF SentTo, Count, FlowInv, PlaceInv, TypeOK
    <3> QED BY <3>1, <3>2
  <2> QED BY <1>1, <1>2, <1>3, <1>5, <2>1, ModuleFacts
          DEF FlowInv, Flow, AheadOK, Count
<1>9. EosOrder'
  BY <1>1, <1>2, <1>3, ModuleFacts DEF FlowInv, Flow, EosOrder, Count, Unsent
<1> QED BY <1>6, <1>7, <1>8, <1>9 DEF Flow

LEMMA FlowProcess ==
    ASSUME NEW m \in Modules, FlowInv, Process(m) PROVE Flow'
<1> DEFINE l == IF frame[m] = Eos THEN "rmLoad" ELSE Transmit(m)
<1>1. \A k \in Modules : k # m =>
          /\ pc'[k] = pc[k]
          /\ processed'[k] = processed[k]
          /\ Count(k)' = Count(k)
  BY DEF Process, Step, FlowInv, PlaceInv, TypeOK, Count
<1>2. /\ pc[m] = "process" /\ pc'[m] = l
      /\ processed'[m] = Append(processed[m], frame[m])
      /\ UNCHANGED <<queue, stop, sp, frame>>
  BY DEF Process, Step, connVars, stopVars, FlowInv, PlaceInv, TypeOK
<1>3. /\ processed[m] \in Seq(AllFrames)
      /\ frame[m] \in AllFrames
  BY DEF FlowInv, PlaceInv, TypeOK
<1>4. /\ frame[m] = Count(m) + 1
      /\ Count(m) \in Nat
      /\ Count(m)' = Count(m) + 1
      /\ Count(m)' <= Eos
  BY <1>2, <1>3, FrameFacts, AppendFacts DEF FlowInv, Flow, HandOK, Count
<1>5. l \in {"rmLoad", "push", "loop"} /\ (l = "loop" => m = N)
  BY DEF Transmit
<1>6. \A k \in Looped : /\ Took(k)' = Took(k)
                        /\ SentTo(k)' = SentTo(k)
                        /\ Intact(k)' = Intact(k)
  <2> SUFFICES ASSUME NEW k \in Looped
               PROVE  /\ Took(k)' = Took(k)
                      /\ SentTo(k)' = SentTo(k)
    BY <1>2 DEF Intact, UserStopped
  <2>1. k \in Modules /\ k - 1 \in Modules /\ k - 1 # N
    BY ModuleFacts DEF Looped
  <2>2. Took(k)' = Took(k)
    BY <1>1, <1>2, <1>4, <1>5, <2>1 DEF Took, Popped
  <2>3. SentTo(k)' = SentTo(k)
    BY SMTT(30), <1>1, <1>2, <1>4, <1>5, <2>1 DEF SentTo, Unsent
  <2> QED BY <2>2, <2>3
<1>7. InOrder'
  <2> SUFFICES ASSUME NEW k \in Modules, NEW i \in 1 .. Len(processed'[k])
               PROVE  processed'[k][i] = i
    BY DEF InOrder
  <2>1. CASE k # m
    BY <1>1, <2>1 DEF FlowInv, Flow, InOrder
  <2>2. CASE k = m
    <3>1. \A j \in 1 .. Len(processed[m]) : processed[m][j] = j
      BY DEF FlowInv, Flow, InOrder
    <3>2. i \in 1 .. Len(processed[m]) \/ i = Len(processed[m]) + 1
      BY <1>2, <1>4, <2>2 DEF Count
    <3> QED BY SMTT(30), <1>2, <1>3, <1>4, <2>2, <3>1, <3>2, AppendFacts DEF Count
  <2> QED BY <2>1, <2>2
<1>8. HandOK'
  <2>1. pc'[m] \notin Popped \union {"process"}
    BY <1>2, <1>5 DEF Popped
  <2>2. frame'[m] = Count(m)'
    BY <1>2, <1>4
  <2>3. \A k \in Modules : k # m => /\ pc'[k] = pc[k]
                                   /\ frame'[k] = frame[k]
                                   /\ Count(k)' = Count(k)
    BY <1>1, <1>2
  <2>4. \A k \in Modules : pc'[k] = "process" => frame'[k] = Count(k)' + 1
    BY <2>1, <2>3 DEF FlowInv, Flow, HandOK
  <2>5. \A k \in Modules : pc'[k] \in Unsent \union Sent => frame'[k] = Count(k)'
    BY <2>2, <2>3 DEF FlowInv, Flow, HandOK
  <2>6. \A k \in Looped : pc'[k] \in Popped /\ Intact(k)'
                              => frame'[k] = Count(k)' + 1
    BY <1>6, <2>1, <2>3, ModuleFacts DEF FlowInv, Flow, HandOK
  <2>7. pc'[1] # "process" => frame'[1] = Count(1)'
    BY <2>2, <2>3, ModuleFacts DEF FlowInv, Flow, HandOK
  <2>8. \A k \in Modules : Count(k)' <= Eos
    BY <1>4, <2>3 DEF FlowInv, Flow, HandOK
  <2> QED BY <2>4, <2>5, <2>6, <2>7, <2>8 DEF HandOK
<1>9. QueueOK'
  BY <1>2, <1>6 DEF FlowInv, Flow, QueueOK
<1>10. AheadOK'
  <2>1. m \in Looped => Count(m) + 1 <= SentTo(m)
    BY <1>2 DEF FlowInv, Flow, AheadOK
  <2> SUFFICES ASSUME NEW k \in Looped
               PROVE  Count(k)' + (IF pc'[k] = "process" THEN 1 ELSE 0)
                          <= SentTo(k)'
    BY DEF AheadOK
  <2>2. CASE k = m
    BY <1>2, <1>4, <1>5, <1>6, <2>1, <2>2
  <2>3. CASE k # m
    BY <1>1, <1>6, <2>3, ModuleFacts DEF FlowInv, Flow, AheadOK
  <2> QED BY <2>2, <2>3
<1>11. EosOrder'
  <2> SUFFICES ASSUME NEW k \in Modules, NEW n \in Modules, n < k,
                      Count(k)' = Eos
               PROVE  Count(n)' = Eos /\ pc'[n] \notin Unsent
    BY DEF EosOrder
  <2>1. CASE k = m
    <3>1. m \in Looped /\ m - 1 \in Modules
      BY <2>1, ModuleFacts DEF Modules
    <3>2. Eos <= SentTo(m)
      BY <1>2, <1>4, <2>1, <3>1 DEF FlowInv, Flow, AheadOK
    <3>3. Count(m - 1) = Eos /\ pc[m - 1] \notin Unsent
      <4>1. Count(m - 1) <= Eos /\ Count(m - 1) \in Nat /\ Eos \in Nat
        BY <3>1, FrameFacts
           DEF FlowInv, Flow, HandOK, Count, PlaceInv, TypeOK
      <4> QED BY <3>2, <4>1 DEF SentTo
    <3>4. CASE n = m - 1
      BY <1>1, <3>3, <3>4, ModuleFacts
    <3>5. CASE n # m - 1
      <4>1. n < m - 1 /\ n # m
        BY <2>1, <3>1, <3>5, ModuleFacts
      <4> QED BY <1>1, <3>1, <3>3, <4>1 DEF FlowInv, Flow, EosOrder
    <3> QED BY <3>4, <3>5
  <2>2. CASE k # m
    <3>1. Count(k) = Eos
      BY <1>1, <2>2
    <3>2. Count(n) = Eos /\ pc[n] \notin Unsent
      BY <3>1 DEF FlowInv, Flow, EosOrder
    <3>3. n # m
      BY <1>4, <3>2, FrameFacts
    <3> QED BY <1>1, <3>2, <3>3
  <2> QED BY <2>1, <2>2
<1> QED BY <1>7, <1>8, <1>9, <1>10, <1>11 DEF Flow

LEMMA FlowPushRefused ==
    ASSUME NEW m \in Modules, m + 1 \in Looped, FlowInv, DrainedBeforeStop,
           StopOK, PushRefused(m)
    PROVE  Flow'
<1>1. CASE ~stop[m + 1]
  <2>1. /\ pc[m] = "refused"
        /\ pc' = [pc EXCEPT ![m] = "push"]
        /\ UNCHANGED <<queue, stop, sp, frame, processed>>
    BY <1>1 DEF PushRefused, Step, connVars, stopVars
  <2> QED BY <2>1, QuietStep DEF Labels, Popped, Unsent, Sent
<1>2. CASE stop[m + 1]
  <2>1. \A k \in Modules : k # m => pc'[k] = pc[k]
    BY DEF PushRefused, Step, FlowInv, PlaceInv, TypeOK
  <2>2. /\ pc[m] = "refused" /\ pc'[m] = "loop"
        /\ UNCHANGED <<queue, stop, sp, frame, processed>>
    BY <1>2 DEF PushRefused, Step, connVars, stopVars, FlowInv, PlaceInv, TypeOK
  <2>3. UserStopped /\ ~Intact(m + 1)
    <3>1. (m + 1) - 1 = m
      BY ModuleFacts
    <3> QED BY <1>2, <2>2, <3>1, NothingLeft DEF Unsent, Intact
  <2>4. \A k \in Looped : /\ Took(k)' = Took(k)
                          /\ Intact(k)' = Intact(k)
                          /\ k # m + 1 => SentTo(k)' = SentTo(k)
                          /\ k = m + 1 => SentTo(k) <= SentTo(k)'
    <3> SUFFICES ASSUME NEW k \in Looped
                 PROVE  /\ Took(k)' = Took(k)
                        /\ k # m + 1 => SentTo(k)' = SentTo(k)
                        /\ k = m + 1 => SentTo(k) <= SentTo(k)'
      BY <2>2 DEF Intact, UserStopped
    <3>1. k \in Modules /\ k - 1 \in Modules /\ (k - 1 = m <=> k = m + 1)
      BY ModuleFacts DEF Looped
    <3>2. Took(k)' = Took(k)
      BY <2>1, <2>2, <3>1 DEF Took, Popped, Count
    <3>3. Count(m) \in Nat
      BY DEF Count, FlowInv, PlaceInv, TypeOK
    <3> QED BY <2>1, <2>2, <3>1, <3>2, <3>3 DEF SentTo, Unsent, Count
  <2>5. InOrder'
    BY <2>2 DEF FlowInv, Flow, InOrder
  <2>6. HandOK'
    BY <2>1, <2>2, <2>4, ModuleFacts
       DEF FlowInv, Flow, HandOK, Count, Unsent, Sent, Popped
  <2>7. QueueOK'
    BY <2>2, <2>3, <2>4 DEF FlowInv, Flow, QueueOK
  <2>8. AheadOK'
    <3> SUFFICES ASSUME NEW k \in Looped
                 PROVE  Count(k)' + (IF pc'[k] = "process" THEN 1 ELSE 0)
                            <= SentTo(k)'
      BY DEF AheadOK
    <3>1. k \in Modules /\ k - 1 \in Modules
      BY ModuleFacts
    <3>2. Count(k) + (IF pc[k] = "process" THEN 1 ELSE 0) <= SentTo(k)
      BY DEF FlowInv, Flow, AheadOK
    <3>3. /\ Count(k)' = Count(k)
          /\ pc'[k] = "process" <=> pc[k] = "process"
      BY <2>1, <2>2, <3>1 DEF Count
    <3>4. Count(k) \in Int /\ SentTo(k) \in Int /\ SentTo(k)' \in Int
      BY <2>2, <3>1 DEF SentTo, Count, FlowInv, PlaceInv, TypeOK
    <3> QED BY <2>4, <3>2, <3>3, <3>4
  <2>9. EosOrder'
    BY <2>1, <2>2, ModuleFacts DEF FlowInv, Flow, EosOrder, Count, Unsent
  <2> QED BY <2>5, <2>6, <2>7, <2>8, <2>9 DEF Flow
<1> QED BY <1>1, <1>2

LEMMA FlowPushEnqueue ==
    ASSUME NEW m \in Modules, m + 1 \in Looped, FlowInv, PushEnqueue(m)
    PROVE  Flow'
<1>1. \A k \in Modules : k # m => pc'[k] = pc[k]
  BY DEF PushEnqueue, Step, FlowInv, PlaceInv, TypeOK
<1>2. /\ pc[m] = "enqueue" /\ pc'[m] = "incLoad"
      /\ queue'[m + 1] = Append(queue[m + 1], frame[m])
      /\ \A k \in Looped : k # m + 1 => queue'[k] = queue[k]
      /\ UNCHANGED <<stop, sp, frame, processed>>
  BY DEF PushEnqueue, Enqueue, Step, stopVars, FlowInv, PlaceInv, TypeOK
<1>3. /\ queue[m + 1] \in Seq(AllFrames)
      /\ frame[m] \in AllFrames
      /\ frame[m] = Count(m)
      /\ Count(m) \in Nat
  BY <1>2 DEF FlowInv, PlaceInv, TypeOK, Flow, HandOK, Unsent, Count
<1>4. \A k \in Looped :
          /\ Took(k)' = Took(k)
          /\ Intact(k)' = Intact(k)
          /\ k # m + 1 => SentTo(k)' = SentTo(k)
          /\ k = m + 1 => SentTo(k) = Count(m) - 1 /\ SentTo(k)' = Count(m)
  <2> SUFFICES ASSUME NEW k \in Looped
               PROVE  /\ Took(k)' = Took(k)
                      /\ k # m + 1 => SentTo(k)' = SentTo(k)
                      /\ k = m + 1 => /\ SentTo(k) = Count(m) - 1
                                      /\ SentTo(k)' = Count(m)
    BY <1>2 DEF Intact, UserStopped
  <2>1. k \in Modules /\ k - 1 \in Modules /\ (k - 1 = m <=> k = m + 1)
    BY ModuleFacts DEF Looped
  <2>2. Took(k)' = Took(k)
    BY <1>1, <1>2, <2>1 DEF Took, Popped, Count
  <2> QED BY <1>1, <1>2, <2>1, <2>2 DEF SentTo, Unsent, Count
<1>5. InOrder'
  BY <1>2 DEF FlowInv, Flow, InOrder
<1>6. HandOK'
  BY <1>1, <1>2, <1>4, ModuleFacts
     DEF FlowInv, Flow, HandOK, Count, Unsent, Sent, Popped
<1>7. QueueOK'
  <2> SUFFICES ASSUME NEW k \in Looped, Intact(k)
               PROVE  /\ Len(queue'[k]) = SentTo(k)' - Took(k)'
                      /\ \A i \in 1 .. Len(queue'[k]) :
                            queue'[k][i] = Took(k)' + i
    BY <1>4 DEF QueueOK
  <2>1. /\ Len(queue[k]) = SentTo(k) - Took(k)
        /\ \A i \in 1 .. Len(queue[k]) : queue[k][i] = Took(k) + i
    BY DEF FlowInv, Flow, QueueOK
  <2>2. CASE k = m + 1
    <3>1. /\ Len(queue'[k]) = Len(queue[k]) + 1
          /\ \A i \in 1 .. Len(queue[k]) : queue'[k][i] = queue[k][i]
          /\ queue'[k][Len(queue[k]) + 1] = Count(m)
      BY <1>2, <1>3, <2>2, AppendFacts
    <3>2. Took(k) \in Nat /\ Len(queue[k]) \in Nat
      BY <1>3, <2>2, ModuleFacts DEF Took, Count, FlowInv, PlaceInv, TypeOK
    <3>3. /\ SentTo(k) = Count(m) - 1 /\ SentTo(k)' = Count(m)
          /\ Took(k)' = Took(k)
      BY <1>4, <2>2
    <3>4. Len(queue'[k]) = SentTo(k)' - Took(k)'
      BY <1>3, <2>1, <3>1, <3>2, <3>3
    <3>5. ASSUME NEW i \in 1 .. Len(queue'[k])
          PROVE  queue'[k][i] = Took(k)' + i
      <4>1. i \in 1 .. Len(queue[k]) \/ i = Len(queue[k]) + 1
        BY <3>1, <3>2
      <4>2. Len(queue[k]) + 1 = Count(m) - Took(k)
        BY <1>3, <2>1, <3>2, <3>3
      <4> QED BY <1>3, <2>1, <3>1, <3>2, <3>3, <4>1, <4>2
    <3> QED BY <3>4, <3>5
  <2>3. CASE k # m + 1
    BY <1>2, <1>4, <2>1, <2>3
  <2> QED BY <2>2, <2>3
<1>8. AheadOK'
  <2> SUFFICES ASSUME NEW k \in Looped
               PROVE  Count(k)' + (IF pc'[k] = "process" THEN 1 ELSE 0)
                          <= SentTo(k)'
    BY DEF AheadOK
  <2>1. k \in Modules
    BY ModuleFacts
  <2>2. Count(k) + (IF pc[k] = "process" THEN 1 ELSE 0) <= SentTo(k)
    BY DEF FlowInv, Flow, AheadOK
  <2>3. /\ Count(k)' = Count(k)
        /\ pc'[k] = "process" <=> pc[k] = "process"
    BY <1>1, <1>2, <2>1 DEF Count
  <2>4. Count(k) \in Nat
    BY <2>1 DEF Count, FlowInv, PlaceInv, TypeOK
  <2> QED BY <1>3, <1>4, <2>2, <2>3, <2>4
<1>9. EosOrder'
  BY <1>1, <1>2, ModuleFacts DEF FlowInv, Flow, EosOrder, Count, Unsent
<1> QED BY <1>5, <1>6, <1>7, <1>8, <1>9 DEF Flow

LEMMA FlowStop ==
    ASSUME NEW s \in Stoppers, FlowInv, DrainedBeforeStop, StopOK,
           StopCall(s) \/ StopStep(s)
    PROVE  Flow'
<1>1. UNCHANGED <<pc, frame, processed>>
  BY StopFrame DEF moduleVars
<1>2. /\ \A k \in Looped : Took(k)' = Took(k) /\ SentTo(k)' = SentTo(k)
      /\ \A k \in Modules : Count(k)' = Count(k)
  BY <1>1 DEF Took, SentTo, Count
<1>3. \A k \in Looped : Intact(k)' => Intact(k)
  <2>1. ASSUME NEW k \in Looped, stop[k] PROVE stop'[k]
    BY <2>1 DEF StopCall, StopStep, StopConnector, SetStop, EmptyQueuePop,
                EmptyQueueDone, StopJoin, StopDone, connVars, FlowInv,
                PlaceInv, TypeOK
  <2>2. UserStopped => UserStopped'
    BY DEF StopCall, StopStep, StopConnector, EmptyQueuePop, EmptyQueueDone,
           StopJoin, StopDone, StopGoto, stopVars, UserStopped, Stoppers,
           FlowInv, PlaceInv, TypeOK
  <2> QED BY <2>1, <2>2 DEF Intact
<1>4. QueueOK'
  <2>1. ASSUME NEW c \in Looped, StopConnector(s, c) PROVE QueueOK'
    <3>1. UNCHANGED queue
      BY <2>1 DEF StopConnector
    <3> QED BY <1>2, <1>3, <3>1 DEF FlowInv, Flow, QueueOK
  <2>2. CASE EmptyQueuePop(s)
    <3>1. /\ cur[s] \in Looped /\ stop[cur[s]]
          /\ queue[cur[s]] # << >>
          /\ UNCHANGED stop
          /\ \A k \in Looped : k # cur[s] => queue'[k] = queue[k]
      BY <2>2 DEF EmptyQueuePop, Dequeue, StopOK, FlowInv, PlaceInv, TypeOK
    <3>2. ~Intact(cur[s])
      BY <3>1, NothingLeft DEF Intact
    <3> QED BY <1>2, <1>3, <3>1, <3>2 DEF FlowInv, Flow, QueueOK
  <2>3. CASE UNCHANGED queue
    BY <1>2, <1>3, <2>3 DEF FlowInv, Flow, QueueOK
  <2> QED BY <2>1, <2>2, <2>3
          DEF StopCall, StopStep, EmptyQueueDone, StopJoin, StopDone, connVars
<1>5. InOrder'
  BY <1>1 DEF FlowInv, Flow, InOrder
<1>6. HandOK'
  <2>1. \A k \in Looped : pc[k] \in Popped /\ Intact(k)' => frame[k] = Count(k) + 1
    BY <1>3 DEF FlowInv, Flow, HandOK
  <2> QED BY <1>1, <2>1 DEF FlowInv, Flow, HandOK, Count
<1>7. AheadOK'
  BY <1>1, <1>2, ModuleFacts DEF FlowInv, Flow, AheadOK
<1>8. EosOrder'
  BY <1>1, <1>2 DEF FlowInv, Flow, EosOrder
<1> QED BY <1>4, <1>5, <1>6, <1>7, <1>8 DEF Flow

\* Every step of a thread keeps the flow.
LEMMA FlowThread ==
    ASSUME NEW m \in Modules, FlowInv, DrainedBeforeStop, StopOK, Thread(m)
    PROVE  Flow'
<1>1. CASE Process(m)
  BY <1>1, FlowProcess
<1>2. CASE RightMoveLoad(m)
  BY <1>2, QuietStep
     DEF RightMoveLoad, Step, connVars, stopVars, Labels, Popped, Unsent, Sent
<1>3. CASE RightMoveStore(m)
  BY <1>3, QuietStep
     DEF RightMoveStore, Step, connVars, stopVars, Labels, Popped, Unsent, Sent
<1>4. CASE RightMoveTest(m)
  BY <1>4, QuietStep
     DEF RightMoveTest, Transmit, Step, connVars, stopVars, Labels, Popped, Unsent, Sent
<1>5. CASE TransmitStep(m)
  <2>1. m + 1 \in Looped
    BY <1>5, ModuleFacts
       DEF FlowInv, PlaceInv, PlaceOK, TransmitStep, PushCheck, PushRefused,
           PushEnqueue, PushLoad, PushStore, Step, Sent
  <2>2. CASE PushCheck(m)
    BY <2>2, QuietStep
       DEF PushCheck, Step, connVars, stopVars, Labels, Popped, Unsent, Sent
  <2>3. CASE PushRefused(m)
    BY <2>1, <2>3, FlowPushRefused
  <2>4. CASE PushEnqueue(m)
    BY <2>1, <2>4, FlowPushEnqueue
  <2>5. CASE PushLoad(m)
    BY <2>5, QuietStep
       DEF PushLoad, Step, connVars, stopVars, Labels, Popped, Unsent, Sent
  <2>6. CASE PushStore(m)
    BY <2>6, QuietStep
       DEF PushStore, Step, stopVars, Labels, Popped, Unsent, Sent
  <2> QED BY <1>5, <2>2, <2>3, <2>4, <2>5, <2>6 DEF TransmitStep
<1> QED BY <1>1, <1>2, <1>3, <1>4, <1>5 DEF Thread, ProcessStep

LEMMA FlowSource == FlowInv /\ SourceStep => Flow'
<1> SUFFICES ASSUME FlowInv, SourceStep PROVE Flow'
  OBVIOUS
<1>1. CASE SourceNext
  BY <1>1, FlowSourceNext
<1>2. CASE SourceDone
  BY <1>2, QuietStep, ModuleFacts
     DEF SourceDone, Step, connVars, stopVars, Labels, Popped, Unsent, Sent
<1>3. CASE MainExit
  BY <1>3, QuietStep, ModuleFacts
     DEF MainExit, Step, connVars, stopVars, Labels, Popped, Unsent, Sent
<1> QED BY <1>1, <1>2, <1>3 DEF SourceStep

LEMMA FlowTask ==
    ASSUME NEW m \in Looped, FlowInv, DrainedBeforeStop, StopOK, TaskStep(m)
    PROVE  Flow'
<1>1. m \in Modules
  BY ModuleFacts
<1>2. CASE LoopTest(m)
  BY <1>1, <1>2, QuietStep
     DEF LoopTest, Step, connVars, stopVars, Labels, Popped, Unsent, Sent
<1>3. CASE GetPop(m)
  BY <1>3, FlowGetPop
<1>4. CASE GetTimeout(m)
  BY <1>1, <1>4, QuietStep
     DEF GetTimeout, Step, connVars, stopVars, Labels, Popped, Unsent, Sent
<1>5. CASE GetLoad(m)
  BY <1>1, <1>5, QuietStep
     DEF GetLoad, Step, connVars, stopVars, Labels, Popped, Unsent, Sent
<1>6. CASE GetStore(m)
  BY <1>1, <1>6, QuietStep
     DEF GetStore, Step, stopVars, Labels, Popped, Unsent, Sent
<1>7. CASE Recheck(m)
  BY <1>7, FlowRecheck
<1> QED BY <1>2, <1>3, <1>4, <1>5, <1>6, <1>7 DEF TaskStep

-----------------------------------------------------------------------------
(* The count of the modules that are through, and the stop.                *)

\* The end of the stream is in one place: no two threads are in RightMove.
LEMMA Exclusive == FlowInv => RightMoveExclusive
<1> SUFFICES ASSUME FlowInv, NEW m \in Modules, NEW n \in Modules,
                    InRightMove(m), InRightMove(n), n < m
             PROVE  FALSE
  BY ModuleFacts DEF RightMoveExclusive
<1>1. frame[m] = Eos /\ frame[m] = Count(m)
  BY DEF FlowInv, PlaceInv, PlaceOK, Flow, HandOK, InRightMove, Unsent
<1> QED BY <1>1 DEF FlowInv, Flow, EosOrder, InRightMove, Unsent

\* A step outside RightMove that processes nothing leaves run_id right.
LEMMA RunIdQuiet ==
    ASSUME FlowInv, RunIdOK, NEW m \in Modules, NEW l \in Labels,
           pc' = [pc EXCEPT ![m] = l],
           UNCHANGED <<processed, run_id, rid>>,
           pc[m] \notin {"rmLoad", "rmStore"}, l \notin {"rmLoad", "rmStore"}
    PROVE  RunIdOK'
<1>1. \A k \in Modules : pc'[k] = IF k = m THEN l ELSE pc[k]
  BY DEF FlowInv, PlaceInv, TypeOK
<1>2. \A k \in Modules : Moved(k)' <=> Moved(k)
  BY <1>1 DEF Moved, Count
<1> QED BY <1>1, <1>2 DEF RunIdOK

LEMMA RunIdProcess ==
    ASSUME NEW m \in Modules, FlowInv, RunIdOK, Process(m) PROVE RunIdOK'
<1>1. /\ \A k \in Modules : k # m => /\ pc'[k] = pc[k]
                                     /\ processed'[k] = processed[k]
      /\ pc[m] = "process"
      /\ pc'[m] = IF frame[m] = Eos THEN "rmLoad" ELSE Transmit(m)
      /\ processed'[m] = Append(processed[m], frame[m])
      /\ UNCHANGED <<run_id, rid>>
  BY DEF Process, Step, runVars, FlowInv, PlaceInv, TypeOK
<1>2. /\ frame[m] = Count(m) + 1
      /\ Count(m) \in Nat
      /\ Count(m)' = Count(m) + 1
      /\ Count(m) < Eos
  BY <1>1, FrameFacts, AppendFacts
     DEF FlowInv, PlaceInv, TypeOK, Flow, HandOK, Count
<1>3. ~Moved(m) /\ ~Moved(m)'
  BY <1>1, <1>2 DEF Moved
<1>4. \A k \in Modules : Moved(k)' <=> Moved(k)
  BY <1>1, <1>3 DEF Moved, Count
<1>5. pc'[m] # "rmStore"
  BY <1>1 DEF Transmit
<1> QED BY <1>1, <1>4, <1>5 DEF RunIdOK

LEMMA RunIdLoad ==
    ASSUME NEW m \in Modules, FlowInv, RunIdOK, RightMoveLoad(m) PROVE RunIdOK'
<1>1. /\ \A k \in Modules : k # m => pc'[k] = pc[k] /\ rid'[k] = rid[k]
      /\ pc[m] = "rmLoad" /\ pc'[m] = "rmStore" /\ rid'[m] = run_id
      /\ UNCHANGED <<processed, run_id>>
  BY DEF RightMoveLoad, Step, FlowInv, PlaceInv, TypeOK
<1>2. \A k \in Modules : Moved(k)' <=> Moved(k)
  BY <1>1 DEF Moved, Count
<1> QED BY <1>1, <1>2 DEF RunIdOK

LEMMA RunIdStore ==
    ASSUME NEW m \in Modules, FlowInv, RunIdOK, RightMoveStore(m)
    PROVE  RunIdOK'
<1>1. /\ \A k \in Modules : k # m => pc'[k] = pc[k]
      /\ pc[m] = "rmStore" /\ pc'[m] = "rmTest"
      /\ run_id' = IF rid[m] = 0 THEN 0 ELSE rid[m] - 1
      /\ UNCHANGED processed
      /\ \A k \in Modules : k # m => rid'[k] = rid[k]
  BY DEF RightMoveStore, Step, FlowInv, PlaceInv, TypeOK
<1>2. Count(m) = Eos
  BY <1>1 DEF FlowInv, PlaceInv, PlaceOK, Flow, HandOK, InRightMove, Unsent
<1>3. ~Moved(m) /\ Moved(m)' /\ \A k \in Modules : k # m => (Moved(k)' <=> Moved(k))
  BY <1>1, <1>2 DEF Moved, Count
<1>4. \A k \in Modules : k < m => Moved(k)
  BY <1>2 DEF FlowInv, Flow, EosOrder, Moved, Unsent
<1>5. run_id = N + 2 - m
  <2>1. run_id \in 0 .. (N + 1) /\ m \in 1 .. N /\ N \in Nat
    BY ModuleFacts DEF FlowInv, PlaceInv, TypeOK, Modules
  <2>2. m > N + 1 - run_id
    BY <1>3, <2>1 DEF RunIdOK
  <2>3. m = 1 => run_id <= N + 1
    BY <2>1
  <2>4. m # 1 => m - 1 <= N + 1 - run_id
    <3> SUFFICES ASSUME m # 1 PROVE m - 1 <= N + 1 - run_id
      OBVIOUS
    <3>1. m - 1 \in Modules /\ m - 1 < m
      BY <2>1 DEF Modules
    <3> QED BY <1>4, <3>1 DEF RunIdOK
  <2> QED BY <2>1, <2>2, <2>3, <2>4
<1>6. run_id' = run_id - 1 /\ run_id' >= 1
  <2>1. rid[m] = run_id
    BY <1>1 DEF RunIdOK
  <2>2. m \in 1 .. N /\ N \in Nat
    BY ModuleFacts DEF Modules
  <2> QED BY <1>1, <1>5, <2>1, <2>2
<1>7. \A k \in Modules : pc'[k] # "rmStore"
  BY <1>1, Exclusive DEF RightMoveExclusive, InRightMove
<1>8. ASSUME NEW k \in Modules PROVE Moved(k)' <=> k <= N + 1 - run_id'
  <2>1. k \in Int /\ m \in Int /\ N \in Int
    BY ModuleFacts
  <2>2. CASE k = m
    BY <1>3, <1>5, <1>6, <2>1, <2>2
  <2>3. CASE k # m
    <3>1. Moved(k) <=> k <= N + 1 - run_id
      BY DEF RunIdOK
    <3> QED BY <1>3, <1>5, <1>6, <2>1, <2>3, <3>1
  <2> QED BY <2>2, <2>3
<1> QED BY <1>6, <1>7, <1>8 DEF RunIdOK

\* The flag is raised by the last module that is through.
LEMMA DrainedTest ==
    ASSUME NEW m \in Modules, FlowInv, RunIdOK, DrainedBeforeStop,
           RightMoveTest(m)
    PROVE  DrainedBeforeStop'
<1>1. UNCHANGED processed /\ stop_pipeline' = (stop_pipeline \/ run_id = 1)
  BY DEF RightMoveTest
<1>2. run_id = 1 => \A k \in Modules : Len(processed[k]) = Eos
  BY ModuleFacts DEF RunIdOK, Moved, Count, Modules
<1> QED BY <1>1, <1>2 DEF DrainedBeforeStop

\* What the steps of the thread of m have in common.
ThreadStep(m) == \/ m = 1 /\ SourceStep
                 \/ m \in Looped /\ TaskStep(m)
                 \/ Thread(m)

LEMMA OneThread ==
    ASSUME TypeOK, NEW m \in Modules, ThreadStep(m)
    PROVE  /\ pc[m] # "exit"
           /\ \A k \in Modules : k # m => pc'[k] = pc[k]
           /\ UNCHANGED <<stop, stopVars>>
           /\ stop_pipeline => stop_pipeline'
<1> USE DEF Step, connVars, runVars, TypeOK
<1>1. CASE SourceStep /\ m = 1
  BY <1>1 DEF SourceStep, SourceNext, SourceDone, MainExit
<1>2. CASE TaskStep(m)
  BY <1>2 DEF TaskStep, LoopTest, GetPop, GetTimeout, GetLoad, GetStore, Recheck
<1>3. CASE ProcessStep(m)
  BY <1>3 DEF ProcessStep, Process, RightMoveLoad, RightMoveStore, RightMoveTest
<1>4. CASE TransmitStep(m)
  BY <1>4 DEF TransmitStep, PushCheck, PushRefused, PushEnqueue, PushLoad,
              PushStore
<1> QED BY <1>1, <1>2, <1>3, <1>4 DEF ThreadStep, Thread

LEMMA RunIdThread ==
    ASSUME NEW m \in Modules, FlowInv, RunIdOK, ThreadStep(m) PROVE RunIdOK'
<1> USE DEF Step, connVars, runVars, Labels
<1>1. CASE SourceStep /\ m = 1
  BY <1>1, RunIdQuiet DEF SourceStep, SourceNext, SourceDone, MainExit
<1>2. CASE TaskStep(m)
  BY <1>2, RunIdQuiet
     DEF TaskStep, LoopTest, GetPop, GetTimeout, GetLoad, GetStore, Recheck
<1>3. CASE Process(m)
  BY <1>3, RunIdProcess
<1>4. CASE RightMoveLoad(m)
  BY <1>4, RunIdLoad
<1>5. CASE RightMoveStore(m)
  BY <1>5, RunIdStore
<1>6. CASE RightMoveTest(m)
  BY <1>6, RunIdQuiet DEF RightMoveTest, Transmit
<1>7. CASE TransmitStep(m)
  BY <1>7, RunIdQuiet
     DEF TransmitStep, PushCheck, PushRefused, PushEnqueue, PushLoad, PushStore
<1> QED BY <1>1, <1>2, <1>3, <1>4, <1>5, <1>6, <1>7
        DEF ThreadStep, Thread, ProcessStep

LEMMA DrainedThread ==
    ASSUME NEW m \in Modules, FlowInv, RunIdOK, DrainedBeforeStop, ThreadStep(m)
    PROVE  DrainedBeforeStop'
<1> USE DEF runVars
<1>1. CASE RightMoveTest(m)
  BY <1>1, DrainedTest
<1>2. CASE Process(m)
  <2>1. ~stop_pipeline
    <3>1. frame[m] = Len(processed[m]) + 1 /\ frame[m] <= Eos
      BY <1>2, FrameFacts
         DEF Process, Step, FlowInv, PlaceInv, TypeOK, Flow, HandOK, Count
    <3> QED BY <3>1, FrameFacts DEF DrainedBeforeStop
  <2> QED BY <1>2, <2>1 DEF Process, DrainedBeforeStop
<1>3. CASE UNCHANGED <<processed, stop_pipeline>>
  BY <1>3 DEF DrainedBeforeStop
<1> QED BY <1>1, <1>2, <1>3
        DEF ThreadStep, Thread, SourceStep, SourceNext, SourceDone, MainExit,
            TaskStep, LoopTest, GetPop, GetTimeout, GetLoad, GetStore, Recheck,
            ProcessStep, RightMoveLoad, RightMoveStore, TransmitStep, PushCheck,
            PushRefused, PushEnqueue, PushLoad, PushStore

\* A step of a thread preserves the whole invariant.
LEMMA InvThread ==
    ASSUME NEW m \in Modules, IInv, PlaceInv', ThreadStep(m) PROVE IInv'
<1> USE DEF IInv
<1>1. FlowInv
  BY DEF FlowInv, PlaceInv, Flow
<1>2. Flow'
  BY <1>1, FlowSource, FlowTask, FlowThread DEF ThreadStep
<1>3. RunIdOK'
  BY <1>1, RunIdThread
<1>4. DrainedBeforeStop'
  BY <1>1, DrainedThread
<1>5. QuietWhenStopped'
  BY OneThread, ModuleFacts DEF QuietWhenStopped, stopVars
<1>6. StopOK'
  BY OneThread DEF StopOK, UserStopped, stopVars
<1> QED BY <1>2, <1>3, <1>4, <1>5, <1>6 DEF PlaceInv, Flow

\* And so does a step of Pipeline::Stop.
LEMMA InvStop ==
    ASSUME NEW s \in Stoppers, IInv, PlaceInv', StopCall(s) \/ StopStep(s)
    PROVE  IInv'
<1> USE DEF IInv
<1>1. UNCHANGED <<moduleVars, runVars>>
  BY StopFrame
<1>2. Flow'
  BY FlowStop DEF FlowInv, PlaceInv, Flow
<1>3. RunIdOK' /\ DrainedBeforeStop'
  BY <1>1 DEF moduleVars, runVars, RunIdOK, DrainedBeforeStop, Moved, Count
<1>4. QuietWhenStopped'
  <2>1. UNCHANGED <<pc, running>> \/ StopDone(s)
    BY DEF StopCall, StopStep, StopConnector, EmptyQueuePop, EmptyQueueDone,
           StopJoin, moduleVars, stopVars
  <2> QED BY <2>1 DEF QuietWhenStopped, StopDone, moduleVars
<1>5. StopOK'
  <2> USE DEF StopOK, UserStopped, TypeOK, StopGoto, connVars, runVars
  <2>1. CASE StopCall(s)
    BY <2>1 DEF StopCall, Stoppers
  <2>2. ASSUME NEW c \in Looped, StopConnector(s, c) PROVE StopOK'
    <3>1. UserStopped \/ stop_pipeline
      BY <2>2 DEF StopConnector, Stoppers
    <3> QED BY <2>2, <3>1 DEF StopConnector, SetStop
  <2>3. CASE EmptyQueuePop(s)
    BY <2>3 DEF EmptyQueuePop, stopVars
  <2>4. CASE EmptyQueueDone(s)
    BY <2>4 DEF EmptyQueueDone
  <2>5. CASE StopJoin(s)
    BY <2>5 DEF StopJoin
  <2>6. CASE StopDone(s)
    BY <2>6 DEF StopDone
  <2> QED BY <2>1, <2>2, <2>3, <2>4, <2>5, <2>6 DEF StopStep
<1> QED BY <1>2, <1>3, <1>4, <1>5 DEF PlaceInv, Flow

LEMMA InvInit == Init => IInv
<1> SUFFICES ASSUME Init PROVE IInv
  OBVIOUS
<1> USE ModuleFacts, FrameFacts DEF Init
<1>1. TypeOK
  BY TypeInit
<1>2. \A m \in Modules : processed[m] = << >> /\ pc[m] = "loop" /\ frame[m] = 0
  OBVIOUS
<1>3. \A m \in Modules : Count(m) = 0
  BY <1>2 DEF Count
<1>4. Eos # 0
  BY PipelineAssumption DEF Eos, PipelineAssumption
<1>5. InOrder /\ DrainedBeforeStop /\ QuietWhenStopped
  BY <1>2 DEF InOrder, DrainedBeforeStop, QuietWhenStopped
<1>6. PlaceOK
  BY <1>2 DEF PlaceOK, InRightMove, Popped, Sent
<1>7. HandOK
  BY <1>2, <1>3 DEF HandOK, Popped, Unsent, Sent
<1>8. \A m \in Looped : Took(m) = 0 /\ SentTo(m) = 0 /\ queue[m] = << >>
  BY <1>2, <1>3 DEF Took, SentTo, Popped, Unsent
<1>9. QueueOK
  BY <1>8 DEF QueueOK
<1>10. AheadOK
  <2>1. \A m \in Looped : Count(m) = 0 /\ pc[m] # "process" /\ SentTo(m) = 0
    BY <1>2, <1>3, <1>8
  <2> QED BY ONLY <2>1 DEF AheadOK
<1>11. EosOrder
  BY <1>3, <1>4 DEF EosOrder
<1>12. RunIdOK
  BY <1>2, <1>3, <1>4 DEF RunIdOK, Moved, Modules
<1>13. StopOK
  BY DEF StopOK, Stoppers
<1> QED BY <1>1, <1>5, <1>6, <1>7, <1>9, <1>10, <1>11, <1>12, <1>13 DEF IInv

LEMMA InvStep == IInv /\ [Next]_vars => IInv'
<1> SUFFICES ASSUME IInv, [Next]_vars PROVE IInv'
  OBVIOUS
<1>1. PlaceInv'
  BY PlaceStep DEF IInv, PlaceInv
<1>2. CASE MainThread
  BY <1>1, <1>2, InvThread, ModuleFacts DEF MainThread, ThreadStep
<1>3. ASSUME NEW m \in Looped, LoopThread(m) PROVE IInv'
  BY <1>1, <1>3, InvThread, ModuleFacts DEF LoopThread, ThreadStep
<1>4. ASSUME NEW s \in Stoppers, StopCall(s) \/ StopStep(s) PROVE IInv'
  BY <1>1, <1>4, InvStop
<1>5. CASE UNCHANGED <<connVars, moduleVars, runVars, running, sp, todo, cur>>
  <2>1. PlaceInv' /\ InOrder' /\ DrainedBeforeStop' /\ QuietWhenStopped'
    BY <1>1, <1>5 DEF connVars, moduleVars, runVars, IInv, InOrder,
                      DrainedBeforeStop, QuietWhenStopped
  <2>2. UNCHANGED <<queue, stop, pc, frame, processed, run_id, rid,
                    stop_pipeline, sp, cur>>
    BY <1>5 DEF connVars, moduleVars, runVars
  <2>3. HandOK' /\ QueueOK' /\ AheadOK' /\ EosOrder'
    BY <2>2 DEF IInv, HandOK, QueueOK, AheadOK, EosOrder, Took, SentTo, Intact,
                UserStopped, Count
  <2>4. RunIdOK' /\ StopOK'
    BY <2>2 DEF IInv, RunIdOK, StopOK, UserStopped, Moved, Count
  <2> QED BY <2>1, <2>3, <2>4 DEF IInv, PlaceInv
<1> QED BY <1>2, <1>3, <1>4, <1>5
        DEF Next, StopAbort, Terminating, vars, connVars, moduleVars, runVars

\* The inductive invariant holds.
THEOREM Invariance == Spec => []IInv
BY InvInit, InvStep, PTL DEF Spec

\* Every module processes the stream in order, for any number of modules, any
\* length of the stream and any capacity, data races on the counts included.
THEOREM InOrderCorrect == Spec => []InOrder
<1>1. IInv => InOrder
  BY DEF IInv
<1> QED BY <1>1, Invariance, PTL

\* stop_pipeline_ is raised only when every module has processed the stream.
THEOREM DrainedCorrect == Spec => []DrainedBeforeStop
<1>1. IInv => DrainedBeforeStop
  BY DEF IInv
<1> QED BY <1>1, Invariance, PTL

\* The unsynchronised RightMove is never executed by two threads at once.
THEOREM RightMoveCorrect == Spec => []RightMoveExclusive
<1>1. IInv => RightMoveExclusive
  BY Exclusive DEF IInv, FlowInv, PlaceInv, Flow
<1> QED BY <1>1, Invariance, PTL

\* After Stop no TaskLoop thread is left.
THEOREM QuietCorrect == Spec => []QuietWhenStopped
<1>1. IInv => QuietWhenStopped
  BY DEF IInv
<1> QED BY <1>1, Invariance, PTL

\* Until another thread calls Stop no step of the pipeline drops a frame.
THEOREM NothingDroppedCorrect == Spec => NothingDropped
<1>1. ASSUME IInv PROVE UserStopped \/ ~Drops
  <2> SUFFICES ASSUME ~UserStopped, Drops PROVE FALSE
    OBVIOUS
  <2>1. FlowInv /\ DrainedBeforeStop /\ StopOK
    BY <1>1 DEF IInv, FlowInv, PlaceInv, Flow
  <2>2. ASSUME NEW s \in Stoppers, EmptyQueuePop(s) PROVE FALSE
    BY <2>1, <2>2, NothingLeft DEF EmptyQueuePop, Dequeue, StopOK
  <2>3. ASSUME NEW m \in Looped, Recheck(m), stop[m] PROVE FALSE
    BY <2>1, <2>3, NothingLeft DEF Recheck, Step, Popped
  <2>4. ASSUME NEW m \in Modules, PushRefused(m), stop[m + 1] PROVE FALSE
    <3>1. m # N
      BY <2>1, <2>4
         DEF PushRefused, Step, FlowInv, PlaceInv, PlaceOK
    <3>2. m + 1 \in Looped /\ (m + 1) - 1 = m
      BY <3>1, ModuleFacts
    <3> QED BY <2>1, <2>4, <3>2, NothingLeft DEF PushRefused, Step, Unsent
  <2> QED BY <2>2, <2>3, <2>4 DEF Drops
<1>2. IInv /\ [Next]_vars => [UserStopped \/ ~Drops]_vars
  BY <1>1
<1> QED BY <1>2, Invariance, PTL DEF Spec, NothingDropped

-----------------------------------------------------------------------------
(* The pipeline implements StreamChain.                                    *)

Done == [m \in Modules |-> Len(processed[m])]

LEMMA StreamStep == IInv /\ [Next]_vars => [Stream!StreamNext]_(Stream!streamVars)
<1> SUFFICES ASSUME IInv, [Next]_vars
             PROVE  [Stream!StreamNext]_(Stream!streamVars)
  OBVIOUS
<1> USE DEF Stream!StreamNext, Stream!streamVars, Stream!Advance,
            Stream!AskEarly, Stream!StopStream
<1>1. ASSUME NEW m \in Modules, Process(m) PROVE Stream!Advance(m)
  <2>1. /\ frame[m] = Count(m) + 1 /\ Count(m) \in Nat
        /\ Count(m) <= F
        /\ processed' = [processed EXCEPT ![m] = Append(@, frame[m])]
        /\ processed[m] \in Seq(AllFrames) /\ frame[m] \in AllFrames
        /\ pc[m] = "process"
        /\ UNCHANGED <<running, UserStopped>>
    BY <1>1, FrameFacts, PipelineAssumption
       DEF Process, Step, stopVars, UserStopped, IInv, TypeOK, HandOK, Count,
           Eos, PipelineAssumption
  <2>2. Done' = [Done EXCEPT ![m] = @ + 1]
    <3>1. Len(processed'[m]) = Len(processed[m]) + 1
      BY <2>1, AppendFacts DEF IInv, TypeOK
    <3> QED BY <2>1, <3>1 DEF Done, IInv, TypeOK
  <2>3. m > 1 => running /\ Count(m) < Count(m - 1)
    <3> SUFFICES ASSUME m > 1 PROVE running /\ Count(m) < Count(m - 1)
      OBVIOUS
    <3>1. m \in Looped /\ m - 1 \in Modules
      BY ModuleFacts
    <3>2. running
      BY <2>1, <3>1 DEF IInv, QuietWhenStopped
    <3>3. Count(m) + 1 <= SentTo(m)
      BY <2>1, <3>1 DEF IInv, AheadOK
    <3>4. Count(m - 1) \in Nat
      BY <3>1 DEF Count, IInv, TypeOK
    <3> QED BY <2>1, <3>2, <3>3, <3>4 DEF SentTo
  <2> QED BY <2>1, <2>2, <2>3, ModuleFacts DEF Done, Count, Modules
<1>2. ASSUME NEW s \in Stoppers, StopDone(s) PROVE Stream!StopStream
  <2>1. UserStopped \/ stop_pipeline
    BY <1>2 DEF StopDone, StopGoto, IInv, StopOK, UserStopped, Stoppers
  <2>2. UserStopped \/ \A m \in Modules : Len(processed[m]) = F + 1
    BY <2>1 DEF IInv, DrainedBeforeStop, Eos
  <2>3. UserStopped' = UserStopped
    BY <1>2 DEF StopDone, StopGoto, UserStopped, IInv, TypeOK
  <2> QED BY <1>2, <2>2, <2>3 DEF StopDone, moduleVars, Modules
<1>3. CASE UNCHANGED <<processed, running>> /\ (UserStopped' = UserStopped)
  BY <1>3
<1>4. CASE UNCHANGED <<processed, running>> /\ UserStopped'
  BY <1>4
<1>5. ASSUME NEW s \in Stoppers, StopCall(s) \/ StopStep(s)
      PROVE  StopDone(s) \/ UNCHANGED <<processed, running>>
  BY <1>5 DEF StopCall, StopStep, StopConnector, EmptyQueuePop, EmptyQueueDone,
              StopJoin, moduleVars, stopVars
<1>6. ASSUME NEW s \in Stoppers, StopCall(s) \/ StopStep(s)
      PROVE  UserStopped' \/ (UserStopped' = UserStopped)
  BY <1>6 DEF StopCall, StopStep, StopConnector, EmptyQueuePop, EmptyQueueDone,
              StopJoin, StopDone, StopGoto, stopVars, UserStopped, Stoppers,
              IInv, TypeOK
<1>7. ASSUME NEW m \in Modules, ThreadStep(m)
      PROVE  \/ Process(m)
             \/ UNCHANGED <<processed, running>> /\ (UserStopped' = UserStopped)
  BY <1>7
     DEF connVars, runVars, stopVars, UserStopped, ThreadStep, Thread,
         SourceStep, SourceNext, SourceDone, MainExit, TaskStep, LoopTest,
         GetPop, GetTimeout, GetLoad, GetStore, Recheck, ProcessStep,
         RightMoveLoad, RightMoveStore, RightMoveTest, TransmitStep, PushCheck,
         PushRefused, PushEnqueue, PushLoad, PushStore
<1>8. CASE StopAbort \/ UNCHANGED vars
  BY <1>3, <1>8 DEF StopAbort, vars, moduleVars, UserStopped
<1>9. ASSUME NEW s \in Stoppers, StopCall(s) \/ StopStep(s)
      PROVE  [Stream!StreamNext]_(Stream!streamVars)
  BY <1>2, <1>3, <1>4, <1>5, <1>6, <1>9
<1>10. ASSUME NEW m \in Modules, ThreadStep(m)
       PROVE  [Stream!StreamNext]_(Stream!streamVars)
  BY <1>1, <1>3, <1>7, <1>10 DEF Modules
<1> QED BY <1>8, <1>9, <1>10, ModuleFacts
        DEF Next, Terminating, MainThread, LoopThread, ThreadStep

\* Every behaviour of the pipeline is one of StreamChain: done[m] is the number
\* of frames module m has processed.
THEOREM ImplementsStream == Spec => StreamSpec
<1>1. Init => Stream!StreamInit
  BY DEF Init, Stream!StreamInit, UserStopped, Stoppers, Modules
<1> QED BY <1>1, StreamStep, Invariance, PTL DEF Spec, StreamSpec, Stream!StreamSpec
=============================================================================
