----------------------------- MODULE Connector ------------------------------
(***************************************************************************)
(* One Connector between the threads that push into it and the TaskLoop    *)
(* thread that pops from it, with a controlling thread that stops, empties *)
(* and starts it again (Pipeline::Stop and Pipeline::Start).  A module     *)
(* with one upstream thread has one producer.  The module behind Inference *)
(* has two: the TaskLoop of Inference, which forwards the end-of-stream    *)
(* frame, and the response task of the inference session, which forwards   *)
(* the data frames.                                                        *)
(***************************************************************************)
EXTENDS ConnectorOps, FiniteSets

CONSTANTS Producers,    \* threads that call Pipeline::TransmitData on it
          FrameCount,   \* number of frames each producer transmits
          MaxRestarts   \* bound on how often the controller restarts it

C == "connector"
Consumer == "consumer"

\* The threads are different ones, and few beside what a size_t can count.
ASSUME ProducersAssumption == /\ IsFiniteSet(Producers)
                              /\ Consumer \notin Producers
                              /\ Capacity + Cardinality(Producers) <= SizeMax
                              /\ FrameCount \in [Producers -> Nat]
                              /\ MaxRestarts \in Nat

Threads == Producers \union {Consumer}

VARIABLES pc,        \* where each thread is
          reg,       \* what each thread loaded of current_size_
          sent,      \* frames each producer has pushed or given up
          hand,      \* the frame TaskLoop has popped and not yet passed on
          received,  \* history: frames passed on to DoProcess, in order
          emptied,   \* history: frames EmptyQueue threw away
          dropped,   \* history: frames given up because of a stop
          ctl,       \* where the controller is
          restarts,  \* how often the controller restarted the connector
          raced      \* history: two updates of current_size_ overlapped

vars == <<queue, current_size, stop, pc, reg, sent, hand, received, emptied,
          dropped, ctl, restarts, raced>>

Frames == UNION {{<<p, i>> : i \in 1 .. FrameCount[p]} : p \in Producers}

Init ==
    /\ queue = [c \in {C} |-> << >>]
    /\ current_size = [c \in {C} |-> 0]
    /\ stop = [c \in {C} |-> FALSE]
    /\ pc = [t \in Threads |-> IF t = Consumer THEN "loop" ELSE "push"]
    /\ reg = [t \in Threads |-> 0]
    /\ sent = [p \in Producers |-> 0]
    /\ hand = << >>
    /\ received = << >>
    /\ emptied = {}
    /\ dropped = {}
    /\ ctl = "run"
    /\ restarts = 0
    /\ raced = FALSE

Goto(t, l) == pc' = [pc EXCEPT ![t] = l]

\* A thread is between the load and the store of an update of current_size_.
Updating(t) == pc[t] \in {"incStore", "decStore"}

\* The load, and a store after which the thread continues at `to'.
LoadSize(t, from, to) ==
    /\ pc[t] = from
    /\ reg' = [reg EXCEPT ![t] = current_size[C]]
    /\ Goto(t, to)
    /\ raced' = (raced \/ \E u \in Threads \ {t} : Updating(u))
    /\ UNCHANGED <<queue, current_size, stop, sent, hand, received, emptied,
                   dropped, ctl, restarts>>

-----------------------------------------------------------------------------
(* A producer: while (!PushData(data) && !IsStop()) sleep;                 *)

Next1(p) == <<p, sent[p] + 1>>

\* The test at the head of PushData.
PushCheck(p) ==
    /\ pc[p] = "push"
    /\ sent[p] < FrameCount[p]
    /\ Goto(p, IF IsFull(C) THEN "refused" ELSE "enqueue")
    /\ UNCHANGED <<queue, current_size, stop, reg, sent, hand, received,
                   emptied, dropped, ctl, restarts, raced>>

\* Mutant of PushRetry: the frame is skipped when the queue is full.
PushRetrySkips(p) ==
    /\ pc[p] = "refused"
    /\ ~stop[C]
    /\ Goto(p, "push")
    /\ sent' = [sent EXCEPT ![p] = @ + 1]
    /\ UNCHANGED <<queue, current_size, stop, reg, hand, received, emptied,
                   dropped, ctl, restarts, raced>>

\* PushData returned false: try again, ...
PushRetry(p) ==
    /\ pc[p] = "refused"
    /\ ~stop[C]
    /\ Goto(p, "push")
    /\ UNCHANGED <<queue, current_size, stop, reg, sent, hand, received,
                   emptied, dropped, ctl, restarts, raced>>

\* ... unless the connector is stopped, which loses the frame.
PushGiveUp(p) ==
    /\ pc[p] = "refused"
    /\ stop[C]
    /\ Goto(p, "push")
    /\ sent' = [sent EXCEPT ![p] = @ + 1]
    /\ dropped' = dropped \union {Next1(p)}
    /\ UNCHANGED <<queue, current_size, stop, reg, hand, received, emptied,
                   ctl, restarts, raced>>

PushEnqueue(p) ==
    /\ pc[p] = "enqueue"
    /\ Enqueue(C, Next1(p))
    /\ sent' = [sent EXCEPT ![p] = @ + 1]
    /\ Goto(p, "incLoad")
    /\ UNCHANGED <<current_size, stop, reg, hand, received, emptied, dropped,
                   ctl, restarts, raced>>

PushLoad(p) == LoadSize(p, "incLoad", "incStore")

PushStore(p) ==
    /\ pc[p] = "incStore"
    /\ StoreInc(C, reg[p])
    /\ Goto(p, "push")
    /\ UNCHANGED <<queue, stop, reg, sent, hand, received, emptied, dropped,
                   ctl, restarts, raced>>

-----------------------------------------------------------------------------
(* The consumer: Pipeline::TaskLoop.                                       *)

\* while (!connector->IsStop() && data == nullptr)
ConsumerLoop ==
    /\ pc[Consumer] = "loop"
    /\ Goto(Consumer, IF stop[C] THEN "exit" ELSE "pop")
    /\ UNCHANGED <<queue, current_size, stop, reg, sent, hand, received,
                   emptied, dropped, ctl, restarts, raced>>

\* In GetData, WaitAndTryPop succeeds ...
GetPop ==
    /\ pc[Consumer] = "pop"
    /\ Dequeue(C)
    /\ hand' = << Head(queue[C]) >>
    /\ Goto(Consumer, "decLoad")
    /\ UNCHANGED <<current_size, stop, reg, sent, received, emptied, dropped,
                   ctl, restarts, raced>>

\* Mutant of GetTimeout: current_size_-- also when nothing was popped.
GetTimeoutCounts ==
    /\ pc[Consumer] = "pop"
    /\ queue[C] = << >>
    /\ Goto(Consumer, "decLoad")
    /\ UNCHANGED <<queue, current_size, stop, reg, sent, hand, received,
                   emptied, dropped, ctl, restarts, raced>>

\* ... or times out after 1 ms.
GetTimeout ==
    /\ pc[Consumer] = "pop"
    /\ queue[C] = << >>
    /\ Goto(Consumer, "loop")
    /\ UNCHANGED <<queue, current_size, stop, reg, sent, hand, received,
                   emptied, dropped, ctl, restarts, raced>>

GetLoad == LoadSize(Consumer, "decLoad", "decStore")

GetStore ==
    /\ pc[Consumer] = "decStore"
    /\ StoreDec(C, reg[Consumer])
    /\ Goto(Consumer, "recheck")
    /\ UNCHANGED <<queue, stop, reg, sent, hand, received, emptied, dropped,
                   ctl, restarts, raced>>

\* if (connector->IsStop()) break; else module_->DoProcess(data);
ConsumerDeliver ==
    /\ pc[Consumer] = "recheck"
    /\ hand' = << >>
    /\ IF stop[C]
       THEN /\ Goto(Consumer, "exit")
            /\ dropped' = dropped \union {hand[1]}
            /\ UNCHANGED received
       ELSE /\ Goto(Consumer, "loop")
            /\ received' = received \o hand
            /\ UNCHANGED dropped
    /\ UNCHANGED <<queue, current_size, stop, reg, sent, emptied, ctl,
                   restarts, raced>>

-----------------------------------------------------------------------------
(* The controller: Connector::Stop, EmptyQueue, the join of the consumer,  *)
(* then Connector::Start and a new consumer.                               *)

CtlStop ==
    /\ ctl = "run"
    /\ restarts < MaxRestarts
    /\ SetStop(C, TRUE)
    /\ ctl' = "empty"
    /\ UNCHANGED <<queue, current_size, pc, reg, sent, hand, received, emptied,
                   dropped, restarts, raced>>

\* One turn of the loop of EmptyQueue, which leaves current_size_ alone.
EmptyQueuePop ==
    /\ ctl = "empty"
    /\ Dequeue(C)
    /\ emptied' = emptied \union {Head(queue[C])}
    /\ UNCHANGED <<current_size, stop, pc, reg, sent, hand, received, dropped,
                   ctl, restarts, raced>>

EmptyQueueDone ==
    /\ ctl = "empty"
    /\ queue[C] = << >>
    /\ ctl' = "join"
    /\ UNCHANGED <<queue, current_size, stop, pc, reg, sent, hand, received,
                   emptied, dropped, restarts, raced>>

CtlRestart ==
    /\ ctl = "join"
    /\ pc[Consumer] = "exit"
    /\ SetStop(C, FALSE)
    /\ Goto(Consumer, "loop")
    /\ ctl' = "run"
    /\ restarts' = restarts + 1
    /\ UNCHANGED <<queue, current_size, reg, sent, hand, received, emptied,
                   dropped, raced>>

-----------------------------------------------------------------------------
ProducerStep(p) == \/ PushCheck(p)
                   \/ PushRetry(p)
                   \/ PushGiveUp(p)
                   \/ PushEnqueue(p)
                   \/ PushLoad(p)
                   \/ PushStore(p)

ConsumerStep == \/ ConsumerLoop
                \/ GetPop
                \/ GetTimeout
                \/ GetLoad
                \/ GetStore
                \/ ConsumerDeliver

CtlFinish == EmptyQueuePop \/ EmptyQueueDone \/ CtlRestart

Next == \/ \E p \in Producers : ProducerStep(p)
        \/ ConsumerStep
        \/ CtlStop
        \/ CtlFinish

\* Every thread is scheduled.  The controller need never decide to stop, but
\* a Stop it has begun runs on.
Fairness == /\ \A p \in Producers : WF_vars(ProducerStep(p))
            /\ WF_vars(ConsumerStep)
            /\ WF_vars(CtlFinish)

Spec == Init /\ [][Next]_vars
FairSpec == Spec /\ Fairness

-----------------------------------------------------------------------------
Labels == {"push", "refused", "enqueue", "incLoad", "incStore",
           "loop", "pop", "decLoad", "decStore", "recheck", "exit"}

TypeOK ==
    /\ queue \in [{C} -> Seq(Frames)]
    /\ current_size \in [{C} -> Sizes]
    /\ stop \in [{C} -> BOOLEAN]
    /\ pc \in [Threads -> Labels]
    /\ reg \in [Threads -> Sizes]
    /\ sent \in [Producers -> Nat]
    /\ \A p \in Producers : sent[p] <= FrameCount[p]
    /\ hand \in Seq(Frames)
    /\ received \in Seq(Frames)
    /\ emptied \subseteq Frames /\ IsFiniteSet(emptied)
    /\ dropped \subseteq Frames
    /\ ctl \in {"run", "empty", "join"}
    /\ restarts \in 0 .. MaxRestarts
    /\ raced \in BOOLEAN

\* The frames that reach or can still reach the module, in their order.
Stream == received \o hand \o queue[C]

\* Frames of one producer stay in the order in which it transmitted them, and
\* none comes twice: the queue, the frame in the hands of TaskLoop and what it
\* has passed on never hold two frames of a producer the wrong way round,
\* however the producers, TaskLoop and a concurrent EmptyQueue interleave.
InOrderPerProducer ==
    \A i, j \in 1 .. Len(Stream) :
        (i < j /\ Stream[i][1] = Stream[j][1]) => Stream[i][2] < Stream[j][2]

\* Every frame a producer has finished with is in exactly one place: passed
\* on, in hand, queued, thrown away by EmptyQueue, or given up on; and as long
\* as nobody has stopped the connector, it is not lost.
InStream(f) == \E i \in 1 .. Len(Stream) : Stream[i] = f
Accounted ==
    \A f \in Frames :
        LET p == f[1]
            i == f[2]
            places == {k \in 1 .. 3 : \/ k = 1 /\ InStream(f)
                                      \/ k = 2 /\ f \in emptied
                                      \/ k = 3 /\ f \in dropped}
        IN  /\ Cardinality(places) = IF i <= sent[p] THEN 1 ELSE 0
            /\ restarts = 0 /\ ctl = "run" => places \subseteq {1}

\* Which thread can be where, and when there is a frame in hand or to push.
PcOK ==
    /\ pc[Consumer] \in {"loop", "pop", "decLoad", "decStore", "recheck", "exit"}
    /\ Len(hand) = IF pc[Consumer] \in {"decLoad", "decStore", "recheck"} THEN 1 ELSE 0
    /\ \A p \in Producers :
          /\ pc[p] \in {"push", "refused", "enqueue", "incLoad", "incStore"}
          /\ pc[p] \in {"refused", "enqueue"} => sent[p] < FrameCount[p]

\* A stop is under way or it is not, and nothing is lost before the first one.
CtlOK == /\ stop[C] <=> ctl # "run"
         /\ ctl # "run" => restarts < MaxRestarts
         /\ restarts = 0 /\ ctl = "run" => emptied = {} /\ dropped = {}

\* As long as no two updates have overlapped, one thread at most is in one, and
\* what it loaded is still the count.
OneUpdate == ~raced => \A t \in Threads : Updating(t) =>
                           /\ reg[t] = current_size[C]
                           /\ \A u \in Threads : Updating(u) => u = t

\* As long as no two updates of current_size_ have overlapped, the count is
\* the number of queued frames, corrected by the updates still to come and by
\* the frames EmptyQueue took without counting them down.  Then, although
\* PushData tests and pushes without a lock, each further producer can push one
\* frame over max_size_ and never more.
PendingInc == Cardinality({p \in Producers : pc[p] \in {"incLoad", "incStore"}})
PendingDec == IF pc[Consumer] \in {"decLoad", "decStore"} THEN 1 ELSE 0
CountExact ==
    ~raced =>
        /\ current_size[C] = (Len(queue[C]) + PendingDec - PendingInc
                              + Cardinality(emptied)) % (SizeMax + 1)
        /\ Len(queue[C]) <= Capacity + Cardinality(Producers) - 1

\* The frames queued, counted out, thrown away or let pass by the test.
Admitted == Cardinality({p \in Producers : pc[p] = "enqueue"})
Bounded == ~raced => Len(queue[C]) + PendingDec + Cardinality(emptied) + Admitted
                     <= Capacity + Cardinality(Producers) - 1

\* The inductive invariant of KernelProofs, but for the properties below.
ConnectorInv == /\ TypeOK /\ PcOK /\ CtlOK
                /\ OneUpdate /\ Bounded /\ Accounted
IInv == ConnectorInv /\ InOrderPerProducer /\ CountExact

\* If no two updates of the count ever overlap and nobody stops the connector,
\* every frame is passed on to the module.
Overlap == \E t, u \in Threads : t # u /\ Updating(t) /\ Updating(u)
AllReceived == \A f \in Frames : \E i \in 1 .. Len(received) : received[i] = f
DeliveredUnlessRaced == ([]~Overlap /\ []~stop[C]) => <>AllReceived
=============================================================================
