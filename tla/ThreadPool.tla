----------------------------- MODULE ThreadPool -----------------------------
(***************************************************************************)
(* facealign::ThreadPool (kernel/utils/face_threadpool.hpp), which is made *)
(* after PriorityThreadPool of the infer server (util/thread_pool.{h,cpp}):*)
(* both are here, and differ in the order of the queue, in Resize and in   *)
(* Stop.  Worker threads pop tasks off a queue and sleep on cv_ when it is *)
(* empty; Push adds a task and notifies, without taking mutex_; Stop sets  *)
(* flags and joins the workers; only that of the infer server wakes them.  *)
(*                                                                         *)
(* A task is pushed by a thread of its own, so pushes overlap in any way.  *)
(* One controller thread resizes the pool and, at the end, stops it.       *)
(***************************************************************************)
EXTENDS Integers, Sequences, FiniteSets, SequencesExt

CONSTANTS Tasks,
          Priority,     \* of each task, in the infer server
          NoTask,
          MaxThreads,   \* bound on the number of workers
          InitThreads   \* n_threads of the constructor

ASSUME PoolAssumption == /\ NoTask \notin Tasks
                         /\ Priority \in [Tasks -> Int]
                         /\ MaxThreads \in Nat
                         /\ InitThreads \in 0 .. MaxThreads

Workers == 1 .. MaxThreads

VARIABLES server,     \* the pool is that of the infer server
          task_q,     \* task_q_
          status,     \* what became of each task, as its future shows it
          push,       \* where the thread that pushes each task is
          wpc,        \* where each worker is
          hold,       \* the task in the variable t of each worker
          mutex,      \* the worker that holds mutex_, 0 if none does
          flags,      \* flags_
          is_done, is_stop,
          threads,    \* threads_.size()
          detached,   \* the workers that a Resize has detached
          cpc,        \* where the controller is
          ci,         \* the index of its loop over flags_
          early,      \* history: tasks pushed when Stop was called
          aborted     \* std::terminate has ended the process

workerVars == <<wpc, hold, mutex>>
stopVars == <<server, flags, is_done, is_stop, threads, detached, cpc, ci,
              early, aborted>>
vars == <<server, task_q, status, push, wpc, hold, mutex, flags, is_done,
          is_stop, threads, detached, cpc, ci, early, aborted>>

Init ==
    /\ server \in BOOLEAN
    /\ task_q = << >>
    /\ status = [t \in Tasks |-> "new"]
    /\ push = [t \in Tasks |-> "emplace"]
    /\ wpc = [w \in Workers |-> IF w <= InitThreads THEN "pop" ELSE "none"]
    /\ hold = [w \in Workers |-> NoTask]
    /\ mutex = 0
    /\ flags = [w \in Workers |-> FALSE]
    /\ is_done = FALSE
    /\ is_stop = FALSE
    /\ threads = InitThreads
    /\ detached = {}
    /\ cpc = "idle"
    /\ ci = 0
    /\ early = {}
    /\ aborted = FALSE

\* A worker goes from one label to another.
Step(w, from, to) == /\ ~aborted
                     /\ wpc[w] = from
                     /\ wpc' = [wpc EXCEPT ![w] = to]

\* The same for the controller.
Goto(from, to) == /\ ~aborted
                  /\ cpc = from
                  /\ cpc' = to

-----------------------------------------------------------------------------
(* Push: Emplace, then cv_.notify_one() outside of mutex_.                 *)

PushEmplace(t) ==
    /\ ~aborted
    /\ push[t] = "emplace"
    /\ push' = [push EXCEPT ![t] = "notify"]
    /\ task_q' = Append(task_q, t)
    /\ status' = [status EXCEPT ![t] = "pending"]
    /\ UNCHANGED <<workerVars, stopVars>>

Asleep == {w \in Workers : wpc[w] = "asleep"}

\* Mutant of PushNotify: nobody is notified.
PushNotifyNot(t) ==
    /\ ~aborted
    /\ push[t] = "notify"
    /\ push' = [push EXCEPT ![t] = "wait"]
    /\ UNCHANGED <<task_q, status, workerVars, stopVars>>

\* notify_one wakes one of the workers that sleep, if any does.
PushNotify(t) ==
    /\ ~aborted
    /\ push[t] = "notify"
    /\ push' = [push EXCEPT ![t] = "wait"]
    /\ IF Asleep = {} THEN UNCHANGED wpc
       ELSE \E w \in Asleep : wpc' = [wpc EXCEPT ![w] = "woken"]
    /\ UNCHANGED <<task_q, status, hold, mutex, stopVars>>

-----------------------------------------------------------------------------
(* The thread function of SetThread.                                       *)

\* Mutant of First: the queue of the infer server ignores the priority.
FirstPushed == {k \in DOMAIN task_q : k = 1}

\* The places in the queue of what it may give next: a priority_queue gives
\* any of the tasks of the highest priority.
First == {k \in DOMAIN task_q :
             IF server
             THEN \A j \in DOMAIN task_q : Priority[task_q[j]] <= Priority[task_q[k]]
             ELSE k = 1}

\* Mutant of Take: the front of the queue is copied and stays.
TakeFront(w) == \E k \in First :
                   /\ hold' = [hold EXCEPT ![w] = task_q[k]]
                   /\ status' = [status EXCEPT ![task_q[k]] = "running"]
                   /\ UNCHANGED task_q

\* TryPop finds a task.
Take(w) == \E k \in First :
              /\ hold' = [hold EXCEPT ![w] = task_q[k]]
              /\ status' = [status EXCEPT ![task_q[k]] = "running"]
              /\ task_q' = RemoveAt(task_q, k)

\* TryPop finds none.
TakeNothing == /\ task_q = << >>
               /\ UNCHANGED <<task_q, status, hold>>

TryPop(w) ==
    /\ \/ Step(w, "pop", "run") /\ Take(w)
       \/ Step(w, "pop", "lock") /\ TakeNothing
    /\ UNCHANGED <<push, mutex, stopVars>>

\* t(): the packaged_task catches what its function throws; what the future
\* then holds makes no difference to the pool.
RunTask(w) ==
    /\ Step(w, "run", "test")
    /\ status' = [status EXCEPT ![hold[w]] = "done"]
    /\ hold' = [hold EXCEPT ![w] = NoTask]
    /\ UNCHANGED <<task_q, push, mutex, stopVars>>

TestFlag(w) ==
    /\ Step(w, "test", IF flags[w] THEN "exit" ELSE "pop")
    /\ UNCHANGED <<task_q, status, push, hold, mutex, stopVars>>

\* unique_lock lk(mutex_), also at the end of a sleep.
Lock(w) ==
    /\ \/ Step(w, "lock", "pred")
       \/ Step(w, "woken", "pred")
    /\ mutex = 0
    /\ mutex' = w
    /\ UNCHANGED <<task_q, status, push, hold, stopVars>>

\* The predicate of cv_.wait: first TryPop ...
PredTryPop(w) ==
    /\ \/ Step(w, "pred", "leave") /\ Take(w)
       \/ Step(w, "pred", "predFlags") /\ TakeNothing
    /\ UNCHANGED <<push, mutex, stopVars>>

\* ... then is_done_ || flag.load().
PredFlags(w) ==
    /\ Step(w, "predFlags", IF is_done \/ flags[w] THEN "leave" ELSE "block")
    /\ UNCHANGED <<task_q, status, push, hold, mutex, stopVars>>

\* wait(lk) gives mutex_ up and sleeps, in one step.
Block(w) ==
    /\ Step(w, "block", "asleep")
    /\ mutex' = 0
    /\ UNCHANGED <<task_q, status, push, hold, stopVars>>

SpuriousWake(w) ==
    /\ Step(w, "asleep", "woken")
    /\ UNCHANGED <<task_q, status, push, hold, mutex, stopVars>>

\* lk.unlock(); if (!have_task) return;
Leave(w) ==
    /\ Step(w, "leave", IF hold[w] = NoTask THEN "exit" ELSE "run")
    /\ mutex' = 0
    /\ UNCHANGED <<task_q, status, push, hold, stopVars>>

-----------------------------------------------------------------------------
(* Resize and Stop.                                                        *)

NotifyAll == [w \in Workers |-> IF w \in Asleep THEN "woken" ELSE wpc[w]]

\* SetThread makes a flag and a thread for each new place.  (A worker's number
\* is used again only when the worker has ended.)
Grow(n) ==
    /\ n >= threads
    /\ \A w \in threads + 1 .. n : wpc[w] \in {"none", "exit"}
    /\ threads' = n
    /\ wpc' = [w \in Workers |-> IF w \in threads + 1 .. n THEN "pop" ELSE wpc[w]]
    /\ flags' = [w \in Workers |-> flags[w] /\ w \notin threads + 1 .. n]
    /\ detached' = detached \ (threads + 1 .. n)
    /\ UNCHANGED aborted

\* The infer server sets the flags of the workers at the end, detaches them and
\* notifies all that sleep.
Shrink(n) ==
    /\ server /\ 0 < n /\ n < threads
    /\ threads' = n
    /\ flags' = [w \in Workers |-> flags[w] \/ w \in n + 1 .. threads]
    /\ detached' = detached \union (n + 1 .. threads)
    /\ wpc' = NotifyAll
    /\ UNCHANGED aborted

\* In facealign the loop "i = old - 1; i < n_threads; --i" has no turn when
\* n_threads < old: threads_.resize() destroys threads that are joinable.  In
\* the infer server "i >= n_threads" has no end when n_threads is 0.
ShrinkFatal(n) ==
    /\ n < threads /\ (server => n = 0)
    /\ aborted' = TRUE
    /\ UNCHANGED <<threads, wpc, flags, detached>>

Resize(n) ==
    /\ Goto("idle", "idle")
    /\ n # threads
    /\ Grow(n) \/ Shrink(n) \/ ShrinkFatal(n)
    /\ UNCHANGED <<server, task_q, status, push, hold, mutex, is_done, is_stop,
                   ci, early>>

\* Stop(true), which the destructor calls, and Stop(false).
StopCall(wait) ==
    /\ Goto("idle", IF ~wait THEN "flag" ELSE IF server THEN "notify" ELSE "join")
    /\ is_done' = wait
    /\ is_stop' = ~wait
    /\ ci' = 1
    /\ early' = {t \in Tasks : status[t] # "new"}
    /\ UNCHANGED <<server, task_q, status, push, workerVars, flags, threads,
                   detached, aborted>>

\* A turn of the loop over flags_ : store the flag; in facealign ClearQueue is
\* in the loop, in the infer server behind it.
StopFlag ==
    /\ ci <= threads
    /\ Goto("flag", IF server THEN "flag" ELSE "clear")
    /\ flags' = [flags EXCEPT ![ci] = TRUE]
    /\ ci' = IF server THEN ci + 1 ELSE ci
    /\ UNCHANGED <<server, task_q, status, push, workerVars, is_done, is_stop,
                   threads, detached, early, aborted>>

StopFlagsSet ==
    /\ ci > threads
    /\ Goto("flag", IF server THEN "clear" ELSE "join")
    /\ UNCHANGED <<server, task_q, status, push, workerVars, flags, is_done,
                   is_stop, threads, detached, ci, early, aborted>>

\* Mutant of ClearPop: the task is only looked at.
ClearFront ==
    /\ ~aborted
    /\ cpc \in {"clear", "lastClear"}
    /\ \E k \in First : status' = [status EXCEPT ![task_q[k]] = "broken"]
    /\ UNCHANGED <<task_q, push, workerVars, stopVars>>

\* ClearQueue pops a task; the promise of a task nobody ran is broken.
ClearPop ==
    /\ ~aborted
    /\ cpc \in {"clear", "lastClear"}
    /\ \E k \in First :
          /\ task_q' = RemoveAt(task_q, k)
          /\ status' = [status EXCEPT ![task_q[k]] = "broken"]
    /\ UNCHANGED <<push, workerVars, stopVars>>

ClearDone ==
    /\ Goto("clear", IF server THEN "notify" ELSE "flag")
    /\ task_q = << >>
    /\ ci' = IF server THEN ci ELSE ci + 1
    /\ UNCHANGED <<server, task_q, status, push, workerVars, flags, is_done,
                   is_stop, threads, detached, early, aborted>>

\* Mutant of StopNotify: nobody is notified, as in facealign.
StopNotifyNot ==
    /\ Goto("notify", "join")
    /\ UNCHANGED <<server, task_q, status, push, workerVars, flags, is_done,
                   is_stop, threads, detached, ci, early, aborted>>

\* cv_.notify_all(), in the infer server only.
StopNotify ==
    /\ Goto("notify", "join")
    /\ wpc' = NotifyAll
    /\ UNCHANGED <<server, task_q, status, push, hold, mutex, flags, is_done,
                   is_stop, threads, detached, ci, early, aborted>>

Join ==
    /\ Goto("join", "lastClear")
    /\ \A w \in 1 .. threads : wpc[w] = "exit"
    /\ UNCHANGED <<server, task_q, status, push, workerVars, flags, is_done,
                   is_stop, threads, detached, ci, early, aborted>>

\* Mutant of StopReturn: the last ClearQueue is missing.
StopReturnDirty ==
    /\ Goto("lastClear", "done")
    /\ threads' = 0
    /\ UNCHANGED <<server, task_q, status, push, workerVars, flags, is_done,
                   is_stop, detached, ci, early, aborted>>

StopReturn ==
    /\ Goto("lastClear", "done")
    /\ task_q = << >>
    /\ threads' = 0
    /\ UNCHANGED <<server, task_q, status, push, workerVars, flags, is_done,
                   is_stop, detached, ci, early, aborted>>

-----------------------------------------------------------------------------
Pusher(t) == PushEmplace(t) \/ PushNotify(t)

Worker(w) == \/ TryPop(w) \/ RunTask(w) \/ TestFlag(w) \/ Lock(w)
             \/ PredTryPop(w) \/ PredFlags(w) \/ Block(w) \/ Leave(w)

Controller == \/ StopFlag \/ StopFlagsSet \/ ClearPop \/ ClearDone
              \/ StopNotify \/ Join \/ StopReturn

Next == \/ \E t \in Tasks : Pusher(t)
        \/ \E w \in Workers : Worker(w) \/ SpuriousWake(w)
        \/ \E n \in 0 .. MaxThreads : Resize(n)
        \/ \E wait \in BOOLEAN : StopCall(wait)
        \/ Controller

\* Every thread is scheduled.  Nobody has to push, to resize or to stop, and
\* no sleep has to end by itself.
Fairness == /\ \A w \in Workers : WF_vars(Worker(w))
            /\ \A t \in Tasks : WF_vars(PushNotify(t))
            /\ WF_vars(Controller)

Spec == Init /\ [][Next]_vars
FairSpec == Spec /\ Fairness

-----------------------------------------------------------------------------
Idle == {"lock", "pred", "predFlags", "block", "asleep", "woken"}

TypeOK ==
    /\ server \in BOOLEAN
    /\ task_q \in Seq(Tasks)
    /\ status \in [Tasks -> {"new", "pending", "running", "done", "broken"}]
    /\ push \in [Tasks -> {"emplace", "notify", "wait"}]
    /\ wpc \in [Workers -> {"none", "pop", "run", "test", "leave", "exit"}
                           \union Idle]
    /\ hold \in [Workers -> Tasks \union {NoTask}]
    /\ mutex \in {0} \union Workers
    /\ flags \in [Workers -> BOOLEAN]
    /\ is_done \in BOOLEAN
    /\ is_stop \in BOOLEAN
    /\ threads \in 0 .. MaxThreads
    /\ detached \in SUBSET Workers
    /\ cpc \in {"idle", "flag", "clear", "notify", "join", "lastClear", "done"}
    /\ ci \in 0 .. MaxThreads + 1
    /\ early \in SUBSET Tasks
    /\ aborted \in BOOLEAN

\* The pool implements TaskPool: whatever pops, wakeups and clearings overlap,
\* every task is started at most once and in the order of the queue, and none is
\* dropped that has been started or while nobody stops the pool.
Pool == INSTANCE TaskPool WITH pending <- task_q, ranked <- server,
                               stopping <- (is_done \/ is_stop)
PoolSpec == Pool!PoolSpec

\* When Stop returns, nobody waits for ever: the future of every task pushed
\* before the call is ready, with a result, an exception or a broken promise,
\* and no worker is left that could still run one.  The exception are the
\* workers that a Resize of the infer server has detached, with the tasks they
\* hold: nobody joins them, and they may outlive the pool they read.
Detached(t) == \E w \in detached : hold[w] = t
StopResolves ==
    cpc = "done" => /\ \A t \in early : status[t] \in Pool!Ended \/ Detached(t)
                    /\ \A w \in Workers : wpc[w] \in {"none", "exit"} \/ w \in detached

\* A worker holds a task from the pop to the end of its run, the task is then
\* running, and no other worker holds it (SetThread).
HoldOK ==
    /\ \A w \in Workers : hold[w] # NoTask =>
          wpc[w] \in {"run", "leave"} /\ status[hold[w]] = "running"
    /\ \A w \in Workers : wpc[w] = "run" => hold[w] # NoTask
    /\ \A w, v \in Workers : hold[w] = hold[v] /\ hold[w] # NoTask => w = v
    /\ \A t \in Tasks : status[t] = "running" => \E w \in Workers : hold[w] = t

\* The tasks of the queue are those that wait, each once (Push, TryPop).
QueueOK ==
    /\ \A k \in DOMAIN task_q : status[task_q[k]] = "pending"
    /\ \A j, k \in DOMAIN task_q : task_q[j] = task_q[k] => j = k
    /\ \A t \in Tasks : status[t] = "pending" => \E k \in DOMAIN task_q : task_q[k] = t
    /\ \A t \in Tasks : push[t] = "emplace" => status[t] = "new"

\* A worker beyond threads_ has ended or was detached (Resize).
LiveOK == \A w \in Workers :
             w <= threads \/ wpc[w] \in {"none", "exit"} \/ w \in detached

\* Where Stop is: its loop is within threads_; behind the join no joined worker
\* runs; its flags are set; and of the tasks pushed before it none is left to be
\* waited for.
StopOK ==
    /\ cpc = "clear" /\ ~server => ci <= threads
    /\ cpc = "lastClear" => \A w \in 1 .. threads : wpc[w] = "exit"
    /\ cpc = "done" => threads = 0
    /\ cpc # "idle" => is_done \/ is_stop
    /\ \A t \in early : status[t] # "new"
    /\ cpc = "done" => \A t \in early : status[t] # "pending"

\* The inductive invariant of ProgramProofs.
IInv == TypeOK /\ HoldOK /\ QueueOK /\ LiveOK /\ StopOK

\* Both, in every state: what Stop leaves behind, and who holds, queues and runs
\* the tasks until then (SetThread, Push, Resize, Stop).
PoolInv == IInv /\ StopResolves

\* As long as no worker goes to sleep with a task in the queue, the window in
\* which the notification of Push is lost, every task that was pushed ends,
\* if the pool has a thread.
Missed == task_q # << >> /\ \E w \in Workers : wpc[w] = "block"
EndsUnlessMissed ==
    [](~Missed /\ threads > 0 /\ ~aborted /\ cpc = "idle") =>
        \A t \in Tasks : (status[t] = "pending") ~> (status[t] \in Pool!Ended)

\* Stop comes to its end if none of the workers sleeps when it is called or
\* later: in facealign Stop wakes nobody.  In the infer server it wakes those
\* that sleep, and misses only a worker that has tested the flags before they
\* were set and goes to sleep after the notification.
Sleepy == \E w \in Workers :
              IF server
              THEN wpc[w] = "block" /\ cpc = "join" /\ (flags[w] \/ is_done)
              ELSE wpc[w] \in {"block", "asleep"}
StopEndsUnlessAsleep ==
    []((cpc # "idle" => ~Sleepy) /\ ~aborted) =>
        ((cpc \in {"flag", "notify", "join"}) ~> (cpc = "done"))
=============================================================================
