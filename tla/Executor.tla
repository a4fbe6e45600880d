------------------------------ MODULE Executor ------------------------------
(***************************************************************************)
(* Executor of the infer server and its engines (core/session.{h,cpp},     *)
(* core/engine.{h,cpp}, Pop and Stop of core/cache.h).                     *)
(*                                                                         *)
(* A sender waits until less than MaxProcessing pieces are in process and  *)
(* uploads its request, here one batch, to the cache.  The dispatcher takes*)
(* batches from the cache and gives each to the engine idle_.  An engine   *)
(* has up to MaxLoad batches in process (one per task node), finishes them *)
(* in any order, and tells the dispatcher that it is idle.                 *)
(*                                                                         *)
(* How pieces become batches is in module BatchCache, in what order        *)
(* requests are answered in Session: here a request is answered at any time*)
(* after its batch is done.  The three condition variables are modelled to *)
(* the step between the test of the predicate and the sleep, because what  *)
(* two of the predicates read, and running_, changes without the mutex.    *)
(***************************************************************************)
EXTENDS Integers, Sequences, SequencesExt

CONSTANTS Pieces,          \* the number of pieces of each request
          Previous,        \* the request that the same thread sends before it
          EngineCount,     \* engine_num
          MaxLoad,         \* nodes_.size()
          MaxProcessing    \* max_processing_num_

ASSUME ExecutorAssumption ==
    /\ Pieces \in Seq(Nat \ {0})
    /\ \A r \in DOMAIN Pieces : Previous[r] \in 0 .. r - 1
    /\ {EngineCount, MaxLoad, MaxProcessing} \subseteq Nat \ {0}

Requests == DOMAIN Pieces
Engines == 1 .. EngineCount

VARIABLES rpc,             \* where the sender of each request is
          answered,        \* the requests answered and deleted
          processing_num,  \* processing_num_
          cache,           \* cache_ of the executor's cache
          running,         \* running_ of the cache
          spc,             \* where DispatchLoop is
          pack,            \* the batch it holds, 0 for none
          waited, it,
          idle,            \* idle_, 0 for null
          inflight,        \* batches in process, per engine
          finished,        \* batches done whose task is before --task_num_
          ending,          \* number of tasks after it, before done_notifier_
          dpc              \* where ~Executor is

dispatchVars == <<spc, pack, waited, it>>
engineVars == <<inflight, finished, ending>>
executorVars == <<rpc, answered, processing_num, cache, running,
                  dispatchVars, idle, engineVars, dpc>>

ExecutorInit ==
    /\ rpc = [r \in Requests |-> "new"]
    /\ answered = {}
    /\ processing_num = 0
    /\ cache = << >>
    /\ running = TRUE
    /\ spc = "pop" /\ pack = 0 /\ waited = FALSE /\ it = 1
    /\ idle = 1
    /\ inflight = [e \in Engines |-> {}]
    /\ finished = [e \in Engines |-> {}]
    /\ ending = [e \in Engines |-> 0]
    /\ dpc = "run"

task_num(e) == Cardinality(inflight[e] \union finished[e])

\* The batches that are done: no longer on their way through the engines.
Done(r) == rpc[r] = "sent" /\ r # pack /\ r \notin ToSet(cache)
           /\ \A e \in Engines : r \notin inflight[e]

-----------------------------------------------------------------------------
(* The senders: WaitIfCacheFull, then Upload.                              *)

\* Mutant of HasRoom: an off-by-one.
HasRoomForOneMore == processing_num <= MaxProcessing

HasRoom == processing_num < MaxProcessing

Sender(r, from, to) == rpc[r] = from /\ rpc' = [rpc EXCEPT ![r] = to]

WaitIfCacheFull(r) ==
    /\ dpc = "run"
    /\ Previous[r] # 0 => rpc[Previous[r]] \in {"sent", "refused"}
    /\ Sender(r, "new", IF HasRoom THEN "upload" ELSE "pred")
    /\ UNCHANGED <<answered, processing_num, cache, running, dispatchVars, idle,
                   engineVars, dpc>>

\* The predicate of limit_cond_.wait is tested ...
LimitPred(r) ==
    /\ Sender(r, "pred", IF HasRoom THEN "upload" ELSE "block")
    /\ UNCHANGED <<answered, processing_num, cache, running, dispatchVars, idle,
                   engineVars, dpc>>

\* ... and only then does the thread sleep.
LimitSleep(r) ==
    /\ Sender(r, "block", "asleep")
    /\ UNCHANGED <<answered, processing_num, cache, running, dispatchVars, idle,
                   engineVars, dpc>>

\* wait_for is over: the predicate is tested a last time.
LimitTimeout(r) ==
    /\ Sender(r, "asleep", IF HasRoom THEN "upload" ELSE "refused")
    /\ UNCHANGED <<answered, processing_num, cache, running, dispatchVars, idle,
                   engineVars, dpc>>

\* Upload counts the pieces and sets the callback ...
Upload(r) ==
    /\ Sender(r, "upload", "push")
    /\ processing_num' = processing_num + Pieces[r]
    /\ UNCHANGED <<answered, cache, running, dispatchVars, idle, engineVars,
                   dpc>>

\* notify_all of cache_cond_: only the dispatcher waits.
NotifyCache == spc' = IF spc = "asleep" THEN "pop" ELSE spc

\* ... and pushes to the cache, under cache_mutex_: the dispatcher holds it
\* until it sleeps.
CachePush(r) ==
    /\ spc # "block"
    /\ Sender(r, "push", "sent")
    /\ cache' = Append(cache, r)
    /\ NotifyCache
    /\ UNCHANGED <<answered, processing_num, running, pack, waited, it, idle,
                   engineVars, dpc>>

-----------------------------------------------------------------------------
(* DispatchLoop.                                                           *)

Dispatcher(from, to) == spc = from /\ spc' = to

\* CacheBase::Pop: the predicate of cache_cond_.wait is false ...
PopWait ==
    /\ cache = << >> /\ running
    /\ Dispatcher("pop", "block")
    /\ UNCHANGED <<rpc, answered, processing_num, cache, running, pack, waited,
                   it, idle, engineVars, dpc>>

\* ... and the thread sleeps.
PopSleep ==
    /\ Dispatcher("block", "asleep")
    /\ UNCHANGED <<rpc, answered, processing_num, cache, running, pack, waited,
                   it, idle, engineVars, dpc>>

\* Pop returns null: the loop ends.
PopEnd ==
    /\ cache = << >> /\ ~running
    /\ Dispatcher("pop", "end")
    /\ UNCHANGED <<rpc, answered, processing_num, cache, running, pack, waited,
                   it, idle, engineVars, dpc>>

Pop ==
    /\ cache # << >>
    /\ Dispatcher("pop", "idle")
    /\ pack' = Head(cache)
    /\ cache' = Tail(cache)
    /\ UNCHANGED <<rpc, answered, processing_num, running, waited, it, idle,
                   engineVars, dpc>>

\* What is left of the cache, in its order, without the discarded requests.
Kept(discarded) ==
    LET at == {i \in DOMAIN cache : cache[i] \notin discarded}
        Nth(k) == CHOOSE i \in at : Cardinality({j \in at : j <= i}) = k
    IN  [k \in 1 .. Cardinality(at) |-> cache[Nth(k)]]

\* Pop finds that the front was discarded: ClearDiscard lets go whatever was,
\* and Pop returns the first of what is left, or null although the cache is
\* running.
PopDiscarded ==
    /\ cache # << >>
    /\ \E discarded \in SUBSET ToSet(cache) :
          /\ Head(cache) \in discarded
          /\ IF Kept(discarded) = << >>
             THEN Dispatcher("pop", "pop") /\ cache' = << >> /\ UNCHANGED pack
             ELSE /\ Dispatcher("pop", "idle")
                  /\ pack' = Head(Kept(discarded))
                  /\ cache' = Tail(Kept(discarded))
    /\ UNCHANGED <<rpc, answered, processing_num, running, waited, it, idle,
                   engineVars, dpc>>

\* if (!idle_) { waited = true; ...
IdleTest ==
    /\ Dispatcher("idle", IF idle = 0 THEN "pred" ELSE "run")
    /\ waited' = (waited \/ idle = 0)
    /\ UNCHANGED <<rpc, answered, processing_num, cache, running, pack, it,
                   idle, engineVars, dpc>>

\* The predicate of dispatch_cond_.wait is tested, and the thread sleeps.
IdlePred ==
    /\ Dispatcher("pred", IF idle = 0 THEN "idleBlock" ELSE "run")
    /\ UNCHANGED <<rpc, answered, processing_num, cache, running, pack, waited,
                   it, idle, engineVars, dpc>>

IdleSleep ==
    /\ Dispatcher("idleBlock", "idleAsleep")
    /\ UNCHANGED <<rpc, answered, processing_num, cache, running, pack, waited,
                   it, idle, engineVars, dpc>>

\* A condition variable may wake a thread for no reason.
SpuriousWake ==
    /\ \/ Dispatcher("asleep", "pop") /\ UNCHANGED rpc
       \/ Dispatcher("idleAsleep", "pred") /\ UNCHANGED rpc
       \/ \E r \in Requests : Sender(r, "asleep", "pred") /\ UNCHANGED spc
    /\ UNCHANGED <<answered, processing_num, cache, running, pack, waited, it,
                   idle, engineVars, dpc>>

\* idle_.load()->Run(pack): ++task_num_, and the pool has the task.
Run ==
    /\ Dispatcher("run", "clear")
    /\ inflight' = [inflight EXCEPT ![idle] = @ \union {pack}]
    /\ pack' = 0
    /\ UNCHANGED <<rpc, answered, processing_num, cache, running, waited, it,
                   idle, finished, ending, dpc>>

\* idle_.store(nullptr), whatever an engine has stored meanwhile.
ClearIdle ==
    /\ Dispatcher("clear", IF waited THEN "pop" ELSE "scan")
    /\ idle' = 0
    /\ it' = 1
    /\ UNCHANGED <<rpc, answered, processing_num, cache, running, pack, waited,
                   engineVars, dpc>>

IsIdle(e) == task_num(e) < MaxLoad

\* One turn of the loop that looks for an idle engine.
Scan ==
    /\ IF IsIdle(it)
       THEN Dispatcher("scan", "pop") /\ idle' = it /\ UNCHANGED it
       ELSE /\ Dispatcher("scan", IF it = EngineCount THEN "pop" ELSE "scan")
            /\ it' = IF it = EngineCount THEN it ELSE it + 1
            /\ UNCHANGED idle
    /\ UNCHANGED <<rpc, answered, processing_num, cache, running, pack, waited,
                   engineVars, dpc>>

-----------------------------------------------------------------------------
(* The engines, whose task nodes run in the thread pool.                   *)

\* The last node, or one that failed, calls ProcessDone for the batch r.
Finish(e, r) ==
    /\ r \in inflight[e]
    /\ inflight' = [inflight EXCEPT ![e] = @ \ {r}]
    /\ finished' = [finished EXCEPT ![e] = @ \union {r}]
    /\ UNCHANGED <<rpc, answered, processing_num, cache, running, dispatchVars,
                   idle, ending, dpc>>

\* --task_num_
Decrement(e, r) ==
    /\ r \in finished[e]
    /\ finished' = [finished EXCEPT ![e] = @ \ {r}]
    /\ ending' = [ending EXCEPT ![e] = @ + 1]
    /\ UNCHANGED <<rpc, answered, processing_num, cache, running, dispatchVars,
                   idle, inflight, dpc>>

\* Mutant of NotifyDone: the dispatcher is not notified.
NotifyDoneSilent(e) ==
    /\ ending[e] > 0
    /\ ending' = [ending EXCEPT ![e] = @ - 1]
    /\ idle' = e
    /\ UNCHANGED <<rpc, answered, processing_num, cache, running, dispatchVars,
                   inflight, finished, dpc>>

\* done_notifier_(this): idle_ is stored and the dispatcher notified, without
\* dispatch_mutex_.
NotifyDone(e) ==
    /\ ending[e] > 0
    /\ ending' = [ending EXCEPT ![e] = @ - 1]
    /\ idle' = e
    /\ spc' = IF spc = "idleAsleep" THEN "pred" ELSE spc
    /\ UNCHANGED <<rpc, answered, processing_num, cache, running, pack, waited,
                   it, inflight, finished, dpc>>

-----------------------------------------------------------------------------
(* Answers and the destructor.                                             *)

\* limit_cond_.notify_one()
NotifyLimit ==
    IF \E r \in Requests : rpc[r] = "asleep"
    THEN \E r \in Requests : Sender(r, "asleep", "pred")
    ELSE UNCHANGED rpc

\* The request is deleted, which calls what Upload left as its callback.
Answer(r) ==
    /\ Done(r) /\ r \notin answered
    /\ answered' = answered \union {r}
    /\ processing_num' = processing_num - Pieces[r]
    /\ NotifyLimit
    /\ UNCHANGED <<cache, running, dispatchVars, idle, engineVars, dpc>>

\* ~Executor runs when the last session is gone, which waits for its answers;
\* then CacheBase::Stop.
Destroy ==
    /\ dpc = "run"
    /\ \A r \in Requests : rpc[r] \in {"new", "refused"} \/ r \in answered
    /\ dpc' = "notify"
    /\ running' = FALSE
    /\ UNCHANGED <<rpc, answered, processing_num, cache, dispatchVars, idle,
                   engineVars>>

DestroyAt(from, to) == dpc = from /\ dpc' = to

\* CacheBase::Stop and CacheDynamic::Stop notify, without cache_mutex_.
StopNotify ==
    /\ DestroyAt("notify", "notify again") \/ DestroyAt("notify again", "join")
    /\ NotifyCache
    /\ UNCHANGED <<rpc, answered, processing_num, cache, running, pack, waited,
                   it, idle, engineVars>>

\* Mutant of Join: the destructor does not join the dispatcher.
JoinNot ==
    /\ DestroyAt("join", "engines")
    /\ idle' = 0
    /\ UNCHANGED <<rpc, answered, processing_num, cache, running, dispatchVars,
                   engineVars>>

\* dispatch_thread_.join(), cache_.reset(), idle_.store(nullptr)
Join ==
    /\ spc = "end"
    /\ DestroyAt("join", "engines")
    /\ idle' = 0
    /\ UNCHANGED <<rpc, answered, processing_num, cache, running, dispatchVars,
                   engineVars>>

\* engines_.clear(): ~Engine spins until task_num_ is 0.
ClearEngines ==
    /\ \A e \in Engines : task_num(e) = 0
    /\ DestroyAt("engines", "gone")
    /\ UNCHANGED <<rpc, answered, processing_num, cache, running, dispatchVars,
                   idle, engineVars>>

-----------------------------------------------------------------------------
SenderStep(r) == LimitPred(r) \/ LimitSleep(r) \/ Upload(r) \/ CachePush(r)

DispatchStep == PopWait \/ PopSleep \/ PopEnd \/ Pop \/ PopDiscarded \/ IdleTest
                \/ IdlePred \/ IdleSleep \/ Run \/ ClearIdle \/ Scan

EngineStep(e) == \/ \E r \in Requests : Finish(e, r) \/ Decrement(e, r)
                 \/ NotifyDone(e)

DestroyStep == StopNotify \/ Join \/ ClearEngines

ExecutorNext ==
    \/ \E r \in Requests : WaitIfCacheFull(r) \/ SenderStep(r)
                           \/ LimitTimeout(r) \/ Answer(r)
    \/ DispatchStep \/ SpuriousWake
    \/ \E e \in Engines : EngineStep(e)
    \/ Destroy \/ DestroyStep

\* The threads run, nobody waits for a mutex for ever, the pool runs its tasks,
\* and what is done is answered.
ExecutorFairness ==
    /\ \A r \in Requests : /\ WF_executorVars(SenderStep(r))
                           /\ SF_executorVars(CachePush(r))
                           /\ WF_executorVars(Answer(r))
    /\ WF_executorVars(DispatchStep)
    /\ \A e \in Engines : WF_executorVars(EngineStep(e))
    /\ WF_executorVars(DestroyStep)

ExecutorSpec == ExecutorInit /\ [][ExecutorNext]_executorVars
ExecutorFairSpec == ExecutorSpec /\ ExecutorFairness

-----------------------------------------------------------------------------
ExecutorTypeOK ==
    /\ rpc \in [Requests -> {"new", "pred", "block", "asleep", "refused",
                             "upload", "push", "sent"}]
    /\ answered \subseteq Requests
    /\ cache \in Seq(Requests)
    /\ running \in BOOLEAN
    /\ spc \in {"pop", "block", "asleep", "idle", "pred", "idleBlock",
                "idleAsleep", "run", "clear", "scan", "end"}
    /\ pack \in Requests \union {0}
    /\ waited \in BOOLEAN /\ it \in Engines /\ idle \in Engines \union {0}
    /\ inflight \in [Engines -> SUBSET Requests]
    /\ finished \in [Engines -> SUBSET Requests]
    /\ ending \in [Engines -> Nat]
    /\ dpc \in {"run", "notify", "notify again", "join", "engines", "gone"}

\* A batch is in one place only: in the cache, with the dispatcher or in one of
\* the engines, until it is done, and no request is answered before.
\* processing_num_ counts the pieces of the requests that are uploaded and not
\* answered; the dispatcher never runs a batch without an engine; and ~Executor
\* leaves nothing behind: no batch, no count, no dispatcher.
PiecesOf(S) == UNION {{r} \X (1 .. Pieces[r]) : r \in S}
InProcess == {r \in Requests : rpc[r] \in {"push", "sent"}} \ answered
Counted ==
    /\ IsInjective(cache) /\ pack \notin ToSet(cache)
    /\ \A e \in Engines :
          /\ inflight[e] \cap (ToSet(cache) \union {pack} \union answered) = {}
          /\ \A f \in Engines \ {e} : inflight[e] \cap inflight[f] = {}
    /\ processing_num = Cardinality(PiecesOf(InProcess))
    /\ spc = "run" => idle # 0 /\ pack # 0
    /\ dpc \in {"engines", "gone"} =>
          /\ cache = << >> /\ pack = 0 /\ processing_num = 0 /\ spc = "end"
          /\ \A e \in Engines : inflight[e] = {}

ExecutorInv == ExecutorTypeOK /\ Counted

\* The test of WaitIfCacheFull and the count of Upload are two steps, and a
\* request is accepted whole.  As long as no two senders are between the two
\* steps, less than one request is in process beyond the limit.
OneAtATime == \A r, q \in Requests : rpc[r] = "upload" /\ rpc[q] = "upload"
                                     => r = q
WithinLimit == \/ processing_num < MaxProcessing
               \/ \E r \in Requests : processing_num < MaxProcessing + Pieces[r]
LimitUnlessRaced == []OneAtATime => []WithinLimit

\* Four windows in which a notification is lost: the dispatcher stores null
\* over the engine that has just become idle, and as it has waited before it
\* does not search; the dispatcher or a sender has tested its condition and
\* does not sleep yet while it becomes true; or Stop notifies the dispatcher
\* just then.
Missed == \/ spc = "clear" /\ waited /\ \E e \in Engines : ending[e] > 0
          \/ spc = "idleBlock" /\ idle # 0
          \/ HasRoom /\ \E r \in Requests : rpc[r] = "block"
          \/ spc = "block" /\ dpc = "join"

\* If none of them occurs every request that was sent is answered or refused,
\* no sender waits for ever, and ~Executor returns.
Settled == /\ \A r \in Requests :
                 rpc[r] \in {"new", "refused"} \/ r \in answered
           /\ dpc \in {"run", "gone"}
AnsweredUnlessMissed == []~Missed => <>[]Settled
=============================================================================
