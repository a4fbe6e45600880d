# Specifications of the face alignment pipeline

TLA+ specifications, TLC model checking and TLAPS proofs for the program in
`src/face`: a pipeline of modules connected by bounded queues (`kernel/`,
`modules/`), and the infer server that its inference module submits batches to
(`3rdparty/easydk/infer_server/src`).

Paths below are relative to `src/face`; `IS/` stands for
`3rdparty/easydk/infer_server/src/`.

1. [Inventory of the system](#1-inventory-of-the-system)
2. [Modules and what they model](#2-modules-and-what-they-model)
3. [Runs, bounds and what they show](#3-runs-bounds-and-what-they-show)
4. [Fairness](#4-fairness)
5. [Proofs](#5-proofs)
6. [Disagreements with what the repository says](#6-disagreements-with-what-the-repository-says)
7. [What is not modelled](#7-what-is-not-modelled)

## 1. Inventory of the system

`main.cpp` builds a chain of three modules, `Source` (decoder), `Inference` with
the observer `PostRetinObs`, and an OpenCV module, starts the pipeline and calls
`Source::Run`. The repository has no design documents; what a part promises is
taken from its code, its tests (`3rdparty/easydk/infer_server/tests`) and the
comments of the public headers.

### The kernel of the pipeline

| component | state | operations | threads |
|---|---|---|---|
| Connector and queue (`kernel/include/face_connector.hpp`, `kernel/utils/face_queue.hpp`) | frame queue (under a mutex), `current_size_` (a plain `size_t`, no lock), `stop_` | PushData, GetData, EmptyQueue, Start, Stop, IsStop | the thread upstream, for the module behind Inference also the response task; TaskLoop; the caller of Pipeline::Stop |
| Pipeline, construction (`kernel/src/face_pipeline.cpp`, `face_config.cpp`) | `modules_map`, links, connectors | ConfigsFromJsonFile, BuildPipeline, AddModule, SetModuleAttribute, LinkModules | the main thread, before Start |
| Pipeline, transport (`kernel/src/face_pipeline.cpp`) | connectors, `run_id`, `running`, threads | Start, Stop, TaskLoop, TransmitData, RightMove | one TaskLoop thread per module but the first; the main thread; observer; whoever calls Stop |
| Observer (`kernel/src/face_observer.cpp`) | `stop_pipeline_`, the watcher thread | constructor, Update, destructor | its watcher spins until it is told, then calls Pipeline::Stop |
| Module, registry (`kernel/include/face_module.hpp`, `kernel/src/face_module.cpp`) | bit of `run_id`, container | DoProcess, DoTransmitData, TransmitData, factory | those of its TaskLoop |
| ThreadPool (`kernel/utils/face_threadpool.hpp`) | task queue, flags, condition variable | Push, Resize, Stop, ClearQueue | workers; pushers |

A frame is popped by TaskLoop, given to `DoProcess`, and pushed into the
connector of the next module by TransmitData, which retries until the connector
takes the frame or is stopped. Each module that has processed the
end-of-stream frame shifts `run_id` to the right; the last one sets
`stop_pipeline_` and so has the observer stop the pipeline.

### The modules of the program

| component | state | operations | interactions |
|---|---|---|---|
| Source with DecoderCodec (`modules/decoder`) | `frames_`, `running_`, `receive_eos_`, buffers of the hardware decoder | DemuxLoop, RunLoop, ReceiveFrame, ReceiveEos, Stop | feeds EasyDecode (external), whose threads call back; RunLoop drives the pipeline |
| Inference and PostRetinObs (`modules/inference`) | the batch being collected, the session | Process, Request, Response, Transmit, Close | a batch goes to the infer server; Response pushes a task per frame to the ThreadPool, waits for the futures and transmits the frames |
| DecoderOpencv (`modules/decoder/src/source.cpp`) | the files of a directory, `mat_ptr` of the next image | GetFiles, Loop, DecoderImg, DecoderVideo | drives the pipeline from the main thread |
| RetinaFace post-processing (`modules/inference/postproc`) | anchors | Init, FilterAnchor, nms_cpu, Postprocess | called by Inference's tasks, one frame each |
| OpenCV modules (`modules/opencvdetect`, `opencvextract`, `warpffine`, `show`) | `src_points` of the warp | Open, Process | their TaskLoop; read and write the faces of a frame |
| frames (`kernel/include/face_frame.hpp`, `retinface_pre.cpp`) | the buffer of the decoder | given back by the preprocessing and by the destructor | Source, Inference |

### The infer server

| component | state | operations |
|---|---|---|
| API (`IS/core/infer_server.cpp`) | map of executors under `executor_map_mutex_`, size of the pool | CreateSession, DestroySession, Request, RequestSync, WaitTaskDone, DiscardTask |
| Session, RequestControl (`IS/core/session.*`, `request_ctrl.*`) | `request_list_`, `in_response_`, counts and flags of each request | Send, CheckAndResponse, the response task, DiscardTask, WaitTaskDone, the destructor |
| Executor, Engine (`IS/core/session.*`, `engine.*`) | `processing_num_`, `idle_`, `task_num_`, links | WaitIfCacheFull, Upload, DispatchLoop, Engine::Run, Link, Unlink, the destructor |
| Cache, Batcher, Timer (`IS/core/cache.h`, `IS/util/batcher.h`, `timer.*`) | incomplete batch, queue of batches, alarms | Push, Pop, ClearDiscard, Stop; AddItem, Emit; NotifyAfter, Cancel |
| PriorityThreadPool (`IS/util/thread_pool.*`, `threadsafe_queue.h`) | task queue by priority, flags, condition variable | Push, VoidPush, Resize, Stop |
| Priority, buffer pool, models, processors | | see section 7 |

### What is hard about it

- **Unlocked counters and flags.** `current_size_` and `run_id` are
  read-modify-written without a lock; `in_response_`, `idle_`, `timer_id_` and
  `stop_pipeline_` are atomics whose use is not atomic with the state they
  summarise.
- **Lost notifications.** ThreadPool::Push, ThreadPool::Stop, Engine's done
  notifier, `limit_cond_` and the Stop of the cache notify without the mutex of
  the waiting predicate, or not at all.
- **Two producers in front of one connector.** Behind Inference the TaskLoop
  thread forwards the end of the stream while the response task forwards data.
- **Stop while everything runs.** Stop empties connectors whose producers are
  between their test and their push, joins threads which may be retrying, and
  may be called by the observer and another thread at once.
- **Timeouts and alarms** that race with the event they stand for: the sleep of
  DemuxLoop, the batch timeout, RequestSync.
- **What one run leaves for the next.** Frames behind EmptyQueue, the count, the
  batch of Inference, the bits of `run_id` and the observer outlive a Stop.
- **A pointer that is not tested.** The construction, the sources and the modules
  go on after a failed look-up, a failed read or a failed inference.
- **Waiting while holding.** Inference::Close, ~Session, DestroySession and
  ~Executor wait for threads that may need something of the waiter's.

`PROJECT.json` lists each of these hazards at its line, with the properties that
would find it going wrong.

### What makes each component correct

- Connector: each producer's frames keep their order; every frame is in one
  place; the count is the number of queued frames as far as its race allows.
- Pipeline: every module processes the stream in order and without gaps; the
  observer is told only when all is drained; nothing is dropped in a run that
  nobody stops; Stop returns and leaves no thread.
- Construction: the pipeline is the one that was configured; each end of the
  stream is counted once; a chain comes to its end.
- Faces: what is found are distinct faces in the image, each warped by its own
  matrix; the process ends early only for what it was given, or when the device
  fails a request.
- Lifecycle: a run is stopped by its own observer after its own end of stream;
  Start and the destructor return.
- ThreadPools: tasks start once, in order; every future becomes ready; Stop
  returns.
- Inference: data frames leave in order, finished, all but the last incomplete
  batch, in this run and the next; Close returns.
- Source: what is sent is a beginning of the file's video and one end;
  with preprocessing on the device its buffers are neither shared nor exhausted.
- Session: requests are answered one at a time in the order of sending; nothing
  is used after it was deleted; everyone who waits returns, and WaitTaskDone only
  when the requests of its tag are done.
- Executor: a batch is in one place; the limit holds; all requests are answered.
- Cache: no piece is lost, doubled or left behind.
- API: executors live as long as their sessions; the pool has threads; calls
  return.

## 2. Modules and what they model

Each module declares its parameters as `CONSTANTS` with a named assumption, has
one action per step of a thread that other threads can tell apart, and collects
the actions of a thread in one definition (`LoopThread`, `Worker`, `Engine`...).
Code under one mutex is one step. Operators whose comment begins with
"Mutant of" are faulty versions of the definition that follows; no
specification uses them. They show, one for each property, that the property can
fail.

| module | models | composed with |
|---|---|---|
| `ConnectorOps` | the operations of a Connector as operators | extended by the next two |
| `Connector` | one connector, two producers, TaskLoop, stop and restart | `MCConnector`, `KernelProofs` |
| `Pipeline` | a chain of `N` modules during a run | refines `StreamChain`; `PipelineProofs` |
| `StreamChain` | abstract: every module processes a prefix of what the one before it has processed; a stop only when all is through, or when it is allowed early | |
| `Lifecycle` | Start, Stop, Observer, destructor over several runs | `KernelProofs` |
| `PipelineGraph` | construction and Start, from a configuration | extended by `FramePath` |
| `Retina` | operators: anchors, filters, nms, Postprocess, and what it promises | extended by `FramePath` |
| `FramePath` | the program from `main` on: decoder, modules, faces, end | `MCFramePath`, `ProgramProofs`, `FacesProofs` |
| `ThreadPool` | both pools: workers, Push, Resize, Stop | refines `TaskPool`; `MCThreadPool`, `ProgramProofs` |
| `TaskPool` | abstract: tasks start once and in order, end once | |
| `Session` | request list, response task, destructor, WaitTaskDone | refines `OrderedResponses`; `RequestProofs` |
| `OrderedResponses` | abstract: requests are over in the order of sending, one at a time | |
| `Inference` | module Inference and PostRetinObs | instantiates `OrderedResponses` and `TaskPool` as its environment; `InferenceProofs` |
| `DecoderCodec` | VideoParser, DemuxLoop, RunLoop, decoder callbacks, buffers | `MCDecoderCodec`, `DecoderProofs` |
| `BatchCache` | CacheDynamic, Batcher and alarms | `MCBatchCache`, `RequestProofs` |
| `Executor` | senders, dispatcher, engines, ~Executor | `MCExecutor`, `ServerProofs` |
| `ServerApi` | sessions, executors and pool size | `MCServerApi`, `ServerProofs` |

The abstract modules are used in both directions: `ThreadPool` and `Session` are
shown to implement `TaskPool` and `OrderedResponses`, and `Inference` is checked
against these two specifications instead of against the code behind them.

### Connector and Pipeline

`queue`, `current_size` and `stop` are `queue_`, `current_size_` and `stop_`. The
queue has a mutex, so a push or a pop is one step; `current_size_++` is a load
(`incLoad`) and a store (`incStore`), because nothing else protects it. The
count wraps at `SizeMax`, as a `size_t` does at its own largest value. A queue
with one more pop than its count shows makes the count wrap and PushData refuse
for ever: that is why the liveness properties exclude overlapping updates.

In `Pipeline` the variable `pc` has one entry per module: where in TaskLoop,
DoProcess, RightMove or TransmitData its thread is. Module 1 is Source, driven
by the main thread. `run_id` is kept as the number of its low bits set, which is
all that `>>= 1` and the comparison with 1 can see. There are two callers of
Stop, the observer and a user, who may call it at any moment or not at all; a
second join of the same thread ends the process, which is `aborted`.
`Pipeline` assumes that every module transmits in its own thread. The one that
does not, Inference, has a second producer behind it, and that is what
`Connector` is for.

### Lifecycle

The stream is reduced to its end, named by the number of the Start that sent it,
because an end that is pushed after EmptyQueue stays in its connector until the
next run. Modules may fail to open: Start then closes the first of those already
opened and, if none was, goes on. The observer of the last run is replaced by
the next Start, which joins its watcher.

### PipelineGraph, Retina and FramePath

`PipelineGraph` is one action per turn of the loops of BuildPipeline and Start; the
modules open in any order, because `modules_map` is unordered. A null pointer that
is dereferenced is the phase `crashed`. `FramePath` extends it: `main` runs
the decoder, and every frame is carried by TaskLoop, Process and TransmitData
of each module; a connector is a bounded queue and a Stop one step, as
`Connector`, `Pipeline` and `Lifecycle` have the details. It is the one module in
which all the parts of the program meet, and where a configuration decides
what happens; `MCFramePath` has 153 of them: every graph of three modules with
at most one successor each, unknown ones included, and others for what
parameters, files and images can do. A file that `cv::imread` cannot read gives
a frame with an empty Mat (`NoImage`), which a module that converts it does not
survive (`DetectCrash`, `CollectCrash`). A device that fails (`fails`) leaves
the faces of a batch to tasks without data (`NullData`), which end the process,
unless an earlier task of their batch threw (`RespondCrash`, `FinishCrash`).
Preprocessing on the device takes the frame's packet of the codec, which frames
of the OpenCV decoder do not have (`OnDevice`). `MainRun` is the OpenCV decoder
only: a source with decoder type codec (`Codec`) is built and opened, and what it
then sends is `DecoderCodec`, so the liveness property leaves it out.
`Retina` computes in fixed point, in quarters of a pixel, and scores in percent; a
feature map is the set of its cells above the threshold. Scores that are equal
come in any order, as `std::sort` leaves them. The loop of nms_cpu is a function
on the places of the sorted boxes: a box is dropped by an earlier one that was
kept (`Dropped`). What Postprocess promises stands next to it and does not use
that order: a choice of proposals that do not overlap and stand for all
(`Representative`), and the faces of its frontal boxes (`FacesOf`, `Answers`).

The quotient of nms_cpu is compared as the code does it: with an empty union it is
no number, or infinite, and the box is dropped; with a negative one it is not
above the threshold (`Overlapping`).

`ThreadPool` and `FramePath`, `Session` and `BatchCache`, `ServerApi` and
`Executor`, and `Connector` and `Lifecycle` are proved about in one module each.
They are independent of each other; so that they can be extended together, the
second of the two has its own names for the specification (`PathSpec`, `BatchSpec`,
`ExecutorSpec`, `LifeSpec`).

### ThreadPool

One worker's step at a time, to the granularity of the queue's lock and the
pool's mutex: a worker tests the queue and the flags under the mutex, then
sleeps; Push and Stop do not take the mutex. What a task throws ends in its
future and makes no difference to the pool. `server` says
which of the two pools it is. That of facealign has a queue in the order of the
pushes, a Stop that wakes nobody, and a Resize to fewer threads that destroys
joinable threads and ends the process (`ShrinkFatal`, `aborted`). That of the
infer server has a queue by priority, in which equals leave in any order, a
Stop that notifies, and a Resize that detaches workers (`Shrink`): nobody joins
those, so they and the tasks they hold may outlive the pool. Stop(true) returns
while such a task is running.

### Session, Executor, BatchCache, ServerApi

These four cut the infer server where its locks do. `Session` has the order of
the responses and leaves open in which order requests are finished; `Executor`
has the three condition variables between senders, dispatcher and engines, and
takes a request to be one batch; `BatchCache` has how pieces become batches,
with the alarms; `ServerApi` has the life of sessions and executors, and takes
a request to be one step of the pool. An engine has three processors in a row;
`Executor` takes them to be one unit of work per batch, because nothing but
`--task_num_` and the notification after it is seen by others. A piece has an
identity, its request and its number in it, which is what lets `BatchCache` say
that none is lost or doubled. ClearDiscard keeps the pieces of the requests that
were not discarded, in their order, and cuts batches of them anew (`Rebatched`).
In `Executor` the pieces give `processing_num` a meaning: it is the number of those
whose requests were counted by Upload and are not answered
(`PiecesOf(InProcess)`).

`Session` records for each tag the request that WaitTaskDone did not see because
the responder had taken it off the list (`overlooked`).

In `ServerApi` undefined behaviour (a use of a deleted executor, session or
request, or an index out of range) sets `broken`, and nothing happens after it.
The response task tests whether a request was discarded (`TestDiscarded`,
`IS/core/session.cpp:218`) and then calls its response. A RequestSync that times
out before the test is harmless, since its request is deleted without a response;
one that times out between the two is a race (`TooLate`).

### Inference and DecoderCodec

`Inference` has the TaskLoop thread that collects batches of `Batch` frames,
Response with its loop over the tasks and futures, Transmit, and the next
connector with its count, which EmptyQueue does not lower. The pipeline is
started `Runs` times; Close and Open reset neither the batch nor the responses
that are under way, and the pool of PostRetinObs is released with `free()`, so its
tasks vanish or the process ends (`Restart`). Exceptions of a task and failed
inferences are choices of the environment; a null pointer that is dereferenced
after a failed inference ends the process (`crashed`).
`DecoderCodec` has EasyDecode as an external part: it takes packets into a
bounded set of input buffers, delivers the frames in order into output buffers,
may refuse or throw at any packet, and calls ReceiveEos after the last frame.
What VideoParser makes of a file is `VideoIndex`, `Opens` and `Loop`: ParseLoop
compares the stream of a packet with that of the video, begins at a key frame,
and after a failed read goes on with the packet it has. A file whose video is not
the first stream, or without a key frame, makes it loop for ever.

## 3. Runs, bounds and what they show

All runs but the last search the whole state space without an error; the last is
meant to find one. Each property's comment in its module says what it is about.

| run | instance | distinct states | shows |
|---|---|---|---|
| `connector` | producers of 2 and 1 frames, `Capacity` 1, `SizeMax` 3, 1 restart | 103,313 | order per producer, one place for each frame, the count is exact and the queue at most one over its limit while updates do not overlap, and then all is delivered |
| `pipeline` | `N` 3, `F` 1, `Capacity` 1, a stop by the user at any time | 177,037 | the inductive invariant, refinement of `StreamChain`, nothing dropped before a user's stop, Stop ends, the run ends by itself unless updates overlap |
| `pool` | both pools, 2 tasks of different priority, up to 2 workers, all Resize and Stop calls | 240,024 | refinement of `TaskPool`; futures ready after Stop; ends unless one of two wake-ups is missed |
| `session` | 3 requests of up to 2 pieces, 1 tag | 40,265 | refinement of `OrderedResponses`; no use after delete; WaitTaskDone returns when the requests of its tag are answered, but for one in the responder's hands; all answered unless the window of `in_response_` is hit |
| `inference` | 2 runs of 3 frames, `Batch` 2, `Capacity` 1 | 225,974 | order over both runs, frames finished when transmitted, only the remainder held back and sent first in the next run, Close returns and every run stops |
| `lifecycle` | `N` 3, 3 starts, `run_id` of 5 bits | 62,858 | observers told only when their run is drained; undisturbed runs start and end clean; Start and destructor return |
| `decoder_codec` | 10 files of up to 5 packets, 1 input and 2 output buffers, `Batch` 2 | 53,138 | a beginning of the file's video and one end; all of it unless the sleep was too short or the decoder failed; with preprocessing on the device buffers are owned once; the end is sent |
| `batch_cache` | requests of 3 and 2 pieces, `BatchSize` 2 | 42,961 | no piece lost or doubled and an alarm for every incomplete batch (`BatchCacheInv`); every piece leaves |
| `executor` | requests of 1, 2, 1, 1 pieces, one thread sends three, 2 engines, `MaxLoad` 1, `MaxProcessing` 2 | 207,901 | each batch in one place; limit; answered unless one of four notifications is lost |
| `server_api` | 2 users, one of whom creates a session again, 2 names, 1 engine each, 6 threads | 204,165 | executors live as long as needed; sound unless one of three races; calls return, after a RequestSync that timed out too |
| `program` | 153 configurations, `Batch` 2 | 7,533 | the graph is the configured one; the observer told when all is through, unless links meet; faces distinct, in their image and warped by their own matrices; every chain ends; why the process may end early |
| `session_order` | 2 requests of 1 piece, 1 tag | (violation) | `EveryRequestAnswered` fails, see section 6 |

**Properties with a condition.** A name that ends in `UnlessRaced`,
`UnlessMissed`, `UnlessLate` or `UnlessAsleep` belongs to a property that fails
in the code as it is, and the condition names exactly the window in which it
does. The condition is a state predicate of its own (`Overlap`, `Missed`,
`Sleepy`, ...) next to the property. They say that the listed races are the
*only* ways for the promise to fail. Where a condition has several parts, each
was seen to be necessary: without it TLC finds a counterexample.

**Why the bounds are enough.**
- Queues have capacity 1 with two or three frames (the end of the stream
  included), so that they are empty, full and, with two producers, over-full.
- `SizeMax` 3 is the least value above capacity and overrun at which a wrapped
  count differs from all correct ones.
- Three modules are the program's own number and the least with one in the
  middle. For the safety properties of `Pipeline` the proofs remove all bounds.
- In `program` three modules give every shape in which RightMove can count
  wrongly: two links into one module, a cycle, a module that no link reaches. Overlapping
  boxes, equal scores, the borders of the image and an image larger than the
  limit of 1280 x 720 (128 x 72 in the instance) are in `MCFramePath`.
- Two pool threads and two tasks: one worker can be detached, asleep or between
  test and sleep while the other works, and the higher priority can come last.
- Three starts let an end of stream that one run left behind meet the run after
  the next. `run_id` has more bits than modules, as in the code, but so few that
  the bits that failed starts leave behind fill it.
- Three requests leave one in front, one in the response task's look-ahead and
  one arriving. Two runs of three frames in batches of two leave a rest that the
  second run completes.
  A request of three pieces with batches of two makes a full batch and a rest
  that another request completes.
- `Previous` in `MCExecutor` makes one thread send three requests in a row, and
  `MaxProcessing` 2 makes the limit bite.
- Six threads hold two executors at a time and leave no room for a third.
  Only one of the two users creates a session again: the users are alike, so that
  the other one's second session is the same behaviour with the names swapped.

Deadlock is checked in the runs of `Connector`, `Pipeline` and `Inference`, which
state their end by a stuttering step or do not stop; in the others every thread
may be done, or a lost wake-up that the code really has may leave all asleep,
and the liveness properties say when that does not happen.

## 4. Fairness

`FairSpec` adds weak fairness for each thread of the code by itself: the
scheduler lets it run, and none of the loops can be left by the operating
system. There is no fairness for what need not happen: a stop by the user, a new
request, a discard, a timeout, a failure, a spurious wake-up, a module that does
not open, a decision of a user to call a function.

A loop that polls (TransmitData, TaskLoop's GetData, the watcher) is a step that
leaves the state as it is or goes back to its head; weak fairness lets it poll
on, and it leaves the loop because the condition, once true, stays true or is
made true again.

Strong fairness is used where a thread waits for a mutex that others take again
and again: `CachePush` in `Executor` (`cache_mutex_` is taken by the dispatcher
each time round) and the steps in `ServerApi` that need `executor_map_mutex_`.
POSIX mutexes do not promise it, but without it no call can be shown to return;
the mutexes are held for short, bounded times except where `CallsReturn` says so.

## 5. Proofs

Each `...Proofs` module extends the modules it is about; `FacesProofs` also
extends `ProgramProofs`. The proofs hold for all values of the constants that
satisfy the named assumptions, and TLC evaluates these assumptions in the
component's run. Every safety property of a passing run is proved.

### Pipeline

`PipelineProofs` proves, for every number of modules `N`, every length `F` of
the stream, every capacity and every width of `size_t`, whenever a user stops
it or never, from the assumptions `PipelineAssumption` and `CapacityAssumption` only:

| theorem | states |
|---|---|
| `TypeCorrect` | `[]TypeOK` |
| `Invariance` | `[]IInv`, the inductive invariant |
| `InOrderCorrect` | every module processes frames 1, 2, 3, ... without gap or repetition |
| `DrainedCorrect` | the observer is told only when every module has processed all frames |
| `RightMoveCorrect` | no two threads are in the unlocked RightMove |
| `QuietCorrect` | when `running` becomes false no TaskLoop thread is left |
| `NothingDroppedCorrect` | before a user calls Stop no step drops a frame |
| `ImplementsStream` | `Spec` implements `StreamChain` |

**The invariant.** `InOrder` and `DrainedBeforeStop` are not inductive: they say
nothing of the queues, of frames in the hands of a thread, or of `run_id`. `IInv`
adds:

- `PlaceOK`: where a thread of its kind can be (Source pops nothing, the last
  module pushes nothing, only the end of the stream brings a thread to RightMove).
- `HandOK`: a thread that is about to process holds the next frame, one that
  transmits holds the frame it processed last.
- `QueueOK`: as long as nothing has been lost in front of a module (`Intact`),
  its queue holds exactly the frames between what was sent and what was taken.
- `AheadOK`: a module has processed only what was sent to it. It holds without
  `Intact` too, and this is what keeps the order after a stop has emptied a queue.
- `EosOrder`: the end of the stream is at a module only when all modules
  before it are through.
- `RunIdOK`: `run_id` has one bit more than there are modules that have not yet
  shifted it, and what a thread has loaded of it is still its value.
- `StopOK`: nobody stops a connector without having been allowed to.
- `QuietWhenStopped`.

Nothing in it mentions `current_size`: the order, the draining and the
refinement do not depend on the racy count. Only liveness does.

**The argument.** `PlaceInv` (types and places) is shown inductive first. One
lemma per action of a module's thread, `Flow...`, then shows what it does to hands
and queues; `NothingLeft` says that once the observer may stop, every queue is
empty and every thread is done, so an observer's stop disturbs nothing.
`Exclusive` follows from `EosOrder`; with it the load and the store of `run_id`
belong to one thread, and `RunIdOK` is preserved. `InvStep` puts them together.
TLC checks `IInv` as an invariant of run `pipeline`.
`ImplementsStream` maps a `Process` step to `Advance`, the end of a Stop to
`StopStream`, and everything else to a stutter.

### Thread pools

`ProgramProofs` proves, for every set of tasks, every
priority and every number of workers, for both pools, from `PoolAssumption` only:

| theorem | states |
|---|---|
| `PoolInvariance` | `[]IInv` of `ThreadPool` |
| `PoolInvCorrect` | `[]PoolInv`: what Stop leaves behind |
| `ImplementsPool` | `Spec` implements `TaskPool` |

`StopResolves` says nothing of the time before Stop returns. `IInv` adds:

- `HoldOK`: a task is held by one worker exactly while it is running, and a
  worker holds one only from the pop to the end of its run.
- `QueueOK`: the queue holds exactly the tasks that wait, each once. A task that
  nobody pushed yet is new, so that pushing it does not start it a second time.
- `LiveOK`: a worker beyond `threads_` has ended or was detached.
- `StopOK`: between the join and the return no joined worker runs, and behind the
  last ClearQueue no task pushed before Stop waits.

`RemoveFacts` and `DropFacts` say what is left of a queue without one of its
places; the rest is one lemma per kind of step: a pop (`TakeInv`), a worker that
goes on without a task (`MoveWorker`), a notification (`WakeFacts`), a turn of
Stop (`QuietStop`). At the return of Stop a task pushed before it is not new and
does not wait; if it is running, `HoldOK` names the worker, which has not ended,
so `LiveOK` makes it a detached one. The refinement maps a pop to `Begin`,
ClearQueue to `Drop` and the call of Stop to `PoolStop`. TLC checks `IInv` as a
part of `PoolInv` in run `pool`.

### Connector

`KernelProofs`, for every finite set of producers, every number of frames of
each and of restarts, every capacity and every width of `size_t`, from
`CapacityAssumption` and `ProducersAssumption`. The second says that the consumer
is not a producer and that a count of one frame per producer over the capacity
still fits into a `size_t`: with 64 bits and a `max_size_` given in a
configuration it does.

| theorem | states |
|---|---|
| `ConnectorInvariance` | `[]IInv`, the inductive invariant |
| `ConnectorInvCorrect` | each frame is in exactly one place, none lost before the first stop |
| `InOrderCorrect` | the frames of a producer stay in order |
| `CountExactCorrect` | the count, while no two updates have overlapped |

A push may be counted after the pop of the same frame, so that `current_size_`
wraps below zero in between even without a race. `CountExact` therefore states it
modulo `SizeMax + 1`: the frames queued, those popped and not yet counted down,
those EmptyQueue took, less those pushed and not yet counted up. `IncRemainder`
and `DecRemainder`, from `RemainderUnique`, make the wrapping increment and
decrement steps of that number. The bound on the queue is not inductive; `Bounded`
also counts the producers between the test of PushData and their push. The
test is of use only as long as the number has not wrapped upwards
(`FullRemainder`), which is what the assumption on `SizeMax` is for. `OneUpdate`
says that without a race at most one thread is between a load and a store of the
count, and that what it loaded is still the value.

The order is that of one sequence, `Stream`: what was received, what the consumer
has in hand and what is queued. A step moves the borders inside it, appends a
frame at its end or takes one out of the middle. `PlacesOK` is the statement of
`Accounted` without a count: a frame its producer is done with is in the stream,
emptied or dropped, and never in two of them.

### Session

`RequestProofs`, for every number of requests, pieces and tags, from
`SessionAssumption`.

| theorem | states |
|---|---|
| `SessionInvariance` | `[]IInv` |
| `SessionInvCorrect` | answered only when finished; WaitTaskDone returns when the requests of its tag are answered and deleted, but for one in the responder's hands; no use after delete |
| `ImplementsResponses` | `Spec` implements `OrderedResponses` |

`IInv` has a part for every thread that shares the list: `ListOK` (the list is
the numbers behind the last one taken up to the last one sent), `AnswerOK` (the
responder has the request taken last, and every one before it is deleted),
`CallerOK` (the thread that finishes a request leaves it before it is deleted, and
only finished ones are taken), `WaitOK` (what a waiter asked for is taken, or not
behind the request it waits for, whose deletion therefore means that of all of
them) and `EndOK` (the destructor has returned only
from an empty list without a responder). No use after deletion needs `AnswerOK`
and `CallerOK` together: the responder deletes what it has waited for under
`done_mutex_`, and when the destructor returns all that was sent is deleted.

The refinement maps Send to `Accept`, the responder's test of the discard flag to
`Answer` or, for a discarded request, to `Dismiss`, the end of a response to
`Answered`, the return of the destructor to `Vanish` and everything else to a
stutter.

### Batches of the cache

`RequestProofs`, for every list of requests, every number of pieces of each and every
batch size, from `BatchCacheAssumption`.

| theorem | states |
|---|---|
| `BatchCacheCorrect` | `[]BatchCacheInv`: no piece lost or doubled, legal batches, an alarm for an incomplete one |

`Accounted` and `BatchHasAlarm` are inductive together with `HandOK`: a thread holds
no more than a batch, and the timer holds one only between its Emit and its
push. The step that needs work is ClearDiscard, which takes all batches apart and
cuts the rest anew. The pieces that are kept are numbered by their rank among the
kept positions (`RankBijection`, `PositionRanks`); cutting that sequence into
chunks of the batch size meets each rank once (`CutOnce`, `CutAll`), so
`RebatchFacts` says that the new cache holds the same pieces, each once.

### API of the infer server

`ServerProofs`, for every set of users and names, every number of engines, of
threads and of sessions, from `ServerApiAssumption`.

| theorem | states |
|---|---|
| `ServerInvCorrect` | `[]ServerInv`: who needs an executor of the map, and what a request needs |
| `SoundUnlessRacedCorrect` | nothing that is gone is used, and executors have threads, unless there was one of three races |

`ServerInv` needs `NotLeftOver`, which names the user who will link to or
delete an executor without sessions, and `MutexOK`: whoever is between its
unlinking and its deletion holds `executor_map_mutex_`. `SoundUnlessRaced` is a
temporal formula whose premise excludes three races always: a CreateSession
between CreateExecutor and Link while the last other session of that executor is
destroyed (`Overlap`), a RequestSync that times out after the response task has
tested its request (`TooLate`; every other timeout is inside the theorem), and a
pool that is shrunk while it still counts detached threads (`Stale`).
`Sound` is inductive
under `NoRace` in both states of a step and says, as long as there was none, that
whoever has an executor has a living one (`LiveOK`), that one to be erased
has no sessions (`EraseOK`), that sessions are linked (`LinkedOK`), that the
caller of a RequestSync waits until its response (`SyncOK`), and who will grow an
empty pool (`GrowOK`).

### Executor

`ServerProofs`, for every list of requests and of their pieces, every order in which
threads send them, every number of engines, load and limit, from
`ExecutorAssumption`.

| theorem | states |
|---|---|
| `ExecutorInvCorrect` | `[]ExecutorInv`: a batch is in one place; the count; nothing left behind ~Executor |
| `LimitUnlessRacedCorrect` | less than one request beyond the limit, unless two senders race |

`SentOK` and `PlacesOK` say that a request that is cached, packed, with an
engine or answered was sent and is in one of these places only. `NumOK` is the
count: `processing_num` equals the number of pieces of the requests in process,
which Upload adds and the end of the request takes out. `KeptFacts` is what
ClearDiscard leaves of the cache: the requests that were not discarded, each
once. `PackOK` ties the batch in the dispatcher's hand to its place, and
`QuietOK` says what the destructor has waited for. `LimitOK` is inductive only
while `OneAtATime` holds before and after a step: it adds `Room`, that a sender
between the test of WaitIfCacheFull and the count of Upload still finds the room
it has seen.

### Lifecycle

`KernelProofs`, for every number of modules, of starts and of stops, from
`LifecycleAssumption`: `run_id` has more bits than there are modules.

| theorem | states |
|---|---|
| `ToldWhenDrainedCorrect` | an observer is told only when all modules have passed its own end of stream |
| `LifecycleInvCorrect` | runs that nobody disturbs end clean |

The difficulty is that an end of stream which an old run has left in a connector
is counted by the same `run_id`. `Counted` says where it can be. At most one end of
stream is in the connectors (`Only`), and `run_id` always has a bit more than there
are modules which that one has still to pass (`ToGo`).

- `RestOK`: between the runs an end may be left over, but only if the observer of
  the last run was not told.
- `WaitOK`: Start then opens all modules, which adds their bits to `run_id`, and
  goes on to replace that observer, whose destructor does not return
  (`kernel/src/face_observer.cpp:9`). What is left over cannot bring `run_id` down
  to 1.
- `RunOK`: a run that gets past Start therefore has no end of stream in its
  connectors but its own, and `run_id` reaches 1 only with the last module.

So the hang of Start after a stop by the user is also what keeps the ends of
two runs from being counted together. `Flow` has where the main thread, the
observers and the tasks can be. For undisturbed runs `UndisturbedOK` gives the
value of `run_id` for every place of the main thread, and the place of the end of
stream for every value of `run_id`.

### The program

`ProgramProofs`, for every set of configurations, every finite set of module names
and every batch size, from `FramePathAssumption` (the registry has Inference, and
the null pointer is no class), `ConfigurationsAssumption` (lists are lists, an image that
can be read has a positive size, the network's cells are those of existing anchors,
and the classifier's rectangles lie in their image; files may be unreadable and the
device may fail) and `RetinaAssumption`.

| theorem | states |
|---|---|
| `PathInvariance` | `[]PathIInv`, the inductive invariant |
| `GraphInvCorrect` | a consistent configuration becomes its graph; links agree; capacities hold |
| `ToldWhenThroughCorrect` | the observer is told when every module is through, unless links meet |
| `CrashExplainedCorrect` | the process ends early only for the listed reasons |

`PathIInv` consists of

- `GraphIInv`: `MapsOK` (what each map is defined on in each phase), `BuildOK` (while
  BuildPipeline runs, the graph is that of the modules handled so far) and
  `CountsAgree` (each link is as often in the outputs of the one module as in the
  inputs of the other; `LinksAgree` alone would be lost when a name is used twice).
- `StartOK`: `run_id`, counted in bits, and the number of modules that are through
  are together one more than the number of open modules.
- `MainOK` and `FlowOK`: where main is, and that every number anywhere is that of a
  frame; Inference holds data frames only, in requests of full batches.
- `EndsOK`: unless links meet, the end of the stream comes to a module once, from its
  only predecessor, and is queued, under way, or has been counted. It is what
  makes the count of `StartOK` come down once for each module.
- `MissingOK`: an image is missing only if its file cannot be read; there are requests
  and late tasks only with Inference; a task has no data only if the device
  fails or its image is missing.
- `FacesOK`, `Bounded`, `ToldWhenThrough` and `CrashExplained`.

`FlowKeeps` says what the threads leave alone (the graph), and each action has a
lemma for each part it can disturb.

### Faces

`FacesProofs`, under the same assumptions.

| theorem | states |
|---|---|
| `PostprocessAnswers` | whatever the network finds, Postprocess returns what `Answers` promises |
| `FacesInImageCorrect` | every face lies in its image, those still to be added too |
| `OrderInvariance` | `[](PathIInv /\ MarksOK)` |
| `FacesSoundCorrect` | `[]FacesSound`: the faces are those found, each warped by its own matrices |

`PostprocessAnswers` is about the algorithm. `NmsFacts` shows that the boxes kept do not
overlap and that each one dropped overlaps an earlier, hence at least as good, one;
`CutOutFacts`, that the faces cut out are the frontal ones up to the first that is not
in the image; `Edges`, that clipping a box and rounding it agree. An induction over
the length of a sequence is done with the well-founded minimum of a set of
numbers (`NatSetInduction`), so that no operator has to be given to a theorem of
the library, and `Nms` and `FlattenSeq` can be reasoned about.

`FacesSound` relates a frame behind Inference to what Postprocess found in it, so it
needs to know that no frame comes to Inference twice or after it was answered. That
is an order. `MarksOK` says that, unless links meet, there is a number for each
module, its mark, such that

- `OrderOK`: every frame that came to the module is at most its mark, and every
  one that will come is above it; what a module holds and what it has given on is
  rising, each link by itself (`LocalOK`, `LinkOK`).
- `FoundOK`: a frame above the mark of Inference, or held by it, has no face and no
  task (`Untouched`); one that it has given on is `Done`: it has its answer, or it is
  empty and exactly one task has the answer for it, or no data for it.
- `WarpedOK`: a frame that was warped came before those that the module holds, and
  `src_points` is not empty only behind an earlier frame.

Each step of the program is shown to move the marks upwards at most (`StepOK`), and
what comes to a module to be above its old mark. From this follow `Untouched` and
`Done` for the next state, and that the warp of a frame writes its matrices once.
The mark is quantified in the invariant and not a variable of the model: no
code keeps it.

The hypotheses in `FacesSound` exclude what the code does not promise: two detectors
in one graph join their lists of faces, a module that is linked to twice sees a
frame twice, and with another number of outputs than nine Postprocess refuses.

### Source

`DecoderProofs`, for every set of files, every length and every number of buffers
with which a batch fits into the output buffers, from `CodecAssumption`. The
part of the assumption about files says what a packet consists of; which streams,
which key frames, and whether FFmpeg fails behind the last packet, is left open.

| theorem | states |
|---|---|
| `DecoderInvariance` | `[]IInv` |
| `DecoderInvCorrect` | buffers are owned once |
| `CompleteUnlessLateCorrect` | what is sent, and when it is all |

`StreamOK` says that the frames sent, those held in RunLoop, those waiting in
`frames_` and those inside the decoder are four increasing sequences, one behind
the other, of exactly those accepted packets that ParseLoop has read. What is sent
therefore has no gap. `EndOK` and `LastOK` follow the end: the decoder calls
ReceiveEos when it is empty, and if neither the sleep was too short (`late`) nor the
decoder failed, RunLoop ends when nothing waits. `BufferOK` says that a frame has a
buffer from its decoding on.

### Inference

`InferenceProofs`, for every number of runs, of frames and of frames in a batch and
every capacity, from `InferenceAssumption`.

| theorem | states |
|---|---|
| `InferenceInvariance` | `[]IInv` |
| `InferenceInvCorrect` | a frame that left was finished, or a task of its batch threw |
| `OutInOrderCorrect` | order over all runs; the end of the stream after all full batches |
| `OnlyRemainderHeldCorrect` | what is held back is what fills no batch |

A run starts with a batch that the run before it has begun, so requests do not
begin at multiples of anything within a run. Over all runs they do: `LoopOK`
says that request `k` of a run holds the frames behind `Pos(Base + k - 1)`, where
`Base` is the number of requests of all earlier runs and `Pos` multiplies by
`Batch`. `BaseFacts` and `DivPos` are the arithmetic of this. `SessionOK` ties the
session to the place of Response; `Pushed` and `Transmitted` say how far Response
has come, as frame numbers. `PoolOK`: a frame beyond `Pushed` is new, and of
every request that is being transmitted or over, all tasks are done or one has
thrown (`Settled`). `OutOK`: what was processed, what is queued and what is lost are
together the frames up to `Transmitted`, in order. `EndsOK` has the end of the
stream, once per run: `through` counts the ends that the next module has processed.

### What is not proved

- Liveness (`DeliveredUnlessRaced`, `EndsUnlessRaced`, `StopEnds`, `Closes`,
  `RunsEnd`, `CallsReturn` and the others): the proof system has neither
  fairness nor `ENABLED`. They are model-checked only, on the instances of section 3.
- That the conditions of these liveness properties are necessary: TLC finds a
  counterexample without them.
- Every proof is about a module, not about the code: that a module is faithful is
  argued in section 2, and the assumptions it makes about its
  environment (`OrderedResponses` and `TaskPool` in `Inference`, whole pushes in
  `Lifecycle`) are met by the modules that implement these.

The invariants the proofs use are state predicates, and except for `MarksOK`, which
quantifies over all marks, TLC can check each as an `INVARIANT` of the component's
run.

## 6. Disagreements with what the repository says

**A request may never be answered** (`session_order`). The response task finds
that the request at the head of the list is not finished, releases
`request_mutex_`, and then resets `in_response_` (`IS/core/session.cpp:239-243`).
A request that finishes in between calls CheckAndResponse, whose
`compare_exchange` fails (`:206-207`), and returns. Nobody calls it again for
this request, so it stays in the list for ever, and the destructor of the session
waits for ever. The test `infer_server/tests/api/test_request.cpp:496` waits for
a response to every request it sent. In the counterexample there is no request
after it that would repair the loss; `AnsweredUnlessMissed` in run `session`
shows that this window is the only one.

The other weaknesses the conditional properties describe contradict nothing the
repository states; they are listed as hazards, and what the runs show of them is:

- *Construction* (`program`). ConfigsFromJsonFile fills a copy of its argument
  (`kernel/src/face_config.cpp:96`): a pipeline from a file is empty and `main`
  ends in a null pointer, as it does for an unknown class, successor or
  processor. A name used twice replaces the connector and links twice; only the
  first successor is linked. With two links into a module, or a cycle, the observer
  is told too early; with a module that no link reaches, never.
- *Waiting* (`session`). `WaitTaskDone` is documented as waiting until the task with
  the tag is done (`3rdparty/easydk/infer_server/include/infer_server.h:625`). It looks
  for the last such request in `request_list_` and returns at once when there is
  none (`IS/core/session.h:109`), also while the response to that request is still
  running, because the responder has taken it off the list before. `WaitedIsDone`
  exempts this one request and shows that there is no other window.
- *Sources.* An image that cannot be read goes on as an empty Mat (`program`,
  `modules/decoder/src/source.cpp:136`). The second image of a directory is read through a pointer that the
  first frame has taken (`program`). A packet that the decoder refuses counts as
  the end of the file; a file whose video is not its first stream, or has no key
  frame, is never ended (`decoder_codec`).
- *Faces* (`program`). Boxes are limited to 1280 x 720 and not to the frame: in a
  smaller one a face across the lower edge throws, and the faces behind it are
  lost; in a larger one the rectangle is not the box. `src_points` is never
  cleared, so frames are warped with matrices of earlier ones. Faces without
  landmarks (those of OpencvDetect) or without pixels throw in TaskLoop, which
  ends the process.
- *Inference.* The frames that do not fill a batch wait for the next run; a failed
  inference ends the process unless an earlier frame of its batch threw
  (`inference`, `program`); preprocessing on the device uses a packet that frames of
  the OpenCV decoder do not have (`program`); a
  connector that was emptied when full takes no frame again.
- *Pools.* A worker of facealign that sleeps keeps Stop from returning; a worker
  of the infer server that was detached is not waited for.

Noticed, and not in a model: `WaitTaskDone` called twice for a request takes its
future twice (`IS/core/session.h:112`); between `--task_num_` and
`done_notifier_` a task still uses an engine that `~Engine` no longer waits for
(`IS/core/engine.cpp:96`; the windows of `ending` in `Executor`); `is_rtsp_` is
always false, so the interrupt callback of FFmpeg never acts, `decoder_` is never
deleted and `repeat_time` is 0 (`modules/decoder`), which makes the code behind
them unreachable.

## 7. What is not modelled

| part | why |
|---|---|
| Priority | 64-bit constants; `ThreadPool` takes priorities as they come |
| buffer pool (MluMemoryPool), Buffer | allocation on the device, used only inside the processors of the infer server |
| ModelManager, models | a map under one mutex, and calls of the runtime |
| CacheStatic | no session of this program uses it |
| loop timers | only print statistics |
| processors of the infer server | calls of the neural-network runtime, one batch at a time |
| pixels and what OpenCV, FFmpeg and the network compute | external; their results are given by the configuration, their failures are choices |
| ParseByJSONFile, ParamRegister | nothing calls them |
| registration before main | the sets `Registered` and `Processors` of `PipelineGraph` |
| reader-writer lock, spin lock | what they protect is modelled; the wrappers are one call each |
| event bus, `face_mempool` | commented out or unused |
| rapidjson, easydk binary, logging | third party; EasyDecode is the environment of `DecoderCodec` |

Within the modelled parts the abstractions are: pixels, tensors and messages are
numbers; a sleep is a step that may take any time; memory reads and writes of
atomics are sequentially consistent; a race on a plain integer has the outcomes
of an interleaving of loads and stores.

What could come next:

1. **Compose.** `Connector` with two producers inside the chain of `Pipeline`
   (Inference's response task as the second transmitting thread), to the
   detail of `current_size_`; `FramePath` has this composition with whole
   pushes, and its proofs do not depend on the count.
2. **The rest.** MluMemoryPool and ModelManager as one module on what the
   infer server shares between sessions.
