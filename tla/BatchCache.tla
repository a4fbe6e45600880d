----------------------------- MODULE BatchCache -----------------------------
(***************************************************************************)
(* The cache of an Executor with the dynamic strategy: CacheDynamic, its   *)
(* Batcher and the Batcher's Timer (core/cache.h, util/batcher.h,          *)
(* util/timer.{h,cpp} of the infer server).                                *)
(*                                                                         *)
(* The sender of a request puts its pieces into the batcher one by one.  A *)
(* batch is emitted when it is full, or by the alarm that its first piece  *)
(* has set, and goes to the cache, where the dispatcher takes it.  A       *)
(* request may be discarded at any time; the dispatcher finds that out.    *)
(* When nothing is left the cache is stopped and destroyed.                *)
(*                                                                         *)
(* A piece is <<r, k>>, the k-th of request r, and requests are known by   *)
(* their senders.  What runs under cache_mutex_ of the batcher, of the     *)
(* cache or under the mutex of TimeCounter is one step.  The batch timeout *)
(* is not 0: without a timeout an incomplete batch waits for its next      *)
(* piece.  The condition variable of the cache, on which the dispatcher    *)
(* waits, is in module Executor.                                           *)
(***************************************************************************)
EXTENDS Integers, Sequences, SequencesExt

CONSTANTS Pieces,          \* the number of pieces of each request
          BatchSize        \* batch_size_

ASSUME BatchCacheAssumption == /\ Pieces \in Seq(Nat \ {0})
                               /\ BatchSize \in Nat \ {0}

Senders == DOMAIN Pieces   \* of one request each
AllPieces == UNION {{r} \X (1 .. Pieces[r]) : r \in Senders}
Timer == 0                 \* the thread of TimeCounter
Threads == Senders \union {Timer}

VARIABLES added,           \* pieces of each request given to the batcher
          discarded,       \* is_discarded_ of each request
          done,            \* the pieces dispatched or let go
          batch,           \* cache_ of the batcher
          hand,            \* the batch that a thread has taken out of it
          timer_id,        \* timer_id_ is not 0
          armed,           \* the event that it names is in events_
          stray,           \* number of events there that it does not name
          tpc,             \* where the timer thread is
          cache,           \* cache_ of the cache
          cpc              \* whether the cache is stopped and destroyed

pieceVars == <<added, discarded, done>>
timerVars == <<timer_id, armed, stray, tpc>>
batchVars == <<pieceVars, batch, hand, timerVars, cache, cpc>>

BatchInit ==
    /\ added = [r \in Senders |-> 0]
    /\ discarded = [r \in Senders |-> FALSE]
    /\ done = {}
    /\ batch = << >>
    /\ hand = [t \in Threads |-> << >>]
    /\ timer_id = FALSE /\ armed = FALSE /\ stray = 0 /\ tpc = "loop"
    /\ cache = << >>
    /\ cpc = "run"

Given == UNION {{r} \X (1 .. added[r]) : r \in Senders}

-----------------------------------------------------------------------------
(* The senders and the batcher.                                            *)

\* Mutant of Rearm: without the Cancel, NotifyAfter finds the timer busy and
\* does nothing.
RearmIdle ==
    /\ timer_id' = TRUE
    /\ armed' = (armed \/ ~timer_id)
    /\ UNCHANGED <<stray, tpc>>

\* Timer::Cancel, then Timer::NotifyAfter: the event that timer_id_ names is
\* removed, if it is still there, and a new one is added.
Rearm == timer_id' = TRUE /\ armed' = TRUE /\ UNCHANGED <<stray, tpc>>

\* cache_.size() > batch_size_ - 1
IsFull(b) == Len(b) > BatchSize - 1

\* Batcher::AddItem, on a thread that holds no batch.  first_item_ is true iff
\* the batch is empty.  A full batch is taken out.
AddItem(r) ==
    LET b == Append(batch, <<r, added[r] + 1>>)
    IN  /\ cpc = "run"
        /\ added[r] < Pieces[r]
        /\ hand[r] = << >>
        /\ added' = [added EXCEPT ![r] = @ + 1]
        /\ IF batch = << >> THEN Rearm ELSE UNCHANGED timerVars
        /\ IF IsFull(b)
           THEN batch' = << >> /\ hand' = [hand EXCEPT ![r] = b]
           ELSE batch' = b /\ UNCHANGED hand
        /\ UNCHANGED <<discarded, done, cache, cpc>>

\* The notifier of the batcher: the batch that t has taken goes to the cache.
Push(t) ==
    /\ hand[t] # << >>
    /\ hand' = [hand EXCEPT ![t] = << >>]
    /\ cache' = Append(cache, hand[t])

SenderPush(r) == Push(r) /\ UNCHANGED <<pieceVars, batch, timerVars, cpc>>

-----------------------------------------------------------------------------
(* The thread of TimeCounter.                                              *)

TimerAt(from, to) == tpc = from /\ tpc' = to

\* An event is due: it is erased from events_ and its notifier is called.
Fire ==
    /\ TimerAt("loop", "emit")
    /\ \/ armed /\ armed' = FALSE /\ UNCHANGED stray
       \/ stray > 0 /\ stray' = stray - 1 /\ UNCHANGED armed
    /\ UNCHANGED <<pieceVars, batch, hand, timer_id, cache, cpc>>

\* Mutant of Emit: the batch is copied, not swapped.
EmitCopy ==
    /\ TimerAt("emit", "push")
    /\ hand' = [hand EXCEPT ![Timer] = batch]
    /\ UNCHANGED <<pieceVars, batch, timer_id, armed, stray, cache, cpc>>

\* Batcher::Emit takes the batch out, be it empty.
Emit ==
    /\ TimerAt("emit", "push")
    /\ hand' = [hand EXCEPT ![Timer] = batch]
    /\ batch' = << >>
    /\ UNCHANGED <<pieceVars, timer_id, armed, stray, cache, cpc>>

TimerPush ==
    /\ TimerAt("push", "clear")
    /\ \/ Push(Timer)
       \/ hand[Timer] = << >> /\ UNCHANGED <<hand, cache>>
    /\ UNCHANGED <<pieceVars, batch, timer_id, armed, stray, cpc>>

\* Mutant of TimerClear: the event that is forgotten is removed as well.
TimerClearCancels ==
    /\ TimerAt("clear", "loop")
    /\ timer_id' = FALSE
    /\ armed' = FALSE
    /\ UNCHANGED <<pieceVars, batch, hand, stray, cache, cpc>>

\* timer_id_.store(0), although it may name a newer event by now: that event
\* goes on without a name.
TimerClear ==
    /\ TimerAt("clear", "loop")
    /\ timer_id' = FALSE
    /\ armed' = FALSE
    /\ stray' = IF armed THEN stray + 1 ELSE stray
    /\ UNCHANGED <<pieceVars, batch, hand, cache, cpc>>

-----------------------------------------------------------------------------
(* Pop, by the dispatcher.                                                 *)

IsDiscarded(p) == discarded[p[1]]
HasDiscarded(b) == \E i \in DOMAIN b : IsDiscarded(b[i])

Pop ==
    /\ cache # << >> /\ ~HasDiscarded(Head(cache))
    /\ done' = done \union ToSet(Head(cache))
    /\ cache' = Tail(cache)
    /\ UNCHANGED <<added, discarded, batch, hand, timerVars, cpc>>

\* The pieces of a list of batches, by their places <<batch, index>>.
Positions(c) == UNION {{i} \X DOMAIN c[i] : i \in DOMAIN c}
PieceAt(c, x) == c[x[1]][x[2]]
Content(c) == {PieceAt(c, x) : x \in Positions(c)}
NotAfter(x, y) == x[1] < y[1] \/ (x[1] = y[1] /\ x[2] <= y[2])
Upto(S, x) == {y \in S : NotAfter(y, x)}

Discarded == {p \in Content(cache) : IsDiscarded(p)}

\* What is not discarded, in its order, in batches of BatchSize, the last of
\* which may be smaller.
Rebatched ==
    LET at == {x \in Positions(cache) : ~IsDiscarded(PieceAt(cache, x))}
        n == Cardinality(at)
        Nth(k) == CHOOSE x \in at : Cardinality(Upto(at, x)) = k
        Size(b) == IF b * BatchSize <= n THEN BatchSize
                                         ELSE n - (b - 1) * BatchSize
    IN  [b \in 1 .. (n + BatchSize - 1) \div BatchSize |->
            [i \in 1 .. Size(b) |-> PieceAt(cache, Nth((b - 1) * BatchSize + i))]]

\* Pop finds a discarded piece in the front: ClearDiscard lets go every
\* discarded piece of the cache and rebatches the others.  If there are any,
\* Pop takes the first of the new batches.
ClearDiscard ==
    /\ cache # << >> /\ HasDiscarded(Head(cache))
    /\ IF Rebatched = << >>
       THEN cache' = << >> /\ done' = done \union Discarded
       ELSE /\ cache' = Tail(Rebatched)
            /\ done' = done \union Discarded \union ToSet(Head(Rebatched))
    /\ UNCHANGED <<added, discarded, batch, hand, timerVars, cpc>>

-----------------------------------------------------------------------------
(* Discards and the end.                                                   *)

Discard(r) ==
    /\ \E k \in 1 .. added[r] : <<r, k>> \notin done
    /\ ~discarded[r]
    /\ discarded' = [discarded EXCEPT ![r] = TRUE]
    /\ UNCHANGED <<added, done, batch, hand, timerVars, cache, cpc>>

\* ~Executor, when the last session has its answers: no request is on its way.
\* CacheDynamic::Stop calls Emit, which finds nothing to emit.
Stop ==
    /\ cpc = "run"
    /\ \A r \in Senders : added[r] \in {0, Pieces[r]}
    /\ done = Given
    /\ cpc' = "stopped"
    /\ UNCHANGED <<pieceVars, batch, hand, timerVars, cache>>

\* ~CacheDynamic, ~Batcher and ~Timer, which cancels the event that timer_id_
\* names, and no other.
DestroyCache ==
    /\ cpc = "stopped"
    /\ cpc' = "gone"
    /\ timer_id' = FALSE /\ armed' = FALSE
    /\ UNCHANGED <<pieceVars, batch, hand, stray, tpc, cache>>

-----------------------------------------------------------------------------
TimerStep == Fire \/ Emit \/ TimerPush \/ TimerClear

BatchNext == \/ \E r \in Senders : AddItem(r) \/ SenderPush(r) \/ Discard(r)
             \/ TimerStep
             \/ Pop \/ ClearDiscard
             \/ Stop \/ DestroyCache

\* The threads run and alarms become due.
BatchFairness == /\ \A r \in Senders : WF_batchVars(SenderPush(r))
                 /\ WF_batchVars(TimerStep)
                 /\ WF_batchVars(Pop \/ ClearDiscard)

BatchSpec == BatchInit /\ [][BatchNext]_batchVars
BatchFairSpec == BatchSpec /\ BatchFairness

-----------------------------------------------------------------------------
BatchTypeOK ==
    /\ added \in [Senders -> Nat] /\ \A r \in Senders : added[r] <= Pieces[r]
    /\ discarded \in [Senders -> BOOLEAN] /\ done \subseteq AllPieces
    /\ batch \in Seq(AllPieces) /\ cache \in Seq(Seq(AllPieces))
    /\ hand \in [Threads -> Seq(AllPieces)]
    /\ timer_id \in BOOLEAN /\ armed \in BOOLEAN /\ stray \in Nat
    /\ tpc \in {"loop", "emit", "push", "clear"}
    /\ cpc \in {"run", "stopped", "gone"}

\* Every piece that was given to the batcher is in one place only, and there
\* only once: in the batcher, with a thread that emits a batch, in the cache, or
\* out of it.  No batch that is emitted or rebatched is empty or larger than
\* BatchSize.  And what is destroyed is empty, the batcher as ~CacheDynamic
\* checks, and no thread is about to push into it.
Held(t) == ToSet(hand[t])
OnePlace ==
    /\ done \intersect (ToSet(batch) \union Content(cache)) = {}
    /\ ToSet(batch) \intersect Content(cache) = {}
    /\ \A t \in Threads :
          /\ Held(t) \intersect (done \union ToSet(batch) \union Content(cache)) = {}
          /\ \A u \in Threads \ {t} : Held(t) \intersect Held(u) = {}
Once ==
    /\ IsInjective(batch) /\ \A t \in Threads : IsInjective(hand[t])
    /\ \A x, y \in Positions(cache) : PieceAt(cache, x) = PieceAt(cache, y) => x = y
Accounted ==
    /\ Given = done \union ToSet(batch) \union Content(cache)
               \union UNION {Held(t) : t \in Threads}
    /\ OnePlace /\ Once
    /\ \A b \in ToSet(cache) : Len(b) \in 1 .. BatchSize
    /\ Len(batch) < BatchSize
    /\ cpc # "run" => /\ batch = << >> /\ cache = << >>
                      /\ \A t \in Threads : hand[t] = << >>

\* Pieces that wait in an incomplete batch have an alarm that will emit them,
\* although timer_id_ may have forgotten its name: an alarm is cancelled only
\* for a new one.
BatchHasAlarm == batch # << >> => armed \/ stray > 0 \/ tpc = "emit"

\* Every piece is in one place, and none is stuck in a batch that nobody will
\* emit (Batcher, TimeNotifier, CacheDynamic).
BatchCacheInv == BatchTypeOK /\ Accounted /\ BatchHasAlarm

\* Every piece leaves the cache, without another one having to come.
EveryPieceLeaves ==
    \A p \in AllPieces : (p \in Given) ~> (p \in done)
=============================================================================
