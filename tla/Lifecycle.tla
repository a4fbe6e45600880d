----------------------------- MODULE Lifecycle ------------------------------
(***************************************************************************)
(* The life of a pipeline: Pipeline::Start, Pipeline::Stop, a new Start    *)
(* and the destructor (kernel/src/face_pipeline.cpp), with the Observer of *)
(* every run (kernel/src/face_observer.cpp) and the count of the modules   *)
(* that still wait for the end of the stream, run_id.                      *)
(*                                                                         *)
(* Of the stream only its end is modelled: it is named by the number of    *)
(* the Start whose run sends it, because one that was pushed to a          *)
(* connector after Stop emptied it is still there in the next run.  What   *)
(* Stop and the TaskLoop threads do inside is in Pipeline.                 *)
(***************************************************************************)
EXTENDS Integers, Sequences

CONSTANTS N,           \* modules; 1 is Source
          RunIdBits,   \* width of run_id: 32
          MaxStarts    \* bound on the number of calls of Start

ASSUME LifecycleAssumption == /\ N \in Nat \ {0}
                              /\ RunIdBits \in Nat /\ RunIdBits > N
                              /\ MaxStarts \in Nat

Modules == 1 .. N
Looped == 2 .. N
Runs == 1 .. MaxStarts
User == 0
Stoppers == {User} \union Runs   \* the user and the observer of each run

VARIABLES mpc,        \* where the main thread is
          starts,     \* number of calls of Start; names the run
          unopened,   \* modules that Start still has to open
          opened,     \* modules that are open
          first,      \* modules_open.front(), 0 if it is empty
          running,    \* running
          run_id,     \* number of low bits set in run_id
          live,       \* modules whose TaskLoop thread runs
          stop_,      \* stop_ of the connectors
          eosq,       \* the ends of stream in each connector
          passed,     \* history: the last end of stream of each module
          spc,        \* where each caller of Stop is
          told,       \* stop_pipeline_ of each observer
          observer_,  \* the run whose observer observer_ is, 0 at first
          old,        \* the observer that is being replaced
          broken,     \* history: a Start went on although no module opened
          disturbed,  \* history: a user called Stop or a module did not open
          aborted     \* std::terminate has ended the process

startVars == <<starts, unopened, opened, first>>
streamVars == <<run_id, live, eosq, passed, told>>
restVars == <<observer_, old, broken, disturbed, aborted>>
lifeVars == <<mpc, starts, unopened, opened, first, running, run_id, live, stop_,
          eosq, passed, spc, told, observer_, old, broken, disturbed, aborted>>

LifeInit ==
    /\ mpc = "idle"
    /\ starts = 0
    /\ unopened = {}
    /\ opened = {}
    /\ first = 0
    /\ running = FALSE
    /\ run_id = 1
    /\ live = {}
    /\ stop_ = FALSE
    /\ eosq = [m \in Looped |-> << >>]
    /\ passed = [m \in Modules |-> 0]
    /\ spc = [s \in Stoppers |-> "none"]
    /\ told = [o \in Runs |-> FALSE]
    /\ observer_ = 0
    /\ old = 0
    /\ broken = FALSE
    /\ disturbed = FALSE
    /\ aborted = FALSE

Main(from, to) == ~aborted /\ mpc = from /\ mpc' = to
Stopping(s, from, to) == /\ ~aborted
                         /\ spc[s] = from
                         /\ spc' = [spc EXCEPT ![s] = to]

\* Mutant of LeftMove: run_id |= 2.
LeftMoveTwo == run_id' = IF run_id = 1 THEN 2 ELSE run_id

\* run_id |= run_id << 1 and run_id &= run_id >> 1, on ones at the low end.
LeftMove == run_id' = IF run_id \in {0, RunIdBits} THEN run_id ELSE run_id + 1
MovedRight == IF run_id = 0 THEN 0 ELSE run_id - 1

-----------------------------------------------------------------------------
(* Pipeline::Start.                                                        *)

StartCall ==
    /\ ~running
    /\ starts < MaxStarts
    /\ Main("idle", "open")
    /\ starts' = starts + 1
    /\ unopened' = Modules
    /\ first' = 0
    /\ UNCHANGED <<opened, running, streamVars, stop_, spc, restVars>>

\* The modules are opened in the order of an unordered_map.
OpenModule(m) ==
    /\ Main("open", IF unopened = {m} THEN "launch" ELSE "open")
    /\ m \in unopened
    /\ LeftMove
    /\ unopened' = unopened \ {m}
    /\ opened' = opened \union {m}
    /\ first' = IF first = 0 THEN m ELSE first
    /\ UNCHANGED <<starts, running, live, eosq, passed, told, stop_, spc,
                   restVars>>

\* The loop that closes modules_open returns from its first turn; when nothing
\* was opened it has no turn, and Start goes on.
OpenFailed(m) ==
    /\ Main("open", IF first = 0 THEN "launch" ELSE "idle")
    /\ m \in unopened
    /\ LeftMove
    /\ opened' = opened \ {first}
    /\ broken' = (broken \/ first = 0)
    /\ disturbed' = TRUE
    /\ UNCHANGED <<starts, unopened, first, running, live, eosq, passed, told,
                   stop_, spc, observer_, old, aborted>>

\* running.store(true), the connectors and the threads are started.
Launch ==
    /\ Main("launch", "observe")
    /\ running' = TRUE
    /\ stop_' = FALSE
    /\ live' = Looped
    /\ UNCHANGED <<startVars, run_id, eosq, passed, told, spc, restVars>>

\* A new observer, whose constructor starts its watcher, replaces the old one.
Observe ==
    /\ Main("observe", "replace")
    /\ spc' = [spc EXCEPT ![starts] = "watch"]
    /\ observer_' = starts
    /\ old' = observer_
    /\ UNCHANGED <<startVars, running, streamVars, stop_, broken, disturbed,
                   aborted>>

\* The destructor of the old observer joins its watcher.
Replace ==
    /\ old # 0 => spc[old] = "gone"
    /\ Main("replace", "run")
    /\ UNCHANGED <<startVars, running, streamVars, stop_, spc, restVars>>

-----------------------------------------------------------------------------
(* The end of the stream.                                                  *)

\* Mutant of RightMove: run_id is tested before it is moved.
RightMoveLate(m, r) ==
    /\ run_id' = MovedRight
    /\ told' = [o \in Runs |-> told[o] \/ (o = observer_ /\ run_id = 1)]
    /\ passed' = [passed EXCEPT ![m] = r]

\* RightMove in module m, for the end of the stream of run r.
RightMove(m, r) ==
    /\ run_id' = MovedRight
    /\ told' = [o \in Runs |-> told[o] \/ (o = observer_ /\ MovedRight = 1)]
    /\ passed' = [passed EXCEPT ![m] = r]

\* The queues when m has taken its frame off its own and has sent it on; a
\* frame sent to a stopped connector may be given up instead.
Taken(m, q) == IF m = 1 THEN q ELSE [q EXCEPT ![m] = Tail(@)]
Sent(m, r, q) == IF m = N THEN {q}
                 ELSE {[q EXCEPT ![m + 1] = Append(@, r)]}
                      \union (IF stop_ THEN {q} ELSE {})

\* The main thread: Source::Run sends the end of the stream, then main waits.
SourceEos ==
    /\ Main("run", "spin")
    /\ RightMove(1, starts)
    /\ eosq' \in Sent(1, starts, eosq)
    /\ UNCHANGED <<startVars, running, live, stop_, spc, restVars>>

MainReturns ==
    /\ ~running
    /\ Main("spin", "idle")
    /\ UNCHANGED <<startVars, running, streamVars, stop_, spc, restVars>>

TaskEos(m) ==
    /\ ~aborted
    /\ m \in live
    /\ eosq[m] # << >>
    /\ RightMove(m, Head(eosq[m]))
    /\ eosq' \in Sent(m, Head(eosq[m]), Taken(m, eosq))
    /\ UNCHANGED <<mpc, startVars, running, live, stop_, spc, restVars>>

\* TaskLoop sees stop_, and drops the frame in its hands if it has one.
TaskExit(m) ==
    /\ ~aborted /\ stop_
    /\ m \in live
    /\ live' = live \ {m}
    /\ \/ UNCHANGED eosq
       \/ eosq[m] # << >> /\ eosq' = Taken(m, eosq)
    /\ UNCHANGED <<mpc, startVars, running, run_id, passed, told, stop_, spc,
                   restVars>>

-----------------------------------------------------------------------------
(* Observer::EventLoop, Pipeline::Stop and the destructors.                *)

\* Mutant of ObserverStop: the watcher goes on when nothing runs.
ObserverStopLoops(o) ==
    /\ told[o]
    /\ Stopping(o, "watch", IF running THEN "stop" ELSE "watch")
    /\ UNCHANGED <<mpc, startVars, running, streamVars, stop_, restVars>>

\* The watcher of run o was told, and calls Stop.
ObserverStop(o) ==
    /\ told[o]
    /\ Stopping(o, "watch", IF running THEN "stop" ELSE "gone")
    /\ UNCHANGED <<mpc, startVars, running, streamVars, stop_, restVars>>

UserStop ==
    /\ running
    /\ Stopping(User, "none", "stop")
    /\ disturbed' = TRUE
    /\ UNCHANGED <<mpc, startVars, running, streamVars, stop_, observer_, old,
                   broken, aborted>>

StopConnectors(s) ==
    /\ Stopping(s, "stop", "join")
    /\ stop_' = TRUE
    /\ eosq' = [m \in Looped |-> << >>]
    /\ UNCHANGED <<mpc, startVars, running, run_id, live, passed, told,
                   restVars>>

\* Mutant of Joined: running is reset before the threads are joined.
JoinedLate(s) ==
    /\ IF running THEN spc[s] = "join" /\ UNCHANGED spc
       ELSE live = {} /\ Stopping(s, "join", IF s = User THEN "none" ELSE "gone")
    /\ running' = FALSE
    /\ opened' = {}
    /\ UNCHANGED <<mpc, starts, unopened, first, streamVars, stop_, restVars>>

\* The threads are joined, the modules closed, running.store(false).
Joined(s) ==
    /\ live = {}
    /\ Stopping(s, "join", IF s = User THEN "none" ELSE "gone")
    /\ opened' = {}
    /\ running' = FALSE
    /\ UNCHANGED <<mpc, starts, unopened, first, streamVars, stop_, restVars>>

\* Two threads join the same std::thread.
StopAbort ==
    /\ ~aborted
    /\ \E s, u \in Stoppers : s # u /\ spc[s] = "join" /\ spc[u] = "join"
    /\ aborted' = TRUE
    /\ UNCHANGED <<mpc, startVars, running, streamVars, stop_, spc, observer_,
                   old, broken, disturbed>>

\* ~Pipeline, which nobody calls while a Stop of the user runs.
Destroy ==
    /\ spc[User] = "none"
    /\ Main("idle", "destroy")
    /\ running' = FALSE
    /\ UNCHANGED <<startVars, streamVars, stop_, spc, restVars>>

\* ~Observer joins the watcher.
Destroyed ==
    /\ observer_ # 0 => spc[observer_] = "gone"
    /\ Main("destroy", "gone")
    /\ UNCHANGED <<startVars, running, streamVars, stop_, spc, restVars>>

-----------------------------------------------------------------------------
MainThread == \/ \E m \in Modules : OpenModule(m)
              \/ Launch \/ Observe \/ Replace
              \/ SourceEos \/ MainReturns
              \/ Destroyed

Task(m) == TaskEos(m) \/ TaskExit(m)
Stopper(s) == StopConnectors(s) \/ Joined(s)

LifeNext == \/ MainThread
            \/ StartCall \/ Destroy
            \/ \E m \in Modules : OpenFailed(m)
            \/ \E m \in Looped : Task(m)
            \/ \E o \in Runs : ObserverStop(o)
            \/ UserStop
            \/ \E s \in Stoppers : Stopper(s)
            \/ StopAbort

\* Every thread is scheduled; main, the user and failures are free to act.
LifeFairness == /\ WF_lifeVars(MainThread)
                /\ \A m \in Looped : WF_lifeVars(Task(m))
                /\ \A o \in Runs : WF_lifeVars(ObserverStop(o))
                /\ \A s \in Stoppers : WF_lifeVars(Stopper(s))

LifeSpec == LifeInit /\ [][LifeNext]_lifeVars
LifeFairSpec == LifeSpec /\ LifeFairness

-----------------------------------------------------------------------------
LifeTypeOK ==
    /\ mpc \in {"idle", "open", "launch", "observe", "replace", "run", "spin",
                "destroy", "gone"}
    /\ starts \in 0 .. MaxStarts
    /\ unopened \in SUBSET Modules
    /\ opened \in SUBSET Modules
    /\ first \in 0 .. N
    /\ running \in BOOLEAN
    /\ run_id \in 0 .. RunIdBits
    /\ live \in SUBSET Looped
    /\ stop_ \in BOOLEAN
    /\ eosq \in [Looped -> Seq(Runs)]
    /\ passed \in [Modules -> 0 .. MaxStarts]
    /\ spc \in [Stoppers -> {"none", "watch", "stop", "join", "gone"}]
    /\ told \in [Runs -> BOOLEAN]
    /\ observer_ \in 0 .. MaxStarts
    /\ old \in 0 .. MaxStarts
    /\ broken \in BOOLEAN
    /\ disturbed \in BOOLEAN
    /\ aborted \in BOOLEAN

\* No observer is told to stop a run before every module has passed the end of
\* the stream of that run, not even when an end of stream of an earlier run is
\* left in a connector and is counted too; unless a Start has gone on without
\* having opened, and counted, all modules.
ToldWhenDrained ==
    [][\A o \in Runs : ~told[o] /\ told'[o] =>
           \/ broken
           \/ o = starts /\ \A m \in Modules : passed'[m] = starts]_lifeVars

\* If only observers stop runs and no module fails to open, a run is stopped
\* by its own observer, never by that of a run before it; and when it is over
\* run_id has its first value, so that the next run counts its modules right,
\* and no TaskLoop thread of it is left.
UndisturbedRuns ==
    ~disturbed => /\ \A o \in Runs : spc[o] \in {"stop", "join"} => o = starts
                  /\ ~running /\ mpc = "idle" => run_id = 1 /\ live = {}

LifecycleInv == LifeTypeOK /\ UndisturbedRuns

\* If only observers stop runs and no module fails to open, every Start and
\* every run comes to its end, and so does the destructor.
RunsEnd == []~disturbed =>
               ((mpc \notin {"idle", "gone"}) ~> (mpc \in {"idle", "gone"}))

\* Whoever stops the runs, Start and the destructor return if the observer
\* they wait for has been told and has not called Stop yet, unless two Stops
\* collide: such a Stop finds all it waits for stopped, a stop that began
\* before Start reset the connectors may wait for ever.
Told(o) == o \in {p \in Runs : told[p] /\ spc[p] = "watch"}
ReturnsWhenTold ==
    /\ (mpc = "replace" /\ Told(old)) ~> (mpc # "replace" \/ aborted)
    /\ (mpc = "destroy" /\ Told(observer_)) ~> (mpc = "gone" \/ aborted)
=============================================================================
