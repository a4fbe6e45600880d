----------------------------- MODULE ServerApi ------------------------------
(***************************************************************************)
(* InferServer and InferServerPrivate (core/infer_server.cpp): sessions of *)
(* several users, the executors they share by name, and the number of      *)
(* threads of the pool.                                                    *)
(*                                                                         *)
(* A user creates a session, sends it one request at a time, with or       *)
(* without waiting for the response, and destroys it.  A session is known  *)
(* by its user.  executor_map_mutex_ is held while a session is deleted,   *)
(* which waits for its responses, and while an executor is.  How requests  *)
(* are processed is in the modules Session and Executor.                   *)
(*                                                                         *)
(* A use of an executor, a session, a request or a variable that does not  *)
(* exist any more, or an index out of range, sets broken: what the process *)
(* does then is undefined, and the model stops.                            *)
(***************************************************************************)
EXTENDS Integers, Sequences, FiniteSets

CONSTANTS Users, Names,
          EngineNum,       \* engine_num of the executors of each name
          MaxThreads,      \* max_thread_num
          MaxSessions      \* bound: calls of CreateSession by each user

ASSUME ServerApiAssumption == /\ 0 \notin Users
                              /\ EngineNum \in [Names -> Nat \ {0}]
                              /\ MaxThreads \in Nat \ {0}
                              /\ MaxSessions \in [Users -> Nat]

VARIABLES created,         \* the name of each executor ever created
          executor_map,    \* the executor of each name, 0 for none
          link_set,        \* users whose session is linked, per executor
          mutex,           \* the user who holds executor_map_mutex_, or 0
          upc,             \* where each user is
          executor,        \* executor_ of each user's session
          sync,            \* is_sync_link_ of each user's session
          req,             \* where the request of each session is
          calls,           \* number of calls of CreateSession so far, per user
          size,            \* tp_->Size()
          leaving,         \* detached threads that n_waiting_ still counts
          broken           \* undefined behaviour

mapVars == <<created, executor_map, link_set>>
userVars == <<executor, sync, calls>>
poolVars == <<size, leaving>>
vars == <<mapVars, mutex, upc, userVars, req, poolVars, broken>>

Init ==
    /\ created = << >>
    /\ executor_map = [n \in Names |-> 0]
    /\ link_set = << >>
    /\ mutex = 0
    /\ upc = [u \in Users |-> "none"]
    /\ executor = [u \in Users |-> 0]
    /\ sync = [u \in Users |-> FALSE]
    /\ req = [u \in Users |-> "none"]
    /\ calls = [u \in Users |-> 0]
    /\ size = 0 /\ leaving = 0
    /\ broken = FALSE

\* Executors are owned by the map.
Alive(k) == executor_map[created[k]] = k

User(u, from, to) == upc[u] = from /\ upc' = [upc EXCEPT ![u] = to]
Request(u, from, to) == req[u] = from /\ req' = [req EXCEPT ![u] = to]

-----------------------------------------------------------------------------
(* CreateSession.                                                          *)

CreateSession(u) ==
    /\ calls[u] < MaxSessions[u]
    /\ User(u, "none", "create")
    /\ calls' = [calls EXCEPT ![u] = @ + 1]
    /\ UNCHANGED <<mapVars, mutex, executor, sync, req, poolVars, broken>>

\* CreateExecutor finds an executor of that name.
FindExecutor(u, n) ==
    /\ mutex = 0 /\ executor_map[n] # 0
    /\ User(u, "create", "link")
    /\ executor' = [executor EXCEPT ![u] = executor_map[n]]
    /\ UNCHANGED <<mapVars, mutex, sync, calls, req, poolVars, broken>>

\* CreateExecutor makes one ...
CreateExecutor(u, n) ==
    LET k == Len(created) + 1
    IN  /\ mutex = 0 /\ executor_map[n] = 0
        /\ User(u, "create", "grow")
        /\ created' = Append(created, n)
        /\ link_set' = Append(link_set, {})
        /\ executor_map' = [executor_map EXCEPT ![n] = k]
        /\ executor' = [executor EXCEPT ![u] = k]
        /\ UNCHANGED <<mutex, sync, calls, req, poolVars, broken>>

\* ... or the initialisation of a processor fails.
CreateFailed(u, n) ==
    /\ mutex = 0 /\ executor_map[n] = 0
    /\ User(u, "create", "none")
    /\ UNCHANGED <<mapVars, mutex, userVars, req, poolVars, broken>>

AtMostMaxThreads(n) == IF n < MaxThreads THEN n ELSE MaxThreads

\* CreateExecutor, after it has released the mutex: the pool gets three more
\* threads per engine, under tp_mutex_.
GrowPool(u) ==
    /\ User(u, "grow", "link")
    /\ size' = IF size < MaxThreads
               THEN AtMostMaxThreads(size + 3 * EngineNum[created[executor[u]]])
               ELSE size
    /\ UNCHANGED <<mapVars, mutex, userVars, req, leaving, broken>>

Link(u) ==
    /\ User(u, "link", "open")
    /\ Alive(executor[u])
    /\ \E s \in BOOLEAN : sync' = [sync EXCEPT ![u] = s]
    /\ link_set' = [link_set EXCEPT ![executor[u]] = @ \union {u}]
    /\ UNCHANGED <<created, executor_map, mutex, executor, calls, req, poolVars,
                   broken>>

\* The executor was deleted in the meantime, by itself or together with the
\* session (~Executor deletes the sessions that are linked).
UseDeleted(u) ==
    /\ upc[u] \in {"link", "open", "exist", "lock"}
    /\ ~Alive(executor[u])
    /\ broken' = TRUE
    /\ UNCHANGED <<mapVars, mutex, upc, userVars, req, poolVars>>

-----------------------------------------------------------------------------
(* Request, RequestSync and the responses.                                 *)

Send(u) ==
    /\ User(u, "open", IF sync[u] THEN "wait" ELSE "open")
    /\ Alive(executor[u])
    /\ Request(u, "none", "process")
    /\ UNCHANGED <<mapVars, mutex, userVars, poolVars, broken>>

\* Mutant of TestDiscarded: the flag is not looked at.
TestNothing(u) ==
    /\ size > 0 /\ sync[u]
    /\ Request(u, "process", "respond") \/ Request(u, "discarded", "respond")
    /\ UNCHANGED <<mapVars, mutex, upc, userVars, poolVars, broken>>

\* The request is processed and the response task looks once whether it is
\* discarded: if (!next->IsDiscarded()) ...  Here only RequestSync discards.
TestDiscarded(u) ==
    /\ size > 0 /\ sync[u]
    /\ Request(u, "process", "respond") \/ Request(u, "discarded", "end")
    /\ UNCHANGED <<mapVars, mutex, upc, userVars, poolVars, broken>>

\* ... next->Response(), with what the caller of RequestSync has on its stack.
\* The observer of an asynchronous session may call CreateSession or
\* DestroySession itself, for some other session.
Response(u) ==
    /\ IF sync[u]
       THEN /\ Request(u, "respond", "end")
            /\ broken' = (upc[u] \notin {"wait", "discard"})
       ELSE /\ size > 0
            /\ Request(u, "process", "end") \/ Request(u, "process", "api")
            /\ UNCHANGED broken
    /\ UNCHANGED <<mapVars, mutex, upc, userVars, poolVars>>

\* ... and has got executor_map_mutex_.
ResponseApi(u) ==
    /\ mutex = 0
    /\ Request(u, "api", "end")
    /\ UNCHANGED <<mapVars, mutex, upc, userVars, poolVars, broken>>

\* The request is deleted and in_response_ is reset.
Delete(u) ==
    /\ Request(u, "end", "none")
    /\ UNCHANGED <<mapVars, mutex, upc, userVars, poolVars, broken>>

\* done.set_value() was called.
FlagSet(u) == req[u] \in {"end", "none"}

Return(u) ==
    /\ FlagSet(u)
    /\ User(u, "wait", "open")
    /\ UNCHANGED <<mapVars, mutex, userVars, req, poolVars, broken>>

\* flag.wait_for times out ...
Timeout(u) ==
    /\ ~FlagSet(u)
    /\ User(u, "wait", "discard")
    /\ UNCHANGED <<mapVars, mutex, userVars, req, poolVars, broken>>

\* ... ctrl->Discard(), and RequestSync returns.  It is in vain when the response
\* task has already looked, and undefined when the request is deleted.
DiscardRequest(u) ==
    /\ User(u, "discard", "open")
    /\ \/ Request(u, "process", "discarded") /\ UNCHANGED broken
       \/ /\ req[u] # "process"
          /\ broken' = (req[u] = "none")
          /\ UNCHANGED req
    /\ UNCHANGED <<mapVars, mutex, userVars, poolVars>>

-----------------------------------------------------------------------------
(* DestroySession.                                                         *)

DestroySession(u) ==
    /\ User(u, "open", "exist")
    /\ UNCHANGED <<mapVars, mutex, userVars, req, poolVars, broken>>

ExistExecutor(u) ==
    /\ User(u, "exist", "lock")
    /\ mutex = 0 /\ Alive(executor[u])
    /\ UNCHANGED <<mapVars, mutex, userVars, req, poolVars, broken>>

\* CheckAndDestroyExecutor takes the mutex and unlinks the session.
Unlink(u) ==
    /\ User(u, "lock", "delete")
    /\ mutex = 0 /\ Alive(executor[u])
    /\ mutex' = u
    /\ link_set' = [link_set EXCEPT ![executor[u]] = @ \ {u}]
    /\ UNCHANGED <<created, executor_map, userVars, req, poolVars, broken>>

\* u has no session any more.
Forget(u) == /\ executor' = [executor EXCEPT ![u] = 0]
             /\ sync' = [sync EXCEPT ![u] = FALSE]

\* Mutant of DeleteSession: the executor stays although its last session goes.
DeleteSessionOnly(u) ==
    /\ req[u] = "none"
    /\ User(u, "delete", "none") /\ Forget(u) /\ mutex' = 0
    /\ UNCHANGED <<mapVars, calls, req, poolVars, broken>>

\* delete session has waited for the response; GetSessionNum is read.
DeleteSession(u) ==
    /\ upc[u] = "delete" /\ req[u] = "none"
    /\ IF link_set[executor[u]] = {}
       THEN User(u, "delete", "erase") /\ UNCHANGED <<executor, sync, mutex>>
       ELSE User(u, "delete", "none") /\ Forget(u) /\ mutex' = 0
    /\ UNCHANGED <<mapVars, calls, req, poolVars, broken>>

\* Mutant of EraseExecutor: the mutex is not released.
EraseExecutorLocked(u) ==
    /\ User(u, "erase", "shrink")
    /\ executor_map' = [executor_map EXCEPT ![created[executor[u]]] = 0]
    /\ UNCHANGED <<created, link_set, mutex, userVars, req, poolVars, broken>>

\* executor_map_.erase(name), which deletes the executor.
EraseExecutor(u) ==
    /\ User(u, "erase", "shrink")
    /\ executor_map' = [executor_map EXCEPT ![created[executor[u]]] = 0]
    /\ mutex' = 0
    /\ UNCHANGED <<created, link_set, userVars, req, poolVars, broken>>

\* Mutant of EnoughIdle: an off-by-one.
EnoughIdleOrEqual(idle, n) == idle >= n

\* tp_->IdleNumber() > th_num
EnoughIdle(idle, n) == idle > n

\* "shrink to fit task load": threads that were detached before may still be
\* counted as idle.  Resize goes down in size_t to the first thread that is to
\* be detached: to none, or to a number below zero, it does not end well.
ShrinkPool(u) ==
    /\ User(u, "shrink", "none") /\ Forget(u)
    /\ LET n == 3 * EngineNum[created[executor[u]]] IN
       \E idle \in 0 .. size + leaving :
          IF ~EnoughIdle(idle, n) THEN UNCHANGED <<poolVars, broken>>
          ELSE IF size <= n
          THEN broken' = TRUE /\ UNCHANGED poolVars
          ELSE /\ size' = size - n
               /\ \E waiting \in 0 .. n : leaving' = leaving + waiting
               /\ UNCHANGED broken
    /\ UNCHANGED <<mapVars, mutex, calls, req>>

\* A detached thread wakes up and ends.
Leave ==
    /\ leaving > 0
    /\ leaving' = leaving - 1
    /\ UNCHANGED <<mapVars, mutex, upc, userVars, req, size, broken>>

-----------------------------------------------------------------------------
CreateStep(u) == \E n \in Names : FindExecutor(u, n) \/ CreateExecutor(u, n)
                                  \/ CreateFailed(u, n)
PoolStep(u) == TestDiscarded(u) \/ Response(u) \/ ResponseApi(u) \/ Delete(u)
LockFree(u) == \/ GrowPool(u) \/ Link(u) \/ UseDeleted(u) \/ Return(u)
               \/ DiscardRequest(u) \/ DeleteSession(u) \/ EraseExecutor(u)
               \/ ShrinkPool(u)

Next == /\ ~broken
        /\ \/ \E u \in Users :
                 \/ CreateSession(u) \/ Send(u) \/ Timeout(u) \/ DestroySession(u)
                 \/ CreateStep(u) \/ ExistExecutor(u) \/ Unlink(u)
                 \/ LockFree(u) \/ PoolStep(u)
           \/ Leave

\* Calls that were made go on, requests are processed, and nobody waits for a
\* mutex for ever that is released again and again.
Fairness ==
    \A u \in Users :
        /\ WF_vars(~broken /\ LockFree(u))
        /\ WF_vars(~broken /\ (TestDiscarded(u) \/ Response(u) \/ Delete(u)))
        /\ SF_vars(~broken /\ (CreateStep(u) \/ ExistExecutor(u) \/ Unlink(u)))
        /\ SF_vars(~broken /\ ResponseApi(u))

Spec == Init /\ [][Next]_vars
FairSpec == Spec /\ Fairness

-----------------------------------------------------------------------------
Executors == DOMAIN created

TypeOK ==
    /\ created \in Seq(Names)
    /\ executor_map \in [Names -> {0} \union Executors]
    /\ link_set \in [Executors -> SUBSET Users]
    /\ mutex \in Users \union {0}
    /\ upc \in [Users -> {"none", "create", "grow", "link", "open", "wait",
                          "discard", "exist", "lock", "delete", "erase",
                          "shrink"}]
    /\ executor \in [Users -> {0} \union Executors]
    /\ sync \in [Users -> BOOLEAN]
    /\ req \in [Users -> {"none", "process", "discarded", "respond", "api",
                          "end"}]
    /\ size \in 0 .. MaxThreads
    /\ leaving \in Nat
    /\ broken \in BOOLEAN

\* No executor is left over: each one in the map has a session, or a user who
\* is about to link one or to delete the executor.  And a request always has a
\* session that waits for it.
Needed ==
    /\ \A n \in Names : executor_map[n] # 0 =>
          \/ link_set[executor_map[n]] # {}
          \/ \E u \in Users : /\ executor[u] = executor_map[n]
                              /\ upc[u] \in {"grow", "link", "delete", "erase"}
    /\ \A u \in Users : req[u] # "none" =>
          upc[u] \in {"open", "wait", "discard", "exist", "lock", "delete"}

\* What that rests on.  An executor is in the map under its own name.
MapOK == \A n \in Names : executor_map[n] # 0 => created[executor_map[n]] = n

\* The mutex is held exactly where a session and its executor are deleted, and
\* what its holder is about to use exists.
MutexOK == \A u \in Users :
              /\ mutex = u <=> upc[u] \in {"delete", "erase"}
              /\ mutex = u => Alive(executor[u])

\* A user has an executor from CreateExecutor to the end of DestroySession.
ExecutorOK == \A u \in Users : executor[u] = 0 <=> upc[u] \in {"none", "create"}

ServerInv == TypeOK /\ MapOK /\ ExecutorOK /\ MutexOK /\ Needed

\* The pool has threads for the requests of every session, or its executor's
\* creator is about to add them, whatever executors are destroyed.
PoolServes ==
    size = 0 => \A k \in Executors : Alive(k) /\ link_set[k] # {} =>
                    \E u \in Users : upc[u] = "grow" /\ executor[u] = k

\* Nothing undefined happens, and the pool serves every session, unless
\*   - a call of CreateSession, between CreateExecutor and Link, overlaps the
\*     destruction of the last other session of the same executor,
\*   - a call of RequestSync times out, and the response task has already seen
\*     that the request is not discarded when Discard is called, or
\*   - the pool is shrunk while it still counts threads that it detached before.
Overlap == \E u, v \in Users : /\ upc[u] \in {"grow", "link"}
                               /\ upc[v] = "erase" /\ executor[u] = executor[v]
TooLate == \E u \in Users : upc[u] = "discard" /\ req[u] = "respond"
Stale == leaving > 0 /\ \E u \in Users : upc[u] = "shrink"
SoundUnlessRaced ==
    [](~Overlap /\ ~TooLate /\ ~Stale) => [](~broken /\ PoolServes)

\* Every call returns, unless DestroySession waits, with the mutex, for a
\* response that itself waits for the mutex.
Calling(u) == upc[u] \notin {"none", "open"}
SelfWait == \E u \in Users : upc[u] = "delete" /\ req[u] = "api"
CallsReturn == [](~broken /\ ~SelfWait) => \A u \in Users : Calling(u) ~> ~Calling(u)
=============================================================================
