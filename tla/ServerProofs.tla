---------------------------- MODULE ServerProofs ----------------------------
(***************************************************************************)
(* Proofs about the infer server: about the module ServerApi, that no      *)
(* executor is left over, and that nothing undefined happens unless one of *)
(* the three races it names does; and about the module Executor, that every*)
(* batch is in one place, that the pieces in process are counted, and that *)
(* the limit on them is kept unless two senders race.                      *)
(*                                                                         *)
(* The two modules share no variable: a theorem is about one of them.      *)
(***************************************************************************)
EXTENDS ServerApi, Executor, FiniteSetTheorems, TLAPS

-----------------------------------------------------------------------------
(* The server.  Types.                                                     *)

Places == {"none", "create", "grow", "link", "open", "wait", "discard",
           "exist", "lock", "delete", "erase", "shrink"}
RequestPlaces == {"none", "process", "discarded", "respond", "api", "end"}

\* The two helpers move one user, or one request, and no other.
LEMMA UserMoves ==
    ASSUME NEW from \in Places, NEW to \in Places, NEW u \in Users,
           upc \in [Users -> Places], User(u, from, to)
    PROVE  /\ upc[u] = from /\ upc'[u] = to
           /\ upc' \in [Users -> Places]
           /\ \A v \in Users : v # u => upc'[v] = upc[v]
BY DEF User

LEMMA RequestMoves ==
    ASSUME NEW from \in RequestPlaces, NEW to \in RequestPlaces, NEW u \in Users,
           req \in [Users -> RequestPlaces], Request(u, from, to)
    PROVE  /\ req[u] = from /\ req'[u] = to
           /\ req' \in [Users -> RequestPlaces]
           /\ \A v \in Users : v # u => req'[v] = req[v]
BY DEF Request

\* CreateExecutor adds one executor and changes no other.
LEMMA NewExecutor ==
    ASSUME TypeOK, NEW u \in Users, NEW n \in Names, CreateExecutor(u, n),
           NEW k, k = Len(created) + 1
    PROVE  /\ k \notin Executors /\ k # 0 /\ k \in Nat
           /\ 0 \notin Executors /\ Executors \subseteq Nat
           /\ Executors' = Executors \union {k}
           /\ created' \in Seq(Names) /\ created'[k] = n
           /\ link_set' \in [Executors' -> SUBSET Users] /\ link_set'[k] = {}
           /\ \A j \in Executors : /\ created'[j] = created[j]
                                   /\ link_set'[j] = link_set[j]
<1>1. created \in Seq(Names) /\ Len(created) \in Nat
  BY DEF TypeOK
<1>2. Executors = 1 .. Len(created)
  BY <1>1 DEF Executors
<1>3. link_set \in Seq(SUBSET Users) /\ Len(link_set) = Len(created)
  <2>1. link_set \in [1 .. Len(created) -> SUBSET Users]
    BY <1>2 DEF TypeOK
  <2> QED BY <1>1, <2>1
<1>4. created' = Append(created, n) /\ link_set' = Append(link_set, {})
  BY DEF CreateExecutor
<1>5. /\ created' \in Seq(Names) /\ Len(created') = Len(created) + 1
      /\ created'[k] = n
      /\ \A j \in 1 .. Len(created) : created'[j] = created[j]
  BY <1>1, <1>4
<1>6. /\ link_set' \in Seq(SUBSET Users) /\ Len(link_set') = Len(created) + 1
      /\ link_set'[k] = {}
      /\ \A j \in 1 .. Len(created) : link_set'[j] = link_set[j]
  BY <1>3, <1>4
<1>7. Executors' = 1 .. Len(created) + 1
  BY <1>5 DEF Executors
<1>8. link_set' \in [Executors' -> SUBSET Users]
  BY <1>6, <1>7
<1> QED BY <1>1, <1>2, <1>5, <1>6, <1>7, <1>8

LEMMA ExecutorFacts ==
    ASSUME TypeOK
    PROVE  /\ Executors \subseteq Nat \ {0}
           /\ \A k \in Executors : created[k] \in Names
<1>1. created \in Seq(Names) /\ Executors = 1 .. Len(created) /\ Len(created) \in Nat
  BY DEF TypeOK, Executors
<1> QED BY <1>1

\* The number of threads to grow or to shrink by.
LEMMA EngineFacts ==
    ASSUME TypeOK, NEW u \in Users, executor[u] # 0
    PROVE  /\ executor[u] \in Executors /\ created[executor[u]] \in Names
           /\ EngineNum[created[executor[u]]] \in Nat \ {0}
<1>1. executor[u] \in Executors
  BY DEF TypeOK
<1>2. created[executor[u]] \in Names
  BY <1>1, ExecutorFacts
<1> QED BY <1>1, <1>2, ServerApiAssumption

LEMMA TypeInit == Init => TypeOK
<1> SUFFICES ASSUME Init PROVE TypeOK
  OBVIOUS
<1>1. created = << >> /\ created \in Seq(Names) /\ Executors = {}
  BY DEF Init, Executors
<1>2. link_set \in [Executors -> SUBSET Users]
  BY <1>1 DEF Init
<1>3. /\ executor_map \in [Names -> {0} \union Executors]
      /\ executor \in [Users -> {0} \union Executors]
      /\ sync \in [Users -> BOOLEAN]
  BY DEF Init
<1>4. size \in 0 .. MaxThreads /\ leaving \in Nat /\ broken \in BOOLEAN
  <2>1. size = 0 /\ leaving = 0 /\ broken = FALSE
    BY DEF Init
  <2>2. 0 \in 0 .. MaxThreads
    BY ServerApiAssumption
  <2> QED BY <2>1, <2>2
<1>5. /\ mutex \in Users \union {0}
      /\ upc \in [Users -> {"none", "create", "grow", "link", "open", "wait",
                            "discard", "exist", "lock", "delete", "erase",
                            "shrink"}]
      /\ req \in [Users -> {"none", "process", "discarded", "respond", "api",
                            "end"}]
  BY DEF Init
<1> QED BY <1>1, <1>2, <1>3, <1>4, <1>5 DEF TypeOK

\* Steps that only move a user, a request, or both, and may set broken.
LEMMA TypeMoves ==
    ASSUME TypeOK,
           UNCHANGED <<mapVars, mutex, executor, sync, poolVars>>,
           upc' \in [Users -> Places], req' \in [Users -> RequestPlaces],
           broken' \in BOOLEAN
    PROVE  TypeOK'
BY DEF TypeOK, mapVars, poolVars, Executors, Places, RequestPlaces

LEMMA TypeStep == TypeOK /\ ExecutorOK /\ [Next]_vars => TypeOK'
<1> SUFFICES ASSUME TypeOK, ExecutorOK, [Next]_vars PROVE TypeOK'
  OBVIOUS
<1>1. upc \in [Users -> Places] /\ req \in [Users -> RequestPlaces]
  BY DEF TypeOK, Places, RequestPlaces
<1>2. CASE UNCHANGED vars
  BY <1>2 DEF vars, mapVars, userVars, poolVars, TypeOK, Executors
<1>3. CASE Leave
  BY <1>3 DEF Leave, mapVars, userVars, poolVars, TypeOK, Executors
<1>4. ASSUME NEW u \in Users, CreateSession(u) PROVE TypeOK'
  BY <1>1, <1>4, TypeMoves DEF CreateSession, User, Places, poolVars, TypeOK
<1>5. ASSUME NEW u \in Users,
             Send(u) \/ TestDiscarded(u) \/ Response(u) \/ ResponseApi(u)
             \/ Delete(u)
      PROVE  TypeOK'
  <2>1. /\ UNCHANGED <<mapVars, mutex, userVars, poolVars>>
        /\ broken' \in BOOLEAN
    BY <1>5 DEF Send, TestDiscarded, Response, ResponseApi, Delete, TypeOK
  <2>2. req' \in [Users -> RequestPlaces]
    BY <1>1, <1>5
    DEF Send, TestDiscarded, Response, ResponseApi, Delete, Request, RequestPlaces
  <2>3. upc' \in [Users -> Places]
    BY <1>1, <1>5 DEF Send, TestDiscarded, Response, ResponseApi, Delete, User, Places
  <2> QED BY <2>1, <2>2, <2>3, TypeMoves DEF userVars
<1>6. ASSUME NEW u \in Users,
             Return(u) \/ Timeout(u) \/ DiscardRequest(u) \/ DestroySession(u)
             \/ ExistExecutor(u) \/ UseDeleted(u)
      PROVE  TypeOK'
  <2>1. /\ UNCHANGED <<mapVars, mutex, userVars, poolVars>>
        /\ broken' \in BOOLEAN
    BY <1>6 DEF Return, Timeout, DiscardRequest, DestroySession, ExistExecutor,
                UseDeleted, TypeOK
  <2>2. upc' \in [Users -> Places]
    BY <1>1, <1>6 DEF Return, Timeout, DiscardRequest, DestroySession,
                      ExistExecutor, UseDeleted, User, Places
  <2>3. req' \in [Users -> RequestPlaces]
    BY <1>1, <1>6 DEF Return, Timeout, DiscardRequest, DestroySession,
                      ExistExecutor, UseDeleted, Request, RequestPlaces
  <2> QED BY <1>1, <2>1, <2>2, <2>3, TypeMoves DEF userVars
<1>7. ASSUME NEW u \in Users, NEW n \in Names, FindExecutor(u, n)
      PROVE  TypeOK'
  <2>1. executor_map[n] \in Executors
    BY <1>7 DEF FindExecutor, TypeOK
  <2> QED BY <1>1, <1>7, <2>1
          DEF FindExecutor, User, TypeOK, mapVars, poolVars, Executors
<1>8. ASSUME NEW u \in Users, NEW n \in Names, CreateExecutor(u, n)
      PROVE  TypeOK'
  <2>1. DEFINE k == Len(created) + 1
  <2>2. /\ k \in Executors' /\ Executors \subseteq Executors'
        /\ created' \in Seq(Names) /\ link_set' \in [Executors' -> SUBSET Users]
    BY <1>8, NewExecutor
  <2>3. /\ executor_map' \in [Names -> {0} \union Executors']
        /\ executor' \in [Users -> {0} \union Executors']
    <3>1. /\ executor_map' = [executor_map EXCEPT ![n] = k]
          /\ executor' = [executor EXCEPT ![u] = k]
      BY <1>8 DEF CreateExecutor
    <3>2. /\ executor_map \in [Names -> {0} \union Executors]
          /\ executor \in [Users -> {0} \union Executors]
      BY DEF TypeOK
    <3> QED
      <4> HIDE DEF k
      <4> QED BY <2>2, <3>1, <3>2
  <2>4. UNCHANGED <<mutex, sync, req, size, leaving, broken>> /\ User(u, "create", "grow")
    BY <1>8 DEF CreateExecutor, poolVars
  <2> QED BY <2>2, <2>3, <2>4 DEF TypeOK, User
<1>9. ASSUME NEW u \in Users, NEW n \in Names, CreateFailed(u, n)
      PROVE  TypeOK'
  BY <1>1, <1>9, TypeMoves DEF CreateFailed, User, Places, userVars, TypeOK
<1>10. ASSUME NEW u \in Users, GrowPool(u) PROVE TypeOK'
  <2>1. upc[u] = "grow" /\ executor[u] # 0
    BY <1>10 DEF GrowPool, User, ExecutorOK
  <2>2. size' \in 0 .. MaxThreads
    BY <1>10, <2>1, EngineFacts, ServerApiAssumption
    DEF GrowPool, AtMostMaxThreads, TypeOK
  <2> QED BY <1>1, <1>10, <2>2 DEF GrowPool, User, TypeOK, mapVars, userVars,
                                   Executors
<1>11. ASSUME NEW u \in Users, Link(u) PROVE TypeOK'
  BY ZenonT(30), <1>1, <1>11 DEF Link, User, TypeOK, poolVars, Executors
<1>12. ASSUME NEW u \in Users, Unlink(u) PROVE TypeOK'
  BY <1>1, <1>12 DEF Unlink, User, TypeOK, poolVars, userVars, Executors
<1>13. ASSUME NEW u \in Users, DeleteSession(u) PROVE TypeOK'
  BY <1>1, <1>13 DEF DeleteSession, Forget, User, TypeOK, poolVars, mapVars,
                     Executors
<1>14. ASSUME NEW u \in Users, EraseExecutor(u) PROVE TypeOK'
  BY <1>1, <1>14 DEF EraseExecutor, User, TypeOK, poolVars, userVars, Executors
<1>15. ASSUME NEW u \in Users, ShrinkPool(u) PROVE TypeOK'
  <2>1. upc[u] = "shrink" /\ executor[u] # 0
    BY <1>15 DEF ShrinkPool, User, ExecutorOK
  <2>2. /\ size' \in 0 .. MaxThreads /\ leaving' \in Nat
        /\ broken' \in BOOLEAN
    <3> DEFINE n == 3 * EngineNum[created[executor[u]]]
    <3>1. n \in Nat
      BY <2>1, EngineFacts
    <3>2. PICK seen \in 0 .. size + leaving :
             IF ~EnoughIdle(seen, n) THEN UNCHANGED <<poolVars, broken>>
             ELSE IF size <= n
             THEN broken' = TRUE /\ UNCHANGED poolVars
             ELSE /\ size' = size - n
                  /\ \E waiting \in 0 .. n : leaving' = leaving + waiting
                  /\ UNCHANGED broken
      BY <1>15 DEF ShrinkPool
    <3> HIDE DEF n
    <3>3. size \in 0 .. MaxThreads /\ leaving \in Nat /\ broken \in BOOLEAN
      BY DEF TypeOK
    <3>4. CASE UNCHANGED <<poolVars, broken>>
      BY <3>3, <3>4 DEF poolVars
    <3>5. CASE broken' = TRUE /\ UNCHANGED poolVars
      BY <3>3, <3>5 DEF poolVars
    <3>6. CASE /\ size' = size - n /\ ~(size <= n)
               /\ \E waiting \in 0 .. n : leaving' = leaving + waiting
               /\ UNCHANGED broken
      <4>1. size' \in 0 .. MaxThreads
        BY <3>1, <3>3, <3>6, ServerApiAssumption
      <4>2. leaving' \in Nat
        BY <3>1, <3>3, <3>6
      <4> QED BY <3>3, <3>6, <4>1, <4>2
    <3> QED BY <3>2, <3>4, <3>5, <3>6
  <2> QED BY <1>1, <1>15, <2>2 DEF ShrinkPool, Forget, User, TypeOK, mapVars,
                                   Executors
<1> QED BY <1>2, <1>3, <1>4, <1>5, <1>6, <1>7, <1>8, <1>9, <1>10, <1>11, <1>12,
           <1>13, <1>14, <1>15
        DEF Next, CreateStep, PoolStep, LockFree

-----------------------------------------------------------------------------
(* No executor is left over, and requests have a session that waits.       *)

\* The two halves of Needed.
NotLeftOver ==
    \A n \in Names : executor_map[n] # 0 =>
       \/ link_set[executor_map[n]] # {}
       \/ \E u \in Users : /\ executor[u] = executor_map[n]
                           /\ upc[u] \in {"grow", "link", "delete", "erase"}
WaitedFor ==
    \A u \in Users : req[u] # "none" =>
       upc[u] \in {"open", "wait", "discard", "exist", "lock", "delete"}

LEMMA NeededParts == Needed <=> (NotLeftOver /\ WaitedFor)
BY DEF Needed, NotLeftOver, WaitedFor

LEMMA InvInit == Init => ServerInv
<1> SUFFICES ASSUME Init PROVE ServerInv
  OBVIOUS
<1>1. TypeOK
  BY TypeInit
<1>2. MapOK /\ ExecutorOK /\ Needed
  BY DEF Init, MapOK, ExecutorOK, Needed
<1>3. MutexOK
  BY ServerApiAssumption DEF Init, MutexOK
<1> QED BY <1>1, <1>2, <1>3 DEF ServerInv

\* The steps of one user, of the pool for that user's request included.
UserStep(u) == \/ CreateSession(u) \/ Send(u) \/ Timeout(u) \/ DestroySession(u)
               \/ CreateStep(u) \/ ExistExecutor(u) \/ Unlink(u)
               \/ LockFree(u) \/ PoolStep(u)

\* A request is sent, and answered, while its session is open.
LEMMA WaitedForStep ==
    ASSUME TypeOK, ExecutorOK, WaitedFor, NEW u \in Users, UserStep(u)
    PROVE  WaitedFor'
<1>1. /\ upc \in [Users -> Places] /\ req \in [Users -> RequestPlaces]
  BY DEF TypeOK, Places, RequestPlaces
<1>2. CASE Send(u)
  BY <1>1, <1>2 DEF Send, User, Request, WaitedFor
<1>3. CASE PoolStep(u)
  BY <1>1, <1>3
  DEF PoolStep, TestDiscarded, Response, ResponseApi, Delete, Request, WaitedFor
<1>4. CASE DeleteSession(u)
  BY <1>1, <1>4 DEF DeleteSession, User, WaitedFor
<1>5. CASE UseDeleted(u)
  BY <1>5 DEF UseDeleted, WaitedFor
<1>6. CASE \/ CreateSession(u) \/ CreateStep(u) \/ GrowPool(u) \/ Link(u)
           \/ EraseExecutor(u) \/ ShrinkPool(u)
  <2>1. /\ UNCHANGED req
        /\ upc[u] \in {"none", "create", "grow", "link", "erase", "shrink"}
        /\ \A v \in Users : v # u => upc'[v] = upc[v]
    BY <1>1, <1>6 DEF CreateSession, CreateStep, FindExecutor, CreateExecutor,
                      CreateFailed, GrowPool, Link, EraseExecutor, ShrinkPool,
                      User
  <2> QED BY <2>1 DEF WaitedFor
<1>7. CASE \/ Timeout(u) \/ DestroySession(u) \/ ExistExecutor(u) \/ Unlink(u)
           \/ Return(u) \/ DiscardRequest(u)
  <2>1. /\ \A v \in Users : v # u => req'[v] = req[v]
        /\ upc'[u] \in {"open", "discard", "exist", "lock", "delete"}
        /\ \A v \in Users : v # u => upc'[v] = upc[v]
    BY <1>1, <1>7 DEF Timeout, DestroySession, ExistExecutor, Unlink, Return,
                      DiscardRequest, User, Request
  <2> QED BY <2>1 DEF WaitedFor
<1> QED BY <1>2, <1>3, <1>4, <1>5, <1>6, <1>7 DEF UserStep, LockFree

\* The parts of the invariant that are about the map and who uses it.
MapInv == MapOK /\ ExecutorOK /\ MutexOK /\ NotLeftOver

\* Moves of a user that concern neither the mutex nor whether an executor is
\* in use.
Harmless(from, to) ==
    \/ {from, to} = {"none", "create"}
    \/ {from, to} \subseteq {"open", "wait", "discard", "exist", "lock"}
    \/ from = "grow" /\ to = "link"

LEMMA HarmlessMove ==
    ASSUME TypeOK, MapInv, NEW u \in Users, NEW from, NEW to,
           User(u, from, to), Harmless(from, to),
           UNCHANGED <<mapVars, mutex, executor>>
    PROVE  MapInv'
<1>1. /\ upc[u] = from /\ upc'[u] = to
      /\ \A v \in Users : v # u => upc'[v] = upc[v]
  BY DEF User, TypeOK
<1>2. /\ UNCHANGED <<created, executor_map, link_set, mutex, executor>>
      /\ MapOK'
  BY DEF mapVars, MapInv, MapOK
<1>3. /\ upc[u] \in {"none", "create"} <=> upc'[u] \in {"none", "create"}
      /\ upc[u] \in {"delete", "erase"} <=> upc'[u] \in {"delete", "erase"}
      /\ upc[u] \in {"grow", "link", "delete", "erase"}
            => upc'[u] \in {"grow", "link", "delete", "erase"}
  BY <1>1 DEF Harmless
<1>4. ExecutorOK'
  BY <1>1, <1>2, <1>3 DEF MapInv, ExecutorOK
<1>5. MutexOK'
  BY <1>1, <1>2, <1>3 DEF MapInv, MutexOK, Alive
<1>6. NotLeftOver'
  BY <1>1, <1>2, <1>3 DEF MapInv, NotLeftOver
<1> QED BY <1>2, <1>4, <1>5, <1>6 DEF MapInv

\* CreateExecutor finds the executor of that name, or makes one.
LEMMA FindStep ==
    ASSUME TypeOK, MapInv, NEW u \in Users, NEW n \in Names, FindExecutor(u, n)
    PROVE  MapInv'
<1>1. /\ upc[u] = "create" /\ upc'[u] = "link" /\ executor'[u] = executor_map[n]
      /\ \A v \in Users : v # u => /\ upc'[v] = upc[v]
                                   /\ executor'[v] = executor[v]
      /\ executor_map[n] # 0
  BY DEF FindExecutor, User, TypeOK
<1>2. UNCHANGED <<created, executor_map, link_set, mutex>> /\ MapOK'
  BY DEF FindExecutor, mapVars, MapInv, MapOK
<1>3. ExecutorOK'
  BY <1>1 DEF MapInv, ExecutorOK
<1>4. MutexOK'
  BY <1>1, <1>2 DEF MapInv, MutexOK, Alive
<1>5. NotLeftOver'
  BY <1>1, <1>2 DEF MapInv, NotLeftOver
<1> QED BY <1>2, <1>3, <1>4, <1>5 DEF MapInv

LEMMA CreateStepInv ==
    ASSUME TypeOK, MapInv, NEW u \in Users, NEW n \in Names, CreateExecutor(u, n)
    PROVE  MapInv'
<1> DEFINE k == Len(created) + 1
<1>1. /\ k \notin Executors /\ k # 0 /\ 0 \notin Executors
      /\ created'[k] = n
      /\ \A j \in Executors : created'[j] = created[j] /\ link_set'[j] = link_set[j]
  BY NewExecutor
<1>2. /\ executor_map' = [executor_map EXCEPT ![n] = k]
      /\ executor' = [executor EXCEPT ![u] = k]
      /\ mutex' = mutex /\ mutex = 0 /\ executor_map[n] = 0
  BY DEF CreateExecutor
<1>3. /\ upc[u] = "create" /\ upc'[u] = "grow"
      /\ \A v \in Users : v # u => upc'[v] = upc[v]
  BY DEF CreateExecutor, User, TypeOK
<1> HIDE DEF k
<1>4. /\ executor_map'[n] = k
      /\ \A m \in Names : /\ m # n => executor_map'[m] = executor_map[m]
                          /\ executor_map[m] \in {0} \union Executors
      /\ executor'[u] = k
      /\ \A v \in Users : /\ v # u => executor'[v] = executor[v]
                          /\ executor[v] \in {0} \union Executors
  BY <1>2 DEF TypeOK
<1>5. MapOK'
  BY <1>1, <1>4 DEF MapInv, MapOK
<1>6. ExecutorOK'
  BY <1>1, <1>3, <1>4 DEF MapInv, ExecutorOK
<1>7. MutexOK'
  BY <1>2, <1>3, ServerApiAssumption DEF MapInv, MutexOK
<1>8. NotLeftOver'
  <2> SUFFICES ASSUME NEW m \in Names, executor_map'[m] # 0
               PROVE  \/ link_set'[executor_map'[m]] # {}
                      \/ \E v \in Users :
                            /\ executor'[v] = executor_map'[m]
                            /\ upc'[v] \in {"grow", "link", "delete", "erase"}
    BY DEF NotLeftOver
  <2>1. CASE m = n
    BY <2>1, <1>3, <1>4
  <2>2. CASE m # n
    <3>1. executor_map'[m] = executor_map[m] /\ executor_map[m] \in Executors
      BY <1>4, <2>2
    <3>2. CASE link_set[executor_map[m]] # {}
      BY <1>1, <3>1, <3>2
    <3>3. ASSUME NEW v \in Users, executor[v] = executor_map[m],
                 upc[v] \in {"grow", "link", "delete", "erase"}
          PROVE  /\ executor'[v] = executor_map'[m]
                 /\ upc'[v] \in {"grow", "link", "delete", "erase"}
      BY <1>3, <1>4, <3>1, <3>3
    <3> QED BY <3>1, <3>2, <3>3 DEF MapInv, NotLeftOver
  <2> QED BY <2>1, <2>2
<1> QED BY <1>5, <1>6, <1>7, <1>8 DEF MapInv

LEMMA LinkStep ==
    ASSUME TypeOK, MapInv, NEW u \in Users, Link(u)
    PROVE  MapInv'
<1>1. /\ upc[u] = "link" /\ upc'[u] = "open"
      /\ \A v \in Users : v # u => upc'[v] = upc[v]
      /\ UNCHANGED <<created, executor_map, mutex, executor>>
  BY DEF Link, User, TypeOK
<1>2. /\ \A k \in Executors : link_set[k] \subseteq link_set'[k]
      /\ executor[u] \in Executors /\ u \in link_set'[executor[u]]
  BY <1>1 DEF Link, MapInv, ExecutorOK, TypeOK
<1>3. \A m \in Names : executor_map[m] \in {0} \union Executors
  BY DEF TypeOK
<1>4. MapOK' /\ ExecutorOK'
  BY <1>1 DEF MapInv, MapOK, ExecutorOK
<1>5. MutexOK'
  BY <1>1 DEF MapInv, MutexOK, Alive
<1>6. NotLeftOver'
  BY <1>1, <1>2, <1>3 DEF MapInv, NotLeftOver
<1> QED BY <1>4, <1>5, <1>6 DEF MapInv

\* The session that is taken out of link_set is deleted next, with the mutex.
LEMMA UnlinkStep ==
    ASSUME TypeOK, MapInv, NEW u \in Users, Unlink(u)
    PROVE  MapInv'
<1>1. /\ upc[u] = "lock" /\ upc'[u] = "delete"
      /\ \A v \in Users : v # u => upc'[v] = upc[v]
      /\ UNCHANGED <<created, executor_map, executor>>
      /\ mutex = 0 /\ mutex' = u /\ Alive(executor[u])
  BY DEF Unlink, User, TypeOK, userVars
<1>2. executor[u] \in Executors
  BY <1>1 DEF MapInv, ExecutorOK, TypeOK
<1>3. \A k \in Executors : k # executor[u] => link_set'[k] = link_set[k]
  BY DEF Unlink, TypeOK
<1>4. \A m \in Names : executor_map[m] \in {0} \union Executors
  BY DEF TypeOK
<1>5. MapOK' /\ ExecutorOK'
  BY <1>1 DEF MapInv, MapOK, ExecutorOK
<1>6. MutexOK'
  BY <1>1, ServerApiAssumption DEF MapInv, MutexOK, Alive
<1>7. NotLeftOver'
  BY <1>1, <1>3, <1>4 DEF MapInv, NotLeftOver
<1> QED BY <1>5, <1>6, <1>7 DEF MapInv

LEMMA DeleteStep ==
    ASSUME TypeOK, MapInv, NEW u \in Users, DeleteSession(u)
    PROVE  MapInv'
<1>1. /\ upc[u] = "delete" /\ mutex = u
      /\ \A v \in Users : v # u => upc'[v] = upc[v] /\ executor'[v] = executor[v]
      /\ UNCHANGED <<created, executor_map, link_set>>
  BY DEF DeleteSession, User, Forget, TypeOK, mapVars, MapInv, MutexOK
<1>2. MapOK'
  BY <1>1 DEF MapInv, MapOK
<1>3. CASE link_set[executor[u]] = {}
  <2>1. upc'[u] = "erase" /\ UNCHANGED <<executor, mutex>>
    BY <1>3 DEF DeleteSession, User, TypeOK
  <2>2. ExecutorOK' /\ MutexOK'
    BY <1>1, <2>1 DEF MapInv, ExecutorOK, MutexOK, Alive
  <2>3. NotLeftOver'
    BY <1>1, <2>1 DEF MapInv, NotLeftOver
  <2> QED BY <1>2, <2>2, <2>3 DEF MapInv
<1>4. CASE link_set[executor[u]] # {}
  <2>1. upc'[u] = "none" /\ executor'[u] = 0 /\ mutex' = 0
    BY <1>4 DEF DeleteSession, User, Forget, TypeOK
  <2>2. ExecutorOK'
    BY <1>1, <2>1 DEF MapInv, ExecutorOK
  <2>3. MutexOK'
    BY <1>1, <2>1, ServerApiAssumption DEF MapInv, MutexOK
  <2>4. NotLeftOver'
    BY <1>1, <1>4, <2>1 DEF MapInv, NotLeftOver
  <2> QED BY <1>2, <2>2, <2>3, <2>4 DEF MapInv
<1> QED BY <1>3, <1>4

LEMMA EraseStep ==
    ASSUME TypeOK, MapInv, NEW u \in Users, EraseExecutor(u)
    PROVE  MapInv'
<1>1. /\ upc[u] = "erase" /\ mutex = u /\ upc'[u] = "shrink" /\ mutex' = 0
      /\ \A v \in Users : v # u => upc'[v] = upc[v]
      /\ UNCHANGED <<created, link_set, executor>>
      /\ executor[u] # 0
  BY DEF EraseExecutor, User, TypeOK, userVars, MapInv, MutexOK, ExecutorOK
<1>2. created[executor[u]] \in Names
  BY <1>1, EngineFacts
<1>3. /\ executor_map'[created[executor[u]]] = 0
      /\ \A m \in Names : m # created[executor[u]]
                             => executor_map'[m] = executor_map[m]
  BY <1>2 DEF EraseExecutor, TypeOK
<1>4. MapOK'
  BY <1>1, <1>3 DEF MapInv, MapOK
<1>5. ExecutorOK'
  BY <1>1 DEF MapInv, ExecutorOK
<1>6. MutexOK'
  BY <1>1, ServerApiAssumption DEF MapInv, MutexOK
<1>7. NotLeftOver'
  <2>1. ASSUME NEW m \in Names, executor_map'[m] # 0
        PROVE  executor_map'[m] = executor_map[m] /\ executor_map[m] # executor[u]
    BY <1>3, <2>1 DEF MapInv, MapOK
  <2> QED BY <1>1, <2>1 DEF MapInv, NotLeftOver
<1> QED BY <1>4, <1>5, <1>6, <1>7 DEF MapInv

LEMMA ShrinkStep ==
    ASSUME TypeOK, MapInv, NEW u \in Users, ShrinkPool(u)
    PROVE  MapInv'
<1>1. /\ upc[u] = "shrink" /\ upc'[u] = "none" /\ executor'[u] = 0
      /\ \A v \in Users : v # u => upc'[v] = upc[v] /\ executor'[v] = executor[v]
      /\ UNCHANGED <<created, executor_map, link_set, mutex>>
  BY DEF ShrinkPool, User, Forget, TypeOK, mapVars
<1>2. MapOK' /\ ExecutorOK'
  BY <1>1 DEF MapInv, MapOK, ExecutorOK
<1>3. MutexOK'
  BY <1>1 DEF MapInv, MutexOK, Alive
<1>4. NotLeftOver'
  BY <1>1 DEF MapInv, NotLeftOver
<1> QED BY <1>2, <1>3, <1>4 DEF MapInv

LEMMA MapInvStep == TypeOK /\ MapInv /\ [Next]_vars => MapInv'
<1> SUFFICES ASSUME TypeOK, MapInv, [Next]_vars PROVE MapInv'
  OBVIOUS
<1>1. CASE UNCHANGED vars \/ Leave
  <2>1. UNCHANGED <<created, executor_map, link_set, mutex, upc, executor>>
    BY <1>1 DEF vars, Leave, mapVars, userVars
  <2> QED BY <2>1 DEF MapInv, MapOK, ExecutorOK, MutexOK, NotLeftOver, Alive
<1>2. ASSUME NEW u \in Users, PoolStep(u) \/ UseDeleted(u) PROVE MapInv'
  <2>1. UNCHANGED <<created, executor_map, link_set, mutex, upc, executor>>
    BY <1>2 DEF PoolStep, TestDiscarded, Response, ResponseApi, Delete, UseDeleted, mapVars,
                userVars
  <2> QED BY <2>1 DEF MapInv, MapOK, ExecutorOK, MutexOK, NotLeftOver, Alive
<1>3. ASSUME NEW u \in Users,
             \/ CreateSession(u) \/ Send(u) \/ Timeout(u) \/ DestroySession(u)
             \/ ExistExecutor(u) \/ GrowPool(u) \/ Return(u) \/ DiscardRequest(u)
             \/ \E n \in Names : CreateFailed(u, n)
      PROVE  MapInv'
  <2>1. UNCHANGED <<mapVars, mutex, executor>>
    BY <1>3 DEF CreateSession, Send, Timeout, DestroySession, ExistExecutor,
                GrowPool, Return, DiscardRequest, CreateFailed, userVars
  <2>2. \E from, to \in Places : User(u, from, to) /\ Harmless(from, to)
    BY <1>3 DEF CreateSession, Send, Timeout, DestroySession, ExistExecutor,
                GrowPool, Return, DiscardRequest, CreateFailed, Harmless, Places
  <2> QED BY <2>1, <2>2, HarmlessMove
<1> QED BY <1>1, <1>2, <1>3, FindStep, CreateStepInv, LinkStep, UnlinkStep,
           DeleteStep, EraseStep, ShrinkStep
        DEF Next, CreateStep, LockFree

LEMMA ServerInvStep == ServerInv /\ [Next]_vars => ServerInv'
<1> SUFFICES ASSUME ServerInv, [Next]_vars PROVE ServerInv'
  OBVIOUS
<1>1. TypeOK /\ MapInv /\ WaitedFor
  BY NeededParts DEF ServerInv, MapInv
<1>2. TypeOK' /\ MapInv'
  BY <1>1, TypeStep, MapInvStep DEF MapInv
<1>3. WaitedFor'
  <2>1. CASE UNCHANGED vars \/ Leave
    BY <1>1, <2>1 DEF vars, Leave, WaitedFor
  <2> QED BY <1>1, <2>1, WaitedForStep DEF Next, UserStep, MapInv
<1>4. Needed' <=> (NotLeftOver' /\ WaitedFor')
  BY DEF Needed, NotLeftOver, WaitedFor
<1> QED BY <1>2, <1>3, <1>4 DEF ServerInv, MapInv

\* In every reachable state of a server, for any number of users, names and
\* engines: every executor of the map has a session, or a user who is about to
\* link one or to delete it under the mutex, and every request has a session
\* that is not gone.  infer_server.cpp, CreateExecutor and
\* CheckAndDestroyExecutor.
THEOREM ServerInvCorrect == Spec => []ServerInv
<1>1. Init => ServerInv
  BY InvInit
<1>2. ServerInv /\ [Next]_vars => ServerInv'
  BY ServerInvStep
<1> QED BY <1>1, <1>2, PTL DEF Spec

-----------------------------------------------------------------------------
(* Nothing undefined happens unless a race does.                           *)

NoRace == ~Overlap /\ ~TooLate /\ ~Stale

\* While there was no race, whoever has an executor has one that exists, ...
LiveOK == \A u \in Users :
             executor[u] # 0 /\ upc[u] # "shrink" => Alive(executor[u])
\* ... an executor that is about to be erased has no session, ...
EraseOK == \A u \in Users : upc[u] = "erase" => link_set[executor[u]] = {}
\* ... a session that was not unlinked is linked, ...
LinkedOK == \A u \in Users : upc[u] \in {"open", "wait", "discard", "exist", "lock"}
                                => u \in link_set[executor[u]]
\* ... the caller of RequestSync waits until the response is called or the request
\* is discarded, which it is before the response task looks at it, ...
SyncOK == \A u \in Users :
             /\ req[u] \in {"process", "respond"} /\ sync[u]
                   => upc[u] \in {"wait", "discard"}
             /\ upc[u] = "wait" =>
                   sync[u] /\ req[u] \in {"process", "respond", "end", "none"}
             /\ upc[u] = "discard" => sync[u] /\ req[u] = "process"
\* ... and as long as there is no thread at all, nobody has come as far as
\* growing the pool.
GrowOK == size = 0 => \A k \in Executors : Alive(k) =>
                         \E u \in Users : upc[u] = "grow" /\ executor[u] = k

Sound == ~broken /\ LiveOK /\ EraseOK /\ LinkedOK /\ SyncOK /\ GrowOK

LEMMA SoundInit == Init => Sound
<1> SUFFICES ASSUME Init PROVE Sound
  OBVIOUS
<1>1. Executors = {}
  BY DEF Init, Executors
<1> QED BY <1>1 DEF Init, Sound, LiveOK, EraseOK, LinkedOK, SyncOK, GrowOK

LEMMA SoundServes == Sound => ~broken /\ PoolServes
BY DEF Sound, GrowOK, PoolServes

\* Executors that exist stay while one is made, ...
LEMMA AliveCreate ==
    ASSUME TypeOK, NEW u \in Users, NEW n \in Names, CreateExecutor(u, n),
           NEW k \in Executors
    PROVE  Alive(k)' <=> Alive(k)
<1>1. /\ executor_map' = [executor_map EXCEPT ![n] = Len(created) + 1]
      /\ executor_map[n] = 0
  BY DEF CreateExecutor
<1>2. /\ Len(created) + 1 \notin Executors /\ 0 \notin Executors
      /\ created'[k] = created[k]
  BY NewExecutor
<1>3. created[k] \in Names
  BY ExecutorFacts
<1>4. CASE created[k] = n
  BY <1>1, <1>2, <1>3, <1>4 DEF Alive, TypeOK
<1>5. CASE created[k] # n
  BY <1>1, <1>2, <1>3, <1>5 DEF Alive, TypeOK
<1> QED BY <1>4, <1>5

\* ... and all but one while one is erased.
LEMMA AliveErase ==
    ASSUME TypeOK, MapInv, NEW u \in Users, EraseExecutor(u),
           NEW k \in Executors
    PROVE  Alive(k)' <=> Alive(k) /\ k # executor[u]
<1>1. /\ upc[u] = "erase" /\ executor[u] # 0 /\ Alive(executor[u])
      /\ created' = created
  BY DEF EraseExecutor, User, MapInv, MutexOK, ExecutorOK
<1>2. /\ created[k] \in Names /\ created[executor[u]] \in Names /\ k # 0
  BY <1>1, ExecutorFacts, EngineFacts
<1>3. /\ executor_map'[created[executor[u]]] = 0
      /\ \A m \in Names : m # created[executor[u]]
                             => executor_map'[m] = executor_map[m]
  BY <1>2 DEF EraseExecutor, TypeOK
<1> QED BY <1>1, <1>2, <1>3 DEF Alive

LEMMA LiveStep ==
    ASSUME TypeOK, MapInv, Sound, NoRace, NEW u \in Users, UserStep(u)
    PROVE  LiveOK'
<1>1. \A v \in Users : executor[v] \in {0} \union Executors
  BY DEF TypeOK
<1>2. ASSUME NEW n \in Names, FindExecutor(u, n) PROVE LiveOK'
  <2>1. /\ executor'[u] = executor_map[n] /\ executor_map[n] # 0
        /\ UNCHANGED <<created, executor_map>>
        /\ \A v \in Users : v # u => /\ executor'[v] = executor[v]
                                     /\ upc'[v] = upc[v]
    BY <1>2 DEF FindExecutor, User, TypeOK, mapVars
  <2>2. executor_map[created[executor_map[n]]] = executor_map[n]
    BY <2>1 DEF MapInv, MapOK
  <2> QED BY <2>1, <2>2 DEF Sound, LiveOK, Alive
<1>3. ASSUME NEW n \in Names, CreateExecutor(u, n) PROVE LiveOK'
  <2> DEFINE k == Len(created) + 1
  <2>1. created'[k] = n
    BY <1>3, NewExecutor
  <2>2. /\ executor_map' = [executor_map EXCEPT ![n] = k]
        /\ executor' = [executor EXCEPT ![u] = k]
    BY <1>3 DEF CreateExecutor
  <2>3. \A v \in Users : v # u => upc'[v] = upc[v]
    BY <1>3 DEF CreateExecutor, User, TypeOK
  <2> HIDE DEF k
  <2>4. /\ executor_map'[n] = k /\ executor'[u] = k
        /\ \A v \in Users : v # u => executor'[v] = executor[v]
    BY <2>2 DEF TypeOK
  <2>5. \A j \in Executors : Alive(j) => executor_map'[created'[j]] = j
    BY <1>3, AliveCreate DEF Alive
  <2> QED BY <1>1, <2>1, <2>3, <2>4, <2>5 DEF Sound, LiveOK, Alive
<1>4. CASE EraseExecutor(u)
  <2>1. /\ upc[u] = "erase" /\ upc'[u] = "shrink" /\ mutex = u
        /\ UNCHANGED <<created, executor>>
        /\ \A v \in Users : v # u => upc'[v] = upc[v]
    BY <1>4 DEF EraseExecutor, User, TypeOK, userVars, MapInv, MutexOK
  <2>2. link_set[executor[u]] = {}
    BY <2>1 DEF Sound, EraseOK
  <2>3. ASSUME NEW v \in Users, executor[v] = executor[u], v # u,
               executor[v] # 0, upc[v] # "shrink"
        PROVE  FALSE
    <3>1. upc[v] \notin {"grow", "link"}
      BY <2>1, <2>3 DEF NoRace, Overlap
    <3>3. upc[v] \notin {"delete", "erase"}
      BY <2>1, <2>3 DEF MapInv, MutexOK
    <3>4. upc[v] \notin {"open", "wait", "discard", "exist", "lock"}
      BY <2>2, <2>3 DEF Sound, LinkedOK
    <3>5. upc[v] \notin {"none", "create"}
      BY <2>3 DEF MapInv, ExecutorOK
    <3> QED BY <2>3, <3>1, <3>3, <3>4, <3>5 DEF TypeOK
  <2>4. \A j \in Executors : Alive(j) /\ j # executor[u] => Alive(j)'
    BY <1>4, AliveErase
  <2>5. \A j \in Executors : Alive(j) /\ j # executor[u]
                                => executor_map'[created'[j]] = j
    BY <2>4 DEF Alive
  <2> QED BY <1>1, <2>1, <2>3, <2>5 DEF Sound, LiveOK, Alive
<1>5. CASE DeleteSession(u) \/ ShrinkPool(u)
  <2>1. /\ UNCHANGED <<created, executor_map>>
        /\ (upc[u] # "shrink" /\ executor'[u] = executor[u]) \/ executor'[u] = 0
        /\ \A v \in Users : v # u => /\ executor'[v] = executor[v]
                                     /\ upc'[v] = upc[v]
    BY <1>5 DEF DeleteSession, ShrinkPool, User, Forget, TypeOK, mapVars
  <2> QED BY <2>1 DEF Sound, LiveOK, Alive
<1>6. CASE \/ CreateSession(u) \/ Send(u) \/ Timeout(u) \/ DestroySession(u)
           \/ ExistExecutor(u) \/ Unlink(u) \/ GrowPool(u) \/ Link(u)
           \/ UseDeleted(u) \/ Return(u) \/ DiscardRequest(u) \/ PoolStep(u)
           \/ \E n \in Names : CreateFailed(u, n)
  <2>1. UNCHANGED <<created, executor_map, executor>>
    BY <1>6 DEF CreateSession, Send, Timeout, DestroySession, ExistExecutor,
                Unlink, GrowPool, Link, UseDeleted, Return, DiscardRequest,
                PoolStep, TestDiscarded, Response, ResponseApi, Delete, CreateFailed, mapVars,
                userVars
  <2>2. \A v \in Users : upc[v] = "shrink" => upc'[v] = "shrink"
    BY <1>6 DEF CreateSession, Send, Timeout, DestroySession, ExistExecutor,
                Unlink, GrowPool, Link, UseDeleted, Return, DiscardRequest,
                PoolStep, TestDiscarded, Response, ResponseApi, Delete, CreateFailed, User,
                TypeOK
  <2> QED BY <2>1, <2>2 DEF Sound, LiveOK, Alive
<1> QED BY <1>2, <1>3, <1>4, <1>5, <1>6 DEF UserStep, CreateStep, LockFree

\* What a step of u leaves to the others.
LEMMA OthersStay ==
    ASSUME TypeOK, NEW u \in Users, UserStep(u), NEW v \in Users, v # u
    PROVE  /\ upc'[v] = upc[v] /\ executor'[v] = executor[v]
           /\ sync'[v] = sync[v] /\ req'[v] = req[v]
<1>1. upc'[v] = upc[v]
  BY DEF UserStep, CreateSession, Send, Timeout, DestroySession, CreateStep,
         FindExecutor, CreateExecutor, CreateFailed, ExistExecutor, Unlink,
         LockFree, GrowPool, Link, UseDeleted, Return, DiscardRequest,
         DeleteSession, EraseExecutor, ShrinkPool, PoolStep, TestDiscarded, Response,
         ResponseApi, Delete, User, TypeOK
<1>2. executor'[v] = executor[v] /\ sync'[v] = sync[v]
  BY DEF UserStep, CreateSession, Send, Timeout, DestroySession, CreateStep,
         FindExecutor, CreateExecutor, CreateFailed, ExistExecutor, Unlink,
         LockFree, GrowPool, Link, UseDeleted, Return, DiscardRequest,
         DeleteSession, EraseExecutor, ShrinkPool, PoolStep, TestDiscarded, Response,
         ResponseApi, Delete, Forget, userVars, TypeOK
<1>3. req'[v] = req[v]
  BY DEF UserStep, CreateSession, Send, Timeout, DestroySession, CreateStep,
         FindExecutor, CreateExecutor, CreateFailed, ExistExecutor, Unlink,
         LockFree, GrowPool, Link, UseDeleted, Return, DiscardRequest,
         DeleteSession, EraseExecutor, ShrinkPool, PoolStep, TestDiscarded, Response,
         ResponseApi, Delete, Request, TypeOK
<1> QED BY <1>1, <1>2, <1>3

\* link_set changes in three steps.
LEMMA LinkSetSteps ==
    ASSUME TypeOK, NEW u \in Users, UserStep(u),
           ~Link(u), ~Unlink(u), \A n \in Names : ~CreateExecutor(u, n)
    PROVE  UNCHANGED link_set
BY DEF UserStep, CreateSession, Send, Timeout, DestroySession, CreateStep,
       FindExecutor, CreateFailed, ExistExecutor, LockFree, GrowPool,
       UseDeleted, Return, DiscardRequest, DeleteSession, EraseExecutor,
       ShrinkPool, PoolStep, TestDiscarded, Response, ResponseApi, Delete, mapVars

LEMMA EraseOKStep ==
    ASSUME TypeOK, MapInv, Sound, NoRace, NEW u \in Users, UserStep(u)
    PROVE  EraseOK'
<1> SUFFICES ASSUME NEW v \in Users, upc'[v] = "erase"
             PROVE  link_set'[executor'[v]] = {}
  BY DEF EraseOK
<1>1. CASE v = u
  <2>1. DeleteSession(u) \/ (UNCHANGED <<upc, link_set, executor>>)
    BY <1>1 DEF UserStep, CreateSession, Send, Timeout, DestroySession,
         CreateStep, FindExecutor, CreateExecutor, CreateFailed, ExistExecutor,
         Unlink, LockFree, GrowPool, Link, UseDeleted, Return, DiscardRequest,
         EraseExecutor, ShrinkPool, PoolStep, TestDiscarded, Response, ResponseApi, Delete,
         User, TypeOK, mapVars, userVars
  <2>2. CASE DeleteSession(u)
    BY <1>1, <2>2 DEF DeleteSession, User, TypeOK, mapVars
  <2>3. CASE UNCHANGED <<upc, link_set, executor>>
    BY <2>3 DEF Sound, EraseOK
  <2> QED BY <2>1, <2>2, <2>3
<1>2. CASE v # u
  <2>1. upc[v] = "erase" /\ executor'[v] = executor[v]
    BY <1>2, OthersStay
  <2>2. link_set[executor[v]] = {} /\ executor[v] \in Executors /\ mutex = v
    BY <2>1 DEF Sound, EraseOK, MapInv, ExecutorOK, MutexOK, TypeOK
  <2>3. CASE Link(u)
    <3>1. executor[u] # executor[v]
      BY <2>1, <2>3 DEF Link, User, NoRace, Overlap
    <3> QED BY <2>1, <2>2, <2>3, <3>1 DEF Link, TypeOK
  <2>4. ~Unlink(u)
    BY <2>2, ServerApiAssumption DEF Unlink
  <2>5. ASSUME NEW n \in Names, CreateExecutor(u, n) PROVE FALSE
    BY <2>2, <2>5, ServerApiAssumption DEF CreateExecutor
  <2>6. CASE ~Link(u)
    BY <2>1, <2>2, <2>4, <2>5, <2>6, LinkSetSteps
  <2> QED BY <2>3, <2>6
<1> QED BY <1>1, <1>2

LEMMA LinkedStep ==
    ASSUME TypeOK, MapInv, Sound, NoRace, NEW u \in Users, UserStep(u)
    PROVE  LinkedOK'
<1> SUFFICES ASSUME NEW v \in Users, upc'[v] \in {"open", "wait", "discard", "exist", "lock"}
             PROVE  v \in link_set'[executor'[v]]
  BY DEF LinkedOK
<1>1. CASE Link(u) /\ v = u
  BY <1>1, EngineFacts DEF Link, User, TypeOK, MapInv, ExecutorOK
<1>2. ASSUME v # u \/ ~Link(u)
      PROVE  /\ upc[v] \in {"open", "wait", "discard", "exist", "lock"}
             /\ executor'[v] = executor[v]
  <2>2. CASE v = u
    BY <1>2, <2>2 DEF UserStep, CreateSession, Send, Timeout,
         DestroySession, CreateStep, FindExecutor, CreateExecutor, CreateFailed,
         ExistExecutor, Unlink, LockFree, GrowPool, UseDeleted, Return,
         DiscardRequest, DeleteSession, EraseExecutor, ShrinkPool, PoolStep,
         TestDiscarded, Response, ResponseApi, Delete, User, TypeOK, userVars
  <2> QED BY <2>2, OthersStay
<1>3. ASSUME v # u \/ ~Link(u)
      PROVE  v \in link_set'[executor'[v]]
  <2>1. v \in link_set[executor[v]] /\ executor[v] \in Executors
    BY <1>2, <1>3 DEF Sound, LinkedOK, MapInv, ExecutorOK, TypeOK
  <2>2. ASSUME NEW n \in Names, CreateExecutor(u, n)
        PROVE  link_set'[executor[v]] = link_set[executor[v]]
    BY <2>1, <2>2, NewExecutor
  <2>3. CASE Unlink(u)
    <3>1. u # v
      BY <2>3 DEF Unlink, User, TypeOK
    <3> QED BY <1>2, <1>3, <2>1, <2>3, <3>1 DEF Unlink, TypeOK
  <2>4. CASE Link(u)
    BY <1>2, <1>3, <2>1, <2>4 DEF Link, TypeOK
  <2> QED BY <1>2, <1>3, <2>1, <2>2, <2>3, <2>4, LinkSetSteps
<1> QED BY <1>1, <1>3

LEMMA SyncStep ==
    ASSUME TypeOK, MapInv, WaitedFor, Sound, NoRace, NoRace', NEW u \in Users,
           UserStep(u)
    PROVE  SyncOK'
<1> DEFINE OK(v) == /\ req[v] \in {"process", "respond"} /\ sync[v]
                          => upc[v] \in {"wait", "discard"}
                    /\ upc[v] = "wait" =>
                          sync[v] /\ req[v] \in {"process", "respond", "end", "none"}
                    /\ upc[v] = "discard" => sync[v] /\ req[v] = "process"
<1>1. \A v \in Users : OK(v)
  BY DEF Sound, SyncOK
<1>2. ASSUME NEW v \in Users, v # u PROVE OK(v)'
  BY <1>1, <1>2, OthersStay
<1>3. \A v \in Users : ~(upc[v] = "discard" /\ req[v] = "respond")'
  BY DEF NoRace, TooLate
<1>4. OK(u)'
  <2> USE <1>1, <1>3
  <2>1. CASE Send(u)
    BY <2>1 DEF Send, User, Request, userVars, TypeOK
  <2>2. CASE Link(u)
    BY <2>2 DEF Link, User, WaitedFor, TypeOK
  <2>3. CASE TestDiscarded(u)
    BY <2>3 DEF TestDiscarded, Request, userVars, TypeOK
  <2>4. CASE Response(u)
    BY <2>4 DEF Response, Request, userVars, TypeOK
  <2>5. CASE ResponseApi(u) \/ Delete(u)
    BY <2>5 DEF ResponseApi, Delete, Request, userVars, TypeOK
  <2>6. CASE Timeout(u) \/ Return(u)
    BY <2>6 DEF Timeout, Return, FlagSet, User, userVars, TypeOK
  <2>7. CASE DiscardRequest(u)
    BY <2>7 DEF DiscardRequest, User, Request, userVars, TypeOK
  <2>8. CASE UseDeleted(u)
    BY <2>8 DEF UseDeleted, userVars
  <2>9. CASE \/ CreateSession(u) \/ DestroySession(u) \/ CreateStep(u)
             \/ ExistExecutor(u) \/ Unlink(u) \/ GrowPool(u) \/ DeleteSession(u)
             \/ EraseExecutor(u) \/ ShrinkPool(u)
    <3>1. UNCHANGED req /\ upc'[u] \notin {"wait", "discard"}
      BY <2>9 DEF CreateSession, DestroySession, CreateStep, FindExecutor,
         CreateExecutor, CreateFailed, ExistExecutor, Unlink, GrowPool,
         DeleteSession, EraseExecutor, ShrinkPool, User, TypeOK
    <3>2. upc[u] \notin {"wait", "discard"}
      BY <2>9 DEF CreateSession, DestroySession, CreateStep, FindExecutor,
         CreateExecutor, CreateFailed, ExistExecutor, Unlink, GrowPool,
         DeleteSession, EraseExecutor, ShrinkPool, User
    <3>3. sync'[u] => sync[u]
      BY <2>9 DEF CreateSession, DestroySession, CreateStep, FindExecutor,
         CreateExecutor, CreateFailed, ExistExecutor, Unlink, GrowPool,
         DeleteSession, EraseExecutor, ShrinkPool, Forget, userVars, TypeOK
    <3> QED BY <3>1, <3>2, <3>3
  <2> QED BY <2>1, <2>2, <2>3, <2>4, <2>5, <2>6, <2>7, <2>8, <2>9
          DEF UserStep, LockFree, PoolStep
<1> QED BY <1>2, <1>4 DEF SyncOK

\* The pool has threads from the first GrowPool on: ShrinkPool leaves some.
LEMMA GrowStep ==
    ASSUME TypeOK, MapInv, Sound, NoRace, NEW u \in Users, UserStep(u)
    PROVE  GrowOK' /\ ~broken'
<1>1. CASE GrowPool(u)
  <2>1. upc[u] = "grow" /\ executor[u] # 0
    BY <1>1 DEF GrowPool, User, MapInv, ExecutorOK
  <2> DEFINE e == EngineNum[created[executor[u]]]
  <2>2. e \in Nat \ {0} /\ size \in 0 .. MaxThreads /\ MaxThreads \in Nat \ {0}
    BY <2>1, EngineFacts, ServerApiAssumption DEF TypeOK
  <2>3. size' = IF size < MaxThreads THEN AtMostMaxThreads(size + 3 * e) ELSE size
    BY <1>1 DEF GrowPool
  <2> HIDE DEF e
  <2>4. size' # 0
    BY <2>2, <2>3 DEF AtMostMaxThreads
  <2> QED BY <1>1, <2>4 DEF GrowPool, Sound, GrowOK
<1>2. CASE ShrinkPool(u)
  <2>1. upc[u] = "shrink" /\ executor[u] # 0 /\ upc'[u] = "none"
    BY <1>2 DEF ShrinkPool, User, TypeOK, MapInv, ExecutorOK
  <2>2. leaving = 0
    BY <2>1 DEF NoRace, Stale, TypeOK
  <2> DEFINE n == 3 * EngineNum[created[executor[u]]]
  <2>3. n \in Nat /\ size \in Nat
    BY <2>1, EngineFacts, ServerApiAssumption DEF TypeOK
  <2>4. PICK seen \in 0 .. size + leaving :
             IF ~EnoughIdle(seen, n) THEN UNCHANGED <<poolVars, broken>>
             ELSE IF size <= n
             THEN broken' = TRUE /\ UNCHANGED poolVars
             ELSE /\ size' = size - n
                  /\ \E waiting \in 0 .. n : leaving' = leaving + waiting
                  /\ UNCHANGED broken
    BY <1>2 DEF ShrinkPool
  <2> HIDE DEF n
  <2>5. EnoughIdle(seen, n) => ~(size <= n)
    BY <2>2, <2>3, <2>4 DEF EnoughIdle
  <2>6. UNCHANGED broken /\ (UNCHANGED size \/ size' # 0)
    <3>1. CASE EnoughIdle(seen, n)
      <4>1. size' = size - n /\ UNCHANGED broken
        BY <2>4, <2>5, <3>1
      <4> QED BY <2>3, <2>5, <3>1, <4>1
    <3>2. CASE ~EnoughIdle(seen, n)
      BY <2>4, <3>2 DEF poolVars
    <3> QED BY <3>1, <3>2
  <2>7. /\ \A v \in Users : upc[v] = "grow" => /\ upc'[v] = "grow"
                                               /\ executor'[v] = executor[v]
        /\ UNCHANGED <<created, executor_map>>
    BY <1>2, <2>1 DEF ShrinkPool, User, Forget, TypeOK, mapVars
  <2>8. GrowOK'
    BY <2>6, <2>7 DEF Sound, GrowOK, Executors, Alive
  <2> QED BY <2>6, <2>8 DEF Sound
<1>3. ASSUME NEW n \in Names, CreateExecutor(u, n) PROVE GrowOK' /\ ~broken'
  <2> DEFINE k == Len(created) + 1
  <2>1. /\ UNCHANGED <<size, broken>> /\ executor' = [executor EXCEPT ![u] = k]
        /\ upc[u] = "create" /\ upc'[u] = "grow"
        /\ \A v \in Users : v # u => upc'[v] = upc[v]
    BY <1>3 DEF CreateExecutor, User, TypeOK, poolVars
  <2>2. Executors' = Executors \union {k}
    BY <1>3, NewExecutor
  <2>3. \A j \in Executors : Alive(j)' => Alive(j)
    BY <1>3, AliveCreate
  <2> HIDE DEF k
  <2>4. executor'[u] = k /\ \A v \in Users : v # u => executor'[v] = executor[v]
    BY <2>1 DEF TypeOK
  <2>5. ASSUME size' = 0, NEW j \in Executors', Alive(j)'
        PROVE  \E v \in Users : upc'[v] = "grow" /\ executor'[v] = j
    <3>1. CASE j = k
      BY <2>1, <2>4, <3>1
    <3>2. CASE j # k
      <4>1. PICK v \in Users : upc[v] = "grow" /\ executor[v] = j
        BY <2>1, <2>2, <2>3, <2>5, <3>2 DEF Sound, GrowOK
      <4> QED BY <2>1, <2>4, <4>1
    <3> QED BY <3>1, <3>2
  <2> QED BY <2>1, <2>5 DEF GrowOK, Sound
<1>4. CASE EraseExecutor(u)
  <2>1. /\ UNCHANGED <<size, broken, created, executor>> /\ upc[u] = "erase"
        /\ \A v \in Users : v # u => upc'[v] = upc[v]
    BY <1>4 DEF EraseExecutor, User, TypeOK, poolVars, userVars
  <2>2. \A j \in Executors : Alive(j)' => Alive(j)
    BY <1>4, AliveErase
  <2> QED BY <2>1, <2>2 DEF Sound, GrowOK, Executors
<1>5. CASE \/ CreateSession(u) \/ Send(u) \/ Timeout(u) \/ DestroySession(u)
           \/ ExistExecutor(u) \/ Unlink(u) \/ Link(u) \/ UseDeleted(u)
           \/ Return(u) \/ DiscardRequest(u) \/ DeleteSession(u) \/ PoolStep(u)
           \/ \E n \in Names : FindExecutor(u, n) \/ CreateFailed(u, n)
  <2>1. UNCHANGED <<created, executor_map, size>>
    BY <1>5 DEF CreateSession, Send, Timeout, DestroySession, FindExecutor,
         CreateFailed, ExistExecutor, Unlink, Link, UseDeleted, Return,
         DiscardRequest, DeleteSession, PoolStep, TestDiscarded, Response, ResponseApi, Delete,
         mapVars, poolVars
  <2>2. \A v \in Users : upc[v] = "grow" => /\ upc'[v] = "grow"
                                            /\ executor'[v] = executor[v]
    BY <1>5 DEF CreateSession, Send, Timeout, DestroySession, FindExecutor,
         CreateFailed, ExistExecutor, Unlink, Link, UseDeleted, Return,
         DiscardRequest, DeleteSession, PoolStep, TestDiscarded, Response, ResponseApi, Delete,
         Forget, User, TypeOK, userVars
  <2>3. ~UseDeleted(u)
    BY DEF UseDeleted, Sound, LiveOK, MapInv, ExecutorOK
  <2>4. ASSUME DiscardRequest(u) PROVE ~broken'
    BY <2>4 DEF DiscardRequest, User, Sound, SyncOK
  <2>5. ASSUME Response(u) PROVE ~broken'
    BY <2>5 DEF Response, Request, Sound, SyncOK
  <2>6. ~broken'
    BY <1>5, <2>3, <2>4, <2>5 DEF CreateSession, Send, Timeout, DestroySession,
         FindExecutor, CreateFailed, ExistExecutor, Unlink, Link, Return,
         DeleteSession, PoolStep, TestDiscarded, ResponseApi, Delete, Sound
  <2>7. GrowOK'
    BY <2>1, <2>2 DEF Sound, GrowOK, Executors, Alive
  <2> QED BY <2>6, <2>7
<1> QED BY <1>1, <1>2, <1>3, <1>4, <1>5 DEF UserStep, CreateStep, LockFree

LEMMA SoundStep ==
    ServerInv /\ Sound /\ NoRace /\ NoRace' /\ [Next]_vars => Sound'
<1> SUFFICES ASSUME ServerInv, Sound, NoRace, NoRace', [Next]_vars
             PROVE  Sound'
  OBVIOUS
<1>1. TypeOK /\ MapInv /\ WaitedFor
  BY NeededParts DEF ServerInv, MapInv
<1>2. CASE UNCHANGED vars \/ Leave
  <2>1. UNCHANGED <<created, executor_map, link_set, upc, executor, sync, req,
                    size, broken>>
    BY <1>2 DEF vars, Leave, mapVars, userVars, poolVars
  <2> QED BY <2>1 DEF Sound, LiveOK, EraseOK, LinkedOK, SyncOK, GrowOK, Alive,
                      Executors
<1>3. ASSUME NEW u \in Users, UserStep(u) PROVE Sound'
  BY <1>1, <1>3, LiveStep, EraseOKStep, LinkedStep, SyncStep, GrowStep DEF Sound
<1> QED BY <1>2, <1>3 DEF Next, UserStep

\* For any number of users, names, engines and threads: if no call of
\* CreateSession overlaps the erasing of the executor that it found, no call of
\* RequestSync times out so late that the response task has already looked whether
\* the request is discarded, and the pool is never shrunk while it still counts
\* detached threads as idle, then nothing that is gone is used and every session
\* has threads that serve it.  InferServerPrivate::CreateExecutor and
\* CheckAndDestroyExecutor, and RequestSync, of infer_server.cpp.
THEOREM SoundUnlessRacedCorrect == Spec => SoundUnlessRaced
<1>1. Init => ServerInv /\ Sound
  BY InvInit, SoundInit
<1>2. ServerInv /\ [Next]_vars => ServerInv'
  BY ServerInvStep
<1>3. ServerInv /\ Sound /\ NoRace /\ NoRace' /\ [Next]_vars => Sound'
  BY SoundStep
<1>4. Sound => ~broken /\ PoolServes
  BY SoundServes
<1>5. Spec /\ []NoRace => [](~broken /\ PoolServes)
  BY <1>1, <1>2, <1>3, <1>4, PTL DEF Spec
<1> QED BY <1>5, PTL DEF SoundUnlessRaced, NoRace

-----------------------------------------------------------------------------
(* Executor.  Ranks: R[x] is the set of the elements of S up to x.         *)

LEMMA RankBijection ==
    ASSUME NEW S, IsFiniteSet(S), NEW R \in [S -> SUBSET S],
           \A x \in S : x \in R[x],
           \A x, y \in S : x # y => \/ R[x] \subseteq R[y] /\ y \notin R[x]
                                    \/ R[y] \subseteq R[x] /\ x \notin R[y]
    PROVE  /\ Cardinality(S) \in Nat
           /\ \A x \in S : Cardinality(R[x]) \in 1 .. Cardinality(S)
           /\ \A x, y \in S : Cardinality(R[x]) = Cardinality(R[y]) => x = y
           /\ \A k \in 1 .. Cardinality(S) : \E x \in S : Cardinality(R[x]) = k
<1> DEFINE n == Cardinality(S)
           f == [x \in S |-> Cardinality(R[x])]
<1>1. n \in Nat
  BY FS_CardinalityType
<1>2. ASSUME NEW x \in S
      PROVE  IsFiniteSet(R[x]) /\ Cardinality(R[x]) \in 1 .. n
  <2>1. IsFiniteSet(R[x]) /\ Cardinality(R[x]) <= n
    BY FS_Subset
  <2>2. Cardinality(R[x]) \in Nat /\ Cardinality(R[x]) # 0
    BY <2>1, FS_CardinalityType, FS_EmptySet
  <2> QED BY <1>1, <2>1, <2>2
<1>3. ASSUME NEW x \in S, NEW y \in S, R[x] \subseteq R[y], y \notin R[x]
      PROVE  Cardinality(R[x]) # Cardinality(R[y])
  BY <1>2, <1>3, FS_Subset
<1>4. \A x, y \in S : Cardinality(R[x]) = Cardinality(R[y]) => x = y
  BY <1>3
<1>5. f \in Injection(S, 1 .. n)
  BY <1>2, <1>4 DEF Injection, IsInjective
<1>6. IsFiniteSet(1 .. n) /\ Cardinality(1 .. n) = n
  BY <1>1, FS_Interval
<1>7. f \in Surjection(S, 1 .. n)
  <2> HIDE DEF f
  <2> QED BY <1>5, <1>6, FS_Injection
<1>8. \A k \in 1 .. n : \E x \in S : f[x] = k
  BY <1>7 DEF Surjection
<1> QED BY <1>1, <1>2, <1>4, <1>8

-----------------------------------------------------------------------------
(* The cache.                                                              *)

LEMMA CacheFacts ==
    ASSUME NEW S, NEW s \in Seq(S)
    PROVE  /\ \A x \in S : Append(s, x) \in Seq(S)
           /\ s # << >> => Head(s) \in S /\ Tail(s) \in Seq(S)
           /\ << >> \in Seq(S)
OBVIOUS

LEMMA CacheAppend ==
    ASSUME NEW S, NEW s \in Seq(S), NEW x \in S, IsInjective(s), x \notin ToSet(s)
    PROVE  /\ Append(s, x) \in Seq(S)
           /\ IsInjective(Append(s, x))
           /\ ToSet(Append(s, x)) = ToSet(s) \union {x}
<1> DEFINE t == Append(s, x)
<1>1. /\ t \in Seq(S) /\ DOMAIN t = 1 .. Len(s) + 1 /\ DOMAIN s = 1 .. Len(s)
      /\ Len(s) \in Nat /\ t[Len(s) + 1] = x
      /\ \A i \in 1 .. Len(s) : t[i] = s[i]
  OBVIOUS
<1> HIDE DEF t
<1>2. \A i \in 1 .. Len(s) + 1 : i \in 1 .. Len(s) \/ i = Len(s) + 1
  BY <1>1
<1>3. ToSet(t) = ToSet(s) \union {x}
  BY <1>1, <1>2 DEF ToSet
<1>4. \A i \in 1 .. Len(s) : s[i] # x
  BY <1>1 DEF ToSet
<1>5. IsInjective(t)
  BY <1>1, <1>2, <1>4 DEF IsInjective
<1> QED BY <1>1, <1>3, <1>5 DEF t

LEMMA CacheTail ==
    ASSUME NEW S, NEW s \in Seq(S), IsInjective(s), s # << >>
    PROVE  /\ Head(s) \in S /\ Tail(s) \in Seq(S)
           /\ IsInjective(Tail(s))
           /\ ToSet(Tail(s)) = ToSet(s) \ {Head(s)} /\ Head(s) \in ToSet(s)
<1> DEFINE t == Tail(s)
<1>1. /\ t \in Seq(S) /\ DOMAIN t = 1 .. Len(s) - 1 /\ DOMAIN s = 1 .. Len(s)
      /\ Len(s) \in Nat \ {0} /\ Head(s) = s[1] /\ s[1] \in S
      /\ \A i \in 1 .. Len(s) - 1 : t[i] = s[i + 1]
  OBVIOUS
<1> HIDE DEF t
<1>2. \A i \in 1 .. Len(s) : i = 1 \/ (i - 1 \in 1 .. Len(s) - 1 /\ (i - 1) + 1 = i)
  BY <1>1
<1>3. \A i \in 1 .. Len(s) - 1 : i + 1 \in 1 .. Len(s) /\ i + 1 # 1
  BY <1>1
<1>4. IsInjective(t)
  <2> SUFFICES ASSUME NEW i \in 1 .. Len(s) - 1, NEW j \in 1 .. Len(s) - 1, t[i] = t[j]
               PROVE  i = j
    BY <1>1 DEF IsInjective
  <2>1. i + 1 = j + 1
    BY <1>1, <1>3 DEF IsInjective
  <2> QED BY <1>1, <2>1
<1>5. ToSet(t) \subseteq ToSet(s) \ {s[1]}
  BY <1>1, <1>3 DEF ToSet, IsInjective
<1>6. ASSUME NEW i \in 1 .. Len(s), s[i] # s[1] PROVE s[i] \in ToSet(t)
  <2>1. i - 1 \in 1 .. Len(s) - 1 /\ (i - 1) + 1 = i
    BY <1>2, <1>6
  <2>2. t[i - 1] = s[i]
    BY <1>1, <2>1
  <2> QED BY <1>1, <2>1, <2>2 DEF ToSet
<1>7. s[1] \in ToSet(s)
  BY <1>1 DEF ToSet
<1>8. ToSet(s) \ {s[1]} \subseteq ToSet(t)
  BY <1>1, <1>6 DEF ToSet
<1> QED BY <1>1, <1>4, <1>5, <1>7, <1>8 DEF t

\* What is left of a cache are its requests that are not discarded, each once.
LEMMA KeptFacts ==
    ASSUME NEW discarded, cache \in Seq(Requests), IsInjective(cache)
    PROVE  /\ Kept(discarded) \in Seq(Requests)
           /\ IsInjective(Kept(discarded))
           /\ ToSet(Kept(discarded)) = ToSet(cache) \ discarded
<1> DEFINE at == {i \in DOMAIN cache : cache[i] \notin discarded}
           upto == [i \in at |-> {j \in at : j <= i}]
           n == Cardinality(at)
           Nth(k) == CHOOSE i \in at : Cardinality({j \in at : j <= i}) = k
           kept == [k \in 1 .. n |-> cache[Nth(k)]]
<1>1. /\ DOMAIN cache = 1 .. Len(cache) /\ Len(cache) \in Nat
      /\ at \subseteq 1 .. Len(cache)
  OBVIOUS
<1>2. IsFiniteSet(at)
  <2>1. IsFiniteSet(1 .. Len(cache))
    BY <1>1, FS_Interval
  <2> HIDE DEF at
  <2> QED BY <1>1, <2>1, FS_Subset
<1>3. /\ upto \in [at -> SUBSET at]
      /\ \A i \in at : i \in upto[i]
      /\ \A i, j \in at : i # j => \/ upto[i] \subseteq upto[j] /\ j \notin upto[i]
                                   \/ upto[j] \subseteq upto[i] /\ i \notin upto[j]
  BY <1>1
<1>4. /\ n \in Nat
      /\ \A i \in at : Cardinality(upto[i]) \in 1 .. n
      /\ \A i, j \in at : Cardinality(upto[i]) = Cardinality(upto[j]) => i = j
      /\ \A k \in 1 .. n : \E i \in at : Cardinality(upto[i]) = k
  <2> HIDE DEF at, upto
  <2> QED BY <1>2, <1>3, RankBijection DEF n
<1>5. \A k \in 1 .. n : Nth(k) \in at /\ Cardinality(upto[Nth(k)]) = k
  BY <1>4
<1>6. \A i \in at : \E k \in 1 .. n : Nth(k) = i
  <2> SUFFICES ASSUME NEW i \in at PROVE \E k \in 1 .. n : Nth(k) = i
    OBVIOUS
  <2> HIDE DEF Nth, upto, at, n
  <2>1. Cardinality(upto[i]) \in 1 .. n
    BY <1>4
  <2>2. Nth(Cardinality(upto[i])) = i
    BY <1>4, <1>5, <2>1
  <2> QED BY <2>1, <2>2
<1>7. Kept(discarded) = kept
  BY DEF Kept
<1> HIDE DEF Nth, upto, n
<1>8. /\ DOMAIN kept = 1 .. n /\ \A k \in 1 .. n : kept[k] = cache[Nth(k)]
      /\ kept \in Seq(Requests)
  BY <1>1, <1>4, <1>5
<1>9. IsInjective(kept)
  BY <1>1, <1>5, <1>8 DEF IsInjective
<1>10. ToSet(kept) = ToSet(cache) \ discarded
  <2>1. ToSet(kept) \subseteq ToSet(cache) \ discarded
    BY <1>1, <1>5, <1>8 DEF ToSet
  <2>2. ASSUME NEW r \in ToSet(cache) \ discarded PROVE r \in ToSet(kept)
    <3>1. PICK i \in at : cache[i] = r
      BY DEF ToSet
    <3>2. PICK k \in 1 .. n : Nth(k) = i
      BY <1>6
    <3> QED BY <1>8, <3>1, <3>2 DEF ToSet
  <2> QED BY <2>1, <2>2
<1> QED BY <1>7, <1>8, <1>9, <1>10

-----------------------------------------------------------------------------
(* The count of the pieces in process.                                     *)

LEMMA CountTo ==
    ASSUME NEW k \in Nat
    PROVE  IsFiniteSet(1 .. k) /\ Cardinality(1 .. k) = k
BY FS_Interval

LEMMA CountOne ==
    ASSUME NEW x
    PROVE  IsFiniteSet({x}) /\ Cardinality({x}) = 1
BY FS_Singleton

LEMMA RequestFacts ==
    /\ Pieces \in [Requests -> Nat \ {0}]
    /\ IsFiniteSet(Requests) /\ 0 \notin Requests
    /\ 1 \in Engines /\ 0 \notin Engines /\ EngineCount \in Engines
    /\ \A e \in Engines : e = EngineCount \/ e + 1 \in Engines
    /\ MaxProcessing \in Nat \ {0}
<1>1. Requests = 1 .. Len(Pieces) /\ Len(Pieces) \in Nat
  BY ExecutorAssumption DEF ExecutorAssumption, Requests
<1>2. IsFiniteSet(Requests)
  BY <1>1, FS_Interval
<1>3. Pieces \in [Requests -> Nat \ {0}]
  BY ExecutorAssumption DEF ExecutorAssumption, Requests
<1> QED BY <1>1, <1>2, <1>3, ExecutorAssumption DEF ExecutorAssumption, Engines

\* The pieces of some requests can be counted.
LEMMA PiecesFinite ==
    ASSUME NEW S \in SUBSET Requests
    PROVE  IsFiniteSet(PiecesOf(S)) /\ Cardinality(PiecesOf(S)) \in Nat
<1> DEFINE P(r) == {r} \X (1 .. Pieces[r])
           T == {P(r) : r \in S}
           f == [r \in S |-> P(r)]
<1>1. IsFiniteSet(S)
  BY RequestFacts, FS_Subset
<1>2. f \in Surjection(S, T)
  BY DEF Surjection
<1>3. IsFiniteSet(T)
  <2> HIDE DEF f, T
  <2> QED BY <1>1, <1>2, FS_Surjection
<1>4. ASSUME NEW r \in S PROVE IsFiniteSet(P(r))
  <2>1. IsFiniteSet({r}) /\ IsFiniteSet(1 .. Pieces[r])
    <3>1. Pieces[r] \in Nat
      BY RequestFacts
    <3> QED BY <3>1, CountOne, CountTo
  <2> QED BY <2>1, FS_Product
<1>5. IsFiniteSet(UNION T)
  BY <1>3, <1>4, FS_UNION
<1> QED BY <1>5, FS_CardinalityType DEF PiecesOf

LEMMA PiecesAdd ==
    ASSUME NEW S \in SUBSET Requests, NEW r \in Requests, r \notin S
    PROVE  Cardinality(PiecesOf(S \union {r})) = Cardinality(PiecesOf(S)) + Pieces[r]
<1> DEFINE P == {r} \X (1 .. Pieces[r])
<1>1. PiecesOf(S \union {r}) = PiecesOf(S) \union P
  BY DEF PiecesOf
<1>2. PiecesOf(S) \intersect P = {}
  BY DEF PiecesOf
<1>3. IsFiniteSet(PiecesOf(S)) /\ Cardinality(PiecesOf(S)) \in Nat
  BY PiecesFinite
<1>4. /\ IsFiniteSet({r}) /\ Cardinality({r}) = 1
      /\ IsFiniteSet(1 .. Pieces[r]) /\ Cardinality(1 .. Pieces[r]) = Pieces[r]
      /\ Pieces[r] \in Nat
  <2>1. Pieces[r] \in Nat
    BY RequestFacts
  <2> QED BY <2>1, CountOne, CountTo
<1>5. IsFiniteSet(P) /\ Cardinality(P) = Pieces[r]
  <2>1. IsFiniteSet(P) /\ Cardinality(P) = 1 * Pieces[r]
    BY <1>4, FS_Product
  <2> QED BY <1>4, <2>1
<1> HIDE DEF P
<1>6. /\ Cardinality(PiecesOf(S) \union P)
         = Cardinality(PiecesOf(S)) + Cardinality(P) - Cardinality(PiecesOf(S) \intersect P)
      /\ Cardinality({}) = 0
  BY <1>3, <1>5, FS_Union, FS_EmptySet
<1>7. Cardinality(PiecesOf(S) \union P) = Cardinality(PiecesOf(S)) + Pieces[r] - 0
  BY <1>2, <1>5, <1>6
<1> DEFINE a == Cardinality(PiecesOf(S))
           b == Cardinality(PiecesOf(S \union {r}))
           c == Pieces[r]
<1>8. a \in Nat /\ c \in Nat /\ b = a + c - 0
  BY <1>1, <1>3, <1>4, <1>7
<1>9. b = a + c
  <2> HIDE DEF a, b, c
  <2> QED BY <1>8
<1> QED BY <1>9

-----------------------------------------------------------------------------
(* The inductive invariant.                                                *)

\* A request in one of the places, or answered, was sent.
Placed(r) == \/ r \in ToSet(cache) \/ r = pack \/ r \in answered
             \/ \E e \in Engines : r \in inflight[e]
SentOK == \A r \in Requests : Placed(r) => rpc[r] = "sent"

\* The places are disjoint.
PlacesOK ==
    /\ IsInjective(cache) /\ pack \notin ToSet(cache)
    /\ answered \intersect (ToSet(cache) \union {pack}) = {}
    /\ \A e \in Engines :
          /\ inflight[e] \intersect (ToSet(cache) \union {pack} \union answered) = {}
          /\ \A f \in Engines \ {e} : inflight[e] \intersect inflight[f] = {}

NumOK == processing_num = Cardinality(PiecesOf(InProcess))

\* The dispatcher has a batch from Pop until Run, and then an engine for it.
HoldsPack == {"idle", "pred", "idleBlock", "idleAsleep", "run"}
PackOK == /\ pack # 0 <=> spc \in HoldsPack
          /\ spc = "run" => idle # 0

\* Nothing is on its way when ~Executor has begun, and the dispatcher has ended
\* when it is joined.
QuietOK == /\ dpc # "run" => \A r \in Requests :
                 rpc[r] \in {"new", "refused"} \/ r \in answered
           /\ dpc \in {"engines", "gone"} => spc = "end"

ExecutorIInv == /\ ExecutorTypeOK /\ SentOK /\ PlacesOK /\ NumOK /\ PackOK
                /\ QuietOK

LEMMA ExecutorInvInit == ExecutorInit => ExecutorIInv
<1> SUFFICES ASSUME ExecutorInit PROVE ExecutorIInv
  OBVIOUS
<1> USE RequestFacts DEF ExecutorInit
<1>1. ExecutorTypeOK
  <2>1. /\ rpc \in [Requests -> {"new", "pred", "block", "asleep", "refused",
                                 "upload", "push", "sent"}]
        /\ answered \subseteq Requests /\ running \in BOOLEAN
        /\ pack \in Requests \union {0}
    OBVIOUS
  <2>2. cache \in Seq(Requests)
    OBVIOUS
  <2>3. /\ it \in Engines /\ idle \in Engines \union {0}
        /\ inflight \in [Engines -> SUBSET Requests]
        /\ finished \in [Engines -> SUBSET Requests]
        /\ ending \in [Engines -> Nat]
    OBVIOUS
  <2> QED BY <2>1, <2>2, <2>3 DEF ExecutorTypeOK
<1>2. ToSet(cache) = {} /\ IsInjective(cache)
  BY DEF ToSet, IsInjective
<1>3. SentOK /\ PlacesOK
  BY <1>2 DEF SentOK, Placed, PlacesOK
<1>4. NumOK
  <2>1. InProcess = {} /\ PiecesOf({}) = {}
    BY DEF InProcess, PiecesOf
  <2> QED BY <2>1, FS_EmptySet DEF NumOK
<1>5. PackOK /\ QuietOK
  BY DEF PackOK, HoldsPack, QuietOK
<1> QED BY <1>1, <1>3, <1>4, <1>5 DEF ExecutorIInv

\* What one sender does changes the place of no other.
SenderPlaces == {"new", "pred", "block", "asleep", "refused", "upload", "push",
                  "sent"}

LEMMA SenderMoves ==
    ASSUME ExecutorTypeOK, NEW r \in Requests, NEW from, NEW to \in SenderPlaces,
           Sender(r, from, to)
    PROVE  /\ rpc[r] = from /\ rpc'[r] = to
           /\ rpc' \in [Requests -> SenderPlaces]
           /\ \A q \in Requests : q # r => rpc'[q] = rpc[q]
BY DEF Sender, ExecutorTypeOK, SenderPlaces

\* Most steps leave the batches where they are ...
LEMMA BatchMoves ==
    ASSUME [ExecutorNext]_executorVars
    PROVE  \/ UNCHANGED <<cache, pack, answered, inflight>>
           \/ Pop \/ PopDiscarded \/ Run
           \/ \E r \in Requests : CachePush(r) \/ Answer(r)
           \/ \E e \in Engines, r \in Requests : Finish(e, r)
<1>1. CASE UNCHANGED executorVars
  BY <1>1 DEF executorVars, dispatchVars, engineVars
<1>2. ASSUME NEW r \in Requests, WaitIfCacheFull(r) \/ LimitPred(r) \/ LimitSleep(r)
                                 \/ Upload(r) \/ LimitTimeout(r)
      PROVE  UNCHANGED <<cache, pack, answered, inflight>>
  BY <1>2 DEF WaitIfCacheFull, LimitPred, LimitSleep, Upload, LimitTimeout,
              dispatchVars, engineVars
<1>3. CASE \/ PopWait \/ PopSleep \/ PopEnd \/ IdleTest \/ IdlePred \/ IdleSleep
           \/ ClearIdle \/ Scan \/ SpuriousWake
  BY <1>3 DEF PopWait, PopSleep, PopEnd, IdleTest, IdlePred, IdleSleep, ClearIdle,
              Scan, SpuriousWake, engineVars
<1>4. ASSUME NEW e \in Engines,
             NotifyDone(e) \/ \E r \in Requests : Decrement(e, r)
      PROVE  UNCHANGED <<cache, pack, answered, inflight>>
  BY <1>4 DEF NotifyDone, Decrement, dispatchVars
<1>5. CASE Destroy \/ DestroyStep
  BY <1>5 DEF Destroy, DestroyStep, StopNotify, Join, ClearEngines, dispatchVars,
              engineVars
<1> QED BY <1>1, <1>2, <1>3, <1>4, <1>5
        DEF ExecutorNext, SenderStep, DispatchStep, EngineStep

\* Pop takes the front of what it finds, or of what is left of it.
LEMMA PopMoves ==
    ASSUME ExecutorTypeOK, IsInjective(cache), Pop \/ PopDiscarded
    PROVE  /\ spc = "pop" /\ UNCHANGED <<rpc, answered, processing_num, idle, inflight, dpc>>
           /\ cache' \in Seq(Requests) /\ IsInjective(cache')
           /\ \/ ToSet(cache') = {} /\ UNCHANGED <<pack, spc>>
              \/ /\ pack' \in ToSet(cache) /\ pack' \in Requests /\ spc' = "idle"
                 /\ ToSet(cache') \subseteq ToSet(cache) \ {pack'}
<1>1. cache \in Seq(Requests) /\ IsInjective(cache)
  BY DEF ExecutorTypeOK
<1>2. CASE Pop
  <2>1. /\ cache # << >> /\ pack' = Head(cache) /\ cache' = Tail(cache)
        /\ spc = "pop" /\ spc' = "idle"
        /\ UNCHANGED <<rpc, answered, processing_num, idle, inflight, dpc>>
    BY <1>2 DEF Pop, Dispatcher, engineVars
  <2>2. /\ pack' \in Requests /\ cache' \in Seq(Requests) /\ IsInjective(cache')
        /\ ToSet(cache') = ToSet(cache) \ {pack'} /\ pack' \in ToSet(cache)
    BY <1>1, <2>1, CacheTail
  <2> QED BY <2>1, <2>2
<1>3. CASE PopDiscarded
  <2>1. PICK d \in SUBSET ToSet(cache) :
           IF Kept(d) = << >>
           THEN Dispatcher("pop", "pop") /\ cache' = << >> /\ UNCHANGED pack
           ELSE /\ Dispatcher("pop", "idle")
                /\ pack' = Head(Kept(d)) /\ cache' = Tail(Kept(d))
    BY <1>3 DEF PopDiscarded
  <2>2. UNCHANGED <<rpc, answered, processing_num, idle, inflight, dpc>>
    BY <1>3 DEF PopDiscarded, engineVars
  <2> DEFINE kept == Kept(d)
  <2>3. kept \in Seq(Requests) /\ IsInjective(kept) /\ ToSet(kept) = ToSet(cache) \ d
    BY <1>1, KeptFacts
  <2>4. CASE kept = << >>
    <3>1. cache' = << >> /\ UNCHANGED <<pack, spc>> /\ spc = "pop"
      BY <2>1, <2>4 DEF Dispatcher
    <3>2. << >> \in Seq(Requests) /\ IsInjective(<< >>) /\ ToSet(<< >>) = {}
      BY DEF IsInjective, ToSet
    <3> QED BY <2>2, <3>1, <3>2
  <2>5. CASE kept # << >>
    <3>1. /\ spc = "pop" /\ spc' = "idle" /\ pack' = Head(kept) /\ cache' = Tail(kept)
      BY <2>1, <2>5 DEF Dispatcher
    <3> HIDE DEF kept
    <3>2. /\ Head(kept) \in Requests /\ Tail(kept) \in Seq(Requests)
          /\ IsInjective(Tail(kept)) /\ Head(kept) \in ToSet(kept)
          /\ ToSet(Tail(kept)) = ToSet(kept) \ {Head(kept)}
      BY <2>3, <2>5, CacheTail
    <3> QED BY <2>2, <2>3, <3>1, <3>2
  <2> QED BY <2>4, <2>5
<1> QED BY <1>2, <1>3

LEMMA ExecutorTypeStep ==
    ASSUME ExecutorIInv, [ExecutorNext]_executorVars
    PROVE  ExecutorTypeOK'
<1> USE RequestFacts
<1>1. ExecutorTypeOK /\ IsInjective(cache) /\ PackOK
  BY DEF ExecutorIInv, PlacesOK
<1>2. CASE UNCHANGED executorVars
  BY <1>1, <1>2 DEF executorVars, dispatchVars, engineVars, ExecutorTypeOK
<1>3. ASSUME NEW r \in Requests, WaitIfCacheFull(r) \/ LimitPred(r) \/ LimitSleep(r)
                                 \/ Upload(r) \/ LimitTimeout(r)
      PROVE  ExecutorTypeOK'
  <2>1. rpc' \in [Requests -> SenderPlaces]
    BY <1>1, <1>3, SenderMoves DEF WaitIfCacheFull, LimitPred, LimitSleep, Upload,
       LimitTimeout, SenderPlaces
  <2> QED BY <1>1, <1>3, <2>1 DEF WaitIfCacheFull, LimitPred, LimitSleep, Upload,
       LimitTimeout, SenderPlaces, dispatchVars, engineVars, ExecutorTypeOK
<1>4. ASSUME NEW r \in Requests, CachePush(r) PROVE ExecutorTypeOK'
  <2>1. rpc' \in [Requests -> SenderPlaces]
    BY <1>1, <1>4, SenderMoves DEF CachePush, SenderPlaces
  <2>2. cache' \in Seq(Requests)
    <3>1. cache \in Seq(Requests) /\ cache' = Append(cache, r)
      BY <1>1, <1>4 DEF CachePush, ExecutorTypeOK
    <3> QED BY <3>1, CacheFacts
  <2> QED BY <1>1, <1>4, <2>1, <2>2 DEF CachePush, NotifyCache, SenderPlaces,
       engineVars, ExecutorTypeOK
<1>5. ASSUME NEW r \in Requests, Answer(r) PROVE ExecutorTypeOK'
  <2>1. rpc' \in [Requests -> SenderPlaces]
    BY <1>1, <1>5, SenderMoves DEF Answer, NotifyLimit, SenderPlaces, ExecutorTypeOK
  <2> QED BY <1>1, <1>5, <2>1 DEF Answer, SenderPlaces, dispatchVars,
       engineVars, ExecutorTypeOK
<1>6. CASE Pop \/ PopDiscarded
  <2>1. cache' \in Seq(Requests) /\ pack' \in Requests \union {0} /\ spc' \in {"pop", "idle"}
    BY <1>1, <1>6, PopMoves DEF ExecutorTypeOK
  <2> QED BY <1>1, <1>6, <2>1 DEF Pop, PopDiscarded, engineVars, ExecutorTypeOK
<1>8. CASE PopWait \/ PopSleep \/ PopEnd \/ IdleTest \/ IdlePred \/ IdleSleep \/ ClearIdle
  BY <1>1, <1>8 DEF PopWait, PopSleep, PopEnd, IdleTest, IdlePred, IdleSleep, ClearIdle,
     Dispatcher, engineVars, ExecutorTypeOK
<1>9. CASE Run
  <2>1. idle \in Engines /\ pack \in Requests
    BY <1>1, <1>9 DEF Run, Dispatcher, PackOK, HoldsPack, ExecutorTypeOK
  <2> QED BY <1>1, <1>9, <2>1 DEF Run, Dispatcher, ExecutorTypeOK
<1>10. CASE Scan
  <2>1. it' \in Engines /\ idle' \in Engines \union {0} /\ spc' \in {"pop", "scan"}
    <3>1. it \in Engines /\ idle \in Engines \union {0}
      BY <1>1 DEF ExecutorTypeOK
    <3> QED BY <1>10, <3>1 DEF Scan, Dispatcher
  <2> QED BY <1>1, <1>10, <2>1 DEF Scan, engineVars, ExecutorTypeOK
<1>11. CASE SpuriousWake
  <2>1. /\ rpc' \in [Requests -> SenderPlaces]
        /\ spc' \in {spc, "pop", "pred"}
    <3>1. ASSUME NEW r \in Requests, Sender(r, "asleep", "pred"), UNCHANGED spc
          PROVE  rpc' \in [Requests -> SenderPlaces]
      BY <1>1, <3>1, SenderMoves DEF SenderPlaces
    <3> QED BY <1>1, <1>11, <3>1 DEF SpuriousWake, Dispatcher, SenderPlaces, ExecutorTypeOK
  <2> QED BY <1>1, <1>11, <2>1 DEF SpuriousWake, SenderPlaces, engineVars, ExecutorTypeOK
<1>12. ASSUME NEW e \in Engines, NEW r \in Requests, Finish(e, r) \/ Decrement(e, r)
       PROVE  ExecutorTypeOK'
  <2>1. /\ inflight' \in [Engines -> SUBSET Requests]
        /\ finished' \in [Engines -> SUBSET Requests]
    <3>1. /\ inflight \in [Engines -> SUBSET Requests]
          /\ finished \in [Engines -> SUBSET Requests]
      BY <1>1 DEF ExecutorTypeOK
    <3>2. CASE Finish(e, r)
      BY <3>1, <3>2 DEF Finish
    <3>3. CASE Decrement(e, r)
      BY <3>1, <3>3 DEF Decrement
    <3> QED BY <1>12, <3>2, <3>3
  <2>2. ending' \in [Engines -> Nat]
    <3>1. ending \in [Engines -> Nat] /\ ending' \in {ending, [ending EXCEPT ![e] = @ + 1]}
      BY <1>1, <1>12 DEF Finish, Decrement, ExecutorTypeOK
    <3> QED BY <3>1
  <2> QED BY <1>1, <1>12, <2>1, <2>2 DEF Finish, Decrement, dispatchVars, ExecutorTypeOK
<1>13. ASSUME NEW e \in Engines, NotifyDone(e) PROVE ExecutorTypeOK'
  <2>1. ending' \in [Engines -> Nat]
    <3>1. /\ ending \in [Engines -> Nat] /\ ending[e] > 0
          /\ ending' = [ending EXCEPT ![e] = @ - 1]
      BY <1>1, <1>13 DEF NotifyDone, ExecutorTypeOK
    <3>2. ending[e] - 1 \in Nat
      BY <3>1
    <3> QED BY <3>1, <3>2
  <2> QED BY <1>1, <1>13, <2>1 DEF NotifyDone, ExecutorTypeOK
<1>14. CASE Destroy \/ DestroyStep
  BY <1>1, <1>14 DEF Destroy, DestroyStep, StopNotify, Join, ClearEngines, DestroyAt,
     NotifyCache, dispatchVars, engineVars, ExecutorTypeOK
<1> QED BY <1>2, <1>3, <1>4, <1>5, <1>6, <1>8, <1>9, <1>10, <1>11, <1>12,
           <1>13, <1>14
        DEF ExecutorNext, SenderStep, DispatchStep, EngineStep

LEMMA PlacesStep ==
    ASSUME ExecutorIInv, [ExecutorNext]_executorVars
    PROVE  PlacesOK'
<1>1. ExecutorTypeOK /\ SentOK /\ PlacesOK /\ PackOK
  BY DEF ExecutorIInv
<1>2. 0 \notin Requests /\ cache \in Seq(Requests) /\ answered \subseteq Requests
  BY <1>1, RequestFacts DEF ExecutorTypeOK
<1>3. CASE UNCHANGED <<cache, pack, answered, inflight>>
  BY <1>1, <1>3 DEF PlacesOK
<1>4. ASSUME NEW r \in Requests, CachePush(r) PROVE PlacesOK'
  <2>1. cache' = Append(cache, r) /\ rpc[r] = "push" /\ UNCHANGED <<pack, answered, inflight>>
    BY <1>4 DEF CachePush, Sender, engineVars
  <2>2. ~Placed(r)
    BY <1>1, <2>1 DEF SentOK
  <2>3. IsInjective(cache') /\ ToSet(cache') = ToSet(cache) \union {r}
    BY <1>1, <1>2, <2>1, <2>2, CacheAppend DEF PlacesOK, Placed
  <2> QED BY <1>1, <2>1, <2>2, <2>3 DEF PlacesOK, Placed
<1>5. CASE Pop \/ PopDiscarded
  <2>1. IsInjective(cache') /\ UNCHANGED <<answered, inflight>>
    BY <1>1, <1>5, PopMoves DEF PlacesOK
  <2>2. CASE ToSet(cache') = {} /\ UNCHANGED pack
    BY <1>1, <2>1, <2>2 DEF PlacesOK
  <2>3. CASE pack' \in ToSet(cache) /\ ToSet(cache') \subseteq ToSet(cache) \ {pack'}
    BY <1>1, <2>1, <2>3 DEF PlacesOK
  <2> QED BY <1>1, <1>5, <2>2, <2>3, PopMoves DEF PlacesOK
<1>7. CASE Run
  <2>1. /\ pack # 0 /\ idle \in Engines /\ pack' = 0
        /\ inflight' = [inflight EXCEPT ![idle] = @ \union {pack}]
        /\ UNCHANGED <<cache, answered>>
    BY <1>1, <1>7 DEF Run, Dispatcher, PackOK, HoldsPack, ExecutorTypeOK
  <2>2. \A e \in Engines : inflight'[e] = IF e = idle THEN inflight[e] \union {pack}
                                                      ELSE inflight[e]
    BY <1>1, <2>1 DEF ExecutorTypeOK
  <2>3. ToSet(cache) \subseteq Requests
    BY <1>2 DEF ToSet
  <2>4. IsInjective(cache') /\ pack' \notin ToSet(cache')
        /\ answered' \intersect (ToSet(cache') \union {pack'}) = {}
    BY <1>1, <1>2, <2>1, <2>3 DEF PlacesOK
  <2>5. ASSUME NEW e \in Engines
        PROVE  inflight'[e] \intersect (ToSet(cache) \union {0} \union answered) = {}
    <3>1. 0 \notin inflight[e] /\ pack \in Requests /\ 0 \notin answered /\ 0 \notin ToSet(cache)
      BY <1>1, <1>2, <2>1, <2>3 DEF ExecutorTypeOK
    <3>2. inflight[e] \intersect (ToSet(cache) \union {0} \union answered) = {}
      BY <1>1, <3>1 DEF PlacesOK
    <3>3. pack \notin ToSet(cache) \union {0} \union answered
      BY <1>1, <2>1 DEF PlacesOK
    <3> QED BY <2>2, <3>2, <3>3
  <2>6. ASSUME NEW e \in Engines, NEW f \in Engines \ {e}
        PROVE  inflight'[e] \intersect inflight'[f] = {}
    BY <1>1, <2>2 DEF PlacesOK
  <2> QED BY <2>1, <2>4, <2>5, <2>6 DEF PlacesOK
<1>8. ASSUME NEW e \in Engines, NEW r \in Requests, Finish(e, r) PROVE PlacesOK'
  <2>1. /\ UNCHANGED <<cache, pack, answered>>
        /\ \A f \in Engines : inflight'[f] \subseteq inflight[f]
    BY <1>1, <1>8 DEF Finish, dispatchVars, ExecutorTypeOK
  <2> QED BY <1>1, <2>1 DEF PlacesOK
<1>9. ASSUME NEW r \in Requests, Answer(r) PROVE PlacesOK'
  <2>1. /\ UNCHANGED <<cache, pack, inflight>> /\ answered' = answered \union {r}
        /\ r # pack /\ r \notin ToSet(cache) /\ \A e \in Engines : r \notin inflight[e]
    BY <1>9 DEF Answer, Done, dispatchVars, engineVars
  <2> QED BY <1>1, <2>1 DEF PlacesOK
<1> QED BY <1>3, <1>4, <1>5, <1>7, <1>8, <1>9, BatchMoves

\* A request that is newly placed was sent: it was placed before, or CachePush
\* has just done both.
LEMMA NewlyPlaced ==
    ASSUME ExecutorIInv, [ExecutorNext]_executorVars, NEW r \in Requests, Placed(r)'
    PROVE  Placed(r) \/ (rpc[r] = "sent" /\ Answer(r)) \/ CachePush(r)
<1>1. ExecutorTypeOK /\ PlacesOK
  BY DEF ExecutorIInv
<1>2. cache \in Seq(Requests) /\ IsInjective(cache) /\ 0 \notin Requests
  BY <1>1, RequestFacts DEF ExecutorTypeOK, PlacesOK
<1>3. CASE UNCHANGED <<cache, pack, answered, inflight>>
  BY <1>3 DEF Placed
<1>4. ASSUME NEW q \in Requests, CachePush(q), q # r PROVE Placed(r)
  <2>1. cache' = Append(cache, q) /\ UNCHANGED <<pack, answered, inflight>>
    BY <1>4 DEF CachePush, engineVars
  <2>2. r \in ToSet(cache') => r \in ToSet(cache)
    <3>1. \A i \in DOMAIN cache' : cache'[i] = q \/ (i \in DOMAIN cache /\ cache'[i] = cache[i])
      BY <1>2, <2>1
    <3> QED BY <1>4, <3>1 DEF ToSet
  <2> QED BY <2>1, <2>2 DEF Placed
<1>5. CASE Pop \/ PopDiscarded
  <2>1. UNCHANGED <<answered, inflight>> /\ ToSet(cache') \subseteq ToSet(cache)
        /\ (pack' = pack \/ pack' \in ToSet(cache))
    BY <1>1, <1>2, <1>5, PopMoves
  <2> QED BY <2>1 DEF Placed
<1>7. CASE Run
  <2>1. /\ pack' = 0 /\ UNCHANGED <<cache, answered>>
        /\ inflight' = [inflight EXCEPT ![idle] = @ \union {pack}]
    BY <1>7 DEF Run
  <2>2. \A e \in Engines : inflight'[e] \subseteq inflight[e] \union {pack}
    BY <1>1, <2>1 DEF ExecutorTypeOK
  <2> QED BY <1>2, <2>1, <2>2 DEF Placed
<1>8. ASSUME NEW e \in Engines, NEW q \in Requests, Finish(e, q) PROVE Placed(r)
  <2>1. /\ UNCHANGED <<cache, pack, answered>>
        /\ \A f \in Engines : inflight'[f] \subseteq inflight[f]
    BY <1>1, <1>8 DEF Finish, dispatchVars, ExecutorTypeOK
  <2> QED BY <2>1 DEF Placed
<1>9. ASSUME NEW q \in Requests, Answer(q)
      PROVE  Placed(r) \/ (rpc[r] = "sent" /\ Answer(r))
  <2>1. /\ UNCHANGED <<cache, pack, inflight>> /\ answered' = answered \union {q}
        /\ rpc[q] = "sent"
    BY <1>9 DEF Answer, Done, dispatchVars, engineVars
  <2> QED BY <1>9, <2>1 DEF Placed
<1> QED BY <1>3, <1>4, <1>5, <1>7, <1>8, <1>9, BatchMoves

\* No step takes a request out of "sent".
LEMMA SentStays ==
    ASSUME ExecutorIInv, [ExecutorNext]_executorVars, NEW r \in Requests,
           rpc[r] \in {"sent", "refused"}
    PROVE  rpc'[r] = rpc[r]
<1>1. ExecutorTypeOK
  BY DEF ExecutorIInv
<1>2. ASSUME NEW q \in Requests, NEW from \in SenderPlaces \ {"sent", "refused"},
             NEW to \in SenderPlaces, Sender(q, from, to)
      PROVE  rpc'[r] = rpc[r]
  BY <1>1, <1>2, SenderMoves
<1>3. ASSUME NEW q \in Requests, WaitIfCacheFull(q) \/ SenderStep(q) \/ LimitTimeout(q)
      PROVE  rpc'[r] = rpc[r]
  BY <1>2, <1>3 DEF WaitIfCacheFull, SenderStep, LimitPred, LimitSleep, Upload,
     CachePush, LimitTimeout, SenderPlaces
<1>4. ASSUME NEW q \in Requests, Answer(q) PROVE rpc'[r] = rpc[r]
  BY <1>2, <1>4 DEF Answer, NotifyLimit, SenderPlaces
<1>5. CASE SpuriousWake
  BY <1>2, <1>5 DEF SpuriousWake, SenderPlaces
<1>6. CASE DispatchStep
  BY <1>6 DEF DispatchStep, PopWait, PopSleep, PopEnd, Pop, PopDiscarded, IdleTest,
     IdlePred, IdleSleep, Run, ClearIdle, Scan
<1>7. ASSUME NEW e \in Engines, EngineStep(e) PROVE rpc'[r] = rpc[r]
  BY <1>7 DEF EngineStep, Finish, Decrement, NotifyDone
<1>8. CASE Destroy \/ DestroyStep \/ UNCHANGED executorVars
  BY <1>8 DEF Destroy, DestroyStep, StopNotify, Join, ClearEngines, executorVars
<1> QED BY <1>3, <1>4, <1>5, <1>6, <1>7, <1>8 DEF ExecutorNext

LEMMA SentStep ==
    ASSUME ExecutorIInv, [ExecutorNext]_executorVars
    PROVE  SentOK'
<1> SUFFICES ASSUME NEW r \in Requests, Placed(r)' PROVE rpc'[r] = "sent"
  BY DEF SentOK
<1>1. ExecutorTypeOK /\ SentOK
  BY DEF ExecutorIInv
<1>2. CASE rpc[r] = "sent"
  BY <1>2, SentStays
<1>3. CASE CachePush(r)
  BY <1>1, <1>3, SenderMoves DEF CachePush, SenderPlaces
<1> QED BY <1>1, <1>2, <1>3, NewlyPlaced DEF SentOK

\* Only Upload and Answer change what is in process.
LEMMA NumMoves ==
    ASSUME ExecutorIInv, [ExecutorNext]_executorVars
    PROVE  \/ UNCHANGED processing_num /\ InProcess' = InProcess
           \/ \E r \in Requests : Upload(r) \/ Answer(r)
<1>1. ExecutorTypeOK
  BY DEF ExecutorIInv
<1>2. CASE UNCHANGED executorVars
  BY <1>2 DEF executorVars, InProcess
<1>3. ASSUME NEW q \in Requests, NEW from \in SenderPlaces, NEW to \in SenderPlaces,
             Sender(q, from, to), UNCHANGED answered,
             from \in {"push", "sent"} <=> to \in {"push", "sent"}
      PROVE  InProcess' = InProcess
  BY <1>1, <1>3, SenderMoves DEF InProcess
<1>4. ASSUME NEW q \in Requests, WaitIfCacheFull(q) \/ LimitPred(q) \/ LimitSleep(q)
                                 \/ CachePush(q) \/ LimitTimeout(q)
      PROVE  UNCHANGED processing_num /\ InProcess' = InProcess
  BY <1>3, <1>4 DEF WaitIfCacheFull, LimitPred, LimitSleep, CachePush, LimitTimeout,
     SenderPlaces
<1>5. CASE SpuriousWake
  <2>1. UNCHANGED <<processing_num, answered>>
    BY <1>5 DEF SpuriousWake
  <2>2. CASE UNCHANGED rpc
    BY <2>1, <2>2 DEF InProcess
  <2>3. CASE \E q \in Requests : Sender(q, "asleep", "pred")
    BY <1>3, <2>1, <2>3 DEF SenderPlaces
  <2> QED BY <1>5, <2>1, <2>2, <2>3 DEF SpuriousWake
<1>6. CASE DispatchStep
  BY <1>6 DEF DispatchStep, PopWait, PopSleep, PopEnd, Pop, PopDiscarded, IdleTest,
     IdlePred, IdleSleep, Run, ClearIdle, Scan, InProcess
<1>7. ASSUME NEW e \in Engines, EngineStep(e)
      PROVE  UNCHANGED processing_num /\ InProcess' = InProcess
  BY <1>7 DEF EngineStep, Finish, Decrement, NotifyDone, InProcess
<1>8. CASE Destroy \/ DestroyStep
  BY <1>8 DEF Destroy, DestroyStep, StopNotify, Join, ClearEngines, InProcess
<1> QED BY <1>2, <1>4, <1>5, <1>6, <1>7, <1>8 DEF ExecutorNext, SenderStep

LEMMA NumStep ==
    ASSUME ExecutorIInv, [ExecutorNext]_executorVars
    PROVE  NumOK' /\ processing_num \in Nat
<1>1. ExecutorTypeOK /\ SentOK /\ NumOK
  BY DEF ExecutorIInv
<1>2. InProcess \in SUBSET Requests /\ InProcess' \in SUBSET Requests
  BY DEF InProcess
<1>3. processing_num \in Nat
  BY <1>1, <1>2, PiecesFinite DEF NumOK
<1>4. CASE UNCHANGED processing_num /\ InProcess' = InProcess
  BY <1>1, <1>3, <1>4 DEF NumOK
<1>5. ASSUME NEW r \in Requests, Upload(r) PROVE NumOK'
  <2>1. /\ rpc[r] = "upload" /\ rpc'[r] = "push" /\ UNCHANGED answered
        /\ \A q \in Requests : q # r => rpc'[q] = rpc[q]
        /\ processing_num' = processing_num + Pieces[r]
    BY <1>1, <1>5, SenderMoves DEF Upload, SenderPlaces
  <2>2. r \notin answered
    BY <1>1, <2>1 DEF SentOK, Placed
  <2>3. InProcess' = InProcess \union {r} /\ r \notin InProcess
    BY <2>1, <2>2 DEF InProcess
  <2> QED BY <1>1, <1>2, <2>1, <2>3, PiecesAdd DEF NumOK
<1>6. ASSUME NEW r \in Requests, Answer(r) PROVE NumOK'
  <2>1. /\ rpc[r] = "sent" /\ r \notin answered /\ answered' = answered \union {r}
        /\ processing_num' = processing_num - Pieces[r]
    BY <1>6 DEF Answer, Done
  <2>2. \A q \in Requests : rpc'[q] \in {"push", "sent"} <=> rpc[q] \in {"push", "sent"}
    <3>1. CASE UNCHANGED rpc
      BY <3>1
    <3>2. ASSUME NEW q \in Requests, Sender(q, "asleep", "pred")
          PROVE  \A p \in Requests : rpc'[p] \in {"push", "sent"} <=> rpc[p] \in {"push", "sent"}
      BY <1>1, <3>2, SenderMoves DEF SenderPlaces
    <3> QED BY <1>6, <3>1, <3>2 DEF Answer, NotifyLimit
  <2>3. InProcess = InProcess' \union {r} /\ r \notin InProcess'
    BY <2>1, <2>2 DEF InProcess
  <2>4. /\ Cardinality(PiecesOf(InProcess')) \in Nat /\ Pieces[r] \in Nat
        /\ Cardinality(PiecesOf(InProcess)) = Cardinality(PiecesOf(InProcess')) + Pieces[r]
    <3>1. Pieces[r] \in Nat
      BY RequestFacts
    <3> QED BY <1>2, <2>3, <3>1, PiecesAdd, PiecesFinite
  <2>5. processing_num = Cardinality(PiecesOf(InProcess))
    BY <1>1 DEF NumOK
  <2>6. processing_num' = Cardinality(PiecesOf(InProcess'))
    BY <2>1, <2>4, <2>5
  <2> QED BY <2>6 DEF NumOK
<1> QED BY <1>3, <1>4, <1>5, <1>6, NumMoves

LEMMA PackStep ==
    ASSUME ExecutorIInv, [ExecutorNext]_executorVars
    PROVE  PackOK'
<1>1. ExecutorTypeOK /\ PackOK /\ PlacesOK
  BY DEF ExecutorIInv
<1>2. 0 \notin Requests /\ 0 \notin Engines
  BY RequestFacts
<1>3. CASE UNCHANGED <<spc, pack, idle>>
  BY <1>1, <1>3 DEF PackOK
<1>4. CASE Pop \/ PopDiscarded
  BY <1>1, <1>2, <1>4, PopMoves DEF PackOK, HoldsPack, PlacesOK
<1>5. CASE PopWait \/ PopSleep \/ PopEnd \/ IdleTest \/ IdlePred \/ IdleSleep
  BY <1>1, <1>5 DEF PopWait, PopSleep, PopEnd, IdleTest, IdlePred, IdleSleep, Dispatcher,
     PackOK, HoldsPack
<1>6. CASE Run \/ ClearIdle \/ Scan
  BY <1>1, <1>6 DEF Run, ClearIdle, Scan, Dispatcher, PackOK, HoldsPack
<1>7. ASSUME NEW r \in Requests,
             WaitIfCacheFull(r) \/ SenderStep(r) \/ LimitTimeout(r) \/ Answer(r)
      PROVE  PackOK'
  <2>1. UNCHANGED <<pack, idle>> /\ spc' \in {spc, "pop"} /\ (spc' # spc => spc = "asleep")
    BY <1>7 DEF WaitIfCacheFull, SenderStep, LimitPred, LimitSleep, Upload, CachePush,
       NotifyCache, LimitTimeout, Answer, dispatchVars
  <2> QED BY <1>1, <2>1 DEF PackOK, HoldsPack
<1>8. CASE SpuriousWake
  BY <1>1, <1>8 DEF SpuriousWake, Dispatcher, PackOK, HoldsPack
<1>9. ASSUME NEW e \in Engines, EngineStep(e) PROVE PackOK'
  <2>1. CASE UNCHANGED <<spc, pack, idle>>
    BY <1>3, <2>1
  <2>2. CASE NotifyDone(e)
    BY <1>1, <1>2, <2>2 DEF NotifyDone, PackOK, HoldsPack
  <2> QED BY <1>9, <2>1, <2>2 DEF EngineStep, Finish, Decrement, dispatchVars
<1>10. CASE Destroy \/ StopNotify
  BY <1>1, <1>10 DEF Destroy, StopNotify, NotifyCache, dispatchVars, PackOK, HoldsPack
<1>11. CASE Join \/ ClearEngines
  BY <1>1, <1>11 DEF Join, ClearEngines, dispatchVars, PackOK, HoldsPack
<1>12. CASE UNCHANGED executorVars
  BY <1>3, <1>12 DEF executorVars, dispatchVars
<1> QED BY <1>4, <1>5, <1>6, <1>7, <1>8, <1>9, <1>10, <1>11, <1>12
        DEF ExecutorNext, DispatchStep, DestroyStep

\* Once nothing is in a sender's hands and ~Executor has begun, no sender moves.
LEMMA QuietStep ==
    ASSUME ExecutorIInv, [ExecutorNext]_executorVars
    PROVE  QuietOK'
<1>1. ExecutorTypeOK /\ SentOK /\ QuietOK
  BY DEF ExecutorIInv
<1>2. answered \subseteq answered'
  BY DEF ExecutorNext, WaitIfCacheFull, SenderStep, LimitPred, LimitSleep, Upload,
     CachePush, LimitTimeout, Answer, DispatchStep, PopWait, PopSleep, PopEnd, Pop,
     PopDiscarded, IdleTest, IdlePred, IdleSleep, Run, ClearIdle, Scan, SpuriousWake,
     EngineStep, Finish, Decrement, NotifyDone, Destroy, DestroyStep, StopNotify, Join,
     ClearEngines, executorVars
<1> DEFINE Over(r) == rpc[r] \in {"new", "refused"} \/ r \in answered
<1>3. ASSUME dpc # "run", NEW r \in Requests, Over(r) PROVE Over(r)'
  <2>1. CASE r \in answered
    BY <1>2, <2>1
  <2>2. CASE rpc[r] = "refused"
    <3>1. rpc'[r] = rpc[r]
      BY <2>2, SentStays
    <3> QED BY <2>2, <3>1
  <2>3. CASE rpc[r] = "new" /\ ~WaitIfCacheFull(r)
    <3>1. ASSUME NEW q \in Requests, NEW from \in SenderPlaces \ {"new"},
                 NEW to \in SenderPlaces, Sender(q, from, to)
          PROVE  rpc'[r] = rpc[r]
      BY <1>1, <2>3, <3>1, SenderMoves
    <3>2. ASSUME NEW q \in Requests, SenderStep(q) \/ LimitTimeout(q)
          PROVE  rpc'[r] = rpc[r]
      BY <3>1, <3>2 DEF SenderStep, LimitPred, LimitSleep, Upload, CachePush,
         LimitTimeout, SenderPlaces
    <3>3. ASSUME NEW q \in Requests, Answer(q) PROVE rpc'[r] = rpc[r]
      BY <3>1, <3>3 DEF Answer, NotifyLimit, SenderPlaces
    <3>4. ASSUME SpuriousWake PROVE rpc'[r] = rpc[r]
      BY <3>1, <3>4 DEF SpuriousWake, SenderPlaces
    <3>5. ASSUME DispatchStep PROVE rpc'[r] = rpc[r]
      BY <3>5 DEF DispatchStep, PopWait, PopSleep, PopEnd, Pop, PopDiscarded, IdleTest,
         IdlePred, IdleSleep, Run, ClearIdle, Scan
    <3>6. ASSUME NEW e \in Engines, EngineStep(e) PROVE rpc'[r] = rpc[r]
      BY <3>6 DEF EngineStep, Finish, Decrement, NotifyDone
    <3>7. ASSUME Destroy \/ DestroyStep \/ UNCHANGED executorVars PROVE rpc'[r] = rpc[r]
      BY <3>7 DEF Destroy, DestroyStep, StopNotify, Join, ClearEngines, executorVars
    <3>8. \A q \in Requests : ~WaitIfCacheFull(q)
      BY <1>3 DEF WaitIfCacheFull
    <3>9. rpc'[r] = rpc[r]
      BY <3>2, <3>3, <3>4, <3>5, <3>6, <3>7, <3>8 DEF ExecutorNext
    <3> QED BY <2>3, <3>9
  <2> QED BY <1>3, <2>1, <2>2, <2>3 DEF WaitIfCacheFull
<1>4. CASE Destroy
  BY <1>1, <1>4 DEF Destroy, QuietOK
<1>5. CASE dpc = "run" /\ ~Destroy
  <2>1. dpc' = dpc
    BY <1>5 DEF ExecutorNext, WaitIfCacheFull, SenderStep, LimitPred, LimitSleep, Upload,
       CachePush, LimitTimeout, Answer, DispatchStep, PopWait, PopSleep, PopEnd, Pop,
       PopDiscarded, IdleTest, IdlePred, IdleSleep, Run, ClearIdle, Scan, SpuriousWake,
       EngineStep, Finish, Decrement, NotifyDone, DestroyStep, StopNotify, Join,
       ClearEngines, DestroyAt, executorVars
  <2> QED BY <1>5, <2>1 DEF QuietOK
<1>6. CASE dpc # "run"
  <2>1. \A r \in Requests : Over(r)'
    BY <1>1, <1>3, <1>6 DEF QuietOK
  <2>2. dpc' \in {"engines", "gone"} => dpc \in {"engines", "gone"} \/ Join
    BY <1>6 DEF ExecutorNext, WaitIfCacheFull, SenderStep, LimitPred, LimitSleep, Upload,
       CachePush, LimitTimeout, Answer, DispatchStep, PopWait, PopSleep, PopEnd, Pop,
       PopDiscarded, IdleTest, IdlePred, IdleSleep, Run, ClearIdle, Scan, SpuriousWake,
       EngineStep, Finish, Decrement, NotifyDone, Destroy, DestroyStep, StopNotify,
       ClearEngines, DestroyAt, executorVars
  <2>3. spc = "end" => spc' = "end"
    BY DEF ExecutorNext, WaitIfCacheFull, SenderStep, LimitPred, LimitSleep, Upload,
       CachePush, NotifyCache, LimitTimeout, Answer, DispatchStep, PopWait, PopSleep,
       PopEnd, Pop, PopDiscarded, IdleTest, IdlePred, IdleSleep, Run, ClearIdle, Scan,
       SpuriousWake, EngineStep, Finish, Decrement, NotifyDone, Destroy, DestroyStep,
       StopNotify, Join, ClearEngines, Dispatcher, dispatchVars, executorVars
  <2>4. dpc' \in {"engines", "gone"} => spc = "end"
    BY <1>1, <2>2 DEF Join, QuietOK
  <2> QED BY <2>1, <2>3, <2>4 DEF QuietOK
<1> QED BY <1>4, <1>5, <1>6

LEMMA ExecutorInvNext ==
    ExecutorIInv /\ [ExecutorNext]_executorVars => ExecutorIInv'
<1> SUFFICES ASSUME ExecutorIInv, [ExecutorNext]_executorVars PROVE ExecutorIInv'
  OBVIOUS
<1>1. ExecutorTypeOK'
  BY ExecutorTypeStep
<1>2. SentOK' /\ PlacesOK'
  BY SentStep, PlacesStep
<1>3. NumOK' /\ PackOK' /\ QuietOK'
  BY NumStep, PackStep, QuietStep
<1> QED BY <1>1, <1>2, <1>3 DEF ExecutorIInv

\* After the join nothing is left: what was placed was sent, and what was sent
\* is answered, so that it is in no place.
LEMMA ExecutorInvImplies == ExecutorIInv => ExecutorInv
<1> SUFFICES ASSUME ExecutorIInv PROVE ExecutorInv
  OBVIOUS
<1>1. /\ ExecutorTypeOK /\ SentOK /\ PlacesOK /\ NumOK /\ PackOK /\ QuietOK
  BY DEF ExecutorIInv
<1>2. ASSUME dpc \in {"engines", "gone"}
      PROVE  /\ cache = << >> /\ pack = 0 /\ processing_num = 0 /\ spc = "end"
             /\ \A e \in Engines : inflight[e] = {}
  <2>1. spc = "end" /\ \A r \in Requests : rpc[r] \in {"new", "refused"} \/ r \in answered
    BY <1>1, <1>2 DEF QuietOK
  <2>2. pack = 0
    BY <1>1, <2>1 DEF PackOK, HoldsPack
  <2>3. \A r \in Requests : Placed(r) => r \in answered
    BY <1>1, <2>1 DEF SentOK
  <2>4. cache = << >>
    <3>1. cache \in Seq(Requests)
      BY <1>1 DEF ExecutorTypeOK
    <3>2. ASSUME cache # << >> PROVE FALSE
      <4>1. 1 \in DOMAIN cache /\ cache[1] \in Requests
        BY <3>1, <3>2
      <4>2. cache[1] \in ToSet(cache)
        BY <4>1 DEF ToSet
      <4> QED BY <1>1, <2>3, <4>1, <4>2 DEF Placed, PlacesOK
    <3> QED BY <3>2
  <2>5. \A e \in Engines : inflight[e] = {}
    BY <1>1, <2>3 DEF Placed, PlacesOK, ExecutorTypeOK
  <2>6. InProcess = {}
    BY <2>1 DEF InProcess
  <2>7. processing_num = 0
    <3>1. PiecesOf({}) = {}
      BY DEF PiecesOf
    <3> QED BY <1>1, <2>6, <3>1, FS_EmptySet DEF NumOK
  <2> QED BY <2>1, <2>2, <2>4, <2>5, <2>7
<1> QED BY <1>1, <1>2 DEF ExecutorInv, Counted, PlacesOK, NumOK, PackOK, HoldsPack

LEMMA ExecutorInvariance == ExecutorSpec => []ExecutorIInv
BY ExecutorInvInit, ExecutorInvNext, PTL DEF ExecutorSpec

\* Every batch is in one place until it is done and its request not answered
\* before, processing_num_ counts the pieces that are uploaded and not answered,
\* and ~Executor leaves nothing behind: for any requests, engines and limit.
THEOREM ExecutorInvCorrect == ExecutorSpec => []ExecutorInv
BY ExecutorInvariance, ExecutorInvImplies, PTL

-----------------------------------------------------------------------------
(* The limit.                                                              *)

\* A sender between the test and the count has found room, if it is alone.
Room == (\E r \in Requests : rpc[r] = "upload") => HasRoom
LimitOK == WithinLimit /\ Room

LEMMA LimitInit == ExecutorInit => LimitOK
BY RequestFacts DEF ExecutorInit, LimitOK, WithinLimit, Room, HasRoom

LEMMA LimitStep ==
    ASSUME ExecutorIInv, OneAtATime, OneAtATime', LimitOK, [ExecutorNext]_executorVars
    PROVE  LimitOK'
<1>1. ExecutorTypeOK /\ WithinLimit /\ Room /\ NumOK
  BY DEF ExecutorIInv, LimitOK
<1>2. processing_num \in Nat /\ MaxProcessing \in Nat /\ Pieces \in [Requests -> Nat \ {0}]
  BY NumStep, RequestFacts
<1>3. ASSUME NEW r \in Requests, Upload(r) PROVE LimitOK'
  <2>1. /\ rpc[r] = "upload" /\ rpc'[r] = "push"
        /\ \A q \in Requests : q # r => rpc'[q] = rpc[q]
        /\ processing_num' = processing_num + Pieces[r]
    BY <1>1, <1>3, SenderMoves DEF Upload, SenderPlaces
  <2>2. processing_num' < MaxProcessing + Pieces[r]
    BY <1>1, <1>2, <2>1 DEF Room, HasRoom
  <2>3. \A q \in Requests : rpc'[q] # "upload"
    BY <2>1 DEF OneAtATime
  <2> QED BY <2>2, <2>3 DEF LimitOK, WithinLimit, Room
<1>4. ASSUME processing_num' \in Int, processing_num' <= processing_num,
             \A r \in Requests : rpc'[r] = "upload" => rpc[r] = "upload" \/ HasRoom
      PROVE  LimitOK'
  <2>1. Room'
    BY <1>1, <1>2, <1>4 DEF Room, HasRoom
  <2>2. WithinLimit'
    BY <1>1, <1>2, <1>4 DEF WithinLimit
  <2> QED BY <2>1, <2>2 DEF LimitOK
<1>5. ASSUME NEW q \in Requests, NEW from \in SenderPlaces, NEW to \in SenderPlaces,
             Sender(q, from, to), to = "upload" => HasRoom
      PROVE  \A r \in Requests : rpc'[r] = "upload" => rpc[r] = "upload" \/ HasRoom
  BY <1>1, <1>5, SenderMoves
<1>6. ASSUME NEW r \in Requests, Answer(r) PROVE LimitOK'
  <2>1. processing_num' = processing_num - Pieces[r]
    BY <1>6 DEF Answer
  <2>2. processing_num' \in Int /\ processing_num' <= processing_num
    BY <1>2, <2>1
  <2>3. \A q \in Requests : rpc'[q] = "upload" => rpc[q] = "upload" \/ HasRoom
    BY <1>5, <1>6 DEF Answer, NotifyLimit, SenderPlaces
  <2> QED BY <1>4, <2>2, <2>3
<1>7. ASSUME UNCHANGED processing_num,
             \A r \in Requests : rpc'[r] = "upload" => rpc[r] = "upload" \/ HasRoom
      PROVE  LimitOK'
  BY <1>2, <1>4, <1>7
<1>8. ASSUME NEW q \in Requests, WaitIfCacheFull(q) \/ LimitPred(q) \/ LimitSleep(q)
                                 \/ CachePush(q) \/ LimitTimeout(q)
      PROVE  LimitOK'
  <2>1. UNCHANGED processing_num
    BY <1>8 DEF WaitIfCacheFull, LimitPred, LimitSleep, CachePush, LimitTimeout
  <2>2. \A r \in Requests : rpc'[r] = "upload" => rpc[r] = "upload" \/ HasRoom
    BY <1>5, <1>8 DEF WaitIfCacheFull, LimitPred, LimitSleep, CachePush, LimitTimeout,
       SenderPlaces
  <2> QED BY <1>7, <2>1, <2>2
<1>9. CASE SpuriousWake
  <2>1. UNCHANGED processing_num
    BY <1>9 DEF SpuriousWake
  <2>2. \A r \in Requests : rpc'[r] = "upload" => rpc[r] = "upload" \/ HasRoom
    BY <1>5, <1>9 DEF SpuriousWake, SenderPlaces
  <2> QED BY <1>7, <2>1, <2>2
<1>10. CASE UNCHANGED <<processing_num, rpc>>
  BY <1>7, <1>10
<1>11. CASE DispatchStep
  BY <1>10, <1>11 DEF DispatchStep, PopWait, PopSleep, PopEnd, Pop, PopDiscarded, IdleTest,
     IdlePred, IdleSleep, Run, ClearIdle, Scan
<1>12. ASSUME NEW e \in Engines, EngineStep(e) PROVE LimitOK'
  BY <1>10, <1>12 DEF EngineStep, Finish, Decrement, NotifyDone
<1>13. CASE Destroy \/ DestroyStep \/ UNCHANGED executorVars
  BY <1>10, <1>13 DEF Destroy, DestroyStep, StopNotify, Join, ClearEngines, executorVars
<1> QED BY <1>3, <1>6, <1>8, <1>9, <1>11, <1>12, <1>13 DEF ExecutorNext, SenderStep

\* As long as no two senders are between the test of WaitIfCacheFull and the
\* count of Upload, less than one request is in process beyond the limit.
THEOREM LimitUnlessRacedCorrect == ExecutorSpec => LimitUnlessRaced
<1>1. ExecutorSpec => []ExecutorIInv
  BY ExecutorInvariance
<1>2. ExecutorIInv /\ OneAtATime /\ OneAtATime' /\ LimitOK /\ [ExecutorNext]_executorVars
      => LimitOK'
  BY LimitStep
<1>3. LimitOK => WithinLimit
  BY DEF LimitOK
<1>4. ExecutorSpec /\ []OneAtATime => []WithinLimit
  BY <1>1, <1>2, <1>3, LimitInit, PTL DEF ExecutorSpec
<1> QED BY <1>4, PTL DEF LimitUnlessRaced
=============================================================================
