---------------------------- MODULE RequestProofs ---------------------------
(***************************************************************************)
(* Proofs about the requests of the infer server.  For every number of     *)
(* requests, of pieces and of tags: what a session promises its users, and *)
(* that it implements OrderedResponses (module Session).  For all requests *)
(* and every batch size: that the cache of an executor loses and doubles   *)
(* none of their pieces (module BatchCache).                               *)
(*                                                                         *)
(* The two modules share no variable: a theorem is about one of them.      *)
(***************************************************************************)
EXTENDS Session, BatchCache, FiniteSetTheorems, TLAPS, WellFoundedInduction


\* The numbers, as the other proofs use them.
LEMMA RequestFacts == /\ MaxRequests \in Nat /\ MaxPieces \in Nat
                      /\ \A r \in Requests : r \in Nat /\ r >= 1 /\ r <= MaxRequests
                      /\ \A r \in 1 .. MaxRequests : r \in Requests
BY SessionAssumption DEF SessionAssumption, Requests

LEMMA AppendFacts ==
    ASSUME NEW S, NEW q \in Seq(S), NEW e \in S
    PROVE  /\ Append(q, e) \in Seq(S)
           /\ Len(q) \in Nat /\ DOMAIN q = 1 .. Len(q)
           /\ Len(Append(q, e)) = Len(q) + 1 /\ DOMAIN Append(q, e) = 1 .. Len(q) + 1
           /\ \A i \in 1 .. Len(q) : Append(q, e)[i] = q[i]
           /\ Append(q, e)[Len(q) + 1] = e
OBVIOUS

LEMMA TailFacts ==
    ASSUME NEW S, NEW q \in Seq(S), q # << >>
    PROVE  /\ Head(q) = q[1] /\ Head(q) \in S /\ Tail(q) \in Seq(S)
           /\ Len(q) \in Nat /\ Len(q) >= 1 /\ DOMAIN q = 1 .. Len(q)
           /\ Len(Tail(q)) = Len(q) - 1 /\ DOMAIN Tail(q) = 1 .. Len(q) - 1
           /\ \A i \in 1 .. Len(q) - 1 : Tail(q)[i] = q[i + 1]
OBVIOUS

\* A set of numbers up to n that is not empty has a largest one.
LEMMA Largest ==
    ASSUME NEW n \in Nat, NEW S, S \subseteq 0 .. n, S # {}
    PROVE  \E x \in S : \A y \in S : y <= x
<1> DEFINE D == {n - x : x \in S}
<1>1. D \subseteq Nat /\ D # {}
  <2>1. \A x \in S : n - x \in Nat
    OBVIOUS
  <2>2. PICK x \in S : TRUE
    OBVIOUS
  <2> QED BY <2>1, <2>2
<1>2. PICK d \in D : \A e \in D : ~(<<e, d>> \in OpToRel(<, Nat))
  BY <1>1, NatLessThanWellFounded, WFMin
<1>3. PICK x \in S : d = n - x
  BY <1>2
<1>4. ASSUME NEW y \in S PROVE y <= x
  <2>1. n - y \in D /\ n - y \in Nat /\ n - x \in Nat
    OBVIOUS
  <2>2. ~(n - y < n - x)
    BY <1>2, <1>3, <2>1 DEF OpToRel
  <2> QED BY <2>1, <2>2
<1> QED BY <1>4

-----------------------------------------------------------------------------
(* The list.                                                               *)

\* The front of request_list_ is the request behind the one that left it last.
LEMMA HeadFacts ==
    ASSUME TypeOK, ListOK, request_list # << >>
    PROVE  /\ Head(request_list) = next + 1
           /\ next + 1 \in Requests /\ next + 1 <= sent
<1>1. /\ Head(request_list) = request_list[1] /\ Len(request_list) >= 1
      /\ Head(request_list) \in Requests /\ 1 \in DOMAIN request_list
      /\ Len(request_list) \in Nat
  BY TailFacts DEF TypeOK
<1>2. request_list[1] = next + 1
  BY <1>1 DEF ListOK
<1> QED BY <1>1, <1>2 DEF TypeOK, ListOK

\* Which requests are in the list.
LEMMA MemberFacts ==
    ASSUME TypeOK, ListOK
    PROVE  \A r \in Requests : r \in ToSet(request_list) <=> (next < r /\ r <= sent)
<1>1. /\ request_list \in Seq(Requests) /\ Len(request_list) \in Nat
      /\ DOMAIN request_list = 1 .. Len(request_list)
      /\ sent \in Nat /\ next \in Nat /\ Len(request_list) = sent - next
  BY RequestFacts DEF TypeOK, ListOK
<1> SUFFICES ASSUME NEW r \in Requests
             PROVE  r \in ToSet(request_list) <=> (next < r /\ r <= sent)
  OBVIOUS
<1>2. ASSUME r \in ToSet(request_list) PROVE next < r /\ r <= sent
  <2>1. PICK k \in DOMAIN request_list : request_list[k] = r
    BY <1>2 DEF ToSet
  <2>2. r = next + k
    BY <2>1 DEF ListOK
  <2> QED BY <1>1, <2>1, <2>2
<1>3. ASSUME next < r, r <= sent PROVE r \in ToSet(request_list)
  <2>1. r - next \in DOMAIN request_list /\ next + (r - next) = r
    BY <1>1, <1>3, RequestFacts
  <2>2. request_list[r - next] = r
    BY <2>1 DEF ListOK
  <2> QED BY <2>1, <2>2 DEF ToSet
<1> QED BY <1>2, <1>3

\* The front leaves the list for the responder (CheckAndResponse, the task).
LEMMA TakeFront ==
    ASSUME TypeOK, ListOK, request_list # << >>,
           request_list' = Tail(request_list), next' = Head(request_list),
           sent' = sent
    PROVE  /\ ListOK' /\ request_list' \in Seq(Requests)
           /\ next' = next + 1 /\ next' \in Requests /\ next' <= sent
<1>1. next' = next + 1 /\ next' \in Requests /\ next' <= sent
  BY HeadFacts
<1>2. /\ request_list' \in Seq(Requests) /\ Len(request_list) \in Nat
      /\ DOMAIN request_list = 1 .. Len(request_list)
      /\ Len(request_list') = Len(request_list) - 1
      /\ DOMAIN request_list' = 1 .. Len(request_list) - 1
      /\ \A k \in 1 .. Len(request_list) - 1 : request_list'[k] = request_list[k + 1]
  BY TailFacts DEF TypeOK
<1>3. sent \in Nat /\ next \in Nat
  BY RequestFacts DEF TypeOK
<1>4. Len(request_list') = sent' - next'
  BY <1>1, <1>2, <1>3 DEF ListOK
<1>5. ASSUME NEW k \in DOMAIN request_list' PROVE request_list'[k] = next' + k
  <2>1. k + 1 \in DOMAIN request_list /\ k \in Nat
    BY <1>2
  <2>2. request_list[k + 1] = next + (k + 1)
    BY <2>1 DEF ListOK
  <2> QED BY <1>1, <1>2, <1>3, <2>1, <2>2
<1> QED BY <1>1, <1>2, <1>4, <1>5 DEF ListOK

\* As long as requests are only added and deleted, WaitTaskDone waits for what it
\* has to, and what it has waited for stays done.
LEMMA WaitKept ==
    ASSUME TypeOK, WaitOK, WaitedIsDone, sent' \in Nat, sent <= sent',
           deleted \subseteq deleted', UNCHANGED <<tag, wpc, waitFor, asked, overlooked>>
    PROVE  WaitOK' /\ WaitedIsDone'
<1>1. \A t \in Tags : asked[t] \in Nat /\ waitFor[t] \in Nat
  BY RequestFacts DEF TypeOK
<1>2. sent \in Nat
  BY RequestFacts DEF TypeOK
<1>3. \A t \in Tags : asked[t] <= sent'
  BY <1>1, <1>2 DEF WaitOK
<1>4. WaitOK'
  BY <1>3 DEF WaitOK
<1>5. WaitedIsDone'
  BY DEF WaitedIsDone
<1> QED BY <1>4, <1>5

-----------------------------------------------------------------------------
(* The steps preserve the invariant.                                       *)

LEMMA InvInit == Init => IInv
<1> SUFFICES ASSUME Init PROVE IInv
  OBVIOUS
<1> USE RequestFacts DEF Init
<1>1. TypeOK
  <2>1. request_list \in Seq(Requests) /\ deleted \in SUBSET Requests
    OBVIOUS
  <2>2. /\ 0 \in 0 .. MaxRequests /\ 0 \in 0 .. MaxPieces
        /\ sent = 0 /\ next = 0 /\ closed = 0
    OBVIOUS
  <2>3. /\ wait_num \in [Requests -> 0 .. MaxPieces]
        /\ caller \in [Requests -> {"none", "process", "notify", "send", "returned"}]
        /\ is_discarded \in [Requests -> BOOLEAN]
    BY <2>2
  <2>4. /\ wpc \in [Tags -> {"none", "wait", "done"}]
        /\ waitFor \in [Tags -> 0 .. MaxRequests]
        /\ asked \in [Tags -> 0 .. MaxRequests]
        /\ overlooked \in [Tags -> 0 .. MaxRequests]
    BY <2>2
  <2> QED BY <2>1, <2>2, <2>3, <2>4 DEF TypeOK
<1>2. ListOK /\ AnswerOK
  <2>1. Len(request_list) = 0 /\ DOMAIN request_list = {}
    OBVIOUS
  <2>2. deleted = 1 .. 0
    OBVIOUS
  <2> QED BY <2>1, <2>2 DEF ListOK, AnswerOK, InHand
<1>3. CallerOK
  BY DEF CallerOK, Finished
<1>4. WaitOK /\ WaitedIsDone /\ EndOK
  BY DEF WaitOK, WaitedIsDone, EndOK
<1> QED BY <1>1, <1>2, <1>3, <1>4 DEF IInv

LEMMA InvSend ==
    ASSUME NEW n \in 0 .. MaxPieces PROVE IInv /\ Send(n) => IInv'
<1> SUFFICES ASSUME IInv, Send(n) PROVE IInv'
  OBVIOUS
<1> USE DEF IInv
<1> DEFINE r == sent + 1
<1>1. /\ r \in Requests /\ sent \in Nat /\ next \in Nat /\ next <= sent /\ running
      /\ sent' = r /\ request_list' = Append(request_list, r)
      /\ next' = next /\ UNCHANGED <<tag, is_discarded, respVars, endVars, waitVars>>
  <2>1. next <= sent
    BY TailFacts, RequestFacts DEF TypeOK, ListOK
  <2> QED BY <2>1, RequestFacts DEF Send, TypeOK, respVars
<1>2. \A q \in Requests :
         /\ wait_num'[q] = IF q = r THEN n ELSE wait_num[q]
         /\ caller'[q] = IF q = r THEN IF n = 0 THEN "send" ELSE "process"
                         ELSE caller[q]
  BY <1>1 DEF Send, TypeOK
<1>3. /\ request_list' \in Seq(Requests)
      /\ Len(request_list) \in Nat /\ DOMAIN request_list = 1 .. Len(request_list)
      /\ Len(request_list') = Len(request_list) + 1
      /\ DOMAIN request_list' = 1 .. Len(request_list) + 1
      /\ \A k \in 1 .. Len(request_list) : request_list'[k] = request_list[k]
      /\ request_list'[Len(request_list) + 1] = r
  BY <1>1, AppendFacts DEF TypeOK
<1>4. TypeOK'
  <2>1. /\ wait_num' \in [Requests -> 0 .. MaxPieces]
        /\ caller' \in [Requests -> {"none", "process", "notify", "send", "returned"}]
    BY <1>1 DEF Send, TypeOK
  <2>2. sent' \in 0 .. MaxRequests
    BY <1>1, RequestFacts
  <2> QED BY <1>1, <1>3, <2>1, <2>2 DEF TypeOK, respVars, endVars, waitVars
<1>5. ListOK'
  BY <1>1, <1>3 DEF ListOK
<1>6. AnswerOK'
  BY <1>1 DEF AnswerOK, InHand, respVars
<1>7. CallerOK'
  <2>1. deleted' = deleted /\ \A q \in Requests : q \in Nat
    BY <1>1, RequestFacts DEF respVars
  <2> QED BY <1>1, <1>2, <2>1 DEF CallerOK, Finished, AnswerOK, InHand
<1>8. WaitOK' /\ WaitedIsDone'
  BY <1>1, WaitKept DEF respVars, waitVars
<1>9. EndOK'
  BY <1>1 DEF EndOK, endVars, respVars
<1> QED BY <1>4, <1>5, <1>6, <1>7, <1>8, <1>9

LEMMA InvPieceDone ==
    ASSUME NEW r \in Requests PROVE IInv /\ PieceDone(r) => IInv'
<1> SUFFICES ASSUME IInv, PieceDone(r) PROVE IInv'
  OBVIOUS
<1> USE DEF IInv
<1>1. /\ caller[r] = "process"
      /\ UNCHANGED <<request_list, sent, tag, is_discarded, respVars, endVars, waitVars>>
  BY DEF PieceDone
<1>2. wait_num[r] \in 1 .. MaxPieces /\ next < r
  BY <1>1, RequestFacts DEF CallerOK, Finished, TypeOK
<1>3. \A q \in Requests :
         /\ wait_num'[q] = IF q = r THEN wait_num[r] - 1 ELSE wait_num[q]
         /\ caller'[q] = IF q = r /\ wait_num[r] = 1 THEN "notify" ELSE caller[q]
  BY DEF PieceDone, TypeOK
<1>4. TypeOK'
  <2>1. wait_num' \in [Requests -> 0 .. MaxPieces]
    BY SMTT(30), <1>2, RequestFacts DEF PieceDone, TypeOK
  <2>2. caller' \in [Requests -> {"none", "process", "notify", "send", "returned"}]
    BY DEF PieceDone, TypeOK
  <2> QED BY <1>1, <2>1, <2>2 DEF TypeOK, respVars, endVars, waitVars
<1>5. ListOK' /\ AnswerOK'
  BY <1>1 DEF ListOK, AnswerOK, InHand, respVars
<1>6. CallerOK'
  <2>1. r \notin deleted
    BY <1>2, RequestFacts DEF AnswerOK, InHand, TypeOK
  <2>2. UNCHANGED <<sent, next, deleted>>
    BY <1>1 DEF respVars
  <2> QED BY <1>1, <1>2, <1>3, <2>1, <2>2 DEF CallerOK, Finished
<1>7. WaitOK' /\ WaitedIsDone'
  BY <1>1 DEF WaitOK, WaitedIsDone, respVars, waitVars
<1>8. EndOK'
  BY <1>1 DEF EndOK, respVars, endVars
<1> QED BY <1>4, <1>5, <1>6, <1>7, <1>8

LEMMA InvCheckAndResponse ==
    ASSUME NEW r \in Requests PROVE IInv /\ CheckAndResponse(r) => IInv'
<1> SUFFICES ASSUME IInv, CheckAndResponse(r) PROVE IInv'
  OBVIOUS
<1> USE DEF IInv
<1>1. /\ caller[r] \in {"notify", "send"} /\ Finished(r) /\ r <= sent
      /\ UNCHANGED <<sent, requestVars, running, waitVars>>
      /\ sent \in Nat /\ next \in Nat
  BY SMTT(30), RequestFacts DEF CheckAndResponse, CallerOK, TypeOK
<1>2. \A q \in Requests : caller'[q] = IF q = r THEN "returned" ELSE caller[q]
  BY DEF CheckAndResponse, TypeOK
<1>3. caller' \in [Requests -> {"none", "process", "notify", "send", "returned"}]
  BY DEF CheckAndResponse, TypeOK
<1>4. /\ dpc' \in {"none", "check", "asleep", "gone"}
      /\ dpc' # dpc => request_list = << >> /\ dpc = "asleep" /\ dpc' = "check"
  BY DEF CheckAndResponse, NotifySync, TypeOK
<1>5. CASE MayRespond(r) /\ StartResponder
  <2>1. /\ request_list # << >> /\ Finished(next + 1) /\ rpc = "none"
        /\ closed = next /\ deleted = 1 .. next
        /\ in_response' = TRUE /\ rpc' = "take" /\ UNCHANGED <<closed, deleted>>
        /\ next' = Head(request_list) /\ request_list' = Tail(request_list)
    BY <1>1, <1>5, HeadFacts DEF MayRespond, StartResponder, AnswerOK, InHand
  <2>2. /\ ListOK' /\ request_list' \in Seq(Requests)
        /\ next' = next + 1 /\ next' \in Requests /\ next' <= sent
    BY <1>1, <2>1, TakeFront
  <2>3. TypeOK'
    <3>1. next' \in 0 .. MaxRequests
      BY <2>2, RequestFacts
    <3>2. in_response' \in BOOLEAN
      BY <2>1
    <3> QED BY <1>1, <1>3, <1>4, <2>1, <2>2, <3>1, <3>2 DEF TypeOK, requestVars, waitVars
  <2>4. AnswerOK'
    <3>1. next' # 0 /\ next' - 1 = next
      BY <1>1, <2>2
    <3> QED BY <2>1, <3>1 DEF AnswerOK, InHand
  <2>5. CallerOK'
    <3>1. \A q \in Requests : q <= next' => q <= next \/ q = next + 1
      BY <1>1, <2>2, RequestFacts
    <3>2. UNCHANGED <<wait_num, sent, deleted>>
      BY <1>1, <2>1 DEF requestVars
    <3> QED BY <1>1, <1>2, <2>1, <3>1, <3>2 DEF CallerOK, Finished
  <2>6. WaitOK' /\ WaitedIsDone'
    BY <1>1, <2>1, <2>2, WaitKept DEF StartResponder, requestVars, waitVars
  <2>7. EndOK'
    BY <1>1, <1>4, <2>1 DEF EndOK
  <2> QED BY <2>2, <2>3, <2>4, <2>5, <2>6, <2>7
<1>6. CASE UNCHANGED <<request_list, respVars>>
  <2>1. UNCHANGED <<request_list, in_response, rpc, next, closed, deleted>>
    BY <1>6 DEF respVars
  <2>2. TypeOK'
    BY <1>1, <1>3, <1>4, <2>1 DEF TypeOK, requestVars, waitVars
  <2>3. ListOK' /\ AnswerOK'
    BY <1>1, <2>1 DEF ListOK, AnswerOK, InHand
  <2>4. CallerOK'
    BY <1>1, <1>2, <2>1 DEF CallerOK, Finished, requestVars
  <2>5. WaitOK' /\ WaitedIsDone'
    BY <1>1, <2>1 DEF WaitOK, WaitedIsDone, requestVars, respVars, waitVars
  <2>6. EndOK'
    BY <1>1, <1>4, <2>1 DEF EndOK
  <2> QED BY <2>2, <2>3, <2>4, <2>5, <2>6
<1> QED BY <1>5, <1>6 DEF CheckAndResponse

\* A step of the responder that leaves the list alone keeps the invariant, if
\* it keeps the responder's own part of it.
LEMMA ResponderKeeps ==
    ASSUME IInv, rpc # "none", AnswerOK',
           UNCHANGED <<request_list, sent, requestVars, caller, next, running, waitVars>>,
           dpc' = dpc \/ (dpc = "asleep" /\ dpc' = "check"),
           in_response' \in BOOLEAN, closed' \in 0 .. MaxRequests,
           rpc' \in {"none", "take", "respond", "delete", "next", "clear"},
           deleted' = deleted \/ (deleted' = deleted \union {next} /\ caller[next] # "notify")
    PROVE  IInv'
<1> USE DEF IInv
<1>1. next \in Requests
  BY RequestFacts DEF AnswerOK, InHand, TypeOK
<1>2. TypeOK'
  <2>1. deleted' \in SUBSET Requests
    BY <1>1 DEF TypeOK
  <2>2. dpc' \in {"none", "check", "asleep", "gone"}
    BY DEF TypeOK
  <2> QED BY <2>1, <2>2 DEF TypeOK, requestVars, waitVars
<1>3. ListOK'
  BY DEF ListOK
<1>4. CallerOK'
  BY DEF CallerOK, Finished, requestVars
<1>5. WaitOK' /\ WaitedIsDone'
  BY DEF WaitOK, WaitedIsDone, requestVars, waitVars
<1>6. EndOK'
  BY DEF EndOK
<1> QED BY <1>2, <1>3, <1>4, <1>5, <1>6

LEMMA InvRespond == IInv /\ Respond => IInv'
<1> SUFFICES ASSUME IInv, Respond PROVE IInv'
  OBVIOUS
<1>1. /\ next \in Nat /\ next # 0 /\ next <= MaxRequests /\ rpc = "take"
      /\ closed = next - 1 /\ deleted = 1 .. next - 1 /\ in_response = TRUE
  BY RequestFacts DEF IInv, TypeOK, AnswerOK, InHand, Respond, Responder
<1>2. /\ UNCHANGED <<request_list, sent, requestVars, caller, deleted, in_response,
                     next, running, dpc, waitVars>>
      /\ \/ rpc' = "delete" /\ closed' = closed + 1
         \/ rpc' = "respond" /\ closed' = closed
  BY DEF Respond, Responder, endVars
<1>3. AnswerOK'
  <2>1. closed + 1 = next
    BY <1>1
  <2> QED BY <1>1, <1>2, <2>1 DEF AnswerOK, InHand
<1>4. closed' \in 0 .. MaxRequests
  BY <1>1, <1>2, RequestFacts
<1> QED BY <1>1, <1>2, <1>3, <1>4, ResponderKeeps

LEMMA InvResponded == IInv /\ Responded => IInv'
<1> SUFFICES ASSUME IInv, Responded PROVE IInv'
  OBVIOUS
<1>1. /\ next \in Nat /\ next # 0 /\ next <= MaxRequests /\ rpc = "respond"
      /\ closed = next - 1 /\ deleted = 1 .. next - 1 /\ in_response = TRUE
  BY RequestFacts DEF IInv, TypeOK, AnswerOK, InHand, Responded, Responder
<1>2. /\ UNCHANGED <<request_list, sent, requestVars, caller, deleted, in_response,
                     next, running, dpc, waitVars>>
      /\ rpc' = "delete" /\ closed' = closed + 1
  BY DEF Responded, Responder, endVars
<1>3. closed' = next
  BY <1>1, <1>2
<1>4. AnswerOK'
  BY <1>1, <1>2, <1>3 DEF AnswerOK, InHand
<1>5. closed' \in 0 .. MaxRequests
  BY <1>1, <1>3, RequestFacts
<1> QED BY <1>1, <1>2, <1>4, <1>5, ResponderKeeps

LEMMA InvDelete == IInv /\ Delete => IInv'
<1> SUFFICES ASSUME IInv, Delete PROVE IInv'
  OBVIOUS
<1>1. /\ next \in Nat /\ next # 0 /\ next <= MaxRequests /\ rpc = "delete"
      /\ closed = next /\ deleted = 1 .. next - 1 /\ in_response = TRUE
  BY RequestFacts DEF IInv, TypeOK, AnswerOK, InHand, Delete, Responder
<1>2. /\ UNCHANGED <<request_list, sent, requestVars, caller, closed, in_response,
                     next, running, dpc, waitVars>>
      /\ rpc' = "next" /\ deleted' = deleted \union {next} /\ caller[next] # "notify"
  BY DEF Delete, Responder, endVars
<1>3. deleted' = 1 .. next
  BY <1>1, <1>2
<1>4. AnswerOK'
  BY <1>1, <1>2, <1>3 DEF AnswerOK, InHand
<1>5. closed' \in 0 .. MaxRequests
  BY <1>1, <1>2, RequestFacts
<1> QED BY <1>1, <1>2, <1>4, <1>5, ResponderKeeps

\* The responder looks at the list and gives up, or resets in_response_.
LEMMA InvNoAnswer == IInv /\ (LastAnswered \/ NoAnswer \/ ClearResponse) => IInv'
<1> SUFFICES ASSUME IInv, LastAnswered \/ NoAnswer \/ ClearResponse PROVE IInv'
  OBVIOUS
<1>1. /\ rpc \in {"next", "clear"} /\ next # 0
      /\ closed = next /\ deleted = 1 .. next /\ in_response = TRUE
  BY DEF IInv, TypeOK, AnswerOK, InHand, LastAnswered, NoAnswer, ClearResponse, Responder
<1>2. /\ UNCHANGED <<request_list, sent, requestVars, caller, closed, deleted,
                     next, running, waitVars>>
      /\ dpc' = dpc \/ (dpc = "asleep" /\ dpc' = "check")
  BY DEF LastAnswered, NoAnswer, ClearResponse, NotifySync, endVars
<1>3. \/ rpc' = "none" /\ in_response' = FALSE
      \/ rpc' = "clear" /\ in_response' = in_response
  BY DEF LastAnswered, NoAnswer, ClearResponse, Responder
<1>4. AnswerOK' /\ in_response' \in BOOLEAN
  BY <1>1, <1>2, <1>3 DEF AnswerOK, InHand
<1>5. closed' \in 0 .. MaxRequests
  BY <1>2 DEF IInv, TypeOK
<1> QED BY <1>1, <1>2, <1>3, <1>4, <1>5, ResponderKeeps

LEMMA InvNextAnswer == IInv /\ NextAnswer => IInv'
<1> SUFFICES ASSUME IInv, NextAnswer PROVE IInv'
  OBVIOUS
<1> USE DEF IInv
<1>1. /\ request_list # << >> /\ Finished(next + 1) /\ rpc = "next" /\ rpc' = "take"
      /\ closed = next /\ deleted = 1 .. next /\ in_response = TRUE
      /\ next' = Head(request_list) /\ request_list' = Tail(request_list)
      /\ next \in Nat /\ sent \in Nat
      /\ UNCHANGED <<sent, requestVars, caller, deleted, in_response, closed,
                     running, dpc, waitVars>>
  <2>1. /\ request_list # << >> /\ Finished(Head(request_list))
        /\ rpc = "next" /\ rpc' = "take"
        /\ next' = Head(request_list) /\ request_list' = Tail(request_list)
        /\ UNCHANGED <<sent, requestVars, caller, deleted, in_response, closed,
                       running, dpc, waitVars>>
    BY DEF NextAnswer, Responder, endVars
  <2>2. /\ closed = next /\ deleted = 1 .. next /\ in_response = TRUE
        /\ next \in Nat /\ sent \in Nat
    BY <2>1, RequestFacts DEF AnswerOK, InHand, TypeOK
  <2> QED BY <2>1, <2>2, HeadFacts
<1>2. /\ ListOK' /\ request_list' \in Seq(Requests)
      /\ next' = next + 1 /\ next' \in Requests /\ next' <= sent
  BY <1>1, TakeFront
<1>3. TypeOK'
  <2>1. next' \in 0 .. MaxRequests
    BY <1>2, RequestFacts
  <2> QED BY <1>1, <1>2, <2>1 DEF TypeOK, requestVars, waitVars
<1>4. AnswerOK'
  <2>1. next' # 0 /\ next' - 1 = next
    BY <1>1, <1>2
  <2> QED BY <1>1, <2>1 DEF AnswerOK, InHand
<1>5. CallerOK'
  <2>1. \A q \in Requests : q <= next' => q <= next \/ q = next + 1
    BY <1>1, <1>2, RequestFacts
  <2> QED BY <1>1, <2>1 DEF CallerOK, Finished, requestVars
<1>6. WaitOK' /\ WaitedIsDone'
  BY <1>1, <1>2, WaitKept DEF requestVars, waitVars
<1>7. EndOK'
  BY <1>1 DEF EndOK
<1> QED BY <1>2, <1>3, <1>4, <1>5, <1>6, <1>7

LEMMA InvDiscardTask ==
    ASSUME NEW t \in Tags PROVE IInv /\ DiscardTask(t) => IInv'
<1> SUFFICES ASSUME IInv, DiscardTask(t) PROVE IInv'
  OBVIOUS
<1> USE DEF IInv
<1>1. UNCHANGED <<request_list, sent, tag, wait_num, caller, respVars, endVars, waitVars>>
  BY DEF DiscardTask
<1>2. is_discarded' \in [Requests -> BOOLEAN]
  BY DEF DiscardTask, TypeOK
<1>3. TypeOK'
  BY <1>1, <1>2 DEF TypeOK, respVars, endVars, waitVars
<1>4. ListOK' /\ AnswerOK' /\ CallerOK'
  BY <1>1 DEF ListOK, AnswerOK, InHand, CallerOK, Finished, respVars
<1>5. WaitOK' /\ WaitedIsDone' /\ EndOK'
  BY <1>1 DEF WaitOK, WaitedIsDone, EndOK, respVars, endVars, waitVars
<1> QED BY <1>3, <1>4, <1>5

\* What is not in the list when WaitTaskDone looks is deleted, but for the request
\* in the responder's hands; and what is in the list with the tag is not behind the
\* last of them.
LEMMA InvWaitTaskDone ==
    ASSUME NEW t \in Tags PROVE IInv /\ WaitTaskDone(t) => IInv'
<1> SUFFICES ASSUME IInv, WaitTaskDone(t) PROVE IInv'
  OBVIOUS
<1> USE DEF IInv
<1> DEFINE last == LastTagged(t)
           held == IF InHand THEN next ELSE 0
<1>1. /\ UNCHANGED <<request_list, sent, requestVars, caller, respVars, endVars>>
      /\ asked' = [asked EXCEPT ![t] = sent]
      /\ \/ /\ Tagged(t) = {} /\ wpc' = [wpc EXCEPT ![t] = "done"] /\ waitFor' = waitFor
            /\ overlooked' = [overlooked EXCEPT ![t] = held]
         \/ /\ Tagged(t) # {} /\ wpc' = [wpc EXCEPT ![t] = "wait"]
            /\ waitFor' = [waitFor EXCEPT ![t] = last] /\ overlooked' = overlooked
  BY DEF WaitTaskDone
<1>2. Tagged(t) # {} => last \in Tagged(t) /\ \A q \in Tagged(t) : q <= last
  <2>1. Tagged(t) \subseteq 0 .. MaxRequests
    BY TailFacts, RequestFacts DEF Tagged, ToSet, TypeOK
  <2> QED BY <2>1, Largest, RequestFacts DEF LastTagged
<1>3. Tagged(t) \subseteq Requests
  BY TailFacts DEF Tagged, ToSet, TypeOK
<1>4. TypeOK'
  <2>1. /\ asked' \in [Tags -> 0 .. MaxRequests]
        /\ wpc' \in [Tags -> {"none", "wait", "done"}]
    BY <1>1 DEF TypeOK
  <2>2. waitFor' \in [Tags -> 0 .. MaxRequests]
    <3>1. Tagged(t) # {} => last \in 0 .. MaxRequests
      BY <1>2, <1>3, RequestFacts
    <3> HIDE DEF last, held
    <3> QED BY <1>1, <3>1 DEF TypeOK
  <2>3. overlooked' \in [Tags -> 0 .. MaxRequests]
    <3>1. held \in 0 .. MaxRequests
      BY RequestFacts DEF TypeOK
    <3> HIDE DEF last, held
    <3> QED BY <1>1, <3>1 DEF TypeOK
  <2> QED BY <1>1, <2>1, <2>2, <2>3 DEF TypeOK, requestVars, respVars, endVars
<1>5. ListOK' /\ AnswerOK' /\ CallerOK'
  BY <1>1 DEF ListOK, AnswerOK, InHand, CallerOK, Finished, requestVars, respVars
<1>6. WaitOK' /\ WaitedIsDone'
  <2>1. ASSUME NEW r \in 1 .. sent, tag[r] = t PROVE r <= next \/ r \in Tagged(t)
    <3>1. r \in Requests /\ r <= sent /\ next \in Nat /\ r \in Nat
      BY RequestFacts DEF TypeOK
    <3>2. r \in ToSet(request_list) <=> next < r /\ r <= sent
      BY <3>1, MemberFacts
    <3> QED BY <2>1, <3>1, <3>2 DEF Tagged
  <2>2. \A q \in Tagged(t) : next < q
    <3>1. \A q \in Tagged(t) : q \in Requests /\ q \in ToSet(request_list)
      BY <1>3 DEF Tagged
    <3> QED BY <3>1, MemberFacts
  <2>3. /\ asked'[t] = sent /\ sent' = sent /\ tag' = tag /\ deleted' = deleted
        /\ Tagged(t) = {} => wpc'[t] = "done" /\ overlooked'[t] = held
        /\ Tagged(t) # {} => wpc'[t] = "wait" /\ waitFor'[t] = last
    BY <1>1 DEF TypeOK, requestVars, respVars
  <2>4. \A u \in Tags : u # t => /\ asked'[u] = asked[u] /\ wpc'[u] = wpc[u]
                               /\ waitFor'[u] = waitFor[u]
                               /\ overlooked'[u] = overlooked[u]
    BY <1>1 DEF TypeOK
  <2>5. sent \in Nat /\ next \in Nat
    BY RequestFacts DEF TypeOK
  <2>6. ASSUME NEW r \in 1 .. sent, tag[r] = t, Tagged(t) # {} PROVE r <= last
    <3>1. r \in Nat /\ last \in Nat /\ next < last
      BY <1>2, <1>3, <2>2, <2>5, <2>6, RequestFacts
    <3> QED BY <1>2, <2>1, <2>5, <2>6, <3>1
  <2>7. ASSUME NEW r \in 1 .. sent, tag[r] = t, Tagged(t) = {}
        PROVE  r \in deleted \/ r = held
    BY <2>1, <2>5, <2>7 DEF AnswerOK
  <2> HIDE DEF last, held
  <2>8. WaitOK'
    <3>1. ASSUME NEW u \in Tags, u = t
          PROVE  /\ asked'[u] <= sent'
                 /\ wpc'[u] = "wait" =>
                       \A r \in 1 .. asked'[u] : tag'[r] = u => r <= waitFor'[u]
      BY <2>3, <2>5, <2>6, <3>1
    <3>2. ASSUME NEW u \in Tags, u # t
          PROVE  /\ asked'[u] <= sent'
                 /\ wpc'[u] = "wait" =>
                       \A r \in 1 .. asked'[u] : tag'[r] = u => r <= waitFor'[u]
      BY <2>3, <2>4, <3>2 DEF WaitOK
    <3> QED BY <3>1, <3>2 DEF WaitOK
  <2>9. WaitedIsDone'
    BY <2>3, <2>4, <2>7 DEF WaitedIsDone
  <2> QED BY <2>8, <2>9
<1>7. EndOK'
  BY <1>1 DEF EndOK, respVars, endVars
<1> QED BY <1>4, <1>5, <1>6, <1>7

\* The request awaited is deleted, and so are all before it: they are deleted in
\* their order.
LEMMA InvWaitReturn ==
    ASSUME NEW t \in Tags PROVE IInv /\ WaitReturn(t) => IInv'
<1> SUFFICES ASSUME IInv, WaitReturn(t) PROVE IInv'
  OBVIOUS
<1> USE DEF IInv
<1>1. /\ wpc[t] = "wait" /\ waitFor[t] \in deleted
      /\ wpc' = [wpc EXCEPT ![t] = "done"]
      /\ UNCHANGED <<request_list, sent, requestVars, caller, respVars, endVars,
                     waitFor, asked, overlooked>>
  BY DEF WaitReturn
<1>2. TypeOK'
  <2>1. wpc' \in [Tags -> {"none", "wait", "done"}]
    BY <1>1 DEF TypeOK
  <2> QED BY <1>1, <2>1 DEF TypeOK, requestVars, respVars, endVars
<1>3. ListOK' /\ AnswerOK' /\ CallerOK'
  BY <1>1 DEF ListOK, AnswerOK, InHand, CallerOK, Finished, requestVars, respVars
<1>4. WaitOK' /\ WaitedIsDone'
  <2>1. waitFor[t] \in Nat /\ next \in Nat /\ asked[t] \in Nat
    BY RequestFacts DEF TypeOK
  <2>2. \A r \in 1 .. asked[t] : tag[r] = t => r <= waitFor[t]
    BY <1>1 DEF WaitOK
  <2>3. \A r \in 1 .. asked[t] : tag[r] = t => r \in deleted
    BY <1>1, <2>1, <2>2 DEF AnswerOK
  <2>4. \A u \in Tags : wpc'[u] = IF u = t THEN "done" ELSE wpc[u]
    BY <1>1 DEF TypeOK
  <2>5. WaitOK'
    BY <1>1, <2>4 DEF WaitOK, requestVars
  <2>6. WaitedIsDone'
    BY <1>1, <2>3, <2>4 DEF WaitedIsDone, requestVars, respVars
  <2> QED BY <2>5, <2>6
<1>5. EndOK'
  BY <1>1 DEF EndOK, respVars, endVars
<1> QED BY <1>2, <1>3, <1>4, <1>5

\* Without requests in the list and without a responder the destructor returns.
LEMMA InvDestroy ==
    IInv /\ (Destroy \/ DestroyCheck \/ SpuriousWake) => IInv'
<1> SUFFICES ASSUME IInv, Destroy \/ DestroyCheck \/ SpuriousWake PROVE IInv'
  OBVIOUS
<1> USE DEF IInv
<1>1. UNCHANGED <<request_list, sent, requestVars, caller, respVars, waitVars>>
  BY DEF Destroy, DestroyCheck, SpuriousWake
<1>2. /\ dpc' \in {"check", "asleep", "gone"}
      /\ running' = FALSE
      /\ dpc' = "gone" => request_list = << >> /\ ~in_response
  BY DEF Destroy, DestroyCheck, SpuriousWake, EndOK, TypeOK
<1>3. TypeOK'
  BY <1>1, <1>2 DEF TypeOK, requestVars, respVars, waitVars
<1>4. ListOK' /\ AnswerOK' /\ CallerOK'
  BY <1>1 DEF ListOK, AnswerOK, InHand, CallerOK, Finished, requestVars, respVars
<1>5. WaitOK' /\ WaitedIsDone'
  BY <1>1 DEF WaitOK, WaitedIsDone, requestVars, respVars, waitVars
<1>6. EndOK'
  BY <1>1, <1>2 DEF EndOK, AnswerOK, InHand, respVars
<1> QED BY <1>3, <1>4, <1>5, <1>6

LEMMA InvStep == IInv /\ [Next]_vars => IInv'
<1> SUFFICES ASSUME IInv, [Next]_vars PROVE IInv'
  OBVIOUS
<1>1. CASE \E n \in 0 .. MaxPieces : Send(n)
  BY <1>1, InvSend
<1>2. CASE \E r \in Requests : Engine(r)
  BY <1>2, InvPieceDone, InvCheckAndResponse DEF Engine
<1>3. CASE ResponderStep
  BY <1>3, InvRespond, InvResponded, InvDelete, InvNoAnswer, InvNextAnswer
     DEF ResponderStep
<1>4. CASE \E t \in Tags : DiscardTask(t) \/ WaitTaskDone(t) \/ WaitReturn(t)
  BY <1>4, InvDiscardTask, InvWaitTaskDone, InvWaitReturn
<1>5. CASE Destroy \/ DestroyCheck \/ SpuriousWake
  BY <1>5, InvDestroy
<1>6. CASE UNCHANGED vars
  <2>1. TypeOK'
    BY <1>6 DEF vars, IInv, TypeOK
  <2>2. ListOK' /\ AnswerOK' /\ CallerOK'
    BY <1>6 DEF vars, IInv, ListOK, AnswerOK, InHand, CallerOK, Finished
  <2>3. WaitOK' /\ WaitedIsDone' /\ EndOK'
    BY <1>6 DEF vars, IInv, WaitOK, WaitedIsDone, EndOK
  <2> QED BY <2>1, <2>2, <2>3 DEF IInv
<1> QED BY <1>1, <1>2, <1>3, <1>4, <1>5, <1>6 DEF Next

\* In every reachable state: what list, responder, callers, waiters and
\* destructor know of each other fits together.
THEOREM SessionInvariance == Spec => []IInv
<1> QED BY InvInit, InvStep, PTL DEF Spec

-----------------------------------------------------------------------------
(* What the invariant shows.                                               *)

LEMMA InvShows == IInv => AnsweredWhenFinished /\ NoUseAfterDelete
<1> SUFFICES ASSUME IInv PROVE AnsweredWhenFinished /\ NoUseAfterDelete
  OBVIOUS
<1> USE DEF IInv
<1>1. next \in Nat /\ sent \in Nat
  BY RequestFacts DEF TypeOK
<1>2. AnsweredWhenFinished
  <2>1. ASSUME rpc # "none" PROVE next \in Requests
    BY <2>1, RequestFacts DEF AnswerOK, InHand, TypeOK
  <2>2. ASSUME rpc # "none" PROVE Finished(next)
    BY <2>1, <2>2, <1>1 DEF CallerOK
  <2> QED BY <2>2 DEF AnsweredWhenFinished, InHand
<1>3. NoUseAfterDelete
  <2>1. \A r \in deleted : caller[r] # "notify"
    BY DEF TypeOK, CallerOK
  <2>2. ASSUME dpc = "gone", NEW r \in Requests PROVE caller[r] # "notify"
    <3>1. rpc = "none" /\ sent = next
      BY <2>2, <1>1, RequestFacts DEF EndOK, ListOK, TypeOK
    <3>2. r <= next => r \in deleted
      BY <3>1, <1>1, RequestFacts DEF AnswerOK, InHand
    <3>3. r > sent => caller[r] = "none"
      BY DEF CallerOK
    <3> QED BY <2>1, <3>1, <3>2, <3>3, <1>1, RequestFacts
  <2>3. dpc = "gone" => rpc = "none"
    BY DEF EndOK
  <2> QED BY <2>1, <2>2, <2>3 DEF NoUseAfterDelete
<1> QED BY <1>2, <1>3

\* A session answers a request only when all its data is processed, returns from
\* WaitTaskDone only when what was sent before with the tag is answered and deleted
\* (but for one request that is in the responder's hands at the call), and touches
\* neither a deleted request nor the destroyed session.
THEOREM SessionInvCorrect == Spec => []SessionInv
<1>1. IInv => SessionInv
  BY InvShows DEF SessionInv
<1> QED BY <1>1, SessionInvariance, PTL

-----------------------------------------------------------------------------
(* The refinement of OrderedResponses.                                     *)

LEMMA StepImplements ==
    IInv /\ [Next]_vars => [Responses!ResponsesNext]_(Responses!responseVars)
<1> DEFINE answering == IF rpc = "respond" THEN next ELSE 0
           gone == (dpc = "gone")
<1> SUFFICES ASSUME IInv, [Next]_vars
             PROVE  \/ Responses!ResponsesNext
                    \/ sent' = sent /\ closed' = closed /\ answering' = answering /\ gone' = gone
  BY DEF Responses!responseVars
<1> USE DEF IInv
<1>a. next \in Nat /\ sent \in Nat /\ closed \in Nat /\ next <= sent
  BY TailFacts, RequestFacts DEF TypeOK, ListOK
<1>1. ASSUME NEW n \in 0 .. MaxPieces, Send(n) PROVE Responses!Accept
  BY <1>1 DEF Send, respVars, endVars, EndOK, Responses!Accept
<1>2. ASSUME NEW r \in Requests, PieceDone(r)
      PROVE  sent' = sent /\ closed' = closed /\ answering' = answering /\ gone' = gone
  BY <1>2 DEF PieceDone, respVars, endVars
<1>3. ASSUME NEW r \in Requests, CheckAndResponse(r)
      PROVE  sent' = sent /\ closed' = closed /\ answering' = answering /\ gone' = gone
  <2>1. sent' = sent /\ closed' = closed /\ answering' = answering
    BY <1>3 DEF CheckAndResponse, StartResponder, respVars, AnswerOK, InHand
  <2>2. (dpc' = "gone") = (dpc = "gone")
    BY <1>3 DEF CheckAndResponse, NotifySync
  <2> QED BY <2>1, <2>2
<1>4. CASE Respond
  <2>1. /\ rpc = "take" /\ closed = next - 1 /\ UNCHANGED <<sent, next, dpc>> /\ next # 0
        /\ \/ rpc' = "delete" /\ closed' = closed + 1
           \/ rpc' = "respond" /\ closed' = closed
    BY <1>4 DEF Respond, Responder, AnswerOK, InHand, endVars
  <2>2. closed < sent /\ closed + 1 = next
    BY <2>1, <1>a
  <2>3. Responses!Answer \/ Responses!Dismiss
    BY <2>1, <2>2 DEF Responses!Answer, Responses!Dismiss
  <2> QED BY <2>3 DEF Responses!ResponsesNext
<1>5. CASE Responded
  <2>1. Responses!Answered
    BY <1>5 DEF Responded, Responder, AnswerOK, InHand, endVars, Responses!Answered
  <2> QED BY <2>1 DEF Responses!ResponsesNext
<1>6. CASE Delete \/ LastAnswered \/ NextAnswer \/ NoAnswer \/ ClearResponse
  <2>1. sent' = sent /\ closed' = closed /\ rpc # "respond" /\ rpc' # "respond"
    BY <1>6 DEF Delete, LastAnswered, NextAnswer, NoAnswer, ClearResponse, Responder
  <2>2. (dpc' = "gone") = (dpc = "gone")
    BY <1>6 DEF Delete, LastAnswered, NextAnswer, NoAnswer, ClearResponse, NotifySync,
                endVars
  <2> QED BY <2>1, <2>2
<1>7. ASSUME NEW t \in Tags, DiscardTask(t) \/ WaitTaskDone(t) \/ WaitReturn(t)
      PROVE  sent' = sent /\ closed' = closed /\ answering' = answering /\ gone' = gone
  BY <1>7 DEF DiscardTask, WaitTaskDone, WaitReturn, respVars, endVars
<1>8. CASE Destroy \/ DestroyCheck \/ SpuriousWake
  <2>1. sent' = sent /\ closed' = closed /\ answering' = answering
    BY <1>8 DEF Destroy, DestroyCheck, SpuriousWake, respVars
  <2>2. CASE dpc' = "gone"
    <3>1. request_list = << >> /\ rpc = "none" /\ next = closed
      BY <1>8, <2>2 DEF Destroy, DestroyCheck, SpuriousWake, AnswerOK, InHand
    <3>2. closed = sent /\ gone' = TRUE
      BY <1>a, <2>2, <3>1 DEF ListOK
    <3> QED BY <2>1, <3>2 DEF Responses!Vanish, Responses!ResponsesNext
  <2>3. CASE dpc' # "gone"
    BY <1>8, <2>1, <2>3 DEF Destroy, DestroyCheck, SpuriousWake
  <2> QED BY <2>2, <2>3
<1>9. CASE UNCHANGED vars
  BY <1>9 DEF vars
<1> QED BY <1>1, <1>2, <1>3, <1>4, <1>5, <1>6, <1>7, <1>8, <1>9
        DEF Next, Engine, ResponderStep, Responses!ResponsesNext

\* In whatever order the engine finishes the requests, a session answers or
\* discards them one at a time in the order they were sent, and it is destroyed
\* only when none is left: Session implements OrderedResponses.
THEOREM ImplementsResponses == Spec => ResponsesSpec
<1>1. Init => Responses!ResponsesInit
  BY DEF Init, Responses!ResponsesInit
<1> QED BY <1>1, SessionInvariance, StepImplements, PTL
        DEF Spec, ResponsesSpec, Responses!ResponsesSpec

-----------------------------------------------------------------------------
(* The cache of an executor.                                               *)

LEMMA BatchFacts ==
    /\ BatchSize \in Nat \ {0} /\ Pieces \in [Senders -> Nat \ {0}]
    /\ Senders \subseteq Nat /\ 0 \notin Senders
BY BatchCacheAssumption DEF BatchCacheAssumption, Senders

-----------------------------------------------------------------------------
(* Batches of size m cut from a list of n: what the b-th holds.            *)

LEMMA Product ==
    ASSUME NEW a \in Int, NEW b \in Int, NEW m \in Nat, a <= b
    PROVE  a * m \in Int /\ b * m \in Int /\ a * m <= b * m
OBVIOUS

LEMMA Quotient ==
    ASSUME NEW n \in Nat, NEW m \in Nat \ {0}
    PROVE  /\ n \div m \in Nat
           /\ (n \div m) * m <= n /\ n < (n \div m) * m + m
OBVIOUS

LEMMA CutOnce ==
    ASSUME NEW m \in Nat \ {0}, NEW a \in Int, NEW b \in Int,
           NEW i \in 1 .. m, NEW j \in 1 .. m, a * m + i = b * m + j
    PROVE  a = b /\ i = j
<1>1. ASSUME a < b PROVE FALSE
  <2>1. (a + 1) * m <= b * m /\ (a + 1) * m = a * m + m
    BY <1>1, Product
  <2> QED BY <2>1
<1>2. ASSUME b < a PROVE FALSE
  <2>1. (b + 1) * m <= a * m /\ (b + 1) * m = b * m + m
    BY <1>2, Product
  <2> QED BY <2>1
<1> QED BY <1>1, <1>2

\* q batches of size m, the last of which may be smaller, hold n.
Cuts(n, m, q) ==
    /\ q \in Nat
    /\ \A b \in 1 .. q : /\ (b - 1) * m \in Nat /\ (b - 1) * m < n
                         /\ b * m = (b - 1) * m + m
    /\ \A k \in 1 .. n : \E b \in 1 .. q, i \in 1 .. m : k = (b - 1) * m + i

LEMMA CutAll ==
    ASSUME NEW n \in Nat, NEW m \in Nat \ {0}
    PROVE  Cuts(n, m, (n + m - 1) \div m)
<1> DEFINE q == (n + m - 1) \div m
<1>1. q \in Nat /\ q * m <= n + m - 1 /\ n + m - 1 < q * m + m
  <2>1. n + m - 1 \in Nat
    OBVIOUS
  <2> QED BY <2>1, Quotient
<1>2. ASSUME NEW b \in 1 .. q
      PROVE  (b - 1) * m \in Nat /\ (b - 1) * m < n /\ b * m = (b - 1) * m + m
  <2>1. b * m = (b - 1) * m + m
    OBVIOUS
  <2>2. b * m <= q * m
    BY <1>1, Product
  <2>3. 0 * m <= (b - 1) * m /\ (b - 1) * m \in Int
    BY Product
  <2> QED BY <1>1, <2>1, <2>2, <2>3
<1>3. ASSUME NEW k \in 1 .. n
      PROVE  \E b \in 1 .. q, i \in 1 .. m : k = (b - 1) * m + i
  <2> DEFINE c == (k - 1) \div m
  <2>1. c \in Nat /\ c * m <= k - 1 /\ k - 1 < c * m + m /\ c * m \in Int
    BY Quotient
  <2> HIDE DEF c
  <2>2. k - c * m \in 1 .. m
    BY <2>1
  <2>3. c + 1 \in 1 .. q
    <3>1. ASSUME q <= c PROVE FALSE
      <4>1. q * m <= c * m
        BY <1>1, <2>1, <3>1, Product
      <4> QED BY <1>1, <2>1, <4>1
    <3> QED BY <1>1, <2>1, <3>1
  <2>4. (c + 1) - 1 = c /\ k = c * m + (k - c * m)
    BY <2>1
  <2> QED BY <2>2, <2>3, <2>4
<1> HIDE DEF q
<1> QED BY <1>1, <1>2, <1>3 DEF Cuts, q

-----------------------------------------------------------------------------
(* Lists of batches.                                                       *)

\* No piece is in two places of c.
Uniq(c) == \A x, y \in Positions(c) : PieceAt(c, x) = PieceAt(c, y) => x = y

LEMMA ContentFacts ==
    ASSUME NEW S, NEW c \in Seq(Seq(S))
    PROVE  /\ \A p : p \in Content(c) <=> \E i \in DOMAIN c : p \in ToSet(c[i])
           /\ Content(c) \subseteq S
           /\ Uniq(c) <=> /\ \A i \in DOMAIN c : IsInjective(c[i])
                          /\ \A i, j \in DOMAIN c :
                                i # j => ToSet(c[i]) \intersect ToSet(c[j]) = {}
<1>1. \A i \in DOMAIN c : \A k \in DOMAIN c[i] :
         <<i, k>> \in Positions(c) /\ PieceAt(c, <<i, k>>) = c[i][k] /\ c[i][k] \in S
  <2>1. \A i \in DOMAIN c : c[i] \in Seq(S)
    OBVIOUS
  <2>2. \A i \in DOMAIN c : \A k \in DOMAIN c[i] : c[i][k] \in S
    BY <2>1
  <2> QED BY <2>2 DEF Positions, PieceAt
<1>2. \A x \in Positions(c) : \E i \in DOMAIN c : \E k \in DOMAIN c[i] : x = <<i, k>>
  BY DEF Positions
<1>3. ASSUME NEW p
      PROVE  p \in Content(c) <=> \E i \in DOMAIN c : p \in ToSet(c[i])
  <2>1. ASSUME p \in Content(c) PROVE \E i \in DOMAIN c : p \in ToSet(c[i])
    <3>1. PICK x \in Positions(c) : p = PieceAt(c, x)
      BY <2>1 DEF Content
    <3>2. PICK i \in DOMAIN c : \E k \in DOMAIN c[i] : x = <<i, k>>
      BY <1>2
    <3>3. PICK k \in DOMAIN c[i] : x = <<i, k>>
      BY <3>2
    <3>4. p = c[i][k]
      BY <3>1, <3>3 DEF PieceAt
    <3> QED BY <3>4 DEF ToSet
  <2>2. ASSUME NEW i \in DOMAIN c, p \in ToSet(c[i]) PROVE p \in Content(c)
    <3>1. PICK k \in DOMAIN c[i] : p = c[i][k]
      BY <2>2 DEF ToSet
    <3> QED BY <1>1, <3>1 DEF Content
  <2> QED BY <2>1, <2>2
<1>4. Content(c) \subseteq S
  BY <1>1, <1>2 DEF Content
<1>5. ASSUME Uniq(c)
      PROVE  /\ \A i \in DOMAIN c : IsInjective(c[i])
             /\ \A i, j \in DOMAIN c :
                   i # j => ToSet(c[i]) \intersect ToSet(c[j]) = {}
  <2>1. ASSUME NEW i \in DOMAIN c, NEW j \in DOMAIN c,
               NEW k \in DOMAIN c[i], NEW l \in DOMAIN c[j], c[i][k] = c[j][l]
        PROVE  i = j /\ k = l
    <3>1. /\ <<i, k>> \in Positions(c) /\ PieceAt(c, <<i, k>>) = c[i][k]
          /\ <<j, l>> \in Positions(c) /\ PieceAt(c, <<j, l>>) = c[j][l]
      BY <1>1
    <3>2. PieceAt(c, <<i, k>>) = PieceAt(c, <<j, l>>)
      BY <2>1, <3>1
    <3>3. <<i, k>> = <<j, l>>
      BY <1>5, <3>1, <3>2, Zenon DEF Uniq
    <3> QED BY <3>3
  <2>2. \A i \in DOMAIN c : IsInjective(c[i])
    BY <2>1 DEF IsInjective
  <2>3. \A i, j \in DOMAIN c : i # j => ToSet(c[i]) \intersect ToSet(c[j]) = {}
    BY <2>1 DEF ToSet
  <2> QED BY <2>2, <2>3
<1>6. ASSUME \A i \in DOMAIN c : IsInjective(c[i]),
             \A i, j \in DOMAIN c : i # j => ToSet(c[i]) \intersect ToSet(c[j]) = {}
      PROVE  Uniq(c)
  <2> SUFFICES ASSUME NEW x \in Positions(c), NEW y \in Positions(c),
                      PieceAt(c, x) = PieceAt(c, y)
               PROVE  x = y
    BY DEF Uniq
  <2>1. PICK i \in DOMAIN c : \E k \in DOMAIN c[i] : x = <<i, k>>
    BY <1>2
  <2>2. PICK k \in DOMAIN c[i] : x = <<i, k>>
    BY <2>1
  <2>3. PICK j \in DOMAIN c : \E l \in DOMAIN c[j] : y = <<j, l>>
    BY <1>2
  <2>4. PICK l \in DOMAIN c[j] : y = <<j, l>>
    BY <2>3
  <2>5. c[i][k] = c[j][l]
    BY <2>2, <2>4 DEF PieceAt
  <2>6. c[i][k] \in ToSet(c[i]) /\ c[j][l] \in ToSet(c[j])
    BY DEF ToSet
  <2>7. i = j
    BY <1>6, <2>5, <2>6
  <2>8. k = l
    BY <1>6, <2>5, <2>7 DEF IsInjective
  <2> QED BY <2>2, <2>4, <2>7, <2>8
<1> QED BY <1>3, <1>4, <1>5, <1>6

LEMMA ListAppend ==
    ASSUME NEW S, NEW s \in Seq(S), NEW x \in S
    PROVE  /\ Append(s, x) \in Seq(S) /\ Len(s) \in Nat /\ DOMAIN s = 1 .. Len(s)
           /\ Len(Append(s, x)) = Len(s) + 1
           /\ DOMAIN Append(s, x) = DOMAIN s \union {Len(s) + 1}
           /\ Len(s) + 1 \notin DOMAIN s
           /\ \A i \in DOMAIN s : Append(s, x)[i] = s[i]
           /\ Append(s, x)[Len(s) + 1] = x
           /\ ToSet(Append(s, x)) = ToSet(s) \union {x}
           /\ IsInjective(s) /\ x \notin ToSet(s) => IsInjective(Append(s, x))
<1> DEFINE t == Append(s, x)
<1>1. /\ t \in Seq(S) /\ DOMAIN t = 1 .. Len(s) + 1 /\ DOMAIN s = 1 .. Len(s)
      /\ Len(s) \in Nat /\ Len(t) = Len(s) + 1 /\ t[Len(s) + 1] = x
      /\ \A i \in 1 .. Len(s) : t[i] = s[i]
  OBVIOUS
<1> HIDE DEF t
<1>2. DOMAIN t = DOMAIN s \union {Len(s) + 1} /\ Len(s) + 1 \notin DOMAIN s
  BY <1>1
<1>3. ToSet(t) = ToSet(s) \union {x}
  BY <1>1, <1>2 DEF ToSet
<1>4. ASSUME IsInjective(s), x \notin ToSet(s) PROVE IsInjective(t)
  <2>1. \A i \in DOMAIN s : s[i] # x
    BY <1>4 DEF ToSet
  <2> QED BY <1>1, <1>2, <1>4, <2>1 DEF IsInjective
<1> QED BY <1>1, <1>2, <1>3, <1>4 DEF t

LEMMA ListTail ==
    ASSUME NEW S, NEW s \in Seq(S), s # << >>
    PROVE  /\ Head(s) \in S /\ Tail(s) \in Seq(S) /\ Head(s) = s[1] /\ 1 \in DOMAIN s
           /\ \A i \in DOMAIN Tail(s) : i + 1 \in DOMAIN s /\ Tail(s)[i] = s[i + 1]
                                        /\ i \in Nat /\ i # 0
           /\ \A i \in DOMAIN s : \/ i = 1
                                  \/ i - 1 \in DOMAIN Tail(s) /\ Tail(s)[i - 1] = s[i]
<1> DEFINE t == Tail(s)
<1>1. /\ t \in Seq(S) /\ DOMAIN t = 1 .. Len(s) - 1 /\ DOMAIN s = 1 .. Len(s)
      /\ Len(s) \in Nat \ {0} /\ Head(s) = s[1] /\ s[1] \in S
      /\ \A i \in 1 .. Len(s) - 1 : t[i] = s[i + 1]
  OBVIOUS
<1> HIDE DEF t
<1>2. \A i \in DOMAIN t : i + 1 \in DOMAIN s /\ t[i] = s[i + 1] /\ i \in Nat /\ i # 0
  BY <1>1
<1>3. \A i \in DOMAIN s : \/ i = 1
                          \/ i - 1 \in DOMAIN t /\ t[i - 1] = s[i]
  <2>1. ASSUME NEW i \in 1 .. Len(s), i # 1
        PROVE  i - 1 \in 1 .. Len(s) - 1 /\ (i - 1) + 1 = i
    BY <1>1, <2>1
  <2> QED BY <1>1, <2>1
<1>4. 1 \in DOMAIN s
  BY <1>1
<1> QED BY <1>1, <1>2, <1>3, <1>4 DEF t

\* A batch comes to the list ...
LEMMA ContentAppend ==
    ASSUME NEW S, NEW c \in Seq(Seq(S)), NEW b \in Seq(S)
    PROVE  /\ Append(c, b) \in Seq(Seq(S))
           /\ Content(Append(c, b)) = Content(c) \union ToSet(b)
           /\ Uniq(c) /\ IsInjective(b) /\ ToSet(b) \intersect Content(c) = {}
              => Uniq(Append(c, b))
           /\ ToSet(Append(c, b)) = ToSet(c) \union {b}
<1> DEFINE d == Append(c, b)
           l == Len(c) + 1
<1>1. /\ d \in Seq(Seq(S)) /\ DOMAIN d = DOMAIN c \union {l} /\ l \notin DOMAIN c
      /\ \A i \in DOMAIN c : d[i] = c[i]
      /\ d[l] = b /\ ToSet(d) = ToSet(c) \union {b}
  <2>1. b \in Seq(S)
    OBVIOUS
  <2> HIDE DEF l
  <2> QED BY <2>1, ListAppend DEF l
<1> HIDE DEF d, l
<1>2. \A p : p \in Content(c) <=> \E i \in DOMAIN c : p \in ToSet(c[i])
  BY ContentFacts
<1>3. \A p : p \in Content(d) <=> \E i \in DOMAIN d : p \in ToSet(d[i])
  BY <1>1, ContentFacts
<1>4. Content(d) = Content(c) \union ToSet(b)
  BY <1>1, <1>2, <1>3
<1>5. ASSUME Uniq(c), IsInjective(b), ToSet(b) \intersect Content(c) = {}
      PROVE  Uniq(d)
  <2>1. /\ \A i \in DOMAIN c : IsInjective(c[i])
        /\ \A i, j \in DOMAIN c : i # j => ToSet(c[i]) \intersect ToSet(c[j]) = {}
    BY <1>5, ContentFacts
  <2>2. \A i \in DOMAIN d : IsInjective(d[i])
    BY <1>1, <1>5, <2>1
  <2>3. \A i \in DOMAIN c : ToSet(c[i]) \intersect ToSet(b) = {}
    BY <1>2, <1>5
  <2>4. \A i, j \in DOMAIN d : i # j => ToSet(d[i]) \intersect ToSet(d[j]) = {}
    BY <1>1, <2>1, <2>3
  <2> QED BY <1>1, <2>2, <2>4, ContentFacts
<1> QED BY <1>1, <1>4, <1>5 DEF d

\* ... and leaves it.
LEMMA ContentTail ==
    ASSUME NEW S, NEW c \in Seq(Seq(S)), c # << >>
    PROVE  /\ Head(c) \in Seq(S) /\ Tail(c) \in Seq(Seq(S))
           /\ Content(c) = Content(Tail(c)) \union ToSet(Head(c))
           /\ ToSet(c) = ToSet(Tail(c)) \union {Head(c)}
           /\ Uniq(c) => /\ Content(Tail(c)) \intersect ToSet(Head(c)) = {}
                         /\ Uniq(Tail(c)) /\ IsInjective(Head(c))
<1> DEFINE t == Tail(c)
           h == Head(c)
<1>1. /\ h \in Seq(S) /\ t \in Seq(Seq(S)) /\ h = c[1] /\ 1 \in DOMAIN c
      /\ \A i \in DOMAIN t : i + 1 \in DOMAIN c /\ t[i] = c[i + 1]
                             /\ i \in Nat /\ i # 0
      /\ \A i \in DOMAIN c : i = 1 \/ (i - 1 \in DOMAIN t /\ t[i - 1] = c[i])
  BY ListTail
<1> HIDE DEF t, h
<1>2. \A p : p \in Content(c) <=> \E i \in DOMAIN c : p \in ToSet(c[i])
  BY ContentFacts
<1>3. \A p : p \in Content(t) <=> \E i \in DOMAIN t : p \in ToSet(t[i])
  BY <1>1, ContentFacts
<1>4. Content(c) = Content(t) \union ToSet(h)
  BY <1>1, <1>2, <1>3
<1>5. ToSet(c) = ToSet(t) \union {h}
  <2>1. ASSUME NEW i \in DOMAIN c PROVE c[i] \in ToSet(t) \union {h}
    BY <1>1 DEF ToSet
  <2>2. ASSUME NEW i \in DOMAIN t PROVE t[i] \in ToSet(c)
    BY <1>1 DEF ToSet
  <2>3. h \in ToSet(c)
    BY <1>1 DEF ToSet
  <2>4. ToSet(c) \subseteq ToSet(t) \union {h}
    BY <2>1 DEF ToSet
  <2>5. ToSet(t) \subseteq ToSet(c)
    BY <2>2 DEF ToSet
  <2> QED BY <2>3, <2>4, <2>5
<1>6. ASSUME Uniq(c)
      PROVE  Content(t) \intersect ToSet(h) = {} /\ Uniq(t) /\ IsInjective(h)
  <2>1. /\ \A i \in DOMAIN c : IsInjective(c[i])
        /\ \A i, j \in DOMAIN c : i # j => ToSet(c[i]) \intersect ToSet(c[j]) = {}
    BY <1>6, ContentFacts
  <2>2. \A i \in DOMAIN t : i + 1 # 1
    BY <1>1
  <2>3. Content(t) \intersect ToSet(h) = {}
    BY <1>1, <1>3, <2>1, <2>2
  <2>4. \A i \in DOMAIN t : IsInjective(t[i])
    BY <1>1, <2>1
  <2>5. ASSUME NEW i \in DOMAIN t, NEW j \in DOMAIN t, i # j
        PROVE  ToSet(t[i]) \intersect ToSet(t[j]) = {}
    <3>1. i + 1 # j + 1
      BY <1>1, <2>5
    <3> QED BY <1>1, <2>1, <3>1
  <2> QED BY <1>1, <2>1, <2>3, <2>4, <2>5, ContentFacts
<1> QED BY <1>1, <1>4, <1>5, <1>6 DEF t, h

-----------------------------------------------------------------------------
(* Ranks: R[x] is the set of the elements of S up to x.                    *)

LEMMA RankBijection ==
    ASSUME NEW S, IsFiniteSet(S), NEW R \in [S -> SUBSET S],
           \A x \in S : x \in R[x],
           \A x, y \in S : x # y => \/ R[x] \subseteq R[y] /\ y \notin R[x]
                                    \/ R[y] \subseteq R[x] /\ x \notin R[y]
    PROVE  /\ Cardinality(S) \in Nat
           /\ \A x \in S : Cardinality(R[x]) \in 1 .. Cardinality(S)
           /\ \A x, y \in S : Cardinality(R[x]) = Cardinality(R[y]) => x = y
           /\ \A k \in 1 .. Cardinality(S) : \E x \in S : Cardinality(R[x]) = k
<1> DEFINE n == Cardinality(S)
           f == [x \in S |-> Cardinality(R[x])]
<1>1. n \in Nat
  BY FS_CardinalityType
<1>2. ASSUME NEW x \in S
      PROVE  IsFiniteSet(R[x]) /\ Cardinality(R[x]) \in 1 .. n
  <2>1. IsFiniteSet(R[x]) /\ Cardinality(R[x]) <= n
    BY FS_Subset
  <2>2. Cardinality(R[x]) \in Nat /\ Cardinality(R[x]) # 0
    BY <2>1, FS_CardinalityType, FS_EmptySet
  <2> QED BY <1>1, <2>1, <2>2
<1>3. ASSUME NEW x \in S, NEW y \in S, R[x] \subseteq R[y], y \notin R[x]
      PROVE  Cardinality(R[x]) # Cardinality(R[y])
  BY <1>2, <1>3, FS_Subset
<1>4. \A x, y \in S : Cardinality(R[x]) = Cardinality(R[y]) => x = y
  BY <1>3
<1>5. f \in Injection(S, 1 .. n)
  BY <1>2, <1>4 DEF Injection, IsInjective
<1>6. IsFiniteSet(1 .. n) /\ Cardinality(1 .. n) = n
  BY <1>1, FS_Interval
<1>7. f \in Surjection(S, 1 .. n)
  <2> HIDE DEF f
  <2> QED BY <1>5, <1>6, FS_Injection
<1>8. \A k \in 1 .. n : \E x \in S : f[x] = k
  BY <1>7 DEF Surjection
<1> QED BY <1>1, <1>2, <1>4, <1>8

\* The places in a list of batches are finitely many, and in a linear order.
LEMMA PositionFacts ==
    ASSUME NEW S, NEW c \in Seq(Seq(S))
    PROVE  /\ IsFiniteSet(Positions(c)) /\ Positions(c) \subseteq Nat \X Nat
           /\ \A x \in Positions(c) : PieceAt(c, x) \in S
<1> DEFINE P(i) == {i} \X DOMAIN c[i]
           T == {P(i) : i \in DOMAIN c}
           f == [i \in DOMAIN c |-> P(i)]
<1>1. /\ DOMAIN c = 1 .. Len(c) /\ Len(c) \in Nat
      /\ \A i \in DOMAIN c : c[i] \in Seq(S)
  OBVIOUS
<1>2. \A i \in DOMAIN c : DOMAIN c[i] = 1 .. Len(c[i]) /\ Len(c[i]) \in Nat
  BY <1>1
<1>3. IsFiniteSet(DOMAIN c)
  BY <1>1, FS_Interval
<1>4. f \in Surjection(DOMAIN c, T)
  BY DEF Surjection
<1>5. IsFiniteSet(T)
  <2> HIDE DEF f, T
  <2> QED BY <1>3, <1>4, FS_Surjection
<1>6. ASSUME NEW i \in DOMAIN c PROVE IsFiniteSet(P(i))
  <2>1. IsFiniteSet({i}) /\ IsFiniteSet(DOMAIN c[i])
    <3>1. IsFiniteSet({i})
      BY FS_Singleton
    <3> DEFINE m == Len(c[i])
    <3>2. DOMAIN c[i] = 1 .. m /\ m \in Nat
      BY <1>2
    <3> HIDE DEF m
    <3>3. IsFiniteSet(1 .. m)
      BY <3>2, FS_Interval
    <3> QED BY <3>1, <3>2, <3>3
  <2> QED BY <2>1, FS_Product
<1>7. IsFiniteSet(UNION T)
  BY <1>5, <1>6, FS_UNION
<1>8. \A x \in Positions(c) : \E i \in DOMAIN c : \E k \in DOMAIN c[i] : x = <<i, k>>
  BY DEF Positions
<1>9. Positions(c) \subseteq Nat \X Nat
  BY <1>1, <1>2, <1>8
<1>10. \A x \in Positions(c) : PieceAt(c, x) \in S
  BY <1>1, <1>8 DEF PieceAt
<1> QED BY <1>7, <1>9, <1>10 DEF Positions

LEMMA PositionRanks ==
    ASSUME NEW at, IsFiniteSet(at), at \subseteq Nat \X Nat,
           NEW Nth,
           \A k \in 1 .. Cardinality(at), x \in at :
              Cardinality(Upto(at, x)) = k
              => Nth[k] \in at /\ Cardinality(Upto(at, Nth[k])) = k
    PROVE  /\ Cardinality(at) \in Nat
           /\ \A k \in 1 .. Cardinality(at) : Nth[k] \in at
           /\ \A k, l \in 1 .. Cardinality(at) : Nth[k] = Nth[l] => k = l
           /\ \A x \in at : \E k \in 1 .. Cardinality(at) : Nth[k] = x
<1> DEFINE upto == [x \in at |-> Upto(at, x)]
           n == Cardinality(at)
<1>1. /\ upto \in [at -> SUBSET at]
      /\ \A x \in at : x \in upto[x]
      /\ \A x, y \in at : x # y => \/ upto[x] \subseteq upto[y] /\ y \notin upto[x]
                                   \/ upto[y] \subseteq upto[x] /\ x \notin upto[y]
  <2>1. \A x \in at : x[1] \in Nat /\ x[2] \in Nat /\ x = <<x[1], x[2]>>
    OBVIOUS
  <2>2. \A x \in at : NotAfter(x, x)
    BY <2>1 DEF NotAfter
  <2>3. ASSUME NEW x \in at, NEW y \in at, x # y
        PROVE  \/ upto[x] \subseteq upto[y] /\ y \notin upto[x]
               \/ upto[y] \subseteq upto[x] /\ x \notin upto[y]
    <3>1. \/ NotAfter(x, y) /\ ~NotAfter(y, x)
          \/ NotAfter(y, x) /\ ~NotAfter(x, y)
      <4>1. x[1] # y[1] \/ x[2] # y[2]
        BY <2>1, <2>3
      <4> QED BY <2>1, <4>1 DEF NotAfter
    <3>2. \A u, v, w \in at : NotAfter(u, v) /\ NotAfter(v, w) => NotAfter(u, w)
      BY <2>1 DEF NotAfter
    <3> QED BY <3>1, <3>2 DEF Upto
  <2> QED BY <2>2, <2>3 DEF Upto
<1>2. /\ n \in Nat
      /\ \A x \in at : Cardinality(upto[x]) \in 1 .. n
      /\ \A x, y \in at : Cardinality(upto[x]) = Cardinality(upto[y]) => x = y
      /\ \A k \in 1 .. n : \E x \in at : Cardinality(upto[x]) = k
  <2> HIDE DEF upto
  <2> QED BY <1>1, RankBijection DEF n
<1>3. ASSUME NEW k \in 1 .. n PROVE Nth[k] \in at /\ Cardinality(upto[Nth[k]]) = k
  <2>1. PICK x \in at : Cardinality(upto[x]) = k
    BY <1>2
  <2>2. Cardinality(Upto(at, x)) = k
    BY <2>1
  <2>3. Nth[k] \in at /\ Cardinality(Upto(at, Nth[k])) = k
    BY <2>2
  <2> QED BY <2>3
<1> HIDE DEF upto, n
<1>4. ASSUME NEW x \in at PROVE \E k \in 1 .. n : Nth[k] = x
  <2>1. Cardinality(upto[x]) \in 1 .. n
    BY <1>2
  <2>2. Nth[Cardinality(upto[x])] = x
    BY <1>2, <1>3, <2>1
  <2> QED BY <2>1, <2>2
<1>5. \A k, l \in 1 .. n : Nth[k] = Nth[l] => k = l
  BY <1>3
<1> QED BY <1>2, <1>3, <1>4, <1>5 DEF n

\* Rebatching keeps what is not discarded, each piece once.
LEMMA RebatchFacts ==
    ASSUME cache \in Seq(Seq(AllPieces)), Uniq(cache)
    PROVE  /\ Rebatched \in Seq(Seq(AllPieces)) /\ Uniq(Rebatched)
           /\ Content(Rebatched) = Content(cache) \ Discarded
           /\ \A b \in ToSet(Rebatched) : Len(b) \in 1 .. BatchSize
<1> DEFINE at == {x \in Positions(cache) : ~IsDiscarded(PieceAt(cache, x))}
           n == Cardinality(at)
           q == (n + BatchSize - 1) \div BatchSize
           Nth == [k \in 1 .. n |-> CHOOSE x \in at :
                                       Cardinality(Upto(at, x)) = k]
           p == [k \in 1 .. n |-> PieceAt(cache, Nth[k])]
           Size(b) == IF b * BatchSize <= n THEN BatchSize
                                            ELSE n - (b - 1) * BatchSize
           cut == [b \in 1 .. q |-> [i \in 1 .. Size(b) |-> p[(b - 1) * BatchSize + i]]]
<1>1. /\ IsFiniteSet(at) /\ at \subseteq Nat \X Nat
      /\ \A x \in at : PieceAt(cache, x) \in AllPieces
  <2>1. /\ IsFiniteSet(Positions(cache)) /\ Positions(cache) \subseteq Nat \X Nat
        /\ \A x \in Positions(cache) : PieceAt(cache, x) \in AllPieces
    BY PositionFacts
  <2>2. IsFiniteSet(at)
    BY <2>1, FS_Subset
  <2> QED BY <2>1, <2>2
<1>2. /\ n \in Nat /\ \A k \in 1 .. n : Nth[k] \in at
      /\ \A k, l \in 1 .. n : Nth[k] = Nth[l] => k = l
      /\ \A x \in at : \E k \in 1 .. n : Nth[k] = x
  <2>1. ASSUME NEW k \in 1 .. n, NEW x \in at, Cardinality(Upto(at, x)) = k
        PROVE  Nth[k] \in at /\ Cardinality(Upto(at, Nth[k])) = k
    <3> HIDE DEF at, n
    <3>1. Nth[k] = CHOOSE y \in at : Cardinality(Upto(at, y)) = k
      OBVIOUS
    <3> HIDE DEF Nth
    <3> QED BY <2>1, <3>1
  <2> HIDE DEF at, Nth
  <2> QED BY <1>1, <2>1, PositionRanks DEF n
<1>3. /\ p \in [1 .. n -> AllPieces]
      /\ \A k, l \in 1 .. n : p[k] = p[l] => k = l
      /\ {p[k] : k \in 1 .. n} = Content(cache) \ Discarded
  <2> HIDE DEF Nth, n
  <2>1. p \in [1 .. n -> AllPieces]
    BY <1>1, <1>2
  <2>2. \A k, l \in 1 .. n : p[k] = p[l] => k = l
    BY <1>2 DEF Uniq
  <2>3. ASSUME NEW k \in 1 .. n PROVE p[k] \in Content(cache) \ Discarded
    BY <1>2 DEF Content, Discarded
  <2>4. ASSUME NEW x \in Content(cache) \ Discarded PROVE \E k \in 1 .. n : p[k] = x
    <3>1. PICK y \in Positions(cache) : x = PieceAt(cache, y)
      BY DEF Content
    <3>2. y \in at
      BY <2>4, <3>1 DEF Discarded
    <3> QED BY <1>2, <3>1, <3>2
  <2> HIDE DEF p
  <2> QED BY <2>1, <2>2, <2>3, <2>4
<1>4. /\ q \in Nat
      /\ \A b \in 1 .. q : (b - 1) * BatchSize \in Nat /\ (b - 1) * BatchSize < n
                           /\ b * BatchSize = (b - 1) * BatchSize + BatchSize
      /\ \A k \in 1 .. n : \E b \in 1 .. q, i \in 1 .. BatchSize :
                              k = (b - 1) * BatchSize + i
  <2>1. Cuts(n, BatchSize, q)
    <3> HIDE DEF n
    <3> QED BY <1>2, BatchFacts, CutAll
  <2> HIDE DEF n, q
  <2> QED BY <2>1 DEF Cuts
<1> HIDE DEF at, n, q, Nth, p
<1>5. ASSUME NEW b \in 1 .. q
      PROVE  /\ Size(b) \in 1 .. BatchSize
             /\ \A i \in 1 .. Size(b) : (b - 1) * BatchSize + i \in 1 .. n
             /\ \A i \in 1 .. BatchSize : (b - 1) * BatchSize + i \in 1 .. n
                                          => i \in 1 .. Size(b)
  <2> DEFINE a == (b - 1) * BatchSize
             z == b * BatchSize
  <2>1. a \in Nat /\ a < n /\ z = a + BatchSize /\ n \in Nat /\ BatchSize \in Nat \ {0}
    BY <1>2, <1>4, BatchFacts
  <2>2. Size(b) = IF z <= n THEN BatchSize ELSE n - a
    OBVIOUS
  <2> HIDE DEF a, z, Size
  <2>3. /\ Size(b) \in 1 .. BatchSize
        /\ \A i \in 1 .. Size(b) : a + i \in 1 .. n
        /\ \A i \in 1 .. BatchSize : a + i \in 1 .. n => i \in 1 .. Size(b)
    BY <2>1, <2>2
  <2> QED BY <2>3 DEF a
<1>6. Rebatched = cut
  BY <1>5 DEF Rebatched, at, n, q, Nth, p
<1> HIDE DEF Size
<1>7. /\ cut \in Seq(Seq(AllPieces)) /\ DOMAIN cut = 1 .. q
      /\ \A b \in 1 .. q : /\ cut[b] \in Seq(AllPieces) /\ Len(cut[b]) = Size(b)
                           /\ DOMAIN cut[b] = 1 .. Size(b)
                           /\ \A i \in 1 .. Size(b) :
                                 cut[b][i] = p[(b - 1) * BatchSize + i]
  <2>1. ASSUME NEW b \in 1 .. q
        PROVE  /\ cut[b] \in Seq(AllPieces) /\ Len(cut[b]) = Size(b)
               /\ DOMAIN cut[b] = 1 .. Size(b)
               /\ \A i \in 1 .. Size(b) : cut[b][i] = p[(b - 1) * BatchSize + i]
    <3>1. /\ cut[b] = [i \in 1 .. Size(b) |-> p[(b - 1) * BatchSize + i]]
          /\ Size(b) \in Nat
      BY <1>5
    <3>2. \A i \in 1 .. Size(b) : p[(b - 1) * BatchSize + i] \in AllPieces
      BY <1>3, <1>5
    <3> QED BY <3>1, <3>2
  <2>2. DOMAIN cut = 1 .. q
    OBVIOUS
  <2> HIDE DEF cut
  <2>3. cut \in Seq(Seq(AllPieces))
    <3>1. cut = [b \in 1 .. q |-> cut[b]]
      BY DEF cut
    <3> QED BY <1>4, <2>1, <2>2, <3>1
  <2> QED BY <2>1, <2>2, <2>3
<1> HIDE DEF cut
<1>8. ASSUME NEW b \in 1 .. q, NEW c \in 1 .. q, NEW i \in 1 .. Size(b),
             NEW j \in 1 .. Size(c), cut[b][i] = cut[c][j]
      PROVE  b = c /\ i = j
  <2>1. p[(b - 1) * BatchSize + i] = p[(c - 1) * BatchSize + j]
    BY <1>7, <1>8
  <2>2. (b - 1) * BatchSize + i = (c - 1) * BatchSize + j
    BY <1>3, <1>5, <2>1
  <2>3. /\ b - 1 \in Int /\ c - 1 \in Int /\ BatchSize \in Nat \ {0}
        /\ i \in 1 .. BatchSize /\ j \in 1 .. BatchSize
    BY <1>4, <1>5, BatchFacts
  <2>4. b - 1 = c - 1 /\ i = j
    <3> DEFINE x == b - 1
               y == c - 1
    <3>1. x \in Int /\ y \in Int /\ x * BatchSize + i = y * BatchSize + j
      BY <2>2, <2>3
    <3> HIDE DEF x, y
    <3>2. x = y /\ i = j
      BY <2>3, <3>1, CutOnce
    <3> QED BY <3>2 DEF x, y
  <2> QED BY <1>4, <2>4
<1>9. Uniq(cut)
  <2>1. ASSUME NEW b \in DOMAIN cut PROVE IsInjective(cut[b])
    <3>1. b \in 1 .. q /\ DOMAIN cut[b] = 1 .. Size(b)
      BY <1>7
    <3>2. \A i, j \in 1 .. Size(b) : cut[b][i] = cut[b][j] => i = j
      BY <1>8, <3>1
    <3> QED BY <3>1, <3>2 DEF IsInjective
  <2>2. \A b, c \in DOMAIN cut : b # c => ToSet(cut[b]) \intersect ToSet(cut[c]) = {}
    BY <1>7, <1>8 DEF ToSet
  <2> QED BY <1>7, <2>1, <2>2, ContentFacts
<1>10. Content(cut) = Content(cache) \ Discarded
  <2>1. \A x : x \in Content(cut) <=> \E b \in DOMAIN cut : x \in ToSet(cut[b])
    BY <1>7, ContentFacts
  <2>2. ASSUME NEW x \in Content(cut) PROVE \E k \in 1 .. n : x = p[k]
    <3>1. PICK b \in 1 .. q : x \in ToSet(cut[b])
      BY <1>7, <2>1
    <3>2. PICK i \in 1 .. Size(b) : x = cut[b][i]
      BY <1>7, <3>1 DEF ToSet
    <3> QED BY <1>5, <1>7, <3>2
  <2>3. ASSUME NEW k \in 1 .. n PROVE p[k] \in Content(cut)
    <3>1. PICK b \in 1 .. q, i \in 1 .. BatchSize : k = (b - 1) * BatchSize + i
      BY <1>4
    <3>2. i \in 1 .. Size(b)
      BY <1>5, <3>1
    <3>3. p[k] = cut[b][i]
      BY <1>7, <3>1, <3>2
    <3>4. p[k] \in ToSet(cut[b])
      BY <1>7, <3>2, <3>3 DEF ToSet
    <3> QED BY <1>7, <2>1, <3>4
  <2> QED BY <1>3, <2>2, <2>3
<1>11. \A b \in ToSet(cut) : Len(b) \in 1 .. BatchSize
  BY <1>5, <1>7 DEF ToSet
<1> QED BY <1>6, <1>7, <1>9, <1>10, <1>11

-----------------------------------------------------------------------------
(* The inductive invariant.                                                *)

\* A thread holds no more than a batch, and the timer only between its Emit and
\* its push.
HandOK == /\ \A t \in Threads : Len(hand[t]) <= BatchSize
          /\ tpc # "push" => hand[Timer] = << >>

\* All that the threads hold.
InHands == UNION {Held(t) : t \in Threads}

BatchIInv == BatchTypeOK /\ Accounted /\ BatchHasAlarm /\ HandOK

LEMMA EmptyList ==
    ASSUME NEW S
    PROVE  /\ << >> \in Seq(S) /\ Len(<< >>) = 0 /\ ToSet(<< >>) = {}
           /\ IsInjective(<< >>) /\ Content(<< >>) = {} /\ Uniq(<< >>)
<1>1. << >> \in Seq(S) /\ Len(<< >>) = 0 /\ ToSet(<< >>) = {} /\ IsInjective(<< >>)
  BY DEF ToSet, IsInjective
<1>2. Positions(<< >>) = {}
  BY DEF Positions
<1> QED BY <1>1, <1>2 DEF Content, Uniq

LEMMA NotEmpty ==
    ASSUME NEW S, NEW s \in Seq(S)
    PROVE  /\ Len(s) \in Nat /\ (Len(s) = 0 <=> s = << >>)
           /\ s # << >> => \E x \in S : x \in ToSet(s)
<1>1. Len(s) \in Nat /\ (Len(s) = 0 <=> s = << >>)
  OBVIOUS
<1>2. ASSUME s # << >> PROVE \E x \in S : x \in ToSet(s)
  <2>1. 1 \in DOMAIN s /\ s[1] \in S
    BY <1>2
  <2> QED BY <2>1 DEF ToSet
<1> QED BY <1>1, <1>2

LEMMA BatchInvInit == BatchInit => BatchIInv
<1> SUFFICES ASSUME BatchInit PROVE BatchIInv
  OBVIOUS
<1> USE BatchFacts DEF BatchInit
<1>1. /\ << >> \in Seq(AllPieces) /\ Len(<< >>) = 0 /\ ToSet(<< >>) = {}
      /\ IsInjective(<< >>) /\ << >> \in Seq(Seq(AllPieces))
      /\ Content(<< >>) = {} /\ Uniq(<< >>)
  BY EmptyList
<1>2. BatchTypeOK
  <2>1. /\ added \in [Senders -> Nat] /\ \A r \in Senders : added[r] <= Pieces[r]
        /\ discarded \in [Senders -> BOOLEAN] /\ done \subseteq AllPieces
    OBVIOUS
  <2>2. hand \in [Threads -> Seq(AllPieces)]
    BY <1>1
  <2> QED BY <1>1, <2>1, <2>2 DEF BatchTypeOK
<1>3. Given = {}
  BY DEF Given
<1>4. \A t \in Threads : hand[t] = << >> /\ Held(t) = {}
  BY <1>1 DEF Held
<1>5. OnePlace
  BY <1>1, <1>4 DEF OnePlace
<1>6. Once
  BY <1>1, <1>4 DEF Once, Uniq
<1>7. Accounted
  BY <1>1, <1>3, <1>4, <1>5, <1>6 DEF Accounted, InHands
<1>8. BatchHasAlarm /\ HandOK
  BY <1>1, <1>4 DEF BatchHasAlarm, HandOK, Threads
<1> QED BY <1>2, <1>7, <1>8 DEF BatchIInv

LEMMA HandMoves ==
    ASSUME NEW t \in Threads, \A u \in Threads : u # t => hand'[u] = hand[u]
    PROVE  InHands' \union Held(t) = InHands \union Held(t)'
<1>1. \A u \in Threads : u # t => Held(u)' = Held(u)
  BY DEF Held
<1> HIDE DEF Held
<1>2. \A x : x \in InHands <=> \E u \in Threads : x \in Held(u)
  BY DEF InHands
<1>3. \A x : x \in InHands' <=> \E u \in Threads : x \in Held(u)'
  BY DEF InHands
<1> QED BY <1>1, <1>2, <1>3

\* What the invariant says of the places, for the steps that move pieces.
LEMMA PlaceFacts ==
    ASSUME BatchIInv
    PROVE  /\ added \in [Senders -> Nat] /\ \A r \in Senders : added[r] <= Pieces[r]
           /\ done \subseteq AllPieces /\ batch \in Seq(AllPieces)
           /\ cache \in Seq(Seq(AllPieces)) /\ hand \in [Threads -> Seq(AllPieces)]
           /\ Uniq(cache) /\ OnePlace /\ Once
           /\ Given = done \union ToSet(batch) \union Content(cache) \union InHands
           /\ \A t \in Threads : Held(t) \subseteq InHands
           /\ \A b \in ToSet(cache) : Len(b) \in 1 .. BatchSize
           /\ Len(batch) < BatchSize
           /\ \A t \in Threads : Len(hand[t]) <= BatchSize
           /\ cpc # "run" => /\ batch = << >> /\ cache = << >>
                             /\ \A t \in Threads : hand[t] = << >>
BY DEF BatchIInv, BatchTypeOK, Accounted, HandOK, Once, Uniq, InHands

\* The steps that move no piece.
LEMMA NothingMoves ==
    ASSUME BatchIInv, UNCHANGED <<added, done, batch, hand, cache, cpc>>
    PROVE  Accounted'
<1>1. Accounted
  BY DEF BatchIInv
<1>2. Given' = Given /\ Content(cache)' = Content(cache)
  BY DEF Given, Content, Positions, PieceAt
<1>3. \A t \in Threads : Held(t)' = Held(t)
  BY DEF Held
<1>4. OnePlace' /\ Once'
  BY <1>1, <1>2, <1>3 DEF Accounted, OnePlace, Once, Positions, PieceAt
<1> QED BY <1>1, <1>2, <1>3, <1>4 DEF Accounted, InHands

\* A batch goes to the cache.
LEMMA PushMoves ==
    ASSUME BatchIInv, NEW t \in Threads, Push(t), UNCHANGED <<added, done, batch, cpc>>
    PROVE  /\ Accounted'
           /\ hand' \in [Threads -> Seq(AllPieces)] /\ cache' \in Seq(Seq(AllPieces))
           /\ hand'[t] = << >> /\ \A u \in Threads : u # t => hand'[u] = hand[u]
<1>1. /\ hand[t] # << >> /\ cache' = Append(cache, hand[t])
      /\ hand' = [hand EXCEPT ![t] = << >>]
  BY DEF Push
<1>2. << >> \in Seq(AllPieces) /\ ToSet(<< >>) = {} /\ IsInjective(<< >>)
  BY EmptyList
<1>3. /\ hand' \in [Threads -> Seq(AllPieces)] /\ hand'[t] = << >>
      /\ \A u \in Threads : u # t => hand'[u] = hand[u]
  BY <1>1, <1>2, PlaceFacts
<1>4. /\ cache \in Seq(Seq(AllPieces)) /\ hand[t] \in Seq(AllPieces) /\ Uniq(cache)
      /\ IsInjective(hand[t]) /\ ToSet(hand[t]) \intersect Content(cache) = {}
      /\ Len(hand[t]) <= BatchSize
  BY PlaceFacts DEF Once, OnePlace, Held
<1>5. /\ cache' \in Seq(Seq(AllPieces)) /\ Uniq(cache')
      /\ Content(cache') = Content(cache) \union ToSet(hand[t])
      /\ ToSet(cache') = ToSet(cache) \union {hand[t]}
  BY <1>1, <1>4, ContentAppend
<1>6. Len(hand[t]) \in 1 .. BatchSize
  BY <1>1, <1>4, NotEmpty, BatchFacts
<1>7. \A u \in Threads : Held(u)' = IF u = t THEN {} ELSE Held(u)
  BY <1>2, <1>3 DEF Held
<1>8. OnePlace'
  BY <1>5, <1>7, PlaceFacts DEF OnePlace, Held
<1>9. Once'
  BY <1>2, <1>3, <1>5, PlaceFacts DEF Once, Uniq
<1>10. Given' = (done \union ToSet(batch) \union Content(cache) \union InHands)'
  <2>1. Given' = Given
    BY DEF Given
  <2>2. ToSet(hand[t]) = Held(t) /\ Held(t)' = {}
    BY <1>7 DEF Held
  <2>3. InHands' \union Held(t) = InHands
    BY <1>3, <2>2, HandMoves, PlaceFacts
  <2> QED BY <1>5, <2>1, <2>2, <2>3, PlaceFacts
<1>11. cpc = "run"
  BY <1>1, PlaceFacts
<1>12. Accounted'
  BY <1>5, <1>6, <1>8, <1>9, <1>10, <1>11, PlaceFacts DEF Accounted, InHands
<1> QED BY <1>3, <1>5, <1>12

\* A piece comes to the batcher, and a batch leaves it when it is full.
LEMMA AddMoves ==
    ASSUME BatchIInv, NEW r \in Senders, AddItem(r)
    PROVE  /\ Accounted'
           /\ added' \in [Senders -> Nat] /\ \A s \in Senders : added'[s] <= Pieces[s]
           /\ hand' \in [Threads -> Seq(AllPieces)] /\ batch' \in Seq(AllPieces)
           /\ Len(hand'[r]) <= BatchSize
           /\ \A u \in Threads : u # r => hand'[u] = hand[u]
<1> DEFINE p == <<r, added[r] + 1>>
           b == Append(batch, p)
<1>1. /\ cpc = "run" /\ added[r] < Pieces[r] /\ hand[r] = << >>
      /\ added' = [added EXCEPT ![r] = @ + 1]
      /\ IF IsFull(b)
         THEN batch' = << >> /\ hand' = [hand EXCEPT ![r] = b]
         ELSE batch' = b /\ UNCHANGED hand
      /\ UNCHANGED <<done, cache, cpc>>
  BY DEF AddItem
<1>2. r \in Threads
  BY DEF Threads
<1>3. /\ added' \in [Senders -> Nat] /\ added'[r] = added[r] + 1
      /\ \A s \in Senders : s # r => added'[s] = added[s]
      /\ \A s \in Senders : added'[s] <= Pieces[s]
  BY <1>1, PlaceFacts, BatchFacts
<1>4. p \in AllPieces /\ p \notin Given /\ Given' = Given \union {p}
  <2>1. added[r] \in Nat /\ added[r] + 1 \in 1 .. Pieces[r]
    BY <1>1, PlaceFacts, BatchFacts
  <2>2. 1 .. added'[r] = (1 .. added[r]) \union {added[r] + 1}
    BY <1>3, <2>1
  <2>3. added[r] + 1 \notin 1 .. added[r]
    BY <2>1
  <2>4. p \in AllPieces
    BY <2>1 DEF AllPieces
  <2>5. p \notin Given
    BY <2>3 DEF Given
  <2>6. \A s \in Senders : {s} \X (1 .. added'[s])
           = IF s = r THEN ({s} \X (1 .. added[s])) \union {p} ELSE {s} \X (1 .. added[s])
    BY <1>3, <2>2
  <2>7. Given' = Given \union {p}
    BY <2>6 DEF Given
  <2> QED BY <2>4, <2>5, <2>7
<1>5. /\ b \in Seq(AllPieces) /\ IsInjective(b) /\ ToSet(b) = ToSet(batch) \union {p}
      /\ Len(b) = Len(batch) + 1 /\ Len(batch) \in Nat /\ Len(batch) < BatchSize
  <2>1. batch \in Seq(AllPieces) /\ IsInjective(batch) /\ p \notin ToSet(batch)
    BY <1>4, PlaceFacts DEF Once
  <2> HIDE DEF p
  <2> QED BY <1>4, <2>1, ListAppend, PlaceFacts
<1>6. /\ << >> \in Seq(AllPieces) /\ ToSet(<< >>) = {} /\ IsInjective(<< >>)
      /\ Len(<< >>) = 0
  BY EmptyList
<1>7. /\ p \notin done /\ p \notin ToSet(batch) /\ p \notin Content(cache)
      /\ \A u \in Threads : p \notin Held(u)
  BY <1>4, PlaceFacts
<1>8. Held(r) = {}
  BY <1>1, <1>6 DEF Held
<1> HIDE DEF p, b
<1>9. CASE IsFull(b)
  <2>1. /\ batch' = << >> /\ hand' \in [Threads -> Seq(AllPieces)] /\ hand'[r] = b
        /\ \A u \in Threads : u # r => hand'[u] = hand[u]
    BY <1>1, <1>2, <1>5, <1>9, PlaceFacts
  <2>2. \A u \in Threads : Held(u)' = IF u = r THEN ToSet(batch) \union {p} ELSE Held(u)
    BY <1>5, <2>1 DEF Held
  <2>3. ToSet(batch') = {}
    BY <1>6, <2>1
  <2>4. OnePlace'
    <3>1. OnePlace
      BY PlaceFacts
    <3>2. \A u \in Threads : Held(u)' \intersect (done \union Content(cache)) = {}
      BY <1>7, <2>2, <3>1 DEF OnePlace
    <3>3. ASSUME NEW u \in Threads, NEW v \in Threads \ {u}
          PROVE  Held(u)' \intersect Held(v)' = {}
      BY <1>7, <2>2, <3>1 DEF OnePlace
    <3> QED BY <1>1, <2>3, <3>1, <3>2, <3>3 DEF OnePlace
  <2>5. Once'
    BY <1>1, <1>5, <1>6, <2>1, PlaceFacts DEF Once
  <2>6. Given' = (done \union ToSet(batch) \union Content(cache) \union InHands)'
    <3>1. InHands' = InHands \union ToSet(batch) \union {p}
      BY <1>2, <1>8, <2>1, <2>2, HandMoves
    <3> QED BY <1>1, <1>4, <2>3, <3>1, PlaceFacts
  <2>7. Len(batch') < BatchSize
    BY <1>6, <2>1, BatchFacts
  <2>8. Accounted'
    BY <1>1, <2>4, <2>5, <2>6, <2>7, PlaceFacts DEF Accounted, InHands
  <2> QED BY <1>3, <1>5, <1>6, <2>1, <2>8, BatchFacts
<1>10. CASE ~IsFull(b)
  <2>1. batch' = b /\ hand' = hand
    BY <1>1, <1>10
  <2>2. \A u \in Threads : Held(u)' = Held(u)
    BY <2>1 DEF Held
  <2>3. OnePlace'
    BY <1>1, <1>5, <1>7, <2>1, <2>2, PlaceFacts DEF OnePlace
  <2>4. Once'
    BY <1>1, <1>5, <2>1, PlaceFacts DEF Once
  <2>5. Given' = (done \union ToSet(batch) \union Content(cache) \union InHands)'
    <3>1. InHands' = InHands
      BY <2>2 DEF InHands
    <3> QED BY <1>1, <1>4, <1>5, <2>1, <3>1, PlaceFacts
  <2>6. Len(batch') < BatchSize
    BY <1>5, <1>10, <2>1, BatchFacts DEF IsFull
  <2>7. Accounted'
    BY <1>1, <2>3, <2>4, <2>5, <2>6, PlaceFacts DEF Accounted, InHands
  <2> QED BY <1>2, <1>3, <1>5, <2>1, <2>7, PlaceFacts
<1> QED BY <1>9, <1>10

\* The timer takes the batch.
LEMMA EmitMoves ==
    ASSUME BatchIInv, Emit
    PROVE  /\ Accounted'
           /\ hand' \in [Threads -> Seq(AllPieces)] /\ batch' = << >>
           /\ Len(hand'[Timer]) <= BatchSize
           /\ \A u \in Threads : u # Timer => hand'[u] = hand[u]
<1>1. /\ tpc = "emit" /\ hand' = [hand EXCEPT ![Timer] = batch] /\ batch' = << >>
      /\ UNCHANGED <<added, done, cache, cpc>>
  BY DEF Emit, TimerAt, pieceVars
<1>2. Timer \in Threads
  BY DEF Threads
<1>3. hand[Timer] = << >>
  BY <1>1 DEF BatchIInv, HandOK
<1>4. /\ << >> \in Seq(AllPieces) /\ ToSet(<< >>) = {} /\ IsInjective(<< >>)
      /\ Len(<< >>) = 0
  BY EmptyList
<1>5. /\ hand' \in [Threads -> Seq(AllPieces)] /\ hand'[Timer] = batch
      /\ \A u \in Threads : u # Timer => hand'[u] = hand[u]
  BY <1>1, <1>2, PlaceFacts
<1>6. \A u \in Threads : Held(u)' = IF u = Timer THEN ToSet(batch) ELSE Held(u)
  BY <1>5 DEF Held
<1>7. ToSet(batch') = {} /\ Held(Timer) = {}
  BY <1>1, <1>3, <1>4 DEF Held
<1>8. OnePlace'
  <2>1. OnePlace
    BY PlaceFacts
  <2>2. \A u \in Threads : Held(u)' \intersect (done \union Content(cache)) = {}
    BY <1>6, <2>1 DEF OnePlace
  <2>3. ASSUME NEW u \in Threads, NEW v \in Threads \ {u}
        PROVE  Held(u)' \intersect Held(v)' = {}
    BY <1>6, <2>1 DEF OnePlace
  <2> QED BY <1>1, <1>7, <2>1, <2>2, <2>3 DEF OnePlace
<1>9. Once'
  BY <1>1, <1>4, <1>5, PlaceFacts DEF Once
<1>10. Given' = (done \union ToSet(batch) \union Content(cache) \union InHands)'
  <2>1. Given' = Given
    BY <1>1 DEF Given
  <2>2. InHands' = InHands \union ToSet(batch)
    BY <1>2, <1>5, <1>6, <1>7, HandMoves
  <2> QED BY <1>1, <1>7, <2>1, <2>2, PlaceFacts
<1>11. Len(batch') < BatchSize
  BY <1>1, <1>4, BatchFacts
<1>12. cpc' # "run" => \A t \in Threads : hand'[t] = << >>
  BY <1>1, <1>5, PlaceFacts
<1>13. Accounted'
  BY <1>1, <1>8, <1>9, <1>10, <1>11, <1>12, PlaceFacts DEF Accounted, InHands
<1>14. Len(batch) \in Nat /\ Len(batch) <= BatchSize
  BY PlaceFacts, NotEmpty, BatchFacts
<1> QED BY <1>1, <1>5, <1>13, <1>14

\* Pieces leave the cache.
LEMMA LeaveMoves ==
    ASSUME BatchIInv, UNCHANGED <<added, batch, hand, cpc>>, cache # << >>,
           cache' \in Seq(Seq(AllPieces)), Uniq(cache'),
           done' \union Content(cache') = done \union Content(cache),
           done \subseteq done', done' \intersect Content(cache') = {},
           \A b \in ToSet(cache') : Len(b) \in 1 .. BatchSize
    PROVE  Accounted' /\ done' \subseteq AllPieces
<1>1. Given' = Given /\ InHands' = InHands /\ \A t \in Threads : Held(t)' = Held(t)
  BY DEF Given, InHands, Held
<1>2. OnePlace'
  <2>1. OnePlace
    BY PlaceFacts
  <2>2. \A x : x \in done' \union Content(cache') <=> x \in done \union Content(cache)
    OBVIOUS
  <2>3. ToSet(batch) \intersect (done' \union Content(cache')) = {}
    BY <2>1, <2>2 DEF OnePlace
  <2>4. \A t \in Threads : Held(t) \intersect (done' \union ToSet(batch) \union Content(cache')) = {}
    BY <2>1, <2>2 DEF OnePlace
  <2> QED BY <1>1, <2>1, <2>3, <2>4 DEF OnePlace
<1>3. Once'
  BY PlaceFacts DEF Once, Uniq
<1>4. Given' = (done \union ToSet(batch) \union Content(cache) \union InHands)'
  BY <1>1, PlaceFacts
<1>5. cpc = "run"
  BY PlaceFacts
<1>6. Accounted'
  BY <1>2, <1>3, <1>4, <1>5, PlaceFacts DEF Accounted, InHands
<1>7. Content(cache) \subseteq AllPieces
  BY PlaceFacts, ContentFacts
<1> QED BY <1>6, <1>7, PlaceFacts

LEMMA PopLeaves ==
    ASSUME BatchIInv, Pop
    PROVE  Accounted' /\ done' \subseteq AllPieces /\ cache' \in Seq(Seq(AllPieces))
<1>1. /\ cache # << >> /\ done' = done \union ToSet(Head(cache)) /\ cache' = Tail(cache)
      /\ UNCHANGED <<added, batch, hand, cpc>>
  BY DEF Pop
<1>2. /\ cache \in Seq(Seq(AllPieces)) /\ Uniq(cache)
      /\ done \intersect Content(cache) = {}
      /\ \A b \in ToSet(cache) : Len(b) \in 1 .. BatchSize
  BY PlaceFacts DEF OnePlace
<1>3. /\ cache' \in Seq(Seq(AllPieces)) /\ Uniq(cache')
      /\ Content(cache) = Content(cache') \union ToSet(Head(cache))
      /\ ToSet(cache) = ToSet(cache') \union {Head(cache)}
      /\ Content(cache') \intersect ToSet(Head(cache)) = {}
  BY <1>1, <1>2, ContentTail
<1>4. Accounted' /\ done' \subseteq AllPieces
  <2>1. done' \union Content(cache') = done \union Content(cache)
    BY <1>1, <1>3
  <2>2. done \subseteq done' /\ done' \intersect Content(cache') = {}
    BY <1>1, <1>2, <1>3
  <2>3. \A b \in ToSet(cache') : Len(b) \in 1 .. BatchSize
    BY <1>2, <1>3
  <2> QED BY <1>1, <1>3, <2>1, <2>2, <2>3, LeaveMoves
<1> QED BY <1>3, <1>4

LEMMA ClearLeaves ==
    ASSUME BatchIInv, ClearDiscard
    PROVE  Accounted' /\ done' \subseteq AllPieces /\ cache' \in Seq(Seq(AllPieces))
<1>1. /\ cache # << >>
      /\ IF Rebatched = << >>
         THEN cache' = << >> /\ done' = done \union Discarded
         ELSE /\ cache' = Tail(Rebatched)
              /\ done' = done \union Discarded \union ToSet(Head(Rebatched))
      /\ UNCHANGED <<added, batch, hand, cpc>>
  BY DEF ClearDiscard
<1> DEFINE kept == Rebatched
           content == Content(cache)
<1>2. cache \in Seq(Seq(AllPieces)) /\ Uniq(cache) /\ done \intersect content = {}
  BY PlaceFacts DEF OnePlace
<1>3. /\ kept \in Seq(Seq(AllPieces)) /\ Uniq(kept)
      /\ Content(kept) = content \ Discarded
      /\ \A b \in ToSet(kept) : Len(b) \in 1 .. BatchSize
  BY <1>2, RebatchFacts
<1>4. Discarded \subseteq content
  BY DEF Discarded
<1>5. CASE kept = << >>
  <2>1. /\ Content(<< >>) = {} /\ Uniq(<< >>) /\ << >> \in Seq(Seq(AllPieces))
        /\ ToSet(<< >>) = {}
    BY EmptyList
  <2>2. cache' = << >> /\ done' = done \union Discarded
    BY <1>1, <1>5
  <2>3. content = Discarded
    BY <1>3, <1>4, <1>5, <2>1
  <2> HIDE DEF kept
  <2>4. Accounted' /\ done' \subseteq AllPieces
    BY <1>1, <2>1, <2>2, <2>3, LeaveMoves
  <2> QED BY <2>1, <2>2, <2>4
<1>6. CASE kept # << >>
  <2>1. cache' = Tail(kept) /\ done' = done \union Discarded \union ToSet(Head(kept))
    BY <1>1, <1>6
  <2> HIDE DEF kept
  <2>2. /\ Tail(kept) \in Seq(Seq(AllPieces)) /\ Uniq(Tail(kept))
        /\ Content(kept) = Content(Tail(kept)) \union ToSet(Head(kept))
        /\ ToSet(kept) = ToSet(Tail(kept)) \union {Head(kept)}
        /\ Content(Tail(kept)) \intersect ToSet(Head(kept)) = {}
    BY <1>3, <1>6, ContentTail
  <2>3. done' \union Content(cache') = done \union content
    BY <1>3, <1>4, <2>1, <2>2
  <2>4. done \subseteq done' /\ done' \intersect Content(cache') = {}
    BY <1>2, <1>3, <1>4, <2>1, <2>2
  <2>5. \A b \in ToSet(cache') : Len(b) \in 1 .. BatchSize
    BY <1>3, <2>1, <2>2
  <2>6. Accounted' /\ done' \subseteq AllPieces
    BY <1>1, <2>1, <2>2, <2>3, <2>4, <2>5, LeaveMoves
  <2> QED BY <2>1, <2>2, <2>6
<1> QED BY <1>5, <1>6

\* Once every piece is done, nothing is left in any other place.
LEMMA StopLeavesNothing ==
    ASSUME BatchIInv, Stop
    PROVE  Accounted'
<1>1. done = Given /\ UNCHANGED <<added, done, batch, hand, cache>>
  BY DEF Stop, pieceVars
<1>2. /\ OnePlace /\ batch \in Seq(AllPieces) /\ cache \in Seq(Seq(AllPieces))
      /\ hand \in [Threads -> Seq(AllPieces)]
      /\ Given = done \union ToSet(batch) \union Content(cache) \union InHands
      /\ \A t \in Threads : Held(t) \subseteq InHands
      /\ \A b \in ToSet(cache) : Len(b) \in 1 .. BatchSize
  BY PlaceFacts
<1>3. ToSet(batch) = {} /\ Content(cache) = {} /\ \A t \in Threads : Held(t) = {}
  BY <1>1, <1>2 DEF OnePlace
<1>4. batch = << >> /\ \A t \in Threads : hand[t] = << >>
  BY <1>2, <1>3, NotEmpty DEF Held
<1>5. ASSUME cache # << >> PROVE FALSE
  <2> DEFINE h == Head(cache)
  <2>1. h \in Seq(AllPieces) /\ ToSet(h) \subseteq Content(cache) /\ h \in ToSet(cache)
    BY <1>2, <1>5, ContentTail
  <2> HIDE DEF h
  <2>2. Len(h) \in 1 .. BatchSize
    BY <1>2, <2>1
  <2>3. h # << >>
    BY <2>1, <2>2, NotEmpty, BatchFacts
  <2> QED BY <1>3, <2>1, <2>3, NotEmpty
<1>6. cache = << >>
  BY <1>5
<1>7. Given' = Given /\ Content(cache)' = Content(cache) /\ \A t \in Threads : Held(t)' = Held(t)
  BY <1>1 DEF Given, Content, Positions, PieceAt, Held
<1>8. InHands' = InHands
  BY <1>7 DEF InHands
<1>9. OnePlace' /\ Once'
  BY <1>1, <1>7, PlaceFacts DEF OnePlace, Once, Positions, PieceAt
<1> QED BY <1>1, <1>2, <1>4, <1>6, <1>7, <1>8, <1>9, PlaceFacts DEF Accounted, InHands

LEMMA BatchInvNext ==
    BatchIInv /\ [BatchNext]_batchVars => BatchIInv'
<1> SUFFICES ASSUME BatchIInv, [BatchNext]_batchVars PROVE BatchIInv'
  OBVIOUS
<1> USE DEF pieceVars, timerVars
<1>1. /\ BatchTypeOK /\ BatchHasAlarm /\ HandOK /\ Timer \in Threads /\ 0 \notin Senders
      /\ Senders \subseteq Threads
  BY BatchFacts DEF BatchIInv, Threads, Timer
<1>2. /\ << >> \in Seq(AllPieces) /\ Len(<< >>) = 0 /\ BatchSize \in Nat
  BY EmptyList, BatchFacts
<1>3. ASSUME NEW r \in Senders, AddItem(r) PROVE BatchIInv'
  <2>1. /\ Accounted'
        /\ added' \in [Senders -> Nat] /\ \A s \in Senders : added'[s] <= Pieces[s]
        /\ hand' \in [Threads -> Seq(AllPieces)] /\ batch' \in Seq(AllPieces)
        /\ Len(hand'[r]) <= BatchSize
        /\ \A u \in Threads : u # r => hand'[u] = hand[u]
    BY <1>3, AddMoves
  <2>2. /\ UNCHANGED <<discarded, done, cache, cpc, stray, tpc>>
        /\ timer_id' \in BOOLEAN /\ armed' \in BOOLEAN
        /\ batch = << >> => armed'
        /\ batch # << >> => armed' = armed
    BY <1>1, <1>3 DEF AddItem, Rearm, BatchTypeOK
  <2>3. BatchTypeOK'
    BY <1>1, <2>1, <2>2 DEF BatchTypeOK
  <2>4. BatchHasAlarm'
    BY <1>1, <2>2 DEF BatchHasAlarm
  <2>5. HandOK'
    BY <1>1, <2>1, <2>2 DEF HandOK, Timer
  <2> QED BY <2>1, <2>3, <2>4, <2>5 DEF BatchIInv
<1>4. ASSUME NEW t \in Threads, Push(t), UNCHANGED <<pieceVars, batch, cpc>>,
             \/ SenderPush(t) /\ t # Timer
             \/ TimerPush /\ t = Timer
      PROVE  BatchIInv'
  <2>1. /\ Accounted'
        /\ hand' \in [Threads -> Seq(AllPieces)] /\ cache' \in Seq(Seq(AllPieces))
        /\ hand'[t] = << >> /\ \A u \in Threads : u # t => hand'[u] = hand[u]
    BY <1>4, PushMoves
  <2>2. /\ UNCHANGED <<timer_id, armed, stray>>
        /\ tpc' = tpc \/ (tpc = "push" /\ tpc' = "clear" /\ t = Timer)
    BY <1>4 DEF SenderPush, TimerPush, TimerAt
  <2>3. BatchTypeOK'
    BY <1>1, <1>4, <2>1, <2>2 DEF BatchTypeOK
  <2>4. BatchHasAlarm'
    BY <1>1, <1>4, <2>2 DEF BatchHasAlarm
  <2>5. HandOK'
    <3>1. ASSUME NEW u \in Threads PROVE Len(hand'[u]) <= BatchSize
      <4>1. CASE u = t
        <5>1. Len(hand'[u]) = 0
          BY <1>2, <2>1, <4>1
        <5> QED BY <1>2, <5>1
      <4>2. CASE u # t
        BY <1>1, <2>1, <4>2 DEF HandOK
      <4> QED BY <4>1, <4>2
    <3>2. ASSUME tpc' # "push" PROVE hand'[Timer] = << >>
      <4>1. CASE t = Timer
        BY <2>1, <4>1
      <4>2. CASE t # Timer
        BY <1>1, <2>1, <2>2, <3>2, <4>2 DEF HandOK
      <4> QED BY <4>1, <4>2
    <3> QED BY <3>1, <3>2 DEF HandOK
  <2> QED BY <2>1, <2>3, <2>4, <2>5 DEF BatchIInv
<1>5. ASSUME NEW r \in Senders, SenderPush(r) PROVE BatchIInv'
  BY <1>1, <1>4, <1>5 DEF SenderPush, Timer
<1>6. CASE TimerPush
  <2>1. CASE Push(Timer)
    BY <1>1, <1>4, <1>6, <2>1 DEF TimerPush
  <2>2. CASE hand[Timer] = << >> /\ UNCHANGED <<hand, cache>>
    <3>1. /\ UNCHANGED <<pieceVars, batch, hand, cache, cpc, timer_id, armed, stray>>
          /\ tpc = "push" /\ tpc' = "clear"
      BY <1>6, <2>2 DEF TimerPush, TimerAt
    <3>2. Accounted'
      BY <3>1, NothingMoves
    <3> QED BY <1>1, <2>2, <3>1, <3>2 DEF BatchIInv, BatchTypeOK, BatchHasAlarm, HandOK
  <2> QED BY <1>6, <2>1, <2>2 DEF TimerPush
<1>7. CASE Emit
  <2>1. /\ Accounted'
        /\ hand' \in [Threads -> Seq(AllPieces)] /\ batch' = << >>
        /\ Len(hand'[Timer]) <= BatchSize
        /\ \A u \in Threads : u # Timer => hand'[u] = hand[u]
    BY <1>7, EmitMoves
  <2>2. tpc' = "push" /\ UNCHANGED <<pieceVars, timer_id, armed, stray, cache, cpc>>
    BY <1>7 DEF Emit, TimerAt
  <2>3. BatchTypeOK'
    BY <1>1, <1>2, <2>1, <2>2 DEF BatchTypeOK
  <2>4. BatchHasAlarm' /\ HandOK'
    BY <1>1, <2>1, <2>2 DEF BatchHasAlarm, HandOK
  <2> QED BY <2>1, <2>3, <2>4 DEF BatchIInv
<1>8. CASE Fire \/ TimerClear
  <2>1. UNCHANGED <<pieceVars, batch, hand, cache, cpc>>
    BY <1>8 DEF Fire, TimerClear
  <2>2. Accounted'
    BY <2>1, NothingMoves
  <2>3. BatchTypeOK'
    <3>1. timer_id' \in BOOLEAN /\ armed' \in BOOLEAN
      BY <1>1, <1>8 DEF BatchTypeOK, Fire, TimerClear
    <3>2. tpc' \in {"emit", "loop"}
      BY <1>8 DEF Fire, TimerClear, TimerAt
    <3>3. stray' \in Nat
      <4>1. stray' = stray \/ stray' = stray + 1 \/ (stray > 0 /\ stray' = stray - 1)
        BY <1>8 DEF Fire, TimerClear
      <4> QED BY <1>1, <4>1 DEF BatchTypeOK
    <3> QED BY <1>1, <2>1, <3>1, <3>2, <3>3 DEF BatchTypeOK
  <2>4. BatchHasAlarm' /\ HandOK'
    BY <1>1, <1>8, <2>1 DEF BatchTypeOK, BatchHasAlarm, HandOK, Fire, TimerClear, TimerAt
  <2> QED BY <2>2, <2>3, <2>4 DEF BatchIInv
<1>9. CASE Pop \/ ClearDiscard
  <2>1. Accounted' /\ done' \subseteq AllPieces /\ cache' \in Seq(Seq(AllPieces))
    BY <1>9, PopLeaves, ClearLeaves
  <2>2. UNCHANGED <<added, discarded, batch, hand, timerVars, cpc>>
    BY <1>9 DEF Pop, ClearDiscard
  <2> QED BY <1>1, <2>1, <2>2 DEF BatchIInv, BatchTypeOK, BatchHasAlarm, HandOK
<1>10. ASSUME NEW r \in Senders, Discard(r) PROVE BatchIInv'
  <2>1. UNCHANGED <<added, done, batch, hand, timerVars, cache, cpc>>
    BY <1>10 DEF Discard
  <2>2. Accounted'
    BY <2>1, NothingMoves
  <2>3. discarded' \in [Senders -> BOOLEAN]
    BY <1>1, <1>10 DEF Discard, BatchTypeOK
  <2> QED BY <1>1, <2>1, <2>2, <2>3 DEF BatchIInv, BatchTypeOK, BatchHasAlarm, HandOK
<1>11. CASE Stop
  <2>1. Accounted'
    BY <1>11, StopLeavesNothing
  <2> QED BY <1>1, <1>11, <2>1 DEF Stop, BatchIInv, BatchTypeOK, BatchHasAlarm, HandOK
<1>12. CASE DestroyCache
  <2>1. /\ UNCHANGED <<pieceVars, batch, hand, stray, tpc, cache>>
        /\ cpc = "stopped" /\ cpc' = "gone" /\ timer_id' = FALSE /\ armed' = FALSE
    BY <1>12 DEF DestroyCache
  <2>2. batch = << >>
    BY <2>1, PlaceFacts
  <2>3. Accounted'
    <3>1. Accounted
      BY DEF BatchIInv
    <3>2. Given' = Given /\ Content(cache)' = Content(cache)
      BY <2>1 DEF Given, Content, Positions, PieceAt
    <3>3. \A t \in Threads : Held(t)' = Held(t)
      BY <2>1 DEF Held
    <3>4. OnePlace' /\ Once'
      BY <2>1, <3>1, <3>2, <3>3 DEF Accounted, OnePlace, Once, Positions, PieceAt
    <3> QED BY <2>1, <3>1, <3>2, <3>3, <3>4 DEF Accounted
  <2> QED BY <1>1, <2>1, <2>2, <2>3 DEF BatchIInv, BatchTypeOK, BatchHasAlarm, HandOK
<1>13. CASE UNCHANGED batchVars
  <2>1. Accounted'
    BY <1>13, NothingMoves DEF batchVars
  <2> QED BY <1>1, <1>13, <2>1 DEF batchVars, BatchIInv, BatchTypeOK, BatchHasAlarm, HandOK
<1> QED BY <1>3, <1>5, <1>6, <1>7, <1>8, <1>9, <1>10, <1>11, <1>12, <1>13
        DEF BatchNext, TimerStep

\* No piece is lost, doubled or in two places, however many alarms and discards
\* there are, every batch that is emitted or rebatched is of a legal size, and an
\* incomplete batch has an alarm that will emit it: for any requests and batch
\* size.
THEOREM BatchCacheCorrect == BatchSpec => []BatchCacheInv
<1>1. BatchIInv => BatchCacheInv
  BY DEF BatchIInv, BatchCacheInv
<1> QED BY <1>1, BatchInvInit, BatchInvNext, PTL DEF BatchSpec
=============================================================================
