------------------------------ MODULE Session -------------------------------
(***************************************************************************)
(* Session and RequestControl of the infer server that Inference sends its *)
(* batches to (3rdparty/easydk/infer_server/src/core/session.{h,cpp},      *)
(* request_ctrl.{h,cpp}).                                                  *)
(*                                                                         *)
(* Requests are numbered in the order of request_list_.  The engine may    *)
(* finish their data in any order, on any threads; the thread that         *)
(* finishes the last piece calls CheckAndResponse, which lets a task of    *)
(* the thread pool, the responder, answer the requests from the front of   *)
(* the list as far as they are finished.                                   *)
(*                                                                         *)
(* What runs under request_mutex_ is one step.  The destructor is called   *)
(* when no Send is running, as DestroySession demands of its user, and the *)
(* address of a deleted request is not given to a new one while a Send     *)
(* still compares with it.                                                 *)
(***************************************************************************)
EXTENDS Integers, Sequences, SequencesExt

CONSTANTS MaxRequests,   \* bound on the number of requests
          MaxPieces,     \* bound on the data of a request
          Tags           \* tags of packages

ASSUME SessionAssumption == MaxRequests \in Nat /\ MaxPieces \in Nat

Requests == 1 .. MaxRequests

VARIABLES request_list,   \* request_list_
          sent,           \* request_id_
          tag, wait_num,  \* of each request
          caller,         \* where the thread is that finishes each request
          is_discarded,   \* is_discarded_ of each request
          deleted,        \* the requests deleted: response_done_flag_ is set
          in_response,    \* in_response_
          rpc, next,      \* where the responder is, and the request it holds
          closed,         \* history: number of requests that are over
          running,        \* running_
          dpc,            \* where the destructor is
          wpc, waitFor,   \* where WaitTaskDone is, and the request it awaits
          asked,          \* history: requests sent when it was called, and
          overlooked      \* the one in hand when it found none, or 0

requestVars == <<tag, wait_num, is_discarded>>
respVars == <<in_response, rpc, next, closed, deleted>>
endVars == <<running, dpc>>
waitVars == <<wpc, waitFor, asked, overlooked>>
vars == <<request_list, sent, tag, wait_num, caller, is_discarded, deleted,
          in_response, rpc, next, closed, running, dpc, wpc, waitFor,
          asked, overlooked>>

Init ==
    /\ request_list = << >>
    /\ sent = 0
    /\ tag \in [Requests -> Tags]
    /\ wait_num = [r \in Requests |-> 0]
    /\ caller = [r \in Requests |-> "none"]
    /\ is_discarded = [r \in Requests |-> FALSE]
    /\ deleted = {}
    /\ in_response = FALSE
    /\ rpc = "none"
    /\ next = 0
    /\ closed = 0
    /\ running = TRUE
    /\ dpc = "none"
    /\ wpc = [t \in Tags |-> "none"]
    /\ waitFor = [t \in Tags |-> 0]
    /\ asked = [t \in Tags |-> 0]
    /\ overlooked = [t \in Tags |-> 0]

Finished(r) == wait_num[r] = 0

\* sync_cond_.notify_one(): only the destructor waits.
NotifySync == dpc' = IF dpc = "asleep" THEN "check" ELSE dpc

-----------------------------------------------------------------------------
(* Send: a request of n pieces of data.  Without data it is finished from  *)
(* the start and Send itself calls CheckAndResponse.                       *)

Send(n) ==
    /\ running
    /\ sent < MaxRequests
    /\ LET r == sent + 1
       IN  /\ sent' = r
           /\ request_list' = Append(request_list, r)
           /\ wait_num' = [wait_num EXCEPT ![r] = n]
           /\ caller' = [caller EXCEPT ![r] = IF n = 0 THEN "send" ELSE "process"]
    /\ UNCHANGED <<tag, is_discarded, respVars, endVars, waitVars>>

\* ProcessDone, under the spin lock done_mutex_ : one piece of r is done.
PieceDone(r) ==
    /\ caller[r] = "process"
    /\ wait_num' = [wait_num EXCEPT ![r] = @ - 1]
    /\ caller' = [caller EXCEPT ![r] = IF wait_num[r] = 1 THEN "notify" ELSE @]
    /\ UNCHANGED <<request_list, sent, tag, is_discarded, respVars, endVars,
                   waitVars>>

\* CheckAndResponse pops the front and pushes the responder to the pool, if
\* the compare-exchange of in_response_ succeeds.
StartResponder ==
    /\ ~in_response
    /\ in_response' = TRUE
    /\ rpc' = "take"
    /\ next' = Head(request_list)
    /\ request_list' = Tail(request_list)
    /\ UNCHANGED <<closed, deleted>>

\* Mutant of MayRespond: the front is not looked at.
MayRespondAny(r) == request_list # << >>

\* caller == ctrl || ctrl->IsProcessFinished()
MayRespond(r) == /\ request_list # << >>
                 /\ Head(request_list) = r \/ Finished(Head(request_list))

\* done_notifier_(this) is CheckAndResponse(r), under done_mutex_ of r; Send
\* calls it too, without that lock.
CheckAndResponse(r) ==
    /\ caller[r] \in {"notify", "send"}
    /\ caller' = [caller EXCEPT ![r] = "returned"]
    /\ \/ MayRespond(r) /\ StartResponder
       \/ /\ MayRespond(r) => in_response
          /\ UNCHANGED <<request_list, respVars>>
    /\ IF request_list = << >> THEN NotifySync ELSE UNCHANGED dpc
    /\ UNCHANGED <<sent, requestVars, running, waitVars>>

-----------------------------------------------------------------------------
(* The responder.                                                          *)

Responder(from, to) == rpc = from /\ rpc' = to

\* if (!next->IsDiscarded()) next->Response();
Respond ==
    /\ Responder("take", IF is_discarded[next] THEN "delete" ELSE "respond")
    /\ closed' = IF is_discarded[next] THEN closed + 1 ELSE closed
    /\ UNCHANGED <<request_list, sent, requestVars, caller, deleted,
                   in_response, next, endVars, waitVars>>

Responded ==
    /\ Responder("respond", "delete")
    /\ closed' = closed + 1
    /\ UNCHANGED <<request_list, sent, requestVars, caller, deleted,
                   in_response, next, endVars, waitVars>>

\* Mutant of Delete: the destructor of the request does not take done_mutex_.
DeleteUnlocked ==
    /\ Responder("delete", "next")
    /\ deleted' = deleted \union {next}
    /\ UNCHANGED <<request_list, sent, requestVars, caller, in_response, next,
                   closed, endVars, waitVars>>

\* delete next: ~RequestControl takes done_mutex_, which the caller of
\* CheckAndResponse holds, and sets response_done_flag_.
Delete ==
    /\ Responder("delete", "next")
    /\ caller[next] # "notify"
    /\ deleted' = deleted \union {next}
    /\ UNCHANGED <<request_list, sent, requestVars, caller, in_response, next,
                   closed, endVars, waitVars>>

\* Mutant of LastAnswered: the destructor is not notified.
LastAnsweredSilent ==
    /\ Responder("next", "none")
    /\ request_list = << >>
    /\ in_response' = FALSE
    /\ UNCHANGED <<request_list, sent, requestVars, caller, deleted, next,
                   closed, endVars, waitVars>>

\* The list is empty: in_response_ is reset under the lock.
LastAnswered ==
    /\ Responder("next", "none")
    /\ request_list = << >>
    /\ in_response' = FALSE
    /\ NotifySync
    /\ UNCHANGED <<request_list, sent, requestVars, caller, deleted, next,
                   closed, running, waitVars>>

\* The front is finished: answer it too.
NextAnswer ==
    /\ request_list # << >>
    /\ Finished(Head(request_list))
    /\ Responder("next", "take")
    /\ next' = Head(request_list)
    /\ request_list' = Tail(request_list)
    /\ UNCHANGED <<sent, requestVars, caller, deleted, in_response, closed,
                   endVars, waitVars>>

\* The front is not finished.  The lock is released, and only then ...
NoAnswer ==
    /\ request_list # << >>
    /\ ~Finished(Head(request_list))
    /\ Responder("next", "clear")
    /\ UNCHANGED <<request_list, sent, requestVars, caller, deleted,
                   in_response, next, closed, endVars, waitVars>>

\* ... is in_response_ reset.
ClearResponse ==
    /\ Responder("clear", "none")
    /\ in_response' = FALSE
    /\ UNCHANGED <<request_list, sent, requestVars, caller, deleted, next,
                   closed, endVars, waitVars>>

-----------------------------------------------------------------------------
(* DiscardTask, WaitTaskDone and the destructor.                           *)

Tagged(t) == {r \in ToSet(request_list) : tag[r] = t}

DiscardTask(t) ==
    /\ Tagged(t) # {}
    /\ is_discarded' = [r \in Requests |-> r \in Tagged(t) \/ is_discarded[r]]
    /\ UNCHANGED <<request_list, sent, tag, wait_num, caller, respVars,
                   endVars, waitVars>>

\* The responder holds a request that is off the list and not deleted yet.
InHand == rpc \in {"take", "respond", "delete"}

\* Mutant of LastTagged: the list is searched from its front.
FirstTagged(t) == CHOOSE r \in Tagged(t) : \A q \in Tagged(t) : r <= q

\* find_first_of over request_list_.rbegin()
LastTagged(t) == CHOOSE r \in Tagged(t) : \A q \in Tagged(t) : q <= r

\* WaitTaskDone takes the promise of the last request of the list with the tag;
\* when there is none it returns, whatever the responder holds.
WaitTaskDone(t) ==
    /\ wpc[t] = "none"
    /\ asked' = [asked EXCEPT ![t] = sent]
    /\ IF Tagged(t) = {}
       THEN /\ wpc' = [wpc EXCEPT ![t] = "done"]
            /\ overlooked' = [overlooked EXCEPT ![t] = IF InHand THEN next ELSE 0]
            /\ UNCHANGED waitFor
       ELSE /\ wpc' = [wpc EXCEPT ![t] = "wait"]
            /\ waitFor' = [waitFor EXCEPT ![t] = LastTagged(t)]
            /\ UNCHANGED overlooked
    /\ UNCHANGED <<request_list, sent, requestVars, caller, respVars, endVars>>

WaitReturn(t) ==
    /\ wpc[t] = "wait"
    /\ waitFor[t] \in deleted
    /\ wpc' = [wpc EXCEPT ![t] = "done"]
    /\ UNCHANGED <<request_list, sent, requestVars, caller, respVars, endVars,
                   waitFor, asked, overlooked>>

Destroy ==
    /\ dpc = "none"
    /\ \A r \in Requests : caller[r] # "send"
    /\ dpc' = "check"
    /\ running' = FALSE
    /\ UNCHANGED <<request_list, sent, requestVars, caller, respVars, waitVars>>

\* Mutant of DestroyCheck: in_response_ is not part of the condition.
DestroyCheckList ==
    /\ dpc = "check"
    /\ dpc' = IF request_list = << >> THEN "gone" ELSE "asleep"
    /\ UNCHANGED <<request_list, sent, requestVars, caller, respVars, running,
                   waitVars>>

\* request_list_.empty() && !in_response_, under the lock; else wait.
DestroyCheck ==
    /\ dpc = "check"
    /\ dpc' = IF request_list = << >> /\ ~in_response THEN "gone" ELSE "asleep"
    /\ UNCHANGED <<request_list, sent, requestVars, caller, respVars, running,
                   waitVars>>

SpuriousWake ==
    /\ dpc = "asleep"
    /\ dpc' = "check"
    /\ UNCHANGED <<request_list, sent, requestVars, caller, respVars, running,
                   waitVars>>

-----------------------------------------------------------------------------
Engine(r) == PieceDone(r) \/ CheckAndResponse(r)

ResponderStep == Respond \/ Responded \/ Delete \/ LastAnswered
                 \/ NextAnswer \/ NoAnswer \/ ClearResponse

Next == \/ \E n \in 0 .. MaxPieces : Send(n)
        \/ \E r \in Requests : Engine(r)
        \/ ResponderStep
        \/ \E t \in Tags : DiscardTask(t) \/ WaitTaskDone(t) \/ WaitReturn(t)
        \/ Destroy \/ DestroyCheck \/ SpuriousWake

\* The engine finishes what it was given, and the pool runs the responder.
Fairness == /\ \A r \in Requests : WF_vars(Engine(r))
            /\ WF_vars(ResponderStep)
            /\ WF_vars(DestroyCheck)
            /\ \A t \in Tags : WF_vars(WaitReturn(t))

Spec == Init /\ [][Next]_vars
FairSpec == Spec /\ Fairness

-----------------------------------------------------------------------------
TypeOK ==
    /\ request_list \in Seq(Requests)
    /\ sent \in 0 .. MaxRequests
    /\ tag \in [Requests -> Tags]
    /\ wait_num \in [Requests -> 0 .. MaxPieces]
    /\ caller \in [Requests -> {"none", "process", "notify", "send",
                              "returned"}]
    /\ is_discarded \in [Requests -> BOOLEAN]
    /\ deleted \in SUBSET Requests
    /\ in_response \in BOOLEAN
    /\ rpc \in {"none", "take", "respond", "delete", "next", "clear"}
    /\ next \in 0 .. MaxRequests
    /\ closed \in 0 .. MaxRequests
    /\ running \in BOOLEAN
    /\ dpc \in {"none", "check", "asleep", "gone"}
    /\ wpc \in [Tags -> {"none", "wait", "done"}]
    /\ waitFor \in [Tags -> 0 .. MaxRequests]
    /\ asked \in [Tags -> 0 .. MaxRequests]
    /\ overlooked \in [Tags -> 0 .. MaxRequests]

\* A request is answered, or let go, only when all its data is processed,
\* although CheckAndResponse does not look at a front that is its caller's.
AnsweredWhenFinished == InHand => Finished(next)

\* When WaitTaskDone has returned, every request with the tag that was sent
\* before the call is answered, or let go if it was discarded, and deleted, as
\* infer_server.h says ("Wait task with specified tag done").  The exception is
\* the window of session.h:109: no request with the tag is on the list, but the
\* last one sent is in the responder's hands.  WaitTaskDone does not see it, and
\* returns while its response runs; it overlooks that one and no other.
WaitedIsDone ==
    \A t \in Tags : wpc[t] = "done" =>
        \A r \in 1 .. asked[t] : tag[r] = t => r \in deleted \/ r = overlooked[t]

\* Once the destructor has returned no thread is left inside the session: no
\* caller in CheckAndResponse, no responder.  And no thread touches a request
\* after it has been deleted: done_mutex_ keeps the responder from deleting it
\* under the thread that finished it.
NoUseAfterDelete ==
    /\ dpc = "gone" => rpc = "none" /\ \A r \in Requests : caller[r] # "notify"
    /\ \A r \in deleted : caller[r] # "notify"

\* request_list_ holds, in their order, the requests behind the one that left it
\* last, which is the one the responder holds or held.
ListOK == /\ Len(request_list) = sent - next
          /\ \A k \in DOMAIN request_list : request_list[k] = next + k

\* How far the responder is with it (CheckAndResponse, the response task).
AnswerOK ==
    /\ in_response <=> rpc # "none"
    /\ rpc # "none" => next # 0
    /\ closed = IF rpc \in {"take", "respond"} THEN next - 1 ELSE next
    /\ deleted = 1 .. IF InHand THEN next - 1 ELSE next

\* The thread that finishes a request is in CheckAndResponse only when all data
\* is processed, and out of it before the request is deleted (ProcessDone).
CallerOK == \A r \in Requests :
                /\ caller[r] = "none" <=> r > sent
                /\ caller[r] = "process" <=> ~Finished(r)
                /\ r <= next => Finished(r)
                /\ r \in deleted => caller[r] # "notify"

\* What WaitTaskDone has to wait for is not behind the one that it waits for.
WaitOK == \A t \in Tags :
              /\ asked[t] <= sent
              /\ wpc[t] = "wait" =>
                    \A r \in 1 .. asked[t] : tag[r] = t => r <= waitFor[t]

\* The destructor runs when no request is added, and returns with none left.
EndOK == /\ dpc # "none" => ~running
         /\ dpc = "gone" => request_list = << >> /\ rpc = "none"

\* The inductive invariant of RequestProofs.
IInv == TypeOK /\ ListOK /\ AnswerOK /\ CallerOK /\ WaitOK /\ WaitedIsDone
        /\ EndOK

\* The session's promises to its users (CheckAndResponse, WaitTaskDone and the
\* destructor): answered when finished, waited for, never used after deletion;
\* and what they rest on, in every state.
SessionInv == IInv /\ AnsweredWhenFinished /\ NoUseAfterDelete

\* The session implements OrderedResponses: in what order ever the engine
\* finishes the requests, they are answered one at a time in the order they
\* were sent, and the destructor waits for the last of them.
Responses == INSTANCE OrderedResponses
                 WITH answering <- IF rpc = "respond" THEN next ELSE 0,
                      gone <- (dpc = "gone")
ResponsesSpec == Responses!ResponsesSpec

\* A request that is finished while the responder gives up in the window
\* between its look at the list and the reset of in_response_ may be left
\* over.  In every other case all requests are over in the end, and whoever
\* waits for a tag or for the end of the session returns.
Missed == /\ rpc = "clear"
          /\ request_list # << >>
          /\ Finished(Head(request_list))
AnsweredUnlessMissed ==
    []~Missed => /\ <>[](closed = sent)
                 /\ \A t \in Tags : (wpc[t] = "wait") ~> (wpc[t] = "done")
                 /\ (dpc = "check") ~> (dpc = "gone")

\* The test ResponseOrder sends requests and expects a response for each
\* before it destroys the session.
EveryRequestAnswered == []running => <>[](closed = sent)
=============================================================================
