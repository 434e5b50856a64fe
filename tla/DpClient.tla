------------------------------ MODULE DpClient ------------------------------
(***************************************************************************)
(* One DpClientImpl (lib_bsp/eventservice/dp/dpclient.cpp) and the threads *)
(* that meet in it:                                                        *)
(*   - user threads that block in SendDpMessage, SendRemoteMessage or      *)
(*     ListenMessage;                                                      *)
(*   - the service thread that reads replies from the socket, sees it      *)
(*     break and connects it again;                                        *)
(*   - the worker thread of another client of the same process, to which   *)
(*     DpLocalDisp hands a REQUEST and which replies without the server.   *)
(* A step ends where another thread can run: at a lock, a signal, a socket *)
(* or an unlocked access to a shared DpMessage field.  The server may      *)
(* answer late or, when the connection breaks, never.                      *)
(*                                                                         *)
(* Calls are numbered as they start; the DpMessage of call k is the k-th   *)
(* entry of mid, sig, is_timeout, result and res_buffer.  The content of a *)
(* reply is the number of the call it answers.                             *)
(***************************************************************************)
EXTENDS Integers, FiniteSets

CONSTANTS Thread,     \* user threads
          Signal,     \* SignalEvent objects that can be created
          MaxCalls,   \* bound: calls in a behaviour
          MaxBreaks,  \* bound: times the connection breaks
          IdMax,      \* largest message id, 0xffff
          Kinds,      \* the blocking operations used
          HasServer,  \* dp_srv_addr_ has a port
          Found,      \* types DpLocalDisp can find a local listener to have
          Results     \* listener counts the server can report

ASSUME CallBounds == MaxCalls \in Nat /\ MaxBreaks \in Nat
ASSUME IdMaxAssumption == IdMax \in Nat \ {0}
ASSUME KindsAssumption ==
  Kinds \subseteq (IF HasServer THEN {"send", "remote", "listen"} ELSE {"send", "remote"})
ASSUME HasServerAssumption == HasServer \in BOOLEAN
ASSUME FoundAssumption == Found \subseteq {"REQUEST", "MESSAGE", "INVALID"}
ASSUME ResultsAssumption == Results \subseteq Nat

TYPE_SUCCEED == 6
TYPE_FAILURE == 7
NoCall == 0
Calls == 1..MaxCalls

VARIABLES
  message_id_,   \* uint16 counter, incremented without a lock
  request_map_,  \* message id -> call, guarded by dp_req_crit_
  signal_queue_, \* pooled signals
  created,       \* signals that exist
  signaled_,     \* signal -> its eventfd is readable
  ncalls,        \* calls started
  kind, mid, sig, is_timeout, result, res_buffer,  \* the DpMessage of a call
  ret, resp,     \* what the call returned and copied to the caller's buffer
  outcome,       \* "none", then "fail" or "ok"
  answered,      \* calls whose signal was triggered for a reply of their own
  pc, cur, tmp,  \* user threads: next step, call, message_id_ as read
  connected,     \* packet_socket_ is there
  breaks,        \* times the connection broke
  atServer,      \* requests the server has not answered
  replies,       \* replies on their way, in the order they were sent or not
  svc,           \* call whose reply the service thread delivers, under dp_req_crit_
  svcData,       \* ... and what the reply says
  posted,        \* requests posted to the local worker
  wpc, wcur      \* local worker: next step and request

msgVars == <<kind, mid, sig, is_timeout, result, res_buffer>>
endVars == <<ret, resp, outcome, answered>>
netVars == <<connected, breaks, atServer, replies>>
svcVars == <<svc, svcData>>
wrkVars == <<posted, wpc, wcur>>
poolVars == <<signal_queue_, created>>
vars == <<message_id_, request_map_, poolVars, signaled_, ncalls, msgVars, endVars,
          pc, cur, tmp, netVars, svcVars, wrkVars>>

MsgIds == 0..IdMax
NoSignal == "no signal"
Steps == {"idle", "read_id", "write_id", "insert", "dispatch", "send", "abort", "wait",
          "copy", "erase_done", "timeout", "reset", "erase_timeout", "put"}
Kind == {"send", "remote", "listen"}
Reply == [id : MsgIds, call : Calls, kind : Kind, result : Nat]

TypeOK ==
  /\ message_id_ \in MsgIds
  /\ request_map_ \in [MsgIds -> Calls \cup {NoCall}]
  /\ signal_queue_ \subseteq created
  /\ created \subseteq Signal
  /\ signaled_ \in [Signal -> BOOLEAN]
  /\ ncalls \in 0..MaxCalls
  /\ kind \in [Calls -> Kind]
  /\ mid \in [Calls -> MsgIds]
  /\ sig \in [Calls -> Signal \cup {NoSignal}]
  /\ is_timeout \in [Calls -> BOOLEAN]
  /\ result \in [Calls -> Nat]
  /\ res_buffer \in [Calls -> SUBSET Calls]
  /\ ret \in [Calls -> Int]
  /\ resp \in [Calls -> SUBSET Calls]
  /\ outcome \in [Calls -> {"none", "fail", "ok"}]
  /\ answered \in SUBSET Calls
  /\ pc \in [Thread -> Steps]
  /\ cur \in [Thread -> Calls \cup {NoCall}]
  /\ tmp \in [Thread -> MsgIds]
  /\ connected \in BOOLEAN
  /\ breaks \in 0..MaxBreaks
  /\ atServer \in SUBSET [id : MsgIds, call : Calls, kind : Kind]
  /\ replies \in SUBSET Reply
  /\ svc \in Calls \cup {NoCall}
  /\ svcData \in [call : Calls \cup {NoCall}, result : Nat]
  /\ posted \in SUBSET Calls
  /\ wpc \in {"idle", "check", "trigger"}
  /\ wcur \in Calls \cup {NoCall}

Init ==
  /\ message_id_ = 0
  /\ request_map_ = [i \in MsgIds |-> NoCall]
  /\ signal_queue_ = {} /\ created = {}
  /\ signaled_ = [s \in Signal |-> FALSE]
  /\ ncalls = 0
  /\ kind = [k \in Calls |-> "send"]
  /\ mid = [k \in Calls |-> 0]
  /\ sig = [k \in Calls |-> NoSignal]
  /\ is_timeout = [k \in Calls |-> FALSE]
  /\ result = [k \in Calls |-> TYPE_SUCCEED]
  /\ res_buffer = [k \in Calls |-> {}]
  /\ ret = [k \in Calls |-> 0]
  /\ resp = [k \in Calls |-> {}]
  /\ outcome = [k \in Calls |-> "none"]
  /\ answered = {}
  /\ pc = [t \in Thread |-> "idle"]
  /\ cur = [t \in Thread |-> NoCall]
  /\ tmp = [t \in Thread |-> 0]
  /\ connected = HasServer /\ breaks = 0
  /\ atServer = {} /\ replies = {}
  /\ svc = NoCall /\ svcData = [call |-> NoCall, result |-> 0]
  /\ posted = {} /\ wpc = "idle" /\ wcur = NoCall

---------------------------------------------------------------------------
(* A user thread inside a blocking call.                                   *)

Goto(t, from, to) ==
  /\ pc[t] = from
  /\ pc' = [pc EXCEPT ![t] = to]

\* dp_req_crit_ is held between two steps only by the service thread.
ReqLockFree == svc = NoCall

\* ListenMessage changes request_map_ without taking dp_req_crit_.
MayChangeMap(t) == kind[cur[t]] # "listen" => ReqLockFree

\* ListenMessage holds method_crit_ from start to end.
MethodLockFree == \A t \in Thread : cur[t] # NoCall => kind[cur[t]] # "listen"

\* Mutant: the signal stays in the queue.
GetSignal_peek(s) ==
  \/ s \in signal_queue_ /\ UNCHANGED poolVars
  \/ signal_queue_ = {} /\ s \in Signal \ created
     /\ created' = created \cup {s} /\ UNCHANGED signal_queue_

\* A pooled signal, or a new one when the queue is empty.
GetSignal(s) ==
  \/ /\ s \in signal_queue_
     /\ signal_queue_' = signal_queue_ \ {s}
     /\ UNCHANGED created
  \/ /\ signal_queue_ = {}
     /\ s \in Signal \ created
     /\ created' = created \cup {s}
     /\ UNCHANGED signal_queue_

Begin(t, k, kd, s) ==
  /\ Goto(t, "idle", "read_id")
  /\ k = ncalls + 1 /\ k <= MaxCalls
  /\ kd = "listen" => MethodLockFree
  /\ ncalls' = k
  /\ cur' = [cur EXCEPT ![t] = k]
  /\ GetSignal(s)
  /\ sig' = [sig EXCEPT ![k] = s]
  /\ kind' = [kind EXCEPT ![k] = kd]
  /\ UNCHANGED <<message_id_, request_map_, signaled_, mid, is_timeout, result,
                 res_buffer, endVars, tmp, netVars, svcVars, wrkVars>>

\* Mutant: the counter is wider than the id.
ReadId_wide(t) ==
  /\ Goto(t, "read_id", "write_id")
  /\ tmp' = [tmp EXCEPT ![t] = message_id_ + 1]
  /\ UNCHANGED <<message_id_, request_map_, poolVars, signaled_, ncalls, msgVars,
                 endVars, cur, netVars, svcVars, wrkVars>>

\* ++message_id_ is a read and a write of a plain uint16.
ReadId(t) ==
  /\ Goto(t, "read_id", "write_id")
  /\ tmp' = [tmp EXCEPT ![t] = (message_id_ + 1) % (IdMax + 1)]
  /\ UNCHANGED <<message_id_, request_map_, poolVars, signaled_, ncalls, msgVars,
                 endVars, cur, netVars, svcVars, wrkVars>>

WriteId(t) ==
  /\ Goto(t, "write_id", "insert")
  /\ message_id_' = tmp[t]
  /\ mid' = [mid EXCEPT ![cur[t]] = tmp[t]]
  /\ UNCHANGED <<request_map_, poolVars, signaled_, ncalls, kind, sig, is_timeout,
                 result, res_buffer, endVars, cur, tmp, netVars, svcVars, wrkVars>>

Insert(t) ==
  /\ Goto(t, "insert", "dispatch")
  /\ MayChangeMap(t)
  /\ request_map_' = [request_map_ EXCEPT ![mid[cur[t]]] = cur[t]]
  /\ UNCHANGED <<message_id_, poolVars, signaled_, ncalls, msgVars, endVars, cur, tmp,
                 netVars, svcVars, wrkVars>>

\* Where the request goes.  For SendDpMessage, etype is what DpLocalDisp found: it
\* posts a REQUEST to the worker of the listener and the server is left out.  For
\* SendRemoteMessage it is the caller's type and nothing is posted.  Without a server
\* a MESSAGE is not waited for, and anything else is waited for in vain.
Dispatch(t, etype) ==
  /\ pc[t] = "dispatch"
  /\ LET local == kind[cur[t]] = "send" /\ etype = "REQUEST"
     IN /\ Goto(t, "dispatch", IF local THEN "wait"
                               ELSE IF HasServer THEN "send"
                               ELSE IF etype = "MESSAGE" THEN "abort" ELSE "wait")
        /\ posted' = IF local THEN posted \cup {cur[t]} ELSE posted
  /\ UNCHANGED <<message_id_, request_map_, poolVars, signaled_, ncalls, msgVars,
                 endVars, cur, tmp, netVars, svcVars, wpc, wcur>>

Wrapped(n) == IF n > IdMax - 1 THEN 0 ELSE n

\* The inner SendDpMessage: the counter wraps, the packet leaves or it fails.
Send(t) ==
  /\ Goto(t, "send", IF connected THEN "wait" ELSE "abort")
  /\ message_id_' = Wrapped(message_id_)
  /\ atServer' = IF connected
                 THEN atServer \cup {[id |-> mid[cur[t]], call |-> cur[t],
                                      kind |-> kind[cur[t]]]}
                 ELSE atServer
  /\ UNCHANGED <<request_map_, poolVars, signaled_, ncalls, msgVars, endVars, cur, tmp,
                 connected, breaks, replies, svcVars, wrkVars>>

Erase(t) ==
  /\ MayChangeMap(t)
  /\ request_map_' = [request_map_ EXCEPT ![mid[cur[t]]] = NoCall]

Failed(t) ==
  /\ outcome' = [outcome EXCEPT ![cur[t]] = "fail"]
  /\ ret' = [ret EXCEPT ![cur[t]] = IF kind[cur[t]] = "listen" THEN -1 ELSE TYPE_FAILURE]

\* Mutant: a failed send leaves its entry behind.
Abort_keepsEntry(t) ==
  /\ Goto(t, "abort", "put")
  /\ Failed(t)
  /\ UNCHANGED <<message_id_, request_map_, poolVars, signaled_, ncalls, msgVars, resp,
                 answered, cur, tmp, netVars, svcVars, wrkVars>>

Abort(t) ==
  /\ Goto(t, "abort", "put")
  /\ Erase(t)
  /\ Failed(t)
  /\ UNCHANGED <<message_id_, poolVars, signaled_, ncalls, msgVars, resp, answered,
                 cur, tmp, netVars, svcVars, wrkVars>>

\* WaitSignal: the eventfd is readable and is reset, or select times out or fails
\* first; what it then resets, ResetTriggerSignal below resets again.
WaitDone(t) ==
  /\ Goto(t, "wait", "copy")
  /\ signaled_[sig[cur[t]]]
  /\ signaled_' = [signaled_ EXCEPT ![sig[cur[t]]] = FALSE]
  /\ UNCHANGED <<message_id_, request_map_, poolVars, ncalls, msgVars, endVars, cur, tmp,
                 netVars, svcVars, wrkVars>>

\* Mutant: only a broken connection ends the wait.
WaitTimeout_noTimer(t) ==
  /\ Goto(t, "wait", "timeout")
  /\ ~signaled_[sig[cur[t]]]
  /\ ~connected
  /\ UNCHANGED <<message_id_, request_map_, poolVars, signaled_, ncalls, msgVars, endVars,
                 cur, tmp, netVars, svcVars, wrkVars>>

WaitTimeout(t) ==
  /\ Goto(t, "wait", "timeout")
  /\ ~signaled_[sig[cur[t]]]
  /\ UNCHANGED <<message_id_, request_map_, poolVars, signaled_, ncalls, msgVars, endVars,
                 cur, tmp, netVars, svcVars, wrkVars>>

\* On SIGNAL_EVENT_DONE the response is copied before the lock is taken.
Copy(t) ==
  /\ Goto(t, "copy", "erase_done")
  /\ resp' = [resp EXCEPT ![cur[t]] =
                IF kind[cur[t]] = "listen" THEN {} ELSE res_buffer[cur[t]]]
  /\ UNCHANGED <<message_id_, request_map_, poolVars, signaled_, ncalls, msgVars, ret,
                 outcome, answered, cur, tmp, netVars, svcVars, wrkVars>>

\* ListenMessage turns a FAILURE answer into a failure of the call.
EraseDone(t) ==
  /\ Goto(t, "erase_done", "put")
  /\ Erase(t)
  /\ IF kind[cur[t]] # "listen"
     THEN /\ ret' = [ret EXCEPT ![cur[t]] = result[cur[t]]]
          /\ outcome' = [outcome EXCEPT ![cur[t]] = "ok"]
     ELSE IF result[cur[t]] = TYPE_SUCCEED
     THEN /\ ret' = [ret EXCEPT ![cur[t]] = 0]
          /\ outcome' = [outcome EXCEPT ![cur[t]] = "ok"]
     ELSE Failed(t)
  /\ UNCHANGED <<message_id_, poolVars, signaled_, ncalls, msgVars, resp, answered,
                 cur, tmp, netVars, svcVars, wrkVars>>

\* is_timeout is set and the signal reset outside dp_req_crit_.
SetTimeout(t) ==
  /\ Goto(t, "timeout", "reset")
  /\ is_timeout' = [is_timeout EXCEPT ![cur[t]] = TRUE]
  /\ UNCHANGED <<message_id_, request_map_, poolVars, signaled_, ncalls, kind, mid, sig,
                 result, res_buffer, endVars, cur, tmp, netVars, svcVars, wrkVars>>

ResetTriggerSignal(t) ==
  /\ Goto(t, "reset", "erase_timeout")
  /\ signaled_' = [signaled_ EXCEPT ![sig[cur[t]]] = FALSE]
  /\ UNCHANGED <<message_id_, request_map_, poolVars, ncalls, msgVars, endVars, cur, tmp,
                 netVars, svcVars, wrkVars>>

EraseTimeout(t) ==
  /\ Goto(t, "erase_timeout", "put")
  /\ Erase(t)
  /\ Failed(t)
  /\ UNCHANGED <<message_id_, poolVars, signaled_, ncalls, msgVars, resp, answered,
                 cur, tmp, netVars, svcVars, wrkVars>>

PutSignal(t) ==
  /\ Goto(t, "put", "idle")
  /\ signal_queue_' = signal_queue_ \cup {sig[cur[t]]}
  /\ cur' = [cur EXCEPT ![t] = NoCall]
  /\ UNCHANGED <<message_id_, request_map_, created, signaled_, ncalls, msgVars, endVars,
                 tmp, netVars, svcVars, wrkVars>>

CallStep(t) ==
  \/ ReadId(t) \/ WriteId(t) \/ Insert(t)
  \/ \E etype \in Found : Dispatch(t, etype)
  \/ Send(t) \/ Abort(t)
  \/ WaitDone(t) \/ WaitTimeout(t)
  \/ Copy(t) \/ EraseDone(t)
  \/ SetTimeout(t) \/ ResetTriggerSignal(t) \/ EraseTimeout(t)
  \/ PutSignal(t)

---------------------------------------------------------------------------
(* The server, the service thread and the connection.                      *)

\* The server answers a request: a listener's reply, a count, or the verdict
\* on a registration.
ServerAnswers(m, n) ==
  /\ m \in atServer
  /\ atServer' = atServer \ {m}
  /\ replies' = replies \cup {[id |-> m.id, call |-> m.call, kind |-> m.kind, result |-> n]}
  /\ UNCHANGED <<message_id_, request_map_, poolVars, signaled_, ncalls, msgVars, endVars,
                 pc, cur, tmp, connected, breaks, svcVars, wrkVars>>

\* Mutant: a reply is given to whoever waits.
OnReplay_anyId(r) ==
  /\ r \in replies
  /\ ReqLockFree
  /\ replies' = replies \ {r}
  /\ \/ \E i \in MsgIds :
          /\ request_map_[i] # NoCall /\ ~is_timeout[request_map_[i]]
          /\ svc' = request_map_[i]
          /\ svcData' = [call |-> IF r.kind = "listen" THEN NoCall ELSE r.call,
                         result |-> r.result]
     \/ UNCHANGED svcVars
  /\ UNCHANGED <<message_id_, request_map_, poolVars, signaled_, ncalls, msgVars, endVars,
                 pc, cur, tmp, connected, breaks, atServer, wrkVars>>

\* OnReqReplayMessage / OnAddReplayMessage, first half: find the call and look
\* at is_timeout, under dp_req_crit_.  A reply nobody waits for is dropped, and
\* so is the answer to a registration that meets a message.
OnReplay(r) ==
  /\ r \in replies
  /\ ReqLockFree
  /\ replies' = replies \ {r}
  /\ LET k == request_map_[r.id]
     IN IF k # NoCall /\ ~is_timeout[k] /\ (r.kind = "listen" => kind[k] = "listen")
        THEN /\ svc' = k
             /\ svcData' = [call |-> IF r.kind = "listen" THEN NoCall ELSE r.call,
                            result |-> r.result]
        ELSE UNCHANGED svcVars
  /\ UNCHANGED <<message_id_, request_map_, poolVars, signaled_, ncalls, msgVars, endVars,
                 pc, cur, tmp, connected, breaks, atServer, wrkVars>>

\* Second half: fill the response, set the result, trigger the signal, unlock.
OnReplayTrigger ==
  /\ svc # NoCall
  /\ res_buffer' = [res_buffer EXCEPT ![svc] = @ \cup ({svcData.call} \ {NoCall})]
  /\ result' = [result EXCEPT ![svc] = svcData.result]
  /\ signaled_' = [signaled_ EXCEPT ![sig[svc]] = TRUE]
  /\ answered' = answered \cup {svc}
  /\ svc' = NoCall
  /\ svcData' = [call |-> NoCall, result |-> 0]
  /\ UNCHANGED <<message_id_, request_map_, poolVars, ncalls, kind, mid, sig, is_timeout,
                 ret, resp, outcome, pc, cur, tmp, netVars, wrkVars>>

\* The socket breaks: every waiting call is forgotten and will time out.
OnSocketErrorEvent ==
  /\ connected
  /\ breaks < MaxBreaks
  /\ ReqLockFree
  /\ connected' = FALSE
  /\ breaks' = breaks + 1
  /\ request_map_' = [i \in MsgIds |-> NoCall]
  /\ atServer' = {}
  /\ replies' = {}
  /\ UNCHANGED <<message_id_, poolVars, signaled_, ncalls, msgVars, endVars, pc, cur, tmp,
                 svcVars, wrkVars>>

\* The new socket.  The signal it triggers belongs to Init, whose use of the pool is in DpSession.
OnSocketConnectEvent ==
  /\ HasServer /\ ~connected
  /\ connected' = TRUE
  /\ message_id_' = Wrapped((message_id_ + 1) % (IdMax + 1))
  /\ UNCHANGED <<request_map_, poolVars, signaled_, ncalls, msgVars, endVars, pc, cur, tmp,
                 breaks, atServer, replies, svcVars, wrkVars>>

---------------------------------------------------------------------------
(* The worker of a local listener: its handler fills res_buffer and calls  *)
(* SendDpReply, which checks is_timeout and triggers the signal, with no   *)
(* lock at all.                                                            *)

LocalHandle(k) ==
  /\ wpc = "idle" /\ k \in posted
  /\ posted' = posted \ {k}
  /\ wcur' = k
  /\ wpc' = "check"
  /\ res_buffer' = [res_buffer EXCEPT ![k] = @ \cup {k}]
  /\ UNCHANGED <<message_id_, request_map_, poolVars, signaled_, ncalls, kind, mid, sig,
                 is_timeout, result, endVars, pc, cur, tmp, netVars, svcVars>>

SendDpReplyCheck ==
  /\ wpc = "check"
  /\ IF is_timeout[wcur]
     THEN wpc' = "idle" /\ wcur' = NoCall
     ELSE wpc' = "trigger" /\ UNCHANGED wcur
  /\ UNCHANGED <<message_id_, request_map_, poolVars, signaled_, ncalls, msgVars, endVars,
                 pc, cur, tmp, netVars, svcVars, posted>>

ProcessDpReply ==
  /\ wpc = "trigger"
  /\ signaled_' = [signaled_ EXCEPT ![sig[wcur]] = TRUE]
  /\ answered' = answered \cup {wcur}
  /\ wpc' = "idle"
  /\ wcur' = NoCall
  /\ UNCHANGED <<message_id_, request_map_, poolVars, ncalls, msgVars, ret, resp, outcome,
                 pc, cur, tmp, netVars, svcVars, posted>>

---------------------------------------------------------------------------
Service ==
  \/ \E r \in replies : OnReplay(r)
  \/ OnReplayTrigger

Worker ==
  \/ \E k \in Calls : LocalHandle(k)
  \/ SendDpReplyCheck
  \/ ProcessDpReply

Server ==
  \E m \in atServer :
    \E n \in IF m.kind = "listen" THEN {TYPE_SUCCEED, TYPE_FAILURE} ELSE Results :
      ServerAnswers(m, n)

Next ==
  \/ \E t \in Thread, k \in Calls, kd \in Kinds, s \in Signal : Begin(t, k, kd, s)
  \/ \E t \in Thread : CallStep(t)
  \/ Service
  \/ Worker
  \/ Server
  \/ OnSocketErrorEvent
  \/ OnSocketConnectEvent

Spec == Init /\ [][Next]_vars

\* Threads inside a call run, select times out, the service thread leaves the
\* lock.  Nothing is assumed of the server, the worker or the connection.
FairSpec ==
  /\ Spec
  /\ \A t \in Thread : WF_vars(CallStep(t))
  /\ WF_vars(OnReplayTrigger)

---------------------------------------------------------------------------
(* Properties.                                                             *)

InCall(t) == pc[t] # "idle"

\* A signal has one owner: a call in progress or the pool.  Two calls on one
\* signal would steal each other's wake-ups.
SignalsExclusive ==
  /\ \A t, u \in Thread : InCall(t) /\ InCall(u) /\ t # u => sig[cur[t]] # sig[cur[u]]
  /\ \A t \in Thread : InCall(t) => sig[cur[t]] \in created \ signal_queue_

Waiting == {"dispatch", "send", "abort", "wait", "copy", "erase_done", "timeout", "reset",
            "erase_timeout"}

\* request_map_ remembers only calls that are still in progress: the error
\* paths, the timeout path and the normal path all take their entry out.
MapOnlyInFlight ==
  \A i \in MsgIds : request_map_[i] # NoCall =>
    \E t \in Thread : cur[t] = request_map_[i] /\ pc[t] \in Waiting

Returned(k) == k <= ncalls /\ \A t \in Thread : cur[t] # k

\* The refinement mapping to DpCall: a call is over when its thread is back.
Promise == INSTANCE DpCall WITH
  state <- [k \in Calls |-> IF k > ncalls THEN "new"
                            ELSE IF Returned(k) THEN "returned" ELSE "blocked"],
  ret <- [k \in Calls |-> IF Returned(k) THEN outcome[k] ELSE "none"],
  resp <- [k \in Calls |-> IF Returned(k) THEN resp[k] ELSE {}]

\* A call returns once, with a failure or with nothing but its own response,
\* however late, lost or reordered the replies are (DpCall).
KeepsPromise == Promise!Spec

\* Every blocking call returns, whatever the server and the worker do.
CallsReturn == Promise!Returns

\* "The call blocks until it receives the reply or times out" (dpclient.h):
\* a call that reports success was answered.
SuccessMeansAnswered ==
  \A k \in Calls : outcome[k] = "ok" => k \in answered
=============================================================================
