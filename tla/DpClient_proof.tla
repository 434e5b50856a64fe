--------------------------- MODULE DpClient_proof ---------------------------
(* Theorems about the DP client, for every set of user threads and signals. *)
EXTENDS DpClient, TLAPS

\* A thread is in a call exactly when it has one, and no two threads share one; the
\* local worker has a request while it replies.
CallsOwned ==
  /\ \A t \in Thread : cur[t] = NoCall <=> pc[t] = "idle"
  /\ \A t \in Thread : cur[t] <= ncalls
  /\ \A t, u \in Thread : cur[t] # NoCall /\ t # u => cur[t] # cur[u]
  /\ wpc # "idle" => wcur # NoCall

\* An entry of request_map_ is filed under the id of its own message.
MapKeyed == \A i \in MsgIds : request_map_[i] # NoCall => mid[request_map_[i]] = i

---------------------------------------------------------------------------
(* Type correctness.  A step of a call needs a call to be there: the types *)
(* and the ownership of calls are proved together.                         *)

LEMMA TypeInit == Init => TypeOK /\ CallsOwned
BY IdMaxAssumption, CallBounds, HasServerAssumption DEF Init, TypeOK, CallsOwned, MsgIds, Calls, NoCall, Steps,
   Kind, TYPE_SUCCEED

LEMMA NextIdType ==
  ASSUME NEW n \in MsgIds
  PROVE  /\ (n + 1) % (IdMax + 1) \in MsgIds
         /\ Wrapped(n) \in MsgIds
BY IdMaxAssumption DEF MsgIds, Wrapped

\* A thread inside a call has one.
LEMMA HasCall ==
  ASSUME TypeOK, CallsOwned, NEW t \in Thread, pc[t] # "idle"
  PROVE  cur[t] \in Calls
BY DEF TypeOK, CallsOwned

LEMMA BeginType ==
  ASSUME TypeOK, CallsOwned, NEW t \in Thread, NEW k \in Calls, NEW kd \in Kinds,
         NEW s \in Signal, Begin(t, k, kd, s)
  PROVE  TypeOK' /\ CallsOwned'
<1> USE CallBounds DEF Calls, NoCall
<1>1. kd \in Kind
  BY KindsAssumption DEF Kind
<1>2. TypeOK'
  BY <1>1 DEF TypeOK, Begin, Goto, GetSignal, Steps, Reply, endVars, netVars, svcVars,
     wrkVars
<1>3. CallsOwned'
  BY DEF TypeOK, CallsOwned, Begin, Goto, wrkVars
<1>4. QED
  BY <1>2, <1>3

\* A step that leaves cur and ncalls alone and stays inside the call.
LEMMA OwnedKept ==
  ASSUME CallsOwned, TypeOK, NEW t \in Thread, NEW from, NEW to, Goto(t, from, to),
         from # "idle", to # "idle", UNCHANGED <<cur, ncalls, wpc, wcur>>
  PROVE  CallsOwned'
BY DEF CallsOwned, TypeOK, Goto

LEMMA CallStepType ==
  ASSUME TypeOK, CallsOwned, SignalsExclusive, NEW t \in Thread, CallStep(t)
  PROVE  TypeOK' /\ CallsOwned'
<1> USE DEF Goto, endVars, msgVars, netVars, svcVars, wrkVars, poolVars, Reply
<1>0. pc[t] # "idle"
  BY DEF CallStep, ReadId, WriteId, Insert, Dispatch, Send, Abort, WaitDone, WaitTimeout,
     Copy, EraseDone, SetTimeout, ResetTriggerSignal, EraseTimeout, PutSignal
<1>c. cur[t] \in Calls
  BY <1>0, HasCall
<1>m. message_id_ \in MsgIds
  BY DEF TypeOK
<1>1. CASE ReadId(t)
  <2>1. TypeOK'
    BY <1>1, <1>m, NextIdType DEF ReadId, TypeOK, Steps
  <2>2. QED
    BY <2>1, <1>1, OwnedKept DEF ReadId
<1>2. CASE WriteId(t)
  <2>1. TypeOK'
    BY <1>2, <1>c DEF WriteId, TypeOK, Steps
  <2>2. QED
    BY <2>1, <1>2, OwnedKept DEF WriteId
<1>3. CASE Insert(t)
  <2>1. TypeOK'
    BY <1>3, <1>c DEF Insert, TypeOK, Steps
  <2>2. QED
    BY <2>1, <1>3, OwnedKept DEF Insert
<1>4. ASSUME NEW e \in Found, Dispatch(t, e)
      PROVE  TypeOK' /\ CallsOwned'
  <2>1. TypeOK'
    BY <1>4, <1>c DEF Dispatch, TypeOK, Steps
  <2>2. CallsOwned'
    BY <1>4, OwnedKept DEF Dispatch
  <2>3. QED
    BY <2>1, <2>2
<1>5. CASE Send(t)
  <2>1. message_id_' \in MsgIds
    BY <1>5, <1>m, NextIdType DEF Send
  <2>2. atServer' \in SUBSET [id : MsgIds, call : Calls, kind : Kind]
    BY <1>5, <1>c DEF Send, TypeOK
  <2>3. TypeOK'
    BY <2>1, <2>2, <1>5 DEF Send, TypeOK, Steps
  <2>4. CallsOwned'
    BY <1>5, OwnedKept DEF Send
  <2>5. QED
    BY <2>3, <2>4
<1>6. CASE Abort(t)
  <2>1. TypeOK'
    BY <1>6, <1>c DEF Abort, Erase, Failed, TypeOK, Steps, NoCall, TYPE_FAILURE
  <2>2. QED
    BY <2>1, <1>6, OwnedKept DEF Abort
<1>7. CASE WaitDone(t)
  <2>1. TypeOK'
    BY <1>7, <1>c DEF WaitDone, TypeOK, Steps
  <2>2. QED
    BY <2>1, <1>7, OwnedKept DEF WaitDone
<1>8. CASE WaitTimeout(t)
  <2>1. TypeOK'
    BY <1>8, <1>c DEF WaitTimeout, TypeOK, Steps
  <2>2. QED
    BY <2>1, <1>8, OwnedKept DEF WaitTimeout
<1>9. CASE Copy(t)
  <2>1. TypeOK'
    BY <1>9, <1>c DEF Copy, TypeOK, Steps
  <2>2. QED
    BY <2>1, <1>9, OwnedKept DEF Copy
<1>10. CASE EraseDone(t)
  <2>1. /\ ret' \in [Calls -> Int]
        /\ outcome' \in [Calls -> {"none", "fail", "ok"}]
    BY <1>10, <1>c DEF EraseDone, Failed, TypeOK, TYPE_FAILURE
  <2>2. TypeOK'
    BY <2>1, <1>10, <1>c DEF EraseDone, Erase, TypeOK, Steps, NoCall
  <2>3. QED
    BY <2>2, <1>10, OwnedKept DEF EraseDone
<1>11. CASE SetTimeout(t)
  <2>1. TypeOK'
    BY <1>11, <1>c DEF SetTimeout, TypeOK, Steps
  <2>2. QED
    BY <2>1, <1>11, OwnedKept DEF SetTimeout
<1>12. CASE ResetTriggerSignal(t)
  <2>1. TypeOK'
    BY <1>12, <1>c DEF ResetTriggerSignal, TypeOK, Steps
  <2>2. QED
    BY <2>1, <1>12, OwnedKept DEF ResetTriggerSignal
<1>13. CASE EraseTimeout(t)
  <2>1. TypeOK'
    BY <1>13, <1>c DEF EraseTimeout, Erase, Failed, TypeOK, Steps, NoCall, TYPE_FAILURE
  <2>2. QED
    BY <2>1, <1>13, OwnedKept DEF EraseTimeout
<1>14. CASE PutSignal(t)
  <2>0. sig[cur[t]] \in created
    BY <1>0 DEF SignalsExclusive, InCall
  <2>1. TypeOK'
    BY <1>14, <2>0, <1>c DEF PutSignal, TypeOK, Steps, NoCall
  <2>2. CallsOwned'
    BY <1>14 DEF PutSignal, TypeOK, CallsOwned, NoCall
  <2>3. QED
    BY <2>1, <2>2
<1>15. QED
  BY <1>1, <1>2, <1>3, <1>4, <1>5, <1>6, <1>7, <1>8, <1>9, <1>10, <1>11, <1>12, <1>13,
     <1>14 DEF CallStep

\* Everyone but the user threads leaves cur, pc and ncalls alone.
LEMMA OthersType ==
  ASSUME TypeOK, CallsOwned,
         Service \/ Worker \/ Server \/ OnSocketErrorEvent \/ OnSocketConnectEvent
  PROVE  TypeOK' /\ CallsOwned'
<1> USE DEF endVars, msgVars, netVars, svcVars, wrkVars, poolVars
<1>1. CASE \E r \in replies : OnReplay(r)
  <2>1. PICK r \in replies : OnReplay(r)
    BY <1>1
  <2>2. r \in Reply
    BY DEF TypeOK
  <2>3. svc' \in Calls \cup {NoCall}
    BY <2>1, <2>2 DEF OnReplay, TypeOK, Reply
  <2>4. svcData' \in [call : Calls \cup {NoCall}, result : Nat]
    BY <2>1, <2>2 DEF OnReplay, TypeOK, Reply
  <2>5. QED
    BY <2>1, <2>3, <2>4 DEF OnReplay, TypeOK, CallsOwned
<1>2. CASE OnReplayTrigger
  <2>1. svc \in Calls /\ svcData.call \in Calls \cup {NoCall} /\ svcData.result \in Nat
    BY <1>2 DEF OnReplayTrigger, TypeOK
  <2>2. res_buffer' \in [Calls -> SUBSET Calls]
    BY <1>2, <2>1 DEF OnReplayTrigger, TypeOK
  <2>3. QED
    BY <1>2, <2>1, <2>2 DEF OnReplayTrigger, TypeOK, CallsOwned, NoCall
<1>3. CASE \E k \in Calls : LocalHandle(k)
  BY <1>3 DEF LocalHandle, TypeOK, CallsOwned, Calls, NoCall
<1>4. CASE SendDpReplyCheck
  BY <1>4 DEF SendDpReplyCheck, TypeOK, CallsOwned
<1>5. CASE ProcessDpReply
  <2>1. answered' \in SUBSET Calls
    BY <1>5 DEF ProcessDpReply, TypeOK, CallsOwned
  <2>2. QED
    BY <1>5, <2>1 DEF ProcessDpReply, TypeOK, CallsOwned
<1>6. CASE Server
  <2>1. PICK m \in atServer, n \in Results \cup {TYPE_SUCCEED, TYPE_FAILURE} :
          ServerAnswers(m, n)
    BY <1>6 DEF Server
  <2>2. n \in Nat
    BY ResultsAssumption DEF TYPE_SUCCEED, TYPE_FAILURE
  <2>3. [id |-> m.id, call |-> m.call, kind |-> m.kind, result |-> n] \in Reply
    BY <2>2 DEF TypeOK, Reply
  <2>4. QED
    BY <2>1, <2>3 DEF ServerAnswers, TypeOK, CallsOwned
<1>7. CASE OnSocketErrorEvent
  <2>1. breaks' \in 0..MaxBreaks
    BY <1>7, CallBounds DEF OnSocketErrorEvent, TypeOK
  <2>2. request_map_' \in [MsgIds -> Calls \cup {NoCall}]
    BY <1>7 DEF OnSocketErrorEvent
  <2>3. QED
    BY <1>7, <2>1, <2>2 DEF OnSocketErrorEvent, TypeOK, CallsOwned
<1>8. CASE OnSocketConnectEvent
  <2>1. (message_id_ + 1) % (IdMax + 1) \in MsgIds
    BY NextIdType DEF TypeOK
  <2>2. message_id_' \in MsgIds
    BY <1>8, <2>1, NextIdType DEF OnSocketConnectEvent
  <2>3. QED
    BY <1>8, <2>2 DEF OnSocketConnectEvent, TypeOK, CallsOwned
<1>9. QED
  BY <1>1, <1>2, <1>3, <1>4, <1>5, <1>6, <1>7, <1>8 DEF Service, Worker

---------------------------------------------------------------------------
(* A signal has one owner.  Between GetSignal and PutSignal nothing moves  *)
(* signals; GetSignal takes one that no call holds.                        *)

LEMMA SignalsKept ==
  ASSUME SignalsExclusive, UNCHANGED <<cur, sig, signal_queue_, created>>,
         \A t \in Thread : InCall(t)' = InCall(t)
  PROVE  SignalsExclusive'
BY DEF SignalsExclusive

LEMMA SignalsBegin ==
  ASSUME TypeOK, CallsOwned, SignalsExclusive, NEW t \in Thread, NEW k \in Calls,
         NEW kd \in Kinds, NEW s \in Signal, Begin(t, k, kd, s)
  PROVE  SignalsExclusive'
<1>1. /\ cur'[t] = k /\ sig'[k] = s
      /\ \A u \in Thread \ {t} : InCall(u)' => /\ InCall(u)
                                              /\ cur'[u] = cur[u]
                                              /\ sig'[cur[u]] = sig[cur[u]]
  BY CallBounds DEF Begin, Goto, TypeOK, CallsOwned, InCall, Calls, NoCall
<1>2. s \in created' \ signal_queue_'
  BY DEF Begin, GetSignal, TypeOK, poolVars
<1>3. \A u \in Thread : InCall(u) => /\ sig[cur[u]] # s
                                     /\ sig[cur[u]] \in created' \ signal_queue_'
  BY DEF Begin, GetSignal, SignalsExclusive
<1>4. ASSUME NEW u \in Thread, InCall(u)'
      PROVE  (sig[cur[u]])' \in (created \ signal_queue_)'
  BY <1>1, <1>2, <1>3, <1>4
<1>5. ASSUME NEW u \in Thread, NEW v \in Thread, InCall(u)', InCall(v)', u # v
      PROVE  (sig[cur[u]])' # (sig[cur[v]])'
  BY <1>1, <1>3, <1>5 DEF SignalsExclusive
<1>6. QED
  BY <1>4, <1>5 DEF SignalsExclusive

LEMMA SignalsCallStep ==
  ASSUME TypeOK, CallsOwned, SignalsExclusive, NEW t \in Thread, CallStep(t)
  PROVE  SignalsExclusive'
<1> USE DEF Goto, msgVars, poolVars
<1>1. CASE PutSignal(t)
  <2>1. /\ ~InCall(t)' /\ InCall(t)
        /\ \A u \in Thread \ {t} : (InCall(u)' <=> InCall(u)) /\ cur'[u] = cur[u]
    BY <1>1 DEF PutSignal, InCall, TypeOK
  <2>2. ASSUME NEW u \in Thread, InCall(u)'
        PROVE  (sig[cur[u]])' \in (created \ signal_queue_)'
    BY <1>1, <2>1, <2>2 DEF SignalsExclusive, PutSignal
  <2>3. ASSUME NEW u \in Thread, NEW v \in Thread, InCall(u)', InCall(v)', u # v
        PROVE  (sig[cur[u]])' # (sig[cur[v]])'
    BY <1>1, <2>1, <2>3 DEF SignalsExclusive, PutSignal
  <2>4. QED
    BY <2>2, <2>3 DEF SignalsExclusive
<1>2. CASE ~PutSignal(t)
  <2>1. UNCHANGED <<cur, sig, signal_queue_, created>>
    BY <1>2 DEF CallStep, ReadId, WriteId, Insert, Dispatch, Send, Abort, WaitDone,
       WaitTimeout, Copy, EraseDone, SetTimeout, ResetTriggerSignal, EraseTimeout
  <2>2. PICK to : Goto(t, pc[t], to) /\ pc[t] # "idle" /\ to # "idle"
    BY <1>2 DEF CallStep, ReadId, WriteId, Insert, Dispatch, Send, Abort, WaitDone,
       WaitTimeout, Copy, EraseDone, SetTimeout, ResetTriggerSignal, EraseTimeout
  <2>3. \A u \in Thread : InCall(u)' = InCall(u)
    BY <2>2 DEF InCall, TypeOK
  <2>4. QED
    BY <2>1, <2>3, SignalsKept
<1>3. QED
  BY <1>1, <1>2

---------------------------------------------------------------------------
(* request_map_ remembers calls in progress.  That the erased entry is the *)
(* only one of its call needs MapKeyed: two threads may be using one id.   *)

LEMMA MapBegin ==
  ASSUME TypeOK, CallsOwned, MapOnlyInFlight, MapKeyed, NEW t \in Thread,
         NEW k \in Calls, NEW kd \in Kinds, NEW s \in Signal, Begin(t, k, kd, s)
  PROVE  MapOnlyInFlight' /\ MapKeyed'
<1>1. MapKeyed'
  BY DEF Begin, MapKeyed
<1>2. ASSUME NEW i \in MsgIds, request_map_'[i] # NoCall
      PROVE  \E u \in Thread : cur'[u] = request_map_'[i] /\ pc'[u] \in Waiting
  <2>1. PICK u \in Thread : cur[u] = request_map_[i] /\ pc[u] \in Waiting
    BY <1>2 DEF Begin, MapOnlyInFlight
  <2>2. u # t
    BY <2>1 DEF Begin, Goto, Waiting
  <2>3. QED
    BY <2>1, <2>2 DEF Begin, Goto, TypeOK
<1>3. QED
  BY <1>1, <1>2 DEF MapOnlyInFlight

\* A step between two places where the entry may be in the map.
LEMMA MapKept ==
  ASSUME TypeOK, MapOnlyInFlight, MapKeyed, UNCHANGED <<cur, mid, request_map_>>,
         NEW t \in Thread, NEW from, NEW to, Goto(t, from, to),
         from \in Waiting => to \in Waiting
  PROVE  MapOnlyInFlight' /\ MapKeyed'
<1>1. MapKeyed'
  BY DEF MapKeyed
<1>2. \A u \in Thread : pc[u] \in Waiting => pc'[u] \in Waiting
  BY DEF Goto, TypeOK
<1>3. QED
  BY <1>1, <1>2 DEF MapOnlyInFlight

\* The entry is taken out on the way to PutSignal.
LEMMA MapErased ==
  ASSUME TypeOK, CallsOwned, MapOnlyInFlight, MapKeyed, UNCHANGED <<cur, mid>>,
         NEW t \in Thread, NEW from, Goto(t, from, "put"), Erase(t), from # "idle"
  PROVE  MapOnlyInFlight' /\ MapKeyed'
<1>0. cur[t] \in Calls /\ mid[cur[t]] \in MsgIds
  BY HasCall DEF Goto, TypeOK
<1>1. ASSUME NEW i \in MsgIds, request_map_'[i] # NoCall
      PROVE  /\ request_map_'[i] = request_map_[i]
             /\ request_map_[i] # cur[t]
  BY <1>0, <1>1 DEF Erase, MapKeyed, TypeOK
<1>2. MapKeyed'
  BY <1>1 DEF MapKeyed
<1>3. ASSUME NEW i \in MsgIds, request_map_'[i] # NoCall
      PROVE  \E u \in Thread : cur'[u] = request_map_'[i] /\ pc'[u] \in Waiting
  <2>1. PICK u \in Thread : cur[u] = request_map_[i] /\ pc[u] \in Waiting
    BY <1>1, <1>3 DEF MapOnlyInFlight
  <2>2. u # t
    BY <1>1, <1>3, <2>1
  <2>3. QED
    BY <1>1, <1>3, <2>1, <2>2 DEF Goto, TypeOK
<1>4. QED
  BY <1>2, <1>3 DEF MapOnlyInFlight

LEMMA MapCallStep ==
  ASSUME TypeOK, CallsOwned, MapOnlyInFlight, MapKeyed, NEW t \in Thread, CallStep(t)
  PROVE  MapOnlyInFlight' /\ MapKeyed'
<1> USE DEF msgVars
<1>1. CASE WriteId(t)
  <2>1. \A i \in MsgIds : request_map_[i] # NoCall => request_map_[i] # cur[t]
    <3>1. SUFFICES ASSUME NEW i \in MsgIds, request_map_[i] # NoCall
                   PROVE  request_map_[i] # cur[t]
      OBVIOUS
    <3>2. PICK u \in Thread : cur[u] = request_map_[i] /\ pc[u] \in Waiting
      BY <3>1 DEF MapOnlyInFlight
    <3>3. u # t
      BY <1>1, <3>2 DEF WriteId, Goto, Waiting
    <3>4. QED
      BY <3>1, <3>2, <3>3 DEF CallsOwned
  <2>2. MapKeyed'
    BY <1>1, <2>1 DEF WriteId, MapKeyed, TypeOK
  <2>3. \A u \in Thread : pc[u] \in Waiting => pc'[u] \in Waiting
    BY <1>1 DEF WriteId, Goto, TypeOK, Waiting
  <2>4. QED
    BY <1>1, <2>2, <2>3 DEF WriteId, MapOnlyInFlight
<1>2. CASE Insert(t)
  <2>0. cur[t] \in Calls /\ mid[cur[t]] \in MsgIds
    BY <1>2, HasCall DEF Insert, Goto, TypeOK
  <2>1. MapKeyed'
    BY <1>2, <2>0 DEF Insert, MapKeyed, TypeOK
  <2>2. pc'[t] \in Waiting /\ \A u \in Thread : pc[u] \in Waiting => pc'[u] \in Waiting
    BY <1>2 DEF Insert, Goto, TypeOK, Waiting
  <2>3. ASSUME NEW i \in MsgIds, request_map_'[i] # NoCall
        PROVE  \E u \in Thread : cur'[u] = request_map_'[i] /\ pc'[u] \in Waiting
    <3>1. CASE i = mid[cur[t]]
      BY <3>1, <1>2, <2>2 DEF Insert, TypeOK
    <3>2. CASE i # mid[cur[t]]
      BY <3>2, <1>2, <2>2, <2>3 DEF Insert, TypeOK, MapOnlyInFlight
    <3>3. QED
      BY <3>1, <3>2
  <2>4. QED
    BY <2>1, <2>3 DEF MapOnlyInFlight
<1>3. CASE Abort(t) \/ EraseDone(t) \/ EraseTimeout(t)
  BY <1>3, MapErased DEF Abort, EraseDone, EraseTimeout
<1>4. CASE PutSignal(t)
  <2>1. MapKeyed'
    BY <1>4 DEF PutSignal, MapKeyed
  <2>2. ASSUME NEW i \in MsgIds, request_map_'[i] # NoCall
        PROVE  \E u \in Thread : cur'[u] = request_map_'[i] /\ pc'[u] \in Waiting
    <3>1. PICK u \in Thread : cur[u] = request_map_[i] /\ pc[u] \in Waiting
      BY <1>4, <2>2 DEF PutSignal, MapOnlyInFlight
    <3>2. u # t
      BY <1>4, <3>1 DEF PutSignal, Goto, Waiting
    <3>3. QED
      BY <1>4, <3>1, <3>2 DEF PutSignal, Goto, TypeOK
  <2>3. QED
    BY <2>1, <2>2 DEF MapOnlyInFlight
<1>5. CASE ReadId(t)
  BY <1>5, MapKept DEF ReadId, Waiting
<1>6. CASE \E e \in Found : Dispatch(t, e)
  BY <1>6, MapKept DEF Dispatch, Waiting
<1>7. CASE Send(t)
  BY <1>7, MapKept DEF Send, Waiting
<1>8. CASE WaitDone(t) \/ WaitTimeout(t) \/ Copy(t)
  BY <1>8, MapKept DEF WaitDone, WaitTimeout, Copy, Waiting
<1>9. CASE SetTimeout(t) \/ ResetTriggerSignal(t)
  BY <1>9, MapKept DEF SetTimeout, ResetTriggerSignal, Waiting
<1>10. QED
  BY <1>1, <1>2, <1>3, <1>4, <1>5, <1>6, <1>7, <1>8, <1>9 DEF CallStep

LEMMA MapOthers ==
  ASSUME TypeOK, MapOnlyInFlight, MapKeyed,
         Service \/ Worker \/ Server \/ OnSocketErrorEvent \/ OnSocketConnectEvent
  PROVE  MapOnlyInFlight' /\ MapKeyed'
<1> USE DEF msgVars
<1>1. /\ UNCHANGED <<cur, mid, pc>>
      /\ \A i \in MsgIds : request_map_'[i] \in {request_map_[i], NoCall}
  BY DEF Service, Worker, Server, OnReplay, OnReplayTrigger, LocalHandle,
     SendDpReplyCheck, ProcessDpReply, ServerAnswers, OnSocketErrorEvent,
     OnSocketConnectEvent
<1>2. QED
  BY <1>1 DEF MapOnlyInFlight, MapKeyed

---------------------------------------------------------------------------
(* The theorems. *)

ClientInv == TypeOK /\ CallsOwned /\ SignalsExclusive /\ MapOnlyInFlight /\ MapKeyed

LEMMA ClientInit == Init => ClientInv
<1> SUFFICES ASSUME Init PROVE ClientInv
  OBVIOUS
<1>1. TypeOK /\ CallsOwned
  BY TypeInit
<1>2. SignalsExclusive
  BY DEF Init, SignalsExclusive, InCall
<1>3. MapOnlyInFlight /\ MapKeyed
  BY DEF Init, MapOnlyInFlight, MapKeyed
<1>4. QED
  BY <1>1, <1>2, <1>3 DEF ClientInv

LEMMA ClientStep ==
  ASSUME ClientInv, [Next]_vars
  PROVE  ClientInv'
<1> USE DEF ClientInv
<1>1. ASSUME NEW t \in Thread, NEW k \in Calls, NEW kd \in Kinds, NEW s \in Signal,
             Begin(t, k, kd, s)
      PROVE  ClientInv'
  BY <1>1, BeginType, SignalsBegin, MapBegin
<1>2. ASSUME NEW t \in Thread, CallStep(t)
      PROVE  ClientInv'
  BY <1>2, CallStepType, SignalsCallStep, MapCallStep
<1>3. CASE Service \/ Worker \/ Server \/ OnSocketErrorEvent \/ OnSocketConnectEvent
  <2>1. UNCHANGED <<cur, sig, signal_queue_, created, pc>>
    BY <1>3 DEF Service, Worker, Server, OnReplay, OnReplayTrigger, LocalHandle,
       SendDpReplyCheck, ProcessDpReply, ServerAnswers, OnSocketErrorEvent,
       OnSocketConnectEvent, msgVars, poolVars
  <2>2. SignalsExclusive'
    BY <2>1, SignalsKept DEF InCall
  <2>3. QED
    BY <1>3, <2>2, OthersType, MapOthers
<1>4. CASE UNCHANGED vars
  BY <1>4 DEF vars, TypeOK, CallsOwned, SignalsExclusive, InCall, MapOnlyInFlight, MapKeyed,
     msgVars, endVars, netVars, svcVars, wrkVars, poolVars
<1>5. QED
  BY <1>1, <1>2, <1>3, <1>4 DEF Next

\* The fields of DpClientImpl and of its DpMessages always have their types: the 16-bit
\* counter stays in range and the pool holds only signals that were created.
THEOREM TypeCorrect == Spec => []TypeOK
<1>1. ClientInv => TypeOK
  BY DEF ClientInv
<1>2. QED
  BY ClientInit, ClientStep, <1>1, PTL DEF Spec

\* However many threads call at once, GetSignal never gives two of them one signal and
\* never gives out a signal that is still in use.
THEOREM SignalsAlwaysExclusive == Spec => []SignalsExclusive
<1>1. ClientInv => SignalsExclusive
  BY DEF ClientInv
<1>2. QED
  BY ClientInit, ClientStep, <1>1, PTL DEF Spec

\* Whatever way a call ends, and even when two calls were given one message id,
\* request_map_ keeps no entry of a call that is over.
THEOREM MapAlwaysInFlight == Spec => []MapOnlyInFlight
<1>1. ClientInv => MapOnlyInFlight
  BY DEF ClientInv
<1>2. QED
  BY ClientInit, ClientStep, <1>1, PTL DEF Spec
=============================================================================
