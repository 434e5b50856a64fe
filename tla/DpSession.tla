----------------------------- MODULE DpSession -----------------------------
(***************************************************************************)
(* The session of one DpClientImpl with the server: how it connects,        *)
(* notices that the connection broke, connects again and announces its      *)
(* methods anew (lib_bsp/eventservice/dp/dpclient.cpp).                     *)
(*                                                                          *)
(*   - "msg" is the thread of msg_proc_evs_: it runs Init, and after a      *)
(*     reconnect message Init and ReListen.  CreateDpClient runs Init on    *)
(*     the caller's thread before anything else can happen; it is the       *)
(*     first turn of "msg" here.                                            *)
(*   - "user" calls ListenMessage; method_crit_ lets one thread at a time   *)
(*     in, so one caller stands for all.  RemoveMessage runs beside it under *)
(*     dp_req_crit_, one caller at a time (removing).                        *)
(*   - The service thread, "svc", sees connections come and break and       *)
(*     reads the answers.                                                   *)
(*                                                                          *)
(* Message ids are fresh here; that they are not always is the subject of   *)
(* DpClient.  The agents of the server are those of DpBroker, reduced to    *)
(* the registrations of this client.  Connections are used again.           *)
(***************************************************************************)
EXTENDS Integers, Sequences, FiniteSets

CONSTANTS Method,    \* numbers, in the order of method_map_
          Requests,  \* the methods of type TYPE_REQUEST
          Conn,      \* connections, used again once they are gone
          Signal,    \* SignalEvent objects that can be created
          MaxOps,    \* bound: calls of the user
          MaxBreaks  \* bound: connections that break

ASSUME SessionAssumption ==
  /\ Method \subseteq Nat \ {0} /\ Requests \subseteq Method
  /\ 0 \notin Conn /\ 0 \notin Signal
  /\ MaxOps \in Nat /\ MaxBreaks \in Nat

Th == {"msg", "user"}
NoConn == 0
NoSignal == 0

VARIABLES
  pc,             \* next step of each thread
  created,        \* CreateDpClient has returned
  reconnect,      \* a DP_RECONNECT_MESSAGE_ID message waits in msg_proc_evs_
  packet_socket_, \* the connection used
  async_connect_, \* how far the attempt to connect is
  signal_event_,  \* the signal of the last Init
  signal_queue_, signaled_, sig, \* pooled signals; triggered ones; a thread's signal
  svc,            \* "idle", or "trigger" in OnSocketConnectEvent
  method_map_, method_crit_,     \* methods listened to; who holds the lock
  arg, res,       \* a thread's method in ListenMessage, and the server's answer to it
  cursor,         \* where the iterator of ReListen is
  link,           \* connection -> "free", "up" or "down"
  toServer, answers, regs,       \* per connection: unread packets, answers, registrations
  removing,       \* the method of a RemoveMessage between its erase and its send, or 0
  ops, breaks,
  \* For the properties:
  accepted,       \* methods whose last ListenMessage the server agreed to
  early,          \* the last Init succeeded without a connection of its own attempt
  wild,           \* RemoveMessage erased what the iterator points to, on this connection
  crossed         \* methods a ListenMessage and a RemoveMessage of which overlapped, the last
                  \* time: one changed method_map_ between the other's change and its send

sigVars == <<signal_event_, signal_queue_, signaled_, sig>>
srvVars == <<link, toServer, answers, regs>>
overVars == <<wild, removing, crossed>>
listVars == <<method_map_, method_crit_, arg, res, cursor, accepted, overVars>>
vars == <<pc, created, reconnect, packet_socket_, async_connect_, sigVars, svc, listVars,
          srvVars, ops, breaks, early>>

Steps == {"idle", "init", "wait", "timeout", "next", "lock", "send", "answer"}
Msg == [op : {"add", "remove"}, m : Method, by : Th \cup {"nobody"}]
Answer == [conn : Conn, by : Th, ok : BOOLEAN]

TypeOK ==
  /\ pc \in [Th -> Steps]
  /\ created \in BOOLEAN /\ reconnect \in BOOLEAN
  /\ async_connect_ \in {"none", "connecting", "connected"}
  /\ packet_socket_ \in Conn \cup {NoConn}
  /\ signal_event_ \in Signal \cup {NoSignal} /\ signal_queue_ \subseteq Signal
  /\ signaled_ \in [Signal -> BOOLEAN]
  /\ sig \in [Th -> Signal \cup {NoSignal}]
  /\ svc \in {"idle", "trigger"}
  /\ method_map_ \subseteq Method /\ method_crit_ \in Th \cup {"nobody"}
  /\ arg \in [Th -> Method \cup {0}] /\ res \in [Th -> {"none", "ok", "refused"}]
  /\ cursor \in Method \cup {0}
  /\ link \in [Conn -> {"free", "up", "down"}]
  /\ toServer \in [Conn -> Seq(Msg)] /\ answers \subseteq Answer
  /\ regs \in [Conn -> SUBSET Method]
  /\ ops \in 0..MaxOps /\ breaks \in 0..MaxBreaks
  /\ accepted \subseteq method_map_ /\ early \in BOOLEAN /\ wild \in BOOLEAN
  /\ removing \in Method \cup {0} /\ crossed \subseteq Method

Init ==
  /\ pc = [t \in Th |-> IF t = "msg" THEN "init" ELSE "idle"]
  /\ created = FALSE /\ reconnect = FALSE
  /\ packet_socket_ = NoConn /\ async_connect_ = "none"
  /\ signal_event_ = NoSignal /\ signal_queue_ = {}
  /\ signaled_ = [s \in Signal |-> FALSE] /\ sig = [t \in Th |-> NoSignal]
  /\ svc = "idle"
  /\ method_map_ = {} /\ method_crit_ = "nobody"
  /\ arg = [t \in Th |-> 0] /\ res = [t \in Th |-> "none"] /\ cursor = 0
  /\ link = [c \in Conn |-> "free"] /\ toServer = [c \in Conn |-> <<>>]
  /\ answers = {} /\ regs = [c \in Conn |-> {}]
  /\ ops = 0 /\ breaks = 0
  /\ accepted = {} /\ early = FALSE /\ wild = FALSE /\ removing = 0 /\ crossed = {}

FirstOf(S) == {n \in S : \A k \in S : n <= k}

Goto(t, from, to) == pc[t] = from /\ pc' = [pc EXCEPT ![t] = to]

---------------------------------------------------------------------------
(* Init and ReConnect, on the thread of msg_proc_evs_.                      *)

\* A pooled signal, or a new one when none is pooled.
MayTake(s) ==
  \/ s \in signal_queue_
  \/ signal_queue_ = {} /\ s \in Signal \ {sig[t] : t \in Th}

GetSignal(t, s) ==
  /\ MayTake(s)
  /\ signal_queue_' = signal_queue_ \ {s}
  /\ sig' = [sig EXCEPT ![t] = s]

PutSignal(t) ==
  /\ signal_queue_' = signal_queue_ \cup {sig[t]}
  /\ sig' = [sig EXCEPT ![t] = NoSignal]

\* The attempt to connect replaces an older one, whose connecter is destroyed.  A socket
\* that is there stays until the new one comes.
InitConnect(s) ==
  /\ Goto("msg", "init", "wait")
  /\ GetSignal("msg", s)
  /\ signal_event_' = s
  /\ async_connect_' = "connecting"
  /\ early' = FALSE
  /\ UNCHANGED <<created, reconnect, packet_socket_, signaled_, svc, listVars, srvVars, ops, breaks>>

\* There is no connecter, or Connect fails at once: the signal goes back as it is.
InitFails(s) ==
  /\ Goto("msg", "init", "idle")
  /\ MayTake(s)
  /\ signal_queue_' = signal_queue_ \cup {s}
  /\ signal_event_' = s
  /\ async_connect_' = "none"
  /\ reconnect' = TRUE /\ created' = TRUE
  /\ early' = FALSE
  /\ UNCHANGED <<packet_socket_, signaled_, sig, svc, listVars, srvVars, ops, breaks>>

\* Mutant: the handler ends without ReListen.
InitDone_noReListen ==
  /\ Goto("msg", "wait", "idle")
  /\ signaled_[sig["msg"]]
  /\ signaled_' = [signaled_ EXCEPT ![sig["msg"]] = FALSE]
  /\ PutSignal("msg")
  /\ created' = TRUE
  /\ early' = (async_connect_ # "connected")
  /\ cursor' = 0
  /\ UNCHANGED <<reconnect, packet_socket_, async_connect_, signal_event_, svc, method_map_,
                 method_crit_, arg, res, accepted, overVars, srvVars, ops, breaks>>

\* WaitSignal succeeds: OnMessage goes on with ReListen, CreateDpClient does not.
InitDone ==
  /\ Goto("msg", "wait", IF created THEN "next" ELSE "idle")
  /\ signaled_[sig["msg"]]
  /\ signaled_' = [signaled_ EXCEPT ![sig["msg"]] = FALSE]
  /\ PutSignal("msg")
  /\ created' = TRUE
  /\ early' = (async_connect_ # "connected")
  /\ cursor' = 0
  /\ UNCHANGED <<reconnect, packet_socket_, async_connect_, signal_event_, svc, method_map_,
                 method_crit_, arg, res, accepted, overVars, srvVars, ops, breaks>>

InitTimeout ==
  /\ Goto("msg", "wait", "timeout")
  /\ ~signaled_[sig["msg"]]
  /\ UNCHANGED <<created, reconnect, packet_socket_, async_connect_, sigVars, svc, listVars,
                 srvVars, ops, breaks, early>>

\* Mutant: a failed Init is not tried again once the client is created.
ReConnect_once ==
  /\ Goto("msg", "timeout", "idle")
  /\ signaled_' = [signaled_ EXCEPT ![sig["msg"]] = FALSE]
  /\ PutSignal("msg")
  /\ reconnect' = (~created \/ reconnect) /\ created' = TRUE
  /\ UNCHANGED <<packet_socket_, async_connect_, signal_event_, svc, listVars, srvVars, ops,
                 breaks, early>>

\* ResetTriggerSignal and PutSignal; then ReConnect replaces the message that may be there.
ReConnect ==
  /\ Goto("msg", "timeout", "idle")
  /\ signaled_' = [signaled_ EXCEPT ![sig["msg"]] = FALSE]
  /\ PutSignal("msg")
  /\ reconnect' = TRUE /\ created' = TRUE
  /\ UNCHANGED <<packet_socket_, async_connect_, signal_event_, svc, listVars, srvVars, ops,
                 breaks, early>>

OnMessage ==
  /\ Goto("msg", "idle", "init")
  /\ reconnect /\ reconnect' = FALSE
  /\ UNCHANGED <<created, packet_socket_, async_connect_, sigVars, svc, listVars, srvVars,
                 ops, breaks, early>>

---------------------------------------------------------------------------
(* ReListen, ListenMessage and RemoveMessage.                               *)

After(m) == {n \in method_map_ : n > m}

\* The iterator moves on, without method_crit_.  Once it dangles it may come to any later
\* method, or to the end.
ReListenNext(m) ==
  /\ Goto("msg", "next", "lock")
  /\ IF wild THEN m > cursor ELSE m \in FirstOf(After(cursor))
  /\ cursor' = m
  /\ arg' = [arg EXCEPT !["msg"] = m]
  /\ UNCHANGED <<created, reconnect, packet_socket_, async_connect_, sigVars, svc, method_map_,
                 method_crit_, res, accepted, overVars, srvVars, ops, breaks, early>>

ReListenEnd ==
  /\ Goto("msg", "next", "idle")
  /\ wild \/ After(cursor) = {}
  /\ cursor' = 0
  /\ UNCHANGED <<created, reconnect, packet_socket_, async_connect_, sigVars, svc, method_map_,
                 method_crit_, arg, res, accepted, overVars, srvVars, ops, breaks, early>>

\* ListenMessage takes method_crit_ and keeps it to the end.  The method is in method_map_
\* before the server was asked.
TakeMethod(t, m) ==
  /\ method_crit_ = "nobody" /\ method_crit_' = t
  /\ method_map_' = method_map_ \cup {m}
  /\ accepted' = accepted \ {m}
  /\ crossed' = IF removing = m THEN crossed \cup {m} ELSE crossed \ {m}

ListenMessage(m) ==
  /\ Goto("user", "idle", "send")
  /\ created /\ ops < MaxOps /\ ops' = ops + 1
  /\ arg' = [arg EXCEPT !["user"] = m]
  /\ TakeMethod("user", m)
  /\ UNCHANGED <<created, reconnect, packet_socket_, async_connect_, sigVars, svc, res, cursor,
                 wild, removing, srvVars, breaks, early>>

\* ReListen has read the method before ListenMessage takes the lock.
ReListenMessage ==
  /\ Goto("msg", "lock", "send")
  /\ TakeMethod("msg", arg["msg"])
  /\ UNCHANGED <<created, reconnect, packet_socket_, async_connect_, sigVars, svc, arg, res,
                 cursor, wild, removing, srvVars, ops, breaks, early>>

\* Where a thread goes on after ListenMessage.
Back(t) == IF t = "msg" THEN "next" ELSE "idle"

ListenSend(t, s) ==
  /\ Goto(t, "send", "answer")
  /\ packet_socket_ # NoConn
  /\ GetSignal(t, s)
  /\ toServer' = [toServer EXCEPT ![packet_socket_] =
                    Append(@, [op |-> "add", m |-> arg[t], by |-> t])]
  /\ UNCHANGED <<created, reconnect, packet_socket_, async_connect_, signal_event_, signaled_,
                 svc, listVars, link, answers, regs, ops, breaks, early>>

Leave(t) ==
  /\ arg' = [arg EXCEPT ![t] = 0]
  /\ res' = [res EXCEPT ![t] = "none"]

\* Mutant: a signal goes back that was not taken.
ListenSendFails_puts(t) ==
  /\ Goto(t, "send", Back(t))
  /\ packet_socket_ = NoConn
  /\ method_crit_' = "nobody"
  /\ Leave(t)
  /\ PutSignal(t)
  /\ UNCHANGED <<created, reconnect, packet_socket_, async_connect_, signal_event_, signaled_,
                 svc, method_map_, cursor, accepted, overVars, srvVars, ops, breaks, early>>

\* There is no socket: the signal goes back unused.
ListenSendFails(t) ==
  /\ Goto(t, "send", Back(t))
  /\ packet_socket_ = NoConn
  /\ \E s \in Signal : MayTake(s) /\ signal_queue_' = signal_queue_ \cup {s}
  /\ method_crit_' = "nobody"
  /\ Leave(t)
  /\ UNCHANGED <<created, reconnect, packet_socket_, async_connect_, signal_event_, signaled_,
                 sig, svc, method_map_, cursor, accepted, overVars, srvVars, ops, breaks, early>>

\* The calls T are no longer in request_map_: nobody will look at answers to them.
Nobody(q, T) == [i \in DOMAIN q |-> IF q[i].by \in T THEN [q[i] EXCEPT !.by = "nobody"] ELSE q[i]]
Forget(T) ==
  /\ toServer' = [c \in Conn |-> Nobody(toServer[c], T)]
  /\ answers' = {a \in answers : a.by \notin T}

\* The signal came, or the time is over.
ListenReturns(t) ==
  /\ Goto(t, "answer", Back(t))
  /\ signaled_' = [signaled_ EXCEPT ![sig[t]] = FALSE]
  /\ PutSignal(t)
  /\ accepted' = IF signaled_[sig[t]] /\ res[t] = "ok" THEN accepted \cup ({arg[t]} \cap method_map_)
                                                        ELSE accepted
  /\ Forget({t}) /\ Leave(t)
  /\ method_crit_' = "nobody"
  /\ UNCHANGED <<created, reconnect, packet_socket_, async_connect_, signal_event_, svc,
                 method_map_, cursor, overVars, link, regs, ops, breaks, early>>

ReListening == pc["msg"] \in {"next", "lock", "send", "answer"}
\* dp_req_crit_ is held between two steps only by RemoveMessage.
ReqLockFree == removing = 0

\* A ListenMessage that has put m into method_map_ and not yet asked the server.
Inserting(m) == \E t \in Th : pc[t] = "send" /\ arg[t] = m

\* RemoveMessage takes dp_req_crit_, not method_crit_: it may run inside ListenMessage.
RemoveMessage(m) ==
  /\ ReqLockFree /\ removing' = m
  /\ created /\ ops < MaxOps /\ ops' = ops + 1
  /\ method_map_' = method_map_ \ {m}
  /\ accepted' = accepted \ {m}
  /\ wild' = (wild \/ (ReListening /\ cursor = m))
  /\ crossed' = IF Inserting(m) THEN crossed \cup {m} ELSE crossed \ {m}
  /\ UNCHANGED <<pc, created, reconnect, packet_socket_, async_connect_, sigVars, svc,
                 method_crit_, arg, res, cursor, srvVars, breaks, early>>

\* Mutant: the server is told only of requests.
RemoveSend_requests ==
  /\ ~ReqLockFree /\ removing' = 0
  /\ toServer' = IF packet_socket_ = NoConn \/ removing \notin Requests THEN toServer
                 ELSE [toServer EXCEPT ![packet_socket_] =
                         Append(@, [op |-> "remove", m |-> removing, by |-> "nobody"])]
  /\ UNCHANGED <<pc, created, reconnect, packet_socket_, async_connect_, sigVars, svc,
                 method_map_, method_crit_, arg, res, cursor, accepted, wild, crossed, link,
                 answers, regs, ops, breaks, early>>

RemoveSend ==
  /\ ~ReqLockFree /\ removing' = 0
  /\ toServer' = IF packet_socket_ = NoConn THEN toServer
                 ELSE [toServer EXCEPT ![packet_socket_] =
                         Append(@, [op |-> "remove", m |-> removing, by |-> "nobody"])]
  /\ UNCHANGED <<pc, created, reconnect, packet_socket_, async_connect_, sigVars, svc,
                 method_map_, method_crit_, arg, res, cursor, accepted, wild, crossed, link,
                 answers, regs, ops, breaks, early>>

---------------------------------------------------------------------------
(* The service thread.                                                      *)

\* The first half: the new socket replaces the one that is there, which is closed.
OnSocketConnectEvent(c) ==
  /\ svc = "idle" /\ svc' = "trigger"
  /\ async_connect_ = "connecting" /\ async_connect_' = "connected"
  /\ link[c] = "free"
  /\ link' = [d \in Conn |-> IF d = c THEN "up" ELSE IF d = packet_socket_ THEN "down" ELSE link[d]]
  /\ packet_socket_' = c
  /\ answers' = {a \in answers : a.conn # packet_socket_}
  /\ wild' = (wild /\ (ReListening \/ ~ReqLockFree))
  /\ crossed' = {m \in crossed : m = removing \/ Inserting(m)}
  /\ UNCHANGED <<pc, created, reconnect, sigVars, method_map_, method_crit_, arg, res, cursor,
                 accepted, removing, toServer, regs, ops, breaks, early>>

\* The second half triggers the signal that signal_event_ is now.
TriggerSignal ==
  /\ svc = "trigger" /\ svc' = "idle"
  /\ signaled_' = [signaled_ EXCEPT ![signal_event_] = TRUE]
  /\ UNCHANGED <<pc, created, reconnect, packet_socket_, async_connect_, signal_event_,
                 signal_queue_, sig, listVars, srvVars, ops, breaks, early>>

\* A failed attempt is only logged.
ConnectFailed ==
  /\ svc = "idle" /\ async_connect_ = "connecting" /\ async_connect_' = "none"
  /\ UNCHANGED <<pc, created, reconnect, packet_socket_, sigVars, svc, listVars, srvVars, ops,
                 breaks, early>>

OnSocketErrorEvent ==
  /\ svc = "idle" /\ ReqLockFree
  /\ packet_socket_ # NoConn /\ link[packet_socket_] = "down"
  /\ Forget(Th)
  /\ packet_socket_' = NoConn
  /\ reconnect' = TRUE
  /\ UNCHANGED <<pc, created, async_connect_, sigVars, svc, listVars, link, regs, ops, breaks,
                 early>>

OnAddReplayMessage(a) ==
  /\ svc = "idle" /\ ReqLockFree
  /\ a \in answers /\ answers' = answers \ {a}
  /\ res' = [res EXCEPT ![a.by] = IF a.ok THEN "ok" ELSE "refused"]
  /\ signaled_' = [signaled_ EXCEPT ![sig[a.by]] = TRUE]
  /\ UNCHANGED <<pc, created, reconnect, packet_socket_, async_connect_, signal_event_,
                 signal_queue_, sig, svc, method_map_, method_crit_, arg, cursor, accepted, overVars,
                 link, toServer, regs, ops, breaks, early>>

---------------------------------------------------------------------------
(* The connections and the agents of the server.                            *)

Break ==
  /\ breaks < MaxBreaks /\ breaks' = breaks + 1
  /\ packet_socket_ # NoConn /\ link[packet_socket_] = "up"
  /\ link' = [link EXCEPT ![packet_socket_] = "down"]
  /\ UNCHANGED <<pc, created, reconnect, packet_socket_, async_connect_, sigVars, svc, listVars,
                 toServer, answers, regs, ops, early>>

\* A request method has one listener, and no second registration by the same agent either.
CheckMessage(m) == \A c \in Conn : m \in regs[c] => m \notin Requests

ServerReads(c) ==
  /\ toServer[c] # <<>>
  /\ toServer' = [toServer EXCEPT ![c] = Tail(@)]
  /\ LET p == Head(toServer[c])
     IN IF p.op = "remove"
        THEN regs' = [regs EXCEPT ![c] = @ \ {p.m}] /\ UNCHANGED answers
        ELSE /\ regs' = [regs EXCEPT ![c] = IF CheckMessage(p.m) THEN @ \cup {p.m} ELSE @]
             /\ answers' = IF link[c] = "up" /\ p.by # "nobody"
                           THEN answers \cup {[conn |-> c, by |-> p.by, ok |-> CheckMessage(p.m)]}
                           ELSE answers
  /\ UNCHANGED <<pc, created, reconnect, packet_socket_, async_connect_, sigVars, svc, listVars,
                 link, ops, breaks, early>>

\* The server learns that the connection is gone; what it has not read is lost.
AgentGone(c) ==
  /\ link[c] = "down" /\ c # packet_socket_
  /\ link' = [link EXCEPT ![c] = "free"]
  /\ regs' = [regs EXCEPT ![c] = {}]
  /\ toServer' = [toServer EXCEPT ![c] = <<>>]
  /\ UNCHANGED <<pc, created, reconnect, packet_socket_, async_connect_, sigVars, svc, listVars,
                 answers, ops, breaks, early>>

---------------------------------------------------------------------------
Listening(t) == (\E s \in Signal : ListenSend(t, s)) \/ ListenSendFails(t) \/ ListenReturns(t)

MsgStep ==
  \/ \E s \in Signal : InitConnect(s) \/ InitFails(s)
  \/ InitDone \/ InitTimeout \/ ReConnect \/ OnMessage
  \/ (\E m \in Method : ReListenNext(m)) \/ ReListenMessage \/ ReListenEnd
  \/ Listening("msg")

UserStep == Listening("user") \/ RemoveSend

Connects == \E c \in Conn : OnSocketConnectEvent(c)

Next ==
  \/ MsgStep \/ UserStep
  \/ \E m \in Method : ListenMessage(m) \/ RemoveMessage(m)
  \/ Connects \/ TriggerSignal \/ ConnectFailed \/ OnSocketErrorEvent
  \/ \E a \in answers : OnAddReplayMessage(a)
  \/ Break \/ \E c \in Conn : ServerReads(c) \/ AgentGone(c)

Spec == Init /\ [][Next]_vars

---------------------------------------------------------------------------
(* Properties.                                                              *)

\* A client without a connection is never given up: a reconnect message waits or the handler
\* is in Init.  The exception is an Init that a late connection of the attempt before had
\* signalled, so that it ended before its own attempt did.
NotGivenUp ==
  packet_socket_ = NoConn =>
    \/ pc["msg"] \in {"init", "wait", "timeout"}
    \/ reconnect
    \/ early

\* Registrations outlive connections: when the client has settled after any number of
\* reconnects, late connections and calls meanwhile, a method whose last registration the
\* server agreed to is registered on the connection in use.  Not so when the connection came
\* after its Init had ended, when RemoveMessage pulled the iterator of ReListen away, or when
\* ListenMessage ran between the erase and the send of a RemoveMessage of the same method:
\* the REMOVE_MESSAGE then follows the ADD_MESSAGE.
Registered ==
  \A c \in Conn :
    /\ packet_socket_ = c /\ link[c] = "up"
    /\ pc["msg"] = "idle" /\ ~reconnect /\ svc = "idle"
    /\ ~early /\ ~wild
    => accepted \ crossed \subseteq regs[c]

\* What was removed does not come back: once the server has read everything, a connection in
\* use has no registration of a method the client no longer listens to.  Not so when
\* RemoveMessage ran between the insertion and the send of a ListenMessage of the same
\* method, the user's or ReListen's, for the two take different locks: the ADD_MESSAGE then
\* follows the REMOVE_MESSAGE, and the server keeps a method that method_map_ has not.
NoGhost ==
  \A c \in Conn :
    packet_socket_ = c /\ toServer[c] = <<>> /\ ReqLockFree
    => regs[c] \ crossed \subseteq method_map_
=============================================================================
