--------------------------- MODULE DpSession_proof ---------------------------
(* Proofs about DpSession.                                                   *)
EXTENDS DpSession, SequenceTheorems, TLAPS

\* What the types need besides themselves: a thread inside Init or ListenMessage has a
\* signal, and one inside ListenMessage a method.
Holds ==
  /\ \A t \in Th : pc[t] \in {"wait", "timeout", "answer"} => sig[t] \in Signal
  /\ \A t \in Th : pc[t] \in {"lock", "send", "answer"} => arg[t] \in Method

TInv == TypeOK /\ Holds

LEMMA InitTInv == Init => TInv
<1> SUFFICES ASSUME Init PROVE TInv
  OBVIOUS
<1>1. Holds
  BY DEF Init, Holds, Th
<1>2. pc \in [Th -> Steps] /\ arg \in [Th -> Method \cup {0}] /\ sig \in [Th -> Signal \cup {NoSignal}]
  BY DEF Init, Th, Steps
<1>3. toServer \in [Conn -> Seq(Msg)] /\ regs \in [Conn -> SUBSET Method] /\ answers \subseteq Answer
  BY DEF Init
<1>4. /\ signaled_ \in [Signal -> BOOLEAN] /\ res \in [Th -> {"none", "ok", "refused"}]
      /\ link \in [Conn -> {"free", "up", "down"}]
  BY DEF Init
<1>5. /\ signal_queue_ \subseteq Signal /\ method_map_ \subseteq Method
      /\ accepted \subseteq method_map_
  BY DEF Init
<1>6. ops \in 0..MaxOps /\ breaks \in 0..MaxBreaks
  BY SessionAssumption DEF Init
<1>7. /\ created \in BOOLEAN /\ reconnect \in BOOLEAN /\ early \in BOOLEAN /\ wild \in BOOLEAN
      /\ async_connect_ \in {"none", "connecting", "connected"} /\ svc \in {"idle", "trigger"}
      /\ packet_socket_ \in Conn \cup {NoConn} /\ signal_event_ \in Signal \cup {NoSignal}
      /\ method_crit_ \in Th \cup {"nobody"} /\ cursor \in Method \cup {0}
      /\ removing \in Method \cup {0} /\ crossed \subseteq Method
  BY DEF Init
<1> QED BY <1>1, <1>2, <1>3, <1>4, <1>5, <1>6, <1>7 DEF TInv, TypeOK

\* Forgetting calls keeps packets packets.
LEMMA NobodyType ==
  ASSUME NEW q \in Seq(Msg), NEW T \in SUBSET Th
  PROVE  Nobody(q, T) \in Seq(Msg)
<1>1. DOMAIN q = 1..Len(q) /\ Len(q) \in Nat
  OBVIOUS
<1>2. \A p \in Msg : [p EXCEPT !.by = "nobody"] \in Msg
  BY DEF Msg
<1>3. \A i \in 1..Len(q) : q[i] \in Msg
  OBVIOUS
<1> QED BY <1>1, <1>2, <1>3 DEF Nobody

LEMMA ForgetType ==
  ASSUME TypeOK, NEW T \in SUBSET Th, Forget(T)
  PROVE  toServer' \in [Conn -> Seq(Msg)] /\ answers' \subseteq Answer
BY NobodyType DEF Forget, TypeOK

LEMMA MayTakeType ==
  ASSUME TypeOK, NEW s, MayTake(s)
  PROVE  s \in Signal
BY DEF MayTake, TypeOK

LEMMA InitConnectType == ASSUME TInv, NEW s \in Signal, InitConnect(s) PROVE TInv'
BY DEF TInv, TypeOK, Holds, InitConnect, Goto, GetSignal, Th, Steps, listVars, overVars, srvVars

LEMMA InitFailsType == ASSUME TInv, NEW s \in Signal, InitFails(s) PROVE TInv'
BY DEF TInv, TypeOK, Holds, InitFails, Goto, Th, Steps, listVars, overVars, srvVars

LEMMA InitDoneType == ASSUME TInv, InitDone PROVE TInv'
BY DEF TInv, TypeOK, Holds, InitDone, Goto, PutSignal, Th, Steps, srvVars, overVars

LEMMA InitTimeoutType == ASSUME TInv, InitTimeout PROVE TInv'
BY DEF TInv, TypeOK, Holds, InitTimeout, Goto, Th, Steps, sigVars, listVars, overVars, srvVars

LEMMA ReConnectType == ASSUME TInv, ReConnect PROVE TInv'
BY DEF TInv, TypeOK, Holds, ReConnect, Goto, PutSignal, Th, Steps, listVars, overVars, srvVars

LEMMA OnMessageType == ASSUME TInv, OnMessage PROVE TInv'
<1>1. pc' \in [Th -> Steps] /\ reconnect' \in BOOLEAN
  BY DEF TInv, TypeOK, OnMessage, Goto, Steps
<1>3. TypeOK'
  BY <1>1 DEF TInv, TypeOK, OnMessage, sigVars, listVars, overVars, srvVars
<1>2. Holds'
  BY DEF TInv, TypeOK, Holds, OnMessage, Goto, Th, sigVars, listVars
<1> QED BY <1>2, <1>3 DEF TInv

LEMMA ReListenNextType == ASSUME TInv, NEW m \in Method, ReListenNext(m) PROVE TInv'
BY DEF TInv, TypeOK, Holds, ReListenNext, Goto, Th, Steps, sigVars, srvVars, overVars

LEMMA ReListenEndType == ASSUME TInv, ReListenEnd PROVE TInv'
BY DEF TInv, TypeOK, Holds, ReListenEnd, Goto, Th, Steps, sigVars, srvVars, overVars

LEMMA ListenMessageType == ASSUME TInv, NEW m \in Method, ListenMessage(m) PROVE TInv'
BY SessionAssumption
   DEF TInv, TypeOK, Holds, ListenMessage, TakeMethod, Goto, Th, Steps, sigVars, srvVars

LEMMA ReListenMessageType == ASSUME TInv, ReListenMessage PROVE TInv'
BY DEF TInv, TypeOK, Holds, ReListenMessage, TakeMethod, Goto, Th, Steps, sigVars, srvVars

LEMMA ListenSendType ==
  ASSUME TInv, NEW t \in Th, NEW s \in Signal, ListenSend(t, s) PROVE TInv'
<1>1. toServer' \in [Conn -> Seq(Msg)]
  <2>1. packet_socket_ \in Conn /\ arg[t] \in Method
    BY DEF TInv, TypeOK, Holds, ListenSend, Goto
  <2>2. [op |-> "add", m |-> arg[t], by |-> t] \in Msg
    BY <2>1 DEF Msg
  <2> QED BY <2>1, <2>2 DEF TInv, TypeOK, ListenSend
<1> QED BY <1>1 DEF TInv, TypeOK, Holds, ListenSend, Goto, GetSignal, Th, Steps, listVars, overVars

LEMMA ListenSendFailsType == ASSUME TInv, NEW t \in Th, ListenSendFails(t) PROVE TInv'
BY DEF TInv, TypeOK, Holds, ListenSendFails, Back, Leave, Goto, Th, Steps, sigVars, srvVars,
       overVars

LEMMA ListenReturnsType == ASSUME TInv, NEW t \in Th, ListenReturns(t) PROVE TInv'
<1>1. toServer' \in [Conn -> Seq(Msg)] /\ answers' \subseteq Answer
  BY ForgetType DEF TInv, ListenReturns
<1> QED BY <1>1 DEF TInv, TypeOK, Holds, ListenReturns, Back, Leave, Goto, PutSignal, Th, Steps,
                    overVars

LEMMA RemoveMessageType == ASSUME TInv, NEW m \in Method, RemoveMessage(m) PROVE TInv'
BY SessionAssumption
   DEF TInv, TypeOK, Holds, RemoveMessage, Th, Steps, sigVars, srvVars

LEMMA RemoveSendType == ASSUME TInv, RemoveSend PROVE TInv'
<1>1. toServer' \in [Conn -> Seq(Msg)]
  <2>1. removing \in Method
    BY DEF TInv, TypeOK, RemoveSend, ReqLockFree
  <2>2. [op |-> "remove", m |-> removing, by |-> "nobody"] \in Msg
    BY <2>1 DEF Msg
  <2> QED BY <2>2 DEF TInv, TypeOK, RemoveSend
<1> QED BY <1>1 DEF TInv, TypeOK, Holds, RemoveSend, Th, Steps, sigVars

LEMMA OnSocketConnectEventType ==
  ASSUME TInv, NEW c \in Conn, OnSocketConnectEvent(c) PROVE TInv'
BY DEF TInv, TypeOK, Holds, OnSocketConnectEvent, Th, Steps, sigVars

LEMMA TriggerSignalType == ASSUME TInv, TriggerSignal PROVE TInv'
<1>1. TypeOK'
  BY DEF TInv, TypeOK, TriggerSignal, listVars, overVars, srvVars
<1>2. Holds'
  BY DEF TInv, Holds, TriggerSignal, listVars
<1> QED BY <1>1, <1>2 DEF TInv

LEMMA ConnectFailedType == ASSUME TInv, ConnectFailed PROVE TInv'
BY DEF TInv, TypeOK, Holds, ConnectFailed, Th, Steps, sigVars, listVars, overVars, srvVars

LEMMA OnSocketErrorEventType == ASSUME TInv, OnSocketErrorEvent PROVE TInv'
<1>1. toServer' \in [Conn -> Seq(Msg)] /\ answers' \subseteq Answer
  BY ForgetType DEF TInv, OnSocketErrorEvent
<1> QED BY <1>1 DEF TInv, TypeOK, Holds, OnSocketErrorEvent, Th, Steps, sigVars, listVars, overVars

LEMMA OnAddReplayMessageType ==
  ASSUME TInv, NEW a \in answers, OnAddReplayMessage(a) PROVE TInv'
<1>1. TypeOK'
  BY DEF TInv, TypeOK, OnAddReplayMessage, Answer, overVars
<1>2. Holds'
  BY DEF TInv, Holds, OnAddReplayMessage
<1> QED BY <1>1, <1>2 DEF TInv

LEMMA BreakType == ASSUME TInv, Break PROVE TInv'
BY SessionAssumption DEF TInv, TypeOK, Holds, Break, Th, Steps, sigVars, listVars, overVars

LEMMA ServerReadsType == ASSUME TInv, NEW c \in Conn, ServerReads(c) PROVE TInv'
<1> DEFINE p == Head(toServer[c])
<1>1. p \in Msg /\ Tail(toServer[c]) \in Seq(Msg)
  <2>1. toServer[c] \in Seq(Msg) /\ toServer[c] # <<>>
    BY DEF TInv, TypeOK, ServerReads
  <2> QED BY <2>1, HeadTailProperties
<1>2. toServer' \in [Conn -> Seq(Msg)]
  BY <1>1 DEF TInv, TypeOK, ServerReads
<1>3. p.m \in Method /\ p.by \in Th \cup {"nobody"}
  BY <1>1 DEF Msg
<1>4. regs' \in [Conn -> SUBSET Method]
  <2>1. \E R \in SUBSET Method : regs' = [regs EXCEPT ![c] = R]
    <3>1. regs[c] \in SUBSET Method
      BY DEF TInv, TypeOK
    <3>2. CASE p.op = "remove"
      <4>1. regs' = [regs EXCEPT ![c] = regs[c] \ {p.m}]
        BY <3>2 DEF ServerReads, TInv, TypeOK
      <4> QED BY <3>1, <4>1
    <3>3. CASE p.op # "remove"
      <4> DEFINE R == IF CheckMessage(p.m) THEN regs[c] \cup {p.m} ELSE regs[c]
      <4>1. regs' = [regs EXCEPT ![c] = R]
        BY <3>3 DEF ServerReads, TInv, TypeOK
      <4>2. R \in SUBSET Method
        BY <1>3, <3>1
      <4> QED BY <4>1, <4>2
    <3> QED BY <3>2, <3>3
  <2> QED BY <2>1 DEF TInv, TypeOK
<1>5. CheckMessage(p.m) \in BOOLEAN
  BY DEF CheckMessage
<1>6. answers' \subseteq Answer
  <2>1. CASE p.op = "remove"
    BY <2>1 DEF TInv, TypeOK, ServerReads
  <2>2. CASE p.op # "remove" /\ link[c] = "up" /\ p.by # "nobody"
    <3>1. [conn |-> c, by |-> p.by, ok |-> CheckMessage(p.m)] \in Answer
      BY <1>3, <1>5, <2>2 DEF Answer
    <3> QED BY <2>2, <3>1 DEF TInv, TypeOK, ServerReads
  <2>3. CASE p.op # "remove" /\ ~(link[c] = "up" /\ p.by # "nobody")
    BY <2>3 DEF TInv, TypeOK, ServerReads
  <2> QED BY <2>1, <2>2, <2>3
<1> QED BY <1>2, <1>4, <1>6 DEF TInv, TypeOK, Holds, ServerReads, Th, Steps, sigVars, listVars, overVars

LEMMA AgentGoneType == ASSUME TInv, NEW c \in Conn, AgentGone(c) PROVE TInv'
<1>1. toServer' \in [Conn -> Seq(Msg)]
  BY DEF TInv, TypeOK, AgentGone
<1> QED BY <1>1 DEF TInv, TypeOK, Holds, AgentGone, Th, Steps, sigVars, listVars, overVars

\* Every step keeps the types.
LEMMA NextTInv == TInv /\ [Next]_vars => TInv'
<1> SUFFICES ASSUME TInv, [Next]_vars PROVE TInv'
  OBVIOUS
<1>1. CASE MsgStep
  BY <1>1, InitConnectType, InitFailsType, InitDoneType, InitTimeoutType, ReConnectType,
     OnMessageType, ReListenNextType, ReListenMessageType, ReListenEndType, ListenSendType,
     ListenSendFailsType, ListenReturnsType DEF MsgStep, Listening, Th
<1>2. CASE UserStep
  BY <1>2, ListenSendType, ListenSendFailsType, ListenReturnsType, RemoveSendType
  DEF UserStep, Listening, Th
<1>3. CASE \E m \in Method : ListenMessage(m) \/ RemoveMessage(m)
  BY <1>3, ListenMessageType, RemoveMessageType
<1>4. CASE Connects \/ TriggerSignal \/ ConnectFailed \/ OnSocketErrorEvent
  BY <1>4, OnSocketConnectEventType, TriggerSignalType, ConnectFailedType,
     OnSocketErrorEventType DEF Connects
<1>5. CASE \E a \in answers : OnAddReplayMessage(a)
  BY <1>5, OnAddReplayMessageType
<1>6. CASE Break \/ \E c \in Conn : ServerReads(c) \/ AgentGone(c)
  BY <1>6, BreakType, ServerReadsType, AgentGoneType
<1>7. CASE UNCHANGED vars
  BY <1>7 DEF TInv, TypeOK, Holds, vars, sigVars, listVars, overVars, srvVars
<1> QED BY <1>1, <1>2, <1>3, <1>4, <1>5, <1>6, <1>7 DEF Next

\* The state of the client, of its threads and of the server's agents keeps its type: no
\* signal is put back that was not taken, and what the server agreed to is in method_map_.
THEOREM SpecTypeOK == Spec => []TypeOK
<1>1. TInv => TypeOK
  BY DEF TInv
<1> QED BY <1>1, InitTInv, NextTInv, PTL DEF Spec

---------------------------------------------------------------------------
(* A client without connection is not given up.                              *)

\* What OnSocketConnectEvent leaves behind: an Init that succeeded with a connection of its
\* own attempt has found it, or it was lost since and a message is posted.
Recovering ==
  /\ packet_socket_ = NoConn =>
       \/ pc["msg"] \in {"init", "timeout"}
       \/ pc["msg"] = "wait" /\ (async_connect_ = "connected" => reconnect)
       \/ reconnect
       \/ early
  /\ pc["msg"] = "wait" => ~early

LEMMA InitRecovering == Init => Recovering
BY DEF Init, Recovering, Th

LEMMA NextRecovering ==
  ASSUME TInv, Recovering, [Next]_vars
  PROVE  Recovering'
<1>0. pc \in [Th -> Steps] /\ NoConn \notin Conn
  BY SessionAssumption DEF TInv, TypeOK, NoConn
<1>1. CASE \E s \in Signal : InitConnect(s) \/ InitFails(s)
  BY <1>0, <1>1 DEF Recovering, InitConnect, InitFails, Goto, Th
<1>2. CASE InitDone
  BY <1>0, <1>2 DEF Recovering, InitDone, Goto, Th
<1>2a. CASE InitTimeout \/ ReConnect
  BY <1>0, <1>2a DEF Recovering, InitTimeout, ReConnect, Goto, Th
<1>2b. CASE OnMessage
  BY <1>0, <1>2b DEF Recovering, OnMessage, Goto, Th
<1>3. CASE (\E m \in Method : ReListenNext(m)) \/ ReListenMessage \/ ReListenEnd
  BY <1>0, <1>3 DEF Recovering, ReListenNext, ReListenMessage, ReListenEnd, Goto, Th
<1>4. CASE Listening("msg") \/ UserStep
  <2>1. /\ UNCHANGED <<packet_socket_, reconnect, async_connect_, early>>
        /\ \/ pc'["msg"] = pc["msg"]
           \/ pc["msg"] \in {"send", "answer"} /\ pc'["msg"] \in {"answer", "next"}
    BY <1>0, <1>4 DEF Listening, UserStep, ListenSend, ListenSendFails, ListenReturns,
       RemoveSend, Goto, Back, Th
  <2> QED BY <2>1 DEF Recovering
<1>5. CASE \E m \in Method : ListenMessage(m) \/ RemoveMessage(m)
  BY <1>0, <1>5 DEF Recovering, ListenMessage, RemoveMessage, Goto, Th
<1>6. CASE Connects \/ TriggerSignal \/ ConnectFailed \/ OnSocketErrorEvent
  <2>1. CASE Connects
    BY <1>0, <2>1 DEF Recovering, Connects, OnSocketConnectEvent
  <2>2. CASE TriggerSignal \/ OnSocketErrorEvent
    BY <2>2 DEF Recovering, TriggerSignal, OnSocketErrorEvent
  <2>3. CASE ConnectFailed
    BY <2>3 DEF Recovering, ConnectFailed
  <2> QED BY <1>6, <2>1, <2>2, <2>3
<1>7. CASE \E a \in answers : OnAddReplayMessage(a)
  BY <1>7 DEF Recovering, OnAddReplayMessage
<1>8. CASE Break \/ \E c \in Conn : ServerReads(c) \/ AgentGone(c)
  BY <1>8 DEF Recovering, Break, ServerReads, AgentGone
<1>9. CASE UNCHANGED vars
  BY <1>9 DEF Recovering, vars
<1> QED BY <1>1, <1>2, <1>2a, <1>2b, <1>3, <1>4, <1>5, <1>6, <1>7, <1>8, <1>9
  DEF Next, MsgStep

\* For any number of methods, connections, signals, breaks and calls: while the client has no
\* connection, a reconnect message waits, its handler is in Init, or a late connection has
\* deceived Init.
THEOREM SpecNotGivenUp == Spec => []NotGivenUp
<1>1. Recovering => NotGivenUp
  BY DEF Recovering, NotGivenUp
<1>2. Init => TInv /\ Recovering
  BY InitTInv, InitRecovering
<1>3. TInv /\ Recovering /\ [Next]_vars => TInv' /\ Recovering'
  BY NextTInv, NextRecovering
<1> QED BY <1>1, <1>2, <1>3, PTL DEF Spec
---------------------------------------------------------------------------
(* What the server agreed to outlives connections, and so do removals.       *)

HasRemove(q, m) == \E j \in 1..Len(q) : q[j].op = "remove" /\ q[j].m = m

\* The server, once it has read q, has no registration of m.
Undone(q, R, m) ==
  /\ m \in R => HasRemove(q, m)
  /\ \A i \in 1..Len(q) :
       q[i].op = "add" /\ q[i].m = m => \E j \in 1..Len(q) : j > i /\ q[j].op = "remove" /\ q[j].m = m

\* A packet of a call whose answer somebody waits for, for one of the methods L, is not
\* followed by a removal.
LastWord(q, L) ==
  \A i, j \in 1..Len(q) :
    i < j /\ q[i].by # "nobody" /\ q[i].m \in L => ~(q[j].op = "remove" /\ q[j].m = q[i].m)

\* Methods listened to whose last ListenMessage no RemoveMessage overlapped.
Live == method_map_ \ crossed

\* Connections: one that is free is blank, and only the one in use is up.
Links ==
  \A c \in Conn :
    /\ link[c] = "free" => c # packet_socket_ /\ toServer[c] = <<>> /\ regs[c] = {}
    /\ link[c] = "up" => c = packet_socket_

\* Threads: who is in ListenMessage has the lock and has an answer only while it waits for
\* one; its method is still in method_map_ when it asks the server, and that of RemoveMessage
\* is not when it tells the server, unless the two overlapped.
Threads ==
  /\ pc["user"] \in {"idle", "send", "answer"}
  /\ \A t \in Th : /\ pc[t] \in {"send", "answer"} => method_crit_ = t
                   /\ pc[t] # "answer" => res[t] = "none"
                   /\ pc[t] = "send" => arg[t] \in method_map_ \cup crossed
  /\ pc["msg"] \in {"lock", "send", "answer"} => arg["msg"] = cursor
  /\ removing \notin Live
  /\ ~created => /\ accepted = {} /\ pc["user"] = "idle"
                 /\ pc["msg"] \in {"init", "wait", "timeout"}

Connecting == pc["msg"] \in {"init", "wait", "timeout"} \/ reconnect \/ early

Attempt == async_connect_ = "connecting" => Connecting

\* Packets that bear a thread's name are those of its present call.
Calls ==
  \A c \in Conn : \A i \in 1..Len(toServer[c]) :
    LET p == toServer[c][i]
    IN p.by # "nobody" => pc[p.by] = "answer" /\ p.op = "add" /\ p.m = arg[p.by]

\* m is registered on the connection in use and will stay so.
Fresh(m) ==
  /\ packet_socket_ \in Conn
  /\ m \in regs[packet_socket_] /\ ~HasRemove(toServer[packet_socket_], m)

Answered ==
  \A a \in answers : /\ a.conn = packet_socket_ /\ pc[a.by] = "answer"
                     /\ a.ok /\ arg[a.by] \in Live => Fresh(arg[a.by])

\* What the server has agreed to, whether or not ListenMessage has returned.
Agreed ==
  Live \cap (accepted \cup {arg[t] : t \in {u \in Th : pc[u] = "answer" /\ res[u] = "ok"}})

\* ReListen is still to come to m.
Ahead(m) ==
  \/ pc["msg"] = "lock" /\ m >= cursor
  \/ pc["msg"] \in {"next", "send", "answer"} /\ m > cursor

Excused == 
  \/ packet_socket_ = NoConn \/ (packet_socket_ # NoConn /\ link[packet_socket_] # "up")
  \/ Connecting \/ wild

Kept == \A m \in Agreed : Excused \/ Ahead(m) \/ Fresh(m)

\* The methods nobody listens to, except the one RemoveMessage is at and those that overlaps
\* have left behind.
Dropped == {m \in Method : m \notin method_map_ /\ removing # m /\ m \notin crossed}

Gone ==
  packet_socket_ # NoConn =>
    /\ LastWord(toServer[packet_socket_], Live)
    /\ \A m \in Dropped : Undone(toServer[packet_socket_], regs[packet_socket_], m)

SessInv == Links /\ Threads /\ Attempt /\ Calls /\ Answered /\ Kept /\ Gone

---------------------------------------------------------------------------
(* The queue of packets to the server.                                       *)

LEMMA AppendFacts ==
  ASSUME NEW q \in Seq(Msg), NEW p \in Msg
  PROVE  /\ Append(q, p) \in Seq(Msg) /\ Len(q) \in Nat /\ Len(Append(q, p)) = Len(q) + 1
         /\ \A i \in 1..Len(q) : Append(q, p)[i] = q[i]
         /\ Append(q, p)[Len(q) + 1] = p
OBVIOUS

LEMMA AppendRemove ==
  ASSUME NEW q \in Seq(Msg), NEW p \in Msg, NEW m
  PROVE  HasRemove(Append(q, p), m) => HasRemove(q, m) \/ (p.op = "remove" /\ p.m = m)
<1> DEFINE r == Append(q, p)
           n == Len(q)
<1>1. n \in Nat /\ Len(r) = n + 1 /\ (\A i \in 1..n : r[i] = q[i]) /\ r[n + 1] = p
  BY AppendFacts
<1> HIDE DEF r, n
<1>2. \A j \in 1..(n + 1) : j \in 1..n \/ j = n + 1
  BY <1>1
<1>3. QED
  BY <1>1, <1>2 DEF HasRemove, r, n

LEMMA AppendLastWord ==
  ASSUME NEW q \in Seq(Msg), NEW p \in Msg, NEW L, LastWord(q, L),
         \A i \in 1..Len(q) : q[i].by # "nobody" /\ q[i].m \in L => ~(p.op = "remove" /\ p.m = q[i].m)
  PROVE  LastWord(Append(q, p), L)
<1> DEFINE r == Append(q, p)
           n == Len(q)
<1>1. n \in Nat /\ Len(r) = n + 1 /\ (\A i \in 1..n : r[i] = q[i]) /\ r[n + 1] = p
  BY AppendFacts
<1>2. SUFFICES ASSUME NEW i \in 1..(n + 1), NEW j \in 1..(n + 1), i < j, r[i].by # "nobody", r[i].m \in L
               PROVE  ~(r[j].op = "remove" /\ r[j].m = r[i].m)
  BY <1>1 DEF LastWord
<1> HIDE DEF r
<1>3. i \in 1..n /\ r[i] = q[i]
  BY <1>1, <1>2
<1>4. CASE j \in 1..n
  BY <1>1, <1>2, <1>3, <1>4 DEF LastWord
<1>5. CASE j = n + 1
  BY <1>1, <1>2, <1>3, <1>5
<1>6. QED
  BY <1>1, <1>4, <1>5

LEMMA AppendUndone ==
  ASSUME NEW q \in Seq(Msg), NEW p \in Msg, NEW R, NEW m,
         \/ Undone(q, R, m) /\ ~(p.op = "add" /\ p.m = m)
         \/ p.op = "remove" /\ p.m = m
  PROVE  Undone(Append(q, p), R, m)
<1> DEFINE r == Append(q, p)
           n == Len(q)
<1>1. n \in Nat /\ Len(r) = n + 1 /\ (\A i \in 1..n : r[i] = q[i]) /\ r[n + 1] = p
  BY AppendFacts
<1> HIDE DEF r
<1>2. 1..n \subseteq 1..(n + 1) /\ n + 1 \in 1..(n + 1) /\ \A i \in 1..(n + 1) : i \in 1..n \/ i = n + 1
  BY <1>1
<1>3. CASE p.op = "remove" /\ p.m = m
  <2>1. \A i \in 1..n : n + 1 > i
    BY <1>1
  <2>2. HasRemove(r, m)
    BY <1>1, <1>2, <1>3 DEF HasRemove
  <2>3. \A i \in 1..(n + 1) : r[i].op = "add" /\ r[i].m = m => i \in 1..n
    BY <1>1, <1>2, <1>3
  <2>4. QED
    BY <1>1, <1>2, <1>3, <2>1, <2>2, <2>3 DEF Undone, r
<1>4. CASE Undone(q, R, m) /\ ~(p.op = "add" /\ p.m = m)
  <2>1. m \in R => HasRemove(r, m)
    BY <1>1, <1>2, <1>4 DEF Undone, HasRemove
  <2>2. ASSUME NEW i \in 1..(n + 1), r[i].op = "add", r[i].m = m
        PROVE  \E j \in 1..(n + 1) : j > i /\ r[j].op = "remove" /\ r[j].m = m
    <3>1. i \in 1..n /\ r[i] = q[i]
      BY <1>1, <1>2, <1>4, <2>2
    <3>2. PICK j \in 1..n : j > i /\ q[j].op = "remove" /\ q[j].m = m
      BY <1>4, <2>2, <3>1 DEF Undone
    <3>3. QED
      BY <1>1, <1>2, <3>2
  <2>3. QED
    BY <1>1, <2>1, <2>2 DEF Undone, r
<1>5. QED
  BY <1>3, <1>4

LEMMA TailFacts ==
  ASSUME NEW q \in Seq(Msg), q # <<>>
  PROVE  /\ Tail(q) \in Seq(Msg) /\ Head(q) \in Msg /\ Head(q) = q[1] /\ Len(q) \in Nat \ {0}
         /\ Len(Tail(q)) = Len(q) - 1
         /\ \A i \in 1..(Len(q) - 1) : Tail(q)[i] = q[i + 1]
BY HeadTailProperties

LEMMA TailRemove ==
  ASSUME NEW q \in Seq(Msg), q # <<>>, NEW m
  PROVE  /\ HasRemove(Tail(q), m) => HasRemove(q, m)
         /\ HasRemove(q, m) => HasRemove(Tail(q), m) \/ (Head(q).op = "remove" /\ Head(q).m = m)
<1> DEFINE r == Tail(q)
           n == Len(q)
<1>1. /\ n \in Nat \ {0} /\ Len(r) = n - 1 /\ (\A i \in 1..(n - 1) : r[i] = q[i + 1])
      /\ Head(q) = q[1]
  BY TailFacts
<1> HIDE DEF r, n
<1>2. \A i \in 1..(n - 1) : i + 1 \in 1..n
  BY <1>1
<1>3. \A i \in 1..n : i = 1 \/ (i - 1 \in 1..(n - 1) /\ r[i - 1] = q[i])
  <2>1. \A i \in 1..n : i = 1 \/ (i - 1 \in 1..(n - 1) /\ (i - 1) + 1 = i)
    BY <1>1
  <2>2. QED
    BY <1>1, <2>1
<1>4. HasRemove(r, m) => HasRemove(q, m)
  <2>1. SUFFICES ASSUME NEW j \in 1..(n - 1), r[j].op = "remove", r[j].m = m
                 PROVE  HasRemove(q, m)
    BY <1>1 DEF HasRemove
  <2>2. j + 1 \in 1..n /\ q[j + 1] = r[j]
    BY <1>1, <1>2
  <2>3. QED
    BY <2>1, <2>2 DEF HasRemove, n
<1>5. HasRemove(q, m) => HasRemove(r, m) \/ (Head(q).op = "remove" /\ Head(q).m = m)
  <2>1. SUFFICES ASSUME NEW j \in 1..n, q[j].op = "remove", q[j].m = m
                 PROVE  HasRemove(r, m) \/ (Head(q).op = "remove" /\ Head(q).m = m)
    BY DEF HasRemove, n
  <2>2. CASE j = 1
    BY <1>1, <2>1, <2>2
  <2>3. CASE j - 1 \in 1..(n - 1) /\ r[j - 1] = q[j]
    BY <1>1, <2>1, <2>3 DEF HasRemove
  <2>4. QED
    BY <1>3, <2>2, <2>3
<1>6. QED
  BY <1>4, <1>5 DEF r

LEMMA TailLastWord ==
  ASSUME NEW q \in Seq(Msg), q # <<>>, NEW L, LastWord(q, L)
  PROVE  /\ LastWord(Tail(q), L)
         /\ Head(q).by # "nobody" /\ Head(q).m \in L => ~HasRemove(Tail(q), Head(q).m)
<1> DEFINE r == Tail(q)
           n == Len(q)
<1>1. /\ n \in Nat \ {0} /\ Len(r) = n - 1 /\ (\A i \in 1..(n - 1) : r[i] = q[i + 1])
      /\ Head(q) = q[1]
  BY TailFacts
<1>2. \A i, j \in 1..n : i < j /\ q[i].by # "nobody" /\ q[i].m \in L
                          => ~(q[j].op = "remove" /\ q[j].m = q[i].m)
  BY DEF LastWord
<1> HIDE DEF r, n
<1>3. \A i \in 1..(n - 1) : i + 1 \in 1..n /\ 1 < i + 1 /\ 1 \in 1..n
  BY <1>1
<1>4. \A i, j \in 1..(n - 1) : i < j => i + 1 < j + 1
  BY <1>1
<1>5. LastWord(r, L)
  <2>1. SUFFICES ASSUME NEW i \in 1..(n - 1), NEW j \in 1..(n - 1), i < j, r[i].by # "nobody",
                        r[i].m \in L
                 PROVE  ~(r[j].op = "remove" /\ r[j].m = r[i].m)
    BY <1>1 DEF LastWord
  <2>2. r[i] = q[i + 1] /\ r[j] = q[j + 1] /\ i + 1 \in 1..n /\ j + 1 \in 1..n /\ i + 1 < j + 1
    BY <1>1, <1>3, <1>4, <2>1
  <2>3. QED
    BY <1>2, <2>1, <2>2
<1>6. Head(q).by # "nobody" /\ Head(q).m \in L => ~HasRemove(r, Head(q).m)
  BY <1>1, <1>2, <1>3 DEF HasRemove
<1>7. QED
  BY <1>5, <1>6 DEF r

LEMMA TailUndone ==
  ASSUME NEW q \in Seq(Msg), q # <<>>, NEW R, NEW R2, NEW m, Undone(q, R, m),
         \/ m \notin R2
         \/ m \in R /\ ~(Head(q).op = "remove" /\ Head(q).m = m)
         \/ Head(q).op = "add" /\ Head(q).m = m
  PROVE  Undone(Tail(q), R2, m)
<1> DEFINE r == Tail(q)
           n == Len(q)
<1>1. /\ n \in Nat \ {0} /\ Len(r) = n - 1 /\ (\A i \in 1..(n - 1) : r[i] = q[i + 1])
      /\ Head(q) = q[1]
  BY TailFacts
<1> HIDE DEF r
<1>2. ASSUME NEW i \in 1..n, q[i].op = "add", q[i].m = m
      PROVE  \E j \in 1..(n - 1) : j + 1 > i /\ r[j].op = "remove" /\ r[j].m = m
    <2>1. PICK j \in 1..n : j > i /\ q[j].op = "remove" /\ q[j].m = m
      BY <1>2 DEF Undone
    <2>2. j - 1 \in 1..(n - 1) /\ (j - 1) + 1 = j
      BY <1>1, <2>1
    <2>3. QED
      BY <1>1, <2>1, <2>2
<1>3. m \in R2 => HasRemove(r, m)
  <2>1. CASE m \in R /\ ~(Head(q).op = "remove" /\ Head(q).m = m)
    <3>1. HasRemove(q, m)
      BY <2>1 DEF Undone
    <3>2. QED
      BY <2>1, <3>1, TailRemove DEF r
  <2>2. CASE Head(q).op = "add" /\ Head(q).m = m
    <3>1. 1 \in 1..n
      BY <1>1
    <3>2. QED
      BY <1>1, <1>2, <2>2, <3>1 DEF HasRemove
  <2>3. QED
    BY <2>1, <2>2
<1>4. ASSUME NEW i \in 1..(n - 1), r[i].op = "add", r[i].m = m
      PROVE  \E j \in 1..(n - 1) : j > i /\ r[j].op = "remove" /\ r[j].m = m
  <2>1. i + 1 \in 1..n /\ q[i + 1] = r[i]
    BY <1>1
  <2>2. PICK j \in 1..(n - 1) : j + 1 > i + 1 /\ r[j].op = "remove" /\ r[j].m = m
    BY <1>2, <1>4, <2>1
  <2>3. j > i
    BY <1>1, <2>2
  <2>4. QED
    BY <2>2, <2>3
<1>5. QED
  BY <1>1, <1>3, <1>4 DEF Undone, r

\* Forgetting calls takes names off packets and changes nothing else.
LEMMA NobodyFacts ==
  ASSUME NEW q \in Seq(Msg), NEW T \in SUBSET Th
  PROVE  /\ Len(Nobody(q, T)) = Len(q)
         /\ \A i \in 1..Len(q) :
              /\ Nobody(q, T)[i].op = q[i].op /\ Nobody(q, T)[i].m = q[i].m
              /\ Nobody(q, T)[i].by = IF q[i].by \in T THEN "nobody" ELSE q[i].by
<1>1. DOMAIN q = 1..Len(q) /\ Len(q) \in Nat /\ \A i \in 1..Len(q) : q[i] \in Msg
  OBVIOUS
<1>2. Nobody(q, T) \in Seq(Msg)
  BY NobodyType
<1>3. DOMAIN Nobody(q, T) = 1..Len(q) /\ DOMAIN Nobody(q, T) = 1..Len(Nobody(q, T))
  BY <1>1, <1>2 DEF Nobody
<1>4. Len(Nobody(q, T)) = Len(q)
  BY <1>1, <1>2, <1>3
<1>5. \A p \in Msg : /\ [p EXCEPT !.by = "nobody"].op = p.op /\ [p EXCEPT !.by = "nobody"].m = p.m
                     /\ [p EXCEPT !.by = "nobody"].by = "nobody"
  BY DEF Msg
<1>6. \A i \in 1..Len(q) :
        Nobody(q, T)[i] = IF q[i].by \in T THEN [q[i] EXCEPT !.by = "nobody"] ELSE q[i]
  BY <1>1 DEF Nobody
<1>7. QED
  BY <1>1, <1>4, <1>5, <1>6

LEMMA NobodyKeeps ==
  ASSUME NEW q \in Seq(Msg), NEW T \in SUBSET Th
  PROVE  /\ \A m : HasRemove(Nobody(q, T), m) <=> HasRemove(q, m)
         /\ \A L : LastWord(q, L) => LastWord(Nobody(q, T), L)
         /\ \A R, m : Undone(q, R, m) => Undone(Nobody(q, T), R, m)
<1> DEFINE r == Nobody(q, T)
<1>1. Len(r) = Len(q) /\ \A i \in 1..Len(q) : r[i].op = q[i].op /\ r[i].m = q[i].m
  BY NobodyFacts
<1>2. \A i \in 1..Len(q) : r[i].by # "nobody" => q[i].by # "nobody"
  BY NobodyFacts DEF Th
<1> HIDE DEF r
<1>3. \A m : HasRemove(r, m) <=> HasRemove(q, m)
  BY <1>1 DEF HasRemove
<1>4. \A L : LastWord(q, L) => LastWord(r, L)
  BY <1>1, <1>2 DEF LastWord
<1>5. \A R, m : Undone(q, R, m) => Undone(r, R, m)
  BY <1>1, <1>3 DEF Undone
<1>6. QED
  BY <1>3, <1>4, <1>5 DEF r

---------------------------------------------------------------------------
(* Connections and threads.                                                  *)

\* The steps that touch what the two sides exchange.
LEMMA ServerStep ==
  ASSUME [Next]_vars
  PROVE  \/ \E t \in Th, s \in Signal : ListenSend(t, s)
         \/ \E t \in Th : ListenReturns(t)
         \/ RemoveSend \/ OnSocketErrorEvent \/ Break
         \/ \E c \in Conn : OnSocketConnectEvent(c) \/ ServerReads(c) \/ AgentGone(c)
         \/ \E a \in answers : OnAddReplayMessage(a)
         \/ UNCHANGED <<packet_socket_, link, toServer, answers, regs>>
<1>1. CASE \E s \in Signal : InitConnect(s) \/ InitFails(s)
  BY <1>1 DEF InitConnect, InitFails, srvVars
<1>2. CASE InitDone \/ InitTimeout \/ ReConnect \/ OnMessage
  BY <1>2 DEF InitDone, InitTimeout, ReConnect, OnMessage, srvVars
<1>3. CASE (\E m \in Method : ReListenNext(m)) \/ ReListenMessage \/ ReListenEnd
  BY <1>3 DEF ReListenNext, ReListenMessage, ReListenEnd, srvVars
<1>4. CASE Listening("msg") \/ Listening("user")
  BY <1>4 DEF Listening, ListenSendFails, srvVars, Th
<1>5. CASE \E m \in Method : ListenMessage(m) \/ RemoveMessage(m)
  BY <1>5 DEF ListenMessage, RemoveMessage, srvVars
<1>6. CASE TriggerSignal \/ ConnectFailed
  BY <1>6 DEF TriggerSignal, ConnectFailed, srvVars
<1>7. CASE UNCHANGED vars
  BY <1>7 DEF vars, srvVars
<1>8. QED
  BY <1>1, <1>2, <1>3, <1>4, <1>5, <1>6, <1>7 DEF Next, MsgStep, UserStep, Connects

\* A packet is written to the connection in use.
LEMMA Written ==
  ASSUME TInv, NEW p, packet_socket_ # NoConn,
         toServer' = [toServer EXCEPT ![packet_socket_] = Append(@, p)]
  PROVE  /\ packet_socket_ \in Conn
         /\ toServer'[packet_socket_] = Append(toServer[packet_socket_], p)
         /\ \A c \in Conn : c # packet_socket_ => toServer'[c] = toServer[c]
BY DEF TInv, TypeOK

LEMMA NextLinks ==
  ASSUME TInv, Links, [Next]_vars
  PROVE  Links'
<1>0. /\ packet_socket_ \in Conn \cup {NoConn} /\ NoConn \notin Conn
      /\ link \in [Conn -> {"free", "up", "down"}]
      /\ toServer \in [Conn -> Seq(Msg)] /\ regs \in [Conn -> SUBSET Method]
  BY SessionAssumption DEF TInv, TypeOK, NoConn
<1>1. CASE \E t \in Th, s \in Signal : ListenSend(t, s)
  BY <1>0, <1>1 DEF ListenSend, Links
<1>2. CASE \E t \in Th : ListenReturns(t)
  <2>1. UNCHANGED <<link, packet_socket_, regs>> /\ \E T \in SUBSET Th : Forget(T)
    BY <1>2 DEF ListenReturns
  <2>2. \A c \in Conn : toServer[c] = <<>> => toServer'[c] = <<>>
    BY <2>1 DEF Forget, Nobody
  <2>3. QED
    BY <2>1, <2>2 DEF Links
<1>3. CASE RemoveSend
  BY <1>0, <1>3 DEF RemoveSend, Links
<1>4. CASE OnSocketErrorEvent
  <2>1. /\ UNCHANGED <<link, regs>> /\ packet_socket_' = NoConn
        /\ packet_socket_ \in Conn /\ link[packet_socket_] = "down" /\ Forget(Th)
    BY <1>0, <1>4 DEF OnSocketErrorEvent
  <2>2. \A c \in Conn : toServer[c] = <<>> => toServer'[c] = <<>>
    BY <2>1 DEF Forget, Nobody
  <2>3. QED
    BY <1>0, <2>1, <2>2 DEF Links
<1>5. CASE Break
  BY <1>0, <1>5 DEF Break, Links
<1>6. CASE \E c \in Conn : OnSocketConnectEvent(c)
  BY <1>0, <1>6 DEF OnSocketConnectEvent, Links
<1>7. CASE \E c \in Conn : ServerReads(c)
  <2>1. PICK c \in Conn : ServerReads(c)
    BY <1>7
  <2>2. toServer[c] # <<>> /\ link[c] # "free" /\ UNCHANGED <<link, packet_socket_>>
    BY <2>1 DEF ServerReads, Links
  <2>3. \A d \in Conn : d # c => toServer'[d] = toServer[d] /\ regs'[d] = regs[d]
    BY <1>0, <2>1 DEF ServerReads
  <2>4. QED
    BY <2>2, <2>3 DEF Links
<1>8. CASE \E c \in Conn : AgentGone(c)
  BY <1>0, <1>8 DEF AgentGone, Links
<1>9. CASE \E a \in answers : OnAddReplayMessage(a)
  BY <1>9 DEF OnAddReplayMessage, Links
<1>10. CASE UNCHANGED <<packet_socket_, link, toServer, answers, regs>>
  BY <1>10 DEF Links
<1>11. QED
  BY <1>1, <1>2, <1>3, <1>4, <1>5, <1>6, <1>7, <1>8, <1>9, <1>10, ServerStep

LEMMA NextThreads ==
  ASSUME TInv, Threads, Answered, [Next]_vars
  PROVE  Threads'
<1>0. /\ pc \in [Th -> Steps] /\ arg \in [Th -> Method \cup {0}]
      /\ res \in [Th -> {"none", "ok", "refused"}] /\ accepted \subseteq method_map_
      /\ created \in BOOLEAN /\ method_crit_ \in Th \cup {"nobody"}
      /\ removing \in Method \cup {0} /\ method_map_ \subseteq Method /\ 0 \notin Method
  BY SessionAssumption DEF TInv, TypeOK
<1>1. CASE \E s \in Signal : InitConnect(s) \/ InitFails(s)
  BY <1>0, <1>1 DEF Threads, Live, InitConnect, InitFails, Goto, Th, listVars, overVars
<1>2. CASE InitDone
  BY <1>0, <1>2 DEF Threads, Live, InitDone, Goto, Th, overVars
<1>3. CASE InitTimeout \/ ReConnect \/ OnMessage
  BY <1>0, <1>3 DEF Threads, Live, InitTimeout, ReConnect, OnMessage, Goto, Th, listVars, overVars
<1>4. CASE \E m \in Method : ReListenNext(m)
  BY <1>0, <1>4 DEF Threads, Live, ReListenNext, Goto, Th, overVars
<1>5. CASE ReListenEnd
  BY <1>0, <1>5 DEF Threads, Live, ReListenEnd, Goto, Th, overVars
<1>6. CASE ReListenMessage
  BY <1>0, <1>6 DEF Threads, Live, ReListenMessage, TakeMethod, Goto, Th
<1>7. CASE \E t \in Th, s \in Signal : ListenSend(t, s)
  BY <1>0, <1>7 DEF Threads, Live, ListenSend, Goto, Th, listVars, overVars
<1>8. CASE \E t \in Th : ListenSendFails(t)
  BY <1>0, <1>8 DEF Threads, Live, ListenSendFails, Leave, Back, Goto, Th, overVars
<1>9. CASE \E t \in Th : ListenReturns(t)
  BY <1>0, <1>9 DEF Threads, Live, ListenReturns, Leave, Back, Goto, Th, overVars
<1>10. CASE RemoveSend
  BY <1>0, <1>10 DEF Threads, Live, RemoveSend, Th
<1>11. CASE \E m \in Method : ListenMessage(m)
  BY <1>0, <1>11 DEF Threads, Live, ListenMessage, TakeMethod, Goto, Th
<1>12. CASE \E m \in Method : RemoveMessage(m)
  <2>1. PICK m \in Method : RemoveMessage(m)
    BY <1>12
  <2>2. /\ created /\ UNCHANGED <<pc, arg, created, method_crit_, res, cursor>>
        /\ method_map_' = method_map_ \ {m} /\ accepted' = accepted \ {m} /\ removing' = m
        /\ crossed' = IF Inserting(m) THEN crossed \cup {m} ELSE crossed \ {m}
    BY <2>1 DEF RemoveMessage
  <2>3. \A t \in Th : pc[t] = "send" => arg[t] \in method_map_' \cup crossed'
    BY <2>2 DEF Threads, Inserting
  <2>4. QED
    BY <2>2, <2>3 DEF Threads, Live
<1>13. CASE Connects
  BY <1>0, <1>13 DEF Threads, Live, Connects, OnSocketConnectEvent, Inserting
<1>14. CASE TriggerSignal \/ ConnectFailed \/ OnSocketErrorEvent
  BY <1>14 DEF Threads, Live, TriggerSignal, ConnectFailed, OnSocketErrorEvent, listVars, overVars
<1>15. CASE \E a \in answers : OnAddReplayMessage(a)
  <2>1. PICK a \in answers : OnAddReplayMessage(a)
    BY <1>15
  <2>2. pc[a.by] = "answer" /\ a.by \in Th
    BY DEF Answered, TInv, TypeOK, Answer
  <2>3. QED
    BY <1>0, <2>1, <2>2 DEF Threads, Live, OnAddReplayMessage, overVars
<1>16. CASE Break \/ \E c \in Conn : ServerReads(c) \/ AgentGone(c)
  BY <1>16 DEF Threads, Live, Break, ServerReads, AgentGone, listVars, overVars
<1>17. CASE UNCHANGED vars
  BY <1>17 DEF Threads, Live, vars, listVars, overVars
<1>18. QED
  BY <1>1, <1>2, <1>3, <1>4, <1>5, <1>6, <1>7, <1>8, <1>9, <1>10, <1>11, <1>12, <1>13, <1>14, <1>15,
     <1>16, <1>17 DEF Next, MsgStep, UserStep, Listening, Th

LEMMA NextAttempt ==
  ASSUME TInv, Attempt, [Next]_vars
  PROVE  Attempt'
<1>0. pc \in [Th -> Steps]
  BY DEF TInv, TypeOK
<1>1. CASE \E s \in Signal : InitConnect(s) \/ InitFails(s)
  BY <1>0, <1>1 DEF Attempt, Connecting, InitConnect, InitFails, Goto, Th
<1>2. CASE InitDone \/ InitTimeout \/ ReConnect
  BY <1>0, <1>2 DEF Attempt, Connecting, InitDone, InitTimeout, ReConnect, Goto, Th
<1>2b. CASE OnMessage
  BY <1>0, <1>2b DEF Attempt, Connecting, OnMessage, Goto, Th
<1>3. CASE (\E m \in Method : ReListenNext(m)) \/ ReListenMessage \/ ReListenEnd
  BY <1>0, <1>3 DEF Attempt, Connecting, ReListenNext, ReListenMessage, ReListenEnd, Goto, Th
<1>4. CASE Listening("msg") \/ UserStep
  <2>1. /\ UNCHANGED <<reconnect, async_connect_, early>>
        /\ \/ pc'["msg"] = pc["msg"]
           \/ pc["msg"] \in {"send", "answer"} /\ pc'["msg"] \in {"answer", "next"}
    BY <1>0, <1>4 DEF Listening, UserStep, ListenSend, ListenSendFails, ListenReturns,
       RemoveSend, Goto, Back, Th
  <2> QED BY <2>1 DEF Attempt, Connecting
<1>5. CASE \E m \in Method : ListenMessage(m) \/ RemoveMessage(m)
  BY <1>0, <1>5 DEF Attempt, Connecting, ListenMessage, RemoveMessage, Goto, Th
<1>6. CASE Connects \/ ConnectFailed
  BY <1>6 DEF Attempt, Connects, OnSocketConnectEvent, ConnectFailed
<1>7. CASE TriggerSignal \/ OnSocketErrorEvent
  BY <1>7 DEF Attempt, Connecting, TriggerSignal, OnSocketErrorEvent
<1>8. CASE \E a \in answers : OnAddReplayMessage(a)
  BY <1>8 DEF Attempt, Connecting, OnAddReplayMessage
<1>9. CASE Break \/ \E c \in Conn : ServerReads(c) \/ AgentGone(c)
  BY <1>9 DEF Attempt, Connecting, Break, ServerReads, AgentGone
<1>10. CASE UNCHANGED vars
  BY <1>10 DEF Attempt, Connecting, vars
<1>11. QED
  BY <1>1, <1>2, <1>2b, <1>3, <1>4, <1>5, <1>6, <1>7, <1>8, <1>9, <1>10 DEF Next, MsgStep

\* A thread that waits for an answer goes on only by ListenReturns, and begins by ListenSend.
LEMMA AnswerStep ==
  ASSUME TInv, Threads, [Next]_vars, NEW t \in Th
  PROVE  /\ pc[t] = "answer" => ListenReturns(t) \/ (pc'[t] = "answer" /\ arg'[t] = arg[t])
         /\ pc'[t] = "answer" => \/ pc[t] = "answer"
                                 \/ \E s \in Signal : ListenSend(t, s)
         /\ pc[t] = "answer" /\ pc'[t] = "answer" =>
              \/ res'[t] = res[t]
              \/ \E a \in answers : OnAddReplayMessage(a)
<1>0. /\ pc \in [Th -> Steps] /\ arg \in [Th -> Method \cup {0}]
      /\ res \in [Th -> {"none", "ok", "refused"}]
      /\ pc["user"] \in {"idle", "send", "answer"}
  BY DEF TInv, TypeOK, Threads
<1>1. CASE \E s \in Signal : InitConnect(s) \/ InitFails(s)
  BY <1>0, <1>1 DEF InitConnect, InitFails, Goto, Th, listVars, overVars
<1>2. CASE InitDone
  BY <1>0, <1>2 DEF InitDone, Goto, Th, overVars
<1>3. CASE InitTimeout \/ ReConnect \/ OnMessage
  BY <1>0, <1>3 DEF InitTimeout, ReConnect, OnMessage, Goto, Th, listVars, overVars
<1>4. CASE (\E m \in Method : ReListenNext(m)) \/ ReListenEnd \/ ReListenMessage
  BY <1>0, <1>4 DEF ReListenNext, ReListenEnd, ReListenMessage, Goto, Th, overVars
<1>5. CASE \E u \in Th, s \in Signal : ListenSend(u, s)
  <2>1. PICK u \in Th, s \in Signal : ListenSend(u, s)
    BY <1>5
  <2>2. CASE u = t
    BY <1>0, <2>1, <2>2 DEF ListenSend, Goto, listVars, overVars
  <2>3. CASE u # t
    BY <1>0, <2>1, <2>3 DEF ListenSend, Goto, listVars, overVars
  <2>4. QED
    BY <2>2, <2>3
<1>6. CASE \E u \in Th : ListenSendFails(u)
  BY <1>0, <1>6 DEF ListenSendFails, Leave, Back, Goto, Th, overVars
<1>7. CASE \E u \in Th : ListenReturns(u)
  <2>1. PICK u \in Th : ListenReturns(u)
    BY <1>7
  <2>2. CASE u = t
    BY <1>0, <2>1, <2>2 DEF ListenReturns, Back, Goto, overVars
  <2>3. CASE u # t
    BY <1>0, <2>1, <2>3 DEF ListenReturns, Leave, Goto, overVars
  <2>4. QED
    BY <2>2, <2>3
<1>8. CASE RemoveSend
  BY <1>0, <1>8 DEF RemoveSend
<1>9. CASE \E m \in Method : ListenMessage(m) \/ RemoveMessage(m)
  BY <1>0, <1>9 DEF ListenMessage, RemoveMessage, Goto, Th
<1>10. CASE Connects
  BY <1>0, <1>10 DEF Connects, OnSocketConnectEvent
<1>11. CASE TriggerSignal \/ ConnectFailed \/ OnSocketErrorEvent
  BY <1>11 DEF TriggerSignal, ConnectFailed, OnSocketErrorEvent, listVars, overVars
<1>12. CASE \E a \in answers : OnAddReplayMessage(a)
  <2>1. UNCHANGED <<pc, arg>>
    BY <1>12 DEF OnAddReplayMessage
  <2>2. QED
    BY <1>12, <2>1
<1>13. CASE Break \/ \E c \in Conn : ServerReads(c) \/ AgentGone(c)
  BY <1>13 DEF Break, ServerReads, AgentGone, listVars, overVars
<1>14. CASE UNCHANGED vars
  BY <1>14 DEF vars, listVars, overVars
<1>15. QED
  BY <1>1, <1>2, <1>3, <1>4, <1>5, <1>6, <1>7, <1>8, <1>9, <1>10, <1>11, <1>12, <1>13, <1>14
  DEF Next, MsgStep, UserStep, Listening, Th

\* Two threads do not both wait: ListenMessage holds method_crit_.
LEMMA OneCall ==
  ASSUME Threads, NEW t \in Th, NEW u \in Th, pc[t] \in {"send", "answer"}, pc[u] \in {"send", "answer"}
  PROVE  t = u
BY DEF Threads

\* What a packet with a name says, before a step and after it.
Named(p) == p.by # "nobody" => pc[p.by] = "answer" /\ p.op = "add" /\ p.m = arg[p.by]
NamedNext(p) == p.by # "nobody" => pc'[p.by] = "answer" /\ p.op = "add" /\ p.m = arg'[p.by]

LEMMA NamedKept ==
  ASSUME TInv, Threads, [Next]_vars, NEW p \in Msg, Named(p),
         \A t \in Th : ListenReturns(t) => p.by # t
  PROVE  NamedNext(p)
<1>1. p.by = "nobody" \/ p.by \in Th
  BY DEF Msg
<1>2. CASE p.by = "nobody"
  BY <1>2 DEF NamedNext
<1>3. CASE p.by \in Th /\ p.by # "nobody"
  BY <1>3, AnswerStep DEF Named, NamedNext
<1>4. QED
  BY <1>1, <1>2, <1>3 DEF Th

LEMMA NextCalls ==
  ASSUME TInv, Threads, Calls, [Next]_vars
  PROVE  Calls'
<1>0. /\ toServer \in [Conn -> Seq(Msg)] /\ packet_socket_ \in Conn \cup {NoConn}
      /\ pc \in [Th -> Steps] /\ arg \in [Th -> Method \cup {0}]
  BY DEF TInv, TypeOK
<1>1. \A c \in Conn : \A i \in 1..Len(toServer[c]) : toServer[c][i] \in Msg /\ Named(toServer[c][i])
  <2>1. \A c \in Conn : \A i \in 1..Len(toServer[c]) : toServer[c][i] \in Msg
    BY <1>0
  <2>2. QED
    BY <2>1 DEF Calls, Named
<1>2. SUFFICES ASSUME NEW c \in Conn, NEW i \in 1..Len(toServer'[c])
               PROVE  NamedNext(toServer'[c][i])
  BY DEF Calls, NamedNext
<1>3. (\A t \in Th : ~ListenReturns(t)) =>
         \A d \in Conn : \A j \in 1..Len(toServer[d]) : NamedNext(toServer[d][j])
  BY <1>1, NamedKept
<1>4. CASE \E t \in Th : ListenReturns(t)
  <2>1. PICK t \in Th : ListenReturns(t)
    BY <1>4
  <2>2. Forget({t}) /\ \A u \in Th : ListenReturns(u) => u = t
    <3>1. Forget({t}) /\ pc[t] = "answer"
      BY <2>1 DEF ListenReturns, Goto
    <3>2. \A u \in Th : ListenReturns(u) => pc[u] = "answer"
      BY DEF ListenReturns, Goto
    <3>3. QED
      BY <3>1, <3>2, OneCall
  <2> DEFINE q == toServer[c]
             r == toServer'[c]
  <2>3. q \in Seq(Msg) /\ r = Nobody(q, {t}) /\ {t} \in SUBSET Th
    BY <1>0, <2>2 DEF Forget
  <2> HIDE DEF q, r
  <2>4. i \in 1..Len(q) /\ r[i].op = q[i].op /\ r[i].m = q[i].m
        /\ r[i].by = IF q[i].by \in {t} THEN "nobody" ELSE q[i].by
    <3>1. i \in 1..Len(r)
      BY <1>2 DEF r
    <3>2. QED
      BY <2>3, <3>1, NobodyFacts
  <2>5. q[i] \in Msg /\ Named(q[i])
    BY <1>1, <2>4 DEF q
  <2>6. CASE q[i].by = t
    BY <2>4, <2>6 DEF NamedNext, r
  <2>7. CASE q[i].by # t
    <3>1. NamedNext(q[i])
      BY <2>2, <2>5, <2>7, NamedKept
    <3>2. QED
      BY <2>4, <2>7, <3>1 DEF NamedNext, r
  <2>8. QED
    BY <2>6, <2>7
<1>5. CASE \E t \in Th, s \in Signal : ListenSend(t, s)
  <2>1. PICK t \in Th, s \in Signal : ListenSend(t, s)
    BY <1>5
  <2> DEFINE p == [op |-> "add", m |-> arg[t], by |-> t]
  <2>2. p \in Msg
    BY <2>1 DEF Msg, ListenSend, Goto, TInv, Holds
  <2>3. /\ packet_socket_ \in Conn
        /\ toServer'[packet_socket_] = Append(toServer[packet_socket_], p)
        /\ \A d \in Conn : d # packet_socket_ => toServer'[d] = toServer[d]
    BY <2>1, Written DEF ListenSend
  <2>4. pc[t] = "send" /\ pc'[t] = "answer" /\ arg' = arg
    BY <1>0, <2>1 DEF ListenSend, Goto, listVars, overVars
  <2>5. \A u \in Th : ~ListenReturns(u)
    <3>1. \A u \in Th : ListenReturns(u) => pc[u] = "answer"
      BY DEF ListenReturns, Goto
    <3>2. QED
      BY <2>4, <3>1, OneCall
  <2>6. NamedNext(p)
    BY <2>4 DEF NamedNext
  <2> HIDE DEF p
  <2>7. CASE c # packet_socket_
    BY <1>2, <1>3, <2>3, <2>5, <2>7
  <2>8. CASE c = packet_socket_
    <3>1. toServer[c] \in Seq(Msg) /\ toServer'[c] = Append(toServer[c], p)
      BY <1>0, <2>3, <2>8
    <3>2. \/ i \in 1..Len(toServer[c]) /\ toServer'[c][i] = toServer[c][i]
          \/ toServer'[c][i] = p
      BY <1>2, <2>2, <3>1, AppendFacts
    <3>3. QED
      BY <1>3, <2>5, <2>6, <3>2
  <2>9. QED
    BY <2>7, <2>8
<1>6. CASE RemoveSend
  <2> DEFINE p == [op |-> "remove", m |-> removing, by |-> "nobody"]
  <2>1. p \in Msg /\ NamedNext(p)
    BY <1>6 DEF Msg, RemoveSend, ReqLockFree, TInv, TypeOK, NamedNext
  <2>2. \A u \in Th : ~ListenReturns(u)
    <3>1. pc' = pc
      BY <1>6 DEF RemoveSend
    <3>2. \A u \in Th : ListenReturns(u) => pc[u] = "answer" /\ pc'[u] # pc[u]
      BY <1>0 DEF ListenReturns, Goto, Back
    <3>3. QED
      BY <3>1, <3>2
  <2>3. CASE packet_socket_ = NoConn \/ c # packet_socket_
    <3>1. toServer'[c] = toServer[c]
      BY <1>0, <1>6, <2>3 DEF RemoveSend
    <3>2. QED
      BY <1>2, <1>3, <2>2, <3>1
  <2>4. CASE packet_socket_ # NoConn /\ c = packet_socket_
    <3>1. toServer[c] \in Seq(Msg) /\ toServer'[c] = Append(toServer[c], p)
      BY <1>0, <1>6, <2>4 DEF RemoveSend
    <3> HIDE DEF p
    <3>2. \/ i \in 1..Len(toServer[c]) /\ toServer'[c][i] = toServer[c][i]
          \/ toServer'[c][i] = p
      BY <1>2, <2>1, <3>1, AppendFacts
    <3>3. QED
      BY <1>3, <2>1, <2>2, <3>2
  <2>5. QED
    BY <2>3, <2>4
<1>7. CASE OnSocketErrorEvent
  <2> DEFINE q == toServer[c]
             r == toServer'[c]
  <2>1. q \in Seq(Msg) /\ r = Nobody(q, Th)
    BY <1>0, <1>7 DEF OnSocketErrorEvent, Forget
  <2> HIDE DEF q, r
  <2>2. i \in 1..Len(q) /\ r[i].by = IF q[i].by \in Th THEN "nobody" ELSE q[i].by
    <3>1. i \in 1..Len(r)
      BY <1>2 DEF r
    <3>2. QED
      BY <2>1, <3>1, NobodyFacts
  <2>3. q[i].by \in Th \cup {"nobody"}
    BY <1>1, <2>2 DEF Msg, q
  <2>4. QED
    BY <2>2, <2>3 DEF NamedNext, r
<1>8. CASE \E d \in Conn : ServerReads(d)
  <2>1. PICK d \in Conn : ServerReads(d)
    BY <1>8
  <2>2. \A u \in Th : ~ListenReturns(u)
    <3>1. pc' = pc
      BY <2>1 DEF ServerReads
    <3>2. \A u \in Th : ListenReturns(u) => pc[u] = "answer" /\ pc'[u] # pc[u]
      BY <1>0 DEF ListenReturns, Goto, Back
    <3>3. QED
      BY <3>1, <3>2
  <2>3. CASE c # d
    <3>1. toServer'[c] = toServer[c]
      BY <1>0, <2>1, <2>3 DEF ServerReads
    <3>2. QED
      BY <1>2, <1>3, <2>2, <3>1
  <2>4. CASE c = d
    <3>1. toServer[c] \in Seq(Msg) /\ toServer[c] # <<>> /\ toServer'[c] = Tail(toServer[c])
      BY <1>0, <2>1, <2>4 DEF ServerReads
    <3>2. i + 1 \in 1..Len(toServer[c]) /\ toServer'[c][i] = toServer[c][i + 1]
      BY <1>2, <3>1, TailFacts
    <3>3. QED
      BY <1>3, <2>2, <3>2
  <2>5. QED
    BY <2>3, <2>4
<1>9. CASE UNCHANGED toServer /\ ~\E t \in Th : ListenReturns(t)
  BY <1>2, <1>3, <1>9
<1>10. CASE \E d \in Conn : AgentGone(d)
  <2>1. PICK d \in Conn : AgentGone(d)
    BY <1>10
  <2>2. \A u \in Th : ~ListenReturns(u)
    <3>1. pc' = pc
      BY <2>1 DEF AgentGone
    <3>2. \A u \in Th : ListenReturns(u) => pc[u] = "answer" /\ pc'[u] # pc[u]
      BY <1>0 DEF ListenReturns, Goto, Back
    <3>3. QED
      BY <3>1, <3>2
  <2>3. toServer'[c] = toServer[c] \/ toServer'[c] = <<>>
    BY <1>0, <2>1 DEF AgentGone
  <2>4. toServer'[c] = toServer[c]
    BY <1>2, <2>3
  <2>5. QED
    BY <1>2, <1>3, <2>2, <2>4
<1>11. QED
  <2>2. (\E a \in answers : OnAddReplayMessage(a)) => UNCHANGED toServer
    BY DEF OnAddReplayMessage
  <2>3. Break \/ (\E d \in Conn : OnSocketConnectEvent(d)) => UNCHANGED toServer
    BY DEF Break, OnSocketConnectEvent
  <2>4. QED
    BY <1>4, <1>5, <1>6, <1>7, <1>8, <1>9, <1>10, <2>2, <2>3, ServerStep

---------------------------------------------------------------------------
(* Registrations on the connection in use.                                   *)

FreshNext(m) ==
  /\ packet_socket_' \in Conn
  /\ m \in regs'[packet_socket_'] /\ ~HasRemove(toServer'[packet_socket_'], m)

LEMMA SocketKept ==
  ASSUME [Next]_vars, ~Connects, ~OnSocketErrorEvent
  PROVE  packet_socket_' = packet_socket_
<1>1. (\E t \in Th, s \in Signal : ListenSend(t, s)) => packet_socket_' = packet_socket_
  BY DEF ListenSend
<1>2. (\E t \in Th : ListenReturns(t)) => packet_socket_' = packet_socket_
  BY DEF ListenReturns
<1>3. RemoveSend \/ Break => packet_socket_' = packet_socket_
  BY DEF RemoveSend, Break
<1>4. (\E c \in Conn : ServerReads(c) \/ AgentGone(c)) => packet_socket_' = packet_socket_
  BY DEF ServerReads, AgentGone
<1>5. (\E a \in answers : OnAddReplayMessage(a)) => packet_socket_' = packet_socket_
  BY DEF OnAddReplayMessage
<1>6. QED
  BY <1>1, <1>2, <1>3, <1>4, <1>5, ServerStep DEF Connects

LEMMA FreshKept ==
  ASSUME TInv, [Next]_vars, ~Connects, ~OnSocketErrorEvent, NEW m \in Method, Fresh(m),
         RemoveSend => removing # m
  PROVE  FreshNext(m)
<1>0. /\ packet_socket_ \in Conn /\ packet_socket_' = packet_socket_ /\ packet_socket_ # NoConn
      /\ m \in regs[packet_socket_] /\ ~HasRemove(toServer[packet_socket_], m)
      /\ toServer \in [Conn -> Seq(Msg)] /\ regs \in [Conn -> SUBSET Method]
  BY SocketKept, SessionAssumption DEF Fresh, TInv, TypeOK, NoConn
<1> DEFINE c == packet_socket_
           q == toServer[c]
<1>1. SUFFICES m \in regs'[c] /\ ~HasRemove(toServer'[c], m)
  BY <1>0 DEF FreshNext
<1>2. CASE \E t \in Th, s \in Signal : ListenSend(t, s)
  <2>1. PICK t \in Th, s \in Signal : ListenSend(t, s)
    BY <1>2
  <2> DEFINE p == [op |-> "add", m |-> arg[t], by |-> t]
  <2>2. p \in Msg /\ p.op # "remove"
    BY <2>1 DEF Msg, ListenSend, Goto, TInv, Holds
  <2>3. toServer'[c] = Append(q, p) /\ regs' = regs /\ q \in Seq(Msg)
    BY <1>0, <2>1 DEF ListenSend
  <2> HIDE DEF p, q, c
  <2>4. ~HasRemove(Append(q, p), m)
    BY <1>0, <2>2, <2>3, AppendRemove DEF q, c
  <2>5. QED
    BY <1>0, <2>3, <2>4 DEF c
<1>3. CASE \E t \in Th : ListenReturns(t)
  <2>1. PICK t \in Th : ListenReturns(t)
    BY <1>3
  <2>2. toServer'[c] = Nobody(q, {t}) /\ regs' = regs /\ {t} \in SUBSET Th /\ q \in Seq(Msg)
    BY <1>0, <2>1 DEF ListenReturns, Forget
  <2>3. QED
    BY <1>0, <2>2, NobodyKeeps
<1>4. CASE RemoveSend
  <2> DEFINE p == [op |-> "remove", m |-> removing, by |-> "nobody"]
  <2>2. p \in Msg /\ p.m # m
    BY <1>4 DEF Msg, RemoveSend, ReqLockFree, TInv, TypeOK
  <2>3. toServer'[c] = Append(q, p) /\ regs' = regs /\ q \in Seq(Msg)
    BY <1>0, <1>4 DEF RemoveSend
  <2> HIDE DEF p, q, c
  <2>4. ~HasRemove(Append(q, p), m)
    BY <1>0, <2>2, <2>3, AppendRemove DEF q, c
  <2>5. QED
    BY <1>0, <2>3, <2>4 DEF c
<1>5. CASE \E d \in Conn : ServerReads(d)
  <2>1. PICK d \in Conn : ServerReads(d)
    BY <1>5
  <2>2. CASE d # c
    BY <1>0, <2>1, <2>2 DEF ServerReads
  <2>3. CASE d = c
    <3>1. q \in Seq(Msg) /\ q # <<>> /\ toServer'[c] = Tail(q)
      BY <1>0, <2>1, <2>3 DEF ServerReads
    <3>2. ~HasRemove(Tail(q), m) /\ ~(Head(q).op = "remove" /\ Head(q).m = m)
      <4>1. Len(q) \in Nat \ {0} /\ Head(q) = q[1]
        BY <3>1, TailFacts
      <4>2. 1 \in 1..Len(q)
        BY <4>1
      <4>3. QED
        BY <1>0, <3>1, <4>1, <4>2, TailRemove DEF HasRemove
    <3>3. m \in regs'[c]
      BY <1>0, <2>1, <2>3, <3>2 DEF ServerReads
    <3>4. QED
      BY <3>1, <3>2, <3>3
  <2>4. QED
    BY <2>2, <2>3
<1>6. CASE \E d \in Conn : AgentGone(d)
  BY <1>0, <1>6 DEF AgentGone
<1>7. CASE \E a \in answers : OnAddReplayMessage(a)
  BY <1>0, <1>7 DEF OnAddReplayMessage
<1>8. CASE Break
  BY <1>0, <1>8 DEF Break
<1>9. CASE UNCHANGED <<packet_socket_, link, toServer, answers, regs>>
  BY <1>0, <1>9
<1>10. QED
  BY <1>2, <1>3, <1>4, <1>5, <1>6, <1>7, <1>8, <1>9, ServerStep DEF Connects

\* While somebody waits for an answer no method becomes live: ListenMessage has the lock.
\* Nor does one the server has agreed to before.
LEMMA LiveStep ==
  ASSUME TInv, Threads, [Next]_vars, ~Connects
  PROVE  \/ Live' \subseteq Live
         \/ /\ \A t \in Th : pc[t] # "answer" /\ pc'[t] # "answer"
            /\ \A m \in Live' : m \in Live \/ m \notin accepted'
<1>0. pc \in [Th -> Steps]
  BY DEF TInv, TypeOK
<1>1. CASE \E s \in Signal : InitConnect(s) \/ InitFails(s)
  BY <1>1 DEF Live, InitConnect, InitFails, listVars, overVars
<1>2. CASE InitDone \/ InitTimeout \/ ReConnect \/ OnMessage
  BY <1>2 DEF Live, InitDone, InitTimeout, ReConnect, OnMessage, listVars, overVars
<1>3. CASE (\E k \in Method : ReListenNext(k)) \/ ReListenEnd
  BY <1>3 DEF Live, ReListenNext, ReListenEnd, overVars
<1>4. CASE \E t \in Th : \E k : TakeMethod(t, k) /\ pc[t] # "answer" /\ pc' = [pc EXCEPT ![t] = "send"]
  <2>1. PICK t \in Th : \E k : TakeMethod(t, k) /\ pc[t] # "answer" /\ pc' = [pc EXCEPT ![t] = "send"]
    BY <1>4
  <2>2. PICK k : TakeMethod(t, k) /\ pc[t] # "answer" /\ pc' = [pc EXCEPT ![t] = "send"]
    BY <2>1
  <2>3. \A u \in Th : pc[u] # "answer"
    BY <2>2 DEF TakeMethod, Threads, Th
  <2>4. \A u \in Th : pc'[u] # "answer"
    BY <1>0, <2>2, <2>3
  <2>5. \A m \in Live' : m \in Live \/ m \notin accepted'
    BY <2>2 DEF TakeMethod, Live
  <2>6. QED
    BY <2>3, <2>4, <2>5
<1>5. CASE ReListenMessage \/ \E k \in Method : ListenMessage(k)
  <2>1. \E t \in Th : \E k : TakeMethod(t, k) /\ pc[t] # "answer" /\ pc' = [pc EXCEPT ![t] = "send"]
    BY <1>5 DEF ReListenMessage, ListenMessage, Goto, Th
  <2>2. QED
    BY <1>4, <2>1
<1>6. CASE \E t \in Th : ListenSendFails(t) \/ ListenReturns(t) \/ \E s \in Signal : ListenSend(t, s)
  BY <1>6 DEF Live, ListenSendFails, ListenReturns, ListenSend, listVars, overVars
<1>7. CASE RemoveSend
  BY <1>7 DEF Live, RemoveSend
<1>8. CASE \E k \in Method : RemoveMessage(k)
  BY <1>8 DEF Live, RemoveMessage
<1>9. CASE TriggerSignal \/ ConnectFailed \/ OnSocketErrorEvent
  BY <1>9 DEF Live, TriggerSignal, ConnectFailed, OnSocketErrorEvent, listVars, overVars
<1>10. CASE \E a \in answers : OnAddReplayMessage(a)
  BY <1>10 DEF Live, OnAddReplayMessage, overVars
<1>11. CASE Break \/ \E c \in Conn : ServerReads(c) \/ AgentGone(c)
  BY <1>11 DEF Live, Break, ServerReads, AgentGone, listVars, overVars
<1>12. CASE UNCHANGED vars
  BY <1>12 DEF Live, vars, listVars, overVars
<1>13. QED
  BY <1>1, <1>2, <1>3, <1>5, <1>6, <1>7, <1>8, <1>9, <1>10, <1>11, <1>12
  DEF Next, MsgStep, UserStep, Listening, Th

AnswerOf(a) ==
  /\ a.conn = packet_socket_ /\ pc[a.by] = "answer"
  /\ a.ok /\ arg[a.by] \in Live => Fresh(arg[a.by])
AnswerNext(a) ==
  /\ a.conn = packet_socket_' /\ pc'[a.by] = "answer"
  /\ a.ok /\ arg'[a.by] \in Live' => FreshNext(arg'[a.by])

LEMMA AnswerKept ==
  ASSUME TInv, Threads, [Next]_vars, ~Connects, ~OnSocketErrorEvent,
         NEW a \in Answer, AnswerOf(a), ~ListenReturns(a.by)
  PROVE  AnswerNext(a)
<1>1. a.by \in Th
  BY DEF Answer
<1>2. pc'[a.by] = "answer" /\ arg'[a.by] = arg[a.by]
  BY <1>1, AnswerStep DEF AnswerOf
<1>3. packet_socket_' = packet_socket_
  BY SocketKept
<1>4. ASSUME a.ok, arg[a.by] \in Live' PROVE FreshNext(arg[a.by])
  <2>1. arg[a.by] \in Live
    BY <1>1, <1>2, <1>4, LiveStep
  <2>2. Fresh(arg[a.by]) /\ arg[a.by] \in Method
    BY <1>1, <1>4, <2>1 DEF AnswerOf, TInv, Holds
  <2>3. removing # arg[a.by]
    BY <2>1 DEF Threads
  <2>4. QED
    BY <2>2, <2>3, FreshKept
<1>5. QED
  BY <1>2, <1>3, <1>4 DEF AnswerOf, AnswerNext

LEMMA NextAnswered ==
  ASSUME TInv, Links, Threads, Calls, Answered, Gone, [Next]_vars
  PROVE  Answered'
<1>0. /\ answers \subseteq Answer /\ toServer \in [Conn -> Seq(Msg)] /\ NoConn \notin Conn
      /\ regs \in [Conn -> SUBSET Method] /\ \A a \in answers : AnswerOf(a)
  BY SessionAssumption DEF TInv, TypeOK, Answered, AnswerOf, NoConn
<1>1. SUFFICES ASSUME NEW a \in answers' PROVE AnswerNext(a)
  BY DEF Answered, AnswerNext, Fresh, FreshNext, Live
<1>2. CASE Connects
  BY <1>0, <1>1, <1>2 DEF Connects, OnSocketConnectEvent, AnswerOf
<1>3. CASE OnSocketErrorEvent
  BY <1>0, <1>1, <1>3 DEF OnSocketErrorEvent, Forget, Answer
<1>4. CASE ~Connects /\ ~OnSocketErrorEvent /\ a \in answers
  <2>1. ~ListenReturns(a.by)
    BY <1>1 DEF ListenReturns, Forget
  <2>2. QED
    BY <1>0, <1>4, <2>1, AnswerKept
<1>5. CASE ~Connects /\ ~OnSocketErrorEvent /\ a \notin answers
  <2>1. PICK c \in Conn : ServerReads(c)
    <3>1. (\E t \in Th, s \in Signal : ListenSend(t, s)) => answers' = answers
      BY DEF ListenSend
    <3>2. (\E t \in Th : ListenReturns(t)) => answers' \subseteq answers
      BY DEF ListenReturns, Forget
    <3>3. RemoveSend \/ Break => answers' = answers
      BY DEF RemoveSend, Break
    <3>4. (\E c \in Conn : AgentGone(c)) => answers' = answers
      BY DEF AgentGone
    <3>5. (\E b \in answers : OnAddReplayMessage(b)) => answers' \subseteq answers
      BY DEF OnAddReplayMessage
    <3>6. QED
      BY <1>1, <1>5, <3>1, <3>2, <3>3, <3>4, <3>5, ServerStep DEF Connects
  <2> DEFINE q == toServer[c]
             p == Head(q)
  <2>2. q \in Seq(Msg) /\ q # <<>> /\ toServer'[c] = Tail(q) /\ UNCHANGED <<pc, arg, method_map_, crossed, packet_socket_>>
    BY <1>0, <2>1 DEF ServerReads, listVars, overVars
  <2>3. p \in Msg /\ p = q[1] /\ 1 \in 1..Len(q)
    BY <2>2, TailFacts
  <2> HIDE DEF p, q
  <2>4. p.op # "remove" /\ link[c] = "up" /\ p.by # "nobody"
        /\ a = [conn |-> c, by |-> p.by, ok |-> CheckMessage(p.m)]
    BY <1>1, <1>5, <2>1 DEF ServerReads, p, q
  <2>5. c = packet_socket_ /\ packet_socket_ # NoConn
    BY <1>0, <2>4 DEF Links
  <2>6. pc[p.by] = "answer" /\ p.m = arg[p.by]
    <3>1. Named(q[1])
      BY <2>3 DEF Calls, Named, q
    <3>2. QED
      BY <2>3, <2>4, <3>1 DEF Named
  <2>7. ASSUME a.ok, p.m \in Live PROVE FreshNext(p.m)
    <3>1. LastWord(q, Live)
      BY <2>5 DEF Gone, q
    <3>2. ~HasRemove(Tail(q), p.m)
      BY <2>2, <2>4, <2>7, <3>1, TailLastWord DEF p
    <3>3. CheckMessage(p.m)
      BY <2>4, <2>7
    <3>4. p.m \in regs'[c]
      BY <1>0, <2>1, <2>4, <3>3 DEF ServerReads, p, q
    <3>5. QED
      BY <2>2, <2>5, <3>2, <3>4 DEF FreshNext
  <2>8. QED
    BY <2>2, <2>4, <2>5, <2>6, <2>7 DEF AnswerNext, Live
<1>6. QED
  BY <1>2, <1>3, <1>4, <1>5

DroppedNext == {m \in Method : m \notin method_map_' /\ removing' # m /\ m \notin crossed'}

\* A method is dropped when RemoveMessage has told the server, and by no other step.
LEMMA MapStep ==
  ASSUME TInv, [Next]_vars, ~Connects, NEW m \in DroppedNext
  PROVE  m \in Dropped \/ (RemoveSend /\ removing = m)
<1>0. m \in Method /\ m \notin method_map_' /\ removing' # m /\ m \notin crossed'
  BY DEF DroppedNext
<1>1. CASE \E s \in Signal : InitConnect(s) \/ InitFails(s)
  BY <1>0, <1>1 DEF Dropped, InitConnect, InitFails, listVars, overVars
<1>2. CASE InitDone \/ InitTimeout \/ ReConnect \/ OnMessage
  BY <1>0, <1>2 DEF Dropped, InitDone, InitTimeout, ReConnect, OnMessage, listVars, overVars
<1>3. CASE (\E k \in Method : ReListenNext(k)) \/ ReListenEnd \/ ReListenMessage
  BY <1>0, <1>3 DEF Dropped, ReListenNext, ReListenEnd, ReListenMessage, TakeMethod, overVars
<1>4. CASE \E t \in Th, s \in Signal : ListenSend(t, s)
  BY <1>0, <1>4 DEF Dropped, ListenSend, listVars, overVars
<1>5. CASE \E t \in Th : ListenSendFails(t) \/ ListenReturns(t)
  BY <1>0, <1>5 DEF Dropped, ListenSendFails, ListenReturns, overVars
<1>6. CASE RemoveSend
  BY <1>0, <1>6 DEF Dropped, RemoveSend
<1>7. CASE \E k \in Method : ListenMessage(k) \/ RemoveMessage(k)
  <2>1. CASE \E k \in Method : ListenMessage(k)
    BY <1>0, <2>1 DEF Dropped, ListenMessage, TakeMethod
  <2>2. CASE \E k \in Method : RemoveMessage(k)
    BY <1>0, <2>2, SessionAssumption DEF Dropped, RemoveMessage, ReqLockFree
  <2> QED BY <1>7, <2>1, <2>2
<1>8. CASE TriggerSignal \/ ConnectFailed \/ OnSocketErrorEvent
  BY <1>0, <1>8 DEF Dropped, TriggerSignal, ConnectFailed, OnSocketErrorEvent,
              listVars, overVars
<1>9. CASE \E a \in answers : OnAddReplayMessage(a)
  BY <1>0, <1>9 DEF Dropped, OnAddReplayMessage, overVars
<1>10. CASE Break \/ \E c \in Conn : ServerReads(c) \/ AgentGone(c)
  BY <1>0, <1>10 DEF Dropped, Break, ServerReads, AgentGone, listVars, overVars
<1>11. CASE UNCHANGED vars
  BY <1>0, <1>11 DEF Dropped, vars, listVars, overVars
<1>12. QED
  BY <1>1, <1>2, <1>3, <1>4, <1>5, <1>6, <1>7, <1>8, <1>9, <1>10, <1>11
  DEF Next, MsgStep, UserStep, Listening, Th

\* What Gone says, of one queue and one set of registrations.
NoneLeft(q, R, M, L) == LastWord(q, L) /\ \A m \in M : Undone(q, R, m)

LEMMA NoneLeftKept ==
  ASSUME TInv, Threads, Calls, [Next]_vars, ~Connects, packet_socket_' # NoConn,
         NoneLeft(toServer[packet_socket_], regs[packet_socket_], Dropped, Live)
  PROVE  NoneLeft(toServer'[packet_socket_], regs'[packet_socket_], DroppedNext, Live')
<1>0. /\ ~OnSocketErrorEvent /\ packet_socket_' = packet_socket_ /\ packet_socket_ \in Conn
      /\ packet_socket_ # NoConn
      /\ toServer \in [Conn -> Seq(Msg)] /\ regs \in [Conn -> SUBSET Method]
  <2>1. ~OnSocketErrorEvent
    BY DEF OnSocketErrorEvent
  <2>2. packet_socket_' = packet_socket_
    BY <2>1, SocketKept
  <2>3. QED
    BY <2>1, <2>2 DEF TInv, TypeOK
<1>1. /\ ~RemoveSend => DroppedNext \subseteq Dropped
      /\ RemoveSend => DroppedNext \subseteq Dropped \cup {removing}
  BY MapStep
<1> DEFINE c == packet_socket_
           q == toServer[c]
           R == regs[c]
<1>2. q \in Seq(Msg) /\ LastWord(q, Live') /\ \A m \in Dropped : Undone(q, R, m)
  <2>1. q \in Seq(Msg) /\ LastWord(q, Live) /\ \A m \in Dropped : Undone(q, R, m)
    BY <1>0 DEF NoneLeft
  <2>2. CASE Live' \subseteq Live
    BY <2>1, <2>2 DEF LastWord
  <2>3. CASE \A t \in Th : pc[t] # "answer"
    <3>1. ASSUME NEW i \in 1..Len(q) PROVE q[i].by = "nobody"
      <4>1. q[i] \in Msg /\ Named(q[i])
        BY <1>0, <2>1 DEF Calls, Named
      <4>2. QED
        BY <2>3, <4>1 DEF Msg, Named
    <3>2. QED
      BY <2>1, <3>1 DEF LastWord
  <2>4. QED
    BY <2>1, <2>2, <2>3, LiveStep
<1>3. CASE \E t \in Th, s \in Signal : ListenSend(t, s)
  <2>1. PICK t \in Th, s \in Signal : ListenSend(t, s)
    BY <1>3
  <2> DEFINE p == [op |-> "add", m |-> arg[t], by |-> t]
  <2>2. p \in Msg /\ p.op = "add" /\ p.m \in method_map_ \cup crossed
    <3>1. p \in Msg /\ pc[t] = "send"
      BY <2>1 DEF Msg, ListenSend, Goto, TInv, Holds
    <3>2. arg[t] \in method_map_ \cup crossed
      BY <3>1 DEF Threads
    <3>3. QED
      BY <3>1, <3>2
  <2>3. toServer'[c] = Append(q, p) /\ regs'[c] = R
    BY <1>0, <2>1 DEF ListenSend
  <2>4. ~RemoveSend
    BY <2>1 DEF ListenSend, RemoveSend, ReqLockFree, listVars, overVars
  <2> HIDE DEF p, q, R, c
  <2>5. LastWord(Append(q, p), Live')
    BY <1>2, <2>2, AppendLastWord
  <2>6. \A m \in DroppedNext : Undone(Append(q, p), R, m)
    BY <1>1, <1>2, <2>2, <2>4, AppendUndone DEF Dropped
  <2>7. QED
    BY <2>3, <2>5, <2>6 DEF NoneLeft, c
<1>4. CASE RemoveSend
  <2> DEFINE p == [op |-> "remove", m |-> removing, by |-> "nobody"]
  <2>1. p \in Msg /\ p.op = "remove" /\ p.m = removing
    BY <1>4 DEF Msg, RemoveSend, ReqLockFree, TInv, TypeOK
  <2>2. toServer'[c] = Append(q, p) /\ regs'[c] = R
    BY <1>0, <1>4 DEF RemoveSend
  <2>3. removing \notin Live'
    BY <1>4 DEF RemoveSend, Live, Threads
  <2> HIDE DEF p, q, R, c
  <2>4. LastWord(Append(q, p), Live')
    BY <1>2, <2>1, <2>3, AppendLastWord
  <2>5. \A m \in DroppedNext : Undone(Append(q, p), R, m)
    BY <1>1, <1>2, <1>4, <2>1, AppendUndone
  <2>6. QED
    BY <2>2, <2>4, <2>5 DEF NoneLeft, c
<1>5. CASE \E t \in Th : ListenReturns(t)
  <2>1. PICK t \in Th : ListenReturns(t)
    BY <1>5
  <2>2. toServer'[c] = Nobody(q, {t}) /\ regs'[c] = R /\ {t} \in SUBSET Th
    BY <1>0, <2>1 DEF ListenReturns, Forget
  <2>3. ~RemoveSend
    BY <2>1 DEF ListenReturns, RemoveSend, ReqLockFree, overVars
  <2> HIDE DEF q, R, c
  <2>4. LastWord(Nobody(q, {t}), Live') /\ \A m \in Dropped : Undone(Nobody(q, {t}), R, m)
    BY <1>2, <2>2, NobodyKeeps
  <2>5. QED
    BY <1>1, <2>2, <2>3, <2>4 DEF NoneLeft, c
<1>6. CASE \E d \in Conn : ServerReads(d)
  <2>1. PICK d \in Conn : ServerReads(d)
    BY <1>6
  <2>2. ~RemoveSend
    BY <2>1 DEF ServerReads, RemoveSend, ReqLockFree, listVars, overVars
  <2>3. CASE d # c
    <3>1. toServer'[c] = q /\ regs'[c] = R
      BY <1>0, <2>1, <2>3 DEF ServerReads
    <3>2. QED
      BY <1>1, <1>2, <2>2, <3>1 DEF NoneLeft
  <2>4. CASE d = c
    <3>1. q # <<>> /\ toServer'[c] = Tail(q)
      BY <1>0, <2>1, <2>4 DEF ServerReads
    <3>2. LastWord(Tail(q), Live')
      BY <1>2, <3>1, TailLastWord
    <3> DEFINE R2 == regs'[c]
    <3>3. \A m : \/ m \notin R2
                 \/ m \in R /\ ~(Head(q).op = "remove" /\ Head(q).m = m)
                 \/ Head(q).op = "add" /\ Head(q).m = m
      <4>1. Head(q) \in Msg
        BY <1>2, <3>1, TailFacts
      <4>2. Head(q).op \in {"add", "remove"}
        BY <4>1 DEF Msg
      <4>3. CASE Head(q).op = "remove"
        <5>1. R2 = R \ {Head(q).m}
          BY <1>0, <2>1, <2>4, <4>3 DEF ServerReads
        <5>2. QED
          BY <5>1
      <4>4. CASE Head(q).op = "add"
        <5>1. R2 = R \/ R2 = R \cup {Head(q).m}
          BY <1>0, <2>1, <2>4, <4>4 DEF ServerReads
        <5>2. QED
          BY <4>4, <5>1
      <4>5. QED
        BY <4>2, <4>3, <4>4
    <3> HIDE DEF q, R, R2, c
    <3>4. \A m \in Dropped : Undone(Tail(q), R2, m)
      BY <1>2, <3>1, <3>3, TailUndone
    <3>5. QED
      BY <1>1, <2>2, <3>1, <3>2, <3>4 DEF NoneLeft, R2, c
  <2>5. QED
    BY <2>3, <2>4
<1>7. CASE UNCHANGED <<toServer, regs>> /\ ~RemoveSend
  BY <1>1, <1>2, <1>7 DEF NoneLeft
<1>8. CASE \E d \in Conn : AgentGone(d)
  <2>1. toServer'[c] = q /\ regs'[c] = R
    BY <1>0, <1>8 DEF AgentGone
  <2>2. ~RemoveSend
    BY <1>8 DEF AgentGone, RemoveSend, ReqLockFree, listVars, overVars
  <2>3. QED
    BY <1>1, <1>2, <2>1, <2>2 DEF NoneLeft
<1>9. QED
  <2>1. (\E a \in answers : OnAddReplayMessage(a)) => UNCHANGED <<toServer, regs>>
    BY DEF OnAddReplayMessage
  <2>2. Break => UNCHANGED <<toServer, regs>>
    BY DEF Break
  <2>3. QED
    BY <1>0, <1>3, <1>4, <1>5, <1>6, <1>7, <1>8, <2>1, <2>2, ServerStep DEF Connects

LEMMA NextGone ==
  ASSUME TInv, Links, Threads, Calls, Gone, [Next]_vars
  PROVE  Gone'
<1>1. SUFFICES ASSUME packet_socket_' # NoConn
               PROVE  NoneLeft(toServer'[packet_socket_'], regs'[packet_socket_'], DroppedNext, Live')
  BY DEF Gone, NoneLeft, Dropped, DroppedNext, Live
<1>2. CASE Connects
  <2>1. PICK c \in Conn : OnSocketConnectEvent(c)
    BY <1>2 DEF Connects
  <2>2. packet_socket_' = c /\ toServer'[c] = <<>> /\ regs'[c] = {}
    BY <2>1 DEF OnSocketConnectEvent, Links
  <2>3. Len(toServer'[c]) = 0 /\ 1..0 = {}
    BY <2>2
  <2>4. QED
    BY <2>2, <2>3 DEF NoneLeft, LastWord, Undone
<1>3. CASE ~Connects
  <2>2. packet_socket_' = packet_socket_
    <3>1. ~OnSocketErrorEvent
      BY <1>1 DEF OnSocketErrorEvent
    <3>2. QED
      BY <1>3, <3>1, SocketKept
  <2>3. NoneLeft(toServer[packet_socket_], regs[packet_socket_], Dropped, Live)
    BY <1>1, <2>2 DEF Gone, NoneLeft
  <2>4. QED
    BY <1>1, <1>3, <2>2, <2>3, NoneLeftKept
<1>4. QED
  BY <1>2, <1>3

---------------------------------------------------------------------------
(* What the server agreed to.                                                *)

\* A step adds to what was agreed to only by an answer.
LEMMA AgreedStep ==
  ASSUME TInv, Threads, [Next]_vars, ~Connects, NEW m, m \in Agreed'
  PROVE  \/ m \in Agreed
         \/ \E a \in answers : OnAddReplayMessage(a) /\ a.ok /\ m = arg[a.by]
<1>0. /\ arg \in [Th -> Method \cup {0}] /\ res \in [Th -> {"none", "ok", "refused"}]
      /\ pc \in [Th -> Steps]
  BY DEF TInv, TypeOK
<1> DEFINE Told == accepted \cup {arg[t] : t \in {u \in Th : pc[u] = "answer" /\ res[u] = "ok"}}
<1>a. m \in Live
  BY LiveStep DEF Agreed
<1>b. SUFFICES m \in Told \/ \E a \in answers : OnAddReplayMessage(a) /\ a.ok /\ m = arg[a.by]
  BY <1>a DEF Agreed
<1>1. CASE m \in accepted'
  <2>1. CASE \E t \in Th : ListenReturns(t)
    <3>1. PICK t \in Th : ListenReturns(t)
      BY <2>1
    <3>2. pc[t] = "answer" /\ (m \in accepted \/ (res[t] = "ok" /\ m = arg[t]))
      BY <1>1, <3>1 DEF ListenReturns, Goto
    <3>3. QED
      BY <3>2
  <2>2. CASE ~\E t \in Th : ListenReturns(t)
    <3>1. accepted' \subseteq accepted
      <4>1. CASE \E s \in Signal : InitConnect(s) \/ InitFails(s)
        BY <4>1 DEF InitConnect, InitFails, listVars, overVars
      <4>2. CASE InitDone \/ InitTimeout \/ ReConnect \/ OnMessage
        BY <4>2 DEF InitDone, InitTimeout, ReConnect, OnMessage, listVars, overVars
      <4>3. CASE (\E k \in Method : ReListenNext(k)) \/ ReListenEnd \/ ReListenMessage
        BY <4>3 DEF ReListenNext, ReListenEnd, ReListenMessage, TakeMethod
      <4>4. CASE \E t \in Th : ListenSendFails(t) \/ \E s \in Signal : ListenSend(t, s)
        BY <4>4 DEF ListenSendFails, ListenSend, listVars, overVars
      <4>5. CASE RemoveSend \/ \E k \in Method : ListenMessage(k) \/ RemoveMessage(k)
        BY <4>5 DEF RemoveSend, ListenMessage, RemoveMessage, TakeMethod
      <4>6. CASE Connects \/ TriggerSignal \/ ConnectFailed \/ OnSocketErrorEvent
        BY <4>6 DEF Connects, OnSocketConnectEvent, TriggerSignal, ConnectFailed,
                    OnSocketErrorEvent, listVars, overVars
      <4>7. CASE \E a \in answers : OnAddReplayMessage(a)
        BY <4>7 DEF OnAddReplayMessage
      <4>8. CASE Break \/ \E c \in Conn : ServerReads(c) \/ AgentGone(c)
        BY <4>8 DEF Break, ServerReads, AgentGone, listVars, overVars
      <4>9. CASE UNCHANGED vars
        BY <4>9 DEF vars, listVars, overVars
      <4>10. QED
        BY <2>2, <4>1, <4>2, <4>3, <4>4, <4>5, <4>6, <4>7, <4>8, <4>9
        DEF Next, MsgStep, UserStep, Listening, Th
    <3>2. QED
      BY <1>1, <3>1
  <2>3. QED
    BY <2>1, <2>2
<1>2. CASE \E t \in Th : pc'[t] = "answer" /\ res'[t] = "ok" /\ m = arg'[t]
  <2>1. PICK t \in Th : pc'[t] = "answer" /\ res'[t] = "ok" /\ m = arg'[t]
    BY <1>2
  <2>2. CASE \E s \in Signal : ListenSend(t, s)
    <3>1. res'[t] = "none"
      BY <2>2 DEF ListenSend, Goto, Threads, listVars, overVars
    <3>2. QED
      BY <2>1, <3>1
  <2>3. CASE pc[t] = "answer" /\ res[t] = "ok"
    <3>1. arg'[t] = arg[t]
      <4>1. ~ListenReturns(t)
        BY <1>0, <2>1 DEF ListenReturns, Goto, Back
      <4>2. QED
        BY <2>3, <4>1, AnswerStep
    <3>2. QED
      BY <2>1, <2>3, <3>1
  <2>4. CASE pc[t] = "answer" /\ res[t] # "ok"
    <3>1. PICK a \in answers : OnAddReplayMessage(a)
      BY <2>1, <2>4, AnswerStep
    <3>2. res' = [res EXCEPT ![a.by] = IF a.ok THEN "ok" ELSE "refused"] /\ arg' = arg
      BY <3>1 DEF OnAddReplayMessage
    <3>3. a.by = t /\ a.ok
      <4>1. a.by \in Th
        BY DEF TInv, TypeOK, Answer
      <4>2. QED
        BY <1>0, <2>1, <2>4, <3>2, <4>1
    <3>4. QED
      BY <2>1, <3>1, <3>2, <3>3
  <2>5. QED
    BY <2>1, <2>2, <2>3, <2>4, AnswerStep
<1>3. QED
  BY <1>1, <1>2 DEF Agreed

\* Excuses end only where ReListen begins.
LEMMA ExcusedStep ==
  ASSUME TInv, Attempt, Links, Threads, Excused, [Next]_vars, ~InitDone
  PROVE  Excused'
<1>0. /\ pc \in [Th -> Steps] /\ link \in [Conn -> {"free", "up", "down"}]
      /\ packet_socket_ \in Conn \cup {NoConn} /\ NoConn \notin Conn
  BY SessionAssumption DEF TInv, TypeOK, NoConn
<1>1. CASE \E s \in Signal : InitConnect(s) \/ InitFails(s)
  <2>1. Connecting'
    BY <1>0, <1>1 DEF Connecting, InitConnect, InitFails, Goto, Th
  <2>2. QED
    BY <2>1 DEF Excused
<1>2. CASE InitTimeout \/ ReConnect \/ OnMessage
  <2>1. Connecting'
    BY <1>0, <1>2 DEF Connecting, InitTimeout, ReConnect, OnMessage, Goto, Th
  <2>2. QED
    BY <2>1 DEF Excused
<1>3. CASE (\E k \in Method : ReListenNext(k)) \/ ReListenEnd \/ ReListenMessage
  <2>1. /\ pc["msg"] \in {"next", "lock"}
        /\ UNCHANGED <<packet_socket_, link, reconnect, early, wild>>
    BY <1>0, <1>3 DEF ReListenNext, ReListenEnd, ReListenMessage, Goto, Th, srvVars, overVars
  <2>2. QED
    BY <2>1 DEF Excused, Connecting
<1>4. CASE \E t \in Th : ListenSendFails(t) \/ ListenReturns(t) \/ \E s \in Signal : ListenSend(t, s)
  <2>1. /\ UNCHANGED <<packet_socket_, link, reconnect, early, wild>>
        /\ pc["msg"] \in {"init", "wait", "timeout"} => pc'["msg"] = pc["msg"]
    BY <1>0, <1>4 DEF ListenSendFails, ListenReturns, ListenSend, Goto, Th, srvVars, listVars, overVars
  <2>2. QED
    BY <2>1 DEF Excused, Connecting
<1>5. CASE RemoveSend \/ \E k \in Method : ListenMessage(k) \/ RemoveMessage(k)
  <2>1. UNCHANGED <<packet_socket_, link, reconnect, early>> /\ (wild => wild') /\ pc'["msg"] = pc["msg"]
    <3>1. CASE RemoveSend
      BY <1>0, <3>1 DEF RemoveSend
    <3>2. CASE \E k \in Method : ListenMessage(k)
      BY <1>0, <3>2 DEF ListenMessage, Goto, Th, srvVars
    <3>3. CASE \E k \in Method : RemoveMessage(k)
      BY <1>0, <3>3 DEF RemoveMessage, srvVars
    <3>4. QED
      BY <1>5, <3>1, <3>2, <3>3
  <2>2. QED
    BY <2>1 DEF Excused, Connecting
<1>6. CASE Connects
  <2>1. Connecting
    BY <1>6 DEF Connects, OnSocketConnectEvent, Attempt
  <2>2. UNCHANGED <<pc, reconnect, early>>
    BY <1>6 DEF Connects, OnSocketConnectEvent
  <2>3. QED
    BY <2>1, <2>2 DEF Excused, Connecting
<1>7. CASE OnSocketErrorEvent
  BY <1>7 DEF OnSocketErrorEvent, Excused
<1>8. CASE TriggerSignal \/ ConnectFailed \/ (\E a \in answers : OnAddReplayMessage(a))
           \/ (\E c \in Conn : ServerReads(c))
  <2>1. UNCHANGED <<packet_socket_, link, reconnect, early, wild, pc>>
    BY <1>8 DEF TriggerSignal, ConnectFailed, OnAddReplayMessage, ServerReads, srvVars, listVars, overVars
  <2>2. QED
    BY <2>1 DEF Excused, Connecting
<1>9. CASE Break \/ \E c \in Conn : AgentGone(c)
  <2>1. UNCHANGED <<packet_socket_, reconnect, early, wild, pc>>
    BY <1>9 DEF Break, AgentGone, listVars, overVars
  <2>2. packet_socket_ # NoConn /\ link[packet_socket_] # "up" => link'[packet_socket_] # "up"
    BY <1>0, <1>9 DEF Break, AgentGone
  <2>3. QED
    BY <2>1, <2>2 DEF Excused, Connecting
<1>10. CASE UNCHANGED vars
  BY <1>10 DEF Excused, Connecting, vars, srvVars, listVars, overVars
<1>11. QED
  BY <1>1, <1>2, <1>3, <1>4, <1>5, <1>6, <1>7, <1>8, <1>9, <1>10
  DEF Next, MsgStep, UserStep, Listening, Th

\* ReListen leaves out nothing that is before it.
LEMMA AheadStep ==
  ASSUME TInv, Threads, [Next]_vars, ~Excused, NEW m \in Agreed, m \in Agreed', Ahead(m)
  PROVE  Ahead(m)'
<1>0. /\ pc \in [Th -> Steps] /\ m \in method_map_ /\ m \in Nat /\ cursor \in Nat /\ ~wild
      /\ packet_socket_ # NoConn /\ pc["msg"] \in {"next", "lock", "send", "answer"}
      /\ arg \in [Th -> Method \cup {0}] /\ method_map_ \subseteq Nat
  <2>1. Method \subseteq Nat /\ method_map_ \subseteq Method /\ cursor \in Method \cup {0}
    BY SessionAssumption DEF TInv, TypeOK
  <2>2. m \in method_map_ /\ ~wild
    BY DEF Agreed, Live, Excused
  <2>3. QED
    BY <2>1, <2>2 DEF TInv, TypeOK, Excused, Ahead
<1>1. CASE \E k \in Method : ReListenNext(k)
  <2>1. PICK k \in Method : ReListenNext(k)
    BY <1>1
  <2>2. pc["msg"] = "next" /\ pc'["msg"] = "lock" /\ cursor' = k /\ k \in FirstOf(After(cursor))
    BY <1>0, <2>1 DEF ReListenNext, Goto, Th
  <2>3. m > cursor
    BY <2>2 DEF Ahead
  <2>4. k <= m /\ k \in Nat
    BY <1>0, <2>2, <2>3 DEF FirstOf, After
  <2>5. QED
    BY <1>0, <2>2, <2>4 DEF Ahead
<1>2. CASE ReListenEnd
  <2>1. pc["msg"] = "next" /\ After(cursor) = {}
    BY <1>0, <1>2 DEF ReListenEnd, Goto
  <2>2. m > cursor
    BY <2>1 DEF Ahead
  <2>3. QED
    BY <1>0, <2>1, <2>2 DEF After
<1>3. CASE ReListenMessage
  <2>1. /\ pc["msg"] = "lock" /\ pc'["msg"] = "send" /\ pc'["user"] = pc["user"]
        /\ cursor' = cursor /\ arg' = arg
        /\ accepted' = accepted \ {arg["msg"]} /\ method_crit_ = "nobody"
    BY <1>0, <1>3 DEF ReListenMessage, TakeMethod, Goto, Th
  <2>2. pc["user"] # "answer" /\ arg["msg"] = cursor
    BY <2>1 DEF Threads, Th
  <2>3. m \in accepted'
    BY <2>1, <2>2 DEF Agreed, Th
  <2>4. m # cursor /\ m >= cursor
    BY <2>1, <2>2, <2>3 DEF Ahead
  <2>5. QED
    BY <1>0, <2>1, <2>4 DEF Ahead
<1>4. CASE \E t \in Th : ListenReturns(t) \/ \E s \in Signal : ListenSend(t, s)
  <2>1. /\ cursor' = cursor
        /\ \/ pc'["msg"] = pc["msg"]
           \/ pc["msg"] \in {"send", "answer"} /\ pc'["msg"] \in {"answer", "next"}
    BY <1>0, <1>4 DEF ListenReturns, ListenSend, Back, Goto, Th, listVars, overVars
  <2>2. QED
    BY <1>0, <2>1 DEF Ahead
<1>5. CASE \E t \in Th : ListenSendFails(t)
  BY <1>0, <1>5 DEF ListenSendFails
<1>6. CASE RemoveSend \/ \E k \in Method : ListenMessage(k) \/ RemoveMessage(k)
  <2>1. cursor' = cursor /\ pc'["msg"] = pc["msg"]
    BY <1>0, <1>6 DEF RemoveSend, ListenMessage, RemoveMessage, Goto, Th
  <2>2. QED
    BY <2>1 DEF Ahead
<1>7. CASE MsgStep /\ ~Listening("msg") /\ ~(\E k \in Method : ReListenNext(k))
           /\ ~ReListenEnd /\ ~ReListenMessage
  <2>1. pc["msg"] \in {"init", "wait", "timeout", "idle"}
    BY <1>7 DEF MsgStep, InitConnect, InitFails, InitDone, InitTimeout, ReConnect, OnMessage, Goto
  <2>2. QED
    BY <1>0, <2>1
<1>8. CASE Connects \/ TriggerSignal \/ ConnectFailed \/ OnSocketErrorEvent
           \/ (\E a \in answers : OnAddReplayMessage(a))
           \/ Break \/ (\E c \in Conn : ServerReads(c) \/ AgentGone(c))
  <2>1. UNCHANGED <<cursor, pc>>
    BY <1>8 DEF Connects, OnSocketConnectEvent, TriggerSignal, ConnectFailed, OnSocketErrorEvent,
                OnAddReplayMessage, Break, ServerReads, AgentGone, listVars, overVars
  <2>2. QED
    BY <2>1 DEF Ahead
<1>9. CASE UNCHANGED vars
  BY <1>9 DEF Ahead, vars, listVars, overVars
<1>10. QED
  BY <1>1, <1>2, <1>3, <1>4, <1>5, <1>6, <1>7, <1>8, <1>9 DEF Next, UserStep, Listening, Th

LEMMA NextKept ==
  ASSUME TInv, Links, Threads, Attempt, Answered, Kept, [Next]_vars
  PROVE  Kept'
<1>1. SUFFICES ASSUME NEW m, m \in Agreed', ~Excused' PROVE Ahead(m)' \/ FreshNext(m)
  BY DEF Kept, Fresh, FreshNext
<1>2. ~Connects /\ ~OnSocketErrorEvent
  <2>1. ~OnSocketErrorEvent
    BY <1>1 DEF OnSocketErrorEvent, Excused
  <2>2. Connects => Connecting'
    BY DEF Connects, OnSocketConnectEvent, Attempt, Connecting
  <2>3. QED
    BY <1>1, <2>1, <2>2 DEF Excused
<1>5. CASE InitDone
  <2>1. pc' = [pc EXCEPT !["msg"] = IF created THEN "next" ELSE "idle"] /\ pc \in [Th -> Steps]
        /\ pc["msg"] = "wait" /\ cursor' = 0 /\ UNCHANGED <<accepted, arg, res, method_map_, crossed>>
    BY <1>5 DEF InitDone, Goto, TInv, TypeOK, overVars
  <2>2. m \in Agreed
    BY <1>1, <2>1 DEF Agreed, Live, Th
  <2>3. CASE created
    <3>1. m \in Method
      BY <2>2 DEF Agreed, Live, TInv, TypeOK
    <3>2. m > 0
      BY <3>1, SessionAssumption
    <3>3. QED
      BY <2>1, <2>3, <3>2 DEF Ahead, Th
  <2>4. CASE ~created
    <3>1. accepted = {} /\ pc["user"] = "idle"
      BY <2>4 DEF Threads
    <3>2. QED
      BY <2>1, <2>2, <3>1 DEF Agreed, Th
  <2>5. QED
    BY <2>3, <2>4
<1>6. CASE ~InitDone /\ m \in Agreed
  <2>1. ~Excused
    BY <1>1, <1>6, ExcusedStep
  <2>2. CASE Ahead(m)
    BY <1>1, <1>6, <2>1, <2>2, AheadStep
  <2>3. CASE Fresh(m)
    <3>1. m \in Method
      BY <2>3 DEF Fresh, TInv, TypeOK
    <3>2. removing # m
      BY <1>6 DEF Agreed, Threads
    <3>3. QED
      BY <1>2, <2>3, <3>1, <3>2, FreshKept
  <2>4. QED
    BY <1>6, <2>1, <2>2, <2>3 DEF Kept
<1>7. CASE ~InitDone /\ m \notin Agreed
  <2>1. PICK a \in answers : OnAddReplayMessage(a) /\ a.ok /\ m = arg[a.by]
    BY <1>1, <1>2, <1>7, AgreedStep
  <2>2. Fresh(m)
    <3>1. m \in Live
      BY <1>1, <2>1 DEF Agreed, Live, OnAddReplayMessage, overVars
    <3>2. QED
      BY <2>1, <3>1 DEF Answered
  <2>3. m \in Method
    BY <2>2 DEF Fresh, TInv, TypeOK
  <2>4. ~RemoveSend
    BY <2>1 DEF OnAddReplayMessage, RemoveSend
  <2>5. QED
    BY <1>2, <2>2, <2>3, <2>4, FreshKept
<1>8. QED
  BY <1>5, <1>6, <1>7

---------------------------------------------------------------------------
LEMMA InitSessInv == Init => SessInv
<1> SUFFICES ASSUME Init PROVE SessInv
  OBVIOUS
<1>1. Links /\ Attempt /\ Answered
  BY SessionAssumption DEF Init, Links, Attempt, Answered, Connecting, NoConn, Th
<1>2. Threads
  BY SessionAssumption DEF Init, Threads, Live, Th
<1>3. Calls
  <2>1. \A c \in Conn : Len(toServer[c]) = 0
    BY DEF Init
  <2>2. 1..0 = {}
    OBVIOUS
  <2>3. QED
    BY <2>1, <2>2 DEF Calls
<1>4. Kept /\ Gone
  BY DEF Init, Kept, Gone, Excused, NoConn
<1>5. QED
  BY <1>1, <1>2, <1>3, <1>4 DEF SessInv

LEMMA NextSessInv == TInv /\ SessInv /\ [Next]_vars => SessInv'
BY NextLinks, NextThreads, NextAttempt, NextCalls, NextAnswered, NextKept, NextGone DEF SessInv

LEMMA SpecSessInv == Spec => [](TInv /\ SessInv)
<1>1. Init => TInv /\ SessInv
  BY InitTInv, InitSessInv
<1>2. TInv /\ SessInv /\ [Next]_vars => TInv' /\ SessInv'
  BY NextTInv, NextSessInv
<1> QED BY <1>1, <1>2, PTL DEF Spec

\* For any number of methods, connections, breaks, late connections and calls meanwhile: when
\* the client has settled, every method whose last ListenMessage the server agreed to is
\* registered on the connection in use (ReListen and ListenMessage against OnSocketErrorEvent,
\* RemoveMessage and the answers of old connections).  The exceptions are those of Registered:
\* a method whose ListenMessage and RemoveMessage overlapped, ReListen on an iterator that
\* RemoveMessage pulled away, and a connection that came after its Init had ended.
THEOREM SpecRegistered == Spec => []Registered
<1>1. TInv /\ SessInv => Registered
  <2>1. SUFFICES ASSUME TInv, SessInv, NEW c \in Conn, packet_socket_ = c, link[c] = "up",
                        pc["msg"] = "idle", ~reconnect, ~early, ~wild
                 PROVE  accepted \ crossed \subseteq regs[c]
    BY DEF Registered
  <2>2. c # NoConn
    BY SessionAssumption DEF NoConn
  <2>3. ~Excused /\ \A m : ~Ahead(m)
    BY <2>1, <2>2 DEF Excused, Connecting, Ahead
  <2>4. \A m \in accepted \ crossed : m \in Agreed
    BY <2>1 DEF TInv, TypeOK, Agreed, Live
  <2>5. \A m \in accepted \ crossed : Fresh(m)
    BY <2>1, <2>3, <2>4 DEF SessInv, Kept
  <2>6. QED
    BY <2>1, <2>5 DEF Fresh
<1> QED BY <1>1, SpecSessInv, PTL

\* What RemoveMessage took away is not registered on the connection in use once the server has
\* read everything, over any reconnects and with RemoveMessage at any point of a ListenMessage
\* of the user or of ReListen, dangling iterator or not.  The exception is a method that
\* RemoveMessage erased between the insertion and the send of such a ListenMessage: the two
\* take different locks, and the theorem claims nothing of it until it is listened to or
\* removed again without overlap, or the connection is replaced.
THEOREM SpecNoGhost == Spec => []NoGhost
<1>1. TInv /\ SessInv => NoGhost
  <2>1. SUFFICES ASSUME TInv, SessInv, NEW c \in Conn, packet_socket_ = c, toServer[c] = <<>>,
                        ReqLockFree, NEW m \in regs[c], m \notin crossed
                 PROVE  m \in method_map_
    BY DEF NoGhost
  <2>2. c # NoConn /\ m \in Method /\ removing # m
    <3>1. regs[c] \in SUBSET Method
      BY <2>1 DEF TInv, TypeOK
    <3>2. m \in Method /\ m # 0
      BY <3>1, SessionAssumption
    <3>3. QED
      BY <2>1, <3>2, SessionAssumption DEF NoConn, ReqLockFree
  <2>3. ~HasRemove(toServer[c], m)
    BY <2>1 DEF HasRemove
  <2>4. m \in method_map_ \/ Undone(toServer[c], regs[c], m)
    BY <2>1, <2>2 DEF SessInv, Gone, Dropped
  <2>5. QED
    BY <2>3, <2>4 DEF Undone
<1> QED BY <1>1, SpecSessInv, PTL
=============================================================================
