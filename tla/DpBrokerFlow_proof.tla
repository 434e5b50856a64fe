------------------------ MODULE DpBrokerFlow_proof ------------------------
(***************************************************************************)
(* What travels through the DP broker: replies go home and no process      *)
(* hears its own messages, for every set of connections and methods.       *)
(*                                                                         *)
(* The invariant follows the id of a call round its trip: the MESSAGE of a *)
(* call names the call, the REQUEST the broker forwards carries the agent  *)
(* id of the caller, the handler's todo entry and its REPLY keep it, and   *)
(* the broker finds the caller again because agent ids are used once and   *)
(* fit the field.  NoEcho rests on TCP's order: unless an ADD_MESSAGE went *)
(* out before SET_NAME, the packet that tells the broker the client's pid  *)
(* is read before any that makes it a listener.                            *)
(***************************************************************************)
EXTENDS DpBroker_proof

Homed(id, data) ==
  /\ agent_id_[data.conn] # 0
  /\ id = [agent |-> agent_id_[data.conn] % IdMod, mid |-> data.mid]

OkToServer(c, p) ==
  /\ p.type = "SET_NAME" => p.pid = PidOf[c]
  /\ p.type = "MESSAGE" => p.pid = PidOf[c] /\ p.data = [conn |-> c, mid |-> p.id.mid]
  /\ p.type = "REPLY" => Homed(p.id, p.data)

OkToClient(c, p) ==
  /\ p.type = "REQUEST" => Homed(p.id, p.data)
  /\ p.type \in ListenType =>
       p.data.conn # c /\ (c \notin early => PidOf[p.data.conn] # PidOf[c])
  /\ p.type = "REPLY" /\ p.data # NoCall /\ agent_num_ < IdMod =>
       p.data = [conn |-> c, mid |-> p.id.mid]

ToServerInv == \A c \in Conn : \A p \in Packets(c2s[c]) : OkToServer(c, p)
ToClientInv == \A c \in Conn : \A p \in Packets(s2c[c]) : OkToClient(c, p)
TodoInv == \A c \in Conn : \A r \in todo[c] : Homed(r.id, r.data)

\* In the queue s, a SET_NAME comes before every ADD_MESSAGE.
NamedBefore(s) ==
  \A i \in DOMAIN s : s[i].type = "ADD_MESSAGE" =>
    \E j \in DOMAIN s : j < i /\ s[j].type = "SET_NAME"

\* Unless the connection was used too early, an agent that has not learnt its pid has read
\* no ADD_MESSAGE and will read the SET_NAME packet before the first one.
Naming(c) ==
  /\ cli[c] = "idle" => c2s[c] = <<>> /\ packet_socket_[c] = "none" /\ c \notin named
  /\ packet_socket_[c] = "closed" => cli[c] = "down"
  /\ c \notin named \cup early => \A p \in Packets(c2s[c]) : p.type # "ADD_MESSAGE"
  /\ c \in named /\ remote_pid_[c] # PidOf[c] /\ packet_socket_[c] # "closed" =>
       \E p \in Packets(c2s[c]) : p.type = "SET_NAME"
  /\ c \notin early /\ remote_pid_[c] # PidOf[c] => NamedBefore(c2s[c])
  /\ c \notin early /\ packet_socket_[c] = "open" =>
       \A m \in Method : method_map_[c][m] # NotListening => remote_pid_[c] = PidOf[c]

NamedFirst == \A c \in Conn : Naming(c)

FlowInv == ToServerInv /\ ToClientInv /\ TodoInv /\ NamedFirst

---------------------------------------------------------------------------
LEMMA PacketsAppend ==
  ASSUME NEW S, NEW s \in Seq(S), NEW e
  PROVE  \A p \in Packets(Append(s, e)) : p \in Packets(s) \/ p = e
BY DEF Packets

LEMMA PacketsTail ==
  ASSUME NEW S, NEW s \in Seq(S), s # <<>>
  PROVE  Packets(Tail(s)) \subseteq Packets(s) /\ Head(s) \in Packets(s)
BY DEF Packets

LEMMA PacketsType ==
  ASSUME NEW S, NEW s \in Seq(S)
  PROVE  Packets(s) \subseteq S
BY DEF Packets

LEMMA PacketsSplit ==
  ASSUME NEW S, NEW s \in Seq(S), s # <<>>, NEW p \in Packets(s), p # Head(s)
  PROVE  p \in Packets(Tail(s))
<1>1. PICK i \in DOMAIN s : p = s[i]
  BY DEF Packets
<1>2. i # 1 /\ i \in 1..Len(s)
  BY <1>1
<1>3. i - 1 \in DOMAIN Tail(s) /\ Tail(s)[i - 1] = s[i]
  BY <1>2
<1>4. QED
  BY <1>1, <1>3 DEF Packets

LEMMA PacketsGrow ==
  ASSUME NEW S, NEW s \in Seq(S), NEW e \in S
  PROVE  Packets(s) \subseteq Packets(Append(s, e)) /\ e \in Packets(Append(s, e))
<1>1. \A i \in DOMAIN s : i \in DOMAIN Append(s, e) /\ Append(s, e)[i] = s[i]
  OBVIOUS
<1>2. Len(s) + 1 \in DOMAIN Append(s, e) /\ Append(s, e)[Len(s) + 1] = e
  OBVIOUS
<1>3. QED
  BY <1>1, <1>2 DEF Packets

LEMMA NamedHead ==
  ASSUME NEW S, NEW s \in Seq(S), s # <<>>, NamedBefore(s)
  PROVE  Head(s).type # "ADD_MESSAGE"
<1>1. 1 \in DOMAIN s /\ s[1] = Head(s) /\ \A j \in DOMAIN s : j \in Nat /\ ~(j < 1)
  OBVIOUS
<1>2. QED
  BY <1>1 DEF NamedBefore

LEMMA NamedTail ==
  ASSUME NEW S, NEW s \in Seq(S), s # <<>>, NamedBefore(s), Head(s).type # "SET_NAME"
  PROVE  NamedBefore(Tail(s))
<1>1. SUFFICES ASSUME NEW i \in DOMAIN Tail(s), Tail(s)[i].type = "ADD_MESSAGE"
               PROVE  \E j \in DOMAIN Tail(s) : j < i /\ Tail(s)[j].type = "SET_NAME"
  BY DEF NamedBefore
<1>2. i \in Nat /\ i + 1 \in DOMAIN s /\ Tail(s)[i] = s[i + 1]
  OBVIOUS
<1>3. PICK j \in DOMAIN s : j < i + 1 /\ s[j].type = "SET_NAME"
  BY <1>1, <1>2 DEF NamedBefore
<1>4. j # 1 /\ j \in 1..Len(s)
  BY <1>3
<1>5. j - 1 \in DOMAIN Tail(s) /\ Tail(s)[j - 1] = s[j] /\ j - 1 < i
  BY <1>2, <1>3, <1>4
<1>6. QED
  BY <1>3, <1>5

LEMMA NamedAppend ==
  ASSUME NEW S, NEW s \in Seq(S), NEW e \in S, NamedBefore(s),
         e.type = "ADD_MESSAGE" => \E p \in Packets(s) : p.type = "SET_NAME"
  PROVE  NamedBefore(Append(s, e))
<1>1. \A i \in DOMAIN s : i \in DOMAIN Append(s, e) /\ Append(s, e)[i] = s[i] /\ i < Len(s) + 1
  OBVIOUS
<1>2. SUFFICES ASSUME NEW i \in DOMAIN Append(s, e), Append(s, e)[i].type = "ADD_MESSAGE"
               PROVE  \E j \in DOMAIN s : j < i /\ s[j].type = "SET_NAME"
  BY <1>1 DEF NamedBefore
<1>3. CASE i \in DOMAIN s
  BY <1>1, <1>2, <1>3 DEF NamedBefore
<1>4. CASE i \notin DOMAIN s
  <2>1. i = Len(s) + 1 /\ Append(s, e)[i] = e
    BY <1>4
  <2>2. PICK j \in DOMAIN s : s[j].type = "SET_NAME"
    BY <1>2, <2>1 DEF Packets
  <2>3. QED
    BY <1>1, <2>1, <2>2
<1>5. QED
  BY <1>3, <1>4

---------------------------------------------------------------------------
(* Agent ids are given once and counted upwards; a connection used too early stays one. *)

IdsKept ==
  /\ agent_num_' >= agent_num_
  /\ \A c \in Conn : agent_id_[c] # 0 => agent_id_'[c] = agent_id_[c]
  /\ early \subseteq early'

LEMMA IdsKeptStep ==
  ASSUME TypeOK, RegistryInv, [Next]_vars
  PROVE  IdsKept
<1>1. CASE \E c \in Conn : OnListenerAcceptEvent(c)
  BY <1>1 DEF OnListenerAcceptEvent, AddDpAgent, IdsKept, TypeOK, RegistryInv, AgentsNumbered,
              cliVars, nameVars
<1>2. CASE ~ \E c \in Conn : OnListenerAcceptEvent(c)
  <2>1. UNCHANGED <<agent_num_, agent_id_>>
    BY <1>2 DEF Next, ServerStep, ClientStep, Reception, Connect, SetName, SendListen,
         ListenTimeout, SendRemove, SendDpMessage, SendDpReply, OnAddReplayMessage,
         OnReqReplayMessage, OnBroadCastMessage, OnRequestMessage, Disconnect,
         OnSetClientName, OnListenMessage, OnRemoveMessage, OnRequestMessage_Broadcast,
         OnRequestMessage_Forward, OnReplayMessage, OnSocketErrorEvent, srvVars, cliVars,
         nameVars, vars
  <2>2. early \subseteq early'
    <3>1. CASE \E c \in Conn, m \in Method, t \in ListenType : SendListen(c, m, t)
      BY <3>1 DEF SendListen
    <3>2. CASE ~ \E c \in Conn, m \in Method, t \in ListenType : SendListen(c, m, t)
      <4>1. UNCHANGED early
        BY <1>2, <3>2 DEF Next, ServerStep, ClientStep, Reception, Connect, SetName,
             ListenTimeout, SendRemove, SendDpMessage, SendDpReply, OnAddReplayMessage,
             OnReqReplayMessage, OnBroadCastMessage, OnRequestMessage, Disconnect,
             OnSetClientName, OnListenMessage, OnRemoveMessage, OnRequestMessage_Broadcast,
             OnRequestMessage_Forward, OnReplayMessage, OnSocketErrorEvent, srvVars, cliVars,
             nameVars, vars
      <4>2. QED
        BY <4>1
    <3>3. QED
      BY <3>1, <3>2
  <2>3. QED
    BY <2>1, <2>2 DEF IdsKept, TypeOK
<1>3. QED
  BY <1>1, <1>2

LEMMA HomedKept ==
  ASSUME IdsKept, NEW id, NEW data \in Call, Homed(id, data)
  PROVE  Homed(id, data)'
BY DEF IdsKept, Homed, Call

LEMMA OkToServerKept ==
  ASSUME IdsKept, NEW c \in Conn, NEW p \in ToServer, OkToServer(c, p)
  PROVE  OkToServer(c, p)'
<1>1. p.type = "REPLY" => p.data \in Call
  BY DEF ToServer
<1>2. QED
  BY <1>1, HomedKept DEF OkToServer

LEMMA OkToClientKept ==
  ASSUME TypeOK, TypeOK', IdsKept, NEW c \in Conn, NEW p \in ToClient, OkToClient(c, p)
  PROVE  OkToClient(c, p)'
<1>1. p.type = "REQUEST" => p.data \in Call
  BY DEF ToClient, ListenType
<1>2. agent_num_' < IdMod => agent_num_ < IdMod
  BY IdModAssumption DEF IdsKept, TypeOK
<1>3. QED
  BY <1>1, <1>2, HomedKept DEF OkToClient, IdsKept

\* The packets of a step are old ones, or new ones that are right.
LEMMA ToServerKept ==
  ASSUME TypeOK, ToServerInv, IdsKept,
         \A d \in Conn : \A p \in Packets(c2s'[d]) :
           p \in Packets(c2s[d]) \/ OkToServer(d, p)'
  PROVE  ToServerInv'
<1>1. \A d \in Conn : \A p \in Packets(c2s[d]) : p \in ToServer
  BY PacketsType DEF TypeOK
<1>2. \A d \in Conn : \A p \in Packets(c2s[d]) : OkToServer(d, p)'
  BY <1>1, OkToServerKept DEF ToServerInv
<1>3. \A d \in Conn : \A p \in Packets(c2s'[d]) : OkToServer(d, p)'
  BY <1>2
<1>4. QED
  BY <1>3 DEF ToServerInv, Packets

LEMMA ToClientKept ==
  ASSUME TypeOK, TypeOK', ToClientInv, IdsKept,
         \A d \in Conn : \A p \in Packets(s2c'[d]) :
           p \in Packets(s2c[d]) \/ OkToClient(d, p)'
  PROVE  ToClientInv'
<1>1. \A d \in Conn : \A p \in Packets(s2c[d]) : p \in ToClient
  BY PacketsType DEF TypeOK
<1>2. \A d \in Conn : \A p \in Packets(s2c[d]) : OkToClient(d, p)'
  BY <1>1, OkToClientKept DEF ToClientInv
<1>3. \A d \in Conn : \A p \in Packets(s2c'[d]) : OkToClient(d, p)'
  BY <1>2
<1>4. QED
  BY <1>3 DEF ToClientInv, Packets

LEMMA TodoKept ==
  ASSUME TypeOK, TodoInv, IdsKept,
         \A d \in Conn : \A r \in todo'[d] : r \in todo[d] \/ Homed(r.id, r.data)'
  PROVE  TodoInv'
<1>1. \A d \in Conn : \A r \in todo[d] : r.data \in Call
  BY DEF TypeOK
<1>2. \A d \in Conn : \A r \in todo[d] : Homed(r.id, r.data)'
  BY <1>1, HomedKept DEF TodoInv
<1>3. QED
  BY <1>2 DEF TodoInv

\* The ways a step moves packets: it reads one, it sends one, or none.
LEMMA ConsumeKept ==
  ASSUME TypeOK, NEW c \in Conn, c2s[c] # <<>>, Consume(c)
  PROVE  \A d \in Conn : \A p \in Packets(c2s'[d]) : p \in Packets(c2s[d])
<1>1. c2s'[c] = Tail(c2s[c]) /\ \A d \in Conn \ {c} : c2s'[d] = c2s[d]
  BY DEF Consume, TypeOK
<1>2. Packets(Tail(c2s[c])) \subseteq Packets(c2s[c])
  BY PacketsTail DEF TypeOK
<1>3. QED
  BY <1>1, <1>2

LEMMA SendKept ==
  ASSUME TypeOK, NEW c \in Conn, NEW pkt, Send(c, pkt)
  PROVE  \A d \in Conn : \A p \in Packets(c2s'[d]) :
           p \in Packets(c2s[d]) \/ (d = c /\ p = pkt)
<1>1. c2s'[c] = Append(c2s[c], pkt) /\ \A d \in Conn \ {c} : c2s'[d] = c2s[d]
  BY DEF Send, TypeOK
<1>2. \A p \in Packets(Append(c2s[c], pkt)) : p \in Packets(c2s[c]) \/ p = pkt
  BY PacketsAppend DEF TypeOK
<1>3. QED
  BY <1>1, <1>2

LEMMA SendMessageKept ==
  ASSUME TypeOK, NEW c \in Conn, NEW pkt, SendMessage(c, pkt)
  PROVE  \A d \in Conn : \A p \in Packets(s2c'[d]) :
           p \in Packets(s2c[d]) \/ (d = c /\ p = pkt)
<1>1. s2c'[c] = Append(s2c[c], pkt) /\ \A d \in Conn \ {c} : s2c'[d] = s2c[d]
  BY DEF SendMessage, TypeOK
<1>2. \A p \in Packets(Append(s2c[c], pkt)) : p \in Packets(s2c[c]) \/ p = pkt
  BY PacketsAppend DEF TypeOK
<1>3. QED
  BY <1>1, <1>2

LEMMA ReceivesKept ==
  ASSUME TypeOK, NEW c \in Conn, NEW t, Receives(c, t)
  PROVE  /\ \A d \in Conn : \A p \in Packets(s2c'[d]) : p \in Packets(s2c[d])
         /\ Head(s2c[c]) \in Packets(s2c[c])
<1>1. s2c'[c] = Tail(s2c[c]) /\ \A d \in Conn \ {c} : s2c'[d] = s2c[d]
  BY DEF Receives, TypeOK
<1>2. Packets(Tail(s2c[c])) \subseteq Packets(s2c[c]) /\ Head(s2c[c]) \in Packets(s2c[c])
  BY PacketsTail DEF TypeOK, Receives
<1>3. QED
  BY <1>1, <1>2

---------------------------------------------------------------------------
(* The steps of the server. *)

LEMMA FlowInit == Init => FlowInv
<1> SUFFICES ASSUME Init PROVE FlowInv
  OBVIOUS
<1>1. \A c \in Conn : Packets(c2s[c]) = {} /\ Packets(s2c[c]) = {} /\ todo[c] = {}
  BY DEF Init, Packets
<1>2. NamedFirst
  BY <1>1 DEF Init, NamedFirst, Naming, NamedBefore, NotListening
<1>3. QED
  BY <1>1, <1>2 DEF FlowInv, ToServerInv, ToClientInv, TodoInv

\* A step that moves no packet, and neither names nor registers anyone.
LEMMA QuietServer ==
  ASSUME TypeOK, TypeOK', FlowInv, IdsKept, NEW c \in Conn, UNCHANGED <<cliVars>>,
         \A d \in Conn : \A p \in Packets(c2s'[d]) : p \in Packets(c2s[d]),
         \A d \in Conn : \A p \in Packets(s2c'[d]) :
           p \in Packets(s2c[d]) \/ OkToClient(d, p)'
  PROVE  ToServerInv' /\ ToClientInv' /\ TodoInv'
<1>1. ToServerInv'
  BY ToServerKept DEF FlowInv
<1>2. ToClientInv'
  BY ToClientKept DEF FlowInv
<1>3. TodoInv'
  BY TodoKept DEF FlowInv, cliVars
<1>4. QED
  BY <1>1, <1>2, <1>3

\* Reading a packet other than the name keeps the naming order.
LEMMA ReadNaming ==
  ASSUME TypeOK, FlowInv, NEW c \in Conn, NEW t, t # "SET_NAME", Reads(c, t), Consume(c),
         UNCHANGED <<cli, packet_socket_, remote_pid_, named, early>>,
         \A d \in Conn, m \in Method : method_map_'[d][m] # NotListening =>
           method_map_[d][m] # NotListening \/ (d = c /\ t = "ADD_MESSAGE")
  PROVE  NamedFirst'
<1>1. \A d \in Conn : Naming(d)
  BY DEF FlowInv, NamedFirst
<1>2. \A d \in Conn \ {c} : c2s'[d] = c2s[d]
  BY DEF Consume, TypeOK
<1>3. \A d \in Conn \ {c} : Naming(d)'
  BY <1>1, <1>2 DEF Naming, NamedBefore, Packets
<1>4. /\ c2s[c] \in Seq(ToServer) /\ c2s[c] # <<>> /\ c2s'[c] = Tail(c2s[c])
      /\ Head(c2s[c]).type = t
  BY DEF Consume, Reads, TypeOK
<1>5. cli'[c] # "idle" /\ (packet_socket_'[c] = "closed" => cli'[c] = "down")
  BY <1>1, <1>4 DEF Naming
<1>6. Packets(c2s'[c]) \subseteq Packets(c2s[c])
  BY <1>4, PacketsTail
<1>7. \A p \in Packets(c2s[c]) : p.type = "SET_NAME" => p \in Packets(c2s'[c])
  BY <1>4, PacketsSplit
<1>8. NamedBefore(c2s[c]) => NamedBefore(c2s'[c]) /\ t # "ADD_MESSAGE"
  BY <1>4, NamedTail, NamedHead
<1>9. Naming(c)'
  <2>1. /\ c \notin named \cup early => \A p \in Packets(c2s'[c]) : p.type # "ADD_MESSAGE"
        /\ c \in named /\ remote_pid_[c] # PidOf[c] /\ packet_socket_[c] # "closed" =>
             \E p \in Packets(c2s'[c]) : p.type = "SET_NAME"
        /\ c \notin early /\ remote_pid_[c] # PidOf[c] => NamedBefore(c2s'[c])
    BY <1>1, <1>6, <1>7, <1>8 DEF Naming
  <2>2. c \notin early /\ packet_socket_[c] = "open" =>
          \A m \in Method : method_map_'[c][m] # NotListening => remote_pid_[c] = PidOf[c]
    BY <1>1, <1>8 DEF Naming
  <2>3. QED
    BY <1>5, <2>1, <2>2 DEF Naming, NamedBefore, Packets
<1>10. QED
  BY <1>3, <1>9 DEF NamedFirst

LEMMA FlowServer ==
  ASSUME TypeOK, TypeOK', RegistryInv, FlowInv, IdsKept, NEW c \in Conn, ServerStep(c)
  PROVE  FlowInv'
<1>1. CASE OnListenerAcceptEvent(c)
  <2>1. ToServerInv' /\ ToClientInv' /\ TodoInv'
    BY <1>1, QuietServer DEF OnListenerAcceptEvent
  <2>2. NamedFirst'
    <3>1. \A m \in Method : method_map_[c][m] = NotListening
      BY <1>1 DEF OnListenerAcceptEvent, RegistryInv, AgentsNumbered
    <3>2. packet_socket_'[c] = "open" /\ \A d \in Conn \ {c} : packet_socket_'[d] = packet_socket_[d]
      BY <1>1 DEF OnListenerAcceptEvent, TypeOK
    <3>3. /\ UNCHANGED <<cli, c2s, remote_pid_, method_map_, named, early>>
          /\ cli[c] # "idle" /\ packet_socket_[c] = "none"
      BY <1>1 DEF OnListenerAcceptEvent, cliVars, nameVars
    <3>4. QED
      BY <3>1, <3>2, <3>3 DEF FlowInv, NamedFirst, Naming, NamedBefore, Packets
  <2>3. QED
    BY <2>1, <2>2 DEF FlowInv
<1>2. CASE OnSetClientName(c)
  <2>1. ToServerInv' /\ ToClientInv' /\ TodoInv'
    BY <1>2, ConsumeKept, QuietServer DEF OnSetClientName, Reads
  <2>2. Head(c2s[c]).pid = PidOf[c]
    <3>1. Head(c2s[c]) \in Packets(c2s[c])
      BY <1>2, PacketsTail DEF OnSetClientName, Reads, TypeOK
    <3>2. QED
      BY <1>2, <3>1 DEF OnSetClientName, Reads, FlowInv, ToServerInv, OkToServer
  <2>3. /\ remote_pid_'[c] = PidOf[c]
        /\ \A d \in Conn \ {c} : remote_pid_'[d] = remote_pid_[d] /\ c2s'[d] = c2s[d]
        /\ UNCHANGED <<cli, packet_socket_, method_map_, named, early>>
        /\ packet_socket_[c] = "open"
    BY <1>2, <2>2 DEF OnSetClientName, Consume, Reads, TypeOK, cliVars, nameVars
  <2>4. NamedFirst'
    <3>1. Packets(c2s'[c]) \subseteq Packets(c2s[c])
      BY <1>2, ConsumeKept DEF OnSetClientName, Reads
    <3>2. QED
      BY <2>3, <3>1 DEF FlowInv, NamedFirst, Naming, NamedBefore, Packets
  <2>5. QED
    BY <2>1, <2>4 DEF FlowInv
<1>3. CASE OnListenMessage(c)
  <2> DEFINE p == Head(c2s[c])
             q == [type |-> "ADD_MESSAGE", method |-> p.method,
                   listen_type |-> p.listen_type, id |-> p.id,
                   succeed |-> CheckMessage(p.method, p.listen_type)]
  <2>1. \A d \in Conn : \A x \in Packets(c2s'[d]) : x \in Packets(c2s[d])
    BY <1>3, ConsumeKept DEF OnListenMessage, Reads
  <2>2. SendMessage(c, q)
    BY <1>3 DEF OnListenMessage
  <2>3. \A x : x = q => OkToClient(c, x)'
    BY DEF OkToClient, ListenType
  <2>4. \A d \in Conn : \A x \in Packets(s2c'[d]) :
          x \in Packets(s2c[d]) \/ OkToClient(d, x)'
    <3> HIDE DEF q
    <3> QED BY <2>2, <2>3, SendMessageKept
  <2>5. ToServerInv' /\ ToClientInv' /\ TodoInv'
    BY <1>3, <2>1, <2>4, QuietServer DEF OnListenMessage
  <2>6. \A d \in Conn \ {c} : \A m \in Method : method_map_'[d][m] = method_map_[d][m]
    BY <1>3 DEF OnListenMessage, TypeOK
  <2>7. NamedFirst'
    BY <1>3, <2>6, ReadNaming DEF OnListenMessage, cliVars, nameVars
  <2>8. QED
    BY <2>5, <2>7 DEF FlowInv
<1>4. CASE OnRemoveMessage(c)
  <2>1. ToServerInv' /\ ToClientInv' /\ TodoInv'
    BY <1>4, ConsumeKept, QuietServer DEF OnRemoveMessage, Reads
  <2>2. \A d \in Conn, m \in Method : method_map_'[d][m] \in {method_map_[d][m], NotListening}
    BY <1>4 DEF OnRemoveMessage, TypeOK
  <2>3. NamedFirst'
    BY <1>4, <2>2, ReadNaming DEF OnRemoveMessage, cliVars, nameVars
  <2>4. QED
    BY <2>1, <2>3 DEF FlowInv
<1>5. ASSUME Reads(c, "MESSAGE")
      PROVE  LET msg == Head(c2s[c]) IN
             /\ msg.data = [conn |-> c, mid |-> msg.id.mid]
             /\ msg.method \in Method /\ msg.data \in Call
             /\ agent_id_[c] # 0
             /\ Homed(ForwardId(c, msg), msg.data)
             /\ \A a \in Listeners(c, msg) : a \in Conn /\ a # c /\ (a \notin early => PidOf[a] # PidOf[c])
  <2> DEFINE msg == Head(c2s[c])
  <2>1. msg \in Packets(c2s[c])
    BY <1>5, PacketsTail DEF Reads, TypeOK
  <2>2. msg.data = [conn |-> c, mid |-> msg.id.mid] /\ msg.pid = PidOf[c]
    BY <1>5, <2>1 DEF Reads, FlowInv, ToServerInv, OkToServer
  <2>3. msg.method \in Method /\ msg.data \in Call
    BY <1>5, ReadType DEF Reads
  <2>4. agent_id_[c] # 0
    BY <1>5 DEF Reads, RegistryInv, AgentsNumbered
  <2>5. \A a \in Listeners(c, msg) : a \in Conn /\ a # c /\ (a \notin early => PidOf[a] # PidOf[c])
    <3>1. \A a \in Listeners(c, msg) :
            a \in Conn /\ a # c /\ packet_socket_[a] = "open" /\ remote_pid_[a] # msg.pid
                       /\ method_map_[a][msg.method] # NotListening
      BY <2>3 DEF Listeners, RegistryInv, RegistryConsistent
    <3>2. QED
      BY <2>2, <2>3, <3>1 DEF FlowInv, NamedFirst, Naming
  <2>6. QED
    BY <2>2, <2>3, <2>4, <2>5 DEF Homed, ForwardId
<1>6. CASE OnRequestMessage_Broadcast(c)
  <2> DEFINE msg == Head(c2s[c])
             to == Listeners(c, msg)
             reply == [type |-> "REPLY", id |-> msg.id, data |-> NoCall,
                       result |-> Cardinality(to)]
             copy == Forwarded("MESSAGE", msg.id, msg)
  <2>1. \A d \in Conn : \A x \in Packets(c2s'[d]) : x \in Packets(c2s[d])
    BY <1>6, ConsumeKept DEF OnRequestMessage_Broadcast, Reads
  <2>2. s2c' = [a \in Conn |-> IF a \in to THEN Append(s2c[a], copy)
                               ELSE IF a = c THEN Append(s2c[a], reply)
                               ELSE s2c[a]]
    BY <1>6 DEF OnRequestMessage_Broadcast
  <2>3. Reads(c, "MESSAGE")
    BY <1>6 DEF OnRequestMessage_Broadcast
  <2>4. \A a \in to : \A x : x = copy => OkToClient(a, x)'
    BY <1>5, <2>3 DEF OkToClient, Forwarded, ListenType, IdsKept
  <2>5. \A x : x = reply => OkToClient(c, x)'
    BY DEF OkToClient, ListenType
  <2>6. \A d \in Conn : \A x \in Packets(s2c'[d]) :
          x \in Packets(s2c[d]) \/ OkToClient(d, x)'
    <3> HIDE DEF to, reply, copy
    <3> SUFFICES ASSUME NEW d \in Conn, NEW x \in Packets(s2c'[d])
                 PROVE  x \in Packets(s2c[d]) \/ OkToClient(d, x)'
      OBVIOUS
    <3>1. s2c[d] \in Seq(ToClient)
      BY DEF TypeOK
    <3>2. CASE d \in to
      <4>1. s2c'[d] = Append(s2c[d], copy)
        BY <2>2, <3>2
      <4>2. QED
        BY <4>1, <3>1, <3>2, <2>4, PacketsAppend
    <3>3. CASE d \notin to /\ d = c
      <4>1. s2c'[d] = Append(s2c[d], reply)
        BY <2>2, <3>3
      <4>2. QED
        BY <4>1, <3>1, <3>3, <2>5, PacketsAppend
    <3>4. CASE d \notin to /\ d # c
      BY <2>2, <3>4
    <3>5. QED
      BY <3>2, <3>3, <3>4
  <2>7. ToServerInv' /\ ToClientInv' /\ TodoInv'
    BY <1>6, <2>1, <2>6, QuietServer DEF OnRequestMessage_Broadcast
  <2>8. NamedFirst'
    BY <1>6, ReadNaming DEF OnRequestMessage_Broadcast, cliVars, nameVars, srvVars
  <2>9. QED
    BY <2>7, <2>8 DEF FlowInv
<1>7. CASE OnRequestMessage_Forward(c)
  <2> DEFINE msg == Head(c2s[c])
             to == Listeners(c, msg)
             requests == {a \in to : method_map_[a][msg.method] = "REQUEST"}
             request == Forwarded("REQUEST", ForwardId(c, msg), msg)
             copy == Forwarded("MESSAGE", msg.id, msg)
  <2>1. \A d \in Conn : \A x \in Packets(c2s'[d]) : x \in Packets(c2s[d])
    BY <1>7, ConsumeKept DEF OnRequestMessage_Forward, Reads
  <2>2. PICK r \in requests, met \in SUBSET (to \ requests) :
          s2c' = [a \in Conn |-> IF a = r THEN Append(s2c[a], request)
                                 ELSE IF a \in met THEN Append(s2c[a], copy)
                                 ELSE s2c[a]]
    BY <1>7 DEF OnRequestMessage_Forward
  <2>3. Reads(c, "MESSAGE")
    BY <1>7 DEF OnRequestMessage_Forward
  <2>4. \A a \in to : \A x : x = copy => OkToClient(a, x)'
    BY <1>5, <2>3 DEF OkToClient, Forwarded, ListenType, IdsKept
  <2>5. \A id, data : id = ForwardId(c, msg) /\ data = msg.data => Homed(id, data)'
    BY <1>5, <2>3, HomedKept
  <2>6. \A a \in to : \A x : x = request => OkToClient(a, x)'
    BY <1>5, <2>3, <2>5 DEF OkToClient, Forwarded, ListenType, IdsKept
  <2>7. \A d \in Conn : \A x \in Packets(s2c'[d]) :
          x \in Packets(s2c[d]) \/ OkToClient(d, x)'
    <3>0. r \in to /\ met \subseteq to
      OBVIOUS
    <3> HIDE DEF to, requests, request, copy
    <3> SUFFICES ASSUME NEW d \in Conn, NEW x \in Packets(s2c'[d])
                 PROVE  x \in Packets(s2c[d]) \/ OkToClient(d, x)'
      OBVIOUS
    <3>1. s2c[d] \in Seq(ToClient)
      BY DEF TypeOK
    <3>2. CASE d = r
      <4>1. s2c'[d] = Append(s2c[d], request)
        BY <2>2, <3>2
      <4>2. QED
        BY <4>1, <3>0, <3>1, <3>2, <2>6, PacketsAppend
    <3>3. CASE d # r /\ d \in met
      <4>1. s2c'[d] = Append(s2c[d], copy)
        BY <2>2, <3>3
      <4>2. QED
        BY <4>1, <3>0, <3>1, <3>3, <2>4, PacketsAppend
    <3>4. CASE d # r /\ d \notin met
      BY <2>2, <3>4
    <3>5. QED
      BY <3>2, <3>3, <3>4
  <2>8. ToServerInv' /\ ToClientInv' /\ TodoInv'
    BY <1>7, <2>1, <2>7, QuietServer DEF OnRequestMessage_Forward
  <2>9. NamedFirst'
    BY <1>7, ReadNaming DEF OnRequestMessage_Forward, cliVars, nameVars, srvVars
  <2>10. QED
    BY <2>8, <2>9 DEF FlowInv
<1>8. CASE OnReplayMessage(c)
  <2> DEFINE p == Head(c2s[c])
             d0 == dp_agents_[p.id.agent]
             q == [type |-> "REPLY", id |-> OwnId(p.id.mid),
                   data |-> p.data, result |-> 1]
  <2>1. \A d \in Conn : \A x \in Packets(c2s'[d]) : x \in Packets(c2s[d])
    BY <1>8, ConsumeKept DEF OnReplayMessage, Reads
  <2>2. p.id \in MsgId /\ p.data \in Call /\ Homed(p.id, p.data)
    <3>1. p \in Packets(c2s[c])
      BY <1>8, PacketsTail DEF OnReplayMessage, Reads, TypeOK
    <3>2. QED
      BY <1>8, <3>1, ReadType DEF OnReplayMessage, Reads, FlowInv, ToServerInv, OkToServer
  <2>3. \A d \in Conn : \A x \in Packets(s2c'[d]) :
          x \in Packets(s2c[d]) \/ OkToClient(d, x)'
    <3>1. CASE p.id.agent \in DOMAIN dp_agents_
      <4>1. d0 \in Conn /\ agent_id_[d0] = p.id.agent
        BY <3>1 DEF TypeOK, RegistryInv, RegistryConsistent
      <4>2. SendMessage(d0, q)
        BY <1>8, <3>1 DEF OnReplayMessage
      <4>3. agent_num_ < IdMod => p.data = [conn |-> d0, mid |-> p.id.mid]
        <5> SUFFICES ASSUME agent_num_ < IdMod
                     PROVE  p.data = [conn |-> d0, mid |-> p.id.mid]
          OBVIOUS
        <5>1. p.data.conn \in Conn
          BY <2>2 DEF Call
        <5>2. agent_id_[p.data.conn] \in 0..agent_num_ /\ agent_num_ \in Nat
          BY <5>1 DEF TypeOK
        <5>3. agent_id_[p.data.conn] % IdMod = agent_id_[p.data.conn]
          BY <5>2, IdModAssumption
        <5>4. p.id.agent = agent_id_[p.data.conn] /\ p.id.mid = p.data.mid
              /\ agent_id_[p.data.conn] # 0
          BY <2>2, <5>3 DEF Homed
        <5>5. p.data.conn = d0
          BY <4>1, <5>1, <5>4 DEF RegistryInv, AgentsNumbered
        <5>6. QED
          BY <2>2, <5>4, <5>5 DEF Call
      <4>4. \A d, x : d = d0 /\ x = q => OkToClient(d, x)'
        <5>1. UNCHANGED agent_num_
          BY <1>8 DEF OnReplayMessage, srvVars
        <5>2. q.type = "REPLY" /\ q.data = p.data /\ q.id.mid = p.id.mid
          BY DEF OwnId
        <5>3. QED
          BY <4>3, <5>1, <5>2 DEF OkToClient, ListenType, OwnId
      <4> HIDE DEF q, d0
      <4>5. QED
        BY <4>1, <4>2, <4>4, SendMessageKept
    <3>2. CASE p.id.agent \notin DOMAIN dp_agents_
      BY <1>8, <3>2 DEF OnReplayMessage
    <3>3. QED
      BY <3>1, <3>2
  <2>4. ToServerInv' /\ ToClientInv' /\ TodoInv'
    BY <1>8, <2>1, <2>3, QuietServer DEF OnReplayMessage
  <2>5. NamedFirst'
    BY <1>8, ReadNaming DEF OnReplayMessage, cliVars, nameVars, srvVars
  <2>6. QED
    BY <2>4, <2>5 DEF FlowInv
<1>9. CASE OnSocketErrorEvent(c)
  <2>1. /\ c2s'[c] = <<>> /\ s2c'[c] = <<>>
        /\ \A d \in Conn \ {c} : c2s'[d] = c2s[d] /\ s2c'[d] = s2c[d]
        /\ packet_socket_'[c] = "closed" /\ cli[c] = "down"
        /\ \A d \in Conn \ {c} : packet_socket_'[d] = packet_socket_[d]
        /\ UNCHANGED <<cli, remote_pid_, method_map_, named, early>>
    BY <1>9 DEF OnSocketErrorEvent, TypeOK, cliVars, nameVars
  <2>2. Packets(<<>>) = {}
    BY DEF Packets
  <2>3. ToServerInv' /\ ToClientInv' /\ TodoInv'
    BY <1>9, <2>1, <2>2, QuietServer DEF OnSocketErrorEvent
  <2>4. NamedFirst'
    <3>1. NamedBefore(<<>>)
      BY DEF NamedBefore
    <3>2. QED
      BY <2>1, <2>2, <3>1 DEF FlowInv, NamedFirst, Naming, NamedBefore, Packets
  <2>5. QED
    BY <2>3, <2>4 DEF FlowInv
<1>10. QED
  BY <1>1, <1>2, <1>3, <1>4, <1>6, <1>7, <1>8, <1>9 DEF ServerStep

---------------------------------------------------------------------------
(* The steps of the clients. *)

\* A client step that sends nothing and receives at most the head of a queue.
LEMMA QuietClient ==
  ASSUME TypeOK, TypeOK', FlowInv, IdsKept, UNCHANGED <<srvVars, c2s, nameVars>>,
         \A d \in Conn : cli'[d] = cli[d] \/ (cli[d] = "up" /\ cli'[d] = "down")
                        \/ (cli[d] = "idle" /\ cli'[d] = "up"),
         \A d \in Conn : \A p \in Packets(s2c'[d]) : p \in Packets(s2c[d]),
         \A d \in Conn : \A r \in todo'[d] : r \in todo[d] \/ Homed(r.id, r.data)'
  PROVE  FlowInv'
<1>1. ToServerInv'
  BY ToServerKept DEF FlowInv
<1>2. ToClientInv'
  BY ToClientKept DEF FlowInv
<1>3. TodoInv'
  BY TodoKept DEF FlowInv
<1>4. NamedFirst'
  BY DEF FlowInv, NamedFirst, Naming, NamedBefore, Packets, srvVars, nameVars
<1>5. QED
  BY <1>1, <1>2, <1>3, <1>4 DEF FlowInv

\* A connected client sends one right packet.
LEMMA SendingClient ==
  ASSUME TypeOK, TypeOK', FlowInv, IdsKept, UNCHANGED <<srvVars, s2c, cli>>,
         \A d \in Conn : todo'[d] \subseteq todo[d],
         NEW c \in Conn, cli[c] = "up", NEW pkt \in ToServer, Send(c, pkt),
         \A p : p = pkt => OkToServer(c, p)',
         named' = IF pkt.type = "SET_NAME" THEN named \cup {c} ELSE named,
         early' \in {early, early \cup {c}},
         pkt.type = "ADD_MESSAGE" => c \in named \cup early'
  PROVE  FlowInv'
<1>1. ToServerInv'
  BY SendKept, ToServerKept DEF FlowInv
<1>2. ToClientInv'
  BY ToClientKept DEF FlowInv
<1>3. TodoInv'
  BY TodoKept DEF FlowInv
<1>4. NamedFirst'
  <2>1. c2s'[c] = Append(c2s[c], pkt) /\ \A d \in Conn \ {c} : c2s'[d] = c2s[d]
    BY DEF Send, TypeOK
  <2>2. /\ Packets(c2s'[c]) = Packets(c2s[c]) \cup {pkt}
        /\ c2s[c] \in Seq(ToServer)
    <3>1. c2s[c] \in Seq(ToServer)
      BY DEF TypeOK
    <3>2. QED
      BY <2>1, <3>1, PacketsAppend, PacketsGrow
  <2>3. \A d \in Conn : Naming(d)
    BY DEF FlowInv, NamedFirst
  <2>4. \A d \in Conn \ {c} : Naming(d)'
    BY <2>1, <2>3 DEF Naming, NamedBefore, Packets, srvVars
  <2>5. /\ c \notin named' \cup early' => \A p \in Packets(c2s'[c]) : p.type # "ADD_MESSAGE"
        /\ c \in named' /\ remote_pid_[c] # PidOf[c] /\ packet_socket_[c] # "closed" =>
             \E p \in Packets(c2s'[c]) : p.type = "SET_NAME"
    BY <2>2, <2>3 DEF Naming
  <2>6. c \notin early' /\ remote_pid_[c] # PidOf[c] => NamedBefore(c2s'[c])
    <3> SUFFICES ASSUME c \notin early', remote_pid_[c] # PidOf[c]
                 PROVE  NamedBefore(c2s'[c])
      OBVIOUS
    <3>1. NamedBefore(c2s[c]) /\ packet_socket_[c] # "closed"
      BY <2>3 DEF Naming
    <3>2. pkt.type = "ADD_MESSAGE" => \E p \in Packets(c2s[c]) : p.type = "SET_NAME"
      BY <2>3, <3>1 DEF Naming
    <3>3. QED
      BY <2>1, <2>2, <3>1, <3>2, NamedAppend
  <2>7. Naming(c)'
    BY <2>3, <2>5, <2>6 DEF Naming, NamedBefore, Packets, srvVars
  <2>8. QED
    BY <2>4, <2>7 DEF NamedFirst
<1>5. QED
  BY <1>1, <1>2, <1>3, <1>4 DEF FlowInv

LEMMA FlowClient ==
  ASSUME TypeOK, TypeOK', FlowInv, IdsKept, NEW c \in Conn, ClientStep(c)
  PROVE  FlowInv'
<1>0. CASE SetName(c)
  <2> DEFINE pkt == [type |-> "SET_NAME", pid |-> PidOf[c]]
  <2>1. pkt \in ToServer /\ pkt.type = "SET_NAME"
    BY PidAssumption DEF ToServer
  <2>2. \A p : p = pkt => OkToServer(c, p)'
    BY DEF OkToServer
  <2>3. /\ Send(c, pkt) /\ cli[c] = "up" /\ UNCHANGED <<srvVars, s2c, cli, todo, early>>
        /\ named' = named \cup {c}
    BY <1>0 DEF SetName
  <2> HIDE DEF pkt
  <2>4. QED
    BY <2>1, <2>2, <2>3, SendingClient
<1>1. CASE Connect(c)
  BY <1>1, QuietClient DEF Connect, TypeOK
<1>2. CASE \E m \in Method, t \in ListenType : SendListen(c, m, t)
  <2>1. PICK m \in Method, t \in ListenType : SendListen(c, m, t)
    BY <1>2
  <2> DEFINE pkt == [type |-> "ADD_MESSAGE", method |-> m, listen_type |-> t,
                     id |-> OwnId(message_id_[c] + 1)]
  <2>2. OwnId(message_id_[c] + 1) \in MsgId
    BY DEF TypeOK, OwnId, MsgId
  <2>3. pkt \in ToServer
    BY <2>2 DEF ToServer
  <2>4. \A p : p = pkt => OkToServer(c, p)'
    BY DEF OkToServer
  <2>5. /\ Send(c, pkt) /\ cli[c] = "up" /\ UNCHANGED <<srvVars, s2c, cli, todo, named>>
        /\ early' \in {early, early \cup {c}} /\ c \in named \cup early'
    BY <2>1 DEF SendListen, NextId
  <2>a. pkt.type = "ADD_MESSAGE"
    OBVIOUS
  <2> HIDE DEF pkt
  <2>6. QED
    BY <2>3, <2>4, <2>5, <2>a, SendingClient
<1>3. CASE ListenTimeout(c)
  BY <1>3, QuietClient DEF ListenTimeout
<1>4. CASE \E m \in Method : SendRemove(c, m)
  <2>1. PICK m \in Method : SendRemove(c, m)
    BY <1>4
  <2> DEFINE pkt == [type |-> "REMOVE_MESSAGE", method |-> m]
  <2>2. pkt \in ToServer
    BY DEF ToServer
  <2>3. \A p : p = pkt => OkToServer(c, p)'
    BY DEF OkToServer
  <2>4. /\ Send(c, pkt) /\ cli[c] = "up" /\ UNCHANGED <<srvVars, s2c, cli, todo, named, early>>
        /\ pkt.type = "REMOVE_MESSAGE"
    BY <2>1 DEF SendRemove, NextId, nameVars
  <2> HIDE DEF pkt
  <2>5. QED
    BY <2>2, <2>3, <2>4, SendingClient
<1>5. CASE \E m \in Method : SendDpMessage(c, m)
  <2>1. PICK m \in Method : SendDpMessage(c, m)
    BY <1>5
  <2> DEFINE n == message_id_[c] + 1
             pkt == [type |-> "MESSAGE", method |-> m, pid |-> PidOf[c],
                     id |-> OwnId(n), data |-> [conn |-> c, mid |-> n]]
  <2>2. OwnId(n) \in MsgId /\ [conn |-> c, mid |-> n] \in Call
    BY DEF TypeOK, OwnId, MsgId, Call
  <2>3. pkt \in ToServer
    BY <2>2, PidAssumption DEF ToServer
  <2>4. \A p : p = pkt => OkToServer(c, p)'
    BY DEF OkToServer, OwnId
  <2>5. /\ Send(c, pkt) /\ cli[c] = "up" /\ UNCHANGED <<srvVars, s2c, cli, todo, named, early>>
        /\ pkt.type = "MESSAGE"
    BY <2>1 DEF SendDpMessage, NextId, nameVars
  <2> HIDE DEF pkt
  <2>6. QED
    BY <2>3, <2>4, <2>5, SendingClient
<1>6. CASE SendDpReply(c)
  <2>0. PICK d \in Conn : \E r \in todo[d] :
          /\ todo' = [todo EXCEPT ![d] = @ \ {r}]
          /\ Send(c, [type |-> "REPLY", id |-> r.id, data |-> r.data])
    BY <1>6 DEF SendDpReply, RequestsFor
  <2>1. PICK r \in todo[d] :
          /\ todo' = [todo EXCEPT ![d] = @ \ {r}]
          /\ Send(c, [type |-> "REPLY", id |-> r.id, data |-> r.data])
    BY <2>0
  <2> DEFINE pkt == [type |-> "REPLY", id |-> r.id, data |-> r.data]
  <2>a. r \in [id : MsgId, data : Call]
    <3>1. todo[d] \in SUBSET [id : MsgId, data : Call]
      BY DEF TypeOK
    <3>2. QED
      BY <3>1
  <2>2. r.id \in MsgId /\ r.data \in Call /\ Homed(r.id, r.data)
    BY <2>a DEF FlowInv, TodoInv
  <2>3. pkt \in ToServer
    BY <2>2 DEF ToServer
  <2>4. \A p : p = pkt => OkToServer(c, p)'
    BY <2>2, HomedKept DEF OkToServer
  <2>t. \A a \in Conn : todo'[a] \subseteq todo[a]
    BY <2>1 DEF TypeOK
  <2>p. pkt.type = "REPLY"
    OBVIOUS
  <2>5. /\ Send(c, pkt) /\ cli[c] = "up" /\ UNCHANGED <<srvVars, s2c, cli, named, early>>
        /\ \A a \in Conn : todo'[a] \subseteq todo[a]
        /\ pkt.type = "REPLY"
    BY <1>6, <2>1, <2>t, <2>p DEF SendDpReply, nameVars
  <2> HIDE DEF pkt
  <2>6. QED
    BY <2>3, <2>4, <2>5, SendingClient
<1>7. CASE OnAddReplayMessage(c)
  BY <1>7, ReceivesKept, QuietClient DEF OnAddReplayMessage
<1>8. CASE OnReqReplayMessage(c)
  BY <1>8, ReceivesKept, QuietClient DEF OnReqReplayMessage
<1>9. CASE OnBroadCastMessage(c)
  BY <1>9, ReceivesKept, QuietClient DEF OnBroadCastMessage, cliVars, nameVars
<1>10. CASE OnRequestMessage(c)
  <2> DEFINE p == Head(s2c[c])
  <2>1. p \in Packets(s2c[c]) /\ p \in ToClient /\ p.type = "REQUEST"
    BY <1>10, ReceivesKept, ReceiveType DEF OnRequestMessage
  <2>2. p.data \in Call /\ Homed(p.id, p.data)
    BY <2>1 DEF FlowInv, ToClientInv, OkToClient, ToClient, ListenType
  <2>3. \A id, data : id = p.id /\ data = p.data => Homed(id, data)'
    BY <2>2, HomedKept
  <2>4. \A d \in Conn : \A r \in todo'[d] :
          r \in todo[d] \/ r = [id |-> p.id, data |-> p.data]
    BY <1>10 DEF OnRequestMessage, TypeOK
  <2>5. \A d \in Conn : \A r \in todo'[d] : r \in todo[d] \/ Homed(r.id, r.data)'
    BY <2>3, <2>4
  <2>6. QED
    BY <1>10, <2>5, ReceivesKept, QuietClient DEF OnRequestMessage
<1>11. CASE Disconnect(c)
  <2>1. /\ \A d \in Conn : cli'[d] = cli[d] \/ (cli[d] = "up" /\ cli'[d] = "down")
        /\ UNCHANGED <<srvVars, c2s, s2c, todo, nameVars>>
    BY <1>11 DEF Disconnect, TypeOK
  <2>2. QED
    BY <2>1, QuietClient
<1>12. QED
  BY <1>0, <1>1, <1>2, <1>3, <1>4, <1>5, <1>6, <1>7, <1>8, <1>9, <1>10, <1>11
  DEF ClientStep, Reception

---------------------------------------------------------------------------
LEMMA FlowNext ==
  ASSUME TypeOK, RegistryInv, FlowInv, [Next]_vars
  PROVE  FlowInv'
<1>1. IdsKept
  BY IdsKeptStep
<1>2. CASE UNCHANGED vars
  BY <1>2 DEF vars, srvVars, cliVars, nameVars, callVars, FlowInv, ToServerInv, ToClientInv, TodoInv, NamedFirst,
              Naming, NamedBefore, Packets, OkToServer, OkToClient, Homed
<1>3. ASSUME NEW c \in Conn, ServerStep(c) PROVE FlowInv'
  BY <1>1, <1>3, ServerType, FlowServer
<1>4. ASSUME NEW c \in Conn, ClientStep(c) PROVE FlowInv'
  BY <1>1, <1>4, ClientType, FlowClient
<1>5. QED
  BY <1>2, <1>3, <1>4 DEF Next

LEMMA FlowInvariant == Spec => []FlowInv
<1>1. Init => FlowInv
  BY FlowInit
<1>2. TypeOK /\ RegistryInv /\ FlowInv /\ [Next]_vars => FlowInv'
  BY FlowNext
<1>3. QED
  BY <1>1, <1>2, TypeCorrect, RegistryInvariant, PTL DEF Spec

\* As long as the agents numbered so far fit the 16-bit field of the message
\* id, every reply reaches the connection whose call it answers.
THEOREM RepliesAlwaysGoHome == Spec => [](agent_num_ < IdMod => RepliesGoHome)
<1>1. FlowInv => (agent_num_ < IdMod => RepliesGoHome)
  BY DEF FlowInv, ToClientInv, OkToClient, RepliesGoHome
<1>2. QED
  BY <1>1, FlowInvariant, PTL

\* A client over whose socket no thread listened before SET_NAME was sent is handed no
\* message or request of its own process, whichever connection it was sent over; and no
\* connection whatever is handed what was sent over it.
THEOREM NeverEcho == Spec => []NoEcho
<1>1. FlowInv => NoEcho
  BY DEF FlowInv, ToClientInv, OkToClient, NoEcho
<1>2. QED
  BY <1>1, FlowInvariant, PTL
===========================================================================
