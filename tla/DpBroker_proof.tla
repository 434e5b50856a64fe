-------------------------- MODULE DpBroker_proof --------------------------
(* Theorems about the DP broker, for every set of connections and methods. *)
EXTENDS DpBroker, FiniteSetTheorems, TLAPS

---------------------------------------------------------------------------
(* Facts about sequences used below. *)

LEMMA HeadTailType ==
  ASSUME NEW S, NEW s \in Seq(S), s # <<>>
  PROVE  Head(s) \in S /\ Tail(s) \in Seq(S)
OBVIOUS

\* What a handler reads has the fields of its packet type.
LEMMA ReadType ==
  ASSUME TypeOK, NEW c \in Conn, c2s[c] # <<>>, NEW p, p = Head(c2s[c])
  PROVE  /\ p.type = "SET_NAME" => p.pid \in Pid
         /\ p.type = "ADD_MESSAGE" =>
              p.method \in Method /\ p.listen_type \in ListenType /\ p.id \in MsgId
         /\ p.type = "REMOVE_MESSAGE" => p.method \in Method
         /\ p.type = "MESSAGE" =>
              p.method \in Method /\ p.pid \in Pid /\ p.id \in MsgId /\ p.data \in Call
         /\ p.type = "REPLY" => p.id \in MsgId /\ p.data \in Call
<1>1. p \in ToServer
  BY HeadTailType DEF TypeOK
<1>2. QED
  BY <1>1 DEF ToServer

---------------------------------------------------------------------------
(* Type correctness. *)

LEMMA TypeInit == Init => TypeOK
BY DEF Init, TypeOK

LEMMA ConsumeType ==
  ASSUME TypeOK, NEW c \in Conn, c2s[c] # <<>>, Consume(c)
  PROVE  c2s' \in [Conn -> Seq(ToServer)]
<1>1. Tail(c2s[c]) \in Seq(ToServer)
  BY HeadTailType DEF TypeOK
<1>2. QED
  BY <1>1 DEF TypeOK, Consume

LEMMA SendType ==
  ASSUME TypeOK, NEW c \in Conn, NEW pkt \in ToServer, Send(c, pkt)
  PROVE  c2s' \in [Conn -> Seq(ToServer)]
BY DEF TypeOK, Send

LEMMA SendMessageType ==
  ASSUME TypeOK, NEW c \in Conn, NEW pkt \in ToClient, SendMessage(c, pkt)
  PROVE  s2c' \in [Conn -> Seq(ToClient)]
BY DEF TypeOK, SendMessage

LEMMA ReceiveType ==
  ASSUME TypeOK, NEW c \in Conn, NEW t, Receives(c, t)
  PROVE  /\ s2c' \in [Conn -> Seq(ToClient)]
         /\ Head(s2c[c]) \in ToClient
         /\ Head(s2c[c]).type = t
<1>1. Tail(s2c[c]) \in Seq(ToClient) /\ Head(s2c[c]) \in ToClient
  BY HeadTailType DEF TypeOK, Receives
<1>2. QED
  BY <1>1 DEF TypeOK, Receives

LEMMA ServerType ==
  ASSUME TypeOK, NEW c \in Conn, ServerStep(c)
  PROVE  TypeOK'
<1>1. CASE OnListenerAcceptEvent(c)
  BY <1>1 DEF OnListenerAcceptEvent, AddDpAgent, TypeOK, cliVars, nameVars, callVars
<1>2. CASE OnSetClientName(c)
  <2>1. c2s' \in [Conn -> Seq(ToServer)]
    BY <1>2, ConsumeType DEF OnSetClientName, Reads
  <2>2. Head(c2s[c]).pid \in Pid
    BY <1>2, ReadType DEF OnSetClientName, Reads
  <2>3. QED
    BY <1>2, <2>1, <2>2 DEF OnSetClientName, TypeOK, cliVars, nameVars, callVars
<1>3. CASE OnListenMessage(c)
  <2> DEFINE p == Head(c2s[c])
  <2>1. c2s' \in [Conn -> Seq(ToServer)]
    BY <1>3, ConsumeType DEF OnListenMessage, Reads
  <2>2. p.method \in Method /\ p.listen_type \in ListenType /\ p.id \in MsgId
    BY <1>3, ReadType DEF OnListenMessage, Reads
  <2>3. CheckMessage(p.method, p.listen_type) \in BOOLEAN
    BY DEF CheckMessage
  <2>4. s2c' \in [Conn -> Seq(ToClient)]
    <3> DEFINE q == [type |-> "ADD_MESSAGE", method |-> p.method,
                     listen_type |-> p.listen_type, id |-> p.id,
                     succeed |-> CheckMessage(p.method, p.listen_type)]
    <3>1. q \in ToClient
      BY <2>2, <2>3 DEF ToClient
    <3>2. SendMessage(c, q)
      BY <1>3 DEF OnListenMessage
    <3> HIDE DEF q
    <3>3. QED
      BY <3>1, <3>2, SendMessageType
  <2>5. /\ method_map_' \in [Conn -> [Method -> ListenType \cup {NotListening}]]
        /\ method_agents_' \in [Method -> SUBSET Conn]
    <3>1. CASE CheckMessage(p.method, p.listen_type)
      <4>1. method_map_' = [method_map_ EXCEPT ![c][p.method] = p.listen_type]
        BY <1>3, <3>1 DEF OnListenMessage
      <4>2. method_agents_' \in [Method -> SUBSET Conn]
        <5>1. AddAgentBindMethod(p.method, agent_id_[c])
          BY <1>3, <3>1 DEF OnListenMessage
        <5>2. CASE agent_id_[c] \in DOMAIN dp_agents_
          <6>1. dp_agents_[agent_id_[c]] \in Conn
            BY <5>2 DEF TypeOK
          <6>2. QED
            BY <5>1, <5>2, <6>1, <2>2 DEF AddAgentBindMethod, TypeOK
        <5>3. CASE agent_id_[c] \notin DOMAIN dp_agents_
          BY <5>1, <5>3 DEF AddAgentBindMethod, TypeOK
        <5>4. QED
          BY <5>2, <5>3
      <4>3. QED
        BY <4>1, <4>2, <2>2 DEF TypeOK
    <3>2. CASE ~CheckMessage(p.method, p.listen_type)
      BY <1>3, <3>2 DEF OnListenMessage, TypeOK
    <3>3. QED
      BY <3>1, <3>2
  <2>6. QED
    BY <1>3, <2>1, <2>4, <2>5 DEF OnListenMessage, TypeOK, cliVars, nameVars, callVars
<1>4. CASE OnRemoveMessage(c)
  <2>1. c2s' \in [Conn -> Seq(ToServer)]
    BY <1>4, ConsumeType DEF OnRemoveMessage, Reads
  <2>2. Head(c2s[c]).method \in Method
    BY <1>4, ReadType DEF OnRemoveMessage, Reads
  <2>3. QED
    BY <1>4, <2>1, <2>2
    DEF OnRemoveMessage, RemoveAgentBindMethod, TypeOK, cliVars, nameVars, callVars
<1>5. CASE OnRequestMessage_Broadcast(c)
  <2> DEFINE msg == Head(c2s[c])
             to == Listeners(c, msg)
             reply == [type |-> "REPLY", id |-> msg.id, data |-> NoCall,
                       result |-> Cardinality(to)]
             copy == Forwarded("MESSAGE", msg.id, msg)
  <2>1. c2s' \in [Conn -> Seq(ToServer)]
    BY <1>5, ConsumeType DEF OnRequestMessage_Broadcast, Reads
  <2>2. msg.method \in Method /\ msg.id \in MsgId /\ msg.data \in Call
    BY <1>5, ReadType DEF OnRequestMessage_Broadcast, Reads
  <2>3. Cardinality(to) \in Nat
    <3>1. to \subseteq Conn
      BY <2>2 DEF Listeners, TypeOK
    <3>2. QED
      BY <3>1, ConnAssumption, FS_Subset, FS_CardinalityType
  <2>4. reply \in ToClient /\ copy \in ToClient
    BY <2>2, <2>3 DEF ToClient, Forwarded, ListenType
  <2>5. s2c' = [a \in Conn |-> IF a \in to THEN Append(s2c[a], copy)
                               ELSE IF a = c THEN Append(s2c[a], reply)
                               ELSE s2c[a]]
    BY <1>5 DEF OnRequestMessage_Broadcast
  <2>6. s2c' \in [Conn -> Seq(ToClient)]
    <3> HIDE DEF reply, copy, to
    <3> QED BY <2>4, <2>5 DEF TypeOK
  <2>7. QED
    BY <1>5, <2>1, <2>6
    DEF OnRequestMessage_Broadcast, TypeOK, srvVars, cliVars, nameVars, callVars
<1>6. CASE OnRequestMessage_Forward(c)
  <2> DEFINE msg == Head(c2s[c])
             to == Listeners(c, msg)
             requests == {a \in to : method_map_[a][msg.method] = "REQUEST"}
             request == Forwarded("REQUEST", ForwardId(c, msg), msg)
             copy == Forwarded("MESSAGE", msg.id, msg)
  <2>1. c2s' \in [Conn -> Seq(ToServer)]
    BY <1>6, ConsumeType DEF OnRequestMessage_Forward, Reads
  <2>2. msg.method \in Method /\ msg.id \in MsgId /\ msg.data \in Call
    BY <1>6, ReadType DEF OnRequestMessage_Forward, Reads
  <2>3. ForwardId(c, msg) \in MsgId
    <3>1. agent_id_[c] \in Nat
      BY DEF TypeOK
    <3>2. agent_id_[c] % IdMod \in Nat
      BY <3>1, IdModAssumption
    <3>3. msg.id.mid \in Nat
      BY <2>2 DEF MsgId
    <3>4. QED
      BY <3>2, <3>3 DEF ForwardId, MsgId
  <2>4. request \in ToClient /\ copy \in ToClient
    BY <2>2, <2>3 DEF ToClient, Forwarded, ListenType
  <2>5. PICK r \in requests, met \in SUBSET (to \ requests) :
          s2c' = [a \in Conn |-> IF a = r THEN Append(s2c[a], request)
                                 ELSE IF a \in met THEN Append(s2c[a], copy)
                                 ELSE s2c[a]]
    BY <1>6 DEF OnRequestMessage_Forward
  <2>6. s2c' \in [Conn -> Seq(ToClient)]
    <3> HIDE DEF request, copy, to, requests
    <3> QED BY <2>4, <2>5 DEF TypeOK
  <2>7. QED
    BY <1>6, <2>1, <2>6
    DEF OnRequestMessage_Forward, TypeOK, srvVars, cliVars, nameVars, callVars
<1>7. CASE OnReplayMessage(c)
  <2> DEFINE p == Head(c2s[c])
             q == [type |-> "REPLY", id |-> OwnId(p.id.mid),
                   data |-> p.data, result |-> 1]
  <2>1. c2s' \in [Conn -> Seq(ToServer)]
    BY <1>7, ConsumeType DEF OnReplayMessage, Reads
  <2>2. p.id \in MsgId /\ p.data \in Call
    BY <1>7, ReadType DEF OnReplayMessage, Reads
  <2>3. q \in ToClient
    BY <2>2 DEF OwnId, MsgId, ToClient
  <2>4. s2c' \in [Conn -> Seq(ToClient)]
    <3>1. CASE p.id.agent \in DOMAIN dp_agents_
      <4>1. dp_agents_[p.id.agent] \in Conn
        BY <3>1 DEF TypeOK
      <4>2. SendMessage(dp_agents_[p.id.agent], q)
        BY <1>7, <3>1 DEF OnReplayMessage
      <4> HIDE DEF q
      <4>3. QED
        BY <4>1, <4>2, <2>3, SendMessageType
    <3>2. CASE p.id.agent \notin DOMAIN dp_agents_
      BY <1>7, <3>2 DEF OnReplayMessage, TypeOK
    <3>3. QED
      BY <3>1, <3>2
  <2>5. QED
    BY <1>7, <2>1, <2>4 DEF OnReplayMessage, TypeOK, srvVars, cliVars, nameVars, callVars
<1>8. CASE OnSocketErrorEvent(c)
  <2>1. /\ method_agents_' \in [Method -> SUBSET Conn]
        /\ DOMAIN dp_agents_' \subseteq 1..agent_num_
        /\ dp_agents_' \in [DOMAIN dp_agents_' -> Conn]
    BY <1>8 DEF OnSocketErrorEvent, RemoveAgent, TypeOK
  <2>2. /\ c2s' \in [Conn -> Seq(ToServer)]
        /\ s2c' \in [Conn -> Seq(ToClient)]
    BY <1>8 DEF OnSocketErrorEvent, TypeOK
  <2>3. QED
    BY <1>8, <2>1, <2>2 DEF OnSocketErrorEvent, TypeOK, cliVars, nameVars, callVars
<1>9. QED
  BY <1>1, <1>2, <1>3, <1>4, <1>5, <1>6, <1>7, <1>8 DEF ServerStep

LEMMA NextIdType ==
  ASSUME TypeOK, NEW c \in Conn, NEW use, NextId(c, use)
  PROVE  message_id_' \in [Conn -> Nat] /\ message_id_[c] + 1 \in Nat
BY DEF TypeOK, NextId

\* Changing one listener type of one connection keeps the table's type.
LEMMA TableType ==
  ASSUME NEW T, NEW f \in [Conn -> [Method -> T]],
         NEW c \in Conn, NEW m \in Method, NEW t \in T
  PROVE  [f EXCEPT ![c][m] = t] \in [Conn -> [Method -> T]]
OBVIOUS

LEMMA ClientType ==
  ASSUME TypeOK, NEW c \in Conn, ClientStep(c)
  PROVE  TypeOK'
<1> USE DEF srvVars, callVars, cliVars, nameVars
<1>0. CASE SetName(c)
  <2>1. [type |-> "SET_NAME", pid |-> PidOf[c]] \in ToServer
    BY PidAssumption DEF ToServer
  <2>2. c2s' \in [Conn -> Seq(ToServer)]
    BY <1>0, <2>1, SendType DEF SetName
  <2>3. QED
    BY <1>0, <2>2 DEF SetName, TypeOK
<1>1. CASE Connect(c)
  BY <1>1 DEF Connect, TypeOK
<1>2. CASE \E m \in Method, t \in ListenType : SendListen(c, m, t)
  <2>1. PICK m \in Method, t \in ListenType : SendListen(c, m, t)
    BY <1>2
  <2>2. OwnId(message_id_[c] + 1) \in MsgId
    BY DEF TypeOK, OwnId, MsgId
  <2>3. [type |-> "ADD_MESSAGE", method |-> m, listen_type |-> t,
         id |-> OwnId(message_id_[c] + 1)] \in ToServer
    BY <2>2 DEF ToServer
  <2>4. c2s' \in [Conn -> Seq(ToServer)]
    BY <2>1, <2>3, SendType DEF SendListen
  <2>5. /\ message_id_' \in [Conn -> Nat]
        /\ adding' \in [Conn -> Nat]
    BY <2>1, NextIdType DEF SendListen, TypeOK
  <2>6. QED
    BY <2>1, <2>4, <2>5 DEF SendListen, TypeOK
<1>3. CASE ListenTimeout(c)
  BY <1>3 DEF ListenTimeout, TypeOK
<1>4. CASE \E m \in Method : SendRemove(c, m)
  <2>1. PICK m \in Method : SendRemove(c, m)
    BY <1>4
  <2>2. [type |-> "REMOVE_MESSAGE", method |-> m] \in ToServer
    BY DEF ToServer
  <2>3. c2s' \in [Conn -> Seq(ToServer)]
    BY <2>1, <2>2, SendType DEF SendRemove
  <2>4. message_id_' \in [Conn -> Nat]
    BY <2>1, NextIdType DEF SendRemove
  <2>5. confirmed' \in [Conn -> [Method -> ListenType \cup {NotListening}]]
    BY <2>1, TableType DEF SendRemove, TypeOK
  <2>6. QED
    BY <2>1, <2>3, <2>4, <2>5 DEF SendRemove, TypeOK
<1>5. CASE \E m \in Method : SendDpMessage(c, m)
  <2>1. PICK m \in Method : SendDpMessage(c, m)
    BY <1>5
  <2>2. OwnId(message_id_[c] + 1) \in MsgId
    BY DEF TypeOK, OwnId, MsgId
  <2>3. [conn |-> c, mid |-> message_id_[c] + 1] \in Call
    BY DEF TypeOK, Call
  <2>4. [type |-> "MESSAGE", method |-> m, pid |-> PidOf[c],
         id |-> OwnId(message_id_[c] + 1),
         data |-> [conn |-> c, mid |-> message_id_[c] + 1]] \in ToServer
    BY <2>2, <2>3, PidAssumption DEF ToServer
  <2>5. c2s' \in [Conn -> Seq(ToServer)]
    BY <2>1, <2>4, SendType DEF SendDpMessage
  <2>6. /\ message_id_' \in [Conn -> Nat]
        /\ waiting' \in [Conn -> SUBSET Nat]
    BY <2>1, NextIdType DEF SendDpMessage, TypeOK
  <2>7. QED
    BY <2>1, <2>5, <2>6 DEF SendDpMessage, TypeOK
<1>6. CASE SendDpReply(c)
  <2>0. PICK d \in Conn : \E r \in todo[d] :
          /\ todo' = [todo EXCEPT ![d] = @ \ {r}]
          /\ Send(c, [type |-> "REPLY", id |-> r.id, data |-> r.data])
    BY <1>6 DEF SendDpReply, RequestsFor
  <2>1. PICK r \in todo[d] :
          /\ todo' = [todo EXCEPT ![d] = @ \ {r}]
          /\ Send(c, [type |-> "REPLY", id |-> r.id, data |-> r.data])
    BY <2>0
  <2>2. r.id \in MsgId /\ r.data \in Call
    BY DEF TypeOK
  <2>3. [type |-> "REPLY", id |-> r.id, data |-> r.data] \in ToServer
    BY <2>2 DEF ToServer
  <2>4. c2s' \in [Conn -> Seq(ToServer)]
    BY <2>1, <2>3, SendType
  <2>5. QED
    BY <1>6, <2>1, <2>4 DEF SendDpReply, TypeOK
<1>7. CASE OnAddReplayMessage(c)
  <2> DEFINE p == Head(s2c[c])
  <2>1. s2c' \in [Conn -> Seq(ToClient)] /\ p \in ToClient /\ p.type = "ADD_MESSAGE"
    BY <1>7, ReceiveType DEF OnAddReplayMessage
  <2>2. p.method \in Method /\ p.listen_type \in ListenType
    BY <2>1 DEF ToClient, ListenType
  <2>3. /\ adding' \in [Conn -> Nat]
        /\ removed' \in [Conn -> SUBSET Method]
        /\ confirmed' \in [Conn -> [Method -> ListenType \cup {NotListening}]]
    <3>1. confirmed' \in {confirmed, [confirmed EXCEPT ![c][p.method] = p.listen_type]}
      BY <1>7 DEF OnAddReplayMessage
    <3>2. /\ adding' \in {adding, [adding EXCEPT ![c] = 0]}
          /\ removed' \in {removed, [removed EXCEPT ![c] = {}]}
      BY <1>7 DEF OnAddReplayMessage
    <3>3. [confirmed EXCEPT ![c][p.method] = p.listen_type]
            \in [Conn -> [Method -> ListenType \cup {NotListening}]]
      BY <2>2, TableType DEF TypeOK
    <3>4. [adding EXCEPT ![c] = 0] \in [Conn -> Nat] /\ [removed EXCEPT ![c] = {}] \in [Conn -> SUBSET Method]
      BY DEF TypeOK
    <3>5. QED
      BY <3>1, <3>2, <3>3, <3>4 DEF TypeOK
  <2>4. QED
    BY <1>7, <2>1, <2>3 DEF OnAddReplayMessage, TypeOK
<1>8. CASE OnReqReplayMessage(c)
  <2> DEFINE p == Head(s2c[c])
  <2>1. s2c' \in [Conn -> Seq(ToClient)] /\ p \in ToClient /\ p.type = "REPLY"
    BY <1>8, ReceiveType DEF OnReqReplayMessage
  <2>2. p.id.mid \in Nat
    BY <2>1 DEF ToClient, ListenType, MsgId
  <2>3. QED
    BY <1>8, <2>1, <2>2 DEF OnReqReplayMessage, TypeOK
<1>9. CASE OnBroadCastMessage(c)
  BY <1>9, ReceiveType DEF OnBroadCastMessage, TypeOK
<1>10. CASE OnRequestMessage(c)
  <2> DEFINE p == Head(s2c[c])
  <2>1. s2c' \in [Conn -> Seq(ToClient)] /\ p \in ToClient /\ p.type = "REQUEST"
    BY <1>10, ReceiveType DEF OnRequestMessage
  <2>2. p.id \in MsgId /\ p.data \in Call
    BY <2>1 DEF ToClient, ListenType
  <2>3. todo' \in [Conn -> SUBSET [id : MsgId, data : Call]]
    BY <1>10, <2>2 DEF OnRequestMessage, TypeOK
  <2>4. QED
    BY <1>10, <2>1, <2>3 DEF OnRequestMessage, TypeOK
<1>11. CASE Disconnect(c)
  BY <1>11 DEF Disconnect, TypeOK
<1>12. QED
  BY <1>0, <1>1, <1>2, <1>3, <1>4, <1>5, <1>6, <1>7, <1>8, <1>9, <1>10, <1>11
  DEF ClientStep, Reception

LEMMA StutterType ==
  ASSUME TypeOK, UNCHANGED vars
  PROVE  TypeOK'
BY DEF TypeOK, vars, srvVars, cliVars, nameVars, callVars

\* Every variable of the broker and of its clients keeps its type.
THEOREM TypeCorrect == Spec => []TypeOK
<1>1. ASSUME TypeOK, [Next]_vars PROVE TypeOK'
  BY <1>1, ServerType, ClientType, StutterType DEF Next
<1>2. QED
  BY <1>1, TypeInit, PTL DEF Spec

---------------------------------------------------------------------------
(* The registries.  RegistryConsistent and RequestListenerUnique are not   *)
(* inductive alone: that a new agent disturbs no old one needs ids to be   *)
(* used once and an agent to listen to nothing before it is started.       *)

AgentsNumbered ==
  /\ \A c \in Conn : packet_socket_[c] = "none" <=> agent_id_[c] = 0
  /\ \A c, d \in Conn : agent_id_[c] = agent_id_[d] /\ agent_id_[c] # 0 => c = d
  /\ \A c \in Conn, m \in Method :
       packet_socket_[c] = "none" => method_map_[c][m] = NotListening

RegistryInv == RegistryConsistent /\ AgentsNumbered /\ RequestListenerUnique

LEMMA RegistryInit == Init => RegistryInv
BY DEF Init, RegistryInv, RegistryConsistent, AgentsNumbered, RequestListenerUnique,
       NotListening

\* Steps that leave the registries alone preserve everything about them.
LEMMA RegistryFrame ==
  ASSUME RegistryInv,
         UNCHANGED <<dp_agents_, method_agents_, srv_agents, agent_id_,
                     packet_socket_, method_map_>>
  PROVE  RegistryInv'
BY DEF RegistryInv, RegistryConsistent, AgentsNumbered, RequestListenerUnique

LEMMA AcceptRegistry ==
  ASSUME TypeOK, RegistryInv, NEW c \in Conn, OnListenerAcceptEvent(c)
  PROVE  RegistryInv'
<1> USE DEF RegistryInv
<1> DEFINE n == agent_num_ + 1
<1>1. /\ agent_id_[c] = 0 /\ n \notin DOMAIN dp_agents_ /\ n # 0
      /\ \A d \in Conn : agent_id_[d] # n
      /\ c \notin srv_agents
  BY DEF OnListenerAcceptEvent, TypeOK, AgentsNumbered, RegistryConsistent
<1>2. /\ DOMAIN dp_agents_' = DOMAIN dp_agents_ \cup {n}
      /\ dp_agents_'[n] = c
      /\ \A i \in DOMAIN dp_agents_ : dp_agents_'[i] = dp_agents_[i]
  BY <1>1 DEF OnListenerAcceptEvent, AddDpAgent
<1>3. /\ agent_id_'[c] = n
      /\ \A d \in Conn \ {c} : agent_id_'[d] = agent_id_[d]
      /\ packet_socket_'[c] = "open"
      /\ \A d \in Conn \ {c} : packet_socket_'[d] = packet_socket_[d]
      /\ srv_agents' = srv_agents \cup {c}
      /\ method_agents_' = method_agents_ /\ method_map_' = method_map_
  BY DEF OnListenerAcceptEvent, AddDpAgent, TypeOK
<1>4. AgentsNumbered'
  BY <1>1, <1>3 DEF AgentsNumbered
<1>5. RegistryConsistent'
  <2>1. \A i \in DOMAIN dp_agents_ : dp_agents_[i] \in Conn /\ dp_agents_[i] # c
    BY <1>1 DEF TypeOK, RegistryConsistent
  <2>2. \A m \in Method : method_map_[c][m] = NotListening
    BY DEF OnListenerAcceptEvent, AgentsNumbered
  <2>3. \A m \in Method : method_agents_[m] =
                            {d \in srv_agents \cup {c} : method_map_[d][m] # NotListening}
    BY <2>2 DEF RegistryConsistent
  <2>4. \A d \in Conn : packet_socket_'[d] = "open" <=>
          (agent_id_'[d] \in DOMAIN dp_agents_' /\ dp_agents_'[agent_id_'[d]] = d)
    BY <1>1, <1>2, <1>3 DEF RegistryConsistent
  <2>5. \A i \in DOMAIN dp_agents_' : agent_id_'[dp_agents_'[i]] = i
    BY <1>1, <1>2, <1>3, <2>1 DEF RegistryConsistent
  <2>6. srv_agents' = {d \in Conn : packet_socket_'[d] = "open"}
    BY <1>3 DEF RegistryConsistent
  <2>7. QED
    BY <1>3, <2>3, <2>4, <2>5, <2>6 DEF RegistryConsistent
<1>6. RequestListenerUnique'
  BY <1>3 DEF RequestListenerUnique
<1>7. QED
  BY <1>4, <1>5, <1>6

LEMMA ListenRegistry ==
  ASSUME TypeOK, RegistryInv, NEW c \in Conn, OnListenMessage(c)
  PROVE  RegistryInv'
<1> USE DEF RegistryInv
<1> DEFINE p == Head(c2s[c])
<1>1. p.method \in Method /\ p.listen_type \in ListenType /\ packet_socket_[c] = "open"
  BY ReadType DEF OnListenMessage, Reads
<1>2. UNCHANGED <<agent_num_, dp_agents_, srv_agents, agent_id_, packet_socket_>>
  BY DEF OnListenMessage
<1>3. CASE ~CheckMessage(p.method, p.listen_type)
  BY <1>2, <1>3, RegistryFrame DEF OnListenMessage
<1>4. CASE CheckMessage(p.method, p.listen_type)
  <2>1. method_map_' = [method_map_ EXCEPT ![c][p.method] = p.listen_type]
    BY <1>4 DEF OnListenMessage
  <2>2. method_agents_' = [method_agents_ EXCEPT ![p.method] = @ \cup {c}]
    BY <1>4, <1>1 DEF OnListenMessage, AddAgentBindMethod, RegistryConsistent
  <2>3. /\ method_map_'[c][p.method] = p.listen_type
        /\ \A d \in Conn, m \in Method :
             d # c \/ m # p.method => method_map_'[d][m] = method_map_[d][m]
    BY <1>1, <2>1 DEF TypeOK
  <2>4. /\ method_agents_'[p.method] = method_agents_[p.method] \cup {c}
        /\ \A m \in Method : m # p.method => method_agents_'[m] = method_agents_[m]
    BY <1>1, <2>2 DEF TypeOK
  <2>5. p.listen_type # NotListening
    BY <1>1 DEF ListenType, NotListening
  <2>6. RegistryConsistent'
    <3>1. c \in srv_agents /\ srv_agents \subseteq Conn
      BY <1>1 DEF RegistryConsistent
    <3>2. \A m \in Method : method_agents_'[m] =
                             {d \in srv_agents : method_map_'[d][m] # NotListening}
      BY <2>3, <2>4, <2>5, <3>1 DEF RegistryConsistent
    <3>3. QED
      BY <1>2, <3>2 DEF RegistryConsistent
  <2>7. AgentsNumbered'
    BY <1>1, <1>2, <2>3 DEF AgentsNumbered
  <2>8. RequestListenerUnique'
    <3>1. \A a \in method_agents_[p.method] : a \in LiveAgents /\ a \in Conn
      BY <1>1 DEF RegistryConsistent, LiveAgents
    <3>2. \A a \in method_agents_[p.method] : method_map_[a][p.method] # NotListening
      BY <1>1 DEF RegistryConsistent
    <3>3. \A a \in method_agents_[p.method] :
            method_map_[a][p.method] = p.listen_type /\ p.listen_type # "REQUEST"
      BY <1>4, <3>1, <3>2 DEF CheckMessage
    <3>4. \A m \in Method : \A a \in method_agents_[m] : a \in Conn
      BY DEF TypeOK
    <3>5. QED
      BY <2>3, <2>4, <3>1, <3>3, <3>4 DEF RequestListenerUnique
  <2>9. QED
    BY <2>6, <2>7, <2>8
<1>5. QED
  BY <1>3, <1>4

LEMMA RemoveRegistry ==
  ASSUME TypeOK, RegistryInv, NEW c \in Conn, OnRemoveMessage(c)
  PROVE  RegistryInv'
<1> USE DEF RegistryInv
<1> DEFINE m0 == Head(c2s[c]).method
<1>1. m0 \in Method /\ packet_socket_[c] = "open"
  BY ReadType DEF OnRemoveMessage, Reads
<1>2. UNCHANGED <<agent_num_, dp_agents_, srv_agents, agent_id_, packet_socket_>>
  BY DEF OnRemoveMessage
<1>3. method_map_' = [method_map_ EXCEPT ![c][m0] = NotListening]
  BY DEF OnRemoveMessage
<1>4. /\ method_map_'[c][m0] = NotListening
      /\ \A d \in Conn, m \in Method :
           d # c \/ m # m0 => method_map_'[d][m] = method_map_[d][m]
  BY <1>1, <1>3 DEF TypeOK
<1>5. method_agents_' = [method_agents_ EXCEPT
                           ![m0] = {a \in @ : agent_id_[a] # agent_id_[c]}]
  BY <1>1 DEF OnRemoveMessage, RemoveAgentBindMethod, RegistryConsistent
<1>6. /\ method_agents_'[m0] = method_agents_[m0] \ {c}
      /\ \A m \in Method : m # m0 => method_agents_'[m] = method_agents_[m]
  <2>1. method_agents_'[m0] = {a \in method_agents_[m0] : agent_id_[a] # agent_id_[c]}
    BY <1>1, <1>5 DEF TypeOK
  <2>2. \A a \in method_agents_[m0] : a \in Conn /\ (agent_id_[a] = agent_id_[c] <=> a = c)
    BY <1>1 DEF TypeOK, AgentsNumbered
  <2>3. QED
    BY <1>5, <2>1, <2>2 DEF TypeOK
<1>7. RegistryConsistent'
  <2>1. srv_agents \subseteq Conn
    BY DEF TypeOK
  <2>2. \A m \in Method : method_agents_'[m] =
                           {d \in srv_agents : method_map_'[d][m] # NotListening}
    BY <1>4, <1>6, <2>1 DEF RegistryConsistent
  <2>3. QED
    BY <1>2, <2>2 DEF RegistryConsistent
<1>8. AgentsNumbered'
  BY <1>1, <1>2, <1>4 DEF AgentsNumbered
<1>9. RequestListenerUnique'
  <2>1. \A m \in Method : \A a \in method_agents_'[m] :
          a \in Conn /\ a \in method_agents_[m] /\ method_map_'[a][m] = method_map_[a][m]
    BY <1>4, <1>6 DEF TypeOK
  <2>2. QED
    BY <2>1 DEF RequestListenerUnique
<1>10. QED
  BY <1>7, <1>8, <1>9

LEMMA CloseRegistry ==
  ASSUME TypeOK, RegistryInv, NEW c \in Conn, OnSocketErrorEvent(c)
  PROVE  RegistryInv'
<1> USE DEF RegistryInv
<1> DEFINE id == agent_id_[c]
<1>1. id \in DOMAIN dp_agents_ /\ dp_agents_[id] = c /\ id # 0
  BY DEF OnSocketErrorEvent, RegistryConsistent, AgentsNumbered
<1>2. /\ packet_socket_'[c] = "closed"
      /\ \A d \in Conn \ {c} : packet_socket_'[d] = packet_socket_[d]
      /\ srv_agents' = srv_agents \ {c}
      /\ UNCHANGED <<agent_id_, method_map_>>
  BY DEF OnSocketErrorEvent, TypeOK
<1>3. /\ DOMAIN dp_agents_' = DOMAIN dp_agents_ \ {id}
      /\ \A i \in DOMAIN dp_agents_ \ {id} : dp_agents_'[i] = dp_agents_[i]
  BY <1>1 DEF OnSocketErrorEvent, RemoveAgent
<1>4. \A m \in Method : method_agents_'[m] = method_agents_[m] \ {c}
  <2>1. \A m \in Method : method_agents_'[m] = {a \in method_agents_[m] : agent_id_[a] # id}
    BY <1>1 DEF OnSocketErrorEvent, RemoveAgent
  <2>2. \A m \in Method : \A a \in method_agents_[m] : agent_id_[a] = id <=> a = c
    BY <1>1 DEF TypeOK, AgentsNumbered
  <2>3. QED
    BY <2>1, <2>2
<1>5. RegistryConsistent'
  <2>1. \A i \in DOMAIN dp_agents_ : dp_agents_[i] \in Conn /\ (dp_agents_[i] = c <=> i = id)
    BY <1>1 DEF TypeOK, RegistryConsistent
  <2>2. \A d \in Conn : packet_socket_'[d] = "open" <=>
          (agent_id_'[d] \in DOMAIN dp_agents_' /\ dp_agents_'[agent_id_'[d]] = d)
    BY <1>1, <1>2, <1>3 DEF RegistryConsistent, AgentsNumbered
  <2>3. \A i \in DOMAIN dp_agents_' : agent_id_'[dp_agents_'[i]] = i
    BY <1>2, <1>3 DEF RegistryConsistent
  <2>4. srv_agents' = {d \in Conn : packet_socket_'[d] = "open"}
    BY <1>2 DEF RegistryConsistent
  <2>5. \A m \in Method : method_agents_'[m] =
                           {d \in srv_agents' : method_map_'[d][m] # NotListening}
    BY <1>2, <1>4 DEF RegistryConsistent
  <2>6. QED
    BY <2>2, <2>3, <2>4, <2>5 DEF RegistryConsistent
<1>6. AgentsNumbered'
  BY <1>1, <1>2 DEF AgentsNumbered
<1>7. RequestListenerUnique'
  BY <1>2, <1>4 DEF RequestListenerUnique
<1>8. QED
  BY <1>5, <1>6, <1>7

LEMMA RegistryNext ==
  ASSUME TypeOK, RegistryInv, [Next]_vars
  PROVE  RegistryInv'
<1>1. CASE UNCHANGED vars
  BY <1>1, RegistryFrame DEF vars, srvVars
<1>2. ASSUME NEW c \in Conn, ClientStep(c) PROVE RegistryInv'
  <2>1. UNCHANGED srvVars
    BY <1>2 DEF ClientStep, Reception, Connect, SetName, SendListen, ListenTimeout, SendRemove,
                SendDpMessage, SendDpReply, OnAddReplayMessage, OnReqReplayMessage,
                OnBroadCastMessage, OnRequestMessage, Disconnect
  <2>2. QED
    BY <2>1, RegistryFrame DEF srvVars
<1>3. ASSUME NEW c \in Conn, ServerStep(c) PROVE RegistryInv'
  <2>1. CASE OnSetClientName(c)
    BY <2>1, RegistryFrame DEF OnSetClientName
  <2>2. CASE OnRequestMessage_Broadcast(c) \/ OnRequestMessage_Forward(c) \/ OnReplayMessage(c)
    BY <2>2, RegistryFrame
    DEF OnRequestMessage_Broadcast, OnRequestMessage_Forward, OnReplayMessage, srvVars
  <2>3. QED
    BY <1>3, <2>1, <2>2, AcceptRegistry, ListenRegistry, RemoveRegistry, CloseRegistry
    DEF ServerStep
<1>4. QED
  BY <1>1, <1>2, <1>3 DEF Next

LEMMA RegistryInvariant == Spec => []RegistryInv
<1>1. Init => RegistryInv
  BY RegistryInit
<1>2. TypeOK /\ RegistryInv /\ [Next]_vars => RegistryInv'
  BY RegistryNext
<1>3. QED
  BY <1>1, <1>2, TypeCorrect, PTL DEF Spec

\* The manager's maps, the server's list and the sockets name the same agents
\* in every reachable state, whatever the clients do and however they die.
THEOREM RegistryAlwaysConsistent == Spec => []RegistryConsistent
<1>1. RegistryInv => RegistryConsistent
  BY DEF RegistryInv
<1>2. QED
  BY <1>1, RegistryInvariant, PTL

\* The listeners of a method agree on its type, and a REQUEST has only one.
THEOREM RequestListenerAlwaysUnique == Spec => []RequestListenerUnique
<1>1. RegistryInv => RequestListenerUnique
  BY DEF RegistryInv
<1>2. QED
  BY <1>1, RegistryInvariant, PTL
===========================================================================
