----------------------------- MODULE DpBroker -----------------------------
(***************************************************************************)
(* The DP message bus server: DpServer, DpAgent and DpAgentManager         *)
(* (lib_bsp/eventservice/dp/dpserver.cpp, dpagent.cpp).  One event thread  *)
(* runs every handler to completion, so one handler is one action.  The    *)
(* TCP connections are FIFO byte streams that may die with data in flight; *)
(* the client end (dpclient.cpp) is the environment: it connects, names    *)
(* itself, listens, removes, sends, replies, gives up waiting and goes     *)
(* away, in any order its threads allow: the service thread publishes the  *)
(* socket before it sends the name, and RemoveMessage does not wait for a  *)
(* ListenMessage.                                                          *)
(*                                                                         *)
(* A connection, its socket and its DpAgent object have one identity, an   *)
(* element of Conn; a client that reconnects uses a fresh element with the *)
(* same PidOf.                                                             *)
(***************************************************************************)
EXTENDS Integers, Sequences, FiniteSets

CONSTANTS Conn,     \* connections the server may see in its lifetime
          Method,   \* DP method names
          Pid,      \* process identifiers
          PidOf,    \* the process a connection belongs to
          NoPid,    \* remote_pid_ of an agent that has not been named (-1)
          NoCall,   \* the payload of the server's own replies: none
          IdMod,    \* number of agent ids the message id has room for (2^16)
          Mortal,   \* bound: the connections that may be lost
          Hasty,    \* bound: the connections used by other threads before they are named
          MaxSend,  \* bound: packets a client numbers, per connection
          Uses      \* bound: the calls of the library it uses, per connection

ASSUME ConnAssumption == IsFiniteSet(Conn)
ASSUME PidAssumption == PidOf \in [Conn -> Pid] /\ NoPid \notin Pid
ASSUME NoCallAssumption == NoCall \notin [conn : Conn, mid : Nat]
ASSUME IdModAssumption == IdMod \in Nat \ {0}
ASSUME MortalAssumption == Mortal \subseteq Conn /\ Hasty \subseteq Conn
ASSUME MaxSendAssumption ==
  MaxSend \in [Conn -> Nat] /\ Uses \in [Conn -> SUBSET {"listen", "remove", "send"}]

VARIABLES
  agent_num_,     \* DpAgentManager: agents ever numbered
  dp_agents_,     \* DpAgentManager: agent id -> agent
  method_agents_, \* DpAgentManager: method -> agents bound to it
  srv_agents,     \* DpServer::dp_agents_, which keeps the agents alive
  agent_id_,      \* DpAgent: its id, 0 before Start
  packet_socket_, \* DpAgent: "none" before Start, then "open", then "closed"
  method_map_,    \* DpAgent: method -> type it is listened to with
  remote_pid_,    \* DpAgent: pid of the peer, NoPid (-1) until it names itself
  c2s, s2c,       \* packets in flight, to the server and to the client
  cli,            \* client end of the connection: "idle", "up" or "down"
  message_id_,    \* client: last message id used
  waiting,        \* client: ids of its calls that still wait
  answered,       \* client: ids of its calls a reply has reached
  adding,         \* client: id of the ADD_MESSAGE it waits for, or 0
  todo,           \* client: requests handed to its handler, not yet replied to
  named,          \* connections whose SET_NAME has been sent
  \* For the properties:
  early,          \* connections on which an ADD_MESSAGE went out before SET_NAME
  removed,        \* client: methods it removed while ListenMessage waits
  confirmed       \* client: method -> type the server said SUCCEED to, not removed since

srvVars == <<agent_num_, dp_agents_, method_agents_, srv_agents, agent_id_,
             packet_socket_, method_map_, remote_pid_>>
callVars == <<message_id_, waiting, answered>>
nameVars == <<named, early>>
cliVars == <<cli, callVars, adding, confirmed, removed, todo, nameVars>>
vars == <<srvVars, c2s, s2c, cliVars>>

ListenType == {"MESSAGE", "REQUEST"}
NotListening == "none"

\* The payload of a message is the identity of the call that sent it; the
\* payload of a reply is the identity of the call it answers.
Call == [conn : Conn, mid : Nat]

\* message_id: agent in the high 16 bits, the sender's own id in the low ones.
MsgId == [agent : Nat, mid : Nat]
OwnId(n) == [agent |-> 0, mid |-> n]

ToServer ==
  [type : {"SET_NAME"}, pid : Pid]
    \cup [type : {"ADD_MESSAGE"}, method : Method, listen_type : ListenType, id : MsgId]
    \cup [type : {"REMOVE_MESSAGE"}, method : Method]
    \cup [type : {"MESSAGE"}, method : Method, pid : Pid, id : MsgId, data : Call]
    \cup [type : {"REPLY"}, id : MsgId, data : Call]

ToClient ==
  [type : ListenType, method : Method, id : MsgId, data : Call]
    \cup [type : {"REPLY"}, id : MsgId, data : Call \cup {NoCall}, result : Nat]
    \cup [type : {"ADD_MESSAGE"}, method : Method, listen_type : ListenType,
          id : MsgId, succeed : BOOLEAN]

TypeOK ==
  /\ agent_num_ \in Nat
  /\ DOMAIN dp_agents_ \subseteq 1..agent_num_
  /\ dp_agents_ \in [DOMAIN dp_agents_ -> Conn]
  /\ method_agents_ \in [Method -> SUBSET Conn]
  /\ srv_agents \in SUBSET Conn
  /\ agent_id_ \in [Conn -> 0..agent_num_]
  /\ packet_socket_ \in [Conn -> {"none", "open", "closed"}]
  /\ method_map_ \in [Conn -> [Method -> ListenType \cup {NotListening}]]
  /\ remote_pid_ \in [Conn -> Pid \cup {NoPid}]
  /\ c2s \in [Conn -> Seq(ToServer)]
  /\ s2c \in [Conn -> Seq(ToClient)]
  /\ cli \in [Conn -> {"idle", "up", "down"}]
  /\ message_id_ \in [Conn -> Nat]
  /\ waiting \in [Conn -> SUBSET Nat]
  /\ answered \in [Conn -> SUBSET Nat]
  /\ adding \in [Conn -> Nat]
  /\ confirmed \in [Conn -> [Method -> ListenType \cup {NotListening}]]
  /\ removed \in [Conn -> SUBSET Method]
  /\ todo \in [Conn -> SUBSET [id : MsgId, data : Call]]
  /\ named \in SUBSET Conn /\ early \in SUBSET Conn

Init ==
  /\ agent_num_ = 0
  /\ dp_agents_ = [i \in {} |-> i]
  /\ method_agents_ = [m \in Method |-> {}]
  /\ srv_agents = {}
  /\ agent_id_ = [c \in Conn |-> 0]
  /\ packet_socket_ = [c \in Conn |-> "none"]
  /\ method_map_ = [c \in Conn |-> [m \in Method |-> NotListening]]
  /\ remote_pid_ = [c \in Conn |-> NoPid]
  /\ c2s = [c \in Conn |-> <<>>]
  /\ s2c = [c \in Conn |-> <<>>]
  /\ cli = [c \in Conn |-> "idle"]
  /\ message_id_ = [c \in Conn |-> 0]
  /\ waiting = [c \in Conn |-> {}]
  /\ answered = [c \in Conn |-> {}]
  /\ adding = [c \in Conn |-> 0]
  /\ confirmed = [c \in Conn |-> [m \in Method |-> NotListening]]
  /\ removed = [c \in Conn |-> {}]
  /\ todo = [c \in Conn |-> {}]
  /\ named = {} /\ early = {}

---------------------------------------------------------------------------
(* The agent manager.                                                      *)

\* Mutant: the id is taken but the counter does not move.
AddDpAgent_stuck(c) ==
  /\ agent_num_' = agent_num_
  /\ dp_agents_' = [i \in DOMAIN dp_agents_ \cup {agent_num_ + 1} |->
                      IF i = agent_num_ + 1 THEN c ELSE dp_agents_[i]]
  /\ agent_id_' = [agent_id_ EXCEPT ![c] = agent_num_ + 1]

\* Start registers the agent under the next number.
AddDpAgent(c) ==
  /\ agent_num_' = agent_num_ + 1
  /\ dp_agents_' = [i \in DOMAIN dp_agents_ \cup {agent_num_ + 1} |->
                      IF i = agent_num_ + 1 THEN c ELSE dp_agents_[i]]
  /\ agent_id_' = [agent_id_ EXCEPT ![c] = agent_num_ + 1]

\* Mutant: the method lists keep the agent.
RemoveAgent_leaky(id) ==
  /\ dp_agents_' = [i \in DOMAIN dp_agents_ \ {id} |-> dp_agents_[i]]
  /\ UNCHANGED method_agents_

\* Forget the agent and every method bound to it.
RemoveAgent(id) ==
  IF id \in DOMAIN dp_agents_
  THEN /\ method_agents_' = [m \in Method |->
                               {a \in method_agents_[m] : agent_id_[a] # id}]
       /\ dp_agents_' = [i \in DOMAIN dp_agents_ \ {id} |-> dp_agents_[i]]
  ELSE UNCHANGED <<method_agents_, dp_agents_>>

LiveAgents == {dp_agents_[i] : i \in DOMAIN dp_agents_}

\* Mutant: only the type is compared.
CheckMessage_typeOnly(method, type) ==
  \A a \in LiveAgents : method_map_[a][method] \in {NotListening, type}

\* A method has one type, and a REQUEST method one listener.
CheckMessage(method, type) ==
  \A a \in LiveAgents :
    \/ method_map_[a][method] = NotListening
    \/ method_map_[a][method] = type /\ type # "REQUEST"

AddAgentBindMethod(method, id) ==
  method_agents_' =
    IF id \in DOMAIN dp_agents_
    THEN [method_agents_ EXCEPT ![method] = @ \cup {dp_agents_[id]}]
    ELSE method_agents_

\* Mutant: the whole list is emptied.
RemoveAgentBindMethod_all(method, id) ==
  method_agents_' = [method_agents_ EXCEPT ![method] = {}]

RemoveAgentBindMethod(method, id) ==
  method_agents_' =
    IF id \in DOMAIN dp_agents_
    THEN [method_agents_ EXCEPT ![method] = {a \in @ : agent_id_[a] # id}]
    ELSE method_agents_

\* Mutant: only the sending connection is skipped, not its process.
Listeners_sameProcess(src, msg) ==
  {a \in method_agents_[msg.method] :
     a # src /\ method_map_[a][msg.method] # NotListening}

\* Agents ProcessDpMessage hands a message to: not the sender, not its process.
Listeners(src, msg) ==
  {a \in method_agents_[msg.method] :
     /\ a # src
     /\ remote_pid_[a] # msg.pid
     /\ method_map_[a][msg.method] # NotListening}

\* Mutant: the agent id is off by one.
ForwardId_offByOne(src, msg) ==
  [agent |-> (agent_id_[src] + 1) % IdMod, mid |-> msg.id.mid]

\* Mutant: the request is forwarded under the sender's own id.
ForwardId_bare(src, msg) == msg.id

\* The id a request is forwarded under: uint16 arithmetic on the agent id.
ForwardId(src, msg) ==
  [agent |-> agent_id_[src] % IdMod, mid |-> msg.id.mid]

---------------------------------------------------------------------------
(* The server's event handlers.                                            *)

Reads(c, type) ==
  /\ packet_socket_[c] = "open"
  /\ c2s[c] # <<>>
  /\ Head(c2s[c]).type = type

Consume(c) == c2s' = [c2s EXCEPT ![c] = Tail(@)]

SendMessage(c, pkt) == s2c' = [s2c EXCEPT ![c] = Append(@, pkt)]

OnListenerAcceptEvent(c) ==
  /\ cli[c] # "idle"
  /\ packet_socket_[c] = "none"
  /\ AddDpAgent(c)
  /\ packet_socket_' = [packet_socket_ EXCEPT ![c] = "open"]
  /\ srv_agents' = srv_agents \cup {c}
  /\ UNCHANGED <<method_agents_, method_map_, remote_pid_, c2s, s2c, cliVars>>

OnSetClientName(c) ==
  /\ Reads(c, "SET_NAME")
  /\ remote_pid_' = [remote_pid_ EXCEPT ![c] = Head(c2s[c]).pid]
  /\ Consume(c)
  /\ UNCHANGED <<agent_num_, dp_agents_, method_agents_, srv_agents, agent_id_,
                 packet_socket_, method_map_, s2c, cliVars>>

\* Mutant: the answer is SUCCEED whatever the check said.
OnListenMessage_alwaysSucceed(c) ==
  /\ Reads(c, "ADD_MESSAGE")
  /\ LET p == Head(c2s[c])
     IN /\ IF CheckMessage(p.method, p.listen_type)
           THEN /\ method_map_' = [method_map_ EXCEPT ![c][p.method] = p.listen_type]
                /\ AddAgentBindMethod(p.method, agent_id_[c])
           ELSE UNCHANGED <<method_map_, method_agents_>>
        /\ SendMessage(c, [type |-> "ADD_MESSAGE", method |-> p.method,
                           listen_type |-> p.listen_type, id |-> p.id,
                           succeed |-> TRUE])
  /\ Consume(c)
  /\ UNCHANGED <<agent_num_, dp_agents_, srv_agents, agent_id_,
                 packet_socket_, remote_pid_, cliVars>>

OnListenMessage(c) ==
  /\ Reads(c, "ADD_MESSAGE")
  /\ LET p == Head(c2s[c])
         res == CheckMessage(p.method, p.listen_type)
     IN /\ IF res
           THEN /\ method_map_' = [method_map_ EXCEPT ![c][p.method] = p.listen_type]
                /\ AddAgentBindMethod(p.method, agent_id_[c])
           ELSE UNCHANGED <<method_map_, method_agents_>>
        /\ SendMessage(c, [type |-> "ADD_MESSAGE", method |-> p.method,
                           listen_type |-> p.listen_type, id |-> p.id,
                           succeed |-> res])
  /\ Consume(c)
  /\ UNCHANGED <<agent_num_, dp_agents_, srv_agents, agent_id_,
                 packet_socket_, remote_pid_, cliVars>>

OnRemoveMessage(c) ==
  /\ Reads(c, "REMOVE_MESSAGE")
  /\ LET m == Head(c2s[c]).method
     IN /\ RemoveAgentBindMethod(m, agent_id_[c])
        /\ method_map_' = [method_map_ EXCEPT ![c][m] = NotListening]
  /\ Consume(c)
  /\ UNCHANGED <<agent_num_, dp_agents_, srv_agents, agent_id_,
                 packet_socket_, remote_pid_, s2c, cliVars>>

Forwarded(type, id, msg) ==
  [type |-> type, method |-> msg.method, id |-> id, data |-> msg.data]

\* OnRequestMessage when no listener takes the method as a REQUEST: every
\* listener gets a copy and the server itself answers with their number.
OnRequestMessage_Broadcast(c) ==
  /\ Reads(c, "MESSAGE")
  /\ LET msg == Head(c2s[c])
         to == Listeners(c, msg)
         reply == [type |-> "REPLY", id |-> msg.id, data |-> NoCall,
                   result |-> Cardinality(to)]
     IN /\ \A a \in to : method_map_[a][msg.method] = "MESSAGE"
        /\ s2c' = [a \in Conn |->
                     IF a \in to THEN Append(s2c[a], Forwarded("MESSAGE", msg.id, msg))
                     ELSE IF a = c THEN Append(s2c[a], reply)
                     ELSE s2c[a]]
  /\ Consume(c)
  /\ UNCHANGED <<srvVars, cliVars>>

\* Mutant: the server answers a forwarded request too.
OnRequestMessage_Forward_answers(c) ==
  /\ Reads(c, "MESSAGE")
  /\ LET msg == Head(c2s[c])
         to == Listeners(c, msg)
     IN \E r \in {a \in to : method_map_[a][msg.method] = "REQUEST"} :
          s2c' = [s2c EXCEPT
                    ![r] = Append(@, Forwarded("REQUEST", ForwardId(c, msg), msg)),
                    ![c] = Append(@, [type |-> "REPLY", id |-> msg.id,
                                      data |-> NoCall, result |-> 1])]
  /\ Consume(c)
  /\ UNCHANGED <<srvVars, cliVars>>

\* OnRequestMessage when a listener takes it as a REQUEST: the walk over the
\* list stops there, the listeners met before it got a copy, and the answer is
\* left to the listener.
OnRequestMessage_Forward(c) ==
  /\ Reads(c, "MESSAGE")
  /\ LET msg == Head(c2s[c])
         to == Listeners(c, msg)
         requests == {a \in to : method_map_[a][msg.method] = "REQUEST"}
     IN \E r \in requests, met \in SUBSET (to \ requests) :
          s2c' = [a \in Conn |->
                    IF a = r
                    THEN Append(s2c[a], Forwarded("REQUEST", ForwardId(c, msg), msg))
                    ELSE IF a \in met
                    THEN Append(s2c[a], Forwarded("MESSAGE", msg.id, msg))
                    ELSE s2c[a]]
  /\ Consume(c)
  /\ UNCHANGED <<srvVars, cliVars>>

\* The reply goes to the agent whose id is in the high half, if it lives.
OnReplayMessage(c) ==
  /\ Reads(c, "REPLY")
  /\ LET p == Head(c2s[c])
     IN IF p.id.agent \in DOMAIN dp_agents_
        THEN SendMessage(dp_agents_[p.id.agent],
                         [type |-> "REPLY", id |-> OwnId(p.id.mid),
                          data |-> p.data, result |-> 1])
        ELSE UNCHANGED s2c
  /\ Consume(c)
  /\ UNCHANGED <<srvVars, cliVars>>

\* The peer is gone: DpServer drops the agent, then the agent closes itself.
\* Unread packets are lost.
OnSocketErrorEvent(c) ==
  /\ packet_socket_[c] = "open"
  /\ cli[c] = "down"
  /\ srv_agents' = srv_agents \ {c}
  /\ packet_socket_' = [packet_socket_ EXCEPT ![c] = "closed"]
  /\ RemoveAgent(agent_id_[c])
  /\ c2s' = [c2s EXCEPT ![c] = <<>>]
  /\ s2c' = [s2c EXCEPT ![c] = <<>>]
  /\ UNCHANGED <<agent_num_, agent_id_, method_map_, remote_pid_, cliVars>>

---------------------------------------------------------------------------
(* The clients.                                                            *)

Send(c, pkt) == c2s' = [c2s EXCEPT ![c] = Append(@, pkt)]

\* OnSocketConnectEvent publishes the socket: from here on every thread sends over it ...
Connect(c) ==
  /\ cli[c] = "idle"
  /\ cli' = [cli EXCEPT ![c] = "up"]
  /\ UNCHANGED <<srvVars, c2s, s2c, callVars, adding, confirmed, removed, todo, nameVars>>

\* ... and then sends the name, which other threads may have overtaken.
SetName(c) ==
  /\ cli[c] = "up"
  /\ c \notin named
  /\ named' = named \cup {c}
  /\ Send(c, [type |-> "SET_NAME", pid |-> PidOf[c]])
  /\ UNCHANGED <<srvVars, s2c, cli, callVars, adding, confirmed, removed, todo, early>>

NextId(c, use) ==
  /\ use \in Uses[c]
  /\ cli[c] = "up" /\ c \in named \cup Hasty
  /\ message_id_[c] < MaxSend[c]
  /\ message_id_' = [message_id_ EXCEPT ![c] = @ + 1]

\* ListenMessage blocks until it is answered or gives up; method_crit_ lets one at a time in.
SendListen(c, m, t) ==
  /\ NextId(c, "listen")
  /\ adding[c] = 0
  /\ adding' = [adding EXCEPT ![c] = message_id_[c] + 1]
  /\ Send(c, [type |-> "ADD_MESSAGE", method |-> m, listen_type |-> t,
              id |-> OwnId(message_id_[c] + 1)])
  /\ early' = IF c \in named THEN early ELSE early \cup {c}
  /\ UNCHANGED <<srvVars, s2c, cli, waiting, answered, confirmed, removed, todo, named>>

ListenTimeout(c) ==
  /\ cli[c] = "up"
  /\ adding[c] # 0
  /\ adding' = [adding EXCEPT ![c] = 0]
  /\ removed' = [removed EXCEPT ![c] = {}]
  /\ UNCHANGED <<srvVars, c2s, s2c, cli, callVars, confirmed, todo, nameVars>>

\* RemoveMessage takes dp_req_crit_, so it may run while a ListenMessage waits.
SendRemove(c, m) ==
  /\ NextId(c, "remove")
  /\ removed' = [removed EXCEPT ![c] = IF adding[c] = 0 THEN @ ELSE @ \cup {m}]
  /\ confirmed' = [confirmed EXCEPT ![c][m] = NotListening]
  /\ Send(c, [type |-> "REMOVE_MESSAGE", method |-> m])
  /\ UNCHANGED <<srvVars, s2c, cli, waiting, answered, adding, todo, nameVars>>

SendDpMessage(c, m) ==
  /\ NextId(c, "send")
  /\ waiting' = [waiting EXCEPT ![c] = @ \cup {message_id_[c] + 1}]
  /\ Send(c, [type |-> "MESSAGE", method |-> m, pid |-> PidOf[c],
              id |-> OwnId(message_id_[c] + 1),
              data |-> [conn |-> c, mid |-> message_id_[c] + 1]])
  /\ UNCHANGED <<srvVars, s2c, cli, answered, adding, confirmed, removed, todo, nameVars>>

\* Where the requests came from that are replied to over c: c itself, and the connections
\* of this process that broke, whose requests still wait in msg_proc_evs_.
RequestsFor(c) == {d \in Conn : d = c \/ (cli[d] = "down" /\ PidOf[d] = PidOf[c])}

\* SendDpReply turns the message into a REPLY, so a second reply is refused.
SendDpReply(c) ==
  /\ cli[c] = "up"
  /\ \E d \in RequestsFor(c) : \E r \in todo[d] :
       /\ todo' = [todo EXCEPT ![d] = @ \ {r}]
       /\ Send(c, [type |-> "REPLY", id |-> r.id, data |-> r.data])
  /\ UNCHANGED <<srvVars, s2c, cli, callVars, adding, confirmed, removed, nameVars>>

Receives(c, type) ==
  /\ cli[c] = "up"
  /\ s2c[c] # <<>>
  /\ Head(s2c[c]).type = type
  /\ s2c' = [s2c EXCEPT ![c] = Tail(@)]

OnAddReplayMessage(c) ==
  /\ Receives(c, "ADD_MESSAGE")
  /\ LET p == Head(s2c[c])
     IN IF p.id.mid = adding[c]
        THEN /\ adding' = [adding EXCEPT ![c] = 0]
             /\ removed' = [removed EXCEPT ![c] = {}]
             /\ confirmed' = IF p.succeed /\ p.method \notin removed[c]
                             THEN [confirmed EXCEPT ![c][p.method] = p.listen_type]
                             ELSE confirmed
        ELSE UNCHANGED <<adding, confirmed, removed>>
  /\ UNCHANGED <<srvVars, c2s, cli, callVars, todo, nameVars>>

OnReqReplayMessage(c) ==
  /\ Receives(c, "REPLY")
  /\ LET n == Head(s2c[c]).id.mid
     IN /\ waiting' = [waiting EXCEPT ![c] = @ \ {n}]
        /\ answered' = [answered EXCEPT ![c] = @ \cup {n}]
  /\ UNCHANGED <<srvVars, c2s, cli, message_id_, adding, confirmed, removed, todo, nameVars>>

OnBroadCastMessage(c) ==
  /\ Receives(c, "MESSAGE")
  /\ UNCHANGED <<srvVars, c2s, cliVars>>

\* A request is posted to the client's worker thread.
OnRequestMessage(c) ==
  /\ Receives(c, "REQUEST")
  /\ todo' = [todo EXCEPT ![c] =
                @ \cup {[id |-> Head(s2c[c]).id, data |-> Head(s2c[c]).data]}]
  /\ UNCHANGED <<srvVars, c2s, cli, callVars, adding, confirmed, removed, nameVars>>

\* The process dies or its connection breaks: request_map_ is cleared.  What was handed to
\* its worker stays there and is replied to over a later connection, if there is one.
Disconnect(c) ==
  /\ c \in Mortal
  /\ cli[c] = "up"
  /\ cli' = [cli EXCEPT ![c] = "down"]
  /\ waiting' = [waiting EXCEPT ![c] = {}]
  /\ adding' = [adding EXCEPT ![c] = 0]
  /\ removed' = [removed EXCEPT ![c] = {}]
  /\ confirmed' = [confirmed EXCEPT ![c] = [m \in Method |-> NotListening]]
  /\ UNCHANGED <<srvVars, c2s, s2c, message_id_, answered, todo, nameVars>>

---------------------------------------------------------------------------
ServerStep(c) ==
  \/ OnListenerAcceptEvent(c)
  \/ OnSetClientName(c)
  \/ OnListenMessage(c)
  \/ OnRemoveMessage(c)
  \/ OnRequestMessage_Broadcast(c)
  \/ OnRequestMessage_Forward(c)
  \/ OnReplayMessage(c)
  \/ OnSocketErrorEvent(c)

Reception(c) ==
  \/ OnAddReplayMessage(c)
  \/ OnReqReplayMessage(c)
  \/ OnBroadCastMessage(c)
  \/ OnRequestMessage(c)

ClientStep(c) ==
  \/ Connect(c)
  \/ SetName(c)
  \/ \E m \in Method, t \in ListenType : SendListen(c, m, t)
  \/ ListenTimeout(c)
  \/ \E m \in Method : SendRemove(c, m)
  \/ \E m \in Method : SendDpMessage(c, m)
  \/ SendDpReply(c)
  \/ Reception(c)
  \/ Disconnect(c)

Next == \E c \in Conn : ServerStep(c) \/ ClientStep(c)

Spec == Init /\ [][Next]_vars

\* The event threads of the server and of the clients keep running and the
\* application replies to the requests it is handed.
Fairness ==
  \A c \in Conn : /\ WF_vars(ServerStep(c))
                  /\ WF_vars(SetName(c))
                  /\ WF_vars(Reception(c))
                  /\ WF_vars(SendDpReply(c))

FairSpec == Spec /\ Fairness

---------------------------------------------------------------------------
(* Properties.                                                             *)

Packets(s) == {s[i] : i \in DOMAIN s}

\* The three registries agree: the manager's id map, the server's list and the
\* agents' sockets name the same agents, ids are never shared, and a method is
\* bound to exactly the live agents that listen to it.  RemoveAgent and
\* RemoveAgentBindMethod must leave no binding behind, or the bus would write
\* to a dead agent for ever.
RegistryConsistent ==
  /\ \A c \in Conn :
       packet_socket_[c] = "open" <=>
         /\ agent_id_[c] \in DOMAIN dp_agents_
         /\ dp_agents_[agent_id_[c]] = c
  /\ \A i \in DOMAIN dp_agents_ : agent_id_[dp_agents_[i]] = i
  /\ srv_agents = {c \in Conn : packet_socket_[c] = "open"}
  /\ \A m \in Method :
       method_agents_[m] = {c \in srv_agents : method_map_[c][m] # NotListening}

\* "A message's type agrees with its earlier registrations, and a REQUEST has
\* one listener" (OnListenMessage): over every history of ADD, REMOVE and
\* closing connections, including stale agents of dead peers.
RequestListenerUnique ==
  \A m \in Method : \A a, b \in method_agents_[m] :
    /\ method_map_[a][m] = method_map_[b][m]
    /\ method_map_[a][m] = "REQUEST" => a = b

\* What a client was told holds at the server: a client that got SUCCEED for
\* a method and has sent no REMOVE_MESSAGE of it since the ADD_MESSAGE that was
\* answered is the one the server binds, so no two live clients serve the same
\* REQUEST unawares.  (When RemoveMessage falls into a waiting ListenMessage
\* the server reads ADD and REMOVE, and ListenMessage returns success for a
\* method that is not bound: the two calls take different locks.)
ConfirmedIsBound ==
  \A c \in Conn, m \in Method :
    cli[c] = "up" /\ confirmed[c][m] # NotListening =>
      /\ c \in method_agents_[m]
      /\ method_map_[c][m] = confirmed[c][m]

\* The reply a connection is handed answers one of its own calls, under the
\* id that call has: the agent id packed into the high half of the message
\* id leads the reply back to the sender.
RepliesGoHome ==
  \A c \in Conn : \A p \in Packets(s2c[c]) :
    p.type = "REPLY" /\ p.data # NoCall => p.data = [conn |-> c, mid |-> p.id.mid]

\* A call is answered at most once, by the server or by the one listener.
AtMostOneAnswer ==
  \A c \in Conn : \A i \in DOMAIN s2c[c] :
    s2c[c][i].type = "REPLY" =>
      /\ s2c[c][i].id.mid \notin answered[c]
      /\ \A j \in DOMAIN s2c[c] :
           s2c[c][j].type = "REPLY" /\ s2c[c][j].id = s2c[c][i].id => i = j

\* "Messages sent by process A are not returned to A" (dpagent.h): not by the
\* connection that sent them, and by another connection of the same process
\* only if a thread of its client listened over the socket between its
\* publication and SET_NAME: that agent is bound while remote_pid_ is still -1.
NoEcho ==
  \A c \in Conn : \A p \in Packets(s2c[c]) :
    p.type \in ListenType =>
      /\ p.data.conn # c
      /\ c \notin early => PidOf[p.data.conn] # PidOf[c]

\* A client stays bound to a method until its own REMOVE_MESSAGE is read or
\* its connection is lost: nothing another client does can unbind it.
UnboundOnlyByOwner ==
  [][\A c \in Conn, m \in Method :
       c \in method_agents_[m] /\ c \notin method_agents_[m]' =>
         \/ Reads(c, "REMOVE_MESSAGE") /\ Head(c2s[c]).method = m
         \/ cli[c] = "down"]_vars

\* Every call is answered unless some client goes away: the request, the
\* forwarded request and the reply are never dropped inside the server.
CallsAnswered ==
  \A c \in Conn : \A n \in 1..MaxSend[c] :
    n \in waiting[c] ~> n \in answered[c] \/ \E d \in Conn : cli[d] = "down"

\* An agent whose peer is gone is eventually forgotten everywhere.
DeadAgentsForgotten ==
  \A c \in Conn :
    cli[c] = "down" ~> c \notin srv_agents /\ \A m \in Method : c \notin method_agents_[m]
=============================================================================
