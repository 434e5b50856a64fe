------------------------ MODULE DpBrokerCalls_proof ------------------------
(***************************************************************************)
(* What a client of the DP broker may rely on, for every set of            *)
(* connections and methods: a method it was told it serves stays its own   *)
(* until it removes it, and a call it made is answered at most once.       *)
(***************************************************************************)
EXTENDS DpBrokerFlow_proof

---------------------------------------------------------------------------
(* Bindings.                                                               *)

BoundTo(c, m, t) == c \in method_agents_[m] /\ method_map_[c][m] = t

\* The one lemma on what a step may do to a binding.
LEMMA BindingStep ==
  ASSUME TypeOK, RegistryInv, [Next]_vars,
         NEW a \in Conn, NEW m \in Method, a \in method_agents_[m]
  PROVE  \/ a \in method_agents_'[m] /\ method_map_'[a][m] = method_map_[a][m]
         \/ OnRemoveMessage(a) /\ Head(c2s[a]).method = m
         \/ OnSocketErrorEvent(a)
<1> DEFINE Kept == a \in method_agents_'[m] /\ method_map_'[a][m] = method_map_[a][m]
<1>0. a \in srv_agents /\ packet_socket_[a] = "open" /\ method_map_[a][m] # NotListening
  BY DEF RegistryInv, RegistryConsistent
<1>1. CASE UNCHANGED <<method_agents_, method_map_>>
  BY <1>1
<1>2. ASSUME NEW c \in Conn, OnListenMessage(c) PROVE Kept
  <2> DEFINE p == Head(c2s[c])
  <2>1. p.method \in Method /\ p.listen_type \in ListenType
    BY <1>2, ReadType DEF OnListenMessage, Reads
  <2>2. CASE ~CheckMessage(p.method, p.listen_type)
    BY <1>2, <2>2 DEF OnListenMessage
  <2>3. CASE CheckMessage(p.method, p.listen_type)
    <3>1. /\ method_map_' = [method_map_ EXCEPT ![c][p.method] = p.listen_type]
          /\ AddAgentBindMethod(p.method, agent_id_[c])
      BY <1>2, <2>3 DEF OnListenMessage
    <3>2. a \in method_agents_'[m]
      BY <2>1, <3>1 DEF AddAgentBindMethod, TypeOK
    <3>3. a \in LiveAgents
      BY <1>0 DEF LiveAgents, RegistryInv, RegistryConsistent
    <3>4. a = c /\ m = p.method => method_map_[a][m] = p.listen_type
      BY <1>0, <2>3, <3>3 DEF CheckMessage
    <3>5. method_map_'[a][m] = method_map_[a][m]
      BY <2>1, <3>1, <3>4 DEF TypeOK
    <3>6. QED
      BY <3>2, <3>5
  <2>4. QED
    BY <2>2, <2>3
<1>3. ASSUME NEW c \in Conn, OnRemoveMessage(c), ~(c = a /\ Head(c2s[c]).method = m)
      PROVE Kept
  <2> DEFINE m0 == Head(c2s[c]).method
  <2>1. m0 \in Method /\ packet_socket_[c] = "open"
    BY <1>3, ReadType DEF OnRemoveMessage, Reads
  <2>2. /\ RemoveAgentBindMethod(m0, agent_id_[c])
        /\ method_map_' = [method_map_ EXCEPT ![c][m0] = NotListening]
    BY <1>3 DEF OnRemoveMessage
  <2>3. method_map_'[a][m] = method_map_[a][m]
    BY <1>3, <2>1, <2>2 DEF TypeOK
  <2>4. agent_id_[a] # 0 /\ (agent_id_[a] = agent_id_[c] => a = c)
    BY <1>0 DEF RegistryInv, AgentsNumbered
  <2>5. a \in method_agents_'[m]
    BY <1>3, <2>1, <2>2, <2>4 DEF RemoveAgentBindMethod, TypeOK
  <2>6. QED
    BY <2>3, <2>5
<1>4. ASSUME NEW c \in Conn, OnSocketErrorEvent(c), c # a PROVE Kept
  <2>1. RemoveAgent(agent_id_[c]) /\ method_map_' = method_map_
    BY <1>4 DEF OnSocketErrorEvent
  <2>2. agent_id_[a] # agent_id_[c]
    BY <1>0, <1>4 DEF RegistryInv, AgentsNumbered
  <2>3. QED
    BY <2>1, <2>2 DEF RemoveAgent
<1>5. CASE \E c \in Conn : OnListenerAcceptEvent(c) \/ OnSetClientName(c)
  BY <1>5, <1>1 DEF OnListenerAcceptEvent, OnSetClientName
<1>6. CASE \E c \in Conn : \/ OnRequestMessage_Broadcast(c) \/ OnRequestMessage_Forward(c)
                           \/ OnReplayMessage(c)
  BY <1>6, <1>1 DEF OnRequestMessage_Broadcast, OnRequestMessage_Forward, OnReplayMessage,
                    srvVars
<1>7. CASE \E c \in Conn : ClientStep(c)
  BY <1>7, <1>1 DEF ClientStep, Reception, Connect, SetName, SendListen, ListenTimeout, SendRemove,
                SendDpMessage, SendDpReply, OnAddReplayMessage, OnReqReplayMessage,
                OnBroadCastMessage, OnRequestMessage, Disconnect, srvVars
<1>8. CASE UNCHANGED vars
  BY <1>8, <1>1 DEF vars, srvVars
<1>9. QED
  BY <1>2, <1>3, <1>4, <1>5, <1>6, <1>7, <1>8, Zenon DEF Next, ServerStep

\* A client stays bound to a method until its own REMOVE_MESSAGE is read or its connection is
\* lost: RemoveAgent and RemoveAgentBindMethod, which compare agent ids, never take away the
\* binding of another client.
THEOREM OnlyOwnerUnbinds == Spec => UnboundOnlyByOwner
<1> DEFINE Step == \A c \in Conn, m \in Method :
                     c \in method_agents_[m] /\ c \notin method_agents_[m]' =>
                       \/ Reads(c, "REMOVE_MESSAGE") /\ Head(c2s[c]).method = m
                       \/ cli[c] = "down"
<1>1. TypeOK /\ RegistryInv /\ [Next]_vars => [Step]_vars
  BY BindingStep DEF OnRemoveMessage, OnSocketErrorEvent
<1>2. Spec => [][Step]_vars
  <2> HIDE DEF Step
  <2> QED BY <1>1, TypeCorrect, RegistryInvariant, PTL DEF Spec
<1>3. QED
  BY <1>2 DEF UnboundOnlyByOwner

---------------------------------------------------------------------------
(* What a client was told.  A SUCCEED that the client still waits for was   *)
(* sent after every REMOVE_MESSAGE of the client was read, except those of  *)
(* the methods it removed while it waits, because TCP keeps the order of    *)
(* ADD and REMOVE; an answer it no longer waits for has another id.         *)

\* In the queue s, nothing but R is removed after the ADD_MESSAGE with id n.
RemovesEarly(s, n, R) ==
  \A i, j \in DOMAIN s :
    /\ s[i].type = "ADD_MESSAGE" /\ s[i].id.mid = n
    /\ s[j].type = "REMOVE_MESSAGE" /\ s[j].method \notin R
    => j < i

AddIdsBelow(s, n) == \A p \in Packets(s) : p.type = "ADD_MESSAGE" => p.id.mid \in 1..n

ListenSound(c) ==
  /\ adding[c] <= message_id_[c]
  /\ cli[c] # "up" => adding[c] = 0 /\ \A m \in Method : confirmed[c][m] = NotListening
  /\ AddIdsBelow(c2s[c], message_id_[c]) /\ AddIdsBelow(s2c[c], message_id_[c])
  /\ RemovesEarly(c2s[c], adding[c], removed[c])
  /\ \A m \in Method : confirmed[c][m] # NotListening =>
       /\ BoundTo(c, m, confirmed[c][m])
       /\ \A q \in Packets(c2s[c]) : q.type = "REMOVE_MESSAGE" => q.method # m
  /\ \A p \in Packets(s2c[c]) : p.type = "ADD_MESSAGE" /\ p.id.mid = adding[c] =>
       /\ \A q \in Packets(c2s[c]) : q.type = "REMOVE_MESSAGE" => q.method \in removed[c]
       /\ p.succeed /\ p.method \notin removed[c] => BoundTo(c, p.method, p.listen_type)

ConfirmInv == \A c \in Conn : ListenSound(c)

LEMMA EarlyTail ==
  ASSUME NEW S, NEW s \in Seq(S), s # <<>>, NEW n, NEW R, RemovesEarly(s, n, R)
  PROVE  RemovesEarly(Tail(s), n, R)
<1>1. \A i \in DOMAIN Tail(s) : i \in Nat /\ i + 1 \in DOMAIN s /\ Tail(s)[i] = s[i + 1]
  OBVIOUS
<1>2. SUFFICES ASSUME NEW i \in DOMAIN Tail(s), NEW j \in DOMAIN Tail(s),
                      Tail(s)[i].type = "ADD_MESSAGE", Tail(s)[i].id.mid = n,
                      Tail(s)[j].type = "REMOVE_MESSAGE", Tail(s)[j].method \notin R
               PROVE  j < i
  BY DEF RemovesEarly
<1>3. j + 1 < i + 1
  BY <1>1, <1>2 DEF RemovesEarly
<1>4. QED
  BY <1>1, <1>3

LEMMA EarlyAppend ==
  ASSUME NEW S, NEW s \in Seq(S), NEW e \in S, NEW R,
         e.type # "REMOVE_MESSAGE" \/ e.method \in R, NEW n, RemovesEarly(s, n, R)
  PROVE  RemovesEarly(Append(s, e), n, R)
<1>1. \A i \in DOMAIN Append(s, e) : i \in 1..(Len(s) + 1)
  OBVIOUS
<1>2. \A i \in 1..Len(s) : i \in DOMAIN s /\ Append(s, e)[i] = s[i]
  OBVIOUS
<1>3. Append(s, e)[Len(s) + 1] = e /\ Len(s) \in Nat
  OBVIOUS
<1>4. SUFFICES ASSUME NEW i \in 1..(Len(s) + 1), NEW j \in 1..(Len(s) + 1),
                      Append(s, e)[i].type = "ADD_MESSAGE", Append(s, e)[i].id.mid = n,
                      Append(s, e)[j].type = "REMOVE_MESSAGE",
                      Append(s, e)[j].method \notin R
               PROVE  j < i
  BY <1>1 DEF RemovesEarly
<1>5. j \in 1..Len(s)
  BY <1>3, <1>4
<1>6. CASE i \in 1..Len(s)
  BY <1>2, <1>4, <1>5, <1>6 DEF RemovesEarly
<1>7. CASE i \notin 1..Len(s)
  BY <1>3, <1>5, <1>7
<1>8. QED
  BY <1>6, <1>7

\* An empty queue says nothing.
LEMMA NothingEarly == \A n, R : RemovesEarly(<<>>, n, R)
BY DEF RemovesEarly

\* The head of a queue whose ADD_MESSAGE n comes after every REMOVE_MESSAGE but those of R:
\* when it is that ADD_MESSAGE, nothing else is left to remove.
LEMMA EarlyHead ==
  ASSUME NEW S, NEW s \in Seq(S), s # <<>>, NEW n, NEW R, RemovesEarly(s, n, R),
         Head(s).type = "ADD_MESSAGE", Head(s).id.mid = n
  PROVE  \A q \in Packets(s) : q.type = "REMOVE_MESSAGE" => q.method \in R
<1>1. 1 \in DOMAIN s /\ s[1] = Head(s) /\ \A j \in DOMAIN s : j \in Nat /\ ~(j < 1)
  OBVIOUS
<1>2. QED
  BY <1>1 DEF RemovesEarly, Packets

LEMMA ConfirmInit == Init => ConfirmInv
<1> SUFFICES ASSUME Init, NEW c \in Conn PROVE ListenSound(c)
  BY DEF ConfirmInv
<1>1. c2s[c] = <<>> /\ s2c[c] = <<>> /\ Packets(<<>>) = {}
  BY DEF Init, Packets
<1>2. adding[c] = 0 /\ message_id_[c] = 0 /\ \A m \in Method : confirmed[c][m] = NotListening
  BY DEF Init
<1>3. QED
  BY <1>1, <1>2, NothingEarly DEF ListenSound, AddIdsBelow

\* A step that leaves connection c's listening alone: at most it reads a packet of c's that
\* removes nothing, sends c something else than an answer to ADD_MESSAGE, or c gives up.
LEMMA SoundKept ==
  ASSUME TypeOK, TypeOK', NEW c \in Conn, ListenSound(c),
         adding'[c] \in {adding[c], 0}, removed'[c] = removed[c] \/ adding'[c] = 0,
         message_id_'[c] >= message_id_[c],
         cli'[c] # "up" => cli[c] # "up" \/
            (adding'[c] = 0 /\ \A m \in Method : confirmed'[c][m] = NotListening),
         \A m \in Method : confirmed'[c][m] \in {confirmed[c][m], NotListening},
         \A p \in Packets(c2s'[c]) :
           p \in Packets(c2s[c]) \/ p.type \notin {"ADD_MESSAGE", "REMOVE_MESSAGE"},
         \A n, R : RemovesEarly(c2s[c], n, R) => RemovesEarly(c2s'[c], n, R),
         \A p \in Packets(s2c'[c]) : p \in Packets(s2c[c]) \/ p.type # "ADD_MESSAGE",
         \A m \in Method, t \in ListenType : BoundTo(c, m, t) => BoundTo(c, m, t)'
  PROVE  ListenSound(c)'
<1>1. /\ adding[c] \in Nat /\ message_id_[c] \in Nat /\ message_id_'[c] \in Nat
      /\ \A m \in Method : confirmed[c][m] \in ListenType \cup {NotListening}
  BY DEF TypeOK
<1>2. \A p \in Packets(s2c[c]) : p \in ToClient
  BY PacketsType DEF TypeOK
<1>3. \A p \in Packets(s2c[c]) : p.type = "ADD_MESSAGE" =>
        p.method \in Method /\ p.listen_type \in ListenType
  BY <1>2 DEF ToClient, ListenType
<1>4. (adding[c] <= message_id_[c])'
  BY <1>1 DEF ListenSound
<1>5. AddIdsBelow(c2s[c], message_id_[c])' /\ AddIdsBelow(s2c[c], message_id_[c])'
  BY <1>1 DEF ListenSound, AddIdsBelow, Packets
<1>6. RemovesEarly(c2s[c], adding[c], removed[c])'
  <2>1. CASE adding'[c] = adding[c] /\ removed'[c] = removed[c]
    <3>1. RemovesEarly(c2s'[c], adding[c], removed[c])
      BY DEF ListenSound
    <3>2. QED
      BY <2>1, <3>1 DEF RemovesEarly
  <2>2. CASE adding'[c] = 0
    <3>1. \A i \in DOMAIN c2s'[c] : c2s'[c][i].type = "ADD_MESSAGE" => c2s'[c][i].id.mid # 0
      BY <1>1, <1>5 DEF AddIdsBelow, Packets
    <3>2. QED
      BY <2>2, <3>1 DEF RemovesEarly
  <2>3. QED
    BY <2>1, <2>2
<1>7. \A m \in Method : confirmed'[c][m] # NotListening =>
        /\ BoundTo(c, m, confirmed[c][m])'
        /\ \A q \in Packets(c2s'[c]) : q.type = "REMOVE_MESSAGE" => q.method # m
  <2> SUFFICES ASSUME NEW m \in Method, confirmed'[c][m] # NotListening
               PROVE  /\ BoundTo(c, m, confirmed[c][m])'
                      /\ \A q \in Packets(c2s'[c]) : q.type = "REMOVE_MESSAGE" => q.method # m
    OBVIOUS
  <2>1. confirmed'[c][m] = confirmed[c][m] /\ confirmed[c][m] \in ListenType
    BY <1>1
  <2>2. /\ BoundTo(c, m, confirmed[c][m])
        /\ \A q \in Packets(c2s[c]) : q.type = "REMOVE_MESSAGE" => q.method # m
    BY <2>1 DEF ListenSound
  <2>3. BoundTo(c, m, confirmed[c][m])'
    <3>1. ASSUME NEW t \in ListenType, t = confirmed[c][m] PROVE BoundTo(c, m, t)'
      BY <2>2, <3>1
    <3>2. QED
      BY <2>1, <3>1 DEF BoundTo
  <2>4. QED
    BY <2>2, <2>3
<1>8. \A p \in Packets(s2c'[c]) : p.type = "ADD_MESSAGE" /\ p.id.mid = adding'[c] =>
        /\ \A q \in Packets(c2s'[c]) : q.type = "REMOVE_MESSAGE" => q.method \in removed'[c]
        /\ p.succeed /\ p.method \notin removed'[c] => BoundTo(c, p.method, p.listen_type)'
  <2> SUFFICES ASSUME NEW p \in Packets(s2c'[c]), p.type = "ADD_MESSAGE", p.id.mid = adding'[c]
               PROVE  /\ \A q \in Packets(c2s'[c]) :
                           q.type = "REMOVE_MESSAGE" => q.method \in removed'[c]
                      /\ p.succeed /\ p.method \notin removed'[c] =>
                           BoundTo(c, p.method, p.listen_type)'
    OBVIOUS
  <2>1. p \in Packets(s2c[c])
    OBVIOUS
  <2>2. p.id.mid \in 1..message_id_[c]
    BY <2>1 DEF ListenSound, AddIdsBelow
  <2>3. adding'[c] = adding[c] /\ removed'[c] = removed[c]
    BY <1>1, <2>2
  <2>4. /\ \A q \in Packets(c2s[c]) : q.type = "REMOVE_MESSAGE" => q.method \in removed[c]
        /\ p.succeed /\ p.method \notin removed[c] => BoundTo(c, p.method, p.listen_type)
    BY <2>1, <2>3 DEF ListenSound
  <2>5. QED
    BY <1>3, <2>1, <2>3, <2>4 DEF BoundTo
<1>9. cli'[c] # "up" =>
        adding'[c] = 0 /\ \A m \in Method : confirmed'[c][m] = NotListening
  BY DEF ListenSound
<1>10. QED
  BY <1>4, <1>5, <1>6, <1>7, <1>8, <1>9 DEF ListenSound, BoundTo, Packets

\* Only OnListenMessage answers an ADD_MESSAGE.
LEMMA ServerSends ==
  ASSUME TypeOK, NEW c \in Conn, ServerStep(c), ~OnListenMessage(c), NEW d \in Conn
  PROVE  \A p \in Packets(s2c'[d]) : p \in Packets(s2c[d]) \/ p.type # "ADD_MESSAGE"
<1>0. s2c[d] \in Seq(ToClient) /\ s2c \in [Conn -> Seq(ToClient)]
  BY DEF TypeOK
<1>1. ASSUME NEW e, e.type # "ADD_MESSAGE", s2c'[d] = Append(s2c[d], e)
      PROVE  \A p \in Packets(s2c'[d]) : p \in Packets(s2c[d]) \/ p.type # "ADD_MESSAGE"
  BY <1>0, <1>1, PacketsAppend
<1>2. CASE s2c'[d] = s2c[d] \/ s2c'[d] = <<>>
  BY <1>2 DEF Packets
<1>3. CASE OnRequestMessage_Broadcast(c)
  <2> DEFINE msg == Head(c2s[c])
             reply == [type |-> "REPLY", id |-> msg.id, data |-> NoCall,
                       result |-> Cardinality(Listeners(c, msg))]
             copy == Forwarded("MESSAGE", msg.id, msg)
  <2>1. \/ s2c'[d] = s2c[d] \/ s2c'[d] = Append(s2c[d], copy)
        \/ s2c'[d] = Append(s2c[d], reply)
    BY <1>3 DEF OnRequestMessage_Broadcast
  <2>2. copy.type = "MESSAGE" /\ reply.type = "REPLY"
    BY DEF Forwarded
  <2> HIDE DEF copy, reply
  <2>3. QED
    BY <1>1, <1>2, <2>1, <2>2
<1>4. CASE OnRequestMessage_Forward(c)
  <2> DEFINE msg == Head(c2s[c])
             request == Forwarded("REQUEST", ForwardId(c, msg), msg)
             copy == Forwarded("MESSAGE", msg.id, msg)
  <2>1. \/ s2c'[d] = s2c[d] \/ s2c'[d] = Append(s2c[d], copy)
        \/ s2c'[d] = Append(s2c[d], request)
    BY <1>4 DEF OnRequestMessage_Forward
  <2>2. copy.type = "MESSAGE" /\ request.type = "REQUEST"
    BY DEF Forwarded
  <2> HIDE DEF copy, request
  <2>3. QED
    BY <1>1, <1>2, <2>1, <2>2
<1>5. CASE OnReplayMessage(c)
  <2> DEFINE p == Head(c2s[c])
             q == [type |-> "REPLY", id |-> OwnId(p.id.mid), data |-> p.data, result |-> 1]
  <2>1. s2c'[d] = s2c[d] \/ s2c'[d] = Append(s2c[d], q)
    BY <1>0, <1>5 DEF OnReplayMessage, SendMessage
  <2>2. q.type = "REPLY"
    OBVIOUS
  <2> HIDE DEF q
  <2>3. QED
    BY <1>1, <1>2, <2>1, <2>2
<1>6. CASE OnSocketErrorEvent(c)
  BY <1>0, <1>2, <1>6 DEF OnSocketErrorEvent
<1>7. CASE OnListenerAcceptEvent(c) \/ OnSetClientName(c) \/ OnRemoveMessage(c)
  BY <1>2, <1>7 DEF OnListenerAcceptEvent, OnSetClientName, OnRemoveMessage
<1>8. QED
  BY <1>3, <1>4, <1>5, <1>6, <1>7 DEF ServerStep

\* What a server step reads: nothing, or the head of one queue; or it empties one.
LEMMA ServerReads ==
  ASSUME TypeOK, NEW c \in Conn, ServerStep(c), NEW d \in Conn
  PROVE  /\ \/ c2s'[d] = c2s[d]
            \/ d = c /\ c2s[d] # <<>> /\ c2s'[d] = Tail(c2s[d])
            \/ c2s'[d] = <<>>
         /\ UNCHANGED cliVars
<1>1. c2s \in [Conn -> Seq(ToServer)]
  BY DEF TypeOK
<1>2. QED
  BY <1>1 DEF ServerStep, OnListenerAcceptEvent, OnSetClientName, OnListenMessage,
       OnRemoveMessage, OnRequestMessage_Broadcast, OnRequestMessage_Forward, OnReplayMessage,
       OnSocketErrorEvent, Consume, Reads

\* A queue that lost its head, or everything.
LEMMA ShorterQueue ==
  ASSUME NEW S, NEW s \in Seq(S), NEW t,
         t = s \/ (s # <<>> /\ t = Tail(s)) \/ t = <<>>
  PROVE  /\ Packets(t) \subseteq Packets(s)
         /\ \A n, R : RemovesEarly(s, n, R) => RemovesEarly(t, n, R)
<1>1. CASE t = s
  BY <1>1
<1>2. CASE s # <<>> /\ t = Tail(s)
  BY <1>2, PacketsTail, EarlyTail
<1>3. CASE t = <<>>
  BY <1>3, NothingEarly DEF Packets
<1>4. QED
  BY <1>1, <1>2, <1>3

LEMMA ConfirmServer ==
  ASSUME TypeOK, TypeOK', RegistryInv, RegistryInv', ConfirmInv, NEW c \in Conn, ServerStep(c),
         NEW a \in Conn
  PROVE  ListenSound(a)'
<1>0. ListenSound(a) /\ [Next]_vars /\ c2s[a] \in Seq(ToServer) /\ s2c[a] \in Seq(ToClient)
  BY DEF ConfirmInv, Next, TypeOK
<1>1. /\ UNCHANGED cliVars
      /\ Packets(c2s'[a]) \subseteq Packets(c2s[a])
      /\ \A n, R : RemovesEarly(c2s[a], n, R) => RemovesEarly(c2s'[a], n, R)
  <2>1. c2s'[a] = c2s[a] \/ (c2s[a] # <<>> /\ c2s'[a] = Tail(c2s[a])) \/ c2s'[a] = <<>>
    BY ServerReads
  <2>2. QED
    BY <1>0, <2>1, ServerReads, ShorterQueue
<1>2. /\ cli'[a] = cli[a] /\ adding'[a] = adding[a] /\ message_id_'[a] = message_id_[a]
      /\ confirmed'[a] = confirmed[a] /\ removed'[a] = removed[a]
      /\ message_id_[a] \in Nat /\ adding[a] \in Nat
  BY <1>1 DEF cliVars, nameVars, callVars, TypeOK
<1>a. /\ (adding[a] <= message_id_[a])'
      /\ (cli[a] # "up" => adding[a] = 0 /\ \A m \in Method : confirmed[a][m] = NotListening)'
      /\ AddIdsBelow(c2s[a], message_id_[a])'
      /\ RemovesEarly(c2s[a], adding[a], removed[a])'
  <2>1. RemovesEarly(c2s'[a], adding[a], removed[a]) /\ AddIdsBelow(c2s'[a], message_id_[a])
    BY <1>0, <1>1 DEF ListenSound, AddIdsBelow
  <2>2. QED
    BY <1>0, <1>2, <2>1 DEF ListenSound, AddIdsBelow, RemovesEarly, Packets
<1>3. ASSUME \A m \in Method, t \in ListenType : BoundTo(a, m, t) => BoundTo(a, m, t)',
             \A p \in Packets(s2c'[a]) : p \in Packets(s2c[a]) \/ p.type # "ADD_MESSAGE"
      PROVE  ListenSound(a)'
  BY <1>0, <1>1, <1>2, <1>3, SoundKept
<1>4. CASE OnSocketErrorEvent(a)
  <2>1. cli[a] = "down" /\ c2s'[a] = <<>> /\ s2c'[a] = <<>>
    BY <1>4 DEF OnSocketErrorEvent, TypeOK
  <2>2. adding[a] = 0 /\ \A m \in Method : confirmed[a][m] = NotListening
    BY <1>0, <2>1 DEF ListenSound
  <2>3. Packets(<<>>) = {}
    BY DEF Packets
  <2>4. QED
    BY <1>2, <2>1, <2>2, <2>3, NothingEarly DEF ListenSound, AddIdsBelow
<1>5. CASE OnRemoveMessage(a)
  <2> DEFINE q0 == Head(c2s[a])
  <2>1. q0 \in Packets(c2s[a]) /\ q0.type = "REMOVE_MESSAGE" /\ q0.method \in Method
    BY <1>0, <1>5, PacketsTail, ReadType DEF OnRemoveMessage, Reads
  <2>2. confirmed[a][q0.method] = NotListening
    BY <1>0, <2>1 DEF ListenSound
  <2>3. \A p \in Packets(s2c[a]) : p.type = "ADD_MESSAGE" /\ p.id.mid = adding[a] =>
          /\ q0.method \in removed[a]
          /\ \A q \in Packets(c2s[a]) : q.type = "REMOVE_MESSAGE" => q.method \in removed[a]
          /\ p.succeed /\ p.method \notin removed[a] => BoundTo(a, p.method, p.listen_type)
    BY <1>0, <2>1 DEF ListenSound
  <2>4. s2c'[a] = s2c[a]
    BY <1>5 DEF OnRemoveMessage
  <2>5. \A m \in Method : m # q0.method =>
          \A t \in ListenType : BoundTo(a, m, t) => BoundTo(a, m, t)'
    <3> SUFFICES ASSUME NEW m \in Method, m # q0.method, a \in method_agents_[m]
                 PROVE  a \in method_agents_'[m] /\ method_map_'[a][m] = method_map_[a][m]
      BY DEF BoundTo
    <3>1. ~OnSocketErrorEvent(a)
      BY <1>5 DEF OnSocketErrorEvent, OnRemoveMessage, TypeOK
    <3>2. QED
      BY <1>0, <3>1, BindingStep
  <2>6. \A m \in Method : confirmed[a][m] # NotListening =>
          /\ BoundTo(a, m, confirmed[a][m])'
          /\ \A q \in Packets(c2s'[a]) : q.type = "REMOVE_MESSAGE" => q.method # m
    <3> SUFFICES ASSUME NEW m \in Method, confirmed[a][m] # NotListening
                 PROVE  /\ BoundTo(a, m, confirmed[a][m])'
                        /\ \A q \in Packets(c2s'[a]) : q.type = "REMOVE_MESSAGE" => q.method # m
      OBVIOUS
    <3>1. m # q0.method /\ confirmed[a][m] \in ListenType
      <4>1. m # q0.method
        BY <2>2
      <4>2. QED
        BY <4>1 DEF TypeOK
    <3>2. /\ BoundTo(a, m, confirmed[a][m])
          /\ \A q \in Packets(c2s[a]) : q.type = "REMOVE_MESSAGE" => q.method # m
      BY <1>0 DEF ListenSound
    <3>3. ASSUME NEW t \in ListenType, t = confirmed[a][m] PROVE BoundTo(a, m, t)'
      BY <2>5, <3>1, <3>2, <3>3
    <3>4. QED
      BY <1>1, <1>2, <3>1, <3>2, <3>3 DEF BoundTo
  <2>7. AddIdsBelow(s2c[a], message_id_[a])'
    BY <1>0, <1>2, <2>4 DEF ListenSound, AddIdsBelow, Packets
  <2>8. \A p \in Packets(s2c'[a]) : p.type = "ADD_MESSAGE" /\ p.id.mid = adding[a] =>
          /\ \A q \in Packets(c2s'[a]) : q.type = "REMOVE_MESSAGE" => q.method \in removed[a]
          /\ p.succeed /\ p.method \notin removed[a] => BoundTo(a, p.method, p.listen_type)'
    <3> SUFFICES ASSUME NEW p \in Packets(s2c[a]), p.type = "ADD_MESSAGE", p.id.mid = adding[a]
                 PROVE  /\ \A q \in Packets(c2s'[a]) :
                             q.type = "REMOVE_MESSAGE" => q.method \in removed[a]
                        /\ p.succeed /\ p.method \notin removed[a] =>
                             BoundTo(a, p.method, p.listen_type)'
      BY <2>4
    <3>1. p \in ToClient
      BY <1>0, PacketsType
    <3>2. p.method \in Method /\ p.listen_type \in ListenType
      BY <3>1 DEF ToClient, ListenType
    <3>3. \A q \in Packets(c2s'[a]) : q.type = "REMOVE_MESSAGE" => q.method \in removed[a]
      BY <1>1, <2>3
    <3>4. ASSUME p.succeed, p.method \notin removed[a] PROVE BoundTo(a, p.method, p.listen_type)'
      <4>1. BoundTo(a, p.method, p.listen_type) /\ p.method # q0.method
        BY <2>3, <3>4
      <4>2. QED
        BY <2>5, <3>2, <4>1
    <3>5. QED
      BY <3>3, <3>4
  <2>9. QED
    BY <1>a, <1>2, <2>6, <2>7, <2>8 DEF ListenSound, Packets, BoundTo
<1>6. ASSUME ~OnSocketErrorEvent(a), ~OnRemoveMessage(a)
      PROVE  \A m \in Method, t \in ListenType : BoundTo(a, m, t) => BoundTo(a, m, t)'
  <2> SUFFICES ASSUME NEW m \in Method, a \in method_agents_[m]
               PROVE  a \in method_agents_'[m] /\ method_map_'[a][m] = method_map_[a][m]
    BY DEF BoundTo
  <2> QED BY <1>0, <1>6, BindingStep
<1>7. CASE ~OnSocketErrorEvent(a) /\ ~OnRemoveMessage(a) /\ ~OnListenMessage(c)
  BY <1>3, <1>6, <1>7, ServerSends
<1>8. CASE ~OnSocketErrorEvent(a) /\ ~OnRemoveMessage(a) /\ OnListenMessage(c) /\ c # a
  <2>1. s2c'[a] = s2c[a]
    BY <1>8 DEF OnListenMessage, SendMessage, TypeOK
  <2>2. QED
    BY <1>3, <1>6, <1>8, <2>1
<1>9. CASE OnListenMessage(a)
  <2> DEFINE p0 == Head(c2s[a])
             res == CheckMessage(p0.method, p0.listen_type)
             q0 == [type |-> "ADD_MESSAGE", method |-> p0.method,
                    listen_type |-> p0.listen_type, id |-> p0.id, succeed |-> res]
  <2>1. /\ c2s[a] # <<>> /\ p0 \in Packets(c2s[a]) /\ p0.type = "ADD_MESSAGE"
        /\ p0.method \in Method /\ p0.listen_type \in ListenType
        /\ packet_socket_[a] = "open"
    BY <1>0, <1>9, PacketsTail, ReadType DEF OnListenMessage, Reads
  <2>2. p0.id.mid \in 1..message_id_[a]
    BY <1>0, <2>1 DEF ListenSound, AddIdsBelow
  <2>3. SendMessage(a, q0)
    BY <1>9 DEF OnListenMessage
  <2>4. \A p \in Packets(s2c'[a]) : p \in Packets(s2c[a]) \/ p = q0
    <3> HIDE DEF q0
    <3> QED BY <2>3, SendMessageKept
  <2>5. \A m, t : res /\ m = p0.method /\ t = p0.listen_type => BoundTo(a, m, t)'
    <3> SUFFICES ASSUME res
                 PROVE  a \in method_agents_'[p0.method] /\ method_map_'[a][p0.method] = p0.listen_type
      BY DEF BoundTo
    <3>1. /\ method_map_' = [method_map_ EXCEPT ![a][p0.method] = p0.listen_type]
          /\ AddAgentBindMethod(p0.method, agent_id_[a])
      BY <1>9 DEF OnListenMessage
    <3>2. agent_id_[a] \in DOMAIN dp_agents_ /\ dp_agents_[agent_id_[a]] = a
      BY <2>1 DEF RegistryInv, RegistryConsistent
    <3> HIDE DEF p0
    <3>3. a \in method_agents_'[p0.method]
      BY <2>1, <3>1, <3>2 DEF AddAgentBindMethod, TypeOK
    <3>4. method_map_'[a][p0.method] = p0.listen_type
      <4>1. a \in DOMAIN method_map_ /\ p0.method \in DOMAIN method_map_[a]
        BY <2>1 DEF TypeOK
      <4>2. QED
        BY <3>1, <4>1
    <3>5. QED
      BY <3>3, <3>4
  <2>6. p0.id.mid = adding[a] =>
          \A q \in Packets(c2s[a]) : q.type = "REMOVE_MESSAGE" => q.method \in removed[a]
    BY <1>0, <2>1, EarlyHead DEF ListenSound
  <2>7. \A m \in Method, t \in ListenType : BoundTo(a, m, t) => BoundTo(a, m, t)'
    <3>1. ~OnSocketErrorEvent(a) /\ ~OnRemoveMessage(a)
      BY <1>9 DEF OnListenMessage, OnSocketErrorEvent, OnRemoveMessage, Reads, TypeOK
    <3>2. QED
      BY <1>6, <3>1
  <2>8. AddIdsBelow(s2c'[a], message_id_[a])
    BY <1>0, <2>2, <2>4 DEF AddIdsBelow, ListenSound
  <2>9. \A p \in Packets(s2c'[a]) : p.type = "ADD_MESSAGE" /\ p.id.mid = adding[a] =>
          /\ \A q \in Packets(c2s'[a]) : q.type = "REMOVE_MESSAGE" => q.method \in removed[a]
          /\ p.succeed /\ p.method \notin removed[a] => BoundTo(a, p.method, p.listen_type)'
    <3> SUFFICES ASSUME NEW p \in Packets(s2c'[a]), p.type = "ADD_MESSAGE", p.id.mid = adding[a]
                 PROVE  /\ \A q \in Packets(c2s'[a]) :
                             q.type = "REMOVE_MESSAGE" => q.method \in removed[a]
                        /\ p.succeed /\ p.method \notin removed[a] =>
                             BoundTo(a, p.method, p.listen_type)'
      OBVIOUS
    <3>1. CASE p \in Packets(s2c[a])
      <4>1. p \in ToClient
        BY <1>0, <3>1, PacketsType
      <4>2. p.method \in Method /\ p.listen_type \in ListenType
        BY <4>1 DEF ToClient, ListenType
      <4>3. /\ \A q \in Packets(c2s[a]) : q.type = "REMOVE_MESSAGE" => q.method \in removed[a]
            /\ p.succeed /\ p.method \notin removed[a] => BoundTo(a, p.method, p.listen_type)
        BY <1>0, <3>1 DEF ListenSound
      <4>4. QED
        BY <1>1, <2>7, <4>2, <4>3
    <3>2. CASE p = q0
      <4>1. p.method = p0.method /\ p.listen_type = p0.listen_type /\ p.id = p0.id /\ p.succeed = res
        BY <3>2
      <4>2. \A q \in Packets(c2s'[a]) : q.type = "REMOVE_MESSAGE" => q.method \in removed[a]
        BY <1>1, <2>6, <4>1
      <4>3. p.succeed => BoundTo(a, p.method, p.listen_type)'
        BY <2>5, <4>1
      <4>4. QED
        BY <4>2, <4>3
    <3>3. QED
      BY <2>4, <3>1, <3>2
  <2>10. \A m \in Method : confirmed[a][m] # NotListening =>
          /\ BoundTo(a, m, confirmed[a][m])'
          /\ \A q \in Packets(c2s'[a]) : q.type = "REMOVE_MESSAGE" => q.method # m
    <3> SUFFICES ASSUME NEW m \in Method, confirmed[a][m] # NotListening
                 PROVE  /\ BoundTo(a, m, confirmed[a][m])'
                        /\ \A q \in Packets(c2s'[a]) : q.type = "REMOVE_MESSAGE" => q.method # m
      OBVIOUS
    <3>1. confirmed[a][m] \in ListenType
      BY DEF TypeOK
    <3>2. /\ BoundTo(a, m, confirmed[a][m])
          /\ \A q \in Packets(c2s[a]) : q.type = "REMOVE_MESSAGE" => q.method # m
      BY <1>0 DEF ListenSound
    <3>3. ASSUME NEW t \in ListenType, t = confirmed[a][m] PROVE BoundTo(a, m, t)'
      BY <2>7, <3>2, <3>3
    <3>4. QED
      BY <1>1, <1>2, <3>1, <3>2, <3>3 DEF BoundTo
  <2>11. QED
    BY <1>a, <1>2, <2>8, <2>9, <2>10 DEF ListenSound, AddIdsBelow, Packets, BoundTo
<1>10. QED
  BY <1>4, <1>5, <1>7, <1>8, <1>9

\* A client sends a packet about something else than listening.
LEMMA SoundSend ==
  ASSUME TypeOK, TypeOK', NEW c \in Conn, ListenSound(c), 
         UNCHANGED <<srvVars, s2c, adding, confirmed, removed>>,
         message_id_'[c] >= message_id_[c], cli'[c] = "up",
         NEW e \in ToServer, Send(c, e), e.type \notin {"ADD_MESSAGE", "REMOVE_MESSAGE"}
  PROVE  ListenSound(c)'
<1>1. c2s[c] \in Seq(ToServer) /\ c2s'[c] = Append(c2s[c], e)
  BY DEF TypeOK, Send
<1>2. \A p \in Packets(c2s'[c]) : p \in Packets(c2s[c]) \/ p = e
  BY <1>1, PacketsAppend
<1>3. \A n, R : RemovesEarly(c2s[c], n, R) => RemovesEarly(c2s'[c], n, R)
  BY <1>1, EarlyAppend
<1>4. \A m \in Method, t \in ListenType : BoundTo(c, m, t) => BoundTo(c, m, t)'
  BY DEF BoundTo, srvVars
<1>5. QED
  BY <1>2, <1>3, <1>4, SoundKept

\* A client that sends nothing: it receives, or gives up.
LEMMA SoundQuiet ==
  ASSUME TypeOK, TypeOK', NEW c \in Conn, ListenSound(c), UNCHANGED <<srvVars, c2s>>,
         adding'[c] \in {adding[c], 0}, removed'[c] = removed[c] \/ adding'[c] = 0,
         message_id_'[c] = message_id_[c],
         cli'[c] # "up" => cli[c] # "up" \/
            (adding'[c] = 0 /\ \A m \in Method : confirmed'[c][m] = NotListening),
         \A m \in Method : confirmed'[c][m] \in {confirmed[c][m], NotListening},
         \A p \in Packets(s2c'[c]) : p \in Packets(s2c[c])
  PROVE  ListenSound(c)'
<1>1. \A m \in Method, t \in ListenType : BoundTo(c, m, t) => BoundTo(c, m, t)'
  BY DEF BoundTo, srvVars
<1>2. message_id_[c] \in Nat
  BY DEF TypeOK
<1>3. QED
  BY <1>1, <1>2, SoundKept

LEMMA SoundSendListen ==
  ASSUME TypeOK, TypeOK', NEW c \in Conn, ListenSound(c),
         NEW m \in Method, NEW t \in ListenType, SendListen(c, m, t)
  PROVE  ListenSound(c)'
<1> DEFINE n == message_id_[c] + 1
           e == [type |-> "ADD_MESSAGE", method |-> m, listen_type |-> t, id |-> OwnId(n)]
<1>1. /\ c2s[c] \in Seq(ToServer) /\ c2s'[c] = Append(c2s[c], e)
      /\ message_id_[c] \in Nat /\ message_id_'[c] = n /\ adding'[c] = n
      /\ UNCHANGED <<srvVars, s2c, cli, confirmed, removed>> /\ cli[c] = "up"
  BY DEF TypeOK, SendListen, NextId, Send
<1>2. e \in ToServer /\ e.type = "ADD_MESSAGE" /\ e.id.mid = n
  <2>1. OwnId(n) \in MsgId /\ OwnId(n).mid = n
    BY <1>1 DEF OwnId, MsgId
  <2>2. QED
    BY <2>1 DEF ToServer
<1> HIDE DEF e
<1>3. \A p \in Packets(c2s'[c]) : p \in Packets(c2s[c]) \/ p = e
  BY <1>1, PacketsAppend
<1>4. RemovesEarly(c2s[c], n, removed[c])
  <2>1. \A i \in DOMAIN c2s[c] : c2s[c][i].type = "ADD_MESSAGE" => c2s[c][i].id.mid # n
    BY <1>1 DEF ListenSound, AddIdsBelow, Packets
  <2>2. QED
    BY <2>1 DEF RemovesEarly
<1>5. RemovesEarly(c2s[c], adding[c], removed[c])'
  <2>1. RemovesEarly(c2s'[c], n, removed[c])
    BY <1>1, <1>2, <1>4, EarlyAppend
  <2>2. QED
    BY <1>1, <2>1 DEF RemovesEarly
<1>6. AddIdsBelow(c2s[c], message_id_[c])' /\ AddIdsBelow(s2c[c], message_id_[c])'
  BY <1>1, <1>2, <1>3 DEF ListenSound, AddIdsBelow, Packets
<1>7. \A p \in Packets(s2c'[c]) : ~(p.type = "ADD_MESSAGE" /\ p.id.mid = adding'[c])
  BY <1>1 DEF ListenSound, AddIdsBelow, Packets
<1>8. \A k \in Method : confirmed'[c][k] # NotListening =>
        /\ BoundTo(c, k, confirmed[c][k])'
        /\ \A q \in Packets(c2s'[c]) : q.type = "REMOVE_MESSAGE" => q.method # k
  BY <1>1, <1>2, <1>3 DEF ListenSound, BoundTo, srvVars
<1>9. QED
  BY <1>1, <1>5, <1>6, <1>7, <1>8 DEF ListenSound, BoundTo, Packets

LEMMA SoundSendRemove ==
  ASSUME TypeOK, TypeOK', NEW c \in Conn, ListenSound(c), NEW m \in Method, SendRemove(c, m)
  PROVE  ListenSound(c)'
<1> DEFINE e == [type |-> "REMOVE_MESSAGE", method |-> m]
<1>1. /\ c2s[c] \in Seq(ToServer) /\ c2s'[c] = Append(c2s[c], e)
      /\ message_id_[c] \in Nat /\ message_id_'[c] = message_id_[c] + 1
      /\ adding[c] \in Nat /\ adding'[c] = adding[c] /\ cli'[c] = "up"
      /\ UNCHANGED <<srvVars, s2c>>
  BY DEF TypeOK, SendRemove, NextId, Send
<1>2. confirmed'[c][m] = NotListening /\ \A k \in Method : k # m => confirmed'[c][k] = confirmed[c][k]
  BY DEF TypeOK, SendRemove
<1>r. adding[c] # 0 => removed'[c] = removed[c] \cup {m}
  BY DEF TypeOK, SendRemove
<1>3. e \in ToServer /\ e.type = "REMOVE_MESSAGE" /\ e.method = m
  BY DEF ToServer
<1> HIDE DEF e
<1>4. \A p \in Packets(c2s'[c]) : p \in Packets(c2s[c]) \/ p = e
  BY <1>1, PacketsAppend
<1>5. AddIdsBelow(c2s[c], message_id_[c])' /\ AddIdsBelow(s2c[c], message_id_[c])'
  BY <1>1, <1>3, <1>4 DEF ListenSound, AddIdsBelow, Packets
<1>6. RemovesEarly(c2s[c], adding[c], removed[c])'
  <2>1. CASE adding[c] = 0
    <3>1. \A i \in DOMAIN c2s'[c] : c2s'[c][i].type = "ADD_MESSAGE" => c2s'[c][i].id.mid # 0
      <4>1. message_id_'[c] \in Nat
        BY DEF TypeOK
      <4>2. QED
        BY <1>5, <4>1 DEF AddIdsBelow, Packets
    <3>2. QED
      BY <1>1, <2>1, <3>1 DEF RemovesEarly
  <2>2. CASE adding[c] # 0
    <3> DEFINE R == removed[c] \cup {m}
    <3>1. RemovesEarly(c2s[c], adding[c], R) /\ m \in R
      BY DEF ListenSound, RemovesEarly
    <3>r. removed'[c] = R
      BY <1>r, <2>2
    <3> HIDE DEF R
    <3>2. RemovesEarly(Append(c2s[c], e), adding[c], R)
      BY <1>1, <1>3, <3>1, EarlyAppend
    <3>3. QED
      BY <1>1, <3>r, <3>2 DEF RemovesEarly
  <2>3. QED
    BY <2>1, <2>2
<1>7. \A p \in Packets(s2c'[c]) : p.type = "ADD_MESSAGE" /\ p.id.mid = adding'[c] =>
        /\ \A q \in Packets(c2s'[c]) : q.type = "REMOVE_MESSAGE" => q.method \in removed'[c]
        /\ p.succeed /\ p.method \notin removed'[c] => BoundTo(c, p.method, p.listen_type)'
  <2> SUFFICES ASSUME NEW p \in Packets(s2c[c]), p.type = "ADD_MESSAGE", p.id.mid = adding[c]
               PROVE  /\ \A q \in Packets(c2s'[c]) :
                           q.type = "REMOVE_MESSAGE" => q.method \in removed'[c]
                      /\ p.succeed /\ p.method \notin removed'[c] =>
                           BoundTo(c, p.method, p.listen_type)'
    BY <1>1
  <2>1. adding[c] # 0
    BY <1>1 DEF ListenSound, AddIdsBelow
  <2>2. /\ \A q \in Packets(c2s[c]) : q.type = "REMOVE_MESSAGE" => q.method \in removed[c]
        /\ p.succeed /\ p.method \notin removed[c] => BoundTo(c, p.method, p.listen_type)
    BY DEF ListenSound
  <2>3. QED
    BY <1>1, <1>r, <1>3, <1>4, <2>1, <2>2 DEF BoundTo, srvVars
<1>8. \A k \in Method : confirmed'[c][k] # NotListening =>
        /\ BoundTo(c, k, confirmed[c][k])'
        /\ \A q \in Packets(c2s'[c]) : q.type = "REMOVE_MESSAGE" => q.method # k
  BY <1>1, <1>2, <1>3, <1>4 DEF ListenSound, BoundTo, srvVars
<1>9. adding'[c] <= message_id_'[c]
  BY <1>1 DEF ListenSound
<1>10. QED
  BY <1>1, <1>5, <1>6, <1>7, <1>8, <1>9 DEF ListenSound, BoundTo, Packets

LEMMA SoundAnswer ==
  ASSUME TypeOK, TypeOK', NEW c \in Conn, ListenSound(c), OnAddReplayMessage(c)
  PROVE  ListenSound(c)'
<1> DEFINE p0 == Head(s2c[c])
<1>1. /\ Receives(c, "ADD_MESSAGE") /\ UNCHANGED <<srvVars, c2s, cli, message_id_>>
      /\ cli[c] = "up" /\ message_id_[c] \in Nat
  BY DEF OnAddReplayMessage, callVars, Receives, TypeOK
<1>2. /\ \A p \in Packets(s2c'[c]) : p \in Packets(s2c[c])
      /\ p0 \in Packets(s2c[c]) /\ p0.type = "ADD_MESSAGE" /\ p0 \in ToClient
  BY <1>1, ReceivesKept, ReceiveType
<1>3. p0.method \in Method /\ p0.listen_type \in ListenType
  BY <1>2 DEF ToClient, ListenType
<1>4. CASE ~(p0.id.mid = adding[c] /\ p0.succeed /\ p0.method \notin removed[c])
  <2>1. /\ adding'[c] \in {adding[c], 0} /\ confirmed' = confirmed
        /\ removed'[c] = removed[c] \/ adding'[c] = 0
    BY <1>4 DEF OnAddReplayMessage, TypeOK
  <2>2. QED
    BY <1>1, <1>2, <2>1, SoundQuiet
<1>5. CASE p0.id.mid = adding[c] /\ p0.succeed /\ p0.method \notin removed[c]
  <2>1. /\ adding' = [adding EXCEPT ![c] = 0]
        /\ confirmed' = [confirmed EXCEPT ![c][p0.method] = p0.listen_type]
    BY <1>5 DEF OnAddReplayMessage
  <2>2. /\ \A q \in Packets(c2s[c]) : q.type = "REMOVE_MESSAGE" => q.method # p0.method
        /\ BoundTo(c, p0.method, p0.listen_type)
    BY <1>2, <1>5 DEF ListenSound
  <2> HIDE DEF p0
  <2>3. adding'[c] = 0
    BY <2>1 DEF TypeOK
  <2>4. /\ confirmed'[c][p0.method] = p0.listen_type
        /\ \A k \in Method : k # p0.method => confirmed'[c][k] = confirmed[c][k]
    <3>1. c \in DOMAIN confirmed /\ p0.method \in DOMAIN confirmed[c] /\ DOMAIN confirmed[c] = Method
      BY <1>3 DEF TypeOK
    <3>2. QED
      BY <2>1, <3>1
  <2>5. AddIdsBelow(c2s[c], message_id_[c])' /\ AddIdsBelow(s2c[c], message_id_[c])'
    BY <1>1, <1>2 DEF ListenSound, AddIdsBelow, Packets
  <2>6. RemovesEarly(c2s[c], adding[c], removed[c])'
    <3>1. \A i \in DOMAIN c2s'[c] : c2s'[c][i].type = "ADD_MESSAGE" => c2s'[c][i].id.mid # 0
      <4>1. message_id_'[c] \in Nat
        BY DEF TypeOK
      <4>2. QED
        BY <2>5, <4>1 DEF AddIdsBelow, Packets
    <3>2. QED
      BY <2>3, <3>1 DEF RemovesEarly
  <2>7. \A p \in Packets(s2c'[c]) : ~(p.type = "ADD_MESSAGE" /\ p.id.mid = adding'[c])
    BY <1>1, <1>2, <2>3 DEF ListenSound, AddIdsBelow
  <2>8. \A k \in Method : confirmed'[c][k] # NotListening =>
          /\ BoundTo(c, k, confirmed[c][k])'
          /\ \A q \in Packets(c2s'[c]) : q.type = "REMOVE_MESSAGE" => q.method # k
    BY <1>1, <2>2, <2>4 DEF ListenSound, BoundTo, srvVars
  <2>9. QED
    BY <1>1, <2>3, <2>5, <2>6, <2>7, <2>8 DEF ListenSound, BoundTo, Packets
<1>6. QED
  BY <1>4, <1>5

LEMMA ConfirmClient ==
  ASSUME TypeOK, TypeOK', ConfirmInv, NEW c \in Conn, ClientStep(c), NEW a \in Conn
  PROVE  ListenSound(a)'
<1>0. ListenSound(a) /\ ListenSound(c)
  BY DEF ConfirmInv
<1>1. CASE a # c
  <2>1. /\ UNCHANGED srvVars /\ c2s'[a] = c2s[a] /\ s2c'[a] = s2c[a] /\ cli'[a] = cli[a]
        /\ message_id_'[a] = message_id_[a] /\ adding'[a] = adding[a]
        /\ confirmed'[a] = confirmed[a] /\ removed'[a] = removed[a]
    <3> USE <1>1 DEF TypeOK
    <3>1. CASE Connect(c) \/ SetName(c)
      BY <3>1 DEF Connect, SetName, Send, callVars
    <3>2. CASE \E m \in Method, t \in ListenType : SendListen(c, m, t)
      BY <3>2 DEF SendListen, NextId, Send
    <3>3. CASE ListenTimeout(c)
      BY <3>3 DEF ListenTimeout, callVars
    <3>4. CASE \E m \in Method : SendRemove(c, m)
      BY <3>4 DEF SendRemove, NextId, Send
    <3>5. CASE \E m \in Method : SendDpMessage(c, m)
      BY <3>5 DEF SendDpMessage, NextId, Send
    <3>6. CASE SendDpReply(c)
      BY <3>6 DEF SendDpReply, Send, callVars
    <3>7. CASE OnAddReplayMessage(c)
      <4>1. s2c'[a] = s2c[a]
        BY <3>7 DEF OnAddReplayMessage, Receives
      <4>2. adding'[a] = adding[a]
        BY <3>7 DEF OnAddReplayMessage
      <4>4. removed'[a] = removed[a]
        BY <3>7 DEF OnAddReplayMessage
      <4>5. confirmed'[a] = confirmed[a]
        <5>1. \/ confirmed' = confirmed
              \/ \E m, t : confirmed' = [confirmed EXCEPT ![c][m] = t]
          BY <3>7 DEF OnAddReplayMessage
        <5>2. QED
          BY <5>1
      <4>3. QED
        BY <3>7, <4>1, <4>2, <4>4, <4>5 DEF OnAddReplayMessage, callVars
    <3>8. CASE OnReqReplayMessage(c)
      BY <3>8 DEF OnReqReplayMessage, Receives
    <3>9. CASE OnBroadCastMessage(c) \/ OnRequestMessage(c)
      BY <3>9 DEF OnBroadCastMessage, OnRequestMessage, Receives, callVars, cliVars
    <3>10. CASE Disconnect(c)
      BY <3>10 DEF Disconnect
    <3>11. QED
      BY <3>1, <3>2, <3>3, <3>4, <3>5, <3>6, <3>7, <3>8, <3>9, <3>10 DEF ClientStep, Reception
  <2>2. QED
    BY <1>0, <2>1 DEF ListenSound, BoundTo, srvVars, AddIdsBelow, RemovesEarly, Packets
<1>2. CASE SetName(c)
  <2> DEFINE e == [type |-> "SET_NAME", pid |-> PidOf[c]]
  <2>1. e \in ToServer /\ e.type = "SET_NAME" /\ Send(c, e)
    BY <1>2, PidAssumption DEF ToServer, SetName
  <2>2. /\ UNCHANGED <<srvVars, s2c, adding, confirmed, removed, message_id_>> /\ cli'[c] = "up"
        /\ message_id_[c] \in Nat
    BY <1>2 DEF SetName, callVars, TypeOK
  <2> HIDE DEF e
  <2>3. QED
    BY <1>0, <1>1, <2>1, <2>2, SoundSend
<1>2a. CASE Connect(c)
  <2>1. /\ UNCHANGED <<srvVars, c2s, s2c, message_id_, adding, confirmed, removed>>
        /\ cli'[c] = "up"
    BY <1>2a DEF Connect, callVars, TypeOK
  <2>2. QED
    BY <1>0, <1>1, <2>1, SoundQuiet
<1>3. CASE \E m \in Method, t \in ListenType : SendListen(c, m, t)
  BY <1>0, <1>1, <1>3, SoundSendListen
<1>4. CASE \E m \in Method : SendRemove(c, m)
  BY <1>0, <1>1, <1>4, SoundSendRemove
<1>5. CASE \E m \in Method : SendDpMessage(c, m)
  <2>1. PICK m \in Method : SendDpMessage(c, m)
    BY <1>5
  <2> DEFINE n == message_id_[c] + 1
             e == [type |-> "MESSAGE", method |-> m, pid |-> PidOf[c],
                   id |-> OwnId(n), data |-> [conn |-> c, mid |-> n]]
  <2>2. OwnId(n) \in MsgId /\ [conn |-> c, mid |-> n] \in Call /\ n >= message_id_[c]
    <3>1. message_id_[c] \in Nat
      BY DEF TypeOK
    <3>2. QED
      BY <3>1 DEF OwnId, MsgId, Call
  <2>3. e \in ToServer /\ e.type = "MESSAGE" /\ Send(c, e)
    BY <2>1, <2>2, PidAssumption DEF ToServer, SendDpMessage
  <2>4. /\ UNCHANGED <<srvVars, s2c, adding, confirmed, removed>> /\ cli'[c] = "up"
        /\ message_id_'[c] = n
    BY <2>1 DEF SendDpMessage, NextId, TypeOK
  <2> HIDE DEF e
  <2>5. QED
    BY <1>0, <1>1, <2>2, <2>3, <2>4, SoundSend
<1>6. CASE SendDpReply(c)
  <2>0. PICK d \in Conn : \E r \in todo[d] :
          Send(c, [type |-> "REPLY", id |-> r.id, data |-> r.data])
    BY <1>6 DEF SendDpReply, RequestsFor
  <2>1. PICK r \in todo[d] : Send(c, [type |-> "REPLY", id |-> r.id, data |-> r.data])
    BY <2>0
  <2> DEFINE e == [type |-> "REPLY", id |-> r.id, data |-> r.data]
  <2>2. r.id \in MsgId /\ r.data \in Call
    <3>1. todo[d] \in SUBSET [id : MsgId, data : Call]
      BY DEF TypeOK
    <3>2. QED
      BY <3>1
  <2>3. e \in ToServer /\ e.type = "REPLY"
    BY <2>2 DEF ToServer
  <2>4. /\ UNCHANGED <<srvVars, s2c, adding, confirmed, removed, message_id_>>
        /\ cli'[c] = "up" /\ message_id_[c] \in Nat
    BY <1>6 DEF SendDpReply, callVars, TypeOK
  <2>5. Send(c, e)
    BY <2>1
  <2> HIDE DEF e
  <2>6. QED
    BY <1>0, <1>1, <2>3, <2>4, <2>5, SoundSend
<1>7. CASE OnAddReplayMessage(c)
  BY <1>0, <1>1, <1>7, SoundAnswer
<1>8. CASE OnReqReplayMessage(c) \/ OnBroadCastMessage(c) \/ OnRequestMessage(c)
  <2>1. /\ UNCHANGED <<srvVars, c2s, cli, message_id_, adding, confirmed, removed>>
        /\ \A p \in Packets(s2c'[c]) : p \in Packets(s2c[c])
    BY <1>8, ReceivesKept DEF OnReqReplayMessage, OnBroadCastMessage, OnRequestMessage, cliVars,
                              callVars
  <2>2. QED
    BY <1>0, <1>1, <2>1, SoundQuiet
<1>9. CASE ListenTimeout(c)
  <2>1. UNCHANGED <<srvVars, c2s, s2c, cli, message_id_, confirmed>> /\ adding'[c] = 0
    BY <1>9 DEF ListenTimeout, callVars, TypeOK
  <2>2. QED
    BY <1>0, <1>1, <2>1, SoundQuiet
<1>10. CASE Disconnect(c)
  <2>1. /\ UNCHANGED <<srvVars, c2s, s2c, message_id_>> /\ adding'[c] = 0
        /\ \A m \in Method : confirmed'[c][m] = NotListening
    BY <1>10 DEF Disconnect, TypeOK
  <2>2. QED
    BY <1>0, <1>1, <2>1, SoundQuiet
<1>11. QED
  BY <1>2, <1>2a, <1>3, <1>4, <1>5, <1>6, <1>7, <1>8, <1>9, <1>10 DEF ClientStep, Reception

LEMMA ConfirmNext ==
  ASSUME TypeOK, RegistryInv, ConfirmInv, [Next]_vars
  PROVE  ConfirmInv'
<1>1. CASE UNCHANGED vars
  BY <1>1 DEF vars, srvVars, cliVars, nameVars, callVars, ConfirmInv, ListenSound, BoundTo, AddIdsBelow,
              RemovesEarly, Packets
<1>2. ASSUME NEW c \in Conn, ServerStep(c) PROVE ConfirmInv'
  <2>1. TypeOK' /\ RegistryInv'
    BY <1>2, ServerType, RegistryNext
  <2>2. QED
    BY <1>2, <2>1, ConfirmServer DEF ConfirmInv
<1>3. ASSUME NEW c \in Conn, ClientStep(c) PROVE ConfirmInv'
  BY <1>3, ClientType, ConfirmClient DEF ConfirmInv
<1>4. QED
  BY <1>1, <1>2, <1>3 DEF Next

\* A client that was told SUCCEED for a method, and has sent no REMOVE_MESSAGE of it since the
\* ADD_MESSAGE that was answered (not while ListenMessage waited either), is the one the broker
\* binds, under the type it asked for: whatever the timing of late answers, repeated
\* registrations, removals of other methods and lost connections.
THEOREM ConfirmedAlwaysBound == Spec => []ConfirmedIsBound
<1>1. TypeOK /\ RegistryInv /\ ConfirmInv /\ [Next]_vars => ConfirmInv'
  BY ConfirmNext
<1>2. ConfirmInv => ConfirmedIsBound
  BY DEF ConfirmInv, ListenSound, BoundTo, ConfirmedIsBound
<1>3. QED
  BY <1>1, <1>2, ConfirmInit, TypeCorrect, RegistryInvariant, PTL DEF Spec

---------------------------------------------------------------------------
(* One answer.  A call is in one place at a time: in the MESSAGE on its way *)
(* to the broker, in the REQUEST it became, in the hands of the handler, in *)
(* a REPLY on either leg of its way back, or answered.  Every handler that  *)
(* takes it out of one place puts it into at most one other.                *)

Asks(p, k) == p.type \in {"MESSAGE", "REPLY"} /\ p.data = k

Hands(d, p, k) ==
  \/ p.type = "REQUEST" /\ p.data = k
  \/ p.type = "REPLY" /\ k = [conn |-> d, mid |-> p.id.mid]

InC2S(s, x, k) == x \in DOMAIN s /\ Asks(s[x], k)
InS2C(s, d, x, k) == x \in DOMAIN s /\ Hands(d, s[x], k)

Where == {"c2s", "s2c", "todo", "answered"}

\* Call k is at place x of what connection d has of kind w.
At(k, w, d, x) ==
  \/ w = "c2s" /\ InC2S(c2s[d], x, k)
  \/ w = "s2c" /\ InS2C(s2c[d], d, x, k)
  \/ w = "todo" /\ x \in todo[d] /\ x.data = k
  \/ w = "answered" /\ d = k.conn /\ x = 0 /\ k.mid \in answered[d]

Once(k) ==
  \A w, v \in Where, d, e \in Conn : \A x, y :
    At(k, w, d, x) /\ At(k, v, e, y) => w = v /\ d = e /\ x = y

\* A call has an id its connection has used.
Numbered(k) ==
  \A w \in Where, d \in Conn : \A x : At(k, w, d, x) => k.mid <= message_id_[k.conn]

CallInv == agent_num_ < IdMod => \A k \in Call : Once(k) /\ Numbered(k)

---------------------------------------------------------------------------
LEMMA InTail ==
  ASSUME NEW S, NEW s \in Seq(S), s # <<>>, NEW d, NEW k, NEW x
  PROVE  /\ InC2S(Tail(s), x, k) => InC2S(s, x + 1, k)
         /\ InS2C(Tail(s), d, x, k) => InS2C(s, d, x + 1, k)
<1>1. x \in DOMAIN Tail(s) => x + 1 \in DOMAIN s /\ Tail(s)[x] = s[x + 1]
  OBVIOUS
<1>2. QED
  BY <1>1 DEF InC2S, InS2C

LEMMA InAppend ==
  ASSUME NEW S, NEW s \in Seq(S), NEW e, NEW d, NEW k, NEW x
  PROVE  /\ InC2S(Append(s, e), x, k) =>
              InC2S(s, x, k) \/ (x = Len(s) + 1 /\ Asks(e, k))
         /\ InS2C(Append(s, e), d, x, k) =>
              InS2C(s, d, x, k) \/ (x = Len(s) + 1 /\ Hands(d, e, k))
<1>1. x \in DOMAIN Append(s, e) =>
        \/ x \in DOMAIN s /\ Append(s, e)[x] = s[x]
        \/ x = Len(s) + 1 /\ Append(s, e)[x] = e
  OBVIOUS
<1>2. QED
  BY <1>1 DEF InC2S, InS2C

LEMMA InNothing ==
  ASSUME NEW d, NEW k, NEW x
  PROVE  ~InC2S(<<>>, x, k) /\ ~InS2C(<<>>, d, x, k)
BY DEF InC2S, InS2C

\* The steps on a call: it stays where it is while queue pw of pd moves up by one, ...
Shifts(k, pw, pd) ==
  /\ \A d \in Conn : \A x : InC2S(c2s'[d], x, k) =>
       InC2S(c2s[d], IF pw = "c2s" /\ d = pd THEN x + 1 ELSE x, k)
  /\ \A d \in Conn : \A x : InS2C(s2c'[d], d, x, k) =>
       InS2C(s2c[d], d, IF pw = "s2c" /\ d = pd THEN x + 1 ELSE x, k)
  /\ \A d \in Conn : \A x \in todo'[d] : x.data = k => x \in todo[d]
  /\ k.mid \in answered'[k.conn] => k.mid \in answered[k.conn]

\* ... or it moves from the place (gw, gd, gx) to the place (nw, nd, nx), or disappears.
Moves(k, gw, gd, gx, nw, nd, nx) ==
  /\ At(k, gw, gd, gx)
  /\ \A w \in Where, d \in Conn : \A x : At(k, w, d, x)' =>
       \/ w = nw /\ d = nd /\ x = nx
       \/ \E y : At(k, w, d, y) /\ ~(w = gw /\ d = gd /\ y = gx)

IdsGrow == \A c \in Conn : message_id_'[c] >= message_id_[c]

LEMMA CallShifted ==
  ASSUME TypeOK, TypeOK', NEW k \in Call, Once(k), Numbered(k),
         IdsGrow, NEW pw, NEW pd, Shifts(k, pw, pd)
  PROVE  Once(k)' /\ Numbered(k)'
<1> DEFINE Was(w, d, x) == IF w = pw /\ w \in {"c2s", "s2c"} /\ d = pd THEN x + 1 ELSE x
<1>1. \A w \in Where, d \in Conn : \A x : At(k, w, d, x)' => At(k, w, d, Was(w, d, x))
  BY DEF At, Where, Shifts
<1>2. \A w \in Where, d \in Conn : \A x :
        At(k, w, d, x)' /\ w \in {"c2s", "s2c"} => x \in Nat
  <2>1. \A d \in Conn : c2s'[d] \in Seq(ToServer) /\ s2c'[d] \in Seq(ToClient)
    BY DEF TypeOK
  <2>2. \A d \in Conn : \A x : x \in DOMAIN c2s'[d] \/ x \in DOMAIN s2c'[d] => x \in Nat
    BY <2>1
  <2>3. QED
    BY <2>2 DEF At, InC2S, InS2C
<1> SUFFICES ASSUME NEW w \in Where, NEW d \in Conn, NEW x, At(k, w, d, x)'
             PROVE  /\ \A v \in Where, e \in Conn : \A y :
                         At(k, v, e, y)' => w = v /\ d = e /\ x = y
                    /\ (k.mid <= message_id_[k.conn])'
  BY DEF Once, Numbered
<1>3. k.conn \in Conn /\ k.mid \in Nat
  BY DEF Call
<1>4. (k.mid <= message_id_[k.conn])'
  <2>1. k.mid <= message_id_[k.conn]
    BY <1>1 DEF Numbered
  <2>2. message_id_[k.conn] \in Nat /\ message_id_'[k.conn] \in Nat
    BY <1>3 DEF TypeOK
  <2>3. QED
    BY <1>3, <2>1, <2>2 DEF IdsGrow
<1>5. ASSUME NEW v \in Where, NEW e \in Conn, NEW y, At(k, v, e, y)'
      PROVE  w = v /\ d = e /\ x = y
  <2>1. w = v /\ d = e /\ Was(w, d, x) = Was(v, e, y)
    BY <1>1, <1>5 DEF Once
  <2>2. QED
    BY <1>2, <1>5, <2>1
<1>6. QED
  BY <1>4, <1>5

LEMMA CallMoved ==
  ASSUME TypeOK, TypeOK', NEW k \in Call, Once(k), Numbered(k),
         IdsGrow, NEW gw \in Where, NEW gd \in Conn, NEW gx, NEW nw, NEW nd, NEW nx,
         Moves(k, gw, gd, gx, nw, nd, nx)
  PROVE  Once(k)' /\ Numbered(k)'
<1>1. \A w \in Where, d \in Conn : \A x : At(k, w, d, x)' => w = nw /\ d = nd /\ x = nx
  BY DEF Once, Moves
<1>2. k.mid <= message_id_[k.conn]
  BY DEF Numbered, Moves
<1>3. k.conn \in Conn /\ k.mid \in Nat
  BY DEF Call
<1>4. (k.mid <= message_id_[k.conn])'
  <2>1. message_id_[k.conn] \in Nat /\ message_id_'[k.conn] \in Nat
    BY <1>3 DEF TypeOK
  <2>2. QED
    BY <1>2, <1>3, <2>1 DEF IdsGrow
<1>5. QED
  BY <1>1, <1>4 DEF Once, Numbered

\* A call that is made.
LEMMA CallNew ==
  ASSUME NEW k \in Call, NEW nw, NEW nd, NEW nx,
         \A w \in Where, d \in Conn : \A x : At(k, w, d, x)' => w = nw /\ d = nd /\ x = nx,
         (k.mid <= message_id_[k.conn])'
  PROVE  Once(k)' /\ Numbered(k)'
BY DEF Once, Numbered

\* What a server step puts into s2c: a MESSAGE or an answer to ADD_MESSAGE (e), which hand no
\* call to anyone, and at most one packet tok, to d0.
Sends(d0, tok, e) ==
  \A d \in Conn : \/ s2c'[d] = s2c[d] \/ s2c'[d] = Append(s2c[d], e)
                  \/ d = d0 /\ s2c'[d] = Append(s2c[d], tok)

\* The call is handed to nobody new but d0, and to d0 only in tok.
HandedTo(k, d0, tok) ==
  \A d \in Conn : \A x : InS2C(s2c'[d], d, x, k) =>
    \/ InS2C(s2c[d], d, x, k)
    \/ d = d0 /\ x = Len(s2c[d0]) + 1 /\ Hands(d, tok, k)

\* A server handler that reads the head of c2s[c] and may hand the call in it on to d0.
LEMMA CallRead ==
  ASSUME TypeOK, TypeOK', NEW k \in Call, Once(k), Numbered(k),
         NEW c \in Conn, c2s[c] # <<>>, Consume(c), UNCHANGED <<todo, answered, message_id_>>,
         NEW d0 \in Conn, NEW tok, HandedTo(k, d0, tok),
         Hands(d0, tok, k) => Asks(Head(c2s[c]), k)
  PROVE  Once(k)' /\ Numbered(k)'
<1>1. c2s[c] \in Seq(ToServer) /\ c2s'[c] = Tail(c2s[c]) /\ \A d \in Conn \ {c} : c2s'[d] = c2s[d]
  BY DEF Consume, TypeOK
<1>2. \A x : InC2S(c2s'[c], x, k) => InC2S(c2s[c], x + 1, k)
  BY <1>1, InTail
<1>3. \A d \in Conn \ {c} : \A x : InC2S(c2s'[d], x, k) => InC2S(c2s[d], x, k)
  BY <1>1
<1>4. IdsGrow
  <2>1. \A d \in Conn : message_id_[d] \in Nat
    BY DEF TypeOK
  <2>2. QED
    BY <2>1 DEF IdsGrow
<1>5. CASE Hands(d0, tok, k)
  <2>1. At(k, "c2s", c, 1)
    <3>1. 1 \in DOMAIN c2s[c] /\ c2s[c][1] = Head(c2s[c])
      BY <1>1
    <3>2. QED
      BY <1>5, <3>1 DEF At, InC2S
  <2>2. \A x : x \in DOMAIN c2s'[c] => x + 1 # 1
    BY <1>1
  <2>3. ASSUME NEW w \in Where, NEW d \in Conn, NEW x, At(k, w, d, x)'
        PROVE  \/ w = "s2c" /\ d = d0 /\ x = Len(s2c[d0]) + 1
               \/ \E y : At(k, w, d, y) /\ ~(w = "c2s" /\ d = c /\ y = 1)
    <3>1. CASE w = "c2s" /\ d = c
      <4>1. At(k, w, d, x + 1) /\ x + 1 # 1
        BY <1>2, <2>2, <2>3, <3>1 DEF At, InC2S
      <4>2. QED
        BY <4>1
    <3>2. CASE w = "c2s" /\ d # c
      BY <1>3, <2>3, <3>2 DEF At
    <3>3. CASE w = "s2c"
      BY <2>3, <3>3 DEF At, HandedTo
    <3>4. CASE w \in {"todo", "answered"}
      BY <2>3, <3>4 DEF At
    <3>5. QED
      BY <3>1, <3>2, <3>3, <3>4 DEF Where
  <2>4. Moves(k, "c2s", c, 1, "s2c", d0, Len(s2c[d0]) + 1)
    BY <2>1, <2>3 DEF Moves
  <2>5. "c2s" \in Where
    BY DEF Where
  <2>6. QED
    BY <1>4, <2>4, <2>5, CallMoved
<1>6. CASE ~Hands(d0, tok, k)
  <2>1. \A d \in Conn : \A x : InC2S(c2s'[d], x, k) =>
          InC2S(c2s[d], IF "c2s" = "c2s" /\ d = c THEN x + 1 ELSE x, k)
    BY <1>2, <1>3
  <2>2. \A d \in Conn : \A x : InS2C(s2c'[d], d, x, k) =>
          InS2C(s2c[d], d, IF "c2s" = "s2c" /\ d = c THEN x + 1 ELSE x, k)
    BY <1>6 DEF HandedTo
  <2>3. /\ \A d \in Conn : \A x \in todo'[d] : x.data = k => x \in todo[d]
        /\ k.mid \in answered'[k.conn] => k.mid \in answered[k.conn]
    OBVIOUS
  <2>4. Shifts(k, "c2s", c)
    BY <2>1, <2>2, <2>3, Zenon DEF Shifts
  <2>5. QED
    BY <1>4, <2>4, CallShifted
<1>7. QED
  BY <1>5, <1>6

LEMMA CallSent ==
  ASSUME TypeOK, NEW k, NEW d0 \in Conn, NEW tok, NEW e, e.type \in {"MESSAGE", "ADD_MESSAGE"},
         Sends(d0, tok, e)
  PROVE  HandedTo(k, d0, tok)
<1> SUFFICES ASSUME NEW d \in Conn, NEW x, InS2C(s2c'[d], d, x, k)
             PROVE  \/ InS2C(s2c[d], d, x, k)
                    \/ d = d0 /\ x = Len(s2c[d0]) + 1 /\ Hands(d, tok, k)
  BY DEF HandedTo
<1>1. s2c[d] \in Seq(ToClient)
  BY DEF TypeOK
<1>2. ~Hands(d, e, k)
  BY DEF Hands
<1>3. CASE s2c'[d] = s2c[d]
  BY <1>3
<1>4. CASE s2c'[d] = Append(s2c[d], e)
  BY <1>1, <1>2, <1>4, InAppend
<1>5. CASE d = d0 /\ s2c'[d] = Append(s2c[d], tok)
  BY <1>1, <1>5, InAppend
<1>6. QED
  BY <1>3, <1>4, <1>5 DEF Sends

\* A client that reads the head of s2c[c]; the call in it goes to the handler or is answered.
LEMMA CallReceived ==
  ASSUME TypeOK, TypeOK', NEW k \in Call, Once(k), Numbered(k),
         NEW c \in Conn, NEW t, Receives(c, t), UNCHANGED <<c2s, message_id_>>,
         NEW nw \in {"todo", "answered"}, NEW nx,
         \A d \in Conn : \A x \in todo'[d] : x.data = k =>
           \/ x \in todo[d]
           \/ nw = "todo" /\ d = c /\ x = nx /\ Hands(c, Head(s2c[c]), k),
         k.mid \in answered'[k.conn] =>
           \/ k.mid \in answered[k.conn]
           \/ nw = "answered" /\ nx = 0 /\ k.conn = c /\ Hands(c, Head(s2c[c]), k)
  PROVE  Once(k)' /\ Numbered(k)'
<1>1. /\ s2c[c] \in Seq(ToClient) /\ s2c[c] # <<>> /\ s2c'[c] = Tail(s2c[c])
      /\ \A d \in Conn \ {c} : s2c'[d] = s2c[d]
  BY DEF Receives, TypeOK
<1>2. \A x : InS2C(s2c'[c], c, x, k) => InS2C(s2c[c], c, x + 1, k)
  BY <1>1, InTail
<1>3. \A d \in Conn \ {c} : \A x : InS2C(s2c'[d], d, x, k) => InS2C(s2c[d], d, x, k)
  BY <1>1
<1>4. IdsGrow
  <2>1. \A d \in Conn : message_id_[d] \in Nat
    BY DEF TypeOK
  <2>2. QED
    BY <2>1 DEF IdsGrow
<1>5. CASE Hands(c, Head(s2c[c]), k)
  <2>1. At(k, "s2c", c, 1)
    <3>1. 1 \in DOMAIN s2c[c] /\ s2c[c][1] = Head(s2c[c])
      BY <1>1
    <3>2. QED
      BY <1>5, <3>1 DEF At, InS2C
  <2>2. \A x : x \in DOMAIN s2c'[c] => x + 1 # 1
    BY <1>1
  <2>3. ASSUME NEW w \in Where, NEW d \in Conn, NEW x, At(k, w, d, x)'
        PROVE  \/ w = nw /\ d = c /\ x = nx
               \/ \E y : At(k, w, d, y) /\ ~(w = "s2c" /\ d = c /\ y = 1)
    <3>1. CASE w = "s2c" /\ d = c
      <4>1. At(k, w, d, x + 1) /\ x + 1 # 1
        BY <1>2, <2>2, <2>3, <3>1 DEF At, InS2C
      <4>2. QED
        BY <4>1
    <3>2. CASE w = "s2c" /\ d # c
      BY <1>3, <2>3, <3>2 DEF At
    <3>3. CASE w = "c2s"
      BY <2>3, <3>3 DEF At
    <3>4. CASE w = "todo"
      BY <2>3, <3>4 DEF At
    <3>5. CASE w = "answered"
      BY <2>3, <3>5 DEF At
    <3>6. QED
      BY <3>1, <3>2, <3>3, <3>4, <3>5 DEF Where
  <2>4. Moves(k, "s2c", c, 1, nw, c, nx)
    BY <2>1, <2>3 DEF Moves
  <2>5. "s2c" \in Where
    BY DEF Where
  <2>6. QED
    BY <1>4, <2>4, <2>5, CallMoved
<1>6. CASE ~Hands(c, Head(s2c[c]), k)
  <2>1. \A d \in Conn : \A x : InS2C(s2c'[d], d, x, k) =>
          InS2C(s2c[d], d, IF "s2c" = "s2c" /\ d = c THEN x + 1 ELSE x, k)
    BY <1>2, <1>3
  <2>2. \A d \in Conn : \A x : InC2S(c2s'[d], x, k) =>
          InC2S(c2s[d], IF "s2c" = "c2s" /\ d = c THEN x + 1 ELSE x, k)
    OBVIOUS
  <2>3. /\ \A d \in Conn : \A x \in todo'[d] : x.data = k => x \in todo[d]
        /\ k.mid \in answered'[k.conn] => k.mid \in answered[k.conn]
    BY <1>6
  <2>4. Shifts(k, "s2c", c)
    BY <2>1, <2>2, <2>3, Zenon DEF Shifts
  <2>5. QED
    BY <1>4, <2>4, CallShifted
<1>7. QED
  BY <1>5, <1>6

\* A step that only takes calls away, or sends packets that carry none.
LEMMA CallKept ==
  ASSUME TypeOK, TypeOK', NEW k \in Call, Once(k), Numbered(k),
         IdsGrow,
         \A d \in Conn : \A x : InC2S(c2s'[d], x, k) => InC2S(c2s[d], x, k),
         \A d \in Conn : \A x : InS2C(s2c'[d], d, x, k) => InS2C(s2c[d], d, x, k),
         \A d \in Conn : todo'[d] \subseteq todo[d],
         answered' = answered
  PROVE  Once(k)' /\ Numbered(k)'
<1>1. Shifts(k, "none", 0)
  BY DEF Shifts
<1>2. QED
  BY <1>1, CallShifted

LEMMA CallSend ==
  ASSUME TypeOK, NEW c \in Conn, NEW e, Send(c, e), NEW k
  PROVE  \A d \in Conn : \A x : InC2S(c2s'[d], x, k) =>
           InC2S(c2s[d], x, k) \/ (d = c /\ x = Len(c2s[c]) + 1 /\ Asks(e, k))
<1>1. c2s[c] \in Seq(ToServer) /\ c2s'[c] = Append(c2s[c], e) /\ \A d \in Conn \ {c} : c2s'[d] = c2s[d]
  BY DEF Send, TypeOK
<1>2. \A x : InC2S(c2s'[c], x, k) =>
        InC2S(c2s[c], x, k) \/ (x = Len(c2s[c]) + 1 /\ Asks(e, k))
  BY <1>1, InAppend
<1>3. QED
  BY <1>1, <1>2

LEMMA CallServer ==
  ASSUME TypeOK, TypeOK', RegistryInv, FlowInv, agent_num_ < IdMod,
         NEW k \in Call, Once(k), Numbered(k), NEW c \in Conn, ServerStep(c)
  PROVE  Once(k)' /\ Numbered(k)'
<1> DEFINE p == Head(c2s[c])
           Nobody == [type |-> "nothing"]
<1>1. UNCHANGED cliVars
  BY ServerReads
<1>2. UNCHANGED <<todo, answered, message_id_>> /\ IdsGrow
  <2>1. \A d \in Conn : message_id_[d] \in Nat
    BY DEF TypeOK
  <2>2. QED
    BY <1>1, <2>1 DEF cliVars, nameVars, callVars, IdsGrow
<1>3. ASSUME NEW t, Reads(c, t)
      PROVE  c2s[c] # <<>> /\ p \in Packets(c2s[c]) /\ p.type = t
  BY <1>3, PacketsTail DEF Reads, TypeOK
<1>4. \A d \in Conn : ~Hands(d, Nobody, k)
  BY DEF Hands
<1>5. CASE OnListenerAcceptEvent(c)
  <2>1. UNCHANGED <<c2s, s2c>>
    BY <1>5 DEF OnListenerAcceptEvent
  <2>2. QED
    BY <1>2, <2>1, CallKept
<1>6. CASE OnSetClientName(c) \/ OnRemoveMessage(c)
  <2>1. c2s[c] # <<>> /\ Consume(c) /\ UNCHANGED s2c
    BY <1>6 DEF OnSetClientName, OnRemoveMessage, Reads
  <2> HIDE DEF Nobody
  <2>2. QED
    BY <1>2, <1>4, <2>1, CallRead DEF HandedTo
<1>7. CASE OnListenMessage(c)
  <2> DEFINE q == [type |-> "ADD_MESSAGE", method |-> p.method,
                   listen_type |-> p.listen_type, id |-> p.id,
                   succeed |-> CheckMessage(p.method, p.listen_type)]
  <2>1. c2s[c] # <<>> /\ Consume(c) /\ SendMessage(c, q)
    BY <1>7 DEF OnListenMessage, Reads
  <2>2. q.type = "ADD_MESSAGE"
    OBVIOUS
  <2> HIDE DEF q, Nobody
  <2>3. Sends(c, Nobody, q)
    BY <2>1 DEF SendMessage, TypeOK, Sends
  <2>4. HandedTo(k, c, Nobody)
    BY <2>2, <2>3, CallSent
  <2>5. QED
    BY <1>2, <1>4, <2>1, <2>4, CallRead
<1>8. CASE OnRequestMessage_Broadcast(c)
  <2> DEFINE reply == [type |-> "REPLY", id |-> p.id, data |-> NoCall,
                       result |-> Cardinality(Listeners(c, p))]
             copy == Forwarded("MESSAGE", p.id, p)
  <2>1. Reads(c, "MESSAGE") /\ Consume(c)
    BY <1>8 DEF OnRequestMessage_Broadcast
  <2>2. c2s[c] # <<>> /\ p.type = "MESSAGE" /\ p.data = [conn |-> c, mid |-> p.id.mid]
    BY <1>3, <2>1 DEF FlowInv, ToServerInv, OkToServer
  <2>3. Sends(c, reply, copy)
    BY <1>8 DEF OnRequestMessage_Broadcast, Sends
  <2>4. copy.type = "MESSAGE"
    BY DEF Forwarded
  <2>5. Hands(c, reply, k) => Asks(p, k)
    BY <2>2 DEF Hands, Asks
  <2> HIDE DEF reply, copy
  <2>6. HandedTo(k, c, reply)
    BY <2>3, <2>4, CallSent
  <2>7. QED
    BY <1>2, <2>1, <2>2, <2>5, <2>6, CallRead
<1>9. CASE OnRequestMessage_Forward(c)
  <2> DEFINE requests == {a \in Listeners(c, p) : method_map_[a][p.method] = "REQUEST"}
             request == Forwarded("REQUEST", ForwardId(c, p), p)
             copy == Forwarded("MESSAGE", p.id, p)
  <2>1. Reads(c, "MESSAGE") /\ Consume(c)
    BY <1>9 DEF OnRequestMessage_Forward
  <2>2. c2s[c] # <<>> /\ p.type = "MESSAGE" /\ p.method \in Method
    BY <1>3, <2>1, ReadType
  <2>3. PICK r \in requests : Sends(r, request, copy)
    BY <1>9 DEF OnRequestMessage_Forward, Sends
  <2>4. r \in Conn
    BY <2>2 DEF Listeners, TypeOK
  <2>5. copy.type = "MESSAGE"
    BY DEF Forwarded
  <2>6. Hands(r, request, k) => Asks(p, k)
    BY <2>2 DEF Hands, Asks, Forwarded
  <2> HIDE DEF request, copy, requests
  <2>7. HandedTo(k, r, request)
    BY <2>3, <2>4, <2>5, CallSent
  <2>8. QED
    BY <1>2, <2>1, <2>2, <2>4, <2>6, <2>7, CallRead
<1>10. CASE OnReplayMessage(c)
  <2> DEFINE q == [type |-> "REPLY", id |-> OwnId(p.id.mid), data |-> p.data, result |-> 1]
             d0 == dp_agents_[p.id.agent]
  <2>1. Reads(c, "REPLY") /\ Consume(c)
    BY <1>10 DEF OnReplayMessage
  <2>2. /\ c2s[c] # <<>> /\ p.type = "REPLY" /\ p.data \in Call /\ p.id \in MsgId
        /\ Homed(p.id, p.data)
    BY <1>3, <2>1, ReadType DEF FlowInv, ToServerInv, OkToServer
  <2>3. CASE p.id.agent \notin DOMAIN dp_agents_
    <3>1. UNCHANGED s2c
      BY <1>10, <2>3 DEF OnReplayMessage
    <3> HIDE DEF Nobody
    <3>2. QED
      BY <1>2, <1>4, <2>1, <2>2, <3>1, CallRead DEF HandedTo
  <2>4. CASE p.id.agent \in DOMAIN dp_agents_
    <3>1. d0 \in Conn /\ agent_id_[d0] = p.id.agent
      BY <2>4 DEF TypeOK, RegistryInv, RegistryConsistent
    <3>2. SendMessage(d0, q)
      BY <1>10, <2>4 DEF OnReplayMessage
    <3>3. p.data = [conn |-> d0, mid |-> p.id.mid]
      <4>1. p.data.conn \in Conn
        BY <2>2 DEF Call
      <4>2. agent_id_[p.data.conn] \in 0..agent_num_ /\ agent_num_ \in Nat
        BY <4>1 DEF TypeOK
      <4>3. agent_id_[p.data.conn] % IdMod = agent_id_[p.data.conn]
        BY <4>2, IdModAssumption
      <4>4. p.id.agent = agent_id_[p.data.conn] /\ p.id.mid = p.data.mid
            /\ agent_id_[p.data.conn] # 0
        BY <2>2, <4>3 DEF Homed
      <4>5. p.data.conn = d0
        BY <3>1, <4>1, <4>4 DEF RegistryInv, AgentsNumbered
      <4>6. QED
        BY <2>2, <4>4, <4>5 DEF Call
    <3>4. Hands(d0, q, k) => Asks(p, k)
      <4>1. q.type = "REPLY" /\ q.id.mid = p.id.mid
        BY DEF OwnId
      <4>2. QED
        BY <2>2, <3>3, <4>1 DEF Hands, Asks
    <3> HIDE DEF q, d0
    <3>5. \A e : Sends(d0, q, e)
      BY <3>1, <3>2 DEF SendMessage, TypeOK, Sends
    <3>6. HandedTo(k, d0, q)
      <4> DEFINE e == [type |-> "MESSAGE"]
      <4>1. e.type = "MESSAGE" /\ Sends(d0, q, e)
        BY <3>5
      <4> HIDE DEF e
      <4>2. QED
        BY <3>1, <4>1, CallSent
    <3>7. QED
      BY <1>2, <2>1, <2>2, <3>1, <3>4, <3>6, CallRead
  <2>5. QED
    BY <2>3, <2>4
<1>11. CASE OnSocketErrorEvent(c)
  <2>1. \A d \in Conn : /\ c2s'[d] = c2s[d] \/ c2s'[d] = <<>>
                        /\ s2c'[d] = s2c[d] \/ s2c'[d] = <<>>
    BY <1>11 DEF OnSocketErrorEvent, TypeOK
  <2>2. QED
    BY <1>2, <2>1, InNothing, CallKept
<1>12. QED
  BY <1>5, <1>6, <1>7, <1>8, <1>9, <1>10, <1>11 DEF ServerStep

LEMMA CallClient ==
  ASSUME TypeOK, TypeOK',
         NEW k \in Call, Once(k), Numbered(k), NEW c \in Conn, ClientStep(c)
  PROVE  Once(k)' /\ Numbered(k)'
<1>0. /\ \A d \in Conn : message_id_[d] \in Nat /\ c2s[d] \in Seq(ToServer)
      /\ k.conn \in Conn /\ k.mid \in Nat /\ k = [conn |-> k.conn, mid |-> k.mid]
  BY DEF TypeOK, Call
<1>1. ASSUME UNCHANGED message_id_ PROVE IdsGrow
  BY <1>0, <1>1 DEF IdsGrow
<1>2. ASSUME NEW use, NextId(c, use) PROVE IdsGrow
  <2>1. message_id_' = [message_id_ EXCEPT ![c] = @ + 1]
    BY <1>2 DEF NextId
  <2>2. \A d \in Conn : message_id_'[d] = message_id_[d] \/ message_id_'[d] = message_id_[d] + 1
    BY <2>1 DEF TypeOK
  <2>3. QED
    BY <1>0, <2>2 DEF IdsGrow
<1>3. ASSUME NEW e, Send(c, e), ~Asks(e, k), IdsGrow, UNCHANGED <<s2c, answered, todo>>
      PROVE  Once(k)' /\ Numbered(k)'
  <2>1. \A d \in Conn : \A x : InC2S(c2s'[d], x, k) => InC2S(c2s[d], x, k)
    BY <1>3, CallSend
  <2>2. QED
    BY <1>3, <2>1, CallKept
<1>4a. CASE Connect(c)
  <2>1. UNCHANGED <<c2s, s2c, answered, todo, message_id_>>
    BY <1>4a DEF Connect, callVars
  <2>2. QED
    BY <1>1, <2>1, CallKept
<1>4. CASE SetName(c)
  <2> DEFINE e == [type |-> "SET_NAME", pid |-> PidOf[c]]
  <2>1. Send(c, e) /\ ~Asks(e, k) /\ UNCHANGED <<s2c, answered, todo, message_id_>>
    BY <1>4 DEF SetName, callVars, Asks
  <2> HIDE DEF e
  <2>2. QED
    BY <1>1, <1>3, <2>1
<1>5. CASE \E m \in Method, t \in ListenType : SendListen(c, m, t)
  <2>1. PICK m \in Method, t \in ListenType : SendListen(c, m, t)
    BY <1>5
  <2> DEFINE e == [type |-> "ADD_MESSAGE", method |-> m, listen_type |-> t,
                   id |-> OwnId(message_id_[c] + 1)]
  <2>2. Send(c, e) /\ ~Asks(e, k) /\ UNCHANGED <<s2c, answered, todo>> /\ NextId(c, "listen")
    BY <2>1 DEF SendListen, Asks
  <2> HIDE DEF e
  <2>3. QED
    BY <1>2, <1>3, <2>2
<1>6. CASE \E m \in Method : SendRemove(c, m)
  <2>1. PICK m \in Method : SendRemove(c, m)
    BY <1>6
  <2> DEFINE e == [type |-> "REMOVE_MESSAGE", method |-> m]
  <2>2. Send(c, e) /\ ~Asks(e, k) /\ UNCHANGED <<s2c, answered, todo>> /\ NextId(c, "remove")
    BY <2>1 DEF SendRemove, Asks
  <2> HIDE DEF e
  <2>3. QED
    BY <1>2, <1>3, <2>2
<1>7. CASE \E m \in Method : SendDpMessage(c, m)
  <2>1. PICK m \in Method : SendDpMessage(c, m)
    BY <1>7
  <2> DEFINE n == message_id_[c] + 1
             e == [type |-> "MESSAGE", method |-> m, pid |-> PidOf[c], id |-> OwnId(n),
                   data |-> [conn |-> c, mid |-> n]]
  <2>2. /\ Send(c, e) /\ UNCHANGED <<s2c, answered, todo>> /\ NextId(c, "send")
        /\ Asks(e, k) <=> k = [conn |-> c, mid |-> n]
    BY <2>1 DEF SendDpMessage, Asks
  <2> HIDE DEF e
  <2>3. CASE k # [conn |-> c, mid |-> n]
    BY <1>2, <1>3, <2>2, <2>3
  <2>4. CASE k = [conn |-> c, mid |-> n]
    <3>1. k.conn = c /\ k.mid = n /\ message_id_'[c] = n
      BY <1>0, <2>2, <2>4 DEF NextId, TypeOK
    <3>2. ~(k.mid <= message_id_[k.conn])
      BY <1>0, <3>1
    <3>3. \A w \in Where, d \in Conn : \A x : ~At(k, w, d, x)
      BY <3>2 DEF Numbered
    <3>4. \A d \in Conn : \A x : InC2S(c2s'[d], x, k) =>
            InC2S(c2s[d], x, k) \/ (d = c /\ x = Len(c2s[c]) + 1)
      BY <2>2, CallSend
    <3>5. \A w \in Where, d \in Conn : \A x : At(k, w, d, x)' =>
            w = "c2s" /\ d = c /\ x = Len(c2s[c]) + 1
      BY <2>2, <3>3, <3>4 DEF At
    <3>6. (k.mid <= message_id_[k.conn])'
      BY <1>0, <3>1
    <3>7. QED
      BY <3>5, <3>6, CallNew
  <2>5. QED
    BY <2>3, <2>4
<1>8. CASE SendDpReply(c)
  <2>0. PICK b \in Conn : \E r \in todo[b] :
          /\ todo' = [todo EXCEPT ![b] = @ \ {r}]
          /\ Send(c, [type |-> "REPLY", id |-> r.id, data |-> r.data])
    BY <1>8 DEF SendDpReply, RequestsFor
  <2>1. PICK r \in todo[b] :
          /\ todo' = [todo EXCEPT ![b] = @ \ {r}]
          /\ Send(c, [type |-> "REPLY", id |-> r.id, data |-> r.data])
    BY <2>0
  <2> DEFINE e == [type |-> "REPLY", id |-> r.id, data |-> r.data]
  <2>2. Send(c, e) /\ (Asks(e, k) <=> k = r.data)
    BY <2>1 DEF Asks
  <2>3. UNCHANGED <<s2c, answered, message_id_>> /\ IdsGrow
    BY <1>1, <1>8 DEF SendDpReply, callVars
  <2>4. \A d \in Conn : \A x \in todo'[d] : x \in todo[d] /\ ~(d = b /\ x = r)
    BY <2>1 DEF TypeOK
  <2> HIDE DEF e
  <2>5. \A d \in Conn : \A x : InC2S(c2s'[d], x, k) =>
          InC2S(c2s[d], x, k) \/ (d = c /\ x = Len(c2s[c]) + 1 /\ k = r.data)
    BY <2>2, CallSend
  <2>6. CASE k # r.data
    <3>1. \A d \in Conn : todo'[d] \subseteq todo[d]
      BY <2>4
    <3>2. \A d \in Conn : \A x : InC2S(c2s'[d], x, k) => InC2S(c2s[d], x, k)
      BY <2>5, <2>6
    <3>3. QED
      BY <2>3, <3>1, <3>2, CallKept
  <2>7. CASE k = r.data
    <3>1. At(k, "todo", b, r) /\ "todo" \in Where
      BY <2>7 DEF At, Where
    <3>2. ASSUME NEW w \in Where, NEW d \in Conn, NEW x, At(k, w, d, x)'
          PROVE  \/ w = "c2s" /\ d = c /\ x = Len(c2s[c]) + 1
                 \/ At(k, w, d, x) /\ ~(w = "todo" /\ d = b /\ x = r)
      <4>1. CASE w = "c2s"
        BY <2>5, <3>2, <4>1 DEF At
      <4>2. CASE w = "todo"
        BY <2>4, <3>2, <4>2 DEF At
      <4>3. CASE w \in {"s2c", "answered"}
        BY <2>3, <3>2, <4>3 DEF At
      <4>4. QED
        BY <4>1, <4>2, <4>3 DEF Where
    <3>3. Moves(k, "todo", b, r, "c2s", c, Len(c2s[c]) + 1)
      BY <3>1, <3>2 DEF Moves
    <3>4. QED
      BY <2>3, <3>1, <3>3, CallMoved
  <2>8. QED
    BY <2>6, <2>7
<1>9. CASE OnAddReplayMessage(c) \/ OnBroadCastMessage(c)
  <2>1. /\ Receives(c, "ADD_MESSAGE") \/ Receives(c, "MESSAGE")
        /\ UNCHANGED <<c2s, message_id_, todo, answered>>
    BY <1>9 DEF OnAddReplayMessage, OnBroadCastMessage, cliVars, nameVars, callVars
  <2>2. QED
    BY <2>1, CallReceived
<1>10. CASE OnReqReplayMessage(c)
  <2> DEFINE n == Head(s2c[c]).id.mid
  <2>1. Receives(c, "REPLY") /\ UNCHANGED <<c2s, message_id_, todo>>
    BY <1>10 DEF OnReqReplayMessage
  <2>2. answered' = [answered EXCEPT ![c] = @ \cup {n}]
    BY <1>10 DEF OnReqReplayMessage
  <2>3. k.mid \in answered'[k.conn] =>
          k.mid \in answered[k.conn] \/ (k.conn = c /\ k.mid = n)
    BY <1>0, <2>2 DEF TypeOK
  <2>4. k.conn = c /\ k.mid = n => Hands(c, Head(s2c[c]), k)
    BY <1>0, <2>1 DEF Hands, Receives
  <2>5. QED
    BY <2>1, <2>3, <2>4, CallReceived
<1>11. CASE OnRequestMessage(c)
  <2> DEFINE p == Head(s2c[c])
             r == [id |-> p.id, data |-> p.data]
  <2>1. Receives(c, "REQUEST") /\ UNCHANGED <<c2s, message_id_, answered>>
    BY <1>11 DEF OnRequestMessage, callVars
  <2>2. todo' = [todo EXCEPT ![c] = @ \cup {r}] /\ r.data = p.data /\ p.type = "REQUEST"
    BY <1>11 DEF OnRequestMessage, Receives
  <2> HIDE DEF r
  <2>3. \A d \in Conn : \A x \in todo'[d] : x \in todo[d] \/ (d = c /\ x = r)
    BY <2>2 DEF TypeOK
  <2>4. r.data = k => Hands(c, p, k)
    BY <2>2 DEF Hands
  <2>5. QED
    BY <2>1, <2>3, <2>4, CallReceived
<1>12. CASE ListenTimeout(c) \/ Disconnect(c)
  <2>1. /\ UNCHANGED <<c2s, s2c, message_id_, answered>>
        /\ \A d \in Conn : todo'[d] \subseteq todo[d]
    <3>1. CASE ListenTimeout(c)
      BY <3>1 DEF ListenTimeout, callVars
    <3>2. CASE Disconnect(c)
      BY <3>2 DEF Disconnect, TypeOK
    <3>3. QED
      BY <1>12, <3>1, <3>2
  <2>2. QED
    BY <1>1, <2>1, CallKept
<1>13. QED
  BY <1>4, <1>4a, <1>5, <1>6, <1>7, <1>8, <1>9, <1>10, <1>11, <1>12 DEF ClientStep, Reception

LEMMA CallInit == Init => CallInv
<1> SUFFICES ASSUME Init, NEW k \in Call PROVE Once(k) /\ Numbered(k)
  BY DEF CallInv
<1>1. \A d \in Conn : c2s[d] = <<>> /\ s2c[d] = <<>> /\ todo[d] = {} /\ answered[d] = {}
  BY DEF Init
<1>2. k.conn \in Conn
  BY DEF Call
<1>3. \A w \in Where, d \in Conn : \A x : ~At(k, w, d, x)
  BY <1>1, <1>2, InNothing DEF At
<1>4. QED
  BY <1>3 DEF Once, Numbered

LEMMA CallNext ==
  ASSUME TypeOK, RegistryInv, FlowInv, CallInv, [Next]_vars
  PROVE  CallInv'
<1>1. agent_num_' < IdMod => agent_num_ < IdMod
  <2>1. IdsKept
    BY IdsKeptStep
  <2>2. agent_num_ \in Nat /\ IdMod \in Nat
    BY IdModAssumption DEF TypeOK
  <2>3. TypeOK'
    BY ServerType, ClientType, StutterType DEF Next
  <2>4. agent_num_' \in Nat
    BY <2>3 DEF TypeOK
  <2>5. QED
    BY <2>1, <2>2, <2>4 DEF IdsKept
<1>2. CASE UNCHANGED vars
  <2>1. UNCHANGED <<agent_num_, c2s, s2c, todo, answered, message_id_>>
    BY <1>2 DEF vars, srvVars, cliVars, nameVars, callVars
  <2>2. ASSUME NEW k, NEW w, NEW d, NEW x PROVE At(k, w, d, x)' <=> At(k, w, d, x)
    BY <2>1 DEF At
  <2>3. ASSUME NEW k PROVE Once(k)' <=> Once(k)
    BY <2>2 DEF Once
  <2>4. ASSUME NEW k PROVE Numbered(k)' <=> Numbered(k)
    BY <2>1, <2>2 DEF Numbered
  <2>5. QED
    BY <2>1, <2>3, <2>4 DEF CallInv
<1>3. ASSUME NEW c \in Conn, ServerStep(c) PROVE CallInv'
  BY <1>1, <1>3, ServerType, CallServer DEF CallInv
<1>4. ASSUME NEW c \in Conn, ClientStep(c) PROVE CallInv'
  BY <1>1, <1>4, ClientType, CallClient DEF CallInv
<1>5. QED
  BY <1>2, <1>3, <1>4 DEF Next

LEMMA OneAnswer ==
  ASSUME TypeOK, CallInv, agent_num_ < IdMod
  PROVE  AtMostOneAnswer
<1> SUFFICES ASSUME NEW c \in Conn, NEW i \in DOMAIN s2c[c], s2c[c][i].type = "REPLY"
             PROVE  /\ s2c[c][i].id.mid \notin answered[c]
                    /\ \A j \in DOMAIN s2c[c] :
                         s2c[c][j].type = "REPLY" /\ s2c[c][j].id = s2c[c][i].id => i = j
  BY DEF AtMostOneAnswer
<1> DEFINE n == s2c[c][i].id.mid
           k == [conn |-> c, mid |-> n]
<1>1. k \in Call /\ k.conn = c /\ k.mid = n
  <2>1. s2c[c][i] \in ToClient
    BY DEF TypeOK
  <2>2. n \in Nat
    BY <2>1 DEF ToClient, MsgId, ListenType
  <2>3. QED
    BY <2>2 DEF Call
<1>2. Once(k)
  BY <1>1 DEF CallInv
<1>3. \A j \in DOMAIN s2c[c] :
        s2c[c][j].type = "REPLY" /\ s2c[c][j].id.mid = n => At(k, "s2c", c, j)
  BY DEF At, InS2C, Hands
<1>4. n \in answered[c] => At(k, "answered", c, 0)
  BY <1>1 DEF At
<1> HIDE DEF k
<1>5. At(k, "s2c", c, i)
  BY <1>3
<1>6. n \notin answered[c]
  BY <1>2, <1>4, <1>5 DEF Once, Where
<1>7. ASSUME NEW j \in DOMAIN s2c[c], s2c[c][j].type = "REPLY", s2c[c][j].id = s2c[c][i].id
      PROVE  i = j
  <2>1. At(k, "s2c", c, j)
    BY <1>3, <1>7
  <2>2. QED
    BY <1>2, <1>5, <2>1 DEF Once, Where
<1>8. QED
  BY <1>6, <1>7

\* As long as the agents numbered so far fit the 16-bit field of the message id, no call is
\* answered twice: not by the broker and a listener, not by two listeners, and not by a
\* handler that replies again.
THEOREM AnsweredAtMostOnce == Spec => [](agent_num_ < IdMod => AtMostOneAnswer)
<1>1. TypeOK /\ RegistryInv /\ FlowInv /\ CallInv /\ [Next]_vars => CallInv'
  BY CallNext
<1>2. TypeOK /\ CallInv => (agent_num_ < IdMod => AtMostOneAnswer)
  BY OneAnswer
<1>3. QED
  BY <1>1, <1>2, CallInit, TypeCorrect, RegistryInvariant, FlowInvariant, PTL DEF Spec
===========================================================================
