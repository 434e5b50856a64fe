------------------------- MODULE PacketSocket_proof -------------------------
(***************************************************************************)
(* For packets, blocks and kernel buffers of any size, and any number of    *)
(* user threads: the stream is kept and waiting data are never forgotten.   *)
(* NoStall needs to know that a socket that is not writeable is watched for *)
(* DE_WRITE, and StreamKept that nothing is thrown away before the end.     *)
(***************************************************************************)
EXTENDS PacketSocket, SequenceTheorems, FiniteSetTheorems, WellFoundedInduction, NaturalsInduction, TLAPS

WaitInv ==
  /\ writer = "sending" => socket_writeable_
  /\ socket_writeable_ => open
  /\ open /\ ~socket_writeable_ => de_write
  /\ ropen => eaten = <<>>

SInv == TypeOK /\ StreamKept /\ NoStall /\ WaitInv

---------------------------------------------------------------------------
(* Sequences.                                                               *)

LEMMA Joined ==
  /\ <<>> \in Seq(Unit)
  /\ \A a, b \in Seq(Unit) : a \o b \in Seq(Unit) /\ Len(a \o b) = Len(a) + Len(b)
  /\ \A a \in Seq(Unit) : a \o <<>> = a /\ <<>> \o a = a
OBVIOUS

LEMMA SplitFacts ==
  ASSUME NEW S, NEW s \in Seq(S), NEW n \in 0..Len(s)
  PROVE  /\ First(s, n) \in Seq(S) /\ Len(First(s, n)) = n
         /\ Rest(s, n) \in Seq(S) /\ Len(Rest(s, n)) = Len(s) - n
         /\ First(s, n) \o Rest(s, n) = s
<1>1. /\ SubSeq(s, 1, n) \in Seq(S) /\ Len(SubSeq(s, 1, n)) = n
  OBVIOUS
<1>2. /\ SubSeq(s, n + 1, Len(s)) \in Seq(S)
      /\ Len(SubSeq(s, n + 1, Len(s))) = Len(s) - n
  OBVIOUS
<1>3. SubSeq(s, 1, n) \o SubSeq(s, n + 1, Len(s)) = SubSeq(s, 1, Len(s))
  <2>1. 1 \in 1..(Len(s) + 1) /\ n \in (1 - 1)..Len(s) /\ Len(s) \in n..Len(s)
    OBVIOUS
  <2>2. QED
    BY <2>1, ConcatAdjacentSubSeq, Zenon
<1>4. SubSeq(s, 1, Len(s)) = s
  BY SubSeqFull, Zenon
<1>5. QED
  BY <1>1, <1>2, <1>3, <1>4, Zenon DEF First, Rest

LEMMA SizeFacts ==
  /\ HeaderSize \in Nat \ {0} /\ WireSize \in Nat /\ MaxPackets \in Nat
  /\ \A x \in Sizes : x \in Nat
BY SizeAssumption, Zenon

LEMMA UnitsType ==
  ASSUME NEW p \in Packet
  PROVE  Units(p) \in Seq(Unit)
<1>1. HeaderSize + p.size \in Nat
  <2>1. p.size \in Sizes
    BY DEF Packet
  <2>2. QED
    BY <2>1, SizeFacts
<1>2. Units(p) \in [1..(HeaderSize + p.size) -> Unit]
  <2>1. ASSUME NEW i \in 1..(HeaderSize + p.size), NEW l \in BOOLEAN
        PROVE  [pkt |-> p, pos |-> i, last |-> l] \in Unit
    BY <1>1 DEF Unit
  <2>2. ASSUME NEW i \in 1..(HeaderSize + p.size)
        PROVE  (\/ i = HeaderSize
                \/ i > HeaderSize /\ (i - HeaderSize) % BlockSize = 0
                \/ i = HeaderSize + p.size) \in BOOLEAN
    OBVIOUS
  <2>3. QED
    BY <2>1, <2>2, Zenon DEF Units
<1>3. QED
  BY <1>1, <1>2

LEMMA FirstBlocksType ==
  ASSUME NEW s \in Seq(Unit)
  PROVE  FirstBlocks(s) \in 0..Len(s)
<1> DEFINE T == {i \in 1..Len(s) :
                   Cardinality({j \in 1..(i - 1) : s[j].last}) < MaxSendBlocks}
           n == Len(s)
<1>1. n \in Nat /\ T \subseteq 1..n /\ FirstBlocks(s) = Cardinality(T)
  BY DEF FirstBlocks
<1> HIDE DEF T, n
<1>2. IsFiniteSet(1..n) /\ Cardinality(1..n) = n
  BY <1>1, FS_Interval
<1>3. IsFiniteSet(T) /\ Cardinality(T) <= n
  BY <1>1, <1>2, FS_Subset
<1>4. Cardinality(T) \in Nat
  BY <1>3, FS_CardinalityType
<1>5. QED
  BY <1>1, <1>3, <1>4 DEF n

\* Batch and Later are the two buffers, cut at another place.
LEMMA BatchFacts ==
  ASSUME TypeOK
  PROVE  /\ Batch \in Seq(Unit) /\ Later \in Seq(Unit)
         /\ Batch \o Later = send_buffers_ \o write_buffers_
<1>1. CASE send_buffers_ = <<>>
  <2>1. write_buffers_ \in Seq(Unit)
    BY DEF TypeOK
  <2>2. FirstBlocks(write_buffers_) \in 0..Len(write_buffers_)
    BY <2>1, FirstBlocksType
  <2>3. <<>> \o write_buffers_ = write_buffers_
    BY <2>1, Joined
  <2>4. QED
    BY <1>1, <2>1, <2>2, <2>3, SplitFacts DEF Batch, Later
<1>2. CASE send_buffers_ # <<>>
  BY <1>2 DEF Batch, Later, TypeOK
<1>3. QED
  BY <1>1, <1>2

\* Concatenation of streams under names of its own, so that only the two facts below are
\* used where streams are regrouped.
Stream == Seq(Unit)
Cat(a, b) == a \o b

LEMMA CatType == \A a, b \in Stream : Cat(a, b) \in Stream
BY DEF Stream, Cat

LEMMA CatAssoc == \A a, b, c \in Stream : Cat(Cat(a, b), c) = Cat(a, Cat(b, c))
BY ConcatAssociative DEF Stream, Cat

\* A cut f, r of b: f moves to the end of what comes before b.
LEMMA MoveCut ==
  ASSUME NEW a \in Stream, NEW b \in Stream, NEW f \in Stream, NEW r \in Stream,
         Cat(f, r) = b
  PROVE  Cat(Cat(a, f), r) = Cat(a, b)
BY CatAssoc

\* The same when b is the batch cut from the two write buffers ...
LEMMA MoveBatch ==
  ASSUME NEW a \in Stream, NEW s \in Stream, NEW w \in Stream,
         NEW b \in Stream, NEW l \in Stream, Cat(b, l) = Cat(s, w),
         NEW f \in Stream, NEW r \in Stream, Cat(f, r) = b
  PROVE  Cat(Cat(Cat(a, f), r), l) = Cat(Cat(a, s), w)
BY CatAssoc

\* ... and when the reader takes f off the wire w.
LEMMA MoveRead ==
  ASSUME NEW a \in Stream, NEW b \in Stream, NEW w \in Stream,
         NEW f \in Stream, NEW r \in Stream, Cat(f, r) = w
  PROVE  Cat(Cat(a, Cat(b, f)), r) = Cat(Cat(a, b), w)
BY CatAssoc, CatType

LEMMA FourParts ==
  ASSUME NEW a \in Stream, NEW b \in Stream, NEW c \in Stream, NEW d \in Stream,
         NEW e \in Stream
  PROVE  Cat(Cat(Cat(Cat(a, b), c), d), e) = Cat(Cat(Cat(a, b), c), Cat(d, e))
<1>1. Cat(Cat(a, b), c) \in Stream
  BY CatType
<1>2. QED
  BY <1>1, CatAssoc

---------------------------------------------------------------------------
(* Every step keeps SInv.                                                   *)

LEMMA InitSInv == Init => SInv
<1> SUFFICES ASSUME Init PROVE SInv
  OBVIOUS
<1>1. TypeOK
  <2>1. <<>> \in Seq(Unit) /\ <<>> \in Seq(Packet) /\ Len(<<>>) = 0
    OBVIOUS
  <2>2. /\ pc \in [Writer -> {"idle", "append", "post"}]
        /\ packet \in [Writer -> Packet \cup {<<>>}]
        /\ \A w \in Writer : pc[w] # "append"
    BY DEF Init
  <2>3. npackets \in 0..MaxPackets /\ posted \in Nat /\ 0 <= WireSize
    BY SizeFacts DEF Init
  <2>4. QED
    BY <2>1, <2>2, <2>3, Zenon DEF Init, TypeOK
<1>2. <<>> \in Seq(Unit)
  OBVIOUS
<1>3. <<>> \o <<>> = <<>>
  BY <1>2, Joined
<1>4. StreamKept
  BY <1>3 DEF Init, StreamKept
<1>5. QED
  BY <1>1, <1>4 DEF Init, SInv, NoStall, WaitInv, Nothing

LEMMA AsyncWritePacketSInv ==
  ASSUME SInv, NEW w \in Writer, NEW s \in Sizes, AsyncWritePacket(w, s)
  PROVE  SInv'
<1> USE DEF AsyncWritePacket, recvVars
<1>1. [id |-> npackets', size |-> s] \in Packet
  BY SizeFacts DEF SInv, TypeOK, Packet
<1>2. TypeOK'
  BY <1>1, SizeFacts DEF SInv, TypeOK
<1>3. StreamKept' /\ WaitInv'
  BY DEF SInv, StreamKept, WaitInv
<1>4. NoStall'
  BY DEF SInv, TypeOK, NoStall, Nothing
<1>5. QED
  BY <1>2, <1>3, <1>4 DEF SInv

LEMMA AsyncWriteSInv ==
  ASSUME SInv, NEW w \in Writer, AsyncWrite(w)
  PROVE  SInv'
<1> USE DEF AsyncWrite, recvVars
<1>1. packet[w] \in Packet
  BY DEF SInv, TypeOK
<1>2. Units(packet[w]) \in Seq(Unit)
  BY <1>1, UnitsType
<1>3. write_buffers_' \in Seq(Unit) /\ stream' \in Seq(Unit) /\ written' \in Seq(Packet)
  <2>0. write_buffers_ \in Seq(Unit) /\ stream \in Seq(Unit) /\ written \in Seq(Packet)
    BY DEF SInv, TypeOK
  <2>1. /\ write_buffers_ \o Units(packet[w]) \in Seq(Unit)
        /\ stream \o Units(packet[w]) \in Seq(Unit)
    BY <1>2, <2>0, Joined
  <2>2. Append(written, packet[w]) \in Seq(Packet)
    BY <1>1, <2>0
  <2>3. QED
    BY <2>0, <2>1, <2>2
<1>4. TypeOK'
  BY <1>3 DEF SInv, TypeOK
<1>5. StreamKept'
  <2>1. carried' = parsed' \o recv_buff_' \o eaten' \o wire'
    BY DEF SInv, StreamKept
  <2>2. ASSUME open PROVE stream' = carried \o send_buffers_ \o write_buffers_'
    <3>1. stream = carried \o send_buffers_ \o write_buffers_
      BY <2>2 DEF SInv, StreamKept
    <3>2. /\ carried \in Stream /\ send_buffers_ \in Stream /\ write_buffers_ \in Stream
          /\ Units(packet[w]) \in Stream
      BY <1>2 DEF SInv, TypeOK, Stream
    <3>3. Cat(Cat(Cat(carried, send_buffers_), write_buffers_), Units(packet[w]))
            = Cat(Cat(carried, send_buffers_), Cat(write_buffers_, Units(packet[w])))
      <4>1. Cat(carried, send_buffers_) \in Stream
        BY <3>2, CatType, Zenon
      <4>2. QED
        BY <3>2, <4>1, CatAssoc, Zenon
    <3>4. QED
      BY <2>2, <3>1, <3>3 DEF Cat
  <2>3. QED
    BY <2>1, <2>2 DEF StreamKept
<1>6. NoStall'
  BY DEF SInv, TypeOK, NoStall
<1>7. WaitInv'
  BY DEF SInv, WaitInv
<1>8. QED
  BY <1>4, <1>5, <1>6, <1>7 DEF SInv

LEMMA PostSendSInv ==
  ASSUME SInv, NEW w \in Writer, PostSend(w)
  PROVE  SInv'
<1> USE DEF PostSend, recvVars
<1>1. TypeOK'
  BY DEF SInv, TypeOK
<1>2. StreamKept' /\ WaitInv'
  BY DEF SInv, StreamKept, WaitInv
<1>3. NoStall'
  BY DEF SInv, TypeOK, NoStall
<1>4. QED
  BY <1>1, <1>2, <1>3 DEF SInv

LEMMA OnMessageSInv ==
  ASSUME SInv, OnMessage
  PROVE  SInv'
<1> USE DEF OnMessage, recvVars, TryToWriteData
<1>1. TypeOK'
  BY DEF SInv, TypeOK
<1>2. StreamKept' /\ WaitInv'
  BY DEF SInv, StreamKept, WaitInv
<1>3. NoStall'
  BY DEF SInv, NoStall, WaitInv, Nothing
<1>4. QED
  BY <1>1, <1>2, <1>3 DEF SInv

LEMMA SocketWriteEventSInv ==
  ASSUME SInv, SocketWriteEvent
  PROVE  SInv'
<1> USE DEF SocketWriteEvent, recvVars, TryToWriteData
<1>1. TypeOK'
  BY DEF SInv, TypeOK
<1>2. StreamKept' /\ WaitInv'
  BY DEF SInv, StreamKept, WaitInv
<1>3. NoStall'
  BY DEF NoStall, Nothing
<1>4. QED
  BY <1>1, <1>2, <1>3 DEF SInv

LEMMA SendSInv ==
  ASSUME SInv, Send
  PROVE  SInv'
<1> USE DEF recvVars
<1>1. /\ Batch \in Seq(Unit) /\ Later \in Seq(Unit)
      /\ Batch \o Later = send_buffers_ \o write_buffers_
  BY BatchFacts DEF SInv
<1>2. PICK n \in 0..Len(Batch) :
       /\ Len(wire) + n <= WireSize
       /\ wire' = wire \o First(Batch, n) /\ carried' = carried \o First(Batch, n)
       /\ send_buffers_' = Rest(Batch, n) /\ write_buffers_' = Later
       /\ IF n = Len(Batch)
          THEN UNCHANGED <<writer, socket_writeable_, de_write>>
          ELSE writer' = "idle" /\ socket_writeable_' = FALSE /\ de_write' = TRUE
  BY DEF Send
<1>3. /\ First(Batch, n) \in Seq(Unit) /\ Len(First(Batch, n)) = n
      /\ Rest(Batch, n) \in Seq(Unit) /\ First(Batch, n) \o Rest(Batch, n) = Batch
  BY <1>1, SplitFacts
<1>4. /\ wire \in Seq(Unit) /\ carried \in Seq(Unit) /\ parsed \in Seq(Unit)
      /\ recv_buff_ \in Seq(Unit) /\ eaten \in Seq(Unit)
      /\ send_buffers_ \in Seq(Unit) /\ write_buffers_ \in Seq(Unit)
  BY DEF SInv, TypeOK
<1>5. /\ wire' \in Seq(Unit) /\ Len(wire') <= WireSize /\ carried' \in Seq(Unit)
  <2>1. /\ wire \o First(Batch, n) \in Seq(Unit) /\ carried \o First(Batch, n) \in Seq(Unit)
        /\ Len(wire \o First(Batch, n)) = Len(wire) + n
    BY <1>3, <1>4, Joined
  <2>2. QED
    BY <1>2, <2>1
<1>6. TypeOK'
  BY <1>1, <1>2, <1>3, <1>5 DEF SInv, TypeOK, Send
<1>7. StreamKept'
  <2>1. carried' = parsed \o recv_buff_ \o eaten \o wire'
    <3>1. carried = parsed \o recv_buff_ \o eaten \o wire
      BY DEF SInv, StreamKept
    <3>2. Cat(carried, First(Batch, n))
            = Cat(Cat(Cat(parsed, recv_buff_), eaten), Cat(wire, First(Batch, n)))
      <4>1. carried = Cat(Cat(Cat(parsed, recv_buff_), eaten), wire)
        BY <3>1 DEF Cat
      <4>2. /\ parsed \in Stream /\ recv_buff_ \in Stream /\ eaten \in Stream
            /\ wire \in Stream /\ First(Batch, n) \in Stream
        BY <1>3, <1>4 DEF Stream
      <4>3. Cat(Cat(Cat(Cat(parsed, recv_buff_), eaten), wire), First(Batch, n))
              = Cat(Cat(Cat(parsed, recv_buff_), eaten), Cat(wire, First(Batch, n)))
        BY <4>2, FourParts
      <4>4. QED
        BY <4>1, <4>3, Zenon
    <3>3. QED
      BY <1>2, <3>2 DEF Cat
  <2>2. ASSUME open PROVE stream = carried' \o send_buffers_' \o write_buffers_'
    <3>1. stream = carried \o send_buffers_ \o write_buffers_
      BY <2>2 DEF SInv, StreamKept
    <3>2. Cat(Cat(Cat(carried, First(Batch, n)), Rest(Batch, n)), Later)
            = Cat(Cat(carried, send_buffers_), write_buffers_)
      <4>1. /\ Cat(Batch, Later) = Cat(send_buffers_, write_buffers_)
            /\ Cat(First(Batch, n), Rest(Batch, n)) = Batch
        BY <1>1, <1>3 DEF Cat
      <4>2. /\ carried \in Stream /\ send_buffers_ \in Stream /\ write_buffers_ \in Stream
            /\ Batch \in Stream /\ Later \in Stream
            /\ First(Batch, n) \in Stream /\ Rest(Batch, n) \in Stream
        BY <1>1, <1>3, <1>4 DEF Stream
      <4>3. QED
        BY <4>1, <4>2, MoveBatch
    <3>3. QED
      BY <1>2, <3>1, <3>2 DEF Cat
  <2>3. QED
    BY <2>1, <2>2 DEF StreamKept, Send
<1>8. NoStall'
  BY <1>2 DEF NoStall, Send
<1>9. WaitInv'
  BY <1>2 DEF SInv, WaitInv, Send
<1>10. QED
  BY <1>6, <1>7, <1>8, <1>9 DEF SInv

LEMMA SendCompleteSInv ==
  ASSUME SInv, SendComplete
  PROVE  SInv'
<1> USE DEF SendComplete, recvVars
<1>1. TypeOK'
  BY DEF SInv, TypeOK
<1>2. StreamKept' /\ WaitInv'
  BY DEF SInv, StreamKept, WaitInv
<1>3. NoStall'
  BY DEF NoStall, Nothing
<1>4. QED
  BY <1>1, <1>2, <1>3 DEF SInv

LEMMA CloseWriterSInv ==
  ASSUME SInv, CloseWriter
  PROVE  SInv'
<1> USE DEF CloseWriter, recvVars
<1>1. TypeOK'
  <2>1. write_buffers_' \in Seq(Unit) /\ send_buffers_' \in Seq(Unit)
    BY Joined
  <2>2. QED
    BY <2>1, Zenon DEF SInv, TypeOK
<1>2. StreamKept' /\ WaitInv' /\ NoStall'
  BY DEF SInv, StreamKept, WaitInv, NoStall
<1>3. QED
  BY <1>1, <1>2 DEF SInv

\* The reading side leaves the writing side alone.
LEMMA WriterKept ==
  ASSUME SInv, UNCHANGED sendVars
  PROVE  /\ NoStall'
         /\ open' => stream' = carried' \o send_buffers_' \o write_buffers_'
         /\ writer' = "sending" => socket_writeable_'
         /\ socket_writeable_' => open'
         /\ open' /\ ~socket_writeable_' => de_write'
BY DEF SInv, StreamKept, NoStall, Nothing, WaitInv, sendVars

LEMMA SocketReadEventSInv ==
  ASSUME SInv, SocketReadEvent
  PROVE  SInv'
<1> USE DEF SocketReadEvent
<1>1. PICK n \in 1..Len(wire) :
        recv_buff_' = recv_buff_ \o First(wire, n) /\ wire' = Rest(wire, n)
  OBVIOUS
<1>2. /\ wire \in Seq(Unit) /\ carried \in Seq(Unit) /\ parsed \in Seq(Unit)
      /\ recv_buff_ \in Seq(Unit) /\ n \in 0..Len(wire) /\ eaten = <<>>
      /\ Len(wire) \in Nat
  BY DEF SInv, TypeOK, WaitInv, Readable
<1>3. /\ First(wire, n) \in Seq(Unit) /\ Rest(wire, n) \in Seq(Unit)
      /\ Len(Rest(wire, n)) = Len(wire) - n /\ First(wire, n) \o Rest(wire, n) = wire
  BY <1>2, SplitFacts
<1>4. recv_buff_' \in Seq(Unit) /\ wire' \in Seq(Unit) /\ Len(wire') <= WireSize
  BY <1>1, <1>2, <1>3, Joined, SizeFacts DEF SInv, TypeOK
<1>5. TypeOK'
  BY <1>4 DEF SInv, TypeOK, sendVars
<1>6. carried' = parsed' \o recv_buff_' \o eaten' \o wire'
  <2>1. carried = parsed \o recv_buff_ \o eaten \o wire
    BY DEF SInv, StreamKept
  <2>2. parsed \o recv_buff_ \in Seq(Unit) /\ parsed \o recv_buff_' \in Seq(Unit)
    BY <1>2, <1>4, Joined
  <2>3. /\ (parsed \o recv_buff_) \o <<>> = parsed \o recv_buff_
        /\ (parsed \o recv_buff_') \o <<>> = parsed \o recv_buff_'
    BY <2>2, Joined
  <2>4. parsed \o (recv_buff_ \o First(wire, n)) \o Rest(wire, n) = parsed \o recv_buff_ \o wire
    <3>1. Cat(First(wire, n), Rest(wire, n)) = wire
      BY <1>3 DEF Cat
    <3>2. Cat(Cat(parsed, Cat(recv_buff_, First(wire, n))), Rest(wire, n))
            = Cat(Cat(parsed, recv_buff_), wire)
      BY <1>2, <1>3, <3>1, MoveRead DEF Stream
    <3>3. QED
      BY <3>2 DEF Cat
  <2>6. carried' = carried /\ parsed' = parsed /\ eaten' = <<>>
    BY <1>2 DEF sendVars
  <2>7. QED
    BY <1>1, <1>2, <2>1, <2>3, <2>4, <2>6, Zenon
<1>7. QED
  BY <1>5, <1>6, WriterKept DEF SInv, StreamKept, WaitInv

LEMMA SocketReadEndSInv ==
  ASSUME SInv, SocketReadEnd
  PROVE  SInv'
<1> USE DEF SocketReadEnd, CloseReader
<1>1. /\ wire \in Seq(Unit) /\ parsed \in Seq(Unit) /\ recv_buff_ \in Seq(Unit)
      /\ eaten = <<>>
  BY DEF SInv, TypeOK, WaitInv, Readable
<1>2. TypeOK'
  <2>1. wire' \in Seq(Unit) /\ Len(wire') <= WireSize /\ eaten' \in Seq(Unit)
    BY <1>1, Joined, SizeFacts
  <2>2. QED
    BY <2>1, Zenon DEF SInv, TypeOK, sendVars
<1>3. carried' = parsed' \o recv_buff_' \o eaten' \o wire'
  <2>1. carried = parsed \o recv_buff_ \o <<>> \o wire
    BY <1>1 DEF SInv, StreamKept
  <2>2. parsed \o recv_buff_ \in Seq(Unit) /\ parsed \o recv_buff_ \o wire \in Seq(Unit)
    BY <1>1, Joined
  <2>3. /\ (parsed \o recv_buff_) \o <<>> = parsed \o recv_buff_
        /\ (parsed \o recv_buff_ \o wire) \o <<>> = parsed \o recv_buff_ \o wire
    BY <2>2, Joined
  <2>4. QED
    BY <2>1, <2>3 DEF sendVars
<1>4. QED
  BY <1>2, <1>3, WriterKept DEF SInv, StreamKept, WaitInv

\* Steps of the reading side that move no unit.
LEMMA QuietReader ==
  ASSUME SInv, UNCHANGED <<sendVars, wire, parsed, recv_buff_, eaten>>, ropen' => ropen,
         TypeOK'
  PROVE  SInv'
<1>1. StreamKept'
  BY WriterKept DEF SInv, StreamKept, sendVars
<1>2. WaitInv'
  BY WriterKept DEF SInv, WaitInv
<1>3. QED
  BY <1>1, <1>2, WriterKept DEF SInv

LEMMA SignalPacketSInv ==
  ASSUME SInv, SignalPacket
  PROVE  SInv'
<1> USE DEF SignalPacket
<1> DEFINE n == HeaderSize + Front.size
<1>1. /\ wire \in Seq(Unit) /\ parsed \in Seq(Unit) /\ recv_buff_ \in Seq(Unit)
      /\ eaten \in Seq(Unit)
  BY DEF SInv, TypeOK
<1>2. recv_buff_[1] \in Unit
  BY <1>1, SizeFacts DEF HasPacket, HasHeader
<1>3. Front \in Packet
  BY <1>2 DEF Front, Unit
<1>4. n \in 0..Len(recv_buff_)
  BY <1>1, <1>3, SizeFacts DEF HasPacket, Packet
<1>5. /\ First(recv_buff_, n) \in Seq(Unit) /\ Rest(recv_buff_, n) \in Seq(Unit)
      /\ First(recv_buff_, n) \o Rest(recv_buff_, n) = recv_buff_
  BY <1>1, <1>4, SplitFacts
<1>6. delivered' \in Seq(Packet) /\ parsed' \in Seq(Unit) /\ recv_buff_' \in Seq(Unit)
  <2>1. delivered' \in Seq(Packet)
    BY <1>3, AppendProperties DEF SInv, TypeOK
  <2>2. parsed' \in Seq(Unit) /\ recv_buff_' \in Seq(Unit)
    BY <1>1, <1>5, Joined
  <2>3. QED
    BY <2>1, <2>2
<1>7. TypeOK'
  BY <1>6 DEF SInv, TypeOK, sendVars
<1>8. carried' = parsed' \o recv_buff_' \o eaten' \o wire'
  <2>1. carried = parsed \o recv_buff_ \o eaten \o wire
    BY DEF SInv, StreamKept
  <2>2. parsed \o First(recv_buff_, n) \o Rest(recv_buff_, n) = parsed \o recv_buff_
    <3>1. Cat(First(recv_buff_, n), Rest(recv_buff_, n)) = recv_buff_
      BY <1>5 DEF Cat
    <3>2. Cat(Cat(parsed, First(recv_buff_, n)), Rest(recv_buff_, n)) = Cat(parsed, recv_buff_)
      BY <1>1, <1>5, <3>1, MoveCut DEF Stream
    <3>3. QED
      BY <3>2 DEF Cat
  <2>3. QED
    BY <2>1, <2>2 DEF sendVars
<1>9. QED
  BY <1>7, <1>8, WriterKept DEF SInv, StreamKept, WaitInv

LEMMA ReaderRestSInv ==
  ASSUME SInv, AnalysisDone \/ ReaderGone \/ SpuriousReadEvent \/ Break
  PROVE  SInv'
<1> USE DEF recvVars, CloseReader
<1>1. CASE AsyncRead
  BY <1>1, QuietReader DEF AsyncRead, SInv, TypeOK, sendVars
<1>2. CASE LiveSignalClose
  BY <1>2, QuietReader DEF LiveSignalClose, SInv, TypeOK, sendVars
<1>3. CASE AnalysisDone \/ ReaderGone
  BY <1>1, <1>2, <1>3 DEF AnalysisDone, ReaderGone
<1>4. CASE SpuriousReadEvent
  BY <1>4, QuietReader DEF SpuriousReadEvent, SInv, TypeOK, sendVars
<1>5. CASE Break
  BY <1>5, QuietReader DEF Break, SInv, TypeOK, sendVars
<1>6. QED
  BY <1>1, <1>2, <1>3, <1>4, <1>5

LEMMA NextSInv ==
  ASSUME SInv, [Next]_vars
  PROVE  SInv'
<1>1. CASE UNCHANGED vars
  <2>1. TypeOK'
    BY <1>1 DEF vars, sendVars, recvVars, SInv, TypeOK
  <2>2. QED
    BY <1>1, <2>1, QuietReader DEF vars, recvVars
<1>2. CASE \E w \in Writer :
             (\E s \in Sizes : AsyncWritePacket(w, s)) \/ AsyncWrite(w) \/ PostSend(w)
  BY <1>2, AsyncWritePacketSInv, AsyncWriteSInv, PostSendSInv
<1>3. CASE WriterStep \/ Close
  BY <1>3, OnMessageSInv, SocketWriteEventSInv, SendSInv, SendCompleteSInv, CloseWriterSInv
     DEF WriterStep, SocketErrorEvent, Close
<1>4. CASE ReaderStep \/ SocketReadEnd \/ ReaderGone \/ SpuriousReadEvent \/ Break
  BY <1>4, SocketReadEventSInv, SignalPacketSInv, SocketReadEndSInv, ReaderRestSInv
     DEF ReaderStep
<1>5. QED
  BY <1>1, <1>2, <1>3, <1>4 DEF Next

---------------------------------------------------------------------------
LEMMA SpecSInv == Spec => []SInv
BY InitSInv, NextSInv, PTL DEF Spec

\* A reader that waits has no whole packet in its buffer, and one that came to the end of
\* the stream is closed, with nothing left in the kernels and nobody to send more.
TailInv ==
  /\ ropen /\ reader = "idle" => ~HasPacket
  /\ eof => ~open /\ ~ropen /\ wire = <<>> /\ ~HasPacket

LEMMA InitTail == Init => TailInv
<1> SUFFICES ASSUME Init PROVE TailInv
  OBVIOUS
<1>1. ~HasHeader
  BY SizeFacts DEF Init, HasHeader
<1>2. QED
  BY <1>1 DEF Init, TailInv, HasPacket

\* Steps that leave what is read alone.
LEMMA TailKept ==
  ASSUME TailInv, UNCHANGED <<recv_buff_, reader, eof>>, ropen' => ropen,
         open' => open, eof => wire' = wire /\ ropen' = ropen
  PROVE  TailInv'
<1>1. HasPacket' <=> HasPacket
  BY DEF HasPacket, HasHeader, IsValid, Front
<1>2. QED
  BY <1>1 DEF TailInv

LEMMA NextTail ==
  ASSUME SInv, TailInv, [Next]_vars
  PROVE  TailInv'
<1>1. CASE UNCHANGED vars
  BY <1>1, TailKept DEF vars, sendVars, recvVars
<1>2. ASSUME NEW w \in Writer,
             (\E s \in Sizes : AsyncWritePacket(w, s)) \/ AsyncWrite(w) \/ PostSend(w)
      PROVE  TailInv'
  BY <1>2, TailKept DEF AsyncWritePacket, AsyncWrite, PostSend, recvVars
<1>3. CASE OnMessage \/ SocketWriteEvent \/ SendComplete \/ SocketErrorEvent \/ Close
  <2>1. UNCHANGED <<recvVars, wire>>
    BY <1>3 DEF OnMessage, SocketWriteEvent, SendComplete, SocketErrorEvent, Close, CloseWriter
  <2>2. open' => open
    BY <1>3 DEF OnMessage, SocketWriteEvent, SendComplete, SocketErrorEvent, Close, CloseWriter
  <2>3. QED
    BY <2>1, <2>2, TailKept DEF recvVars
<1>4. CASE Send
  <2>1. open
    BY <1>4 DEF Send, SInv, WaitInv
  <2>2. ~eof
    BY <2>1 DEF TailInv
  <2>3. UNCHANGED <<recv_buff_, reader, eof, ropen, open>>
    BY <1>4 DEF Send, recvVars
  <2>4. QED
    BY <2>2, <2>3, TailKept
<1>5. CASE SocketReadEvent \/ SignalPacket
  <2>1. ~eof
    <3>1. CASE SocketReadEvent
      BY <3>1 DEF SocketReadEvent, Readable, TailInv
    <3>2. CASE SignalPacket
      BY <3>2 DEF SignalPacket, TailInv
    <3>3. QED
      BY <1>5, <3>1, <3>2
  <2>2. reader' = "analysing" /\ eof' = eof
    BY <1>5 DEF SocketReadEvent, SignalPacket
  <2>3. QED
    BY <2>1, <2>2 DEF TailInv
<1>6. CASE AnalysisDone /\ AsyncRead
  <2>1. ~HasPacket
    BY <1>6 DEF AnalysisDone
  <2>2. UNCHANGED <<recv_buff_, eof, ropen, open, wire>>
    BY <1>6 DEF AsyncRead, sendVars
  <2>3. ~HasPacket'
    BY <2>1, <2>2 DEF HasPacket, HasHeader, IsValid, Front
  <2>4. QED
    BY <2>2, <2>3 DEF TailInv
<1>7. CASE SocketReadEnd
  <2>1. /\ ~HasPacket /\ UNCHANGED <<recv_buff_, open>> /\ ~open /\ ropen' = FALSE
        /\ wire' = <<>>
    BY <1>7 DEF SocketReadEnd, CloseReader, Readable, TailInv, sendVars
  <2>2. ~HasPacket'
    BY <2>1 DEF HasPacket, HasHeader, IsValid, Front
  <2>3. QED
    BY <2>1, <2>2 DEF TailInv
<1>8. CASE LiveSignalClose
  <2>1. ropen' = FALSE /\ eof' = FALSE
    BY <1>8 DEF LiveSignalClose, CloseReader
  <2>2. QED
    BY <2>1 DEF TailInv
<1>9. CASE SpuriousReadEvent \/ Break
  BY <1>9, TailKept DEF SpuriousReadEvent, Break, sendVars, recvVars
<1>10. QED
  BY <1>1, <1>2, <1>3, <1>4, <1>5, <1>6, <1>7, <1>8, <1>9
  DEF Next, WriterStep, ReaderStep, AnalysisDone, ReaderGone

LEMMA TailSafe ==
  ASSUME SInv, TailInv
  PROVE  TailDelivered
<1> SUFFICES ASSUME eof, eaten = <<>>
             PROVE  Len(parsed) + Len(recv_buff_) = Len(carried) /\ ~HasPacket
  BY DEF TailDelivered
<1>1. parsed \in Seq(Unit) /\ recv_buff_ \in Seq(Unit)
  BY DEF SInv, TypeOK
<1>2. carried = parsed \o recv_buff_ \o <<>> \o <<>> /\ ~HasPacket
  BY DEF SInv, StreamKept, TailInv
<1>3. /\ parsed \o recv_buff_ \in Seq(Unit)
      /\ Len(parsed \o recv_buff_) = Len(parsed) + Len(recv_buff_)
  BY <1>1, Joined
<1>4. parsed \o recv_buff_ \o <<>> \o <<>> = parsed \o recv_buff_
  <2>1. (parsed \o recv_buff_) \o <<>> = parsed \o recv_buff_
    BY <1>3, Joined, Zenon
  <2>2. QED
    BY <2>1, Zenon
<1>5. QED
  BY <1>2, <1>3, <1>4

\* No unit of the stream is lost, doubled or moved between AsyncWrite and AnalysisPacket,
\* whatever the sizes of packets, blocks, batches and kernel buffers and however sends and
\* reads cut the stream.
THEOREM SpecStreamKept == Spec => []StreamKept
BY SpecSInv, PTL DEF SInv

\* Data waiting in the buffers of an open socket always have a message or a DE_WRITE to wake
\* the service thread, for any number of user threads.
THEOREM SpecNoStall == Spec => []NoStall
BY SpecSInv, PTL DEF SInv

\* When the stream ends in good order every whole packet the kernel took has been signalled,
\* unless Recv met the end right after a filled block.
THEOREM SpecTailDelivered == Spec => []TailDelivered
<1>1. SInv /\ TailInv /\ [Next]_vars => TailInv'
  BY NextTail
<1>2. SInv /\ TailInv => TailDelivered
  BY TailSafe
<1>3. QED
  BY SpecSInv, InitTail, <1>1, <1>2, PTL DEF Spec

\* The type of every variable: packets, blocks and streams of any length.
THEOREM SpecTypeOK == Spec => []TypeOK
BY SpecSInv, PTL DEF SInv

---------------------------------------------------------------------------
(* The safety part of the refinement: the sockets take only steps of the    *)
(* packet channel.  The stream is laid out packet by packet, and AnalysisPacket *)
(* has consumed it up to the end of a packet, so that the header at the     *)
(* front of recv_buff_ is that of the next packet written.                  *)

\* The stream st is packets wr one after the other, and off[k] is where the k-th one ends.
LaidOut(wr, st, off) ==
  /\ off \in [0..Len(wr) -> Nat]
  /\ off[0] = 0 /\ off[Len(wr)] = Len(st)
  /\ \A k \in 1..Len(wr) :
       /\ off[k] = off[k - 1] + HeaderSize + wr[k].size
       /\ \A j \in 1..(HeaderSize + wr[k].size) : st[off[k - 1] + j] = Units(wr[k])[j]

\* AnalysisPacket has signalled some of the packets, and consumed the stream to their end.
Framed ==
  \E off : /\ LaidOut(written, stream, off)
           /\ Len(delivered) <= Len(written)
           /\ off[Len(delivered)] = Len(parsed)

\* What the kernel took is the beginning of what was written.
CarriedFirst ==
  /\ Len(carried) <= Len(stream)
  /\ \A i \in 1..Len(carried) : carried[i] = stream[i]

FrameInv == Framed /\ CarriedFirst

LEMMA PrefixOfJoin ==
  ASSUME NEW a \in Seq(Unit), NEW b \in Seq(Unit)
  PROVE  /\ Len(a) <= Len(a \o b)
         /\ \A i \in 1..Len(a) : (a \o b)[i] = a[i]
OBVIOUS

LEMMA EndOfJoin ==
  ASSUME NEW a \in Seq(Unit), NEW b \in Seq(Unit), NEW j \in 1..Len(b)
  PROVE  (a \o b)[Len(a) + j] = b[j]
OBVIOUS

LEMMA InitFrame == Init => FrameInv
<1> SUFFICES ASSUME Init PROVE FrameInv
  OBVIOUS
<1> DEFINE off == [k \in {0} |-> 0]
<1>1. written = <<>> /\ stream = <<>> /\ delivered = <<>> /\ parsed = <<>> /\ carried = <<>>
  BY DEF Init
<1>2. 0..Len(written) = {0} /\ 1..Len(written) = {} /\ Len(written) = 0 /\ Len(stream) = 0
      /\ Len(delivered) = 0 /\ Len(parsed) = 0 /\ 1..Len(carried) = {} /\ Len(carried) = 0
  BY <1>1
<1>3. off \in [{0} -> Nat] /\ off[0] = 0
  OBVIOUS
<1> HIDE DEF off
<1>4. LaidOut(written, stream, off)
  BY <1>2, <1>3 DEF LaidOut
<1>5. QED
  BY <1>2, <1>3, <1>4 DEF FrameInv, Framed, CarriedFirst

\* Steps that neither write nor signal a packet.
LEMMA FrameKept ==
  ASSUME Framed, UNCHANGED <<written, stream, delivered, parsed>>
  PROVE  Framed'
BY DEF Framed

LEMMA CarriedNext ==
  ASSUME SInv, SInv', CarriedFirst, [Next]_vars
  PROVE  CarriedFirst'
<1>1. CASE open'
  <2>1. /\ carried' \in Seq(Unit) /\ send_buffers_' \in Seq(Unit) /\ write_buffers_' \in Seq(Unit)
        /\ stream' = carried' \o send_buffers_' \o write_buffers_'
    BY <1>1 DEF SInv, TypeOK, StreamKept
  <2>2. /\ carried' \o send_buffers_' \in Seq(Unit)
        /\ Len(carried') <= Len(carried' \o send_buffers_')
        /\ \A i \in 1..Len(carried') : (carried' \o send_buffers_')[i] = carried'[i]
    BY <2>1, PrefixOfJoin
  <2>3. /\ Len(carried' \o send_buffers_') <= Len(stream')
        /\ \A i \in 1..Len(carried' \o send_buffers_') : stream'[i] = (carried' \o send_buffers_')[i]
    BY <2>1, <2>2, PrefixOfJoin
  <2>4. Len(carried') \in Nat /\ Len(carried' \o send_buffers_') \in Nat /\ Len(stream') \in Nat
    <3>1. stream' \in Seq(Unit)
      BY DEF SInv, TypeOK
    <3>2. QED
      BY <2>1, <2>2, <3>1
  <2>5. QED
    <3> DEFINE c == carried'  s == stream'  cs == carried' \o send_buffers_'
    <3>1. /\ Len(c) <= Len(cs) /\ Len(cs) <= Len(s)
          /\ Len(c) \in Nat /\ Len(cs) \in Nat /\ Len(s) \in Nat
          /\ \A i \in 1..Len(c) : cs[i] = c[i]
          /\ \A i \in 1..Len(cs) : s[i] = cs[i]
      BY <2>2, <2>3, <2>4
    <3> HIDE DEF c, s, cs
    <3>2. Len(c) <= Len(s) /\ \A i \in 1..Len(c) : c[i] = s[i]
      BY <3>1
    <3>3. QED
      BY <3>2 DEF c, s, CarriedFirst
<1>2. CASE ~open'
  <2>1. UNCHANGED <<carried, stream>>
    <3>1. CASE UNCHANGED vars
      BY <3>1 DEF vars, sendVars
    <3>2. CASE Send
      <4>1. open /\ open' = open
        BY <3>2 DEF Send, SInv, WaitInv
      <4>2. QED
        BY <1>2, <4>1
    <3>3. CASE \E w \in Writer : AsyncWrite(w)
      BY <1>2, <3>3 DEF AsyncWrite
    <3>4. CASE \E w \in Writer : (\E s \in Sizes : AsyncWritePacket(w, s)) \/ PostSend(w)
      BY <3>4 DEF AsyncWritePacket, PostSend
    <3>5. CASE OnMessage \/ SocketWriteEvent \/ SendComplete \/ SocketErrorEvent \/ Close
      BY <3>5 DEF OnMessage, SocketWriteEvent, SendComplete, SocketErrorEvent, Close, CloseWriter
    <3>6. CASE \/ ReaderStep \/ SocketReadEnd \/ ReaderGone \/ SpuriousReadEvent \/ Break
      BY <3>6 DEF ReaderStep, SocketReadEvent, SignalPacket, AnalysisDone, LiveSignalClose,
                  AsyncRead, SocketReadEnd, ReaderGone, SpuriousReadEvent, Break, sendVars
    <3>7. QED
      BY <3>1, <3>2, <3>3, <3>4, <3>5, <3>6 DEF Next, WriterStep
  <2>2. QED
    BY <2>1 DEF CarriedFirst
<1>3. QED
  BY <1>1, <1>2

LEMMA PacketSize ==
  ASSUME NEW p \in Packet
  PROVE  /\ p.size \in Nat /\ HeaderSize \in Nat \ {0} /\ HeaderSize + p.size \in Nat \ {0}
         /\ Units(p) \in Seq(Unit) /\ Len(Units(p)) = HeaderSize + p.size
<1>1. p.size \in Sizes
  BY DEF Packet
<1>2. p.size \in Nat /\ HeaderSize \in Nat \ {0} /\ HeaderSize + p.size \in Nat \ {0}
  BY <1>1, SizeFacts
<1>3. Units(p) \in Seq(Unit) /\ DOMAIN Units(p) = 1..(HeaderSize + p.size)
  BY UnitsType DEF Units
<1>4. QED
  BY <1>2, <1>3

\* The packets end one after the other, the last one at the end of the stream.  The proof
\* takes the last packet for which this fails.
LEMMA LayoutBound ==
  ASSUME NEW wr \in Seq(Packet), NEW st \in Seq(Unit), NEW off, LaidOut(wr, st, off),
         NEW k \in 0..Len(wr)
  PROVE  off[k] <= Len(st)
<1> DEFINE N == Len(wr)
           Bad == {m \in Nat : m <= N /\ ~(off[N - m] <= Len(st))}
<1>1. N \in Nat /\ Len(st) \in Nat /\ off \in [0..N -> Nat] /\ off[N] = Len(st)
  BY DEF LaidOut
<1>2. \A i \in 1..N : /\ off[i] = off[i - 1] + HeaderSize + wr[i].size
                      /\ wr[i].size \in Nat /\ HeaderSize \in Nat
  BY PacketSize DEF LaidOut
<1> HIDE DEF N
<1>3. ASSUME Bad # {} PROVE FALSE
  <2>1. PICK m \in Bad : \A j \in Bad : ~(<<j, m>> \in OpToRel(<, Nat))
    BY <1>3, WFMin, NatLessThanWellFounded
  <2>2. m \in Nat /\ m <= N /\ ~(off[N - m] <= Len(st))
    OBVIOUS
  <2>3. m # 0
    <3>1. N - 0 = N /\ off[N] <= Len(st)
      BY <1>1
    <3>2. QED
      BY <2>2, <3>1
  <2>4. m - 1 \in Nat /\ m - 1 <= N /\ <<m - 1, m>> \in OpToRel(<, Nat)
    BY <1>1, <2>2, <2>3 DEF OpToRel
  <2>5. off[N - (m - 1)] <= Len(st)
    BY <2>1, <2>4
  <2>6. N - (m - 1) \in 1..N /\ N - m \in 0..N /\ (N - (m - 1)) - 1 = N - m
    BY <1>1, <2>2, <2>3
  <2>7. off[N - (m - 1)] = off[N - m] + HeaderSize + wr[N - (m - 1)].size
    BY <1>2, <2>6
  <2>8. off[N - m] \in Nat /\ wr[N - (m - 1)].size \in Nat /\ HeaderSize \in Nat
    BY <1>1, <1>2, <2>6
  <2>9. QED
    BY <1>1, <2>2, <2>5, <2>7, <2>8
<1>4. N - k \in Nat /\ N - k <= N /\ N - (N - k) = k
  BY <1>1 DEF N
<1>5. N - k \notin Bad
  BY <1>3
<1>6. QED
  BY <1>4, <1>5

\* A packet more.
LEMMA LayoutGrows ==
  ASSUME NEW wr \in Seq(Packet), NEW st \in Seq(Unit), NEW off, LaidOut(wr, st, off),
         NEW p \in Packet
  PROVE  \E g : LaidOut(Append(wr, p), st \o Units(p), g) /\ \A k \in 0..Len(wr) : g[k] = off[k]
<1> DEFINE N == Len(wr)
           S == Len(st)
           n == HeaderSize + p.size
           u == Units(p)
           wr2 == Append(wr, p)
           st2 == st \o u
           g == [k \in 0..(N + 1) |-> IF k <= N THEN off[k] ELSE S + n]
<1>1. N \in Nat /\ S \in Nat /\ off \in [0..N -> Nat] /\ off[0] = 0 /\ off[N] = S
  BY DEF LaidOut
<1>2. n \in Nat /\ p.size \in Nat /\ HeaderSize \in Nat /\ u \in Seq(Unit) /\ Len(u) = n
  BY PacketSize
<1>3. Len(wr2) = N + 1 /\ wr2[N + 1] = p /\ \A k \in 1..N : wr2[k] = wr[k] /\ wr[k] \in Packet
  OBVIOUS
<1>4. /\ Len(st2) = S + n
      /\ \A i \in 1..S : st2[i] = st[i]
      /\ \A j \in 1..n : st2[S + j] = u[j]
  <2> HIDE DEF u, n
  <2>1. Len(st \o u) = S + n
    BY <1>2, Joined
  <2>2. \A i \in 1..S : (st \o u)[i] = st[i]
    BY <1>2, PrefixOfJoin
  <2>3. \A j \in 1..n : (st \o u)[S + j] = u[j]
    BY <1>2, EndOfJoin
  <2>4. QED
    BY <2>1, <2>2, <2>3
<1>5. \A k \in 1..N : /\ off[k] = off[k - 1] + HeaderSize + wr[k].size
                      /\ wr[k].size \in Nat
                      /\ \A j \in 1..(HeaderSize + wr[k].size) : st[off[k - 1] + j] = Units(wr[k])[j]
  BY PacketSize DEF LaidOut
<1>6. \A k \in 0..N : off[k] <= S
  BY LayoutBound
<1> HIDE DEF N, S, n, u, wr2, st2
<1>7. g \in [0..(N + 1) -> Nat] /\ g[N + 1] = S + n /\ \A k \in 0..N : g[k] = off[k]
  BY <1>1, <1>2
<1> HIDE DEF g
<1>8. ASSUME NEW k \in 1..(N + 1)
      PROVE  /\ g[k] = g[k - 1] + HeaderSize + wr2[k].size
             /\ \A j \in 1..(HeaderSize + wr2[k].size) : st2[g[k - 1] + j] = Units(wr2[k])[j]
  <2>1. CASE k = N + 1
    <3>1. k - 1 = N /\ g[k] = S + n /\ g[k - 1] = S /\ wr2[k] = p
      BY <1>1, <1>3, <1>7, <2>1
    <3>2. S + n = S + HeaderSize + p.size
      BY <1>1, <1>2 DEF n
    <3>3. \A j \in 1..(HeaderSize + p.size) : st2[S + j] = Units(p)[j]
      BY <1>4 DEF n, u
    <3>4. QED
      BY <3>1, <3>2, <3>3
  <2>2. CASE k \in 1..N
    <3>1. k - 1 \in 0..N /\ k \in 0..N
      BY <1>1, <2>2
    <3>2. g[k] = off[k] /\ g[k - 1] = off[k - 1] /\ wr2[k] = wr[k]
      BY <1>3, <1>7, <2>2, <3>1
    <3>3. off[k - 1] \in Nat /\ off[k] \in Nat /\ off[k] <= S
      BY <1>1, <1>6, <3>1
    <3>4. /\ off[k] = off[k - 1] + HeaderSize + wr[k].size /\ wr[k].size \in Nat
          /\ \A j \in 1..(HeaderSize + wr[k].size) : st[off[k - 1] + j] = Units(wr[k])[j]
      BY <1>5, <2>2
    <3>5. \A j \in 1..(HeaderSize + wr[k].size) : off[k - 1] + j \in 1..S
      <4>1. \A a, b, h, z \in Nat : b = a + h + z /\ b <= S => \A j \in 1..(h + z) : a + j \in 1..S
        BY <1>1
      <4>2. QED
        BY <1>2, <3>3, <3>4, <4>1
    <3>6. \A j \in 1..(HeaderSize + wr[k].size) : st2[off[k - 1] + j] = Units(wr[k])[j]
      BY <1>4, <3>4, <3>5
    <3>7. QED
      BY <3>2, <3>4, <3>6
  <2>3. QED
    BY <1>1, <2>1, <2>2
<1>9. g[0] = 0 /\ g[Len(wr2)] = Len(st2)
  BY <1>1, <1>3, <1>4, <1>7
<1>10. LaidOut(wr2, st2, g)
  BY <1>3, <1>7, <1>8, <1>9 DEF LaidOut
<1>11. QED
  BY <1>7, <1>10 DEF wr2, st2, u, N

LEMMA FrameWrite ==
  ASSUME SInv, Framed, NEW w \in Writer, AsyncWrite(w)
  PROVE  Framed'
<1>1. CASE ~open
  BY <1>1, FrameKept DEF AsyncWrite, recvVars
<1>2. CASE open
  <2>1. packet[w] \in Packet /\ written \in Seq(Packet) /\ stream \in Seq(Unit)
    BY DEF AsyncWrite, SInv, TypeOK
  <2>2. /\ written' = Append(written, packet[w]) /\ stream' = stream \o Units(packet[w])
        /\ UNCHANGED <<delivered, parsed>>
    BY <1>2 DEF AsyncWrite, recvVars
  <2>3. PICK off : /\ LaidOut(written, stream, off) /\ Len(delivered) <= Len(written)
                   /\ off[Len(delivered)] = Len(parsed)
    BY DEF Framed
  <2>4. PICK g : LaidOut(written', stream', g) /\ \A k \in 0..Len(written) : g[k] = off[k]
    BY <2>1, <2>2, <2>3, LayoutGrows
  <2>5. Len(written') = Len(written) + 1 /\ Len(written) \in Nat /\ Len(delivered) \in Nat
    BY <2>1, <2>2 DEF SInv, TypeOK
  <2>6. Len(delivered') <= Len(written') /\ g[Len(delivered')] = Len(parsed')
    BY <2>2, <2>3, <2>4, <2>5
  <2>7. QED
    BY <2>4, <2>6 DEF Framed
<1>3. QED
  BY <1>1, <1>2

\* The header at the front of recv_buff_ is that of the next packet written.
LEMMA FrontIsNext ==
  ASSUME SInv, FrameInv, ropen, recv_buff_ # <<>>
  PROVE  /\ Len(delivered) < Len(written)
         /\ Front = written[Len(delivered) + 1]
         /\ IsValid
<1>1. PICK off : /\ LaidOut(written, stream, off) /\ Len(delivered) <= Len(written)
                 /\ off[Len(delivered)] = Len(parsed)
  BY DEF FrameInv, Framed
<1> DEFINE D == Len(delivered)
           P == Len(parsed)
<1>2. /\ parsed \in Seq(Unit) /\ recv_buff_ \in Seq(Unit) /\ wire \in Seq(Unit)
      /\ stream \in Seq(Unit) /\ written \in Seq(Packet) /\ D \in Nat /\ P \in Nat
      /\ Len(written) \in Nat /\ Len(carried) \in Nat /\ Len(stream) \in Nat
  BY DEF SInv, TypeOK
<1>3. /\ P + 1 <= Len(carried) /\ carried[P + 1] = recv_buff_[1]
  <2>1. carried = parsed \o recv_buff_ \o <<>> \o wire
    BY DEF SInv, StreamKept, WaitInv
  <2>2. /\ parsed \o recv_buff_ \in Seq(Unit) /\ Len(parsed \o recv_buff_) = P + Len(recv_buff_)
        /\ (parsed \o recv_buff_)[P + 1] = recv_buff_[1]
        /\ Len(recv_buff_) \in Nat \ {0}
    BY <1>2
  <2> DEFINE pr == parsed \o recv_buff_
  <2>3. carried = pr \o wire
    <3> HIDE DEF pr
    <3>1. pr \o <<>> = pr
      BY <2>2, Joined DEF pr
    <3>2. QED
      BY <2>1, <3>1 DEF pr
  <2>4. Len(pr) <= Len(carried) /\ \A i \in 1..Len(pr) : carried[i] = pr[i]
    BY <1>2, <2>2, <2>3, PrefixOfJoin
  <2>5. P + 1 \in 1..Len(pr) /\ Len(pr) \in Nat
    BY <1>2, <2>2
  <2>6. QED
    BY <1>2, <2>2, <2>4, <2>5
<1>4. P + 1 <= Len(stream) /\ stream[P + 1] = recv_buff_[1]
  BY <1>2, <1>3 DEF FrameInv, CarriedFirst
<1>5. D <= Len(written) /\ off[D] = P /\ off[Len(written)] = Len(stream)
  BY <1>1 DEF LaidOut
<1>6. D < Len(written)
  BY <1>2, <1>4, <1>5
<1>7. D + 1 \in 1..Len(written) /\ (D + 1) - 1 = D /\ written[D + 1] \in Packet
  BY <1>2, <1>6
<1>8. 1 \in 1..(HeaderSize + written[D + 1].size)
  <2>1. written[D + 1].size \in Sizes
    BY <1>7 DEF Packet
  <2>2. QED
    BY <2>1, SizeFacts
<1>9. stream[P + 1] = Units(written[D + 1])[1]
  BY <1>1, <1>5, <1>7, <1>8 DEF LaidOut
<1>10. Units(written[D + 1])[1].pkt = written[D + 1] /\ Units(written[D + 1])[1].pos = 1
  BY <1>8 DEF Units
<1>11. QED
  BY <1>4, <1>6, <1>9, <1>10 DEF Front, IsValid

LEMMA FrameSignal ==
  ASSUME SInv, FrameInv, ropen, SignalPacket
  PROVE  /\ Framed'
         /\ Len(delivered) < Len(written)
         /\ delivered' = Append(delivered, written[Len(delivered) + 1])
<1> DEFINE D == Len(delivered)
           n == HeaderSize + Front.size
<1>1. recv_buff_ # <<>> /\ recv_buff_ \in Seq(Unit) /\ n <= Len(recv_buff_)
  BY SizeFacts DEF SignalPacket, HasPacket, HasHeader, SInv, TypeOK
<1>2. D < Len(written) /\ Front = written[D + 1]
  BY <1>1, FrontIsNext
<1>3. /\ delivered \in Seq(Packet) /\ written \in Seq(Packet) /\ D \in Nat /\ Len(written) \in Nat
      /\ parsed \in Seq(Unit) /\ Len(parsed) \in Nat
  BY DEF SInv, TypeOK
<1>4. D + 1 \in 1..Len(written) /\ (D + 1) - 1 = D /\ Front \in Packet /\ n \in 0..Len(recv_buff_)
  <2>1. D + 1 \in 1..Len(written) /\ (D + 1) - 1 = D /\ Front \in Packet
    BY <1>2, <1>3
  <2>2. Front.size \in Sizes
    BY <2>1 DEF Packet
  <2>3. n \in Nat
    BY <2>2, SizeFacts
  <2>4. QED
    BY <1>1, <2>1, <2>3
<1>5. Len(parsed') = Len(parsed) + n
  <2>1. First(recv_buff_, n) \in Seq(Unit) /\ Len(First(recv_buff_, n)) = n
    BY <1>1, <1>4, SplitFacts
  <2>2. parsed' = parsed \o First(recv_buff_, n)
    BY DEF SignalPacket
  <2>3. QED
    BY <1>3, <2>1, <2>2, Joined
<1>6. delivered' = Append(delivered, Front) /\ UNCHANGED <<written, stream>>
  BY DEF SignalPacket, sendVars
<1>7. Len(delivered') = D + 1
  BY <1>3, <1>4, <1>6
<1>8. PICK off : /\ LaidOut(written, stream, off) /\ Len(delivered) <= Len(written)
                 /\ off[Len(delivered)] = Len(parsed)
  BY DEF FrameInv, Framed
<1>9. off[D + 1] = off[D] + HeaderSize + Front.size /\ off[D] = Len(parsed) /\ off[D] \in Nat
  <2>1. off \in [0..Len(written) -> Nat] /\ D \in 0..Len(written)
    BY <1>2, <1>3, <1>8 DEF LaidOut
  <2>2. QED
    BY <1>2, <1>4, <1>8, <2>1 DEF LaidOut
<1>10. Front.size \in Nat /\ HeaderSize \in Nat
  BY <1>4, SizeFacts DEF Packet
<1>11. off[Len(delivered')] = Len(parsed')
  BY <1>3, <1>5, <1>7, <1>9, <1>10
<1>12. Len(delivered') <= Len(written') /\ LaidOut(written', stream', off)
  BY <1>2, <1>3, <1>6, <1>7, <1>8
<1>13. QED
  BY <1>2, <1>6, <1>11, <1>12 DEF Framed

\* The reader analyses only while its socket is open.
ReadOpen == reader = "analysing" => ropen

ChannelInv == SInv /\ FrameInv /\ ReadOpen

\* What a step may do to the packets: write one, signal the next one, or neither.
LEMMA PacketStep ==
  ASSUME SInv, [Next]_vars
  PROVE  \/ SignalPacket
         \/ \E w \in Writer : AsyncWrite(w) /\ open
         \/ UNCHANGED <<written, stream, delivered, parsed>>
<1>1. CASE UNCHANGED vars
  BY <1>1 DEF vars, sendVars, recvVars
<1>2. CASE \E w \in Writer : AsyncWrite(w)
  BY <1>2 DEF AsyncWrite, recvVars
<1>3. CASE \E w \in Writer : (\E s \in Sizes : AsyncWritePacket(w, s)) \/ PostSend(w)
  BY <1>3 DEF AsyncWritePacket, PostSend, recvVars
<1>4. CASE WriterStep \/ Close
  BY <1>4 DEF WriterStep, OnMessage, SocketWriteEvent, Send, SendComplete, SocketErrorEvent, Close,
              CloseWriter, recvVars
<1>5. CASE SocketReadEvent \/ AnalysisDone
  BY <1>5 DEF SocketReadEvent, AnalysisDone, LiveSignalClose, CloseReader, AsyncRead, sendVars
<1>6. CASE SocketReadEnd \/ ReaderGone \/ SpuriousReadEvent \/ Break
  BY <1>6 DEF SocketReadEnd, ReaderGone, LiveSignalClose, CloseReader, SpuriousReadEvent, Break,
              sendVars, recvVars
<1>7. QED
  BY <1>1, <1>2, <1>3, <1>4, <1>5, <1>6 DEF Next, ReaderStep

\* The link only ever goes down, and a write or a signal leaves it alone.
Link == open /\ ropen /\ ~broken /\ ~spurious

LEMMA LinkStep ==
  ASSUME SInv, [Next]_vars
  PROVE  /\ Link' => Link
         /\ ReadOpen => ReadOpen'
         /\ SignalPacket => Link' = Link
         /\ \A w \in Writer : AsyncWrite(w) => Link' = Link
<1>1. CASE UNCHANGED vars
  <2>1. UNCHANGED <<open, ropen, broken, spurious, reader>>
    BY <1>1 DEF vars, sendVars, recvVars
  <2>2. QED
    BY <2>1 DEF Link, ReadOpen
<1>2. CASE \E w \in Writer :
             (\E s \in Sizes : AsyncWritePacket(w, s)) \/ AsyncWrite(w) \/ PostSend(w)
  <2>1. UNCHANGED <<open, ropen, broken, spurious, reader>>
    BY <1>2 DEF AsyncWritePacket, AsyncWrite, PostSend, recvVars
  <2>2. QED
    BY <2>1 DEF Link, ReadOpen
<1>3. CASE WriterStep \/ Close
  <2>1. UNCHANGED <<ropen, broken, spurious, reader>> /\ (open' => open)
    <3>1. CASE SocketErrorEvent \/ Close
      BY <3>1 DEF SocketErrorEvent, Close, CloseWriter, recvVars
    <3>2. CASE OnMessage \/ SocketWriteEvent \/ Send \/ SendComplete
      <4>1. UNCHANGED <<recvVars, broken, open>>
        BY <3>2 DEF OnMessage, SocketWriteEvent, Send, SendComplete
      <4>2. QED
        BY <4>1 DEF recvVars
    <3>3. QED
      BY <1>3, <3>1, <3>2 DEF WriterStep
  <2>2. ~SignalPacket \/ UNCHANGED open
    BY DEF SignalPacket, sendVars
  <2>3. \A w \in Writer : AsyncWrite(w) => UNCHANGED open
    BY DEF AsyncWrite
  <2>4. QED
    BY <2>1, <2>2, <2>3 DEF Link, ReadOpen
<1>4. CASE ReaderStep \/ SocketReadEnd \/ ReaderGone \/ SpuriousReadEvent \/ Break
  <2>1. /\ UNCHANGED open
        /\ (ropen' => ropen) /\ (~broken' => ~broken) /\ (~spurious' => ~spurious)
        /\ ReadOpen => ReadOpen'
    BY <1>4 DEF ReaderStep, SocketReadEvent, SignalPacket, AnalysisDone, LiveSignalClose,
                CloseReader, AsyncRead, SocketReadEnd, ReaderGone, SpuriousReadEvent, Break,
                Readable, ReadOpen, sendVars, recvVars
  <2>2. ~SignalPacket \/ UNCHANGED <<ropen, broken, spurious>>
    BY DEF SignalPacket
  <2>3. \A w \in Writer : AsyncWrite(w) => UNCHANGED <<ropen, broken, spurious>>
    BY DEF AsyncWrite, recvVars
  <2>4. QED
    BY <2>1, <2>2, <2>3 DEF Link
<1>5. QED
  BY <1>1, <1>2, <1>3, <1>4 DEF Next

LEMMA ChannelInvInit == Init => ChannelInv
BY InitSInv, InitFrame DEF ChannelInv, ReadOpen, Init

LEMMA ChannelInvNext == ChannelInv /\ [Next]_vars => ChannelInv'
<1> SUFFICES ASSUME ChannelInv, [Next]_vars PROVE ChannelInv'
  OBVIOUS
<1>1. SInv /\ Framed /\ CarriedFirst /\ FrameInv /\ ReadOpen
  BY DEF ChannelInv, FrameInv
<1>2. SInv'
  BY <1>1, NextSInv
<1>3. CarriedFirst'
  BY <1>1, <1>2, CarriedNext
<1>4. ReadOpen'
  BY <1>1, LinkStep
<1>5. CASE SignalPacket
  <2>1. ropen
    BY <1>1, <1>5 DEF ReadOpen, SignalPacket
  <2>2. Framed'
    BY <1>1, <1>5, <2>1, FrameSignal
  <2>3. QED
    BY <1>2, <1>3, <1>4, <2>2 DEF ChannelInv, FrameInv
<1>6. CASE \E w \in Writer : AsyncWrite(w) /\ open
  <2>1. Framed'
    BY <1>1, <1>6, FrameWrite
  <2>2. QED
    BY <1>2, <1>3, <1>4, <2>1 DEF ChannelInv, FrameInv
<1>7. CASE UNCHANGED <<written, stream, delivered, parsed>>
  <2>1. Framed'
    BY <1>1, <1>7, FrameKept
  <2>2. QED
    BY <1>2, <1>3, <1>4, <2>1 DEF ChannelInv, FrameInv
<1>8. QED
  BY <1>1, <1>5, <1>6, <1>7, PacketStep

\* Every step of the two sockets is a step of the channel, or none.
LEMMA ChannelStep ==
  ASSUME ChannelInv, [Next]_vars
  PROVE  [Channel!Next]_(Channel!vars)
<1>1. SInv /\ FrameInv /\ ReadOpen
  BY DEF ChannelInv
<1>2. CASE SignalPacket
  <2>1. ropen
    BY <1>1, <1>2 DEF ReadOpen, SignalPacket
  <2>2. /\ Len(delivered) < Len(written)
        /\ delivered' = Append(delivered, written[Len(delivered) + 1])
    BY <1>1, <1>2, <2>1, FrameSignal
  <2>3. Link' = Link /\ UNCHANGED written
    BY <1>1, <1>2, LinkStep DEF SignalPacket, sendVars
  <2>4. QED
    BY <2>2, <2>3 DEF Channel!Next, Channel!Deliver, Link
<1>3. CASE \E w \in Writer : AsyncWrite(w) /\ open
  <2>1. PICK w \in Writer : AsyncWrite(w) /\ open
    BY <1>3
  <2>2. packet[w] \in Packet
    BY <1>1, <2>1 DEF AsyncWrite, SInv, TypeOK
  <2>3. written' = Append(written, packet[w]) /\ UNCHANGED delivered
    BY <2>1 DEF AsyncWrite, recvVars
  <2>4. Link' = Link
    BY <1>1, <2>1, LinkStep
  <2>5. QED
    BY <2>2, <2>3, <2>4 DEF Channel!Next, Channel!Write, Link
<1>4. CASE UNCHANGED <<written, stream, delivered, parsed>>
  <2>1. Link' => Link
    BY <1>1, LinkStep
  <2>2. QED
    BY <1>4, <2>1 DEF Channel!Next, Channel!Break, Channel!vars, Link
<1>5. QED
  BY <1>1, <1>2, <1>3, <1>4, PacketStep

\* The two sockets implement the channel the DP bus is built on, its fairness aside: packets
\* are signalled whole, in the order they were appended, each once and none that was not
\* written, however the kernel cuts the stream and whoever closes when (AsyncPacketSocket,
\* AsyncSocketImpl).
THEOREM ImplementsChannel == Spec => Channel!Init /\ [][Channel!Next]_(Channel!vars)
<1>1. Init => Channel!Init
  BY DEF Init, Channel!Init
<1>2. QED
  BY <1>1, ChannelInvInit, ChannelInvNext, ChannelStep, PTL DEF Spec

\* AnalysisPacket never meets a header that makes no sense: a reader that has closed itself
\* was not led to it by the stream.
THEOREM HeadersMakeSense == Spec => [](ropen /\ recv_buff_ # <<>> => IsValid)
<1>1. ChannelInv => (ropen /\ recv_buff_ # <<>> => IsValid)
  BY FrontIsNext DEF ChannelInv
<1>2. QED
  BY <1>1, ChannelInvInit, ChannelInvNext, PTL DEF Spec
=============================================================================
