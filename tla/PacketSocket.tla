---------------------------- MODULE PacketSocket ----------------------------
(***************************************************************************)
(* One direction of a packet connection (lib_bsp/eventservice/net): the     *)
(* writing AsyncPacketSocket and its AsyncSocketImpl in one process, the    *)
(* kernel's TCP stream, and the reading pair in the other process.          *)
(*                                                                          *)
(* User threads append blocks to write_buffers_ under crit_ and post        *)
(* MSG_ASYNC_SEND_DATA; the service thread moves blocks to send_buffers_    *)
(* and sends as much as the kernel takes.  On the other side the service    *)
(* thread reads what has come and cuts it into packets.                     *)
(*                                                                          *)
(* Bytes are abstracted to units: the places where a send, a read or the    *)
(* end of a block may cut the stream.                                       *)
(***************************************************************************)
EXTENDS Integers, Sequences, FiniteSets

CONSTANTS Writer,        \* user threads that write
          Sizes,         \* units of data a packet may have
          HeaderSize,    \* units of PacketHeader
          BlockSize,     \* units of a block (DEFAULT_BLOCK_SIZE)
          MaxSendBlocks, \* MAX_SEND_BLOCK_COUNT
          WireSize,      \* units the kernels hold
          MaxPackets     \* bound: packets written

ASSUME SizeAssumption ==
  /\ Sizes \subseteq Nat /\ MaxPackets \in Nat /\ WireSize \in Nat \ {0}
  /\ HeaderSize \in Nat \ {0} /\ BlockSize \in Nat \ {0} /\ MaxSendBlocks \in Nat \ {0}

Packet == [id : 1..MaxPackets, size : Sizes]

VARIABLES
  \* The writing side:
  pc, packet,       \* where a user thread is in AsyncWrite, and with what
  npackets,
  write_buffers_, send_buffers_,
  posted,           \* MSG_ASYNC_SEND_DATA messages in the queue of the service thread
  writer,           \* its service thread: "idle", or "sending" and holding crit_
  socket_writeable_,
  de_write,         \* DE_WRITE is enabled and the dispatcher in the list
  open,             \* socket_ is not null
  \* The kernels:
  wire, broken,     \* units on their way; the connection has failed
  \* The reading side:
  reader,           \* its service thread: "idle", or "analysing" in AnalysisPacket
  recv_buff_, de_read, ropen,
  \* For the properties:
  written, stream,  \* packets appended to write_buffers_, and their units
  carried,          \* units the kernel took
  delivered, parsed,\* packets signalled by AnalysisPacket, and their units
  eaten,            \* units read and thrown away
  spurious, eof     \* a readable socket had nothing to read; the reader closed at the end of the stream

sendVars == <<pc, packet, npackets, write_buffers_, send_buffers_, posted, writer,
              socket_writeable_, de_write, open, written, stream, carried>>
recvVars == <<reader, recv_buff_, de_read, ropen, delivered, parsed, eaten, spurious, eof>>
vars == <<sendVars, wire, broken, recvVars>>

---------------------------------------------------------------------------
(* Units.                                                                   *)

Unit == [pkt : Packet, pos : Nat, last : BOOLEAN]

\* The units of packet p as AsyncWritePacket lays them out: the header in a block of its own
\* before those of the data.  last marks the end of a block.
Units(p) ==
  [i \in 1..(HeaderSize + p.size) |->
     [pkt |-> p, pos |-> i,
      last |-> \/ i = HeaderSize
               \/ i > HeaderSize /\ (i - HeaderSize) % BlockSize = 0
               \/ i = HeaderSize + p.size]]

First(s, n) == SubSeq(s, 1, n)
Rest(s, n) == SubSeq(s, n + 1, Len(s))

\* How many units the first MaxSendBlocks blocks of s have: the units with fewer block ends
\* before them.
FirstBlocks(s) ==
  LET Ends(i) == Cardinality({j \in 1..(i - 1) : s[j].last})
  IN Cardinality({i \in 1..Len(s) : Ends(i) < MaxSendBlocks})

TypeOK ==
  /\ pc \in [Writer -> {"idle", "append", "post"}]
  /\ packet \in [Writer -> Packet \cup {<<>>}]
  /\ \A w \in Writer : pc[w] = "append" => packet[w] \in Packet
  /\ npackets \in 0..MaxPackets
  /\ write_buffers_ \in Seq(Unit) /\ send_buffers_ \in Seq(Unit)
  /\ posted \in Nat
  /\ writer \in {"idle", "sending"} /\ reader \in {"idle", "analysing"}
  /\ socket_writeable_ \in BOOLEAN /\ de_write \in BOOLEAN /\ open \in BOOLEAN
  /\ wire \in Seq(Unit) /\ Len(wire) <= WireSize /\ broken \in BOOLEAN
  /\ recv_buff_ \in Seq(Unit) /\ de_read \in BOOLEAN /\ ropen \in BOOLEAN
  /\ written \in Seq(Packet) /\ delivered \in Seq(Packet)
  /\ stream \in Seq(Unit) /\ carried \in Seq(Unit) /\ parsed \in Seq(Unit)
  /\ eaten \in Seq(Unit)
  /\ spurious \in BOOLEAN /\ eof \in BOOLEAN

Init ==
  /\ pc = [w \in Writer |-> "idle"] /\ packet = [w \in Writer |-> <<>>] /\ npackets = 0
  /\ write_buffers_ = <<>> /\ send_buffers_ = <<>> /\ posted = 0
  /\ writer = "idle" /\ socket_writeable_ = TRUE /\ de_write = FALSE /\ open = TRUE
  /\ wire = <<>> /\ broken = FALSE
  /\ reader = "idle" /\ recv_buff_ = <<>> /\ de_read = TRUE /\ ropen = TRUE
  /\ written = <<>> /\ stream = <<>> /\ carried = <<>>
  /\ delivered = <<>> /\ parsed = <<>> /\ eaten = <<>>
  /\ spurious = FALSE /\ eof = FALSE

---------------------------------------------------------------------------
(* User threads.                                                            *)

\* AsyncWritePacket builds the packet and finds the socket open ...
AsyncWritePacket(w, size) ==
  /\ pc[w] = "idle" /\ npackets < MaxPackets
  /\ open
  /\ npackets' = npackets + 1
  /\ packet' = [packet EXCEPT ![w] = [id |-> npackets', size |-> size]]
  /\ pc' = [pc EXCEPT ![w] = "append"]
  /\ UNCHANGED <<write_buffers_, send_buffers_, posted, writer, socket_writeable_, de_write,
                 open, wire, broken, recvVars, written, stream, carried>>

\* ... appends its blocks under crit_, though the socket may have been closed since ...
AsyncWrite(w) ==
  /\ pc[w] = "append" /\ writer = "idle"
  /\ write_buffers_' = write_buffers_ \o Units(packet[w])
  /\ IF open THEN /\ written' = Append(written, packet[w])
                  /\ stream' = stream \o Units(packet[w])
             ELSE UNCHANGED <<written, stream>>
  /\ pc' = [pc EXCEPT ![w] = "post"]
  /\ UNCHANGED <<packet, npackets, send_buffers_, posted, writer, socket_writeable_,
                 de_write, open, wire, broken, recvVars, carried>>

\* ... and posts to the service thread.
PostSend(w) ==
  /\ pc[w] = "post"
  /\ posted' = posted + 1
  /\ pc' = [pc EXCEPT ![w] = "idle"]
  /\ packet' = [packet EXCEPT ![w] = <<>>]
  /\ UNCHANGED <<npackets, write_buffers_, send_buffers_, writer, socket_writeable_, de_write,
                 open, wire, broken, recvVars, written, stream, carried>>

---------------------------------------------------------------------------
(* The service thread of the writing side.                                  *)

Nothing == write_buffers_ = <<>> /\ send_buffers_ = <<>>

\* TryToWriteData takes up the loop, or has nothing to do.
TryToWriteData(writeable) ==
  writer' = IF writeable /\ ~Nothing THEN "sending" ELSE "idle"

\* Mutant: a message is handled that was not posted.
OnMessage_always ==
  /\ writer = "idle"
  /\ posted' = posted - 1
  /\ TryToWriteData(socket_writeable_)
  /\ UNCHANGED <<pc, packet, npackets, write_buffers_, send_buffers_, socket_writeable_,
                 de_write, open, wire, broken, recvVars, written, stream, carried>>

OnMessage ==
  /\ writer = "idle" /\ posted > 0
  /\ posted' = posted - 1
  /\ TryToWriteData(socket_writeable_)
  /\ UNCHANGED <<pc, packet, npackets, write_buffers_, send_buffers_, socket_writeable_,
                 de_write, open, wire, broken, recvVars, written, stream, carried>>

\* select found room: OnSocketEvent with DE_WRITE.
SocketWriteEvent ==
  /\ writer = "idle" /\ open /\ de_write /\ ~broken
  /\ Len(wire) < WireSize
  /\ de_write' = FALSE /\ socket_writeable_' = TRUE
  /\ TryToWriteData(TRUE)
  /\ UNCHANGED <<pc, packet, npackets, write_buffers_, send_buffers_, posted, open, wire,
                 broken, recvVars, written, stream, carried>>

\* What the next Send is given, and what it leaves in write_buffers_.  The Base64 encoding of a
\* batch (encode_flag_) is left out: no socket of the bus turns it on.
Batch == IF send_buffers_ = <<>> THEN First(write_buffers_, FirstBlocks(write_buffers_))
         ELSE send_buffers_
Later == IF send_buffers_ = <<>> THEN Rest(write_buffers_, FirstBlocks(write_buffers_))
         ELSE write_buffers_

\* Mutant: a partial send counts as complete.
Send_all ==
  /\ writer = "sending" /\ ~Nothing
  /\ \E n \in 0..Len(Batch) :
       /\ Len(wire) + n <= WireSize
       /\ n = 0 => Len(wire) = WireSize
       /\ wire' = wire \o First(Batch, n) /\ carried' = carried \o First(Batch, n)
       /\ send_buffers_' = IF n = 0 THEN Batch ELSE <<>>
       /\ write_buffers_' = Later
       /\ IF n > 0
          THEN UNCHANGED <<writer, socket_writeable_, de_write>>
          ELSE writer' = "idle" /\ socket_writeable_' = FALSE /\ de_write' = TRUE
  /\ UNCHANGED <<pc, packet, npackets, posted, open, broken, recvVars, written, stream>>

\* Mutant: the thread does not wait for the socket to be writeable.
Send_noWait ==
  /\ writer = "sending" /\ ~Nothing
  /\ \E n \in 0..Len(Batch) :
       /\ Len(wire) + n <= WireSize
       /\ n = 0 => Len(wire) = WireSize
       /\ wire' = wire \o First(Batch, n) /\ carried' = carried \o First(Batch, n)
       /\ send_buffers_' = Rest(Batch, n) /\ write_buffers_' = Later
       /\ IF n = Len(Batch)
          THEN UNCHANGED <<writer, socket_writeable_, de_write>>
          ELSE writer' = "idle" /\ UNCHANGED <<socket_writeable_, de_write>>
  /\ UNCHANGED <<pc, packet, npackets, posted, open, broken, recvVars, written, stream>>

\* One turn of the loop: the kernel takes n units of the batch.  If that is all the loop
\* goes on, else WaitToWriteData.
Send ==
  /\ writer = "sending" /\ ~Nothing
  /\ \E n \in 0..Len(Batch) :
       /\ Len(wire) + n <= WireSize
       /\ n = 0 => Len(wire) = WireSize
       /\ wire' = wire \o First(Batch, n) /\ carried' = carried \o First(Batch, n)
       /\ send_buffers_' = Rest(Batch, n) /\ write_buffers_' = Later
       /\ IF n = Len(Batch)
          THEN UNCHANGED <<writer, socket_writeable_, de_write>>
          ELSE writer' = "idle" /\ socket_writeable_' = FALSE /\ de_write' = TRUE
  /\ UNCHANGED <<pc, packet, npackets, posted, open, broken, recvVars, written, stream>>

SendComplete ==
  /\ writer = "sending" /\ Nothing
  /\ writer' = "idle"
  /\ UNCHANGED <<pc, packet, npackets, write_buffers_, send_buffers_, posted,
                 socket_writeable_, de_write, open, wire, broken, recvVars, written, stream,
                 carried>>

CloseWriter ==
  /\ open' = FALSE /\ socket_writeable_' = FALSE /\ de_write' = FALSE
  /\ write_buffers_' = <<>> /\ send_buffers_' = <<>>
  /\ writer' = "idle"
  /\ UNCHANGED <<pc, packet, npackets, posted, wire, broken, recvVars, written, stream,
                 carried>>

\* A send or select reports the failure: SocketErrorEvent, then Close.
SocketErrorEvent == open /\ broken /\ CloseWriter

\* Close by a user of the socket.
Close == open /\ writer = "idle" /\ CloseWriter

---------------------------------------------------------------------------
(* The kernels, and the service thread of the reading side.                 *)

Break ==
  /\ ~broken /\ broken' = TRUE
  /\ UNCHANGED <<sendVars, wire, recvVars>>

\* The read side closes; what it had read of later packets is never signalled.
CloseReader(atEof) ==
  /\ ropen' = FALSE /\ de_read' = FALSE /\ reader' = "idle" /\ eof' = atEof
  /\ UNCHANGED <<delivered, parsed, recv_buff_, spurious>>

Readable == reader = "idle" /\ ropen /\ de_read

\* Recv reads block by block until one is not filled: n units have come.  If the last block
\* was filled it reads once more, and finds nothing there.
SocketReadEvent ==
  /\ Readable
  /\ \E n \in 1..Len(wire) :
       /\ recv_buff_' = recv_buff_ \o First(wire, n)
       /\ wire' = Rest(wire, n)
  /\ de_read' = FALSE
  /\ reader' = "analysing"
  /\ UNCHANGED <<sendVars, broken, ropen, delivered, parsed, eaten, spurious, eof>>

\* The end of the stream: Recv returns 0 and what it read in the same call is lost.  It comes
\* to the end only when the blocks before it were all filled.
SocketReadEnd ==
  /\ Readable /\ ~open
  /\ Len(wire) % BlockSize = 0
  /\ eaten' = wire /\ wire' = <<>>
  /\ CloseReader(~broken)
  /\ UNCHANGED <<sendVars, broken>>

LiveSignalClose ==
  /\ CloseReader(FALSE)
  /\ broken' = TRUE
  /\ UNCHANGED <<sendVars, wire, eaten>>

\* The connection failed, or the user of the socket closes it, perhaps in the callback of a
\* packet.
ReaderGone == ropen /\ LiveSignalClose

\* select says readable and Recv would block: OnSocketEvent has removed DE_READ.
SpuriousReadEvent ==
  /\ Readable /\ ~spurious
  /\ wire = <<>>
  /\ de_read' = FALSE /\ spurious' = TRUE
  /\ UNCHANGED <<sendVars, wire, broken, reader, recv_buff_, ropen, delivered, parsed, eaten, eof>>

\* The packet at the front of recv_buff_; its header says how long it is.
Front == recv_buff_[1].pkt
HasHeader == Len(recv_buff_) >= HeaderSize
IsValid == recv_buff_[1].pos = 1
HasPacket == HasHeader /\ IsValid /\ Len(recv_buff_) >= HeaderSize + Front.size

\* Mutant: the loop ends after a packet.
SignalPacket_once ==
  /\ reader = "analysing" /\ HasPacket
  /\ delivered' = Append(delivered, Front)
  /\ parsed' = parsed \o First(recv_buff_, HeaderSize + Front.size)
  /\ recv_buff_' = Rest(recv_buff_, HeaderSize + Front.size)
  /\ reader' = "idle" /\ de_read' = TRUE
  /\ UNCHANGED <<sendVars, wire, broken, ropen, eaten, spurious, eof>>

\* Mutant: the header's size is not counted.
SignalPacket_short ==
  /\ reader = "analysing" /\ HasPacket
  /\ delivered' = Append(delivered, Front)
  /\ parsed' = parsed \o First(recv_buff_, Front.size)
  /\ recv_buff_' = Rest(recv_buff_, Front.size)
  /\ UNCHANGED <<sendVars, wire, broken, reader, de_read, ropen, eaten, spurious, eof>>

\* One turn of the loop of AnalysisPacket.
SignalPacket ==
  /\ reader = "analysing" /\ HasPacket
  /\ delivered' = Append(delivered, Front)
  /\ parsed' = parsed \o First(recv_buff_, HeaderSize + Front.size)
  /\ recv_buff_' = Rest(recv_buff_, HeaderSize + Front.size)
  /\ UNCHANGED <<sendVars, wire, broken, reader, de_read, ropen, eaten, spurious, eof>>

AsyncRead ==
  /\ reader' = "idle" /\ de_read' = TRUE
  /\ UNCHANGED <<sendVars, wire, broken, recv_buff_, ropen, delivered, parsed, eaten,
                 spurious, eof>>

\* The loop ends: no more packets, or a header that makes no sense.
AnalysisDone ==
  /\ reader = "analysing" /\ ~HasPacket
  /\ IF HasHeader /\ ~IsValid THEN LiveSignalClose ELSE AsyncRead

---------------------------------------------------------------------------
WriterStep == OnMessage \/ SocketWriteEvent \/ Send \/ SendComplete \/ SocketErrorEvent
ReaderStep == SocketReadEvent \/ SignalPacket \/ AnalysisDone

Next ==
  \/ \E w \in Writer : (\E s \in Sizes : AsyncWritePacket(w, s)) \/ AsyncWrite(w) \/ PostSend(w)
  \/ WriterStep \/ Close
  \/ ReaderStep \/ SocketReadEnd \/ ReaderGone \/ SpuriousReadEvent
  \/ Break

\* The service threads go on as long as they have something to do, and a user thread in
\* AsyncWrite comes to its Post.
Fairness ==
  /\ WF_vars(WriterStep) /\ WF_vars(ReaderStep)
  /\ \A w \in Writer : WF_vars(PostSend(w))

Spec == Init /\ [][Next]_vars /\ Fairness

---------------------------------------------------------------------------
(* Properties.                                                              *)

\* No unit is lost, doubled or moved on its way: what was appended while the socket was open
\* is, in order, what became packets, what waits in recv_buff_, what Recv threw away at the
\* end of the stream, what is in the kernels and what waits in the two write buffers.
StreamKept ==
  /\ carried = parsed \o recv_buff_ \o eaten \o wire
  /\ open => stream = carried \o send_buffers_ \o write_buffers_

\* Data that wait are never forgotten: the service thread is at them, a message for them is
\* in its queue or about to be posted, or the socket is watched for DE_WRITE.
NoStall ==
  open /\ writer = "idle" /\ ~Nothing
    => \/ posted > 0
       \/ de_write
       \/ \E w \in Writer : pc[w] = "post"

\* A stream that ends in good order has been delivered to the last packet the kernel took
\* whole, unless Recv met the end right after a filled block.
TailDelivered ==
  eof /\ eaten = <<>> =>
    Len(parsed) + Len(recv_buff_) = Len(carried) /\ ~HasPacket

Channel == INSTANCE PacketChannel WITH
  sent <- written, received <- delivered,
  up <- open /\ ropen /\ ~broken /\ ~spurious

\* The two sockets implement the packet channel: packets arrive whole and in order, and all
\* of them while neither side closes, the connection holds and select is not wrong.
IsChannel == Channel!Spec
=============================================================================
