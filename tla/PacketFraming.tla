----------------------------- MODULE PacketFraming -----------------------------
(***************************************************************************)
(* How a byte stream is cut into packets, in the three places that do it:  *)
(* Session::ProcessRawRecv ("session"), TestServer::DBRecvLoop ("dblink")  *)
(* and the client's PacketStream::RecvPacket ("client").  A byte is the    *)
(* pair of its packet and its place in it; the header is the first         *)
(* HeaderSize bytes and tells the packet's size.  recv returns any number  *)
(* of bytes up to the room it is given.                                    *)
(***************************************************************************)
EXTENDS Naturals, Sequences, SequencesExt

CONSTANTS Kinds, HeaderSize,
          PacketSizes,       \* sizes of the packets sent
          MaxPacketSize, RecvBufferSize, MaxPackets

VARIABLES kind,
          sent,              \* the claimed size of each packet
          arrived,           \* bytes handed out by recv
          buf, offset,       \* the accumulation buffer and its read position
          delivered, open, pc

vars == <<kind, sent, arrived, buf, offset, delivered, open, pc>>

Valid(n) == HeaderSize <= n /\ n <= MaxPacketSize
(* A packet with an invalid size is a header and nothing else. *)
Packet(p) == [i \in 1..(IF Valid(sent[p]) THEN sent[p] ELSE HeaderSize) |-> <<p, i>>]
stream == FlattenSeq([p \in DOMAIN sent |-> Packet(p)])
SizeField(b) == sent[b[1]]

(* A DB server only sends valid sizes. *)
Init ==
  /\ kind \in Kinds /\ sent \in SeqOf(PacketSizes, MaxPackets)
  /\ kind = "dblink" => \A p \in DOMAIN sent : Valid(sent[p])
  /\ arrived = 0 /\ buf = <<>> /\ offset = 0 /\ delivered = <<>> /\ open = TRUE /\ pc = "call"

(* The next bytes of the stream, as many as recv chooses to return. *)
Received(n) == SubSeq(stream, arrived + 1, arrived + n)
Chunks(room) == {n \in 1..room : arrived + n <= Len(stream)}

(***************************************************************************)
(* Session::ProcessRawRecv and DBRecvLoop                                  *)
(***************************************************************************)
(* Faulty variant: a packet cut off by the end of the chunk is dropped. *)
Parse_DropsRest(b, from) ==
  LET RECURSIVE Loop(_, _)
      Loop(o, out) ==
        LET size == SizeField(b[o + 1]) IN
        IF Len(b) - o < HeaderSize THEN [off |-> o, out |-> out, bad |-> FALSE]
        ELSE IF ~Valid(size) THEN [off |-> o, out |-> out, bad |-> TRUE]
        ELSE IF Len(b) - o < size THEN [off |-> Len(b), out |-> out, bad |-> FALSE]
        ELSE Loop(o + size, Append(out, SubSeq(b, o + 1, o + size)))
  IN Loop(from, <<>>)

(* The parsing loop: the packets that are complete from the offset on, the   *)
(* offset after them, and whether an invalid size stopped it.                *)
Parse(b, from) ==
  LET RECURSIVE Loop(_, _)
      Loop(o, out) ==
        LET size == SizeField(b[o + 1]) IN
        IF Len(b) - o < HeaderSize THEN [off |-> o, out |-> out, bad |-> FALSE]
        ELSE IF ~Valid(size) THEN [off |-> o, out |-> out, bad |-> TRUE]
        ELSE IF Len(b) - o < size THEN [off |-> o, out |-> out, bad |-> FALSE]
        ELSE Loop(o + size, Append(out, SubSeq(b, o + 1, o + size)))
  IN Loop(from, <<>>)

(* Consumed bytes are erased once they are more than half of the buffer. *)
Compact(b, o) ==
  IF o > Len(b) \div 2
  THEN buf' = SubSeq(b, o + 1, Len(b)) /\ offset' = 0
  ELSE buf' = b /\ offset' = o

Discard == buf' = <<>> /\ offset' = 0

(* One packet alone in the chunk is delivered from the receive buffer;       *)
(* otherwise the chunk joins the accumulated bytes.  Too many of them, or an *)
(* invalid size, close the session and nothing of the batch is delivered.    *)
ProcessRawRecv(n) ==
  LET data == Received(n)
      whole == n >= HeaderSize /\ SizeField(data[1]) = n /\ Valid(n)
      parsed == Parse(buf \o data, offset)
  IN
  /\ kind = "session" /\ open /\ arrived' = arrived + n
  /\ IF buf = <<>> /\ whole
     THEN delivered' = Append(delivered, data) /\ UNCHANGED <<buf, offset, open>>
     ELSE IF Len(buf) - offset + n > 4 * MaxPacketSize \/ parsed.bad
     THEN Discard /\ open' = FALSE /\ UNCHANGED delivered
     ELSE Compact(buf \o data, parsed.off) /\ delivered' = delivered \o parsed.out /\ UNCHANGED open
  /\ UNCHANGED <<kind, sent, pc>>

DBRecvLoop(n) ==
  LET parsed == Parse(buf \o Received(n), offset) IN
  /\ kind = "dblink" /\ open /\ arrived' = arrived + n
  /\ delivered' = delivered \o parsed.out
  /\ IF parsed.bad THEN Discard ELSE Compact(buf \o Received(n), parsed.off)
  /\ UNCHANGED <<kind, sent, open, pc>>

(***************************************************************************)
(* PacketStream::RecvPacket: a call that times out starts again from what  *)
(* is in the buffer                                                        *)
(***************************************************************************)
TakeIn(n) == buf' = buf \o Received(n) /\ arrived' = arrived + n

RecvPacket_Header(n) ==
  /\ kind = "client" /\ open /\ pc = "call" /\ Len(buf) < HeaderSize
  /\ n <= RecvBufferSize - Len(buf) /\ TakeIn(n)
  /\ pc' = IF Len(buf') < HeaderSize THEN "call" ELSE "size"
  /\ UNCHANGED <<kind, sent, offset, delivered, open>>

RecvPacket_Buffered ==
  /\ kind = "client" /\ open /\ pc = "call" /\ Len(buf) >= HeaderSize /\ pc' = "size"
  /\ UNCHANGED <<kind, sent, arrived, buf, offset, delivered, open>>

(* An invalid size ends the connection. *)
RecvPacket_Size ==
  /\ pc = "size"
  /\ IF Valid(SizeField(buf[1])) THEN pc' = "body" /\ UNCHANGED open ELSE pc' = "call" /\ open' = FALSE
  /\ UNCHANGED <<kind, sent, arrived, buf, offset, delivered>>

RecvPacket_Body(n) ==
  /\ pc = "body" /\ n <= SizeField(buf[1]) - Len(buf) /\ TakeIn(n)
  /\ UNCHANGED <<kind, sent, offset, delivered, open, pc>>

RecvPacket_Timeout ==
  /\ pc = "body" /\ Len(buf) < SizeField(buf[1]) /\ pc' = "call"
  /\ UNCHANGED <<kind, sent, arrived, buf, offset, delivered, open>>

RecvPacket_Success ==
  LET size == SizeField(buf[1]) IN
  /\ pc = "body" /\ Len(buf) >= size /\ pc' = "call"
  /\ delivered' = Append(delivered, SubSeq(buf, 1, size)) /\ buf' = SubSeq(buf, size + 1, Len(buf))
  /\ UNCHANGED <<kind, sent, arrived, offset, open>>

Next ==
  \/ \E n \in Chunks(RecvBufferSize) :
       \/ ProcessRawRecv(n)
       \/ DBRecvLoop(n)
       \/ RecvPacket_Header(n)
       \/ RecvPacket_Body(n)
  \/ RecvPacket_Buffered
  \/ RecvPacket_Size
  \/ RecvPacket_Timeout
  \/ RecvPacket_Success

Spec == Init /\ [][Next]_vars

(***************************************************************************)
(* Properties                                                              *)
(***************************************************************************)
(* Wherever the stream is cut, headers included, the packets delivered are    *)
(* the packets sent, whole and in order; a server-side reader that has taken  *)
(* in the last byte of a packet has delivered it; and a connection is closed  *)
(* only because of an invalid size.                                           *)
FramesIntact ==
  /\ \A p \in DOMAIN delivered : p \in DOMAIN sent /\ delivered[p] = Packet(p)
  /\ kind # "client" /\ open =>
       \A p \in DOMAIN sent :
         Len(FlattenSeq([q \in 1..p |-> Packet(q)])) <= arrived => p \in DOMAIN delivered
  /\ ~open => \E p \in DOMAIN sent : ~Valid(sent[p])
================================================================================
