------------------------- MODULE JpegTransportProofs -------------------------
(***************************************************************************)
(* The room in a Motion-JPEG packet, for every packet size, every frame    *)
(* whose headers leave room for one octet of scan data, and every pattern  *)
(* of refused sends; and what a receiver assembles from the packets, for   *)
(* every pattern of refused sends and losses.                              *)
(***************************************************************************)
EXTENDS JpegTransport, RtpTransportProofs

JpegPayloads ==
  [type : 0 .. 255, q : 0 .. 255, offset : Nat, tables : Nat, hdr : Nat, len : Nat,
   at : Nat, frame : Nat, of : Frames]
JpegPackets == [seq : 0 .. U16 - 1, ts : 0 .. U32 - 1, marker : BOOLEAN,
                at : Timestamps, payload : JpegPayloads]

(* The variables stay in their types. *)
JpegTypeOK ==
  /\ seq_num \in 0 .. U16 - 1 /\ clock_rate \in ClockRates /\ ts_base_us \in TsBases
  /\ count \in Nat
  /\ wire \in Seq(JpegPackets)

(* A call in the loop: only its first turn is at offset 0, and the loop    *)
(* is only entered again while scan data is left.                          *)
CallOK ==
  call.stage = "send" =>
    /\ call \in [stage : {"send"}, ts : Timestamps, frame : Frames, offset : Nat, first : BOOLEAN]
    /\ call.first <=> call.offset = 0
    /\ call.offset < call.frame.len \/ (call.frame.len = 0 /\ call.first)

JpegIInv == JpegTypeOK /\ CallOK /\ PacketsFit

(* What PacketsFit says of one packet. *)
Fits(p) ==
  /\ p.hdr + p.len <= MaxPacketSize
  /\ p.len > 0 \/ p.of.len = 0
  /\ p.offset = p.at
  /\ p.tables > 0 => p.offset = 0

LEMMA HeaderSizes ==
  ASSUME NEW frame \in Frames
  PROVE  /\ qt_block_size(frame) \in Nat
         /\ restart_hdr_size(frame) \in Nat
         /\ first_hdr_size(frame) = MAIN_HEADER_SIZE + restart_hdr_size(frame) + qt_block_size(frame)
         /\ cont_hdr_size(frame) = MAIN_HEADER_SIZE + restart_hdr_size(frame)
         /\ MaxPacketSize \in Nat /\ MaxPacketSize > first_hdr_size(frame)
         /\ frame.qt0 + frame.qt1 \in Nat
<1>1. /\ frame.qt0 \in Nat /\ frame.qt1 \in Nat /\ MaxPacketSize \in Nat
      /\ MaxPacketSize > first_hdr_size(frame)
  BY JpegAssumption
<1>2. qt_block_size(frame) \in Nat
  BY <1>1 DEF qt_block_size, QT_HEADER_SIZE
<1>3. restart_hdr_size(frame) \in Nat
  BY DEF restart_hdr_size, RESTART_HEADER_SIZE
<1>4. cont_hdr_size(frame) = MAIN_HEADER_SIZE + restart_hdr_size(frame)
  BY DEF cont_hdr_size
<1>5. first_hdr_size(frame) = MAIN_HEADER_SIZE + restart_hdr_size(frame) + qt_block_size(frame)
  BY <1>4 DEF first_hdr_size
<1> QED
  BY <1>1, <1>2, <1>3, <1>4, <1>5

(* The packet of one turn of the loop. Its room is what the headers it     *)
(* carries leave, at least one octet, so scan data goes out in every turn. *)
LEMMA PayloadFits ==
  ASSUME NEW frame \in Frames, NEW first \in BOOLEAN, NEW offset \in Nat,
         first <=> offset = 0,
         offset < frame.len \/ (frame.len = 0 /\ first),
         count \in Nat
  PROVE  LET remaining == frame.len - offset
             room == budget(frame, first)
             chunk == IF remaining < room THEN remaining ELSE room
         IN  /\ chunk \in Nat
             /\ chunk > 0 \/ frame.len = 0
             /\ Payload(frame, first, offset, chunk) \in JpegPayloads
             /\ Fits(Payload(frame, first, offset, chunk))
<1> DEFINE hdr == MAIN_HEADER_SIZE + restart_hdr_size(frame)
                    + (IF first THEN qt_block_size(frame) ELSE 0)
           room == budget(frame, first)
           remaining == frame.len - offset
           chunk == IF remaining < room THEN remaining ELSE room
           tables == IF first THEN frame.qt0 + frame.qt1 ELSE 0
           p == Payload(frame, first, offset, chunk)
<1>1. hdr \in Nat /\ room \in Nat \ {0} /\ hdr + room = MaxPacketSize /\ MaxPacketSize \in Nat
  BY HeaderSizes DEF budget, MAIN_HEADER_SIZE
<1>2. /\ frame.len \in Nat /\ frame.len < OffsetMod /\ OffsetMod \in Nat \ {0}
      /\ frame.type \in 0 .. 255 /\ frame.q \in 0 .. 255
  BY JpegAssumption
<1>3. tables \in Nat /\ (tables > 0 => offset = 0)
  BY HeaderSizes
<1>4. offset % OffsetMod = offset
  BY <1>2
<1>5. /\ p.type = frame.type /\ p.q = frame.q /\ p.offset = offset % OffsetMod
      /\ p.tables = tables /\ p.hdr = hdr /\ p.len = chunk /\ p.at = offset
      /\ p.frame = count /\ p.of = frame
  BY DEF Payload
<1>6. p = [type |-> frame.type, q |-> frame.q, offset |-> offset % OffsetMod,
           tables |-> tables, hdr |-> hdr, len |-> chunk, at |-> offset,
           frame |-> count, of |-> frame]
  BY DEF Payload
<1> HIDE DEF hdr, room, tables, p
<1>7. chunk \in Nat /\ (chunk > 0 \/ frame.len = 0) /\ chunk <= room
  BY <1>1, <1>2
<1> HIDE DEF chunk
<1>8. p \in JpegPayloads
  BY <1>1, <1>2, <1>3, <1>4, <1>6, <1>7 DEF JpegPayloads
<1>9. Fits(p)
  <2>1. hdr + chunk <= MaxPacketSize
    BY <1>1, <1>7
  <2> QED
    BY <2>1, <1>3, <1>4, <1>5, <1>7 DEF Fits
<1> QED
  BY <1>7, <1>8, <1>9 DEF p, chunk, room

LEMMA JpegInvInit == JpegInit => JpegIInv
<1>1. SUFFICES ASSUME JpegInit PROVE JpegIInv
  OBVIOUS
<1>2. 0 \in 0 .. U16 - 1 /\ 0 \in Nat /\ << >> \in Seq(JpegPackets)
  BY WidthAssumption
<1>3. JpegTypeOK
  BY <1>1, <1>2 DEF JpegInit, Init, JpegTypeOK
<1>4. CallOK
  BY <1>1 DEF JpegInit, Idle, CallOK
<1>5. PacketsFit
  BY <1>1 DEF JpegInit, Init, PacketsFit
<1> QED
  BY <1>3, <1>4, <1>5 DEF JpegIInv

(* The wire keeps what it holds and gains at most a packet that fits. *)
LEMMA WireKeeps ==
  ASSUME JpegIInv, NEW pkt \in JpegPackets, Fits(pkt.payload),
         wire' = wire \/ wire' = Append(wire, pkt)
  PROVE  wire' \in Seq(JpegPackets) /\ PacketsFit'
<1>0. wire \in Seq(JpegPackets) /\ PacketsFit
  BY DEF JpegIInv, JpegTypeOK
<1>1. CASE wire' = wire
  BY <1>0, <1>1 DEF PacketsFit
<1>2. CASE wire' = Append(wire, pkt)
  <2>1. /\ wire' \in Seq(JpegPackets)
        /\ Len(wire') = Len(wire) + 1 /\ Len(wire) \in Nat
        /\ \A i \in 1 .. Len(wire) : wire'[i] = wire[i]
        /\ wire'[Len(wire) + 1] = pkt
    BY <1>0, <1>2
  <2>2. \A i \in 1 .. Len(wire) : Fits(wire[i].payload)
    BY <1>0 DEF PacketsFit, Fits
  <2>3. ASSUME NEW i \in 1 .. Len(wire') PROVE Fits(wire'[i].payload)
    <3>1. i \in 1 .. Len(wire) \/ i = Len(wire) + 1
      BY <2>1
    <3> QED
      BY <2>1, <2>2, <3>1
  <2> QED
    BY <2>1, <2>3 DEF PacketsFit, Fits
<1> QED
  BY <1>1, <1>2

(* One turn of the loop. *)
LEMMA SendChunkKeeps ==
  ASSUME JpegIInv, NEW ret \in {0, -1}, SendChunk(ret)
  PROVE  JpegIInv'
<1> DEFINE remaining == call.frame.len - call.offset
           room == budget(call.frame, call.first)
           chunk == IF remaining < room THEN remaining ELSE room
           marker == call.offset + chunk = call.frame.len
           p == Payload(call.frame, call.first, call.offset, chunk)
           pkt == PacketOf(call.ts, marker, p)
<1>0. JpegTypeOK /\ call.stage = "send"
  BY DEF JpegIInv, SendChunk
<1>1. /\ call \in [stage : {"send"}, ts : Timestamps, frame : Frames, offset : Nat, first : BOOLEAN]
      /\ call.first <=> call.offset = 0
      /\ call.offset < call.frame.len \/ (call.frame.len = 0 /\ call.first)
  BY <1>0 DEF JpegIInv, CallOK
<1>2. Emit(marker, p, ret) /\ Advance(chunk, ret) /\ UNCHANGED count
  BY DEF SendChunk
<1>3. /\ call.ts \in Timestamps /\ call.frame \in Frames
      /\ call.offset \in Nat /\ call.first \in BOOLEAN
      /\ call.frame.len \in Nat
  BY <1>1, JpegAssumption
<1>4. /\ chunk \in Nat /\ (chunk > 0 \/ call.frame.len = 0)
      /\ p \in JpegPayloads /\ Fits(p)
  BY <1>0, <1>1, <1>3, PayloadFits DEF JpegTypeOK
<1> HIDE DEF p, chunk
<1>5. pkt \in JpegPackets /\ pkt.payload = p
  <2>1. compute_timestamp(call.ts) \in 0 .. U32 - 1
    BY <1>0, <1>3, TimestampType DEF JpegTypeOK
  <2>2. marker \in BOOLEAN
    OBVIOUS
  <2> HIDE DEF marker
  <2> QED
    BY <1>0, <1>3, <1>4, <2>1, <2>2 DEF PacketOf, JpegPackets, JpegTypeOK
<1>6. /\ wire' = wire \/ wire' = Append(wire, pkt)
      /\ UNCHANGED <<clock_rate, ts_base_us>>
      /\ seq_num' = seq_num \/ seq_num' = (seq_num + 1) % U16
  BY <1>2 DEF Emit, SendPacket, Account, counters, config
<1> HIDE DEF pkt
<1>7. wire' \in Seq(JpegPackets) /\ PacketsFit'
  BY <1>4, <1>5, <1>6, WireKeeps
<1>8. JpegTypeOK'
  <2>1. (seq_num + 1) % U16 \in 0 .. U16 - 1 /\ seq_num \in 0 .. U16 - 1
    BY <1>0, WidthAssumption, DivMod DEF JpegTypeOK
  <2> QED
    BY <1>0, <1>2, <1>6, <1>7, <2>1 DEF JpegTypeOK
<1>9. CallOK'
  <2>1. CASE ret = -1 \/ call.offset + chunk >= call.frame.len
    BY <1>2, <2>1 DEF Advance, CallOK
  <2>2. CASE ret # -1 /\ ~ (call.offset + chunk >= call.frame.len)
    <3>1. call' = [call EXCEPT !.offset = call.offset + chunk, !.first = FALSE]
      BY <1>2, <2>2 DEF Advance
    <3>2. call.frame.len # 0
      BY <1>3, <1>4, <2>2
    <3>3. /\ call.offset + chunk \in Nat /\ call.offset + chunk # 0
          /\ call.offset + chunk < call.frame.len
      BY <1>3, <1>4, <2>2, <3>2
    <3> DEFINE o == call.offset + chunk
    <3> HIDE DEF o
    <3>4. o \in Nat /\ o # 0 /\ o < call.frame.len
      BY <3>3 DEF o
    <3>5. /\ call' \in [stage : {"send"}, ts : Timestamps, frame : Frames, offset : Nat, first : BOOLEAN]
          /\ call'.offset = o /\ call'.first = FALSE /\ call'.frame = call.frame
      BY <1>1, <3>1, <3>4 DEF o
    <3> QED
      BY <3>4, <3>5 DEF CallOK
  <2> QED
    BY <2>1, <2>2
<1> QED
  BY <1>7, <1>8, <1>9 DEF JpegIInv

LEMMA JpegInvStep == JpegIInv /\ [JpegNext]_jpegVars => JpegIInv'
<1>1. SUFFICES ASSUME JpegIInv, [JpegNext]_jpegVars PROVE JpegIInv'
  OBVIOUS
<1>2. CASE UNCHANGED jpegVars
  BY <1>1, <1>2 DEF jpegVars, rtpVars, JpegIInv, JpegTypeOK, CallOK, PacketsFit
<1>3. ASSUME NEW ts \in Timestamps, NEW frame \in Frames, Call(ts, frame)
      PROVE  JpegIInv'
  <2>1. /\ UNCHANGED <<seq_num, clock_rate, ts_base_us, wire>>
        /\ count' = count + 1
        /\ call' = [stage |-> "send", ts |-> ts, frame |-> frame, offset |-> 0, first |-> TRUE]
    BY <1>3 DEF Call, rtpVars
  <2>2. frame.len \in Nat
    BY JpegAssumption
  <2>3. JpegTypeOK' /\ PacketsFit'
    BY <1>1, <2>1 DEF JpegIInv, JpegTypeOK, PacketsFit
  <2>4. CallOK'
    BY <2>1, <2>2 DEF CallOK
  <2> QED
    BY <2>3, <2>4 DEF JpegIInv
<1>4. ASSUME NEW ret \in {0, -1}, SendChunk(ret)
      PROVE  JpegIInv'
  BY <1>1, <1>4, SendChunkKeeps
<1>5. CASE Return
  <2>1. UNCHANGED <<rtpVars, count>> /\ call' = Idle
    BY <1>5 DEF Return
  <2> QED
    BY <1>1, <2>1 DEF rtpVars, Idle, JpegIInv, JpegTypeOK, CallOK, PacketsFit
<1> QED
  BY <1>1, <1>2, <1>3, <1>4, <1>5 DEF JpegNext

-----------------------------------------------------------------------------

(* No packet outgrows MaxPacketSize, with a restart header, quantization   *)
(* tables, both or neither (jpeg_transport.c:88-124); none but an empty    *)
(* frame's goes without scan data, and the fragment offset is never cut.   *)
THEOREM EveryPacketFits == JpegSpec => []PacketsFit
<1>1. JpegIInv => PacketsFit
  BY DEF JpegIInv
<1> QED
  BY <1>1, JpegInvInit, JpegInvStep, PTL DEF JpegSpec
-----------------------------------------------------------------------------
(* What the receiver assembles: whole frames and nothing else, for every   *)
(* pattern of refused sends and losses.                                    *)

Fragments == [frame : Nat, ts : 0 .. U32 - 1, from : Nat, to : Nat, tables : Nat]

RxTypeOK ==
  rx \in [next : -1 .. U16 - 1, frags : Seq(Fragments), done : Seq(Seq(Fragments)),
          gap : 0 .. U16 - 1, hurt : SUBSET Nat]

(* Fragments that are the beginning of one frame, and how far they reach. *)
PartOf(frags) ==
  /\ frags # << >>
  /\ frags[1].from = 0
  /\ \A k \in 1 .. Len(frags) - 1 :
       frags[k + 1].frame = frags[1].frame /\ frags[k + 1].from = frags[k].to

EndOf(frags) == frags[Len(frags)].to

LEMMA PartSingle ==
  ASSUME NEW f \in Fragments, f.from = 0
  PROVE  PartOf(<<f>>) /\ <<f>>[1] = f /\ EndOf(<<f>>) = f.to /\ <<f>>[Len(<<f>>)] = f
         /\ <<f>> \in Seq(Fragments)
<1>1. Len(<<f>>) = 1 /\ <<f>>[1] = f /\ <<f>> # << >>
  OBVIOUS
<1>2. 1 .. Len(<<f>>) - 1 = {}
  BY <1>1
<1> QED
  BY <1>1, <1>2 DEF PartOf, EndOf

LEMMA PartAppend ==
  ASSUME NEW frags \in Seq(Fragments), PartOf(frags),
         NEW f \in Fragments, f.frame = frags[1].frame, f.from = EndOf(frags)
  PROVE  LET a == Append(frags, f)
         IN  PartOf(a) /\ a[1] = frags[1] /\ EndOf(a) = f.to /\ a[Len(a)] = f
             /\ a \in Seq(Fragments)
<1> DEFINE n == Len(frags)
           a == Append(frags, f)
<1>1. n \in Nat /\ n # 0
  BY EmptySeq DEF PartOf
<1>2. /\ a \in Seq(Fragments) /\ Len(a) = n + 1 /\ a[n + 1] = f
      /\ \A i \in 1 .. n : a[i] = frags[i]
  BY AppendProperties
<1> HIDE DEF a
<1>3. a # << >>
  <2>1. Len(a) # 0
    BY <1>1, <1>2
  <2> QED
    BY <2>1
<1>4. a[1] = frags[1]
  BY <1>1, <1>2
<1>5. a[Len(a)] = f /\ EndOf(a) = f.to
  BY <1>2 DEF EndOf
<1>6. ASSUME NEW k \in 1 .. Len(a) - 1
      PROVE  a[k + 1].frame = a[1].frame /\ a[k + 1].from = a[k].to
  <2>1. k \in 1 .. n /\ a[k] = frags[k]
    BY <1>1, <1>2
  <2>2. CASE k = n
    BY <1>2, <1>4, <2>1, <2>2 DEF EndOf
  <2>3. CASE k # n
    <3>1. k \in 1 .. n - 1 /\ k + 1 \in 1 .. n
      BY <1>1, <2>1, <2>3
    <3>2. a[k + 1] = frags[k + 1]
      BY <1>2, <3>1
    <3> QED
      BY <1>4, <2>1, <3>1, <3>2 DEF PartOf
  <2> QED
    BY <2>2, <2>3
<1>7. frags[1].from = 0
  BY DEF PartOf
<1> QED
  BY <1>2, <1>3, <1>4, <1>5, <1>6, <1>7 DEF PartOf, a

(* The frame is the one send_frame is in. *)
Sending(frame) == call.stage = "send" /\ frame = count

(* The receiver has counted along with the sender. *)
Counted ==
  /\ rx.next = -1 => rx.frags = << >>
  /\ rx.next # -1 => seq_num = (rx.next + rx.gap) % U16

(* Packets belong to frames that were sent, each to one. *)
WireFrames ==
  \A j \in 1 .. Len(wire) :
    /\ wire[j].payload.frame <= count
    /\ Sending(wire[j].payload.frame) => wire[j].payload.of = call.frame

(* The tables of a first fragment are those of its frame. *)
TablesOK(f) ==
  /\ Sending(f.frame) => f.tables = call.frame.qt0 + call.frame.qt1
  /\ \A j \in 1 .. Len(wire) : wire[j].payload.frame = f.frame =>
       f.tables = wire[j].payload.of.qt0 + wire[j].payload.of.qt1

(* The receiver holds the beginning of a frame, and while the loop runs    *)
(* and nothing was lost, what the loop has sent.                           *)
HeldOK ==
  rx.frags # << >> => /\ PartOf(rx.frags)
                      /\ rx.frags[1].frame <= count
                      /\ TablesOK(rx.frags[1])

Joins ==
  (rx.frags # << >> /\ rx.gap = 0 /\ call.stage = "send" /\ call.offset # 0) =>
    /\ rx.frags[1].frame = count
    /\ EndOf(rx.frags) = call.offset
    /\ rx.frags[Len(rx.frags)].ts = compute_timestamp(call.ts)

(* A finished frame is whole, and its call is over. *)
DoneOK ==
  \A i \in 1 .. Len(rx.done) :
    LET f == rx.done[i]
    IN  /\ PartOf(f) /\ f[1].frame <= count /\ ~ Sending(f[1].frame)
        /\ TablesOK(f[1])
        /\ \A j \in 1 .. Len(wire) :
             wire[j].payload.frame = f[1].frame => EndOf(f) = wire[j].payload.of.len

(* A frame none of whose packets was lost is with the receiver as far as   *)
(* the loop has come.                                                      *)
Arriving ==
  (call.stage = "send" /\ call.offset # 0 /\ count \notin rx.hurt) =>
    rx.frags # << >> /\ rx.gap = 0

ReceiverOK == RxTypeOK /\ Counted /\ HeldOK /\ DoneOK

FramesIInv ==
  /\ JpegIInv /\ ReceiverOK /\ WireFrames /\ Joins /\ Arriving
  /\ SuccessMeansDelivered

-----------------------------------------------------------------------------

(* One packet at the receiver. *)
FragOf(pkt) ==
  LET p == pkt.payload
  IN  [frame |-> p.frame, ts |-> pkt.ts, from |-> p.at + HeaderByFields(p) - p.hdr,
       to |-> p.at + p.len, tables |-> p.tables]

Extended(pkt) ==
  IF pkt.payload.offset = 0 THEN <<FragOf(pkt)>>
  ELSE IF /\ pkt.seq = rx.next /\ rx.frags # << >>
          /\ rx.frags[Len(rx.frags)].ts = pkt.ts /\ rx.frags[Len(rx.frags)].to = pkt.payload.offset
       THEN Append(rx.frags, FragOf(pkt))
  ELSE << >>

Completes(pkt) == Extended(pkt) # << >> /\ pkt.marker

LEMMA ReceiveFields ==
  ASSUME RxTypeOK, NEW pkt
  PROVE  /\ Receive(pkt).next = (pkt.seq + 1) % U16
         /\ Receive(pkt).gap = 0
         /\ Receive(pkt).hurt = rx.hurt
         /\ Receive(pkt).frags = IF Completes(pkt) THEN << >> ELSE Extended(pkt)
         /\ Receive(pkt).done = IF Completes(pkt) THEN Append(rx.done, Extended(pkt)) ELSE rx.done
BY DEF Receive, Extended, Completes, FragOf, RxTypeOK

(* The packet of a turn of the loop, and what a receiver makes of it.      *)
Turn(chunk, p, f) ==
  /\ chunk \in Nat /\ chunk <= call.frame.len - call.offset
  /\ chunk > 0 \/ call.frame.len = 0
  /\ p = Payload(call.frame, call.first, call.offset, chunk) /\ p \in JpegPayloads
  /\ p.frame = count /\ p.of = call.frame /\ p.offset = call.offset
  /\ f = [frame |-> count, ts |-> compute_timestamp(call.ts), from |-> call.offset,
          to |-> call.offset + chunk,
          tables |-> IF call.offset = 0 THEN call.frame.qt0 + call.frame.qt1 ELSE 0]
  /\ f \in Fragments

(* The fields of the main header give a receiver the size of all headers.  *)
LEMMA HeadersTell ==
  ASSUME NEW frame \in Frames, NEW first \in BOOLEAN, NEW offset \in Nat, NEW chunk \in Nat,
         first <=> offset = 0, offset <= frame.len
  PROVE  LET p == Payload(frame, first, offset, chunk)
         IN  HeaderByFields(p) = p.hdr /\ p.offset = offset /\ p.hdr \in Nat
<1> DEFINE p == Payload(frame, first, offset, chunk)
           r == restart_hdr_size(frame)
           t == IF first THEN frame.qt0 + frame.qt1 ELSE 0
<1>1. /\ frame.len \in Nat /\ frame.len < OffsetMod /\ OffsetMod \in Nat \ {0}
      /\ frame.qt0 \in Nat /\ frame.qt1 \in Nat
      /\ (qt_block_size(frame) > 0 <=> frame.q >= Q_DYNAMIC)
  BY JpegAssumption
<1>2. offset % OffsetMod = offset
  BY <1>1
<1>3. /\ p.type = frame.type /\ p.q = frame.q /\ p.offset = offset /\ p.tables = t
      /\ p.hdr = MAIN_HEADER_SIZE + r + (IF first THEN qt_block_size(frame) ELSE 0)
  BY <1>2 DEF Payload
<1>4. r = IF p.type \in TYPE_RESTART .. 127 THEN RESTART_HEADER_SIZE ELSE 0
  BY <1>3 DEF restart_hdr_size, has_restart
<1> HIDE DEF p
<1>5. (IF p.offset = 0 /\ p.q >= Q_DYNAMIC THEN QT_HEADER_SIZE + p.tables ELSE 0)
        = IF first THEN qt_block_size(frame) ELSE 0
  <2>1. CASE first /\ frame.q >= Q_DYNAMIC
    <3>1. qt_block_size(frame) = QT_HEADER_SIZE + frame.qt0 + frame.qt1
      BY <1>1, <2>1 DEF qt_block_size
    <3> QED
      BY <1>1, <1>3, <2>1, <3>1 DEF QT_HEADER_SIZE
  <2>2. CASE first /\ ~ (frame.q >= Q_DYNAMIC)
    <3>1. qt_block_size(frame) = 0
      BY <1>1, <2>2 DEF qt_block_size, QT_HEADER_SIZE
    <3> QED
      BY <1>3, <2>2, <3>1
  <2>3. CASE ~ first
    BY <1>3, <2>3
  <2> QED
    BY <2>1, <2>2, <2>3
<1>6. HeaderByFields(p) = MAIN_HEADER_SIZE + r + (IF first THEN qt_block_size(frame) ELSE 0)
  BY <1>4, <1>5 DEF HeaderByFields
<1>7. r \in Nat /\ qt_block_size(frame) \in Nat
  BY HeaderSizes
<1>8. p.hdr \in Nat
  BY <1>3, <1>7 DEF MAIN_HEADER_SIZE
<1> QED
  BY <1>3, <1>6, <1>8 DEF p

LEMMA TurnOfLoop ==
  ASSUME JpegIInv, NEW ret \in {0, -1}, SendChunk(ret)
  PROVE  \E chunk, p, f :
           /\ Turn(chunk, p, f)
           /\ FragOf(PacketOf(call.ts, call.offset + chunk = call.frame.len, p)) = f
           /\ Emit(call.offset + chunk = call.frame.len, p, ret)
           /\ Advance(chunk, ret) /\ count' = count
<1> DEFINE remaining == call.frame.len - call.offset
           room == budget(call.frame, call.first)
           chunk == IF remaining < room THEN remaining ELSE room
           p == Payload(call.frame, call.first, call.offset, chunk)
           f == [frame |-> count, ts |-> compute_timestamp(call.ts), from |-> call.offset,
                 to |-> call.offset + chunk,
                 tables |-> IF call.offset = 0 THEN call.frame.qt0 + call.frame.qt1 ELSE 0]
           marker == call.offset + chunk = call.frame.len
<1>0. JpegTypeOK /\ call.stage = "send"
  BY DEF JpegIInv, SendChunk
<1>1. /\ call \in [stage : {"send"}, ts : Timestamps, frame : Frames, offset : Nat, first : BOOLEAN]
      /\ call.first <=> call.offset = 0
      /\ call.offset < call.frame.len \/ (call.frame.len = 0 /\ call.first)
  BY <1>0 DEF JpegIInv, CallOK
<1>2. Emit(marker, p, ret) /\ Advance(chunk, ret) /\ count' = count
  BY DEF SendChunk
<1>3. /\ call.ts \in Timestamps /\ call.frame \in Frames
      /\ call.offset \in Nat /\ call.first \in BOOLEAN
      /\ call.frame.len \in Nat /\ call.offset <= call.frame.len
      /\ call.frame.qt0 + call.frame.qt1 \in Nat
  BY <1>1, JpegAssumption, HeaderSizes
<1>4. /\ chunk \in Nat /\ (chunk > 0 \/ call.frame.len = 0) /\ p \in JpegPayloads
  BY <1>0, <1>1, <1>3, PayloadFits DEF JpegTypeOK
<1>5. chunk <= call.frame.len - call.offset
  <2>1. room \in Int
    BY <1>3, HeaderSizes DEF budget, MAIN_HEADER_SIZE
  <2> HIDE DEF room
  <2> QED
    BY <1>3, <2>1
<1> HIDE DEF chunk
<1>6. /\ p.frame = count /\ p.of = call.frame /\ p.at = call.offset /\ p.len = chunk
      /\ p.tables = IF call.first THEN call.frame.qt0 + call.frame.qt1 ELSE 0
  BY DEF Payload
<1>7. HeaderByFields(p) = p.hdr /\ p.offset = call.offset /\ p.hdr \in Nat
  BY <1>1, <1>3, <1>4, HeadersTell
<1>8. compute_timestamp(call.ts) \in 0 .. U32 - 1
  BY <1>0, <1>3, TimestampType DEF JpegTypeOK
<1>9. f \in Fragments
  <2>1. count \in Nat /\ call.offset + chunk \in Nat
        /\ (IF call.offset = 0 THEN call.frame.qt0 + call.frame.qt1 ELSE 0) \in Nat
    BY <1>0, <1>3, <1>4 DEF JpegTypeOK
  <2> QED
    BY <1>3, <1>8, <2>1 DEF Fragments
<1>10. FragOf(PacketOf(call.ts, marker, p)) = f
  <2> DEFINE pkt == PacketOf(call.ts, marker, p)
  <2>1. pkt.payload = p /\ pkt.ts = compute_timestamp(call.ts)
    BY DEF PacketOf
  <2> HIDE DEF pkt, p
  <2>2. p.at + HeaderByFields(p) - p.hdr = call.offset
    BY <1>3, <1>6, <1>7
  <2>3. FragOf(pkt) = [frame |-> p.frame, ts |-> pkt.ts, from |-> p.at + HeaderByFields(p) - p.hdr,
                       to |-> p.at + p.len, tables |-> p.tables]
    BY <2>1 DEF FragOf
  <2> QED
    BY <1>1, <1>6, <2>1, <2>2, <2>3 DEF pkt
<1>11. Turn(chunk, p, f)
  BY <1>4, <1>5, <1>6, <1>7, <1>9 DEF Turn
<1> QED
  BY <1>2, <1>10, <1>11

-----------------------------------------------------------------------------

(* What the receiver is left with has its type. *)
LEMMA ReceiveType ==
  ASSUME RxTypeOK, NEW pkt, pkt.seq \in 0 .. U16 - 1, Extended(pkt) \in Seq(Fragments)
  PROVE  Receive(pkt) \in [next : -1 .. U16 - 1, frags : Seq(Fragments),
                           done : Seq(Seq(Fragments)), gap : 0 .. U16 - 1, hurt : SUBSET Nat]
<1> DEFINE n == (pkt.seq + 1) % U16
           a == IF Completes(pkt) THEN << >> ELSE Extended(pkt)
           b == IF Completes(pkt) THEN Append(rx.done, Extended(pkt)) ELSE rx.done
<1>1. n \in -1 .. U16 - 1 /\ 0 \in 0 .. U16 - 1
  <2> DEFINE m == pkt.seq + 1
  <2>1. m \in Nat /\ U16 \in Nat \ {0}
    BY WidthAssumption
  <2> HIDE DEF m
  <2>2. m % U16 \in 0 .. U16 - 1
    BY <2>1, DivMod
  <2> QED
    BY <2>1, <2>2 DEF m
<1>2. << >> \in Seq(Fragments) /\ rx.done \in Seq(Seq(Fragments))
  BY DEF RxTypeOK
<1>3. a \in Seq(Fragments)
  BY <1>2
<1>4. b \in Seq(Seq(Fragments))
  BY <1>2, AppendProperties
<1>5. Receive(pkt) = [rx EXCEPT !.next = n, !.gap = 0, !.frags = a, !.done = b]
  BY DEF Receive, Extended, Completes, FragOf, RxTypeOK
<1> HIDE DEF n, a, b
<1>6. Receive(pkt) = [next |-> n, frags |-> a, done |-> b, gap |-> 0, hurt |-> rx.hurt]
  BY <1>5 DEF RxTypeOK
<1>7. rx.hurt \in SUBSET Nat
  BY DEF RxTypeOK
<1> QED
  BY <1>1, <1>3, <1>4, <1>6, <1>7

(* A packet is only appended when none was lost before it. *)
LEMMA AppendedNext ==
  ASSUME JpegTypeOK, RxTypeOK, Counted, rx.frags # << >>
  PROVE  rx.next = seq_num <=> rx.gap = 0
<1> DEFINE s == seq_num
           k == rx.gap
           n == rx.next
<1>1. /\ s \in 0 .. U16 - 1 /\ k \in 0 .. U16 - 1 /\ n \in 0 .. U16 - 1
      /\ s = (n + k) % U16 /\ U16 \in Nat \ {0}
  BY WidthAssumption DEF JpegTypeOK, RxTypeOK, Counted
<1> HIDE DEF s, k, n
<1>2. k = 0 => n = s
  BY <1>1
<1>3. n = s => k = 0
  BY <1>1, OtherResidue
<1> QED
  BY <1>2, <1>3 DEF s, k, n

(* What the receiver makes of the packet of one turn: the beginning of the *)
(* frame as far as the loop has come, unless something before it is        *)
(* missing.                                                                *)
Reaching(e, f) ==
  /\ e \in Seq(Fragments) /\ PartOf(e)
  /\ e[1].frame = count /\ EndOf(e) = f.to /\ e[Len(e)].ts = f.ts
  /\ e[1].tables = call.frame.qt0 + call.frame.qt1

LEMMA ExtendedPart ==
  ASSUME JpegIInv, ReceiverOK, Joins, call.stage = "send", NEW chunk, NEW p, NEW f,
         Turn(chunk, p, f), NEW pkt, pkt.payload = p, pkt.seq = seq_num,
         pkt.ts = compute_timestamp(call.ts), FragOf(pkt) = f
  PROVE  /\ Extended(pkt) # << >> => Reaching(Extended(pkt), f)
         /\ Extended(pkt) \in Seq(Fragments)
         /\ (call.offset = 0 \/ (rx.frags # << >> /\ rx.gap = 0)) => Extended(pkt) # << >>
<1>0. /\ f \in Fragments /\ p.offset = call.offset
      /\ f.frame = count /\ f.from = call.offset /\ f.ts = compute_timestamp(call.ts)
      /\ call.offset = 0 => f.tables = call.frame.qt0 + call.frame.qt1
  BY DEF Turn
<1>1. CASE call.offset = 0
  <2>1. Extended(pkt) = <<f>>
    BY <1>0, <1>1 DEF Extended
  <2>2. Reaching(<<f>>, f) /\ <<f>> # << >>
    BY <1>0, <1>1, PartSingle DEF Reaching, PartOf
  <2> QED
    BY <2>1, <2>2 DEF Reaching
<1>2. CASE call.offset # 0
  <2>1. JpegTypeOK /\ RxTypeOK /\ Counted /\ HeldOK
    BY DEF JpegIInv, ReceiverOK
  <2>2. rx.frags \in Seq(Fragments) /\ << >> \in Seq(Fragments)
    BY <2>1 DEF RxTypeOK
  <2> DEFINE joins == /\ pkt.seq = rx.next /\ rx.frags # << >>
                      /\ rx.frags[Len(rx.frags)].ts = pkt.ts
                      /\ rx.frags[Len(rx.frags)].to = pkt.payload.offset
  <2>3. Extended(pkt) = IF joins THEN Append(rx.frags, f) ELSE << >>
    BY <1>0, <1>2 DEF Extended
  <2>4. (rx.frags # << >> /\ rx.gap = 0) =>
          /\ rx.frags[1].frame = count /\ EndOf(rx.frags) = call.offset
          /\ rx.frags[Len(rx.frags)].ts = compute_timestamp(call.ts)
          /\ PartOf(rx.frags) /\ TablesOK(rx.frags[1]) /\ rx.next = seq_num
    BY <1>2, <2>1, AppendedNext DEF Joins, HeldOK
  <2>5. joins => rx.gap = 0 /\ rx.frags # << >>
    BY <2>1, AppendedNext
  <2>6. (rx.frags # << >> /\ rx.gap = 0) => joins
    BY <1>0, <2>4 DEF EndOf
  <2>7. CASE joins
    <3>1. /\ rx.frags[1].frame = count /\ EndOf(rx.frags) = call.offset
          /\ PartOf(rx.frags) /\ TablesOK(rx.frags[1])
      BY <2>4, <2>5, <2>7
    <3>2. rx.frags[1].tables = call.frame.qt0 + call.frame.qt1
      BY <3>1 DEF TablesOK, Sending
    <3> DEFINE a == Append(rx.frags, f)
    <3>3. /\ PartOf(a) /\ a[1] = rx.frags[1] /\ EndOf(a) = f.to /\ a[Len(a)] = f
          /\ a \in Seq(Fragments)
      BY <1>0, <2>2, <3>1, PartAppend
    <3>4. Extended(pkt) = a
      BY <2>3, <2>7
    <3> HIDE DEF a
    <3>5. Reaching(a, f)
      BY <3>1, <3>2, <3>3 DEF Reaching
    <3> QED
      BY <3>4, <3>5 DEF Reaching, PartOf
  <2>8. CASE ~ joins
    BY <1>2, <2>2, <2>3, <2>6, <2>8
  <2> QED
    BY <2>7, <2>8
<1> QED
  BY <1>1, <1>2

(* One packet, refused, lost or received, and the receiver after it. *)
Outcome(f, marker, ret) ==
  \/ /\ ret = -1 /\ rx' = rx /\ seq_num' = seq_num
  \/ /\ ret = 0 /\ rx'.frags = rx.frags /\ rx'.done = rx.done
     /\ rx'.gap # 0 /\ rx'.hurt = rx.hurt \cup {count}
  \/ /\ ret = 0 /\ rx'.gap = 0 /\ rx'.hurt = rx.hurt
     /\ \E e \in Seq(Fragments) :
          /\ e # << >> => Reaching(e, f)
          /\ (call.offset = 0 \/ (rx.frags # << >> /\ rx.gap = 0)) => e # << >>
          /\ rx'.frags = IF e # << >> /\ marker THEN << >> ELSE e
          /\ rx'.done = IF e # << >> /\ marker THEN Append(rx.done, e) ELSE rx.done

LEMMA EmitReceives ==
  ASSUME JpegIInv, ReceiverOK, Joins, call.stage = "send", NEW ret \in {0, -1},
         NEW marker \in BOOLEAN, NEW chunk, NEW p, NEW f, Turn(chunk, p, f),
         FragOf(PacketOf(call.ts, marker, p)) = f, Emit(marker, p, ret)
  PROVE  RxTypeOK' /\ Counted' /\ Outcome(f, marker, ret)
<1> DEFINE pkt == PacketOf(call.ts, marker, p)
<1>0. /\ pkt.payload = p /\ pkt.seq = seq_num /\ pkt.ts = compute_timestamp(call.ts)
      /\ pkt.marker = marker /\ FragOf(pkt) = f
  BY DEF PacketOf
<1>1. JpegTypeOK /\ RxTypeOK /\ Counted /\ seq_num \in 0 .. U16 - 1 /\ count \in Nat
  BY DEF JpegIInv, ReceiverOK, JpegTypeOK
<1>2. p.frame = count
  BY DEF Turn
<1>3. CASE ret = -1
  <2>1. rx' = rx /\ seq_num' = seq_num
    BY <1>3 DEF Emit, SendPacket, Account, counters
  <2> QED
    BY <1>1, <1>3, <2>1 DEF RxTypeOK, Counted, Outcome
<1>4. CASE ret = 0
  <2>1. seq_num' = (seq_num + 1) % U16
    BY <1>4 DEF Emit, SendPacket, Account
  <2>2. rx' = Receive(pkt) \/ (rx.gap < U16 - 1 /\ rx' = Lose(pkt))
    BY <1>4 DEF Emit
  <2> HIDE DEF pkt
  <2>3. CASE rx.gap < U16 - 1 /\ rx' = Lose(pkt)
    <3> DEFINE g == rx.gap + 1
               h == rx.hurt \cup {count}
    <3>1. g \in 0 .. U16 - 1 /\ g # 0 /\ h \in SUBSET Nat
      BY <1>1, <2>3, WidthAssumption DEF RxTypeOK
    <3>2. rx' = [rx EXCEPT !.gap = g, !.hurt = h]
      BY <1>0, <1>1, <1>2, <2>3 DEF Lose, RxTypeOK
    <3>3. rx'.gap = rx.gap + 1 /\ rx'.next = rx.next /\ rx'.frags = rx.frags
          /\ rx'.done = rx.done /\ rx'.hurt = h
      BY <1>1, <3>2 DEF RxTypeOK
    <3> HIDE DEF g, h
    <3>4. RxTypeOK'
      BY <1>1, <3>1, <3>2 DEF RxTypeOK
    <3>5. ASSUME rx.next # -1 PROVE seq_num' = (rx'.next + rx'.gap) % U16
      <4> DEFINE n == rx.next + rx.gap
      <4>1. n \in Nat /\ seq_num = n % U16
        BY <1>1, <3>5 DEF Counted, RxTypeOK
      <4>2. rx'.next + rx'.gap = n + 1
        BY <1>1, <3>3 DEF RxTypeOK
      <4> HIDE DEF n
      <4>3. ((n % U16) + 1) % U16 = (n + 1) % U16
        BY <4>1, WidthAssumption, WrapIncrement
      <4> QED
        BY <2>1, <4>1, <4>2, <4>3
    <3>6. Counted'
      BY <1>1, <3>3, <3>5 DEF Counted
    <3>7. rx'.gap # 0
      BY <3>1, <3>3 DEF g
    <3>8. Outcome(f, marker, ret)
      BY <1>4, <3>3, <3>7 DEF Outcome, h
    <3> QED
      BY <3>4, <3>6, <3>8
  <2>4. CASE rx' = Receive(pkt)
    <3> DEFINE e == Extended(pkt)
    <3>1. /\ e # << >> => Reaching(e, f)
          /\ e \in Seq(Fragments)
          /\ (call.offset = 0 \/ (rx.frags # << >> /\ rx.gap = 0)) => e # << >>
      BY <1>0, ExtendedPart
    <3>2. /\ rx'.next = (seq_num + 1) % U16 /\ rx'.gap = 0 /\ rx'.hurt = rx.hurt
          /\ rx'.frags = IF e # << >> /\ marker THEN << >> ELSE e
          /\ rx'.done = IF e # << >> /\ marker THEN Append(rx.done, e) ELSE rx.done
      BY <1>0, <1>1, <2>4, ReceiveFields DEF Completes
    <3>3. RxTypeOK'
      BY <1>0, <1>1, <2>4, <3>1, ReceiveType DEF RxTypeOK
    <3>4. Counted'
      <4> DEFINE m == seq_num + 1
                 x == m % U16
      <4>1. m \in Nat
        BY <1>1
      <4> HIDE DEF m
      <4>2. x \in 0 .. U16 - 1
        BY <4>1, WidthAssumption, DivMod
      <4>3. rx'.next = x /\ seq_num' = x /\ rx'.gap = 0
        BY <2>1, <3>2 DEF m
      <4> HIDE DEF x
      <4>4. x \in Nat /\ (x + 0) % U16 = x
        BY <4>2, WidthAssumption
      <4> QED
        BY <4>3, <4>4 DEF Counted
    <3> HIDE DEF e
    <3>5. Outcome(f, marker, ret)
      BY <1>4, <3>1, <3>2 DEF Outcome
    <3> QED
      BY <3>3, <3>4, <3>5
  <2> QED
    BY <2>2, <2>3, <2>4
<1> QED
  BY <1>3, <1>4

-----------------------------------------------------------------------------

LEMMA ReceiverInit == JpegInit => FramesIInv
<1> SUFFICES ASSUME JpegInit PROVE FramesIInv
  OBVIOUS
<1>1. /\ rx = RxInit /\ wire = << >> /\ call = Idle /\ Len(<< >>) = 0
      /\ call.stage = "idle"
  BY DEF JpegInit, Init, Idle
<1>2. RxTypeOK
  <2>1. 0 \in 0 .. U16 - 1 /\ -1 \in -1 .. U16 - 1
    BY WidthAssumption
  <2>2. << >> \in Seq(Fragments) /\ << >> \in Seq(Seq(Fragments)) /\ {} \in SUBSET Nat
    OBVIOUS
  <2> QED
    BY <1>1, <2>1, <2>2 DEF RxTypeOK, RxInit
<1>3. ReceiverOK
  BY <1>1, <1>2 DEF ReceiverOK, Counted, HeldOK, DoneOK, RxInit
<1>4. WireFrames /\ Joins /\ Arriving /\ SuccessMeansDelivered
  BY <1>1 DEF WireFrames, Joins, Arriving, SuccessMeansDelivered
<1> QED
  BY <1>3, <1>4, JpegInvInit DEF FramesIInv

(* What one turn of the loop leaves of the sender's variables. *)
Turned(chunk, p, ret) ==
  /\ wire' = wire \/ \E pkt \in JpegPackets : pkt.payload = p /\ wire' = Append(wire, pkt)
  /\ count' = count
  /\ UNCHANGED <<clock_rate, ts_base_us>>
  /\ IF ret = -1 \/ call.offset + chunk = call.frame.len
     THEN call'.stage = "return" /\ call'.ret = ret
     ELSE /\ call'.stage = "send" /\ call'.frame = call.frame /\ call'.ts = call.ts
          /\ call'.offset = call.offset + chunk

LEMMA SenderTurns ==
  ASSUME JpegIInv, call.stage = "send", NEW ret \in {0, -1}, NEW marker \in BOOLEAN,
         NEW chunk, NEW p, NEW f, Turn(chunk, p, f),
         Emit(marker, p, ret), Advance(chunk, ret), count' = count
  PROVE  Turned(chunk, p, ret)
<1> DEFINE pkt == PacketOf(call.ts, marker, p)
<1>0. /\ JpegTypeOK
      /\ call \in [stage : {"send"}, ts : Timestamps, frame : Frames, offset : Nat, first : BOOLEAN]
      /\ call.offset <= call.frame.len
  BY JpegAssumption DEF JpegIInv, CallOK
<1>1. call.ts \in Timestamps /\ call.frame.len \in Nat /\ call.offset \in Nat
  BY <1>0, JpegAssumption
<1>2. chunk \in Nat /\ chunk <= call.frame.len - call.offset /\ p \in JpegPayloads
  BY DEF Turn
<1>3. pkt \in JpegPackets /\ pkt.payload = p
  <2>1. compute_timestamp(call.ts) \in 0 .. U32 - 1
    BY <1>0, <1>1, TimestampType DEF JpegTypeOK
  <2> QED
    BY <1>0, <1>1, <1>2, <2>1 DEF PacketOf, JpegPackets, JpegTypeOK
<1>4. /\ wire' = wire \/ wire' = Append(wire, pkt)
      /\ UNCHANGED <<clock_rate, ts_base_us>>
  BY DEF Emit, SendPacket, config
<1> HIDE DEF pkt
<1>5. call.offset + chunk >= call.frame.len <=> call.offset + chunk = call.frame.len
  BY <1>1, <1>2
<1>6. CASE ret = -1 \/ call.offset + chunk = call.frame.len
  <2>1. call'.stage = "return" /\ call'.ret = ret
    BY <1>5, <1>6 DEF Advance
  <2> QED
    BY <1>3, <1>4, <1>6, <2>1 DEF Turned
<1>7. CASE ~ (ret = -1 \/ call.offset + chunk = call.frame.len)
  <2>1. call' = [call EXCEPT !.offset = call.offset + chunk, !.first = FALSE]
    BY <1>5, <1>7 DEF Advance
  <2>2. /\ call'.stage = "send" /\ call'.frame = call.frame /\ call'.ts = call.ts
        /\ call'.offset = call.offset + chunk
    BY <1>0, <2>1
  <2> QED
    BY <1>3, <1>4, <1>7, <2>2 DEF Turned
<1> QED
  BY <1>6, <1>7

(* The wire after a turn: what it held, and perhaps one packet more, of    *)
(* the frame that is being sent.                                           *)
LEMMA WireGrows ==
  ASSUME JpegIInv, call.stage = "send", NEW chunk, NEW p, NEW f, Turn(chunk, p, f),
         NEW ret, Turned(chunk, p, ret), NEW j \in 1 .. Len(wire')
  PROVE  \/ j \in 1 .. Len(wire) /\ wire'[j] = wire[j]
         \/ wire'[j].payload.frame = count /\ wire'[j].payload.of = call.frame
<1>1. wire \in Seq(JpegPackets)
  BY DEF JpegIInv, JpegTypeOK
<1>2. p.frame = count /\ p.of = call.frame
  BY DEF Turn
<1>3. CASE wire' = wire
  BY <1>3
<1>4. ASSUME NEW pkt \in JpegPackets, pkt.payload = p, wire' = Append(wire, pkt)
      PROVE  \/ j \in 1 .. Len(wire) /\ wire'[j] = wire[j]
             \/ wire'[j].payload.frame = count /\ wire'[j].payload.of = call.frame
  <2>1. /\ Len(wire) \in Nat /\ Len(wire') = Len(wire) + 1
        /\ \A i \in 1 .. Len(wire) : wire'[i] = wire[i]
        /\ wire'[Len(wire) + 1] = pkt
    BY <1>1, <1>4, AppendProperties
  <2>2. j \in 1 .. Len(wire) \/ j = Len(wire) + 1
    BY <2>1
  <2> QED
    BY <1>2, <1>4, <2>1, <2>2
<1> QED
  BY <1>3, <1>4 DEF Turned

(* Frames that were right stay right: the tables of a first fragment, and  *)
(* a finished frame.                                                       *)
TablesAfter(g) ==
  /\ (call'.stage = "send" /\ g.frame = count') => g.tables = call'.frame.qt0 + call'.frame.qt1
  /\ \A j \in 1 .. Len(wire') : wire'[j].payload.frame = g.frame =>
       g.tables = wire'[j].payload.of.qt0 + wire'[j].payload.of.qt1

LEMMA TablesStay ==
  ASSUME JpegIInv, call.stage = "send", NEW chunk, NEW p, NEW f, Turn(chunk, p, f),
         NEW ret, Turned(chunk, p, ret), NEW g, TablesOK(g)
  PROVE  TablesAfter(g)
<1>1. (call'.stage = "send" /\ g.frame = count') => g.tables = call'.frame.qt0 + call'.frame.qt1
  BY DEF Turned, TablesOK, Sending
<1>2. ASSUME NEW j \in 1 .. Len(wire'), wire'[j].payload.frame = g.frame
      PROVE  g.tables = wire'[j].payload.of.qt0 + wire'[j].payload.of.qt1
  BY <1>2, WireGrows DEF TablesOK, Sending
<1> QED
  BY <1>1, <1>2 DEF TablesAfter

LEMMA WireFramesStay ==
  ASSUME JpegIInv, WireFrames, call.stage = "send", NEW chunk, NEW p, NEW f, Turn(chunk, p, f),
         NEW ret, Turned(chunk, p, ret)
  PROVE  /\ WireFrames'
         /\ \A j \in 1 .. Len(wire') :
              wire'[j].payload.frame = count => wire'[j].payload.of = call.frame
<1>1. ASSUME NEW j \in 1 .. Len(wire')
      PROVE  /\ wire'[j].payload.frame <= count
             /\ wire'[j].payload.frame = count => wire'[j].payload.of = call.frame
  <2>1. count <= count
    BY DEF JpegIInv, JpegTypeOK
  <2> QED
    BY <2>1, WireGrows DEF WireFrames, Sending
<1>2. count' = count /\ (call'.stage = "send" => call'.frame = call.frame)
  BY DEF Turned
<1> QED
  BY <1>1, <1>2 DEF WireFrames, Sending

(* The new tables of the frame that is being sent. *)
LEMMA ReachingTables ==
  ASSUME JpegIInv, WireFrames, call.stage = "send", NEW chunk, NEW p, NEW f, Turn(chunk, p, f),
         NEW ret, Turned(chunk, p, ret), NEW e, Reaching(e, f)
  PROVE  TablesAfter(e[1])
<1>1. count' = count /\ (call'.stage = "send" => call'.frame = call.frame)
  BY DEF Turned
<1>2. e[1].frame = count /\ e[1].tables = call.frame.qt0 + call.frame.qt1
  BY DEF Reaching
<1>3. \A j \in 1 .. Len(wire') :
        wire'[j].payload.frame = count => wire'[j].payload.of = call.frame
  BY WireFramesStay
<1> QED
  BY <1>1, <1>2, <1>3 DEF TablesAfter

(* What a finished frame has to be after a turn. *)
DoneAfter(g) ==
  /\ PartOf(g) /\ g[1].frame <= count /\ ~ (call'.stage = "send" /\ g[1].frame = count)
  /\ TablesAfter(g[1])
  /\ \A j \in 1 .. Len(wire') :
       wire'[j].payload.frame = g[1].frame => EndOf(g) = wire'[j].payload.of.len

LEMMA DoneStays ==
  ASSUME JpegIInv, WireFrames, DoneOK, call.stage = "send",
         NEW chunk, NEW p, NEW f, Turn(chunk, p, f),
         NEW ret, Turned(chunk, p, ret), NEW i \in 1 .. Len(rx.done)
  PROVE  DoneAfter(rx.done[i])
<1> DEFINE g == rx.done[i]
<1>1. /\ PartOf(g) /\ g[1].frame <= count /\ g[1].frame # count /\ TablesOK(g[1])
      /\ \A j \in 1 .. Len(wire) :
           wire[j].payload.frame = g[1].frame => EndOf(g) = wire[j].payload.of.len
  BY DEF DoneOK, Sending
<1> HIDE DEF g
<1>2. TablesAfter(g[1])
  BY <1>1, TablesStay
<1>3. ASSUME NEW j \in 1 .. Len(wire'), wire'[j].payload.frame = g[1].frame
      PROVE  EndOf(g) = wire'[j].payload.of.len
  BY <1>1, <1>3, WireGrows
<1> QED
  BY <1>1, <1>2, <1>3 DEF DoneAfter, g

LEMMA ReceiverTurns ==
  ASSUME FramesIInv, NEW ret \in {0, -1}, SendChunk(ret)
  PROVE  FramesIInv'
<1>0. /\ JpegIInv /\ ReceiverOK /\ WireFrames /\ Joins /\ Arriving /\ HeldOK /\ DoneOK
      /\ call.stage = "send" /\ count \in Nat /\ RxTypeOK
  BY DEF FramesIInv, ReceiverOK, SendChunk, JpegIInv, JpegTypeOK
<1>1. PICK chunk, p, f :
        /\ Turn(chunk, p, f)
        /\ FragOf(PacketOf(call.ts, call.offset + chunk = call.frame.len, p)) = f
        /\ Emit(call.offset + chunk = call.frame.len, p, ret)
        /\ Advance(chunk, ret) /\ count' = count
  BY <1>0, TurnOfLoop
<1> DEFINE marker == call.offset + chunk = call.frame.len
<1>2. marker \in BOOLEAN
  OBVIOUS
<1>3. FragOf(PacketOf(call.ts, marker, p)) = f /\ Emit(marker, p, ret)
  BY <1>1
<1> HIDE DEF marker
<1>4. RxTypeOK' /\ Counted' /\ Outcome(f, marker, ret)
  BY <1>0, <1>1, <1>2, <1>3, EmitReceives
<1>5. Turned(chunk, p, ret)
  BY <1>0, <1>1, <1>2, <1>3, SenderTurns
<1>6. /\ f.to = call.offset + chunk /\ f.ts = compute_timestamp(call.ts)
      /\ marker => f.to = call.frame.len
  BY <1>1 DEF Turn, marker
<1>7. /\ count' = count
      /\ call'.stage = "send" => /\ ret = 0 /\ ~ marker /\ call'.frame = call.frame
                                 /\ call'.ts = call.ts /\ call'.offset = f.to
      /\ call'.stage = "return" => (ret = -1 \/ marker) /\ call'.ret = ret
      /\ call'.stage \in {"send", "return"}
  BY <1>5, <1>6 DEF Turned, marker
<1>8. HeldOK'
  <2> SUFFICES ASSUME rx'.frags # << >>
               PROVE  PartOf(rx'.frags) /\ rx'.frags[1].frame <= count' /\ TablesAfter(rx'.frags[1])
    BY <1>7 DEF HeldOK, TablesOK, TablesAfter, Sending, PartOf
  <2>1. CASE rx'.frags = rx.frags
    BY <1>0, <1>1, <1>5, <1>7, <2>1, TablesStay DEF HeldOK
  <2>2. ASSUME NEW e \in Seq(Fragments), e # << >> => Reaching(e, f), rx'.frags = e
        PROVE  PartOf(rx'.frags) /\ rx'.frags[1].frame <= count' /\ TablesAfter(rx'.frags[1])
    <3>1. Reaching(e, f)
      BY <2>2
    <3>2. TablesAfter(e[1])
      BY <1>0, <1>1, <1>5, <3>1, ReachingTables
    <3> QED
      BY <1>0, <1>7, <2>2, <3>1, <3>2 DEF Reaching
  <2> QED
    BY <1>4, <2>1, <2>2 DEF Outcome
<1>9. DoneOK'
  <2> SUFFICES ASSUME NEW i \in 1 .. Len(rx'.done) PROVE DoneAfter(rx'.done[i])
    BY <1>7 DEF DoneOK, DoneAfter, TablesOK, TablesAfter, Sending, PartOf, EndOf
  <2>1. CASE rx'.done = rx.done
    BY <1>0, <1>1, <1>5, <2>1, DoneStays
  <2>2. ASSUME NEW e \in Seq(Fragments), Reaching(e, f), marker, rx'.done = Append(rx.done, e),
               ret = 0
        PROVE  DoneAfter(rx'.done[i])
    <3>1. /\ Len(rx.done) \in Nat /\ Len(rx'.done) = Len(rx.done) + 1
          /\ \A k \in 1 .. Len(rx.done) : rx'.done[k] = rx.done[k]
          /\ rx'.done[Len(rx.done) + 1] = e
      <4>1. rx.done \in Seq(Seq(Fragments))
        BY <1>0 DEF RxTypeOK
      <4> QED
        BY <2>2, <4>1, AppendProperties
    <3>2. CASE i \in 1 .. Len(rx.done)
      BY <1>0, <1>1, <1>5, <3>1, <3>2, DoneStays
    <3>3. CASE i = Len(rx.done) + 1
      <4>1. /\ PartOf(e) /\ e[1].frame = count /\ EndOf(e) = call.frame.len /\ count <= count
        BY <1>0, <1>6, <2>2 DEF Reaching
      <4>2. TablesAfter(e[1])
        BY <1>0, <1>1, <1>5, <2>2, ReachingTables
      <4>3. call'.stage # "send"
        BY <1>7, <2>2
      <4>4. \A j \in 1 .. Len(wire') :
              wire'[j].payload.frame = count => wire'[j].payload.of = call.frame
        BY <1>0, <1>1, <1>5, WireFramesStay
      <4>5. DoneAfter(e)
        BY <4>1, <4>2, <4>3, <4>4 DEF DoneAfter
      <4> QED
        BY <3>1, <3>3, <4>5
    <3> QED
      BY <3>1, <3>2, <3>3
  <2> QED
    BY <1>4, <2>1, <2>2 DEF Outcome
<1>10. Joins' /\ Arriving'
  <2>1. CASE call'.stage # "send"
    BY <2>1 DEF Joins, Arriving
  <2>2. CASE call'.stage = "send"
    <3>1. /\ ret = 0 /\ ~ marker /\ call'.offset = f.to
          /\ compute_timestamp(call.ts)' = compute_timestamp(call.ts)
      <4>1. call'.ts = call.ts /\ UNCHANGED <<clock_rate, ts_base_us>>
        BY <1>5, <1>7, <2>2 DEF Turned
      <4> QED
        BY <1>7, <2>2, <4>1 DEF compute_timestamp
    <3>2. CASE rx'.gap # 0 /\ rx'.hurt = rx.hurt \cup {count}
      BY <1>7, <3>2 DEF Joins, Arriving
    <3>3. ASSUME NEW e \in Seq(Fragments), e # << >> => Reaching(e, f), rx'.frags = e,
                 (call.offset = 0 \/ (rx.frags # << >> /\ rx.gap = 0)) => e # << >>,
                 rx'.gap = 0, rx'.hurt = rx.hurt
          PROVE  Joins' /\ Arriving'
      <4>1. Joins'
        BY <1>6, <1>7, <3>1, <3>3 DEF Joins, Reaching, EndOf
      <4>2. Arriving'
        BY <1>0, <1>7, <3>3 DEF Arriving
      <4> QED
        BY <4>1, <4>2
    <3> QED
      BY <1>4, <3>1, <3>2, <3>3 DEF Outcome
  <2> QED
    BY <2>1, <2>2
<1>11. SuccessMeansDelivered'
  <2> SUFFICES ASSUME call'.stage = "return", call'.ret = 0, count \notin rx'.hurt
               PROVE  rx'.done # << >> /\ rx'.done[Len(rx'.done)][1].frame = count
    BY <1>7 DEF SuccessMeansDelivered
  <2>1. ret = 0 /\ marker
    BY <1>7
  <2>2. ASSUME NEW e \in Seq(Fragments), e # << >> => Reaching(e, f),
               rx'.done = IF e # << >> /\ marker THEN Append(rx.done, e) ELSE rx.done,
               (call.offset = 0 \/ (rx.frags # << >> /\ rx.gap = 0)) => e # << >>,
               rx'.hurt = rx.hurt
        PROVE  rx'.done # << >> /\ rx'.done[Len(rx'.done)][1].frame = count
    <3>1. e # << >> /\ e[1].frame = count
      BY <1>0, <2>2 DEF Arriving, Reaching
    <3>2. rx'.done = Append(rx.done, e) /\ rx.done \in Seq(Seq(Fragments))
      BY <1>0, <2>1, <2>2, <3>1 DEF RxTypeOK
    <3> DEFINE d == rx'.done
    <3>3. /\ d \in Seq(Seq(Fragments)) /\ Len(rx.done) \in Nat
          /\ Len(d) = Len(rx.done) + 1 /\ d[Len(rx.done) + 1] = e
      BY <3>2, AppendProperties
    <3> HIDE DEF d
    <3>4. Len(d) # 0 /\ d[Len(d)] = e
      BY <3>3
    <3>5. d # << >>
      BY <3>4
    <3> QED
      BY <3>1, <3>4, <3>5 DEF d
  <2> QED
    BY <1>4, <2>1, <2>2 DEF Outcome
<1>12. WireFrames'
  BY <1>0, <1>1, <1>5, WireFramesStay
<1>13. JpegIInv'
  BY <1>0, SendChunkKeeps
<1> QED
  BY <1>4, <1>8, <1>9, <1>10, <1>11, <1>12, <1>13 DEF FramesIInv, ReceiverOK

LEMMA ReceiverStep == FramesIInv /\ [JpegNext]_jpegVars => FramesIInv'
<1> SUFFICES ASSUME FramesIInv, [JpegNext]_jpegVars PROVE FramesIInv'
  OBVIOUS
<1>0. /\ JpegIInv /\ ReceiverOK /\ WireFrames /\ HeldOK /\ DoneOK /\ RxTypeOK /\ Counted
      /\ Joins /\ Arriving /\ SuccessMeansDelivered
      /\ count \in Nat /\ wire \in Seq(JpegPackets)
  BY DEF FramesIInv, ReceiverOK, JpegIInv, JpegTypeOK
<1>1. JpegIInv'
  BY <1>0, JpegInvStep
<1>2. ASSUME NEW ts \in Timestamps, NEW frame \in Frames, Call(ts, frame)
      PROVE  FramesIInv'
  <2>1. /\ UNCHANGED <<seq_num, clock_rate, ts_base_us, wire, rx>>
        /\ count' = count + 1 /\ call'.stage = "send" /\ call'.offset = 0
    BY <1>2 DEF Call, rtpVars
  <2>2. ASSUME NEW n \in Nat, n <= count PROVE n <= count' /\ n # count'
    BY <1>0, <2>1, <2>2
  <2>3. ASSUME NEW j \in 1 .. Len(wire)
        PROVE  wire[j].payload.frame <= count' /\ wire[j].payload.frame # count'
    <3>1. wire[j].payload.frame \in Nat /\ wire[j].payload.frame <= count
      <4>1. wire[j] \in JpegPackets
        BY <1>0
      <4>2. wire[j].payload \in JpegPayloads
        BY <4>1 DEF JpegPackets
      <4>3. wire[j].payload.frame \in Nat
        BY <4>2 DEF JpegPayloads
      <4> QED
        BY <1>0, <4>3 DEF WireFrames
    <3> QED
      BY <2>2, <3>1
  <2>4. WireFrames'
    BY <2>1, <2>3 DEF WireFrames, Sending
  <2>5. HeldOK'
    <3> SUFFICES ASSUME rx.frags # << >>
                 PROVE  /\ PartOf(rx.frags) /\ rx.frags[1].frame <= count'
                        /\ rx.frags[1].frame # count' /\ TablesOK(rx.frags[1])
      BY <2>1 DEF HeldOK, TablesOK, Sending, PartOf
    <3>1. PartOf(rx.frags) /\ rx.frags[1].frame <= count /\ TablesOK(rx.frags[1])
      BY <1>0 DEF HeldOK
    <3>2. rx.frags[1].frame \in Nat
      <4>1. rx.frags \in Seq(Fragments)
        BY <1>0 DEF RxTypeOK
      <4>2. Len(rx.frags) # 0 /\ Len(rx.frags) \in Nat
        BY <4>1, EmptySeq
      <4>3. rx.frags[1] \in Fragments
        BY <4>1, <4>2
      <4> QED
        BY <4>3 DEF Fragments
    <3> QED
      BY <2>2, <3>1, <3>2
  <2>6. DoneOK'
    <3> SUFFICES ASSUME NEW i \in 1 .. Len(rx.done)
                 PROVE  /\ PartOf(rx.done[i]) /\ rx.done[i][1].frame <= count'
                        /\ rx.done[i][1].frame # count' /\ TablesOK(rx.done[i][1])
                        /\ \A j \in 1 .. Len(wire) :
                             wire[j].payload.frame = rx.done[i][1].frame
                               => EndOf(rx.done[i]) = wire[j].payload.of.len
      BY <2>1 DEF DoneOK, TablesOK, Sending, PartOf, EndOf
    <3> DEFINE g == rx.done[i]
    <3>1. /\ PartOf(g) /\ g[1].frame <= count /\ TablesOK(g[1])
          /\ \A j \in 1 .. Len(wire) :
               wire[j].payload.frame = g[1].frame => EndOf(g) = wire[j].payload.of.len
      BY <1>0 DEF DoneOK
    <3>2. g \in Seq(Fragments)
      BY <1>0 DEF RxTypeOK
    <3> HIDE DEF g
    <3>3. g[1].frame \in Nat
      <4>1. Len(g) # 0 /\ Len(g) \in Nat
        BY <3>1, <3>2, EmptySeq DEF PartOf
      <4>2. g[1] \in Fragments
        BY <3>2, <4>1
      <4> QED
        BY <4>2 DEF Fragments
    <3>4. g[1].frame <= count' /\ g[1].frame # count'
      BY <2>2, <3>1, <3>3
    <3> QED
      BY <3>1, <3>4 DEF g
  <2>7. RxTypeOK' /\ Counted'
    BY <1>0, <2>1 DEF RxTypeOK, Counted
  <2>8. Joins' /\ Arriving' /\ SuccessMeansDelivered'
    BY <2>1 DEF Joins, Arriving, SuccessMeansDelivered
  <2> QED
    BY <1>1, <2>4, <2>5, <2>6, <2>7, <2>8 DEF FramesIInv, ReceiverOK
<1>3. ASSUME NEW ret \in {0, -1}, SendChunk(ret) PROVE FramesIInv'
  BY <1>3, ReceiverTurns
<1>4. CASE Return
  <2>1. UNCHANGED <<seq_num, clock_rate, ts_base_us, wire, rx, count>> /\ call'.stage = "idle"
    BY <1>4 DEF Return, rtpVars, Idle
  <2>2. WireFrames' /\ HeldOK' /\ DoneOK'
    BY <1>0, <2>1 DEF WireFrames, HeldOK, DoneOK, TablesOK, Sending, PartOf, EndOf
  <2>3. RxTypeOK' /\ Counted'
    BY <1>0, <2>1 DEF RxTypeOK, Counted
  <2>4. Joins' /\ Arriving' /\ SuccessMeansDelivered'
    BY <2>1 DEF Joins, Arriving, SuccessMeansDelivered
  <2> QED
    BY <1>1, <2>2, <2>3, <2>4 DEF FramesIInv, ReceiverOK
<1>5. CASE UNCHANGED jpegVars
  <2>1. UNCHANGED <<seq_num, clock_rate, ts_base_us, wire, rx, count, call>>
    BY <1>5 DEF jpegVars, rtpVars
  <2>2. WireFrames' /\ HeldOK' /\ DoneOK'
    BY <1>0, <2>1 DEF WireFrames, HeldOK, DoneOK, TablesOK, Sending, PartOf, EndOf
  <2>3. RxTypeOK' /\ Counted'
    BY <1>0, <2>1 DEF RxTypeOK, Counted
  <2>4. Joins' /\ Arriving' /\ SuccessMeansDelivered'
    BY <1>0, <2>1 DEF Joins, Arriving, SuccessMeansDelivered, EndOf, compute_timestamp
  <2> QED
    BY <1>1, <2>2, <2>3, <2>4 DEF FramesIInv, ReceiverOK
<1> QED
  BY <1>2, <1>3, <1>4, <1>5 DEF JpegNext

(* A receiver with nothing but the fields of the main header assembles     *)
(* every frame it finishes from all of that frame's scan data and its      *)
(* tables, and from nothing else (jpeg_transport.c:88-157), whatever the   *)
(* sizes and whichever sends failed or packets were lost. The invariant    *)
(* follows the receiver along: it has counted with the sender, so that a   *)
(* packet is appended only when none was lost in between (AppendedNext).   *)
THEOREM FramesAreReassembled == JpegSpec => []FramesReassemble
<1>1. FramesIInv => FramesReassemble
  <2> SUFFICES ASSUME FramesIInv, NEW i \in 1 .. Len(rx.done)
               PROVE  LET f == rx.done[i]
                          sent == {wire[k].payload.of :
                                     k \in {j \in 1 .. Len(wire) : wire[j].payload.frame = f[1].frame}}
                      IN  /\ f[1].from = 0
                          /\ \A k \in 1 .. Len(f) - 1 : f[k + 1].frame = f[1].frame /\ f[k + 1].from = f[k].to
                          /\ \A frame \in sent : /\ f[Len(f)].to = frame.len
                                                 /\ f[1].tables = frame.qt0 + frame.qt1
    BY DEF FramesReassemble
  <2> DEFINE f == rx.done[i]
  <2>1. /\ PartOf(f) /\ TablesOK(f[1])
        /\ \A j \in 1 .. Len(wire) :
             wire[j].payload.frame = f[1].frame => EndOf(f) = wire[j].payload.of.len
    BY DEF FramesIInv, ReceiverOK, DoneOK
  <2> HIDE DEF f
  <2>2. ASSUME NEW j \in 1 .. Len(wire), wire[j].payload.frame = f[1].frame
        PROVE  f[Len(f)].to = wire[j].payload.of.len
               /\ f[1].tables = wire[j].payload.of.qt0 + wire[j].payload.of.qt1
    BY <2>1, <2>2 DEF TablesOK, EndOf
  <2> QED
    BY <2>1, <2>2 DEF PartOf, f
<1> QED
  BY <1>1, ReceiverInit, ReceiverStep, PTL DEF JpegSpec

(* A call that answered 0 and lost no packet has delivered its frame, an   *)
(* empty one included (jpeg_transport.c:73-86, jpeg_transport.h:84-85).    *)
THEOREM FrameSuccessIsDelivery == JpegSpec => []SuccessMeansDelivered
<1>1. FramesIInv => SuccessMeansDelivered
  BY DEF FramesIInv
<1> QED
  BY <1>1, ReceiverInit, ReceiverStep, PTL DEF JpegSpec
=============================================================================
