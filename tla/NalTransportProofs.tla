------------------------- MODULE NalTransportProofs -------------------------
(***************************************************************************)
(* The packetizer for every unit size, packet size, codec and number of    *)
(* units: fragments are well formed, markers end access units, the         *)
(* receiver never finishes a unit that is not whole, and it rebuilds the   *)
(* unit's header from every fragment.                                      *)
(***************************************************************************)
EXTENDS NalTransport, RtpTransportProofs

(* The FU header is one byte longer than the NAL header it replaces. *)
LEMMA HeaderSizes ==
  ASSUME NEW c \in Codecs
  PROVE  /\ HdrSize[c] \in Nat \ {0}
         /\ FuSize[c] = HdrSize[c] + 1
         /\ MaxNaluSize[c] \in Nat
         /\ MaxNaluSize[c] > FuSize[c]
BY NalAssumption DEF HdrSize, FuSize

(* A unit that does not fit is cut into at least one full chunk and is     *)
(* longer than it.                                                         *)
LEMMA Chunks ==
  ASSUME NEW nal \in Nals, ~ Fits(nal)
  PROVE  /\ chunk_size(nal) \in Nat \ {0}
         /\ chunk_size(nal) + FuSize[nal.codec] = MaxNaluSize[nal.codec]
         /\ packets_count(nal) \in Nat \ {0}
         /\ rem(nal) \in 0 .. chunk_size(nal) - 1
         /\ nal.len = chunk_size(nal) * packets_count(nal) + rem(nal)
         /\ nal.len \in Nat
         /\ nal.len > chunk_size(nal)
<1> DEFINE c == chunk_size(nal)
           r == rem(nal)
           k == packets_count(nal)
           q == nal.len \div c
<1>1. nal.codec \in Codecs /\ nal.len \in Nat
  BY NalAssumption DEF Nals
<1>2. c \in Nat \ {0} /\ c + FuSize[nal.codec] = MaxNaluSize[nal.codec]
  BY <1>1, HeaderSizes DEF chunk_size
<1>3. nal.len > c
  BY <1>1, HeaderSizes DEF Fits, nalu_size, chunk_size
<1>4. r = nal.len % c /\ k = (nal.len - r) \div c
  BY DEF rem, packets_count
<1> HIDE DEF c, r, k
<1>5. q \in Nat /\ r \in 0 .. c - 1 /\ nal.len = c * q + r
  BY <1>1, <1>2, <1>4, DivMod
<1> HIDE DEF q
<1>6. nal.len - r = c * q + 0 /\ 0 \in 0 .. c - 1
  <2> DEFINE m == c * q
  <2>1. m \in Nat /\ nal.len = m + r
    BY <1>2, <1>5
  <2> HIDE DEF m
  <2>2. nal.len - r = m + 0 /\ 0 \in 0 .. c - 1
    BY <2>1, <1>2, <1>5
  <2> QED
    BY <2>2 DEF m
<1>7. k = q
  BY <1>2, <1>4, <1>5, <1>6, DivModUnique
<1>8. q # 0
  BY <1>1, <1>2, <1>3, <1>5
<1> QED
  BY <1>1, <1>2, <1>3, <1>5, <1>7, <1>8 DEF c, r, k

(* One turn of the loop carries exactly one full chunk; it reaches the end *)
(* of the unit exactly when the loop says it is the last one, and the      *)
(* first turn is never the last.                                           *)
LEMMA Turn ==
  ASSUME NEW nal \in Nals, ~ Fits(nal),
         NEW idx \in 0 .. packets_count(nal) - 1
  PROVE  LET off == idx * chunk_size(nal)
             last == rem(nal) = 0 /\ packets_count(nal) - 1 = idx
             end == IF last THEN nal.len ELSE (idx + 1) * chunk_size(nal)
         IN  /\ off \in Nat
             /\ end - off = chunk_size(nal)
             /\ (idx + 1) * chunk_size(nal) = off + chunk_size(nal)
             /\ off + chunk_size(nal) = nal.len <=> last
             /\ last \in BOOLEAN
             /\ ~ (idx = 0 /\ last)
<1> DEFINE c == chunk_size(nal)
           r == rem(nal)
           k == packets_count(nal)
           off == idx * c
           last == r = 0 /\ k - 1 = idx
           end == IF last THEN nal.len ELSE (idx + 1) * c
<1>1. /\ c \in Nat \ {0} /\ k \in Nat \ {0} /\ r \in 0 .. c - 1
      /\ nal.len = c * k + r /\ nal.len \in Nat /\ nal.len > c
  BY Chunks
<1>2. idx \in Nat /\ idx <= k - 1
  BY <1>1
<1> HIDE DEF c, r, k
<1>3. off \in Nat /\ (idx + 1) * c = off + c
  BY <1>1, <1>2
<1>4. (k - 1) * c = c * k - c /\ c * k \in Nat
  BY <1>1
<1>5. CASE k - 1 = idx
  <2>1. nal.len = off + c + r
    BY <1>1, <1>4, <1>5
  <2> HIDE DEF off
  <2>2. end - off = c
    BY <2>1, <1>1, <1>3
  <2>3. off + c = nal.len <=> last
    BY <2>1, <1>1, <1>3, <1>5
  <2>4. ~ (idx = 0 /\ last)
    <3>1. SUFFICES ASSUME idx = 0, last PROVE FALSE
      OBVIOUS
    <3>2. off = 0
      BY <3>1, <1>1 DEF off
    <3> QED
      BY <3>1, <3>2, <2>1, <1>1
  <2> QED
    BY <2>2, <2>3, <2>4, <1>3 DEF off, c, r, k
<1>6. CASE k - 1 # idx
  <2>1. ~ last /\ end = (idx + 1) * c
    BY <1>6
  <2>2. idx + 1 <= k - 1 /\ k - 1 - idx - 1 \in Nat
    BY <1>1, <1>2, <1>6
  <2>3. (idx + 1) * c <= (k - 1) * c
    <3>1. (k - 1 - idx - 1) * c \in Nat
      BY <2>2, <1>1
    <3>2. (k - 1 - idx - 1) * c = (k - 1) * c - (idx + 1) * c
      BY <1>1, <1>2
    <3> QED
      BY <3>1, <3>2, <1>3, <1>4, <1>1
  <2>4. off + c < nal.len
    BY <2>3, <1>1, <1>3, <1>4
  <2> HIDE DEF off
  <2>5. end - off = c
    BY <2>1, <1>1, <1>3
  <2>6. off + c = nal.len <=> last
    BY <2>1, <2>4, <1>1, <1>3
  <2> QED
    BY <2>1, <2>5, <2>6, <1>3 DEF off, c, r, k
<1> QED
  BY <1>5, <1>6

(* What is left after the loop fits a packet, and is never the whole unit. *)
LEMMA Rest ==
  ASSUME NEW nal \in Nals, ~ Fits(nal), rem(nal) # 0
  PROVE  LET off == packets_count(nal) * chunk_size(nal)
         IN  /\ off \in Nat
             /\ nal.len - off = rem(nal)
             /\ rem(nal) \in Nat \ {0}
             /\ rem(nal) + FuSize[nal.codec] <= MaxNaluSize[nal.codec]
             /\ packets_count(nal) # 0
<1> DEFINE c == chunk_size(nal)
           r == rem(nal)
           k == packets_count(nal)
<1>1. /\ c \in Nat \ {0} /\ k \in Nat \ {0} /\ r \in 0 .. c - 1
      /\ nal.len = c * k + r /\ c + FuSize[nal.codec] = MaxNaluSize[nal.codec]
  BY Chunks
<1>2. FuSize[nal.codec] \in Nat
  BY HeaderSizes DEF Nals
<1> HIDE DEF c, r, k
<1>3. k * c = c * k /\ c * k \in Nat /\ r # 0
  BY <1>1 DEF r
<1> QED
  BY <1>1, <1>2, <1>3 DEF c, r, k

-----------------------------------------------------------------------------

(* What the packetizer guarantees of every payload it emits. *)
GoodPayload(marker, p) ==
  /\ p \in FuPayloads
  /\ p.hdr + p.len <= MaxNaluSize[p.nal.codec]
  /\ p.kind = "fu" => p.len > 0 /\ ~ (p.S /\ p.E)
  /\ marker \in BOOLEAN
  /\ marker <=> p.nal.au_end /\ p.off + p.len = p.nal.len

NalWireOK ==
  /\ NalTypeOK
  /\ FragmentsWellFormed
  /\ MarkerEndsAccessUnit

(* The receiver stays within its type, whatever arrives. *)
LEMMA ReceiveType ==
  ASSUME NalTypeOK, NEW pkt, pkt.seq \in 0 .. U16 - 1, pkt.payload \in FuPayloads
  PROVE  Receive(pkt) \in [next : -1 .. U16 - 1, frags : Seq(FuPayloads),
                           done : Seq(Seq(FuPayloads)), gap : 0 .. U16 - 1,
                           hurt : SUBSET (1 .. MaxNals)]
<1> DEFINE p == pkt.payload
           frags == IF p.kind = "single" \/ p.S THEN <<p>>
                    ELSE IF pkt.seq = rx.next /\ rx.frags # << >> THEN Append(rx.frags, p)
                    ELSE << >>
           complete == frags # << >> /\ (p.kind = "single" \/ p.E)
           next == (pkt.seq + 1) % U16
<1>1. rx.frags \in Seq(FuPayloads) /\ rx.done \in Seq(Seq(FuPayloads))
  BY DEF NalTypeOK
<1>2. frags \in Seq(FuPayloads)
  BY <1>1
<1>3. next \in -1 .. U16 - 1 /\ 0 \in 0 .. U16 - 1
  <2> DEFINE m == pkt.seq + 1
  <2>1. m \in Nat
    OBVIOUS
  <2> HIDE DEF m
  <2>2. m % U16 \in 0 .. U16 - 1
    BY <2>1, WidthAssumption, DivMod
  <2> QED
    BY <2>2, WidthAssumption DEF m
<1> HIDE DEF frags, next
<1>4. /\ (IF complete THEN << >> ELSE frags) \in Seq(FuPayloads)
      /\ (IF complete THEN Append(rx.done, frags) ELSE rx.done) \in Seq(Seq(FuPayloads))
  <2> HIDE DEF complete
  <2>1. << >> \in Seq(FuPayloads)
    OBVIOUS
  <2>2. Append(rx.done, frags) \in Seq(Seq(FuPayloads))
    BY <1>1, <1>2, AppendProperties
  <2> QED
    BY <1>1, <1>2, <2>1, <2>2
<1>5. Receive(pkt) = [rx EXCEPT !.next = next, !.gap = 0,
                                !.frags = IF complete THEN << >> ELSE frags,
                                !.done = IF complete THEN Append(rx.done, frags) ELSE rx.done]
  BY DEF Receive, frags, next, NalTypeOK
<1> HIDE DEF complete
<1> QED
  BY <1>3, <1>4, <1>5 DEF NalTypeOK

(* Emitting one good payload keeps the types and the wire in order. *)
LEMMA EmitGood ==
  ASSUME NalWireOK, call.ts \in Timestamps, NEW ret \in {0, -1},
         NEW marker, NEW p, GoodPayload(marker, p), Emit(marker, p, ret)
  PROVE  /\ seq_num' \in 0 .. U16 - 1
         /\ clock_rate' \in ClockRates
         /\ ts_base_us' \in TsBases
         /\ wire' \in Seq(NalPackets)
         /\ rx' \in [next : -1 .. U16 - 1, frags : Seq(FuPayloads),
                     done : Seq(Seq(FuPayloads)), gap : 0 .. U16 - 1,
                     hurt : SUBSET (1 .. MaxNals)]
         /\ FragmentsWellFormed'
         /\ MarkerEndsAccessUnit'
<1> DEFINE pkt == PacketOf(call.ts, marker, p)
<1>0. NalTypeOK
  BY DEF NalWireOK
<1>1. clock_rate' = clock_rate /\ ts_base_us' = ts_base_us
  BY DEF Emit, SendPacket, config
<1>2. pkt \in NalPackets /\ pkt.payload = p /\ pkt.marker = marker /\ pkt.seq = seq_num
  <2>1. compute_timestamp(call.ts) \in 0 .. U32 - 1
    BY <1>0, TimestampType DEF NalTypeOK
  <2> QED
    BY <1>0, <2>1 DEF PacketOf, NalPackets, NalTypeOK, GoodPayload
<1>3. CASE ret = -1
  <2>1. UNCHANGED <<seq_num, wire, rx>>
    BY <1>3 DEF Emit, SendPacket, Account, counters
  <2> QED
    BY <1>0, <1>1, <2>1 DEF NalTypeOK, NalWireOK, FragmentsWellFormed, MarkerEndsAccessUnit
<1>4. CASE ret = 0
  <2>1. wire' = Append(wire, pkt) /\ seq_num' = (seq_num + 1) % U16
    BY <1>4 DEF Emit, SendPacket, Account
  <2>2. seq_num' \in 0 .. U16 - 1
    <3>1. seq_num + 1 \in Nat
      BY <1>0 DEF NalTypeOK
    <3> QED
      BY <2>1, <3>1, WidthAssumption, DivMod
  <2> HIDE DEF pkt
  <2>3. /\ wire' \in Seq(NalPackets)
        /\ Len(wire') = Len(wire) + 1
        /\ \A i \in 1 .. Len(wire) : wire'[i] = wire[i]
        /\ wire'[Len(wire) + 1] = pkt
    BY <2>1, <1>0, <1>2 DEF NalTypeOK
  <2>x. ASSUME NEW i \in 1 .. Len(wire')
       PROVE  i \in 1 .. Len(wire) \/ i = Len(wire) + 1
    BY <2>3, <1>0 DEF NalTypeOK
  <2>4. FragmentsWellFormed'
    <3> SUFFICES ASSUME NEW i \in 1 .. Len(wire')
                 PROVE  LET q == wire'[i].payload
                        IN  /\ q.hdr + q.len <= MaxNaluSize[q.nal.codec]
                            /\ q.kind = "fu" => q.len > 0 /\ ~ (q.S /\ q.E)
      BY DEF FragmentsWellFormed
    <3>1. CASE i \in 1 .. Len(wire)
      BY <2>3, <3>1 DEF NalWireOK, FragmentsWellFormed
    <3>2. CASE i = Len(wire) + 1
      BY <2>3, <3>2, <1>2 DEF GoodPayload
    <3> QED
      BY <3>1, <3>2, <2>x
  <2>5. MarkerEndsAccessUnit'
    <3> SUFFICES ASSUME NEW i \in 1 .. Len(wire')
                 PROVE  LET q == wire'[i].payload
                        IN  wire'[i].marker <=> q.nal.au_end /\ q.off + q.len = q.nal.len
      BY DEF MarkerEndsAccessUnit
    <3>1. CASE i \in 1 .. Len(wire)
      BY <2>3, <3>1 DEF NalWireOK, MarkerEndsAccessUnit
    <3>2. CASE i = Len(wire) + 1
      BY <2>3, <3>2, <1>2 DEF GoodPayload
    <3> QED
      BY <3>1, <3>2, <2>x
  <2>6. rx' = Receive(pkt) \/ (rx.gap < U16 - 1 /\ rx' = Lose(pkt))
    BY <1>4 DEF Emit, pkt
  <2>7. rx' \in [next : -1 .. U16 - 1, frags : Seq(FuPayloads),
                 done : Seq(Seq(FuPayloads)), gap : 0 .. U16 - 1,
                 hurt : SUBSET (1 .. MaxNals)]
    <3>1. CASE rx' = Receive(pkt)
      BY <3>1, <1>0, <1>2, ReceiveType DEF NalTypeOK, NalPackets
    <3>2. CASE rx.gap < U16 - 1 /\ rx' = Lose(pkt)
      <4>1. pkt.payload.nal.id \in 1 .. MaxNals
        BY <1>2 DEF NalPackets, FuPayloads, Nals
      <4>2. rx.gap + 1 \in 0 .. U16 - 1
        BY SMTT(30), <3>2, <1>0, WidthAssumption DEF NalTypeOK
      <4> QED
        BY <3>2, <4>1, <4>2, <1>0 DEF NalTypeOK, Lose
    <3> QED
      BY <2>6, <3>1, <3>2
  <2> QED
    BY <1>0, <1>1, <2>2, <2>3, <2>4, <2>5, <2>7 DEF NalTypeOK
<1> QED
  BY <1>3, <1>4

(* The payloads of the three sending steps are good. *)
LEMMA SingleGood ==
  ASSUME NEW nal \in Nals, Fits(nal)
  PROVE  GoodPayload(nal.au_end, SinglePayload(nal))
<1>1. nal.codec \in Codecs /\ nal.len \in Nat /\ nal.au_end \in BOOLEAN
  BY NalAssumption DEF Nals
<1>2. HdrSize[nal.codec] \in Nat
  BY <1>1, HeaderSizes
<1>3. SinglePayload(nal) \in FuPayloads
  BY <1>1, <1>2 DEF SinglePayload, FuPayloads
<1>4. HdrSize[nal.codec] + nal.len <= MaxNaluSize[nal.codec]
  BY DEF Fits, nalu_size
<1> QED
  BY <1>1, <1>3, <1>4 DEF SinglePayload, GoodPayload

LEMMA FuGood ==
  ASSUME NEW nal \in Nals, NEW off \in Nat, NEW len \in Nat \ {0},
         NEW first \in BOOLEAN, NEW last \in BOOLEAN,
         FuSize[nal.codec] + len <= MaxNaluSize[nal.codec],
         ~ (first /\ last),
         last <=> off + len = nal.len
  PROVE  GoodPayload(last /\ nal.au_end, FuPayload(nal, off, len, first, last))
<1>1. nal.codec \in Codecs /\ nal.len \in Nat /\ nal.au_end \in BOOLEAN
  BY NalAssumption DEF Nals
<1>2. FuSize[nal.codec] \in Nat
  BY <1>1, HeaderSizes
<1>3. FuPayload(nal, off, len, first, last) \in FuPayloads
  BY <1>1, <1>2 DEF FuPayload, FuPayloads
<1> QED
  BY <1>1, <1>3 DEF FuPayload, GoodPayload

(* What a turn of the loop and the step after it send. *)
ChunkPayload(nal, idx) ==
  FuPayload(nal, idx * chunk_size(nal), chunk_size(nal), idx = 0,
            rem(nal) = 0 /\ packets_count(nal) - 1 = idx)

RestPayload(nal) ==
  FuPayload(nal, packets_count(nal) * chunk_size(nal), rem(nal), FALSE, TRUE)

LEMMA ChunkGood ==
  ASSUME NEW nal \in Nals, ~ Fits(nal), NEW idx \in 0 .. packets_count(nal) - 1
  PROVE  GoodPayload((rem(nal) = 0 /\ packets_count(nal) - 1 = idx) /\ nal.au_end,
                     ChunkPayload(nal, idx))
<1> DEFINE c == chunk_size(nal)
           off == idx * c
           last == rem(nal) = 0 /\ packets_count(nal) - 1 = idx
<1>1. off \in Nat /\ (off + c = nal.len <=> last) /\ ~ (idx = 0 /\ last)
  BY Turn
<1>2. c \in Nat \ {0} /\ c + FuSize[nal.codec] = MaxNaluSize[nal.codec]
  BY Chunks
<1>3. FuSize[nal.codec] \in Nat /\ MaxNaluSize[nal.codec] \in Nat
  BY HeaderSizes DEF Nals
<1>4. FuSize[nal.codec] + c <= MaxNaluSize[nal.codec]
  BY <1>2, <1>3
<1> DEFINE first == idx = 0
<1>5. first \in BOOLEAN /\ last \in BOOLEAN /\ ~ (first /\ last)
  BY <1>1
<1> HIDE DEF c, off, last, first
<1>6. GoodPayload(last /\ nal.au_end, FuPayload(nal, off, c, first, last))
  BY <1>1, <1>2, <1>4, <1>5, FuGood
<1> QED
  BY <1>6 DEF ChunkPayload, c, off, last, first

LEMMA RestGood ==
  ASSUME NEW nal \in Nals, ~ Fits(nal), rem(nal) # 0
  PROVE  GoodPayload(TRUE /\ nal.au_end, RestPayload(nal))
<1> DEFINE off == packets_count(nal) * chunk_size(nal)
           len == rem(nal)
<1>1. /\ off \in Nat /\ nal.len - off = len /\ len \in Nat \ {0}
      /\ len + FuSize[nal.codec] <= MaxNaluSize[nal.codec]
  BY Rest
<1> HIDE DEF off, len
<1>0. nal.codec \in Codecs /\ nal.len \in Nat
  BY NalAssumption DEF Nals
<1>2. FuSize[nal.codec] \in Nat /\ MaxNaluSize[nal.codec] \in Nat /\ nal.len \in Nat
  BY <1>0, HeaderSizes
<1>3. FuSize[nal.codec] + len <= MaxNaluSize[nal.codec] /\ off + len = nal.len
  BY <1>1, <1>2
<1>4. GoodPayload(TRUE /\ nal.au_end, FuPayload(nal, off, len, FALSE, TRUE))
  BY <1>1, <1>3, FuGood
<1> QED
  BY <1>4 DEF RestPayload, off, len

-----------------------------------------------------------------------------

(* A call in the loop has a unit that needs it. *)
LEMMA InLoop ==
  ASSUME NalTypeOK, call.stage = "fu"
  PROVE  /\ call.nal \in Nals
         /\ call.nal.id = count
         /\ call.ts \in Timestamps
         /\ call.idx \in 0 .. packets_count(call.nal)
         /\ ~ Fits(call.nal)
BY DEF NalTypeOK, Idle

(* What the sending steps do, with the lengths worked out. *)
LEMMA ChunkStep ==
  ASSUME NalTypeOK, NEW ret \in {0, -1}, SendChunk(ret)
  PROVE  LET nal == call.nal
             last == rem(nal) = 0 /\ packets_count(nal) - 1 = call.idx
         IN  /\ call.idx \in 0 .. packets_count(nal) - 1
             /\ Emit(last /\ nal.au_end, ChunkPayload(nal, call.idx), ret)
             /\ count' = count
             /\ \/ ret = -1 /\ Answering(-1)
                \/ ret = 0 /\ call' = [call EXCEPT !.idx = @ + 1]
<1> DEFINE nal == call.nal
           c == chunk_size(nal)
           off == call.idx * c
           last == rem(nal) = 0 /\ packets_count(nal) - 1 = call.idx
           end == IF last THEN nal.len ELSE (call.idx + 1) * c
<1>1. nal \in Nals /\ ~ Fits(nal) /\ packets_count(nal) \in Nat
  BY InLoop, Chunks DEF SendChunk
<1>2. call.idx \in 0 .. packets_count(nal) - 1
  BY InLoop, <1>1 DEF SendChunk
<1>3. end - off = c
  BY <1>1, <1>2, Turn
<1>4. SendFu(off, end - off, call.idx = 0, last, ret)
  BY DEF SendChunk
<1>5. SendFu(off, c, call.idx = 0, last, ret)
  BY <1>3, <1>4
<1> QED
  BY <1>2, <1>5 DEF SendChunk, SendFu, ChunkPayload

LEMMA RestStep ==
  ASSUME NalTypeOK, NEW ret \in {0, -1}, SendRemainder(ret)
  PROVE  /\ rem(call.nal) # 0
         /\ Emit(TRUE /\ call.nal.au_end, RestPayload(call.nal), ret)
         /\ count' = count
         /\ Answering(ret)
<1> DEFINE nal == call.nal
           off == packets_count(nal) * chunk_size(nal)
<1>1. nal \in Nals /\ ~ Fits(nal) /\ rem(nal) # 0
  BY InLoop DEF SendRemainder
<1>2. nal.len - off = rem(nal) /\ packets_count(nal) # 0
  BY <1>1, Rest
<1>3. SendFu(off, nal.len - off, packets_count(nal) = 0, TRUE, ret)
  BY DEF SendRemainder
<1>4. SendFu(off, rem(nal), FALSE, TRUE, ret)
  BY <1>2, <1>3
<1> QED
  BY <1>1, <1>4 DEF SendRemainder, SendFu, RestPayload

(* A sending step whose payload is good leaves everything but the call in  *)
(* order; a call that answers is in order as well.                         *)
LEMMA Sent ==
  ASSUME NalWireOK, call.ts \in Timestamps, NEW ret \in {0, -1},
         NEW marker, NEW p, GoodPayload(marker, p), Emit(marker, p, ret),
         call.nal \in Nals, call.nal.id = count, count' = count, Answering(ret)
  PROVE  NalWireOK'
<1>1. call'.stage = "return" /\ call'.nal = call.nal /\ call'.ret = ret
  BY DEF Answering
<1>2. count \in 0 .. MaxNals
  BY DEF NalWireOK, NalTypeOK
<1> QED
  BY <1>1, <1>2, EmitGood DEF NalWireOK, NalTypeOK

LEMMA NalWireInit == NalInit => NalWireOK
<1> SUFFICES ASSUME NalInit PROVE NalWireOK
  OBVIOUS
<1>1. /\ seq_num = 0 /\ clock_rate \in ClockRates /\ ts_base_us \in TsBases
      /\ wire = << >> /\ call = Idle /\ count = 0 /\ rx = RxInit
  BY DEF NalInit, Init
<1>2. RxInit \in [next : -1 .. U16 - 1, frags : Seq(FuPayloads),
                  done : Seq(Seq(FuPayloads)), gap : 0 .. U16 - 1,
                  hurt : SUBSET (1 .. MaxNals)]
  BY WidthAssumption DEF RxInit
<1>3. wire \in Seq(NalPackets) /\ Len(wire) = 0
  BY <1>1
<1>4. NalTypeOK
  BY <1>1, <1>2, <1>3, WidthAssumption, NalAssumption DEF NalTypeOK
<1> QED
  BY <1>3, <1>4 DEF NalWireOK, FragmentsWellFormed, MarkerEndsAccessUnit

LEMMA NalWireStep == NalWireOK /\ [NalNext]_nalVars => NalWireOK'
<1> SUFFICES ASSUME NalWireOK, [NalNext]_nalVars PROVE NalWireOK'
  OBVIOUS
<1>0. NalTypeOK
  BY DEF NalWireOK
<1>1. ASSUME NEW ts \in Timestamps, NEW codec \in Codecs, NEW len \in PayloadLens,
             NEW au_end \in BOOLEAN, Call(ts, codec, len, au_end)
      PROVE  NalWireOK'
  <2> DEFINE nal == [id |-> count + 1, codec |-> codec, len |-> len, au_end |-> au_end]
  <2>1. count' \in 1 .. MaxNals /\ nal.id = count'
    BY <1>0, <1>1, NalAssumption DEF Call, NalTypeOK
  <2>2. nal \in Nals
    BY <1>1, <2>1 DEF Nals, Call
  <2>3. call' = [stage |-> IF Fits(nal) THEN "single" ELSE "fu",
                 nal |-> nal, ts |-> ts, idx |-> 0]
    BY <1>1 DEF Call
  <2>4. UNCHANGED <<seq_num, clock_rate, ts_base_us, wire, rx>>
    BY <1>1 DEF Call, rtpVars
  <2> HIDE DEF nal
  <2>5. 0 \in 0 .. packets_count(nal)
    <3> DEFINE c == chunk_size(nal)
               r == rem(nal)
    <3>1. nal.len \in Nat /\ nal.codec \in Codecs
      BY <2>2, NalAssumption DEF Nals
    <3>2. c \in Nat \ {0}
      BY <3>1, HeaderSizes DEF chunk_size
    <3>3. r = nal.len % c /\ packets_count(nal) = (nal.len - r) \div c
      BY DEF rem, packets_count
    <3> HIDE DEF c, r
    <3> DEFINE q == nal.len \div c
    <3>4. q \in Nat /\ r \in 0 .. c - 1 /\ nal.len = c * q + r
      BY <3>1, <3>2, <3>3, DivMod
    <3> HIDE DEF q
    <3>5. c * q \in Nat /\ c \in Nat \ {0}
      BY <3>2, <3>4
    <3> DEFINE m == c * q
    <3>6. m \in Nat /\ nal.len - r = m
      BY <3>4, <3>5
    <3> HIDE DEF m
    <3>7. m \div c \in Nat
      BY <3>5, <3>6, DivMod
    <3> QED
      BY <3>3, <3>6, <3>7
  <2>6. /\ call'.stage \in {"single", "fu"}
        /\ call'.nal \in Nals
        /\ call'.nal.id = count'
        /\ call'.ts \in Timestamps
        /\ call'.idx \in 0 .. packets_count(call'.nal)
        /\ Fits(call'.nal) <=> call'.stage = "single"
    BY <2>1, <2>2, <2>3, <2>5
  <2>7. NalTypeOK'
    <3>1. MaxNaluSize' = MaxNaluSize
      OBVIOUS
    <3> QED
      BY <1>0, <2>1, <2>4, <2>6 DEF NalTypeOK, packets_count, rem, chunk_size, Fits, nalu_size
  <2> QED
    BY <2>4, <2>7 DEF NalWireOK, FragmentsWellFormed, MarkerEndsAccessUnit
<1>2. ASSUME NEW ret \in {0, -1}, SendSingle(ret) PROVE NalWireOK'
  <2>1. call.nal \in Nals /\ Fits(call.nal) /\ call.ts \in Timestamps /\ call.nal.id = count
    BY <1>0, <1>2 DEF SendSingle, NalTypeOK, Idle
  <2>2. GoodPayload(call.nal.au_end, SinglePayload(call.nal))
    BY <2>1, SingleGood
  <2> QED
    BY <1>2, <2>1, <2>2, Sent DEF SendSingle
<1>3. ASSUME NEW ret \in {0, -1}, SendChunk(ret) PROVE NalWireOK'
  <2> DEFINE nal == call.nal
             last == rem(nal) = 0 /\ packets_count(nal) - 1 = call.idx
             p == ChunkPayload(nal, call.idx)
  <2>1. nal \in Nals /\ ~ Fits(nal) /\ call.ts \in Timestamps /\ nal.id = count
        /\ packets_count(nal) \in Nat
    BY <1>0, <1>3, InLoop, Chunks DEF SendChunk
  <2>2. call.idx \in 0 .. packets_count(nal) - 1 /\ Emit(last /\ nal.au_end, p, ret)
        /\ count' = count
        /\ \/ ret = -1 /\ Answering(-1)
           \/ ret = 0 /\ call' = [call EXCEPT !.idx = @ + 1]
    BY <1>0, <1>3, ChunkStep
  <2>3. GoodPayload(last /\ nal.au_end, p)
    BY <2>1, <2>2, ChunkGood
  <2> HIDE DEF p
  <2>4. CASE ret = -1 /\ Answering(-1)
    BY <2>1, <2>2, <2>3, <2>4, Sent
  <2>5. CASE ret = 0 /\ call' = [call EXCEPT !.idx = @ + 1]
    <3>1. /\ seq_num' \in 0 .. U16 - 1
          /\ clock_rate' \in ClockRates
          /\ ts_base_us' \in TsBases
          /\ wire' \in Seq(NalPackets)
          /\ rx' \in [next : -1 .. U16 - 1, frags : Seq(FuPayloads),
                      done : Seq(Seq(FuPayloads)), gap : 0 .. U16 - 1,
                      hurt : SUBSET (1 .. MaxNals)]
          /\ FragmentsWellFormed'
          /\ MarkerEndsAccessUnit'
      BY <2>1, <2>2, <2>3, EmitGood
    <3>2. call.idx + 1 \in 0 .. packets_count(nal)
      BY <2>1, <2>2
    <3>3. call.stage = "fu"
      BY <1>3 DEF SendChunk
    <3>4. /\ call'.stage = "fu" /\ call'.nal = nal /\ call'.ts = call.ts
          /\ call'.idx = call.idx + 1
      BY <2>5, <3>3, <1>0 DEF NalTypeOK, Idle
    <3>5. count' \in 0 .. MaxNals
      BY <1>0, <2>2 DEF NalTypeOK
    <3> QED
      BY <2>1, <2>2, <3>1, <3>2, <3>4, <3>5 DEF NalWireOK, NalTypeOK
  <2> QED
    BY <2>2, <2>4, <2>5
<1>4. ASSUME NEW ret \in {0, -1}, SendRemainder(ret) PROVE NalWireOK'
  <2>1. call.nal \in Nals /\ ~ Fits(call.nal) /\ call.ts \in Timestamps /\ call.nal.id = count
    BY <1>0, <1>4, InLoop DEF SendRemainder
  <2>2. GoodPayload(TRUE /\ call.nal.au_end, RestPayload(call.nal))
    BY <1>0, <1>4, <2>1, RestStep, RestGood
  <2> QED
    BY <1>0, <1>4, <2>1, <2>2, RestStep, Sent
<1>5. CASE FinishLoop
  <2>1. /\ call'.stage = "return" /\ call'.nal = call.nal /\ call'.ret = 0
        /\ call.nal \in Nals /\ call.nal.id = count
    BY <1>0, <1>5, InLoop DEF FinishLoop, Answering
  <2>2. UNCHANGED <<seq_num, clock_rate, ts_base_us, wire, rx, count>>
    BY <1>5 DEF FinishLoop, rtpVars
  <2>3. NalTypeOK'
    BY <1>0, <2>1, <2>2 DEF NalTypeOK
  <2> QED
    BY <2>2, <2>3 DEF NalWireOK, FragmentsWellFormed, MarkerEndsAccessUnit
<1>6. CASE Return
  <2>1. call' = Idle
    BY <1>6 DEF Return
  <2>2. UNCHANGED <<seq_num, clock_rate, ts_base_us, wire, rx, count>>
    BY <1>6 DEF Return, rtpVars
  <2>3. NalTypeOK'
    BY <1>0, <2>1, <2>2 DEF NalTypeOK
  <2> QED
    BY <2>2, <2>3 DEF NalWireOK, FragmentsWellFormed, MarkerEndsAccessUnit
<1>7. CASE UNCHANGED nalVars
  <2>1. UNCHANGED <<seq_num, clock_rate, ts_base_us, wire, rx, count, call>>
    BY <1>7 DEF nalVars, rtpVars
  <2>2. NalTypeOK'
    BY <1>0, <2>1 DEF NalTypeOK
  <2> QED
    BY <2>1, <2>2 DEF NalWireOK, FragmentsWellFormed, MarkerEndsAccessUnit
<1> QED
  BY <1>1, <1>2, <1>3, <1>4, <1>5, <1>6, <1>7 DEF NalNext, Step

-----------------------------------------------------------------------------

(* The types, and with them the range of the loop index, hold for every    *)
(* packet size and unit length (nal_transport.c:127-175).                  *)
THEOREM NalTypeCorrect == NalSpec => []NalTypeOK
<1>1. NalWireOK => NalTypeOK
  BY DEF NalWireOK
<1> QED
  BY <1>1, NalWireInit, NalWireStep, PTL DEF NalSpec

(* No packet is oversized, empty, or first and last at once, for every     *)
(* packet size the code's assertion allows (nal_transport.c:130-137).      *)
THEOREM FragmentsAreWellFormed == NalSpec => []FragmentsWellFormed
<1>1. NalWireOK => FragmentsWellFormed
  BY DEF NalWireOK
<1> QED
  BY <1>1, NalWireInit, NalWireStep, PTL DEF NalSpec

(* The marker is on the packet with the last byte of an access unit and on *)
(* no other (nal_transport.c:102-107, 185-187).                            *)
THEOREM MarkersEndAccessUnits == NalSpec => []MarkerEndsAccessUnit
<1>1. NalWireOK => MarkerEndsAccessUnit
  BY DEF NalWireOK
<1> QED
  BY <1>1, NalWireInit, NalWireStep, PTL DEF NalSpec
-----------------------------------------------------------------------------
(* What the receiver gets: only whole units, and NalDelivery's promise,    *)
(* for every pattern of failed sends and losses.                           *)

(* Fragments that are the beginning of one unit, and how far they reach. *)
PartOf(frags) ==
  /\ frags # << >>
  /\ frags[1].off = 0
  /\ \A i \in 1 .. Len(frags) - 1 :
       /\ frags[i + 1].nal = frags[1].nal
       /\ frags[i + 1].off = frags[i].off + frags[i].len

EndOf(frags) == frags[Len(frags)].off + frags[Len(frags)].len

LEMMA WholePart ==
  ASSUME NEW frags, PartOf(frags), EndOf(frags) = frags[1].nal.len
  PROVE  Whole(frags)
BY DEF PartOf, EndOf, Whole

LEMMA PartSingle ==
  ASSUME NEW p \in FuPayloads, p.off = 0
  PROVE  /\ PartOf(<<p>>)
         /\ <<p>>[1] = p
         /\ EndOf(<<p>>) = p.off + p.len
         /\ <<p>> \in Seq(FuPayloads)
<1>1. Len(<<p>>) = 1 /\ <<p>>[1] = p /\ <<p>> # << >>
  OBVIOUS
<1>2. 1 .. Len(<<p>>) - 1 = {}
  BY <1>1
<1> QED
  BY <1>1, <1>2 DEF PartOf, EndOf

LEMMA PartAppend ==
  ASSUME NEW frags \in Seq(FuPayloads), PartOf(frags),
         NEW p \in FuPayloads, p.nal = frags[1].nal, p.off = EndOf(frags)
  PROVE  /\ PartOf(Append(frags, p))
         /\ Append(frags, p)[1] = frags[1]
         /\ EndOf(Append(frags, p)) = p.off + p.len
         /\ Append(frags, p) \in Seq(FuPayloads)
<1> DEFINE n == Len(frags)
           a == Append(frags, p)
<1>1. n \in Nat /\ n # 0
  BY EmptySeq DEF PartOf
<1>2. /\ a \in Seq(FuPayloads)
      /\ Len(a) = n + 1
      /\ \A i \in 1 .. n : a[i] = frags[i]
      /\ a[n + 1] = p
  BY AppendProperties
<1> HIDE DEF a
<1>3. a # << >>
  <2>1. Len(a) # 0
    BY <1>1, <1>2
  <2> QED
    BY <2>1
<1>4. a[1] = frags[1]
  BY <1>1, <1>2
<1>5. EndOf(a) = p.off + p.len
  BY <1>2 DEF EndOf
<1>6. ASSUME NEW i \in 1 .. Len(a) - 1
      PROVE  a[i + 1].nal = a[1].nal /\ a[i + 1].off = a[i].off + a[i].len
  <2>0. i \in 1 .. n
    BY <1>1, <1>2
  <2>1. CASE i \in 1 .. n - 1
    <3>1. i \in 1 .. n /\ i + 1 \in 1 .. n
      BY <2>1, <1>1
    <3>2. a[i] = frags[i] /\ a[i + 1] = frags[i + 1]
      BY <3>1, <1>2
    <3>3. /\ frags[i + 1].nal = frags[1].nal
          /\ frags[i + 1].off = frags[i].off + frags[i].len
      BY <2>1 DEF PartOf
    <3> QED
      BY <3>2, <3>3, <1>4
  <2>2. CASE i = n
    <3>1. a[i + 1] = p /\ a[i] = frags[n]
      BY <2>2, <1>1, <1>2
    <3> QED
      BY <3>1, <1>4 DEF EndOf
  <2> QED
    BY <2>0, <2>1, <2>2, <1>1
<1>7. frags[1].off = 0
  BY DEF PartOf
<1>8. PartOf(a)
  BY <1>3, <1>4, <1>6, <1>7 DEF PartOf
<1> QED
  BY <1>2, <1>4, <1>5, <1>8 DEF a

-----------------------------------------------------------------------------

(* The receiver has counted along with the sender, and what it holds is    *)
(* the beginning of a unit.                                                *)
InStep ==
  /\ rx.next = -1 => rx.frags = << >>
  /\ rx.next # -1 => seq_num = (rx.next + rx.gap) % U16
  /\ rx.frags # << >> => PartOf(rx.frags)

(* While the loop is running and nothing was lost, what the receiver holds *)
(* is what the loop has sent.                                              *)
Joins ==
  (rx.frags # << >> /\ rx.gap = 0 /\ call.stage = "fu" /\ call.idx # 0) =>
    /\ rx.frags[1].nal = call.nal
    /\ EndOf(rx.frags) = call.idx * chunk_size(call.nal)

Reached == rx.done # << >> /\ rx.done[Len(rx.done)][1].nal = call.nal

(* Finished units were sent, and a unit is not finished before its last    *)
(* fragment is out.                                                        *)
NotEarly ==
  /\ \A i \in 1 .. Len(rx.done) : rx.done[i][1].nal.id <= count
  /\ (call.stage \in {"single", "fu"} /\ Reached) =>
       /\ call.stage = "fu"
       /\ call.idx = packets_count(call.nal)
       /\ rem(call.nal) = 0

NalIInv ==
  /\ NalWireOK
  /\ InStep
  /\ Joins
  /\ DeliveredWhole
  /\ NotEarly

(* The list a packet leaves the receiver with, before it is cleared, and   *)
(* whether it is a unit.                                                   *)
Extended(pkt) ==
  IF pkt.payload.kind = "single" \/ pkt.payload.S THEN <<pkt.payload>>
  ELSE IF pkt.seq = rx.next /\ rx.frags # << >> THEN Append(rx.frags, pkt.payload)
  ELSE << >>

Completes(pkt) ==
  Extended(pkt) # << >> /\ (pkt.payload.kind = "single" \/ pkt.payload.E)

LEMMA ReceiveFields ==
  ASSUME NalTypeOK, NEW pkt
  PROVE  /\ Receive(pkt).next = (pkt.seq + 1) % U16
         /\ Receive(pkt).gap = 0
         /\ Receive(pkt).frags = IF Completes(pkt) THEN << >> ELSE Extended(pkt)
         /\ Receive(pkt).done = IF Completes(pkt) THEN Append(rx.done, Extended(pkt))
                                ELSE rx.done
BY DEF Receive, Extended, Completes, NalTypeOK

(* What has to be true of a packet for the receiver to stay right: a first *)
(* fragment starts at the beginning, another one goes on where the held    *)
(* ones end, and the last one ends at the unit's end.                      *)
Follows(p) ==
  /\ (p.kind = "single" \/ p.S) => p.off = 0
  /\ (~ (p.kind = "single" \/ p.S) /\ rx.frags # << >> /\ rx.gap = 0) =>
       rx.frags[1].nal = p.nal /\ EndOf(rx.frags) = p.off
  /\ (p.kind = "single" \/ p.E) => p.off + p.len = p.nal.len

(* A packet is only appended when none was lost before it. *)
LEMMA AppendedNext ==
  ASSUME NalTypeOK, InStep, rx.frags # << >>, rx.next = seq_num
  PROVE  rx.gap = 0
<1>1. rx.next # -1 /\ seq_num = (rx.next + rx.gap) % U16
  BY DEF InStep
<1>2. seq_num \in 0 .. U16 - 1 /\ rx.gap \in 0 .. U16 - 1
  BY DEF NalTypeOK
<1>3. (seq_num + rx.gap) % U16 = seq_num
  BY <1>1
<1> DEFINE s == seq_num
           k == rx.gap
<1>4. s \in 0 .. U16 - 1 /\ k \in 0 .. U16 - 1 /\ (s + k) % U16 = s /\ U16 \in Nat \ {0}
  BY <1>2, <1>3, WidthAssumption
<1> HIDE DEF s, k
<1>5. k = 0
  BY <1>4, OtherResidue
<1> QED
  BY <1>5 DEF k

LEMMA ExtendedPart ==
  ASSUME NalTypeOK, InStep, NEW pkt, pkt.seq = seq_num,
         pkt.payload \in FuPayloads, Follows(pkt.payload), Extended(pkt) # << >>
  PROVE  /\ PartOf(Extended(pkt))
         /\ Extended(pkt)[1].nal = pkt.payload.nal
         /\ EndOf(Extended(pkt)) = pkt.payload.off + pkt.payload.len
         /\ Extended(pkt) \in Seq(FuPayloads)
<1> DEFINE p == pkt.payload
<1>1. CASE p.kind = "single" \/ p.S
  <2>1. Extended(pkt) = <<p>> /\ p.off = 0
    BY <1>1 DEF Extended, Follows
  <2> QED
    BY <2>1, PartSingle
<1>2. CASE ~ (p.kind = "single" \/ p.S)
  <2>1. pkt.seq = rx.next /\ rx.frags # << >> /\ Extended(pkt) = Append(rx.frags, p)
    BY <1>2 DEF Extended
  <2>2. rx.gap = 0
    BY <2>1, AppendedNext
  <2>3. rx.frags[1].nal = p.nal /\ EndOf(rx.frags) = p.off
    BY <1>2, <2>1, <2>2 DEF Follows
  <2>4. rx.frags \in Seq(FuPayloads) /\ PartOf(rx.frags)
    BY <2>1 DEF NalTypeOK, InStep
  <2> QED
    BY <2>1, <2>3, <2>4, PartAppend
<1> QED
  BY <1>1, <1>2

(* One packet, refused, lost or received, keeps the receiver right. *)
LEMMA EmitReceives ==
  ASSUME NalTypeOK, InStep, DeliveredWhole, NEW ret \in {0, -1}, NEW marker,
         NEW p \in FuPayloads, Follows(p), Emit(marker, p, ret)
  PROVE  /\ InStep'
         /\ DeliveredWhole'
         /\ (ret = 0 /\ rx'.frags # << >> /\ rx'.gap = 0) =>
              rx'.frags[1].nal = p.nal /\ EndOf(rx'.frags) = p.off + p.len
         /\ \/ rx'.done = rx.done
            \/ /\ ret = 0
               /\ p.kind = "single" \/ p.E
               /\ \E frags \in Seq(FuPayloads) :
                    frags[1].nal = p.nal /\ rx'.done = Append(rx.done, frags)
<1> DEFINE pkt == PacketOf(call.ts, marker, p)
<1>1. pkt.payload = p /\ pkt.seq = seq_num
  BY DEF PacketOf
<1>2. CASE ret = -1
  <2>1. rx' = rx /\ seq_num' = seq_num
    BY <1>2 DEF Emit, SendPacket, Account, counters
  <2> QED
    BY <1>2, <2>1 DEF InStep, DeliveredWhole
<1>3. CASE ret = 0
  <2>1. seq_num' = (seq_num + 1) % U16
    BY <1>3 DEF Emit, SendPacket, Account
  <2>2. rx' = Receive(pkt) \/ rx' = Lose(pkt)
    BY <1>3 DEF Emit
  <2> HIDE DEF pkt
  <2>3. CASE rx' = Lose(pkt)
    <3>1. /\ rx'.next = rx.next /\ rx'.frags = rx.frags /\ rx'.done = rx.done
          /\ rx'.gap = rx.gap + 1 /\ rx.gap \in Nat /\ rx.next \in -1 .. U16 - 1
      BY <2>3 DEF Lose, NalTypeOK
    <3>2. rx'.gap # 0
      BY <3>1
    <3>3. ASSUME rx.next # -1 PROVE seq_num' = (rx'.next + rx'.gap) % U16
      <4> DEFINE n == rx.next + rx.gap
      <4>1. n \in Nat /\ seq_num = n % U16
        BY SMTT(30), <3>1, <3>3, WidthAssumption DEF InStep
      <4>2. rx'.next + rx'.gap = n + 1
        BY <3>1
      <4> HIDE DEF n
      <4>3. ((n % U16) + 1) % U16 = (n + 1) % U16
        BY <4>1, WidthAssumption, WrapIncrement
      <4> QED
        BY <2>1, <4>1, <4>2, <4>3
    <3>4. InStep'
      BY <3>1, <3>3 DEF InStep, PartOf
    <3>5. DeliveredWhole'
      BY <3>1 DEF DeliveredWhole
    <3> QED
      BY <3>1, <3>2, <3>4, <3>5
  <2>4. CASE rx' = Receive(pkt)
    <3> DEFINE e == Extended(pkt)
    <3>1. /\ rx'.next = (seq_num + 1) % U16
          /\ rx'.gap = 0
          /\ rx'.frags = IF Completes(pkt) THEN << >> ELSE e
          /\ rx'.done = IF Completes(pkt) THEN Append(rx.done, e) ELSE rx.done
      BY <2>4, <1>1, ReceiveFields
    <3>2. e # << >> => /\ PartOf(e)
                       /\ e[1].nal = p.nal
                       /\ EndOf(e) = p.off + p.len
                       /\ e \in Seq(FuPayloads)
      BY <1>1, ExtendedPart
    <3>3. Completes(pkt) => e # << >> /\ (p.kind = "single" \/ p.E)
      BY <1>1 DEF Completes
    <3>4. rx.done \in Seq(Seq(FuPayloads)) /\ seq_num \in 0 .. U16 - 1
      BY DEF NalTypeOK
    <3> HIDE DEF e
    <3>5. rx'.next # -1 /\ seq_num' = (rx'.next + rx'.gap) % U16
      <4> DEFINE m == seq_num + 1
                 x == m % U16
      <4>1. m \in Nat
        BY <3>4
      <4> HIDE DEF m
      <4>2. x \in 0 .. U16 - 1
        BY <4>1, WidthAssumption, DivMod
      <4> HIDE DEF x
      <4>3. x \in Nat /\ x % U16 = x
        <5>1. x \in 0 .. U16 - 1 /\ U16 \in Nat \ {0} /\ U16 * 0 + x = x
          BY <4>2, WidthAssumption
        <5>2. (U16 * 0 + x) % U16 = x
          BY <5>1, DivModUnique
        <5> QED
          BY <5>1, <5>2
      <4>4. rx'.next = x /\ seq_num' = x /\ rx'.gap = 0
        BY <2>1, <3>1 DEF x, m
      <4> QED
        BY <4>3, <4>4
    <3>6. InStep'
      <4>1. rx'.frags # << >> => PartOf(rx'.frags)
        BY <3>1, <3>2
      <4> QED
        BY <3>5, <4>1 DEF InStep, PartOf
    <3>7. CASE Completes(pkt)
      <4>1. /\ PartOf(e) /\ e[1].nal = p.nal /\ EndOf(e) = p.off + p.len
            /\ e \in Seq(FuPayloads) /\ (p.kind = "single" \/ p.E)
        BY <3>2, <3>3, <3>7
      <4>2. EndOf(e) = e[1].nal.len
        BY <4>1 DEF Follows
      <4>3. Whole(e)
        BY <4>1, <4>2, WholePart
      <4>4. rx'.done = Append(rx.done, e) /\ rx'.frags = << >>
        BY <3>1, <3>7
      <4>5. DeliveredWhole'
        <5> SUFFICES ASSUME NEW i \in 1 .. Len(rx'.done) PROVE Whole(rx'.done[i])
          BY DEF DeliveredWhole, Whole
        <5> DEFINE n == Len(rx.done)
        <5>1. /\ n \in Nat /\ Len(rx'.done) = n + 1
              /\ \A k \in 1 .. n : rx'.done[k] = rx.done[k]
              /\ rx'.done[n + 1] = e
          BY <4>1, <4>4, <3>4, AppendProperties
        <5>2. CASE i \in 1 .. n
          BY <5>1, <5>2 DEF DeliveredWhole
        <5>3. CASE i = n + 1
          BY <5>1, <5>3, <4>3
        <5> QED
          BY <5>1, <5>2, <5>3
      <4> QED
        BY <1>3, <3>6, <4>1, <4>4, <4>5
    <3>8. CASE ~ Completes(pkt)
      <4>1. rx'.done = rx.done /\ rx'.frags = e
        BY <3>1, <3>8
      <4>2. DeliveredWhole'
        BY <4>1 DEF DeliveredWhole
      <4> QED
        BY <3>2, <3>6, <4>1, <4>2
    <3> QED
      BY <3>7, <3>8
  <2> QED
    BY <2>2, <2>3, <2>4
<1> QED
  BY <1>2, <1>3

(* The three sending steps send what follows. *)
LEMMA SingleFollows ==
  ASSUME NEW nal \in Nals, Fits(nal)
  PROVE  SinglePayload(nal) \in FuPayloads /\ Follows(SinglePayload(nal))
<1>1. SinglePayload(nal) \in FuPayloads
  BY SingleGood DEF GoodPayload
<1>2. nal.len \in Nat
  BY NalAssumption DEF Nals
<1> QED
  BY <1>1, <1>2 DEF SinglePayload, Follows

LEMMA ChunkFollows ==
  ASSUME NalTypeOK, Joins, call.stage = "fu", call.idx \in 0 .. packets_count(call.nal) - 1
  PROVE  /\ ChunkPayload(call.nal, call.idx) \in FuPayloads
         /\ Follows(ChunkPayload(call.nal, call.idx))
         /\ ChunkPayload(call.nal, call.idx).nal = call.nal
         /\ ChunkPayload(call.nal, call.idx).off + ChunkPayload(call.nal, call.idx).len
              = (call.idx + 1) * chunk_size(call.nal)
         /\ ChunkPayload(call.nal, call.idx).kind = "fu"
         /\ ChunkPayload(call.nal, call.idx).E
              <=> rem(call.nal) = 0 /\ packets_count(call.nal) - 1 = call.idx
<1> DEFINE nal == call.nal
           c == chunk_size(nal)
           off == call.idx * c
           last == rem(nal) = 0 /\ packets_count(nal) - 1 = call.idx
           first == call.idx = 0
           p == ChunkPayload(nal, call.idx)
<1>1. nal \in Nals /\ ~ Fits(nal)
  BY InLoop
<1>2. p \in FuPayloads
  BY <1>1, ChunkGood DEF GoodPayload
<1>3. /\ off \in Nat /\ (call.idx + 1) * c = off + c
      /\ off + c = nal.len <=> last
  BY <1>1, Turn
<1>4. first => off = 0
  <2>1. c \in Nat
    BY <1>1, Chunks
  <2> QED
    BY <2>1
<1>5. (rx.frags # << >> /\ rx.gap = 0 /\ ~ first) => rx.frags[1].nal = nal /\ EndOf(rx.frags) = off
  BY DEF Joins
<1> HIDE DEF c, off, last, first
<1>6. /\ p.nal = nal /\ p.off = off /\ p.len = c /\ p.S = first /\ p.E = last
      /\ p.kind = "fu"
  BY DEF ChunkPayload, FuPayload, c, off, last, first
<1> HIDE DEF p
<1>7. Follows(p)
  BY <1>3, <1>4, <1>5, <1>6 DEF Follows
<1>8. p.off + p.len = (call.idx + 1) * c /\ (p.E <=> last)
  BY <1>3, <1>6
<1> QED
  BY <1>2, <1>6, <1>7, <1>8 DEF c, p, last

LEMMA RestFollows ==
  ASSUME NalTypeOK, Joins, call.stage = "fu", call.idx = packets_count(call.nal),
         rem(call.nal) # 0
  PROVE  /\ RestPayload(call.nal) \in FuPayloads
         /\ Follows(RestPayload(call.nal))
         /\ RestPayload(call.nal).nal = call.nal
<1> DEFINE nal == call.nal
           off == packets_count(nal) * chunk_size(nal)
           r == rem(nal)
           p == RestPayload(nal)
<1>1. nal \in Nals /\ ~ Fits(nal)
  BY InLoop
<1>2. p \in FuPayloads
  BY <1>1, RestGood DEF GoodPayload
<1>3. off \in Nat /\ nal.len - off = r /\ packets_count(nal) # 0 /\ nal.len \in Nat
  BY <1>1, Rest, Chunks
<1>4. (rx.frags # << >> /\ rx.gap = 0) => rx.frags[1].nal = nal /\ EndOf(rx.frags) = off
  BY <1>3 DEF Joins
<1> HIDE DEF off, r
<1>5. p.nal = nal /\ p.off = off /\ p.len = r /\ p.S = FALSE /\ p.kind = "fu"
  BY DEF RestPayload, FuPayload, off, r
<1> HIDE DEF p
<1>6. p.off + p.len = nal.len
  BY <1>3, <1>5
<1>7. Follows(p)
  BY <1>4, <1>5, <1>6 DEF Follows
<1> QED
  BY <1>2, <1>5, <1>7 DEF p

-----------------------------------------------------------------------------

(* Finished units keep being units that were sent. *)
LEMMA DoneIds ==
  ASSUME NalTypeOK, NotEarly, NEW nal, nal.id = count, count' = count,
         \/ rx'.done = rx.done
         \/ \E frags \in Seq(FuPayloads) :
              frags[1].nal = nal /\ rx'.done = Append(rx.done, frags)
  PROVE  \A i \in 1 .. Len(rx'.done) : rx'.done[i][1].nal.id <= count'
<1>1. count \in Nat /\ rx.done \in Seq(Seq(FuPayloads))
  BY NalAssumption DEF NalTypeOK
<1>2. CASE rx'.done = rx.done
  BY <1>2 DEF NotEarly
<1>3. ASSUME NEW frags \in Seq(FuPayloads), frags[1].nal = nal,
             rx'.done = Append(rx.done, frags),
             NEW i \in 1 .. Len(rx'.done)
      PROVE  rx'.done[i][1].nal.id <= count'
  <2> DEFINE n == Len(rx.done)
  <2>1. /\ n \in Nat /\ Len(rx'.done) = n + 1
        /\ \A k \in 1 .. n : rx'.done[k] = rx.done[k]
        /\ rx'.done[n + 1] = frags
    BY <1>1, <1>3, AppendProperties
  <2>2. CASE i \in 1 .. n
    BY <2>1, <2>2 DEF NotEarly
  <2>3. CASE i = n + 1
    BY <2>1, <2>3, <1>1, <1>3
  <2> QED
    BY <2>1, <2>2, <2>3
<1> QED
  BY <1>2, <1>3

(* A unit that was finished before the packet went out is still the last   *)
(* one if nothing was finished with it; otherwise the packet's unit is.    *)
LEMMA LastDone ==
  ASSUME NalTypeOK, NEW nal, NEW frags \in Seq(FuPayloads), frags[1].nal = nal,
         rx'.done = Append(rx.done, frags)
  PROVE  rx'.done # << >> /\ rx'.done[Len(rx'.done)][1].nal = nal
<1>1. rx.done \in Seq(Seq(FuPayloads))
  BY DEF NalTypeOK
<1>2. Len(rx'.done) = Len(rx.done) + 1 /\ rx'.done[Len(rx.done) + 1] = frags
      /\ Len(rx.done) \in Nat
  BY <1>1, AppendProperties
<1>3. rx'.done \in Seq(Seq(FuPayloads))
  BY <1>1, AppendProperties
<1>4. rx'.done # << >>
  <2> DEFINE d == rx'.done
  <2>1. d \in Seq(Seq(FuPayloads)) /\ Len(d) # 0
    BY <1>2, <1>3
  <2> HIDE DEF d
  <2>2. d # << >>
    BY <2>1, EmptySeq
  <2> QED
    BY <2>2 DEF d
<1> QED
  BY <1>2, <1>4

(* A sending step after which the call returns. *)
LEMMA LastSent ==
  ASSUME NalIInv, NalWireOK', NEW ret \in {0, -1}, NEW marker, NEW p \in FuPayloads,
         Follows(p), p.nal = call.nal, call.nal.id = count, count' = count,
         Emit(marker, p, ret), Answering(ret)
  PROVE  NalIInv'
<1>1. NalTypeOK /\ InStep /\ DeliveredWhole /\ NotEarly
  BY DEF NalIInv, NalWireOK
<1>2. call'.stage = "return"
  BY DEF Answering
<1>3. InStep' /\ DeliveredWhole'
  BY <1>1, EmitReceives
<1>4. \A i \in 1 .. Len(rx'.done) : rx'.done[i][1].nal.id <= count'
  <2>1. \/ rx'.done = rx.done
        \/ \E frags \in Seq(FuPayloads) :
             frags[1].nal = p.nal /\ rx'.done = Append(rx.done, frags)
    BY <1>1, EmitReceives
  <2> QED
    BY <1>1, <2>1, DoneIds
<1>5. Joins' /\ NotEarly'
  BY <1>2, <1>4 DEF Joins, NotEarly
<1> QED
  BY <1>3, <1>5 DEF NalIInv

LEMMA NalIInit == NalInit => NalIInv
<1> SUFFICES ASSUME NalInit PROVE NalIInv
  OBVIOUS
<1>1. /\ rx.next = -1 /\ rx.frags = << >> /\ rx.done = << >> /\ rx.gap = 0
      /\ call.stage = "idle"
  BY DEF NalInit, RxInit, Idle
<1>2. InStep /\ Joins
  BY <1>1 DEF InStep, Joins
<1>3. Len(rx.done) = 0
  BY <1>1
<1>4. DeliveredWhole /\ NotEarly
  BY <1>1, <1>3 DEF DeliveredWhole, NotEarly
<1> QED
  BY <1>2, <1>4, NalWireInit DEF NalIInv

LEMMA NalIStep == NalIInv /\ [NalNext]_nalVars => NalIInv'
<1> SUFFICES ASSUME NalIInv, [NalNext]_nalVars PROVE NalIInv'
  OBVIOUS
<1>0. /\ NalWireOK /\ NalTypeOK /\ InStep /\ Joins /\ DeliveredWhole /\ NotEarly
      /\ NalWireOK'
  BY NalWireStep DEF NalIInv, NalWireOK
<1>1. ASSUME NEW ts \in Timestamps, NEW codec \in Codecs, NEW len \in PayloadLens,
             NEW au_end \in BOOLEAN, Call(ts, codec, len, au_end)
      PROVE  NalIInv'
  <2>1. /\ call'.idx = 0 /\ call'.nal.id = count + 1 /\ count' = count + 1
        /\ rx' = rx /\ seq_num' = seq_num
    BY <1>1 DEF Call, rtpVars
  <2>2. InStep' /\ Joins' /\ DeliveredWhole'
    BY <1>0, <2>1 DEF InStep, Joins, DeliveredWhole
  <2>3. count \in Nat
    BY <1>0, NalAssumption DEF NalTypeOK
  <2>4. \A i \in 1 .. Len(rx'.done) : rx'.done[i][1].nal.id <= count
    BY <1>0, <2>1 DEF NotEarly
  <2>4a. \A i \in 1 .. Len(rx'.done) : rx'.done[i][1].nal.id <= count'
    <3> SUFFICES ASSUME NEW i \in 1 .. Len(rx'.done) PROVE rx'.done[i][1].nal.id <= count'
      OBVIOUS
    <3>1. rx'.done[i] = rx.done[i] /\ i \in 1 .. Len(rx.done)
      BY <2>1
    <3>2. rx.done[i] \in Seq(FuPayloads) /\ Whole(rx.done[i])
      BY <1>0, <3>1 DEF NalTypeOK, DeliveredWhole
    <3>3. rx.done[i][1] \in FuPayloads
      BY <3>2, EmptySeq, ElementOfSeq DEF Whole
    <3>4. rx.done[i][1].nal.id \in Nat
      BY <3>3, NalAssumption DEF FuPayloads, Nals
    <3> QED
      BY <2>1, <2>3, <2>4, <3>1, <3>4
  <2>5. ~ Reached'
    <3> SUFFICES ASSUME rx'.done # << >>, rx'.done[Len(rx'.done)][1].nal = call'.nal
                 PROVE  FALSE
      BY DEF Reached
    <3>1. Len(rx'.done) \in 1 .. Len(rx'.done)
      <4>1. rx'.done \in Seq(Seq(FuPayloads))
        BY <1>0, <2>1 DEF NalTypeOK
      <4> QED
        BY <4>1, EmptySeq
    <3>2. call'.nal.id <= count
      BY <2>4, <3>1
    <3> QED
      BY <2>1, <2>3, <3>2
  <2> QED
    BY <1>0, <2>2, <2>4a, <2>5 DEF NalIInv, NotEarly
<1>2. ASSUME NEW ret \in {0, -1}, SendSingle(ret) PROVE NalIInv'
  <2>1. call.nal \in Nals /\ Fits(call.nal) /\ call.nal.id = count
    BY <1>0, <1>2 DEF SendSingle, NalTypeOK, Idle
  <2>2. /\ SinglePayload(call.nal) \in FuPayloads
        /\ Follows(SinglePayload(call.nal))
        /\ SinglePayload(call.nal).nal = call.nal
    BY <2>1, SingleFollows DEF SinglePayload
  <2> QED
    BY <1>0, <1>2, <2>1, <2>2, LastSent DEF SendSingle
<1>3. ASSUME NEW ret \in {0, -1}, SendChunk(ret) PROVE NalIInv'
  <2> DEFINE nal == call.nal
             last == rem(nal) = 0 /\ packets_count(nal) - 1 = call.idx
             p == ChunkPayload(nal, call.idx)
  <2>1. nal \in Nals /\ nal.id = count /\ call.stage = "fu" /\ packets_count(nal) \in Nat
    BY <1>0, <1>3, InLoop, Chunks DEF SendChunk
  <2>2. call.idx \in 0 .. packets_count(nal) - 1 /\ Emit(last /\ nal.au_end, p, ret)
        /\ count' = count
        /\ \/ ret = -1 /\ Answering(-1)
           \/ ret = 0 /\ call' = [call EXCEPT !.idx = @ + 1]
    BY <1>0, <1>3, ChunkStep
  <2>3. /\ p \in FuPayloads /\ Follows(p) /\ p.nal = nal
        /\ p.off + p.len = (call.idx + 1) * chunk_size(nal)
        /\ p.kind = "fu" /\ (p.E <=> last)
    BY <1>0, <2>1, <2>2, ChunkFollows
  <2> HIDE DEF p, last
  <2>4. CASE ret = -1 /\ Answering(-1)
    BY <1>0, <2>1, <2>2, <2>3, <2>4, LastSent
  <2>5. CASE ret = 0 /\ call' = [call EXCEPT !.idx = @ + 1]
    <3>1. call'.stage = "fu" /\ call'.nal = nal /\ call'.idx = call.idx + 1
      BY <2>5, <2>1, <1>0 DEF NalTypeOK, Idle
    <3>2. /\ InStep' /\ DeliveredWhole'
          /\ (rx'.frags # << >> /\ rx'.gap = 0) =>
               rx'.frags[1].nal = p.nal /\ EndOf(rx'.frags) = p.off + p.len
          /\ \/ rx'.done = rx.done
             \/ /\ p.kind = "single" \/ p.E
                /\ \E frags \in Seq(FuPayloads) :
                     frags[1].nal = p.nal /\ rx'.done = Append(rx.done, frags)
      BY <1>0, <2>2, <2>3, <2>5, EmitReceives
    <3>3. Joins'
      BY <3>1, <3>2, <2>3 DEF Joins, EndOf, chunk_size
    <3>4. \A i \in 1 .. Len(rx'.done) : rx'.done[i][1].nal.id <= count'
      BY <1>0, <2>1, <2>2, <2>3, <3>2, DoneIds
    <3>5. Reached' => call'.idx = packets_count(call'.nal) /\ rem(call'.nal) = 0
      <4>1. CASE rx'.done = rx.done
        <5>1. Reached' => Reached
          BY <4>1, <3>1 DEF Reached
        <5>2. Reached => call.idx = packets_count(nal)
          BY <1>0, <2>1 DEF NotEarly
        <5> QED
          BY <5>1, <5>2, <2>1, <2>2
      <4>2. CASE p.E
        <5>1. rem(nal) = 0 /\ packets_count(nal) - 1 = call.idx
          BY <4>2, <2>3 DEF last
        <5> QED
          BY <5>1, <3>1, <2>1, <2>2
      <4> QED
        BY <3>2, <4>1, <4>2, <2>3
    <3>6. NotEarly'
      BY <3>1, <3>4, <3>5 DEF NotEarly
    <3> QED
      BY <1>0, <3>2, <3>3, <3>6 DEF NalIInv
  <2> QED
    BY <2>2, <2>4, <2>5
<1>4. ASSUME NEW ret \in {0, -1}, SendRemainder(ret) PROVE NalIInv'
  <2>1. /\ rem(call.nal) # 0 /\ count' = count /\ Answering(ret)
        /\ Emit(TRUE /\ call.nal.au_end, RestPayload(call.nal), ret)
    BY <1>0, <1>4, RestStep
  <2>2. call.stage = "fu" /\ call.idx = packets_count(call.nal) /\ call.nal.id = count
    BY <1>0, <1>4, InLoop DEF SendRemainder
  <2>3. /\ RestPayload(call.nal) \in FuPayloads /\ Follows(RestPayload(call.nal))
        /\ RestPayload(call.nal).nal = call.nal
    BY <1>0, <2>1, <2>2, RestFollows
  <2> QED
    BY <1>0, <2>1, <2>2, <2>3, LastSent
<1>5. CASE FinishLoop \/ Return
  <2>1. rx' = rx /\ count' = count /\ seq_num' = seq_num /\ call'.stage \in {"return", "idle"}
    BY <1>5 DEF FinishLoop, Return, Answering, Idle, rtpVars
  <2>2. InStep' /\ Joins' /\ DeliveredWhole' /\ NotEarly'
    BY <1>0, <2>1 DEF InStep, Joins, DeliveredWhole, NotEarly
  <2> QED
    BY <1>0, <2>2 DEF NalIInv
<1>6. CASE UNCHANGED nalVars
  <2>1. rx' = rx /\ count' = count /\ seq_num' = seq_num /\ call' = call
    BY <1>6 DEF nalVars, rtpVars
  <2>2. InStep' /\ Joins' /\ DeliveredWhole' /\ NotEarly'
    BY <1>0, <2>1 DEF InStep, Joins, DeliveredWhole, NotEarly, Reached
  <2> QED
    BY <1>0, <2>2 DEF NalIInv
<1> QED
  BY <1>1, <1>2, <1>3, <1>4, <1>5, <1>6 DEF NalNext, Step

LEMMA NalInvariant == NalSpec => []NalIInv
BY NalIInit, NalIStep, PTL DEF NalSpec

(* Whatever fails and whatever is lost, the receiver only ever finishes    *)
(* whole units (nal_transport.c:127-175 and its FU headers).               *)
THEOREM UnitsAreDeliveredWhole == NalSpec => []DeliveredWhole
<1>1. NalIInv => DeliveredWhole
  BY DEF NalIInv
<1> QED
  BY <1>1, NalInvariant, PTL

-----------------------------------------------------------------------------

(* What NalDelivery sees of a state. *)
LEMMA DeliveredIs ==
  ASSUME NalTypeOK, DeliveredWhole
  PROVE  /\ Delivered \in Seq(Nals)
         /\ Len(Delivered) = Len(rx.done)
         /\ \A i \in 1 .. Len(rx.done) : Delivered[i] = rx.done[i][1].nal
<1>1. rx.done \in Seq(Seq(FuPayloads)) /\ Len(rx.done) \in Nat
  BY DEF NalTypeOK
<1>2. ASSUME NEW i \in 1 .. Len(rx.done) PROVE rx.done[i][1].nal \in Nals
  <2>1. rx.done[i] \in Seq(FuPayloads) /\ rx.done[i] # << >>
    BY <1>1 DEF DeliveredWhole, Whole
  <2>2. rx.done[i][1] \in FuPayloads
    BY <2>1, EmptySeq, ElementOfSeq
  <2> QED
    BY <2>2 DEF FuPayloads
<1> QED
  BY <1>1, <1>2 DEF Delivered

LEMMA DeliveredGrows ==
  ASSUME NalTypeOK, DeliveredWhole, NalTypeOK', DeliveredWhole',
         NEW nal \in Nals, NEW frags \in Seq(FuPayloads), frags[1].nal = nal,
         rx'.done = Append(rx.done, frags)
  PROVE  Delivered' = Append(Delivered, nal)
<1> DEFINE d == rx'.done
           e == Append(Delivered, nal)
           n == Len(rx.done)
<1>1. /\ n \in Nat /\ Len(d) = n + 1 /\ d[n + 1] = frags
      /\ \A i \in 1 .. n : d[i] = rx.done[i]
  <2>1. rx.done \in Seq(Seq(FuPayloads))
    BY DEF NalTypeOK
  <2> QED
    BY <2>1, AppendProperties
<1>2. /\ Delivered \in Seq(Nals) /\ Len(Delivered) = n
      /\ \A i \in 1 .. n : Delivered[i] = rx.done[i][1].nal
  BY DeliveredIs
<1>3. /\ e \in Seq(Nals) /\ Len(e) = n + 1 /\ e[n + 1] = nal
      /\ \A i \in 1 .. n : e[i] = Delivered[i]
  BY <1>2, AppendProperties
<1>4. Delivered' = [i \in 1 .. Len(d) |-> d[i][1].nal]
  BY DEF Delivered
<1> HIDE DEF d, e, n
<1>5. \A i \in 1 .. n + 1 : d[i][1].nal = e[i]
  <2> SUFFICES ASSUME NEW i \in 1 .. n + 1 PROVE d[i][1].nal = e[i]
    OBVIOUS
  <2>1. CASE i \in 1 .. n
    BY <2>1, <1>1, <1>2, <1>3
  <2>2. CASE i = n + 1
    BY <2>2, <1>1, <1>3
  <2> QED
    BY <2>1, <2>2, <1>1
<1>6. e = [i \in 1 .. n + 1 |-> e[i]]
  BY <1>3
<1>7. Delivered' = e
  BY <1>1, <1>4, <1>5, <1>6
<1> QED
  BY <1>7 DEF e

LEMMA ReachedIs ==
  ASSUME NalTypeOK, DeliveredWhole
  PROVE  (rx.done # << >> /\ Delivered[Len(rx.done)] = call.nal) = Reached
<1>1. rx.done \in Seq(Seq(FuPayloads))
  BY DEF NalTypeOK
<1>2. rx.done # << >> => Len(rx.done) \in 1 .. Len(rx.done)
  BY <1>1, EmptySeq
<1>3. rx.done # << >> => Delivered[Len(rx.done)] = rx.done[Len(rx.done)][1].nal
  BY <1>2, DeliveredIs
<1> QED
  BY <1>3 DEF Reached

Seen ==
  /\ call.stage = "idle" => Current = [stage |-> "idle"]
  /\ call.stage = "return" => Current = Promise!Answered(call.nal, call.ret)
  /\ call.stage \in {"single", "fu"} =>
       /\ Current = Promise!Busy(call.nal, Reached)
       /\ Reached => Current = Promise!Busy(call.nal, TRUE)
       /\ ~ Reached => Current = Promise!Busy(call.nal, FALSE)

LEMMA CurrentIs == NalIInv => Seen
<1> SUFFICES ASSUME NalIInv PROVE Seen
  OBVIOUS
<1>1. NalTypeOK /\ DeliveredWhole
  BY DEF NalIInv, NalWireOK
<1>2. call.stage = "idle" => Current = [stage |-> "idle"]
  BY DEF Current
<1>3. call.stage = "return" => Current = Promise!Answered(call.nal, call.ret)
  BY DEF Current, Promise!Answered
<1>4. call.stage \in {"single", "fu"} => Current = Promise!Busy(call.nal, Reached)
  BY <1>1, ReachedIs DEF Current, Promise!Busy
<1>5. Reached \in BOOLEAN
  BY DEF Reached
<1>6. (Reached => Reached = TRUE) /\ (~ Reached => Reached = FALSE)
  BY <1>5
<1> QED
  BY <1>2, <1>3, <1>4, <1>6 DEF Seen

(* A sending step that ends the call: the unit is delivered with it, or    *)
(* the call only answers.                                                  *)
LEMMA LastPromised ==
  ASSUME NalIInv, NalIInv', Seen, Seen', call.stage \in {"single", "fu"}, ~ Reached,
         NEW ret \in {0, -1}, NEW marker, NEW p \in FuPayloads, Follows(p),
         p.nal = call.nal, Emit(marker, p, ret), Answering(ret)
  PROVE  Promise!NalNext
<1>1. NalTypeOK /\ InStep /\ DeliveredWhole /\ NalTypeOK' /\ DeliveredWhole'
  BY DEF NalIInv, NalWireOK
<1>2. call.nal \in Nals
  BY SMTT(30), <1>1 DEF NalTypeOK, Idle
<1>3. Current = Promise!Busy(call.nal, FALSE)
  BY DEF Seen
<1>4. Current' = Promise!Answered(call.nal, ret)
  BY DEF Seen, Answering
<1>5. CASE rx'.done = rx.done
  <2>1. Delivered' = Delivered
    BY <1>5 DEF Delivered
  <2>2. Promise!Answer(ret)
    BY <1>3, <1>4, <2>1 DEF Promise!Answer, Promise!Busy, Promise!Answered
  <2> QED
    BY <2>2 DEF Promise!NalNext
<1>6. ASSUME ret = 0, NEW frags \in Seq(FuPayloads), frags[1].nal = p.nal,
             rx'.done = Append(rx.done, frags)
      PROVE  Promise!NalNext
  <2>1. Delivered' = Append(Delivered, call.nal)
    BY <1>1, <1>2, <1>6, DeliveredGrows
  <2>2. Promise!Deliver
    BY <1>3, <1>4, <1>6, <2>1 DEF Promise!Deliver, Promise!Busy, Promise!Answered
  <2> QED
    BY <2>2 DEF Promise!NalNext
<1> QED
  BY <1>1, <1>5, <1>6, EmitReceives

LEMMA PromiseInit == NalInit => Promise!NalInit
<1> SUFFICES ASSUME NalInit PROVE Promise!NalInit
  OBVIOUS
<1>1. rx.done = << >> /\ call.stage = "idle"
  BY DEF NalInit, RxInit, Idle
<1>2. Current = [stage |-> "idle"]
  BY <1>1 DEF Current
<1>3. Delivered = << >>
  BY <1>1 DEF Delivered
<1> QED
  BY <1>2, <1>3 DEF Promise!NalInit

(* Entering a call is an offer: the unit has not been delivered before. *)
LEMMA CallPromised ==
  ASSUME NalIInv, NalIInv', Seen, Seen', NEW ts \in Timestamps, NEW codec \in Codecs,
         NEW len \in PayloadLens, NEW au_end \in BOOLEAN, Call(ts, codec, len, au_end)
  PROVE  Promise!Offer
<1>1. /\ call.stage = "idle" /\ rx' = rx /\ call'.idx = 0
      /\ call'.stage \in {"single", "fu"}
  BY DEF Call, Idle
<1>2. call'.nal \in Nals /\ (call'.stage = "fu" => ~ Fits(call'.nal))
  BY <1>1 DEF NalIInv, NalWireOK, NalTypeOK, Idle, Fits, nalu_size
<1>3. ~ Reached'
  <2>1. Reached' => call'.stage = "fu" /\ call'.idx = packets_count(call'.nal)
    BY <1>1 DEF NalIInv, NotEarly
  <2>2. call'.stage = "fu" => packets_count(call'.nal) # 0
    BY <1>2, Chunks
  <2> QED
    BY <1>1, <2>1, <2>2
<1>4. Current = [stage |-> "idle"] /\ Current' = Promise!Busy(call'.nal, FALSE)
  BY <1>1, <1>3 DEF Seen
<1>5. Delivered' = Delivered
  BY <1>1 DEF Delivered
<1> QED
  BY <1>2, <1>4, <1>5 DEF Promise!Offer

(* A turn of the loop delivers with the last chunk of an exact division,   *)
(* ends the call when it fails, and is otherwise invisible.                *)
LEMMA ChunkPromised ==
  ASSUME NalIInv, NalIInv', Seen, Seen', NEW ret \in {0, -1}, SendChunk(ret)
  PROVE  Promise!NalNext \/ UNCHANGED <<Current, Delivered>>
<1> DEFINE nal == call.nal
           last == rem(nal) = 0 /\ packets_count(nal) - 1 = call.idx
           p == ChunkPayload(nal, call.idx)
<1>0. /\ NalTypeOK /\ InStep /\ Joins /\ DeliveredWhole /\ NotEarly
      /\ NalTypeOK' /\ DeliveredWhole'
  BY DEF NalIInv, NalWireOK
<1>1. nal \in Nals /\ call.stage = "fu" /\ packets_count(nal) \in Nat
  BY <1>0, InLoop, Chunks DEF SendChunk
<1>2. /\ call.idx \in 0 .. packets_count(nal) - 1
      /\ Emit(last /\ nal.au_end, p, ret)
      /\ \/ ret = -1 /\ Answering(-1)
         \/ ret = 0 /\ call' = [call EXCEPT !.idx = @ + 1]
  BY <1>0, ChunkStep
<1>3. p \in FuPayloads /\ Follows(p) /\ p.nal = nal
  BY <1>0, <1>1, <1>2, ChunkFollows
<1>4. ~ Reached
  BY <1>0, <1>1, <1>2 DEF NotEarly
<1> HIDE DEF p, last
<1>5. CASE ret = -1 /\ Answering(-1)
  BY <1>1, <1>2, <1>3, <1>4, <1>5, LastPromised
<1>6. CASE ret = 0 /\ call' = [call EXCEPT !.idx = @ + 1]
  <2>1. call'.stage = "fu" /\ call'.nal = nal
    BY <1>0, <1>1, <1>6 DEF NalTypeOK, Idle
  <2>2. Current = Promise!Busy(nal, FALSE)
    BY <1>1, <1>4 DEF Seen
  <2>3. CASE rx'.done = rx.done
    <3>1. ~ Reached' /\ Delivered' = Delivered
      BY <1>4, <2>1, <2>3 DEF Reached, Delivered
    <3>2. Current' = Promise!Busy(nal, FALSE)
      BY <2>1, <3>1 DEF Seen
    <3> QED
      BY <2>2, <3>1, <3>2
  <2>4. ASSUME NEW frags \in Seq(FuPayloads), frags[1].nal = nal,
               rx'.done = Append(rx.done, frags)
        PROVE  Promise!NalNext
    <3>1. Delivered' = Append(Delivered, nal)
      BY <1>0, <1>1, <2>4, DeliveredGrows
    <3>2. Reached'
      BY <1>0, <2>1, <2>4, LastDone DEF Reached
    <3>3. Current' = Promise!Busy(nal, TRUE)
      BY <2>1, <3>2 DEF Seen
    <3>4. Promise!Deliver
      BY <2>2, <3>1, <3>3 DEF Promise!Deliver, Promise!Busy, Promise!Answered
    <3> QED
      BY <3>4 DEF Promise!NalNext
  <2> QED
    BY <1>0, <1>2, <1>3, <2>3, <2>4, EmitReceives
<1> QED
  BY <1>2, <1>5, <1>6

LEMMA PromiseStep ==
  NalIInv /\ NalIInv' /\ Seen /\ Seen' /\ [NalNext]_nalVars
    => [Promise!NalNext]_<<Current, Delivered>>
<1> SUFFICES ASSUME NalIInv, NalIInv', Seen, Seen', [NalNext]_nalVars
             PROVE  Promise!NalNext \/ UNCHANGED <<Current, Delivered>>
  OBVIOUS
<1>0. NalTypeOK /\ InStep /\ Joins /\ DeliveredWhole /\ NotEarly
  BY DEF NalIInv, NalWireOK
<1>1. ASSUME NEW ts \in Timestamps, NEW codec \in Codecs, NEW len \in PayloadLens,
             NEW au_end \in BOOLEAN, Call(ts, codec, len, au_end)
      PROVE  Promise!NalNext
  BY <1>1, CallPromised DEF Promise!NalNext
<1>2. ASSUME NEW ret \in {0, -1}, SendSingle(ret) PROVE Promise!NalNext
  <2>1. call.nal \in Nals /\ Fits(call.nal) /\ call.stage = "single"
    BY <1>0, <1>2 DEF SendSingle, NalTypeOK, Idle
  <2>2. /\ SinglePayload(call.nal) \in FuPayloads
        /\ Follows(SinglePayload(call.nal))
        /\ SinglePayload(call.nal).nal = call.nal
    BY <2>1, SingleFollows DEF SinglePayload
  <2>3. ~ Reached
    BY <1>0, <2>1 DEF NotEarly
  <2> QED
    BY <1>2, <2>1, <2>2, <2>3, LastPromised DEF SendSingle
<1>3. ASSUME NEW ret \in {0, -1}, SendChunk(ret)
      PROVE  Promise!NalNext \/ UNCHANGED <<Current, Delivered>>
  BY <1>3, ChunkPromised
<1>4. ASSUME NEW ret \in {0, -1}, SendRemainder(ret) PROVE Promise!NalNext
  <2>1. /\ rem(call.nal) # 0 /\ Answering(ret)
        /\ Emit(TRUE /\ call.nal.au_end, RestPayload(call.nal), ret)
    BY <1>0, <1>4, RestStep
  <2>2. call.stage = "fu" /\ call.idx = packets_count(call.nal)
    BY <1>4 DEF SendRemainder
  <2>3. /\ RestPayload(call.nal) \in FuPayloads /\ Follows(RestPayload(call.nal))
        /\ RestPayload(call.nal).nal = call.nal
    BY <1>0, <2>1, <2>2, RestFollows
  <2>4. ~ Reached
    BY <1>0, <2>1, <2>2 DEF NotEarly
  <2> QED
    BY <2>1, <2>2, <2>3, <2>4, LastPromised
<1>5. CASE FinishLoop
  <2>1. Current' = Promise!Answered(call.nal, 0) /\ Current = Promise!Busy(call.nal, Reached)
    BY <1>5 DEF FinishLoop, Answering, Seen
  <2>2. Delivered' = Delivered
    BY <1>5 DEF FinishLoop, Delivered
  <2>3. Promise!Answer(0)
    BY <2>1, <2>2 DEF Promise!Answer, Promise!Busy, Promise!Answered
  <2> QED
    BY <2>3 DEF Promise!NalNext
<1>6. CASE Return
  <2>1. Current' = [stage |-> "idle"] /\ Current = Promise!Answered(call.nal, call.ret)
    BY <1>6 DEF Return, Idle, Seen
  <2>2. Delivered' = Delivered
    BY <1>6 DEF Return, Delivered
  <2>3. Promise!Return
    BY <2>1, <2>2 DEF Promise!Return, Promise!Answered
  <2> QED
    BY <2>3 DEF Promise!NalNext
<1>7. CASE UNCHANGED nalVars
  BY <1>7 DEF nalVars, Current, Delivered
<1> QED
  BY <1>1, <1>2, <1>3, <1>4, <1>5, <1>6, <1>7 DEF NalNext, Step

(* The packetizer and the receiver keep NalDelivery's promise: each unit   *)
(* is delivered whole, once and before the next one, or not at all, and a  *)
(* call that answers -1 delivered nothing (nal_transport.c:88-175).        *)
THEOREM PacketizerImplementsDelivery == NalSpec => ImplementsDelivery
<1>1. NalSpec => []Seen
  BY NalInvariant, CurrentIs, PTL
<1> QED
  BY <1>1, PromiseInit, PromiseStep, NalInvariant, PTL
     DEF NalSpec, ImplementsDelivery, Promise!NalSpec

-----------------------------------------------------------------------------

(* What a unit that lost no packet has come to: what the loop has sent is  *)
(* with the receiver, which finishes the unit with its last fragment.      *)
Arriving ==
  (call.stage = "fu" /\ call.idx # 0 /\ call.nal.id \notin rx.hurt) =>
    IF call.idx = packets_count(call.nal) /\ rem(call.nal) = 0 THEN Reached
    ELSE rx.frags # << >> /\ rx.gap = 0

SuccessIInv == Arriving /\ SuccessMeansDelivered

(* A packet of a unit that lost none was received, and joins the fragments *)
(* before it.                                                              *)
LEMMA Arrives ==
  ASSUME NalTypeOK, InStep, NEW marker, NEW p \in FuPayloads, Follows(p),
         Emit(marker, p, 0), p.nal.id \notin rx'.hurt,
         (p.kind = "single" \/ p.S) \/ (p.nal.id \notin rx.hurt => rx.frags # << >> /\ rx.gap = 0)
  PROVE  /\ rx'.gap = 0
         /\ (p.kind = "single" \/ p.E) =>
              rx'.done # << >> /\ rx'.done[Len(rx'.done)][1].nal = p.nal
         /\ ~ (p.kind = "single" \/ p.E) => rx'.frags # << >>
<1> DEFINE pkt == PacketOf(call.ts, marker, p)
<1>1. pkt.seq = seq_num /\ pkt.payload = p
  BY DEF PacketOf
<1>2. rx' = Receive(pkt) \/ rx' = Lose(pkt)
  BY DEF Emit
<1> HIDE DEF pkt
<1>3. rx' = Receive(pkt)
  <2>1. rx' # Lose(pkt)
    <3>1. Lose(pkt).hurt = rx.hurt \cup {p.nal.id}
      BY <1>1 DEF Lose, NalTypeOK
    <3> QED
      BY <3>1
  <2> QED
    BY <1>2, <2>1
<1>4. rx'.hurt = rx.hurt
  BY <1>3 DEF Receive, NalTypeOK
<1>5. Extended(pkt) # << >>
  <2>1. CASE p.kind = "single" \/ p.S
    BY <1>1, <2>1 DEF Extended
  <2>2. CASE ~ (p.kind = "single" \/ p.S)
    <3>1. rx.frags # << >> /\ rx.gap = 0
      BY <1>4, <2>2
    <3>2. rx.next # -1 /\ seq_num = (rx.next + rx.gap) % U16
      BY <3>1 DEF InStep
    <3>3. rx.next \in 0 .. U16 - 1
      BY <3>2 DEF NalTypeOK
    <3>4. seq_num = rx.next
      BY SMTT(30), <3>1, <3>2, <3>3, WidthAssumption
    <3>5. Extended(pkt) = Append(rx.frags, p)
      BY <1>1, <2>2, <3>1, <3>4 DEF Extended
    <3>6. rx.frags \in Seq(FuPayloads)
      BY DEF NalTypeOK
    <3> QED
      BY <3>5, <3>6, AppendProperties
  <2> QED
    BY <2>1, <2>2
<1>6. Extended(pkt)[1].nal = p.nal /\ Extended(pkt) \in Seq(FuPayloads)
  BY <1>1, <1>5, ExtendedPart
<1>7. /\ rx'.gap = 0
      /\ rx'.frags = IF Completes(pkt) THEN << >> ELSE Extended(pkt)
      /\ rx'.done = IF Completes(pkt) THEN Append(rx.done, Extended(pkt)) ELSE rx.done
  BY <1>3, ReceiveFields
<1>8. Completes(pkt) <=> p.kind = "single" \/ p.E
  BY <1>1, <1>5 DEF Completes
<1>9. CASE p.kind = "single" \/ p.E
  <2>1. rx'.done = Append(rx.done, Extended(pkt))
    BY <1>7, <1>8, <1>9
  <2> QED
    BY <1>6, <1>7, <1>9, <2>1, LastDone
<1>10. CASE ~ (p.kind = "single" \/ p.E)
  BY <1>5, <1>7, <1>8, <1>10
<1> QED
  BY <1>9, <1>10

LEMMA SuccessInit == NalInit => SuccessIInv
BY DEF NalInit, Idle, SuccessIInv, Arriving, SuccessMeansDelivered

LEMMA SuccessStep == NalIInv /\ SuccessIInv /\ [NalNext]_nalVars => SuccessIInv'
<1> SUFFICES ASSUME NalIInv, SuccessIInv, [NalNext]_nalVars PROVE SuccessIInv'
  OBVIOUS
<1>0. NalTypeOK /\ InStep /\ Joins /\ Arriving
  BY DEF NalIInv, NalWireOK, SuccessIInv
<1>1. ASSUME NEW ts \in Timestamps, NEW codec \in Codecs, NEW len \in PayloadLens,
             NEW au_end \in BOOLEAN, Call(ts, codec, len, au_end)
      PROVE  SuccessIInv'
  <2>1. call'.idx = 0 /\ call'.stage \in {"single", "fu"}
    BY <1>1 DEF Call
  <2> QED
    BY <2>1 DEF SuccessIInv, Arriving, SuccessMeansDelivered
<1>2. ASSUME NEW ret \in {0, -1}, SendSingle(ret) PROVE SuccessIInv'
  <2> DEFINE p == SinglePayload(call.nal)
  <2>1. call.nal \in Nals /\ Fits(call.nal)
    BY <1>0, <1>2 DEF SendSingle, NalTypeOK, Idle
  <2>2. p \in FuPayloads /\ Follows(p) /\ p.nal = call.nal /\ p.kind = "single"
    BY <2>1, SingleFollows DEF SinglePayload
  <2>3. Emit(call.nal.au_end, p, ret) /\ Answering(ret)
    BY <1>2 DEF SendSingle
  <2> HIDE DEF p
  <2>4. call'.stage = "return" /\ call'.nal = call.nal /\ call'.ret = ret
    BY <2>3 DEF Answering
  <2>5. (ret = 0 /\ call.nal.id \notin rx'.hurt) =>
          rx'.done # << >> /\ rx'.done[Len(rx'.done)][1].nal = call.nal
    BY <1>0, <2>2, <2>3, Arrives
  <2> QED
    BY <2>4, <2>5 DEF SuccessIInv, Arriving, SuccessMeansDelivered
<1>3. ASSUME NEW ret \in {0, -1}, SendChunk(ret) PROVE SuccessIInv'
  <2> DEFINE nal == call.nal
             last == rem(nal) = 0 /\ packets_count(nal) - 1 = call.idx
             p == ChunkPayload(nal, call.idx)
  <2>1. nal \in Nals /\ call.stage = "fu" /\ packets_count(nal) \in Nat /\ ~ Fits(nal)
    BY <1>0, <1>3, InLoop, Chunks DEF SendChunk
  <2>2. /\ call.idx \in 0 .. packets_count(nal) - 1
        /\ Emit(last /\ nal.au_end, p, ret)
        /\ \/ ret = -1 /\ Answering(-1)
           \/ ret = 0 /\ call' = [call EXCEPT !.idx = @ + 1]
    BY <1>0, <1>3, ChunkStep
  <2>3. /\ p \in FuPayloads /\ Follows(p) /\ p.nal = nal /\ p.kind = "fu"
        /\ p.E <=> last
    BY <1>0, <2>1, <2>2, ChunkFollows
  <2>4. p.S = (call.idx = 0)
    BY DEF ChunkPayload, FuPayload
  <2> HIDE DEF p
  <2>5. CASE ret = -1 /\ Answering(-1)
    <3>1. call'.stage = "return" /\ call'.ret = -1
      BY <2>5 DEF Answering
    <3> QED
      BY <3>1 DEF SuccessIInv, Arriving, SuccessMeansDelivered
  <2>6. CASE ret = 0 /\ call' = [call EXCEPT !.idx = @ + 1]
    <3>1. call'.stage = "fu" /\ call'.nal = nal /\ call'.idx = call.idx + 1
      BY <2>1, <2>6, <1>0 DEF NalTypeOK, Idle
    <3>2. call.idx # 0 /\ nal.id \notin rx.hurt => rx.frags # << >> /\ rx.gap = 0
      BY <1>0, <2>1, <2>2 DEF Arriving
    <3>3. ASSUME nal.id \notin rx'.hurt
          PROVE  /\ rx'.gap = 0
                 /\ last => Reached'
                 /\ ~ last => rx'.frags # << >>
      <4>1. (p.kind = "single" \/ p.S) \/ (p.nal.id \notin rx.hurt => rx.frags # << >> /\ rx.gap = 0)
        BY <2>3, <2>4, <3>2
      <4>2. Emit(last /\ nal.au_end, p, 0)
        BY <2>2, <2>6
      <4> HIDE DEF last
      <4>3. /\ rx'.gap = 0
            /\ p.E => rx'.done # << >> /\ rx'.done[Len(rx'.done)][1].nal = nal
            /\ ~ p.E => rx'.frags # << >>
        BY <1>0, <2>3, <3>3, <4>1, <4>2, Arrives
      <4> QED
        BY <2>3, <3>1, <4>3 DEF Reached
    <3>4. call'.idx = packets_count(call'.nal) /\ rem(call'.nal) = 0 <=> last
      BY <2>1, <2>2, <3>1
    <3>5. Arriving'
      BY <3>1, <3>3, <3>4 DEF Arriving, Reached
    <3> QED
      BY <3>1, <3>5 DEF SuccessIInv, SuccessMeansDelivered
  <2> QED
    BY <2>2, <2>5, <2>6
<1>4. ASSUME NEW ret \in {0, -1}, SendRemainder(ret) PROVE SuccessIInv'
  <2> DEFINE p == RestPayload(call.nal)
  <2>1. /\ rem(call.nal) # 0 /\ Answering(ret)
        /\ Emit(TRUE /\ call.nal.au_end, p, ret)
    BY <1>0, <1>4, RestStep
  <2>2. call.stage = "fu" /\ call.idx = packets_count(call.nal) /\ call.idx # 0
    <3>1. call.nal \in Nals /\ ~ Fits(call.nal)
      BY <1>0, <1>4, InLoop DEF SendRemainder
    <3> QED
      BY <1>4, <2>1, <3>1, Rest DEF SendRemainder
  <2>3. p \in FuPayloads /\ Follows(p) /\ p.nal = call.nal /\ p.E = TRUE
    BY <1>0, <2>1, <2>2, RestFollows DEF RestPayload, FuPayload
  <2> HIDE DEF p
  <2>4. call'.stage = "return" /\ call'.nal = call.nal /\ call'.ret = ret
    BY <2>1 DEF Answering
  <2>5. (ret = 0 /\ call.nal.id \notin rx'.hurt) =>
          rx'.done # << >> /\ rx'.done[Len(rx'.done)][1].nal = call.nal
    <3>1. call.nal.id \notin rx.hurt => rx.frags # << >> /\ rx.gap = 0
      BY <1>0, <2>1, <2>2 DEF Arriving
    <3> QED
      BY <1>0, <2>1, <2>3, <3>1, Arrives
  <2> QED
    BY <2>4, <2>5 DEF SuccessIInv, Arriving, SuccessMeansDelivered
<1>5. CASE FinishLoop
  <2>1. /\ rx' = rx /\ call.stage = "fu" /\ call.idx = packets_count(call.nal)
        /\ rem(call.nal) = 0
        /\ call'.stage = "return" /\ call'.nal = call.nal
    BY <1>5 DEF FinishLoop, Answering
  <2>2. call.idx # 0
    <3>1. call.nal \in Nals /\ ~ Fits(call.nal)
      BY <1>0, <2>1, InLoop
    <3> QED
      BY <2>1, <3>1, Chunks
  <2>3. call.nal.id \notin rx.hurt => Reached
    BY <1>0, <2>1, <2>2 DEF Arriving
  <2> QED
    BY <2>1, <2>3 DEF SuccessIInv, Arriving, SuccessMeansDelivered, Reached
<1>6. CASE Return
  BY <1>6 DEF Return, Idle, SuccessIInv, Arriving, SuccessMeansDelivered
<1>7. CASE UNCHANGED nalVars
  <2>1. rx' = rx /\ call' = call
    BY <1>7 DEF nalVars
  <2> QED
    BY <2>1 DEF SuccessIInv, Arriving, SuccessMeansDelivered, Reached
<1> QED
  BY <1>1, <1>2, <1>3, <1>4, <1>5, <1>6, <1>7 DEF NalNext, Step

(* A call that answered 0 and lost nothing on the network has delivered    *)
(* its unit (the answers of nal_transport.c:107-110 and 142-175).          *)
THEOREM SuccessIsDelivery == NalSpec => []SuccessMeansDelivered
<1>1. SuccessIInv => SuccessMeansDelivered
  BY DEF SuccessIInv
<1>2. NalSpec => [](NalIInv /\ SuccessIInv)
  BY NalIInit, NalIStep, SuccessInit, SuccessStep, PTL DEF NalSpec
<1> QED
  BY <1>1, <1>2, PTL

-----------------------------------------------------------------------------
(* The headers of NAL units, octet by octet.                               *)

(* The FU header goes behind the two octets of a payload header.           *)
LEMMA AppendThird ==
  \A p, q, r \in Int : Append(<<p, q>>, r) = <<p, q, r>>
<1> SUFFICES ASSUME NEW p \in Int, NEW q \in Int, NEW r \in Int
             PROVE  Append(<<p, q>>, r) = <<p, q, r>>
  OBVIOUS
<1> DEFINE s == Append(<<p, q>>, r)
           t == <<p, q, r>>
<1>1. <<p, q>> \in Seq(Int) /\ t \in Seq(Int) /\ Len(<<p, q>>) = 2 /\ Len(t) = 3
  OBVIOUS
<1>2. s \in Seq(Int) /\ Len(s) = 3 /\ s[1] = p /\ s[2] = q /\ s[3] = r
  BY <1>1, AppendProperties
<1>3. t[1] = p /\ t[2] = q /\ t[3] = r
  OBVIOUS
<1> HIDE DEF s, t
<1>4. \A i \in 1 .. Len(s) : s[i] = t[i]
  BY <1>2, <1>3
<1>5. s = t
  BY <1>1, <1>2, <1>4, SeqEqual
<1> QED BY <1>5 DEF s, t

(* Splitting an octet into its fields and putting it together again.       *)
LEMMA H264Survives ==
  ASSUME NEW b \in 0 .. 127, NEW first \in BOOLEAN, NEW last \in BOOLEAN
  PROVE  HeaderRebuilds("H264", <<b>>, first, last)
<1> DEFINE h == H264NalHeader_parse(b)
           fu == H264NalHeader_write_fu_header(h, first, last)
<1>1. /\ h.forbidden_zero_bit = b \div 128 /\ h.ref_idc = (b \div 32) % 4 /\ h.unit_type = b % 32
  BY DEF H264NalHeader_parse
<1>2. PICK f \in 0 .. 1, l \in 0 .. 1 : f = Bit(first) /\ l = Bit(last)
  BY BitRange
<1>3. fu = <<28 + ((h.ref_idc \div 2) % 2) * 64 + (h.ref_idc % 2) * 32,
             (f * 128 + l * 64 + h.unit_type) % 256>>
  BY <1>2 DEF H264NalHeader_write_fu_header, nal_fu_header
<1>4. (f * 128 + l * 64 + (b % 32)) % 256 = f * 128 + l * 64 + (b % 32)
  OBVIOUS
<1>5. Place(fu) = <<f, l>>
  BY <1>1, <1>3, <1>4 DEF Place
<1>6. Rebuilt("H264", fu) = <<b>>
  BY <1>1, <1>3, <1>4 DEF Rebuilt
<1>7. NalHeader_serialize("H264", <<b>>) = <<b>>
  BY <1>1 DEF NalHeader_serialize, H264NalHeader_serialize
<1>8. NalHeader_write_fu_header("H264", <<b>>, first, last) = fu
  BY DEF NalHeader_write_fu_header
<1> QED BY <1>2, <1>5, <1>6, <1>7, <1>8 DEF HeaderRebuilds

(* The same for the two octets of H.265, whose layer spans both.           *)
LEMMA H265Survives ==
  ASSUME NEW b \in Octet, NEW c \in Octet, NEW first \in BOOLEAN, NEW last \in BOOLEAN
  PROVE  HeaderRebuilds("H265", <<b, c>>, first, last)
<1> DEFINE h == H265NalHeader_parse(b, c)
           fu == H265NalHeader_write_fu_header(h, first, last)
           indicator == H265NalHeader_serialize([h EXCEPT !.unit_type = 49])
<1>1. /\ h.forbidden_zero_bit = b \div 128 /\ h.unit_type = (b \div 2) % 64
      /\ h.nuh_layer_id = (b % 2) * 32 + (c \div 8) /\ h.nuh_temporal_id_plus1 = c % 8
  BY DEF H265NalHeader_parse
<1>2. PICK f \in 0 .. 1, l \in 0 .. 1 : f = Bit(first) /\ l = Bit(last)
  BY BitRange
<1>3. /\ (h.nuh_layer_id \div 32) % 2 = b % 2 /\ h.nuh_layer_id % 32 = c \div 8
  BY <1>1 DEF Octet
<1>4. H265NalHeader_serialize(h) = <<b, c>>
  BY <1>1, <1>3 DEF H265NalHeader_serialize, Octet
<1>5. indicator = <<(b \div 128) * 128 + 98 + (b % 2), c>>
  BY <1>1, <1>3 DEF H265NalHeader_serialize, H265NalHeader_parse, Octet
<1>6. fu = <<(b \div 128) * 128 + 98 + (b % 2), c, f * 128 + l * 64 + ((b \div 2) % 64)>>
  <2>1. (f * 128 + l * 64 + ((b \div 2) % 64)) % 256 = f * 128 + l * 64 + ((b \div 2) % 64)
    BY DEF Octet
  <2>2. nal_fu_header(first, last, h.unit_type) = f * 128 + l * 64 + ((b \div 2) % 64)
    BY <1>1, <1>2, <2>1 DEF nal_fu_header
  <2>3. fu = Append(indicator, nal_fu_header(first, last, h.unit_type))
    BY DEF H265NalHeader_write_fu_header
  <2>4. /\ (b \div 128) * 128 + 98 + (b % 2) \in Int /\ c \in Int
        /\ f * 128 + l * 64 + ((b \div 2) % 64) \in Int
    BY DEF Octet
  <2>5. fu = Append(<<(b \div 128) * 128 + 98 + (b % 2), c>>, f * 128 + l * 64 + ((b \div 2) % 64))
    BY <1>5, <2>2, <2>3
  <2> QED BY <2>4, <2>5, AppendThird
<1>7. Place(fu) = <<f, l>>
  BY <1>6 DEF Place, Octet
<1>8. Rebuilt("H265", fu) = <<b, c>>
  BY <1>6 DEF Rebuilt, Octet
<1>9. /\ NalHeader_serialize("H265", <<b, c>>) = H265NalHeader_serialize(h)
      /\ NalHeader_write_fu_header("H265", <<b, c>>, first, last) = fu
  BY DEF NalHeader_serialize, NalHeader_write_fu_header
<1> QED BY <1>2, <1>4, <1>7, <1>8, <1>9 DEF HeaderRebuilds

(* And of H.266, whose type is in the second octet.                        *)
LEMMA H266Survives ==
  ASSUME NEW b \in Octet, NEW c \in Octet, NEW first \in BOOLEAN, NEW last \in BOOLEAN
  PROVE  HeaderRebuilds("H266", <<b, c>>, first, last)
<1> DEFINE h == H266NalHeader_parse(b, c)
           fu == H266NalHeader_write_fu_header(h, first, last)
           indicator == H266NalHeader_serialize([h EXCEPT !.unit_type = 29])
<1>1. /\ h.forbidden_zero_bit = b \div 128 /\ h.nuh_reserved_zero_bit = (b \div 64) % 2
      /\ h.nuh_layer_id = b % 64 /\ h.unit_type = c \div 8 /\ h.nuh_temporal_id_plus1 = c % 8
  BY DEF H266NalHeader_parse
<1>2. PICK f \in 0 .. 1, l \in 0 .. 1 : f = Bit(first) /\ l = Bit(last)
  BY BitRange
<1>3. H266NalHeader_serialize(h) = <<b, c>>
  BY <1>1 DEF H266NalHeader_serialize, Octet
<1>4. indicator = <<b, 232 + (c % 8)>>
  BY <1>1 DEF H266NalHeader_serialize, H266NalHeader_parse, Octet
<1>5. fu = <<b, 232 + (c % 8), f * 128 + l * 64 + (c \div 8)>>
  <2>1. (f * 128 + l * 64 + (c \div 8)) % 256 = f * 128 + l * 64 + (c \div 8)
    BY DEF Octet
  <2>2. nal_fu_header(first, last, h.unit_type) = f * 128 + l * 64 + (c \div 8)
    BY <1>1, <1>2, <2>1 DEF nal_fu_header
  <2>3. fu = Append(indicator, nal_fu_header(first, last, h.unit_type))
    BY DEF H266NalHeader_write_fu_header
  <2>4. b \in Int /\ 232 + (c % 8) \in Int /\ f * 128 + l * 64 + (c \div 8) \in Int
    BY DEF Octet
  <2>5. fu = Append(<<b, 232 + (c % 8)>>, f * 128 + l * 64 + (c \div 8))
    BY <1>4, <2>2, <2>3
  <2> QED BY <2>4, <2>5, AppendThird
<1>6. Place(fu) = <<f, l>>
  BY <1>5 DEF Place, Octet
<1>7. Rebuilt("H266", fu) = <<b, c>>
  BY <1>5 DEF Rebuilt, Octet
<1>8. /\ NalHeader_serialize("H266", <<b, c>>) = H266NalHeader_serialize(h)
      /\ NalHeader_write_fu_header("H266", <<b, c>>, first, last) = fu
  BY DEF NalHeader_serialize, NalHeader_write_fu_header
<1> QED BY <1>2, <1>3, <1>6, <1>7, <1>8 DEF HeaderRebuilds

(* Fragmentation loses nothing of the header of a NAL unit, whatever the   *)
(* codec and the header: single packets carry it as it is, and a receiver  *)
(* rebuilds it from every fragment (nal.c:87, 111).                        *)
THEOREM HeadersSurvive ==
  ASSUME NEW codec \in {"H264", "H265", "H266"}, NEW hdr \in HeaderOctets(codec),
         NEW first \in BOOLEAN, NEW last \in BOOLEAN
  PROVE  HeaderRebuilds(codec, hdr, first, last)
<1>1. CASE codec = "H264"
  <2>1. PICK b \in 0 .. 127 : hdr = <<b>>
    BY <1>1 DEF HeaderOctets
  <2> QED BY <1>1, <2>1, H264Survives
<1>2. CASE codec # "H264"
  <2>1. PICK b \in Octet, c \in Octet : hdr = <<b, c>>
    BY <1>2 DEF HeaderOctets
  <2> QED BY <1>2, <2>1, H265Survives, H266Survives
<1> QED BY <1>1, <1>2

(* Every fragment of a unit the receiver completes gives it back the       *)
(* unit's header and its place in the unit, whatever the codec, the header *)
(* and the way the unit was cut (nal.c:87, 111).                           *)
THEOREM HeadersAreDelivered == NalSpec => []HeadersDelivered
<1>1. NalTypeOK /\ DeliveredWhole => HeadersDelivered
  <2> SUFFICES ASSUME NalTypeOK, rx.done # << >>,
                      NEW i \in DOMAIN rx.done[Len(rx.done)],
                      DeliveredWhole,
                      NEW hdr \in Headers[rx.done[Len(rx.done)][1].nal.codec]
               PROVE  HeaderRebuilds(rx.done[Len(rx.done)][1].nal.codec, hdr,
                                     rx.done[Len(rx.done)][i].S, rx.done[Len(rx.done)][i].E)
    BY DEF HeadersDelivered
  <2> DEFINE unit == rx.done[Len(rx.done)]
  <2>1. rx.done \in Seq(Seq(FuPayloads)) /\ Len(rx.done) \in 1 .. Len(rx.done)
    BY EmptySeq DEF NalTypeOK
  <2>2. unit \in Seq(FuPayloads) /\ unit # << >>
    BY <2>1 DEF DeliveredWhole, Whole
  <2>3. i \in DOMAIN unit
    OBVIOUS
  <2> HIDE DEF unit
  <2>4. Len(unit) \in Nat \ {0} /\ DOMAIN unit = 1 .. Len(unit)
    BY <2>2, EmptySeq
  <2>5. unit[1] \in FuPayloads /\ unit[i] \in FuPayloads
    BY <2>2, <2>3, <2>4
  <2>6. unit[1].nal \in Nals /\ unit[i].S \in BOOLEAN /\ unit[i].E \in BOOLEAN
    BY <2>5 DEF FuPayloads
  <2>7. unit[1].nal.codec \in Codecs
    BY <2>6 DEF Nals
  <2>8. unit[1].nal.codec \in {"H264", "H265", "H266"}
        /\ hdr \in HeaderOctets(unit[1].nal.codec)
    BY <2>7, NalAssumption DEF unit
  <2>9. HeaderRebuilds(unit[1].nal.codec, hdr, unit[i].S, unit[i].E)
    BY <2>6, <2>8, HeadersSurvive
  <2> QED
    BY <2>9 DEF unit
<1>2. NalIInv => NalTypeOK /\ DeliveredWhole
  BY DEF NalIInv, NalWireOK
<1> QED
  BY <1>1, <1>2, NalInvariant, PTL
=============================================================================
