------------------------ MODULE JpegXsTransportProofs ------------------------
(***************************************************************************)
(* The JPEG XS counters for every packet size, unit length up to the       *)
(* capacity of the counters, and pattern of failed sends: SEP and P say    *)
(* where a packet belongs, L and the marker where a unit and a frame end,  *)
(* and a receiver needs no more to deliver whole units only.               *)
(***************************************************************************)
EXTENDS JpegXsTransport, RtpTransportProofs

(* How many chunks a unit of some length is cut into, and why the loop     *)
(* never runs past the unit nor stops short of it.                         *)
LEMMA CeilDiv ==
  ASSUME NEW len \in Nat \ {0}, NEW b \in Nat \ {0}
  PROVE  LET n == (len + b - 1) \div b
         IN  n \in Nat \ {0} /\ (n - 1) * b < len /\ len <= n * b
<1> DEFINE a == len + b - 1
           n == a \div b
           r == a % b
<1>1. a \in Nat /\ a = len + b - 1
  OBVIOUS
<1> HIDE DEF a
<1>2. n \in Nat /\ r \in 0 .. b - 1 /\ a = b * n + r
  BY <1>1, DivMod
<1> HIDE DEF n, r
<1>3. n * b = b * n /\ (n - 1) * b = b * n - b /\ b * n \in Int
  BY <1>2
<1>4. (n - 1) * b < len /\ len <= n * b
  <2> DEFINE m == b * n
  <2>1. a = m + r /\ n * b = m /\ (n - 1) * b = m - b /\ m \in Int
    BY <1>2, <1>3
  <2> HIDE DEF m
  <2>2. r >= 0 /\ r <= b - 1 /\ r \in Int
    BY <1>2
  <2> QED
    BY <2>1, <2>2, <1>1
<1>5. n # 0
  BY <1>4
<1> QED
  BY <1>2, <1>4, <1>5 DEF n, a

(* Fewer chunks than c are shorter together than c of them. *)
LEMMA FewerChunks ==
  ASSUME NEW m \in Int, NEW c \in Int, NEW b \in Nat \ {0}, m * b < c * b
  PROVE  m < c
<1>1. SUFFICES ASSUME m - c \in Nat PROVE FALSE
  OBVIOUS
<1>2. (m - c) * b \in Nat /\ (m - c) * b = m * b - c * b
  BY <1>1
<1> QED
  BY <1>2

(* The number of packets a call sends, as total_chunks computes it. *)
ChunkCount(len) == IF len = 0 THEN 1 ELSE (len + chunk_budget - 1) \div chunk_budget

Lens == 0 .. Capacity(pack_mode) * chunk_budget

LEMMA Budget == chunk_budget \in Nat \ {0} /\ PMod \in Nat \ {0, 1} /\ FMod \in Nat \ {0, 1}
                /\ SEP_HEADER_SEGMENT \in 0 .. PMod - 1
BY JpegXsAssumption DEF chunk_budget, PAYLOAD_HEADER_SIZE, SEP_HEADER_SEGMENT

LEMMA CapacityType ==
  ASSUME pack_mode \in Modes
  PROVE  Capacity(pack_mode) \in Nat \ {0} /\ Lens \subseteq Nat
<1>1. PMod * PMod \in Nat \ {0}
  BY Budget
<1>2. Capacity(pack_mode) \in Nat \ {0}
  BY <1>1, Budget DEF Capacity
<1>3. Capacity(pack_mode) * chunk_budget \in Nat
  BY <1>2, Budget
<1> QED
  BY <1>2, <1>3 DEF Lens

(* Chunk i of a unit: it begins within the unit, and it reaches the end of *)
(* the unit exactly when it is the last one the loop counts.               *)
LEMMA Chunk ==
  ASSUME pack_mode \in Modes, NEW len \in Lens,
         NEW i \in 0 .. ChunkCount(len) - 1
  PROVE  LET off == i * chunk_budget
             remaining == len - off
             size == IF remaining < chunk_budget THEN remaining ELSE chunk_budget
             last == i = ChunkCount(len) - 1
         IN  /\ off \in Nat
             /\ size \in Nat
             /\ last <=> off + size = len
             /\ ~ last => /\ off + size = (i + 1) * chunk_budget
                          /\ i + 1 \in 0 .. ChunkCount(len) - 1
                          /\ i + 1 < Capacity(pack_mode)
<1> DEFINE b == chunk_budget
           n == ChunkCount(len)
           c == Capacity(pack_mode)
           off == i * b
           remaining == len - off
           size == IF remaining < b THEN remaining ELSE b
           last == i = n - 1
<1>1. b \in Nat \ {0} /\ c \in Nat \ {0} /\ len \in Nat /\ len <= c * b /\ c * b \in Nat
  BY Budget, CapacityType DEF Lens
<1>2. n \in Nat \ {0} /\ i \in Nat /\ i <= n - 1
  <2>1. CASE len = 0
    BY <2>1 DEF ChunkCount
  <2>2. CASE len # 0
    <3>1. n \in Nat \ {0}
      BY <1>1, <2>2, CeilDiv DEF ChunkCount
    <3> QED
      BY <3>1
  <2> QED
    BY <2>1, <2>2
<1>3. CASE len = 0
  <2>1. n = 1 /\ i = 0
    BY <1>3, <1>2 DEF ChunkCount
  <2>2. off = 0
    BY <2>1, <1>1
  <2> QED
    BY <1>1, <1>3, <2>1, <2>2
<1>4. CASE len # 0
  <2>1. (n - 1) * b < len /\ len <= n * b
    BY <1>1, <1>4, CeilDiv DEF ChunkCount
  <2> HIDE DEF b, n, c
  <2> DEFINE m == (n - 1) * b
             o == i * b
  <2>2. m \in Nat /\ o \in Nat /\ n * b = m + b /\ (i + 1) * b = o + b
    BY <1>1, <1>2
  <2>3. o <= m
    <3>1. (n - 1 - i) * b \in Nat /\ (n - 1 - i) * b = m - o
      BY <1>1, <1>2
    <3> QED
      BY <3>1, <2>2
  <2>4. CASE last
    <3>1. o = m
      BY <2>4
    <3> HIDE DEF m, o
    <3>2. len - o \in Nat /\ len - o <= b
      BY <3>1, <2>1, <2>2, <1>1 DEF m
    <3>3. len - o < b \/ len - o = b
      BY <3>2, <1>1
    <3> QED
      BY <2>4, <3>2, <3>3, <2>2, <1>1 DEF o, b, n
  <2>5. CASE ~ last
    <3>1. i + 1 <= n - 1 /\ i + 1 \in Nat
      BY <2>5, <1>2
    <3>2. o + b <= m
      <4>1. (n - 1 - (i + 1)) * b \in Nat
        BY <3>1, <1>1, <1>2
      <4>2. (n - 1 - (i + 1)) * b = m - (o + b)
        BY <1>1, <1>2
      <4> QED
        BY <4>1, <4>2, <2>2, <1>1
    <3>3. i + 1 < c
      <4>1. (i + 1) * b < c * b
        BY <2>1, <2>2, <3>2, <1>1
      <4> QED
        BY <4>1, <3>1, <1>1, FewerChunks
    <3> HIDE DEF m, o
    <3>4. ~ (len - o < b) /\ o + b # len
      BY <3>2, <2>1, <2>2, <1>1 DEF m
    <3> QED
      BY <2>5, <3>1, <3>3, <3>4, <2>2, <1>1, <1>2 DEF o, b, n, c
  <2> QED
    BY <2>4, <2>5
<1> QED
  BY <1>3, <1>4

-----------------------------------------------------------------------------

XsPayloads ==
  [L : BOOLEAN, F : 0 .. FMod - 1, sep : 0 .. PMod - 1, p : 0 .. PMod - 1,
   hdr : {PAYLOAD_HEADER_SIZE}, len : Nat, unit : Nat, off : Nat, of : Nat, end : BOOLEAN]
XsPackets == [seq : 0 .. U16 - 1, ts : 0 .. U32 - 1, marker : BOOLEAN,
              at : Timestamps, payload : XsPayloads]

(* The variables stay in their types. *)
XsTypeOK ==
  /\ pack_mode \in Modes
  /\ seq_num \in 0 .. U16 - 1 /\ clock_rate \in ClockRates /\ ts_base_us \in TsBases
  /\ frame_counter \in 0 .. FMod - 1
  /\ count \in Nat
  /\ wire \in Seq(XsPackets)

Sends == [stage : {"send"}, ts : Timestamps, end : BOOLEAN, len : Lens, i : Nat,
          sep : 0 .. PMod - 1, p : 0 .. PMod - 1, off : Nat]

(* What the counters of a packet say of its place among the chunks. *)
Index(sep, p) == IF pack_mode = "codestream" THEN sep * PMod + p ELSE p

(* A call in the loop: its chunk exists, its counters and its offset are   *)
(* those of that chunk, and a header segment ends no frame.                *)
CallOK ==
  call.stage = "send" =>
    /\ call \in Sends
    /\ call.i \in 0 .. ChunkCount(call.len) - 1
    /\ call.off = call.i * chunk_budget
    /\ Index(call.sep, call.p) = call.i
    /\ pack_mode = "slice" /\ call.sep = SEP_HEADER_SEGMENT => ~ call.end

XsIInv == XsTypeOK /\ CallOK /\ CountersLocateChunk /\ LastAndMarker

LEMMA XsInvInit == XsInit => XsIInv
<1>1. SUFFICES ASSUME XsInit PROVE XsIInv
  OBVIOUS
<1>2. 0 \in 0 .. U16 - 1 /\ 0 \in 0 .. FMod - 1 /\ 0 \in Nat /\ << >> \in Seq(XsPackets)
  BY WidthAssumption, Budget
<1>3. XsTypeOK
  BY <1>1, <1>2 DEF XsInit, Init, XsTypeOK
<1>4. CallOK
  BY <1>1 DEF XsInit, Idle, CallOK
<1>5. CountersLocateChunk /\ LastAndMarker
  BY <1>1 DEF XsInit, Init, CountersLocateChunk, LastAndMarker
<1> QED
  BY <1>3, <1>4, <1>5 DEF XsIInv

(* A call begins at chunk 0, whose counters are 0 but for the fixed SEP of *)
(* slice mode.                                                             *)
LEMMA SendUnitKeeps ==
  ASSUME XsIInv, NEW ts \in Timestamps, NEW sep \in 0 .. PMod - 1, NEW end \in BOOLEAN,
         NEW len \in UnitLens[pack_mode], send_unit(ts, sep, end, len),
         pack_mode = "codestream" => sep = 0,
         pack_mode = "slice" /\ sep = SEP_HEADER_SEGMENT => ~ end
  PROVE  XsIInv'
<1>1. /\ UNCHANGED <<seq_num, clock_rate, ts_base_us, wire, pack_mode, frame_counter>>
      /\ count' = count + 1
      /\ call' = [stage |-> "send", ts |-> ts, end |-> end, len |-> len, i |-> 0,
                  sep |-> sep, p |-> 0, off |-> 0]
  BY DEF send_unit, rtpVars
<1>2. pack_mode \in Modes /\ len \in Lens
  BY JpegXsAssumption DEF XsIInv, XsTypeOK, Lens
<1>3. XsTypeOK'
  BY <1>1 DEF XsIInv, XsTypeOK
<1>4. (CountersLocateChunk /\ LastAndMarker)'
  BY <1>1 DEF XsIInv, CountersLocateChunk, LastAndMarker
<1>5. CallOK'
  <2>1. ChunkCount(len) \in Nat \ {0}
    <3>1. len \in Nat
      BY <1>2, CapacityType
    <3>2. CASE len = 0
      BY <3>2 DEF ChunkCount
    <3>3. CASE len # 0
      BY <3>1, <3>3, Budget, CeilDiv DEF ChunkCount
    <3> QED
      BY <3>2, <3>3
  <2>2. 0 \in 0 .. ChunkCount(len) - 1 /\ 0 = 0 * chunk_budget /\ 0 \in 0 .. PMod - 1
    BY <2>1, Budget
  <2>3. call' \in Sends
    BY <1>1, <1>2, <2>2 DEF Sends
  <2>4. Index(sep, 0) = 0
    BY <1>2, Budget DEF Index, Modes
  <2>5. Sends' = Sends /\ ChunkCount(len)' = ChunkCount(len) /\ Index(sep, 0)' = Index(sep, 0)
    BY <1>1 DEF Sends, Lens, Capacity, ChunkCount, Index
  <2> QED
    BY <1>1, <2>2, <2>3, <2>4, <2>5 DEF CallOK, Index, ChunkCount
<1> QED
  BY <1>3, <1>4, <1>5 DEF XsIInv

(* The counters after a packet that is not the last of its unit. *)
LEMMA CountersMove ==
  ASSUME pack_mode \in Modes, NEW sep \in 0 .. PMod - 1, NEW p \in 0 .. PMod - 1,
         Index(sep, p) + 1 < Capacity(pack_mode)
  PROVE  LET c == NextCounters(sep, p)
         IN  /\ c[1] \in 0 .. PMod - 1 /\ c[2] \in 0 .. PMod - 1
             /\ Index(c[1], c[2]) = Index(sep, p) + 1
             /\ pack_mode = "slice" => c[1] = sep
<1>0. PMod \in Nat \ {0, 1} /\ sep * PMod \in Nat
  BY Budget
<1>1. CASE pack_mode = "slice"
  <2>1. p + 1 < PMod
    BY <1>0, <1>1 DEF Index, Capacity
  <2>2. (p + 1) % PMod = p + 1
    BY <2>1, <1>0
  <2> QED
    BY <2>1, <2>2, <1>0, <1>1 DEF NextCounters, Index
<1>2. CASE pack_mode = "codestream" /\ p # PMod - 1
  BY <1>0, <1>2 DEF NextCounters, Index
<1>3. CASE pack_mode = "codestream" /\ p = PMod - 1
  <2>1. (sep + 1) * PMod = sep * PMod + PMod
    BY <1>0
  <2>2. (sep + 1) * PMod < PMod * PMod
    BY <2>1, <1>0, <1>3 DEF Index, Capacity
  <2>3. sep + 1 < PMod
    BY <2>2, <1>0, FewerChunks
  <2>4. (sep + 1) % PMod = sep + 1
    BY <2>3, <1>0
  <2>5. NextCounters(sep, p) = <<sep + 1, 0>>
    BY <2>4, <1>3 DEF NextCounters
  <2> QED
    BY <2>1, <2>3, <2>5, <1>0, <1>3 DEF Index
<1> QED
  BY <1>1, <1>2, <1>3 DEF Modes

(* One packet that is good joins the wire, or nothing changes on it. *)
GoodPacket(pkt) ==
  /\ pkt \in XsPackets
  /\ pkt.payload.off = Index(pkt.payload.sep, pkt.payload.p) * chunk_budget
  /\ pkt.payload.L <=> pkt.payload.off + pkt.payload.len = pkt.payload.of
  /\ pkt.marker <=> pkt.payload.L /\ pkt.payload.end
  /\ pack_mode = "slice" /\ pkt.payload.sep = SEP_HEADER_SEGMENT => ~ pkt.marker

LEMMA WireKeeps ==
  ASSUME XsIInv, NEW pkt, GoodPacket(pkt), UNCHANGED pack_mode,
         wire' = wire \/ wire' = Append(wire, pkt)
  PROVE  wire' \in Seq(XsPackets) /\ CountersLocateChunk' /\ LastAndMarker'
<1>0. wire \in Seq(XsPackets) /\ pkt \in XsPackets
  BY DEF XsIInv, XsTypeOK, GoodPacket
<1>1. CASE wire' = wire
  BY <1>0, <1>1 DEF XsIInv, CountersLocateChunk, LastAndMarker
<1>2. CASE wire' = Append(wire, pkt)
  <2>1. /\ wire' \in Seq(XsPackets)
        /\ Len(wire') = Len(wire) + 1 /\ Len(wire) \in Nat
        /\ \A i \in 1 .. Len(wire) : wire'[i] = wire[i]
        /\ wire'[Len(wire) + 1] = pkt
    BY <1>0, <1>2
  <2>2. ASSUME NEW i \in 1 .. Len(wire')
        PROVE  i \in 1 .. Len(wire) \/ i = Len(wire) + 1
    BY <2>1
  <2>3. CountersLocateChunk'
    <3> SUFFICES ASSUME NEW i \in 1 .. Len(wire')
                 PROVE  wire'[i].payload.off =
                          (IF pack_mode = "codestream"
                           THEN wire'[i].payload.sep * PMod + wire'[i].payload.p
                           ELSE wire'[i].payload.p) * chunk_budget
      BY DEF CountersLocateChunk
    <3>1. CASE i \in 1 .. Len(wire)
      BY <2>1, <3>1 DEF XsIInv, CountersLocateChunk
    <3>2. CASE i = Len(wire) + 1
      BY <2>1, <3>2 DEF GoodPacket, Index
    <3> QED
      BY <3>1, <3>2, <2>2
  <2>4. LastAndMarker'
    <3> SUFFICES ASSUME NEW i \in 1 .. Len(wire')
                 PROVE  LET q == wire'[i].payload
                        IN  /\ q.L <=> q.off + q.len = q.of
                            /\ wire'[i].marker <=> q.L /\ q.end
                            /\ pack_mode = "slice" /\ q.sep = SEP_HEADER_SEGMENT
                                 => ~ wire'[i].marker
      BY DEF LastAndMarker
    <3>1. CASE i \in 1 .. Len(wire)
      BY <2>1, <3>1 DEF XsIInv, LastAndMarker
    <3>2. CASE i = Len(wire) + 1
      BY <2>1, <3>2 DEF GoodPacket
    <3> QED
      BY <3>1, <3>2, <2>2
  <2> QED
    BY <2>1, <2>3, <2>4
<1> QED
  BY <1>1, <1>2

LEMMA SendChunkKeeps ==
  ASSUME XsIInv, NEW ret \in {0, -1}, SendChunk(ret)
  PROVE  XsIInv'
<1> DEFINE remaining == call.len - call.off
           size == IF remaining < chunk_budget THEN remaining ELSE chunk_budget
           last == call.i = total_chunks - 1
           pkt == PacketOf(call.ts, Marker(last), JpegXsPayload(last, size))
<1>0. XsTypeOK /\ pack_mode \in Modes /\ call.stage = "send"
  BY DEF XsIInv, XsTypeOK, SendChunk
<1>1. /\ call \in Sends
      /\ call.i \in 0 .. ChunkCount(call.len) - 1
      /\ call.off = call.i * chunk_budget
      /\ Index(call.sep, call.p) = call.i
      /\ pack_mode = "slice" /\ call.sep = SEP_HEADER_SEGMENT => ~ call.end
  BY <1>0 DEF XsIInv, CallOK
<1>2. /\ Emit(Marker(last), JpegXsPayload(last, size), ret)
      /\ Advance(size, last, ret)
      /\ UNCHANGED <<pack_mode, count>>
  BY DEF SendChunk
<1>3. call.len \in Lens /\ call.len \in Nat /\ call.end \in BOOLEAN /\ call.ts \in Timestamps
      /\ call.sep \in 0 .. PMod - 1 /\ call.p \in 0 .. PMod - 1 /\ call.i \in Nat
  BY <1>0, <1>1, CapacityType DEF Sends
<1>4. last <=> call.i = ChunkCount(call.len) - 1
  BY DEF total_chunks, ChunkCount
<1>5. /\ call.off \in Nat /\ size \in Nat
      /\ last <=> call.off + size = call.len
      /\ ~ last => /\ call.off + size = (call.i + 1) * chunk_budget
                   /\ call.i + 1 \in 0 .. ChunkCount(call.len) - 1
                   /\ call.i + 1 < Capacity(pack_mode)
  BY <1>0, <1>1, <1>3, <1>4, Chunk
<1> HIDE DEF size, last
<1>6. last \in BOOLEAN
  BY DEF last
<1>7. GoodPacket(pkt)
  <2>1. compute_timestamp(call.ts) \in 0 .. U32 - 1
    BY <1>0, <1>3, TimestampType DEF XsTypeOK
  <2>2. JpegXsPayload(last, size) \in XsPayloads
    BY <1>0, <1>3, <1>5, <1>6 DEF JpegXsPayload, XsPayloads, XsTypeOK
  <2>3. Marker(last) \in BOOLEAN /\ (Marker(last) <=> last /\ call.end)
    BY <1>3, <1>6 DEF Marker
  <2>4. pkt \in XsPackets
    BY <1>0, <1>3, <2>1, <2>2, <2>3 DEF PacketOf, XsPackets, XsTypeOK
  <2>5. pkt.payload = JpegXsPayload(last, size) /\ pkt.marker = Marker(last)
    BY DEF PacketOf
  <2> HIDE DEF pkt
  <2>6. /\ pkt.payload.off = call.off /\ pkt.payload.sep = call.sep /\ pkt.payload.p = call.p
        /\ pkt.payload.L = last /\ pkt.payload.len = size /\ pkt.payload.of = call.len
        /\ pkt.payload.end = call.end
    BY <2>5 DEF JpegXsPayload
  <2> QED
    BY <1>1, <1>5, <2>3, <2>4, <2>5, <2>6 DEF GoodPacket
<1>8. /\ wire' = wire \/ wire' = Append(wire, pkt)
      /\ UNCHANGED <<clock_rate, ts_base_us>>
  BY <1>2 DEF Emit, SendPacket, config
<1> HIDE DEF pkt
<1>9. wire' \in Seq(XsPackets) /\ CountersLocateChunk' /\ LastAndMarker'
  BY <1>2, <1>7, <1>8, WireKeeps
<1>10. XsTypeOK'
  <2>1. seq_num' = seq_num \/ seq_num' = (seq_num + 1) % U16
    BY <1>2 DEF Emit, SendPacket, Account, counters
  <2>2. (seq_num + 1) % U16 \in 0 .. U16 - 1 /\ seq_num \in 0 .. U16 - 1
    BY <1>0, WidthAssumption, DivMod DEF XsTypeOK
  <2>3. frame_counter' = frame_counter \/ frame_counter' = (frame_counter + 1) % FMod
    BY <1>2 DEF Advance
  <2>4. (frame_counter + 1) % FMod \in 0 .. FMod - 1 /\ frame_counter \in 0 .. FMod - 1
    BY <1>0, Budget, DivMod DEF XsTypeOK
  <2> QED
    BY <1>0, <1>2, <1>8, <1>9, <2>1, <2>2, <2>3, <2>4 DEF XsTypeOK
<1>11. CallOK'
  <2>1. CASE ret = -1 \/ last
    BY <1>2, <2>1 DEF Advance, CallOK
  <2>2. CASE ret # -1 /\ ~ last
    <3> DEFINE c == NextCounters(call.sep, call.p)
    <3>1. call' = [call EXCEPT !.i = call.i + 1, !.off = call.off + size, !.sep = c[1], !.p = c[2]]
      BY <1>2, <2>2 DEF Advance
    <3>2. /\ c[1] \in 0 .. PMod - 1 /\ c[2] \in 0 .. PMod - 1
          /\ Index(c[1], c[2]) = call.i + 1
          /\ pack_mode = "slice" => c[1] = call.sep
      BY <1>0, <1>1, <1>3, <1>5, <2>2, CountersMove
    <3> HIDE DEF c
    <3>3. call' \in Sends
      <4>1. call.off + size \in Nat /\ call.i + 1 \in Nat
        BY <1>3, <1>5
      <4> DEFINE off == call.off + size
                 i == call.i + 1
                 sep == c[1]
                 p == c[2]
      <4>2. call' = [call EXCEPT !.i = i, !.off = off, !.sep = sep, !.p = p]
        BY <3>1
      <4>3. off \in Nat /\ i \in Nat /\ sep \in 0 .. PMod - 1 /\ p \in 0 .. PMod - 1
        BY <4>1, <3>2
      <4> HIDE DEF off, i, sep, p
      <4> QED
        BY <4>2, <4>3, <1>1 DEF Sends
    <3>4. /\ call'.i = call.i + 1 /\ call'.off = call.off + size /\ call'.len = call.len
          /\ call'.sep = c[1] /\ call'.p = c[2] /\ call'.end = call.end
      BY <3>1, <1>1 DEF Sends
    <3>5. Sends' = Sends /\ ChunkCount(call.len)' = ChunkCount(call.len)
          /\ Index(call.sep, call.p)' = Index(c[1], c[2])
      BY <1>2, <3>4 DEF Sends, Lens, Capacity, ChunkCount, Index
    <3> QED
      BY <1>1, <1>2, <1>5, <2>2, <3>2, <3>3, <3>4, <3>5 DEF CallOK
  <2> QED
    BY <2>1, <2>2
<1> QED
  BY <1>9, <1>10, <1>11 DEF XsIInv

LEMMA XsInvStep == XsIInv /\ [XsNext]_xsVars => XsIInv'
<1>1. SUFFICES ASSUME XsIInv, [XsNext]_xsVars PROVE XsIInv'
  OBVIOUS
<1>2. CASE UNCHANGED xsVars
  BY <1>1, <1>2 DEF xsVars, rtpVars, XsIInv, XsTypeOK, CallOK, CountersLocateChunk, LastAndMarker,
                    Sends, Lens, Capacity, Index, ChunkCount
<1>3. ASSUME NEW ts \in Timestamps, NEW len \in UnitLens[pack_mode], NEW end \in BOOLEAN,
             send_codestream(ts, end, len)
      PROVE  XsIInv'
  <2>1. pack_mode = "codestream" /\ send_unit(ts, 0, end, len) /\ 0 \in 0 .. PMod - 1
    BY <1>3, Budget DEF send_codestream
  <2> QED
    BY <1>1, <2>1, SendUnitKeeps
<1>4. ASSUME NEW ts \in Timestamps, NEW len \in UnitLens[pack_mode], send_header_segment(ts, len)
      PROVE  XsIInv'
  <2>1. pack_mode = "slice" /\ send_unit(ts, SEP_HEADER_SEGMENT, FALSE, len)
    BY <1>4 DEF send_header_segment
  <2> QED
    BY <1>1, <2>1, Budget, SendUnitKeeps
<1>5. ASSUME NEW ts \in Timestamps, NEW len \in UnitLens[pack_mode], NEW end \in BOOLEAN,
             NEW slice_index \in SliceIndices, send_slice(ts, slice_index, end, len)
      PROVE  XsIInv'
  <2>1. pack_mode = "slice" /\ send_unit(ts, slice_index, end, len)
    BY <1>5 DEF send_slice
  <2>2. slice_index \in 0 .. PMod - 1 /\ slice_index # SEP_HEADER_SEGMENT
    BY JpegXsAssumption, Budget
  <2> QED
    BY <1>1, <2>1, <2>2, SendUnitKeeps
<1>6. ASSUME NEW ret \in {0, -1}, SendChunk(ret)
      PROVE  XsIInv'
  BY <1>1, <1>6, SendChunkKeeps
<1>7. CASE Return
  <2>1. UNCHANGED <<rtpVars, pack_mode, frame_counter, count>> /\ call' = Idle
    BY <1>7 DEF Return
  <2> QED
    BY <1>1, <2>1 DEF rtpVars, Idle, XsIInv, XsTypeOK, CallOK, CountersLocateChunk, LastAndMarker
<1> QED
  BY <1>1, <1>2, <1>3, <1>4, <1>5, <1>6, <1>7 DEF XsNext

-----------------------------------------------------------------------------

(* SEP and P locate every packet in its unit, through every wrap of P, for *)
(* every unit that the counters can number (jpegxs_transport.c:160-175).   *)
THEOREM CountersLocateEveryChunk == XsSpec => []CountersLocateChunk
<1>1. XsIInv => CountersLocateChunk
  BY DEF XsIInv
<1> QED
  BY <1>1, XsInvInit, XsInvStep, PTL DEF XsSpec

(* L ends a unit and the marker a frame, wherever sends fail, and a header *)
(* segment never ends one (jpegxs_transport.c:123, 147).                   *)
THEOREM LastAndMarkerEndUnits == XsSpec => []LastAndMarker
<1>1. XsIInv => LastAndMarker
  BY DEF XsIInv
<1> QED
  BY <1>1, XsInvInit, XsInvStep, PTL DEF XsSpec

-----------------------------------------------------------------------------

(* The counter is that of the next packet. *)
FrameCounted ==
  frame_counter = IF wire = << >> THEN 0 ELSE NextF(wire[Len(wire)])

FrameIInv == FrameCounted /\ FrameCounterCountsFrames

LEMMA FrameInit == XsInit => FrameIInv
BY DEF XsInit, Init, FrameIInv, FrameCounted, FrameCounterCountsFrames

(* A packet with the counter in it goes out, and the counter moves on      *)
(* behind it when it had the marker.                                       *)
LEMMA FrameAppend ==
  ASSUME XsTypeOK, FrameIInv, NEW pkt \in XsPackets, pkt.payload.F = frame_counter,
         wire' = Append(wire, pkt),
         frame_counter' = IF pkt.marker THEN (frame_counter + 1) % FMod ELSE frame_counter
  PROVE  FrameIInv'
<1>1. wire \in Seq(XsPackets) /\ frame_counter \in 0 .. FMod - 1 /\ FMod \in Nat \ {0}
  BY Budget DEF XsTypeOK
<1> DEFINE n == Len(wire)
<1>2. /\ n \in Nat /\ Len(wire') = n + 1 /\ wire'[n + 1] = pkt
      /\ \A i \in 1 .. n : wire'[i] = wire[i]
      /\ wire' \in Seq(XsPackets)
  BY <1>1, AppendProperties, LenProperties
<1>3. wire' # << >>
  BY <1>1, AppendProperties
<1>4. wire = << >> <=> n = 0
  BY <1>1, EmptySeq
<1> HIDE DEF n
<1>5. frame_counter' = NextF(pkt)
  <2>1. CASE pkt.marker
    BY <2>1 DEF NextF
  <2>2. CASE ~ pkt.marker
    <3>1. frame_counter % FMod = frame_counter
      BY <1>1
    <3> QED
      BY <1>1, <2>2, <3>1 DEF NextF
  <2> QED
    BY <2>1, <2>2
<1>6. FrameCounted'
  BY <1>2, <1>3, <1>5 DEF FrameCounted, NextF
<1>7. FrameCounterCountsFrames'
  <2>1. wire'[1].payload.F = 0
    <3>1. CASE n = 0
      BY <1>2, <1>4, <3>1 DEF FrameIInv, FrameCounted
    <3>2. CASE n # 0
      <4>1. 1 \in 1 .. n
        BY <1>2, <3>2
      <4> QED
        BY <1>2, <1>4, <3>2, <4>1 DEF FrameIInv, FrameCounterCountsFrames
    <3> QED
      BY <3>1, <3>2
  <2>2. ASSUME NEW i \in 1 .. n PROVE wire'[i + 1].payload.F = NextF(wire'[i])
    <3>1. wire'[i] = wire[i] /\ n # 0
      BY <1>2
    <3>2. CASE i = n
      BY <1>2, <1>4, <3>1, <3>2 DEF FrameIInv, FrameCounted, n
    <3>3. CASE i # n
      <4>1. i + 1 \in 1 .. n /\ i \in 1 .. n - 1
        BY <1>2, <3>3
      <4>2. wire'[i + 1] = wire[i + 1]
        BY <1>2, <4>1
      <4> QED
        BY <3>1, <4>1, <4>2 DEF FrameIInv, FrameCounterCountsFrames, n
    <3> QED
      BY <3>2, <3>3
  <2>3. Len(wire') - 1 = n
    BY <1>2
  <2> QED
    BY <2>1, <2>2, <2>3 DEF FrameCounterCountsFrames, NextF
<1> QED
  BY <1>6, <1>7 DEF FrameIInv

LEMMA FrameStep == XsIInv /\ FrameIInv /\ [XsNext]_xsVars => FrameIInv'
<1> SUFFICES ASSUME XsIInv, FrameIInv, [XsNext]_xsVars PROVE FrameIInv'
  OBVIOUS
<1>1. ASSUME UNCHANGED <<wire, frame_counter>> PROVE FrameIInv'
  BY <1>1 DEF FrameIInv, FrameCounted, FrameCounterCountsFrames, NextF
<1>2. ASSUME NEW ret \in {0, -1}, SendChunk(ret) PROVE FrameIInv'
  <2> DEFINE remaining == call.len - call.off
             size == IF remaining < chunk_budget THEN remaining ELSE chunk_budget
             last == call.i = total_chunks - 1
             pkt == PacketOf(call.ts, Marker(last), JpegXsPayload(last, size))
  <2>1. /\ Emit(Marker(last), JpegXsPayload(last, size), ret)
        /\ Advance(size, last, ret)
    BY <1>2 DEF SendChunk
  <2>2. wire' = IF ret # -1 THEN Append(wire, pkt) ELSE wire
    BY <2>1 DEF Emit, SendPacket
  <2>3. pkt.payload.F = frame_counter /\ pkt.marker = Marker(last)
    BY DEF PacketOf, JpegXsPayload
  <2>4. frame_counter' = IF ret # -1 /\ Marker(last) THEN (frame_counter + 1) % FMod
                         ELSE frame_counter
    BY <2>1 DEF Advance, Marker
  <2>5. CASE ret = -1
    BY <1>1, <2>2, <2>4, <2>5
  <2>6. CASE ret = 0
    <3>1. wire' \in Seq(XsPackets) /\ XsTypeOK
      BY <1>2, SendChunkKeeps DEF XsIInv, XsTypeOK
    <3>2. wire' = Append(wire, pkt)
      BY <2>2, <2>6
    <3>3. pkt \in XsPackets
      <4> HIDE DEF pkt
      <4>1. wire \in Seq(XsPackets)
        BY <3>1 DEF XsTypeOK
      <4>2. Len(wire') = Len(wire) + 1 /\ Len(wire) \in Nat /\ wire'[Len(wire) + 1] = pkt
        BY <3>2, <4>1
      <4>3. Len(wire) + 1 \in 1 .. Len(wire')
        BY <4>2
      <4> QED
        BY <3>1, <4>2, <4>3, ElementOfSeq
    <3> HIDE DEF pkt, last
    <3> QED
      BY <2>3, <2>4, <2>6, <3>1, <3>2, <3>3, FrameAppend
  <2> QED
    BY <2>5, <2>6
<1>3. ASSUME NEW ts, NEW sep, NEW end, NEW len, send_unit(ts, sep, end, len)
      PROVE  FrameIInv'
  BY <1>1, <1>3 DEF send_unit, rtpVars
<1>4. CASE Return
  BY <1>1, <1>4 DEF Return, rtpVars
<1>5. CASE UNCHANGED xsVars
  BY <1>1, <1>5 DEF xsVars, rtpVars
<1> QED
  BY <1>2, <1>3, <1>4, <1>5 DEF XsNext, send_codestream, send_header_segment, send_slice

(* F counts completed frames, whatever units failed in between             *)
(* (jpegxs_transport.c:172-176).                                           *)
THEOREM FrameCounterIsExact == XsSpec => []FrameCounterCountsFrames
<1>1. FrameIInv => FrameCounterCountsFrames
  BY DEF FrameIInv
<1>2. XsSpec => [](XsIInv /\ FrameIInv)
  BY XsInvInit, XsInvStep, FrameInit, FrameStep, PTL DEF XsSpec
<1> QED
  BY <1>1, <1>2, PTL

-----------------------------------------------------------------------------
(* What the receiver assembles: whole units and nothing else, for every    *)
(* pattern of refused sends and losses.                                    *)

RxTypeOK ==
  rx \in [next : -1 .. U16 - 1, ts : -1 .. U32 - 1, frags : Seq(XsPayloads),
          done : Seq(Seq(XsPayloads)), gap : 0 .. U16 - 1, hurt : SUBSET Nat]

(* Packets that are the beginning of one unit, and how far they reach. *)
PartOf(frags) ==
  /\ frags # << >>
  /\ frags[1].off = 0
  /\ \A k \in 1 .. Len(frags) - 1 :
       frags[k + 1].unit = frags[1].unit /\ frags[k + 1].off = frags[k].off + frags[k].len

EndOf(frags) == frags[Len(frags)].off + frags[Len(frags)].len

LEMMA PartSingle ==
  ASSUME NEW q \in XsPayloads, q.off = 0
  PROVE  PartOf(<<q>>) /\ <<q>>[1] = q /\ EndOf(<<q>>) = q.off + q.len /\ <<q>>[Len(<<q>>)] = q
         /\ <<q>> \in Seq(XsPayloads)
<1>1. Len(<<q>>) = 1 /\ <<q>>[1] = q /\ <<q>> # << >>
  OBVIOUS
<1>2. 1 .. Len(<<q>>) - 1 = {}
  BY <1>1
<1> QED
  BY <1>1, <1>2 DEF PartOf, EndOf

LEMMA PartAppend ==
  ASSUME NEW frags \in Seq(XsPayloads), PartOf(frags),
         NEW q \in XsPayloads, q.unit = frags[1].unit, q.off = EndOf(frags)
  PROVE  LET a == Append(frags, q)
         IN  PartOf(a) /\ a[1] = frags[1] /\ EndOf(a) = q.off + q.len /\ a[Len(a)] = q
             /\ a \in Seq(XsPayloads)
<1> DEFINE n == Len(frags)
           a == Append(frags, q)
<1>1. n \in Nat /\ n # 0
  BY EmptySeq DEF PartOf
<1>2. /\ a \in Seq(XsPayloads) /\ Len(a) = n + 1 /\ a[n + 1] = q
      /\ \A i \in 1 .. n : a[i] = frags[i]
  BY AppendProperties
<1> HIDE DEF a
<1>3. a # << >>
  <2>1. Len(a) # 0
    BY <1>1, <1>2
  <2> QED
    BY <2>1
<1>4. a[1] = frags[1]
  BY <1>1, <1>2
<1>5. a[Len(a)] = q /\ EndOf(a) = q.off + q.len
  BY <1>2 DEF EndOf
<1>6. ASSUME NEW k \in 1 .. Len(a) - 1
      PROVE  a[k + 1].unit = a[1].unit /\ a[k + 1].off = a[k].off + a[k].len
  <2>1. k \in 1 .. n /\ a[k] = frags[k]
    BY <1>1, <1>2
  <2>2. CASE k = n
    BY <1>2, <1>4, <2>1, <2>2 DEF EndOf
  <2>3. CASE k # n
    <3>1. k \in 1 .. n - 1 /\ k + 1 \in 1 .. n
      BY <1>1, <2>1, <2>3
    <3>2. a[k + 1] = frags[k + 1]
      BY <1>2, <3>1
    <3> QED
      BY <1>4, <2>1, <3>1, <3>2 DEF PartOf
  <2> QED
    BY <2>2, <2>3
<1>7. frags[1].off = 0
  BY DEF PartOf
<1> QED
  BY <1>2, <1>3, <1>4, <1>5, <1>6, <1>7 DEF PartOf, a

(* A unit the receiver has whole. *)
Whole(f) ==
  /\ f[1].off = 0
  /\ f[Len(f)].off + f[Len(f)].len = f[1].of
  /\ \A k \in 1 .. Len(f) - 1 :
       f[k + 1].unit = f[1].unit /\ f[k + 1].off = f[k].off + f[k].len

LEMMA WholePart ==
  ASSUME NEW frags, PartOf(frags), EndOf(frags) = frags[1].of
  PROVE  Whole(frags)
BY DEF PartOf, EndOf, Whole

(* The receiver has counted along with the sender. *)
Counted ==
  /\ rx.next = -1 => rx.frags = << >>
  /\ rx.next # -1 => seq_num = (rx.next + rx.gap) % U16

(* The receiver holds the beginning of a unit, and there is a packet of it *)
(* to come: the counters of the last one have a successor.                 *)
HeldOK ==
  rx.frags # << >> =>
    /\ PartOf(rx.frags)
    /\ Index(rx.frags[Len(rx.frags)].sep, rx.frags[Len(rx.frags)].p) + 1 < Capacity(pack_mode)

(* While the loop runs and nothing was lost, what the receiver holds is    *)
(* what the loop has sent.                                                 *)
Joins ==
  (rx.frags # << >> /\ rx.gap = 0 /\ call.stage = "send" /\ call.i # 0) =>
    rx.frags[1].unit = count /\ EndOf(rx.frags) = call.off /\ rx.frags[1].of = call.len

UnitsIInv ==
  /\ XsIInv /\ RxTypeOK /\ Counted /\ HeldOK /\ Joins
  /\ UnitsDeliveredWhole

-----------------------------------------------------------------------------

(* One packet at the receiver. *)
Continues(pkt) ==
  LET q == pkt.payload
      prev == rx.frags[Len(rx.frags)]
  IN  /\ pkt.seq = rx.next /\ rx.frags # << >>
      /\ rx.ts = pkt.ts /\ prev.F = q.F
      /\ <<q.sep, q.p>> = Successor(pack_mode, prev.sep, prev.p)

Starts(q) == q.p = 0 /\ (pack_mode = "codestream" => q.sep = 0)

Extended(pkt) ==
  IF Continues(pkt) THEN Append(rx.frags, pkt.payload)
  ELSE IF Starts(pkt.payload) THEN <<pkt.payload>>
  ELSE << >>

Completes(pkt) == Extended(pkt) # << >> /\ pkt.payload.L

LEMMA ReceiveFields ==
  ASSUME RxTypeOK, NEW pkt
  PROVE  /\ Receive(pkt).next = (pkt.seq + 1) % U16
         /\ Receive(pkt).gap = 0
         /\ Receive(pkt).frags = IF Completes(pkt) THEN << >> ELSE Extended(pkt)
         /\ Receive(pkt).done = IF Completes(pkt) THEN Append(rx.done, Extended(pkt)) ELSE rx.done
BY DEF Receive, Extended, Continues, Starts, Completes, RxTypeOK

LEMMA ReceiveType ==
  ASSUME RxTypeOK, NEW pkt \in XsPackets, Extended(pkt) \in Seq(XsPayloads)
  PROVE  Receive(pkt) \in
           [next : -1 .. U16 - 1, ts : -1 .. U32 - 1, frags : Seq(XsPayloads),
            done : Seq(Seq(XsPayloads)), gap : 0 .. U16 - 1, hurt : SUBSET Nat]
<1> DEFINE n == (pkt.seq + 1) % U16
           t == pkt.ts
           a == IF Completes(pkt) THEN << >> ELSE Extended(pkt)
           b == IF Completes(pkt) THEN Append(rx.done, Extended(pkt)) ELSE rx.done
<1>1. n \in -1 .. U16 - 1 /\ 0 \in 0 .. U16 - 1 /\ t \in -1 .. U32 - 1
  <2> DEFINE m == pkt.seq + 1
  <2>1. m \in Nat /\ U16 \in Nat \ {0} /\ t \in 0 .. U32 - 1 /\ U32 \in Nat
    BY WidthAssumption DEF XsPackets
  <2> HIDE DEF m, t
  <2>2. m % U16 \in 0 .. U16 - 1
    BY <2>1, DivMod
  <2> QED
    BY <2>1, <2>2 DEF m
<1>2. << >> \in Seq(XsPayloads) /\ rx.done \in Seq(Seq(XsPayloads))
  BY DEF RxTypeOK
<1>3. a \in Seq(XsPayloads)
  BY <1>2
<1>4. b \in Seq(Seq(XsPayloads))
  BY <1>2, AppendProperties
<1>5. Receive(pkt) = [rx EXCEPT !.next = n, !.gap = 0, !.ts = t, !.frags = a, !.done = b]
  BY DEF Receive, Extended, Continues, Starts, Completes, RxTypeOK
<1> HIDE DEF n, t, a, b
<1>6. Receive(pkt) = [next |-> n, ts |-> t, frags |-> a, done |-> b, gap |-> 0, hurt |-> rx.hurt]
  BY <1>5 DEF RxTypeOK
<1>7. rx.hurt \in SUBSET Nat
  BY DEF RxTypeOK
<1> QED
  BY <1>1, <1>3, <1>4, <1>6, <1>7

(* A packet that the sequence number says is next: none was lost. *)
LEMMA NextInSequence ==
  ASSUME XsTypeOK, RxTypeOK, Counted, rx.frags # << >>, rx.next = seq_num
  PROVE  rx.gap = 0
<1> DEFINE s == seq_num
           k == rx.gap
<1>1. /\ s \in 0 .. U16 - 1 /\ k \in 0 .. U16 - 1 /\ s = (s + k) % U16 /\ U16 \in Nat \ {0}
  BY WidthAssumption DEF XsTypeOK, RxTypeOK, Counted
<1> HIDE DEF s, k
<1>2. k = 0
  BY <1>1, OtherResidue
<1> QED
  BY <1>2 DEF k

(* Counters that have a successor within the capacity: it is the index     *)
(* after theirs, and never that of a first packet.                         *)
LEMMA SuccessorIndex ==
  ASSUME pack_mode \in Modes, NEW sep \in 0 .. PMod - 1, NEW p \in 0 .. PMod - 1,
         Index(sep, p) + 1 < Capacity(pack_mode), NEW sep2, NEW p2,
         <<sep2, p2>> = Successor(pack_mode, sep, p)
  PROVE  Index(sep2, p2) = Index(sep, p) + 1 /\ Index(sep2, p2) # 0
<1> DEFINE c == NextCounters(sep, p)
<1>0. PMod \in Nat \ {0, 1} /\ sep * PMod \in Nat /\ Index(sep, p) \in Nat
  BY Budget DEF Index
<1>1. Successor(pack_mode, sep, p) = c
  <2>1. CASE pack_mode = "slice"
    BY <2>1 DEF Successor, NextCounters
  <2>2. CASE pack_mode = "codestream" /\ p = PMod - 1
    <3>1. (p + 1) % PMod = 0
      <4>1. PMod % PMod = 0
        BY DivModUnique, <1>0, 1 \in Nat, 0 \in 0 .. PMod - 1, PMod * 1 + 0 = PMod
      <4> QED
        BY <1>0, <2>2, <4>1
    <3> QED
      BY <2>2, <3>1 DEF Successor, NextCounters
  <2>3. CASE pack_mode = "codestream" /\ p # PMod - 1
    <3>1. (p + 1) % PMod = p + 1
      BY <1>0, <2>3
    <3> QED
      BY <2>3, <3>1 DEF Successor, NextCounters
  <2> QED
    BY <2>1, <2>2, <2>3 DEF Modes
<1>2. Index(c[1], c[2]) = Index(sep, p) + 1
  BY CountersMove
<1> HIDE DEF c
<1>3. sep2 = c[1] /\ p2 = c[2]
  BY <1>1
<1> QED
  BY <1>0, <1>2, <1>3

(* The counters of a first packet are those of index 0 and of no other. *)
LEMMA FirstCounters ==
  ASSUME pack_mode \in Modes, NEW q, q.sep \in 0 .. PMod - 1, q.p \in 0 .. PMod - 1
  PROVE  Starts(q) <=> Index(q.sep, q.p) = 0
<1> DEFINE s == q.sep
           p == q.p
<1>0. PMod \in Nat \ {0} /\ s \in Nat /\ p \in Nat
  BY Budget
<1>1. Starts(q) <=> p = 0 /\ (pack_mode = "codestream" => s = 0)
  BY DEF Starts
<1> HIDE DEF s, p
<1>2. s * PMod \in Nat /\ (s * PMod = 0 <=> s = 0)
  <2>1. s # 0 => s * PMod # 0
    BY <1>0, FewerChunks
  <2> QED
    BY <1>0, <2>1
<1>3. Index(s, p) = 0 <=> p = 0 /\ (pack_mode = "codestream" => s = 0)
  BY <1>0, <1>2 DEF Index
<1> QED
  BY <1>1, <1>3 DEF s, p

(* The packet of a turn of the loop. *)
Turn(size, q, last) ==
  /\ size \in Nat /\ q \in XsPayloads /\ (q.L <=> last)
  /\ q.unit = count /\ q.off = call.off /\ q.len = size /\ q.of = call.len
  /\ Index(q.sep, q.p) = call.i
  /\ call.i = 0 => call.off = 0
  /\ last => call.off + size = call.len
  /\ ~ last => call.i + 1 < Capacity(pack_mode)

LEMMA TurnOfLoop ==
  ASSUME XsIInv, NEW ret \in {0, -1}, SendChunk(ret)
  PROVE  \E size, q, last :
           /\ Turn(size, q, last)
           /\ PacketOf(call.ts, Marker(last), q) \in XsPackets
           /\ Emit(Marker(last), q, ret) /\ Advance(size, last, ret)
           /\ UNCHANGED <<pack_mode, count>>
<1> DEFINE remaining == call.len - call.off
           size == IF remaining < chunk_budget THEN remaining ELSE chunk_budget
           last == call.i = total_chunks - 1
           q == JpegXsPayload(last, size)
<1>0. XsTypeOK /\ pack_mode \in Modes /\ call.stage = "send" /\ count \in Nat
  BY DEF XsIInv, XsTypeOK, SendChunk
<1>1. /\ call \in Sends
      /\ call.i \in 0 .. ChunkCount(call.len) - 1
      /\ call.off = call.i * chunk_budget
      /\ Index(call.sep, call.p) = call.i
  BY <1>0 DEF XsIInv, CallOK
<1>2. /\ Emit(Marker(last), q, ret)
      /\ Advance(size, last, ret)
      /\ UNCHANGED <<pack_mode, count>>
  BY DEF SendChunk
<1>3. call.len \in Lens /\ call.len \in Nat /\ call.end \in BOOLEAN /\ call.ts \in Timestamps
      /\ call.sep \in 0 .. PMod - 1 /\ call.p \in 0 .. PMod - 1 /\ call.i \in Nat
  BY <1>0, <1>1, CapacityType DEF Sends
<1>4. last <=> call.i = ChunkCount(call.len) - 1
  BY DEF total_chunks, ChunkCount
<1>5. /\ call.off \in Nat /\ size \in Nat
      /\ last <=> call.off + size = call.len
      /\ ~ last => call.i + 1 < Capacity(pack_mode)
  BY <1>0, <1>1, <1>3, <1>4, Chunk
<1> HIDE DEF size, last
<1>6. last \in BOOLEAN
  BY DEF last
<1>7. q \in XsPayloads
  BY <1>0, <1>3, <1>5, <1>6 DEF JpegXsPayload, XsPayloads, XsTypeOK
<1>8. /\ q.L = last /\ q.unit = count /\ q.off = call.off /\ q.len = size /\ q.of = call.len
      /\ q.sep = call.sep /\ q.p = call.p
  BY DEF JpegXsPayload
<1> HIDE DEF q
<1>9. call.i = 0 => call.off = 0
  BY <1>1, Budget
<1>10. Turn(size, q, last)
  BY <1>1, <1>5, <1>7, <1>8, <1>9 DEF Turn
<1>11. PacketOf(call.ts, Marker(last), q) \in XsPackets
  <2>1. compute_timestamp(call.ts) \in 0 .. U32 - 1
    BY <1>0, <1>3, TimestampType DEF XsTypeOK
  <2>2. Marker(last) \in BOOLEAN
    BY <1>3, <1>6 DEF Marker
  <2> QED
    BY <1>0, <1>3, <1>7, <2>1, <2>2 DEF PacketOf, XsPackets, XsTypeOK
<1> QED
  BY <1>2, <1>10, <1>11

(* What the receiver makes of it: the beginning of the unit as far as the  *)
(* loop has come, unless something before it is missing.                   *)
Reaching(e, q) ==
  /\ PartOf(e)
  /\ e[1].unit = count /\ e[1].of = call.len
  /\ EndOf(e) = q.off + q.len /\ e[Len(e)] = q

LEMMA ExtendedPart ==
  ASSUME UnitsIInv, call.stage = "send", NEW size, NEW q, NEW last, Turn(size, q, last),
         NEW pkt, pkt.payload = q, pkt.seq = seq_num
  PROVE  /\ Extended(pkt) \in Seq(XsPayloads)
         /\ Extended(pkt) # << >> => Reaching(Extended(pkt), q)
<1>0. /\ XsTypeOK /\ RxTypeOK /\ Counted /\ HeldOK /\ Joins /\ pack_mode \in Modes
      /\ rx.frags \in Seq(XsPayloads)
  BY DEF UnitsIInv, XsIInv, XsTypeOK, RxTypeOK
<1>1. /\ q \in XsPayloads /\ q.unit = count /\ q.off = call.off /\ q.of = call.len
      /\ Index(q.sep, q.p) = call.i /\ (call.i = 0 => call.off = 0)
  BY DEF Turn
<1>2. CASE Continues(pkt)
  <2> DEFINE prev == rx.frags[Len(rx.frags)]
  <2>1. /\ rx.frags # << >> /\ seq_num = rx.next
        /\ <<q.sep, q.p>> = Successor(pack_mode, prev.sep, prev.p)
    BY <1>2 DEF Continues
  <2>2. PartOf(rx.frags) /\ Index(prev.sep, prev.p) + 1 < Capacity(pack_mode)
    BY <1>0, <2>1 DEF HeldOK
  <2>3. prev.sep \in 0 .. PMod - 1 /\ prev.p \in 0 .. PMod - 1
    <3>1. Len(rx.frags) \in Nat /\ Len(rx.frags) # 0
      BY <1>0, <2>1, EmptySeq
    <3>2. prev \in XsPayloads
      BY <1>0, <3>1
    <3> QED
      BY <3>2 DEF XsPayloads
  <2> HIDE DEF prev
  <2>4. call.i # 0
    BY <1>0, <1>1, <2>1, <2>2, <2>3, SuccessorIndex
  <2>5. rx.gap = 0
    BY <1>0, <2>1, NextInSequence
  <2>6. rx.frags[1].unit = count /\ EndOf(rx.frags) = call.off /\ rx.frags[1].of = call.len
    BY <1>0, <2>1, <2>4, <2>5 DEF Joins
  <2> DEFINE a == Append(rx.frags, q)
  <2>7. /\ PartOf(a) /\ a[1] = rx.frags[1] /\ EndOf(a) = q.off + q.len /\ a[Len(a)] = q
        /\ a \in Seq(XsPayloads)
    BY <1>0, <1>1, <2>2, <2>6, PartAppend
  <2>8. Extended(pkt) = a
    BY <1>2 DEF Extended
  <2> HIDE DEF a
  <2> QED
    BY <2>6, <2>7, <2>8 DEF Reaching
<1>3. CASE ~ Continues(pkt) /\ Starts(q)
  <2>1. Extended(pkt) = <<q>>
    BY <1>3 DEF Extended
  <2>2. q.sep \in 0 .. PMod - 1 /\ q.p \in 0 .. PMod - 1
    BY <1>1 DEF XsPayloads
  <2>3. q.off = 0
    BY <1>0, <1>1, <1>3, <2>2, FirstCounters
  <2> QED
    BY <1>1, <2>1, <2>3, PartSingle DEF Reaching
<1>4. CASE ~ Continues(pkt) /\ ~ Starts(q)
  BY <1>4 DEF Extended
<1> QED
  BY <1>2, <1>3, <1>4

(* One packet, refused, lost or received, and the receiver after it. *)
Outcome(q, ret) ==
  \/ ret = -1 /\ rx' = rx
  \/ rx'.frags = rx.frags /\ rx'.done = rx.done /\ rx'.gap # 0
  \/ \E e \in Seq(XsPayloads) :
       /\ e # << >> => Reaching(e, q)
       /\ rx'.frags = IF e # << >> /\ q.L THEN << >> ELSE e
       /\ rx'.done = IF e # << >> /\ q.L THEN Append(rx.done, e) ELSE rx.done

LEMMA EmitReceives ==
  ASSUME UnitsIInv, call.stage = "send", NEW ret \in {0, -1}, NEW marker,
         NEW size, NEW q, NEW last, Turn(size, q, last),
         PacketOf(call.ts, marker, q) \in XsPackets, Emit(marker, q, ret)
  PROVE  RxTypeOK' /\ Counted' /\ Outcome(q, ret)
<1> DEFINE pkt == PacketOf(call.ts, marker, q)
<1>0. pkt.payload = q /\ pkt.seq = seq_num /\ pkt \in XsPackets
  BY DEF PacketOf
<1>1. XsTypeOK /\ RxTypeOK /\ Counted /\ seq_num \in 0 .. U16 - 1 /\ count \in Nat
  BY DEF UnitsIInv, XsIInv, XsTypeOK
<1>2. q.unit = count
  BY DEF Turn
<1>3. CASE ret = -1
  <2>1. rx' = rx /\ seq_num' = seq_num
    BY <1>3 DEF Emit, SendPacket, Account, counters
  <2> QED
    BY <1>1, <1>3, <2>1 DEF RxTypeOK, Counted, Outcome
<1>4. CASE ret = 0
  <2>1. seq_num' = (seq_num + 1) % U16
    BY <1>4 DEF Emit, SendPacket, Account
  <2>2. rx' = Receive(pkt) \/ (rx.gap < U16 - 1 /\ rx' = Lose(pkt))
    BY <1>4 DEF Emit
  <2> HIDE DEF pkt
  <2>3. CASE rx.gap < U16 - 1 /\ rx' = Lose(pkt)
    <3> DEFINE g == rx.gap + 1
               h == rx.hurt \cup {count}
    <3>1. g \in 0 .. U16 - 1 /\ g # 0 /\ h \in SUBSET Nat
      BY <1>1, <2>3, WidthAssumption DEF RxTypeOK
    <3>2. rx' = [rx EXCEPT !.gap = g, !.hurt = h]
      BY <1>0, <1>1, <1>2, <2>3 DEF Lose, RxTypeOK
    <3>3. rx'.gap = rx.gap + 1 /\ rx'.next = rx.next /\ rx'.frags = rx.frags /\ rx'.done = rx.done
      BY <1>1, <3>2 DEF RxTypeOK
    <3> HIDE DEF g, h
    <3>4. RxTypeOK'
      BY <1>1, <3>1, <3>2 DEF RxTypeOK
    <3>5. ASSUME rx.next # -1 PROVE seq_num' = (rx'.next + rx'.gap) % U16
      <4> DEFINE n == rx.next + rx.gap
      <4>1. n \in Nat /\ seq_num = n % U16
        BY <1>1, <3>5 DEF Counted, RxTypeOK
      <4>2. rx'.next + rx'.gap = n + 1
        BY <1>1, <3>3 DEF RxTypeOK
      <4> HIDE DEF n
      <4>3. ((n % U16) + 1) % U16 = (n + 1) % U16
        BY <4>1, WidthAssumption, WrapIncrement
      <4> QED
        BY <2>1, <4>1, <4>2, <4>3
    <3>6. Counted'
      BY <1>1, <3>3, <3>5 DEF Counted
    <3>7. rx'.gap # 0
      BY <3>1, <3>3 DEF g
    <3> QED
      BY <3>3, <3>4, <3>6, <3>7 DEF Outcome
  <2>4. CASE rx' = Receive(pkt)
    <3> DEFINE e == Extended(pkt)
    <3>1. /\ e # << >> => Reaching(e, q)
          /\ e \in Seq(XsPayloads)
      BY <1>0, ExtendedPart
    <3>2. /\ rx'.next = (seq_num + 1) % U16 /\ rx'.gap = 0
          /\ rx'.frags = IF e # << >> /\ q.L THEN << >> ELSE e
          /\ rx'.done = IF e # << >> /\ q.L THEN Append(rx.done, e) ELSE rx.done
      BY <1>0, <1>1, <2>4, ReceiveFields DEF Completes
    <3>3. RxTypeOK'
      BY <1>0, <1>1, <2>4, <3>1, ReceiveType DEF RxTypeOK
    <3>4. Counted'
      <4> DEFINE m == seq_num + 1
                 x == m % U16
      <4>1. m \in Nat
        BY <1>1
      <4> HIDE DEF m
      <4>2. x \in 0 .. U16 - 1
        BY <4>1, WidthAssumption, DivMod
      <4>3. rx'.next = x /\ seq_num' = x /\ rx'.gap = 0
        BY <2>1, <3>2 DEF m
      <4> HIDE DEF x
      <4>4. x \in Nat /\ (x + 0) % U16 = x
        BY <4>2, WidthAssumption
      <4> QED
        BY <4>3, <4>4 DEF Counted
    <3> HIDE DEF e
    <3> QED
      BY <3>1, <3>2, <3>3, <3>4 DEF Outcome
  <2> QED
    BY <2>2, <2>3, <2>4
<1> QED
  BY <1>3, <1>4

LEMMA UnitsInit == XsInit => UnitsIInv
<1> SUFFICES ASSUME XsInit PROVE UnitsIInv
  OBVIOUS
<1>1. rx = RxInit /\ call.stage = "idle" /\ Len(<< >>) = 0
  BY DEF XsInit, Idle
<1>2. RxTypeOK
  <2>1. 0 \in 0 .. U16 - 1 /\ -1 \in -1 .. U16 - 1 /\ -1 \in -1 .. U32 - 1
    BY WidthAssumption
  <2>2. << >> \in Seq(XsPayloads) /\ << >> \in Seq(Seq(XsPayloads)) /\ {} \in SUBSET Nat
    OBVIOUS
  <2> QED
    BY <1>1, <2>1, <2>2 DEF RxTypeOK, RxInit
<1>3. Counted /\ HeldOK /\ Joins /\ UnitsDeliveredWhole
  BY <1>1 DEF Counted, HeldOK, Joins, UnitsDeliveredWhole, RxInit
<1> QED
  BY <1>2, <1>3, XsInvInit DEF UnitsIInv

LEMMA ReceiverTurns ==
  ASSUME UnitsIInv, NEW ret \in {0, -1}, SendChunk(ret)
  PROVE  UnitsIInv'
<1>0. /\ XsIInv /\ RxTypeOK /\ Counted /\ HeldOK /\ Joins /\ UnitsDeliveredWhole
      /\ call.stage = "send"
  BY DEF UnitsIInv, SendChunk
<1>1. PICK size, q, last :
        /\ Turn(size, q, last)
        /\ PacketOf(call.ts, Marker(last), q) \in XsPackets
        /\ Emit(Marker(last), q, ret) /\ Advance(size, last, ret)
        /\ UNCHANGED <<pack_mode, count>>
  BY <1>0, TurnOfLoop
<1>2. RxTypeOK' /\ Counted' /\ Outcome(q, ret)
  BY <1>0, <1>1, EmitReceives
<1>3. XsIInv'
  BY <1>0, SendChunkKeeps
<1>4. /\ q.off = call.off /\ q.len = size /\ (q.L <=> last)
      /\ q.L => q.off + q.len = call.len
      /\ ~ q.L => Index(q.sep, q.p) + 1 < Capacity(pack_mode)
  BY <1>1 DEF Turn
<1>5. HeldOK'
  <2> SUFFICES ASSUME rx'.frags # << >>
               PROVE  /\ PartOf(rx'.frags)
                      /\ Index(rx'.frags[Len(rx'.frags)].sep, rx'.frags[Len(rx'.frags)].p) + 1
                           < Capacity(pack_mode)
    BY <1>1 DEF HeldOK, PartOf, Index, Capacity
  <2>1. CASE rx'.frags = rx.frags
    BY <1>0, <2>1 DEF HeldOK
  <2>2. ASSUME NEW e \in Seq(XsPayloads), e # << >> => Reaching(e, q),
               rx'.frags = IF e # << >> /\ q.L THEN << >> ELSE e
        PROVE  /\ PartOf(rx'.frags)
               /\ Index(rx'.frags[Len(rx'.frags)].sep, rx'.frags[Len(rx'.frags)].p) + 1
                    < Capacity(pack_mode)
    <3>1. ~ q.L /\ rx'.frags = e /\ Reaching(e, q)
      BY <2>2
    <3> QED
      BY <1>4, <3>1 DEF Reaching
  <2> QED
    BY <1>2, <2>1, <2>2 DEF Outcome
<1>6. Joins'
  <2> SUFFICES ASSUME rx'.frags # << >>, rx'.gap = 0, call'.stage = "send"
               PROVE  /\ rx'.frags[1].unit = count /\ EndOf(rx'.frags) = call'.off
                      /\ rx'.frags[1].of = call'.len
    BY <1>1 DEF Joins, EndOf
  <2>1. ret # -1 /\ ~ last
    BY <1>1 DEF Advance
  <2>2. call \in Sends
    BY <1>0 DEF XsIInv, CallOK
  <2>3. call'.off = call.off + size /\ call'.len = call.len
    <3> DEFINE c == NextCounters(call.sep, call.p)
    <3>1. call' = [call EXCEPT !.i = call.i + 1, !.off = call.off + size, !.sep = c[1], !.p = c[2]]
      BY <1>1, <2>1 DEF Advance
    <3> HIDE DEF c
    <3> QED
      BY <2>2, <3>1 DEF Sends
  <2>4. PICK e \in Seq(XsPayloads) :
          /\ e # << >> => Reaching(e, q)
          /\ rx'.frags = IF e # << >> /\ q.L THEN << >> ELSE e
    BY <1>2, <2>1 DEF Outcome
  <2>5. rx'.frags = e /\ Reaching(e, q)
    BY <2>4
  <2> QED
    BY <1>4, <2>3, <2>5 DEF Reaching
<1>7. UnitsDeliveredWhole'
  <2> SUFFICES ASSUME NEW i \in 1 .. Len(rx'.done) PROVE Whole(rx'.done[i])
    BY DEF UnitsDeliveredWhole, Whole
  <2>1. CASE rx'.done = rx.done
    BY <1>0, <2>1 DEF UnitsDeliveredWhole, Whole
  <2>2. ASSUME NEW e \in Seq(XsPayloads), Reaching(e, q), q.L, rx'.done = Append(rx.done, e)
        PROVE  Whole(rx'.done[i])
    <3>1. Whole(e)
      BY <1>4, <2>2, WholePart DEF Reaching
    <3>2. /\ Len(rx.done) \in Nat /\ Len(rx'.done) = Len(rx.done) + 1
          /\ \A k \in 1 .. Len(rx.done) : rx'.done[k] = rx.done[k]
          /\ rx'.done[Len(rx.done) + 1] = e
      <4>1. rx.done \in Seq(Seq(XsPayloads))
        BY <1>0 DEF RxTypeOK
      <4> QED
        BY <2>2, <4>1, AppendProperties
    <3>3. CASE i \in 1 .. Len(rx.done)
      <4>1. Whole(rx.done[i])
        BY <1>0, <3>3 DEF UnitsDeliveredWhole, Whole
      <4>2. rx'.done[i] = rx.done[i]
        BY <3>2, <3>3
      <4> QED
        BY <4>1, <4>2
    <3>4. CASE i = Len(rx.done) + 1
      BY <3>1, <3>2, <3>4
    <3> QED
      BY <3>2, <3>3, <3>4
  <2> QED
    BY <1>2, <2>1, <2>2 DEF Outcome
<1> QED
  BY <1>2, <1>3, <1>5, <1>6, <1>7 DEF UnitsIInv

LEMMA UnitsStep == UnitsIInv /\ [XsNext]_xsVars => UnitsIInv'
<1> SUFFICES ASSUME UnitsIInv, [XsNext]_xsVars PROVE UnitsIInv'
  OBVIOUS
<1>0. XsIInv /\ RxTypeOK /\ Counted /\ HeldOK /\ Joins /\ UnitsDeliveredWhole
  BY DEF UnitsIInv
<1>1. XsIInv'
  BY <1>0, XsInvStep
<1>2. ASSUME UNCHANGED <<seq_num, pack_mode, rx>>,
             Joins'
      PROVE  UnitsIInv'
  BY <1>0, <1>1, <1>2
     DEF UnitsIInv, RxTypeOK, Counted, HeldOK, UnitsDeliveredWhole, PartOf, Index, Capacity
<1>3. ASSUME NEW ts, NEW sep, NEW end, NEW len, send_unit(ts, sep, end, len)
      PROVE  UnitsIInv'
  <2>1. UNCHANGED <<seq_num, pack_mode, rx>> /\ call'.i = 0
    BY <1>3 DEF send_unit, rtpVars
  <2> QED
    BY <1>2, <2>1 DEF Joins
<1>4. ASSUME NEW ret \in {0, -1}, SendChunk(ret) PROVE UnitsIInv'
  BY <1>4, ReceiverTurns
<1>5. CASE Return
  <2>1. UNCHANGED <<seq_num, pack_mode, rx>> /\ call'.stage = "idle"
    BY <1>5 DEF Return, rtpVars, Idle
  <2> QED
    BY <1>2, <2>1 DEF Joins
<1>6. CASE UNCHANGED xsVars
  <2>1. UNCHANGED <<seq_num, pack_mode, rx, call, count>>
    BY <1>6 DEF xsVars, rtpVars
  <2> QED
    BY <1>0, <1>2, <2>1 DEF Joins, EndOf
<1> QED
  BY <1>3, <1>4, <1>5, <1>6 DEF XsNext, send_codestream, send_header_segment, send_slice

(* F, SEP, P and L alone tell a receiver which packets are a unit, however *)
(* many units failed in the middle or lost packets, for every unit the     *)
(* counters can number (jpegxs_transport.c:99-182). A unit abandoned by    *)
(* the sender or broken by the network is never finished by the next one:  *)
(* what is held has a successor within the capacity (HeldOK), and the      *)
(* counters of a first packet are nobody's successor (SuccessorIndex).     *)
THEOREM XsUnitsAreDeliveredWhole == XsSpec => []UnitsDeliveredWhole
<1>1. UnitsIInv => UnitsDeliveredWhole
  BY DEF UnitsIInv
<1> QED
  BY <1>1, UnitsInit, UnitsStep, PTL DEF XsSpec
=============================================================================
