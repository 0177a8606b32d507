---------------------------- MODULE NalTransport ----------------------------
(***************************************************************************)
(* The NAL packetizer of src/nal_transport.c over RtpTransport, one RTP    *)
(* packet per step: a unit that fits goes out as it is, a larger one is    *)
(* cut into FU packets, and the first failing packet ends the call. The    *)
(* network may lose packets the transport took; a receiver outside the     *)
(* repository (RFC 6184 5.8, RFC 7798 4.4.3) puts the units back together. *)
(*                                                                         *)
(* Bytes are positions: a payload says which unit it carries, from which   *)
(* offset (off) and how many bytes (len).                                  *)
(***************************************************************************)
EXTENDS RtpTransport, WireHeaders

CONSTANTS
  Codecs,         (* the variants compiled in                               *)
  MaxNaluSize,    (* SmolRTSP_NalTransportConfig, per codec                 *)
  PayloadLens,    (* payload lengths of the units a caller sends            *)
  Headers,        (* NAL unit headers of the units a caller sends, per codec *)
  MaxNals         (* bound of the model: units sent                         *)

HdrSize == [H264 |-> 1, H265 |-> 2, H266 |-> 2]
FuSize == [H264 |-> 2, H265 |-> 3, H266 |-> 3]

ASSUME NalAssumption ==
  /\ Codecs \subseteq {"H264", "H265", "H266"}
  /\ MaxNaluSize \in [Codecs -> Nat]
  /\ \A c \in Codecs : MaxNaluSize[c] > FuSize[c]   \* asserted by the code
  /\ PayloadLens \subseteq Nat
  /\ \A c \in Codecs : Headers[c] \subseteq HeaderOctets(c)
  /\ MaxNals \in Nat

VARIABLES
  call,   \* the call of send_packet in progress
  count,  \* how many there were: numbers the units
  rx      \* the receiver and what the network did

nalVars == <<rtpVars, call, count, rx>>

Nals == [id : 1 .. MaxNals, codec : Codecs, len : PayloadLens, au_end : BOOLEAN]

Idle == [stage |-> "idle"]

nalu_size(nal) == HdrSize[nal.codec] + nal.len
Fits(nal) == nalu_size(nal) <= MaxNaluSize[nal.codec]

(* Mutant: chunks that leave no room for the FU header. *)
chunk_size_full(nal) == MaxNaluSize[nal.codec]

chunk_size(nal) == MaxNaluSize[nal.codec] - FuSize[nal.codec]
rem(nal) == nal.len % chunk_size(nal)
packets_count(nal) == (nal.len - rem(nal)) \div chunk_size(nal)

-----------------------------------------------------------------------------

(* What the packets of a unit carry behind their RTP header. *)
SinglePayload(nal) ==
  [kind |-> "single", hdr |-> HdrSize[nal.codec], len |-> nal.len, nal |-> nal,
   off |-> 0, S |-> FALSE, E |-> FALSE]

FuPayload(nal, off, len, first, last) ==
  [kind |-> "fu", hdr |-> FuSize[nal.codec], len |-> len, nal |-> nal,
   off |-> off, S |-> first, E |-> last]

(***************************************************************************)
(* The receiver. rx.next is the sequence number it expects (-1 before the  *)
(* first packet), rx.frags the fragments of the unit it is assembling,     *)
(* rx.done the units it finished, each as its list of payloads. Ghosts:    *)
(* rx.gap counts the packets lost since the last one that arrived, rx.hurt *)
(* the units that lost a packet.                                           *)
(***************************************************************************)
RxInit == [next |-> -1, frags |-> << >>, done |-> << >>, gap |-> 0, hurt |-> {}]

Receive(pkt) ==
  LET p == pkt.payload
      frags == IF p.kind = "single" \/ p.S THEN <<p>>
               ELSE IF pkt.seq = rx.next /\ rx.frags # << >> THEN Append(rx.frags, p)
               ELSE << >>
      complete == frags # << >> /\ (p.kind = "single" \/ p.E)
  IN  [rx EXCEPT !.next = (pkt.seq + 1) % U16,
                 !.gap = 0,
                 !.frags = IF complete THEN << >> ELSE frags,
                 !.done = IF complete THEN Append(@, frags) ELSE @]

Lose(pkt) == [rx EXCEPT !.gap = @ + 1, !.hurt = @ \cup {pkt.payload.nal.id}]

(* One RTP packet: refused by the transport, or taken and then delivered   *)
(* or lost by the network. A receiver cannot tell 2^16 lost packets from   *)
(* none, so fewer than that are lost in a row.                             *)
Emit(marker, payload, ret) ==
  LET pkt == PacketOf(call.ts, marker, payload)
  IN  /\ SendPacket(call.ts, marker, payload, ret)
      /\ IF ret = -1 THEN rx' = rx
         ELSE \/ rx' = Receive(pkt)
              \/ rx.gap < U16 - 1 /\ rx' = Lose(pkt)

-----------------------------------------------------------------------------

NalInit == Init /\ call = Idle /\ count = 0 /\ rx = RxInit

(* The caller enters send_packet. *)
Call(ts, codec, len, au_end) ==
  /\ call = Idle
  /\ count < MaxNals
  /\ count' = count + 1
  /\ LET nal == [id |-> count + 1, codec |-> codec, len |-> len, au_end |-> au_end]
     IN  call' = [stage |-> IF Fits(nal) THEN "single" ELSE "fu",
                  nal |-> nal, ts |-> ts, idx |-> 0]
  /\ UNCHANGED <<rtpVars, rx>>

Answering(ret) == call' = [stage |-> "return", nal |-> call.nal, ret |-> ret]

(* The unit goes out in one packet, with the marker the caller asked for. *)
SendSingle(ret) ==
  /\ call.stage = "single"
  /\ Emit(call.nal.au_end, SinglePayload(call.nal), ret)
  /\ Answering(ret)
  /\ UNCHANGED count

(* Mutant: the caller's flag on every fragment. *)
SendFu_marked(off, len, first, last, ret) ==
  Emit(call.nal.au_end, FuPayload(call.nal, off, len, first, last), ret)

SendFu(off, len, first, last, ret) ==
  Emit(last /\ call.nal.au_end, FuPayload(call.nal, off, len, first, last), ret)

(* Mutant: a failed fragment is skipped. *)
SendChunk_unchecked(ret) ==
  LET nal == call.nal
      off == call.idx * chunk_size(nal)
      last == rem(nal) = 0 /\ packets_count(nal) - 1 = call.idx
  IN  /\ call.stage = "fu"
      /\ call.idx < packets_count(nal)
      /\ SendFu(off, chunk_size(nal), call.idx = 0, last, ret)
      /\ call' = [call EXCEPT !.idx = @ + 1]
      /\ UNCHANGED count

(* One turn of the loop over full chunks. *)
SendChunk(ret) ==
  LET nal == call.nal
      off == call.idx * chunk_size(nal)
      last == rem(nal) = 0 /\ packets_count(nal) - 1 = call.idx
      end == IF last THEN nal.len ELSE (call.idx + 1) * chunk_size(nal)
  IN  /\ call.stage = "fu"
      /\ call.idx < packets_count(nal)
      /\ SendFu(off, end - off, call.idx = 0, last, ret)
      /\ IF ret = -1 THEN Answering(-1)
         ELSE call' = [call EXCEPT !.idx = @ + 1]
      /\ UNCHANGED count

(* The loop is over and a shorter chunk is left. *)
SendRemainder(ret) ==
  LET nal == call.nal
      off == packets_count(nal) * chunk_size(nal)
  IN  /\ call.stage = "fu"
      /\ call.idx = packets_count(nal)
      /\ rem(nal) # 0
      /\ SendFu(off, nal.len - off, packets_count(nal) = 0, TRUE, ret)
      /\ Answering(ret)
      /\ UNCHANGED count

(* Mutants: the rest is forgotten; the answer is wrong; no way out. *)
FinishLoop_no_rest ==
  /\ call.stage = "fu"
  /\ call.idx = packets_count(call.nal)
  /\ Answering(0)
  /\ UNCHANGED <<rtpVars, count, rx>>

FinishLoop_fails ==
  /\ call.stage = "fu"
  /\ call.idx = packets_count(call.nal)
  /\ rem(call.nal) = 0
  /\ Answering(-1)
  /\ UNCHANGED <<rtpVars, count, rx>>

FinishLoop_stuck ==
  /\ call.stage = "fu"
  /\ call.idx = packets_count(call.nal)
  /\ rem(call.nal) # 0
  /\ Answering(0)
  /\ UNCHANGED <<rtpVars, count, rx>>

(* The loop is over and nothing is left. *)
FinishLoop ==
  /\ call.stage = "fu"
  /\ call.idx = packets_count(call.nal)
  /\ rem(call.nal) = 0
  /\ Answering(0)
  /\ UNCHANGED <<rtpVars, count, rx>>

Return ==
  /\ call.stage = "return"
  /\ call' = Idle
  /\ UNCHANGED <<rtpVars, count, rx>>

Step == \/ \E ret \in {0, -1} : SendSingle(ret) \/ SendChunk(ret) \/ SendRemainder(ret)
        \/ FinishLoop
        \/ Return

NalNext ==
  \/ \E ts \in Timestamps, codec \in Codecs, len \in PayloadLens, au_end \in BOOLEAN :
       Call(ts, codec, len, au_end)
  \/ Step

(* The thread inside send_packet keeps running; transmit always answers.   *)
NalSpec == NalInit /\ [][NalNext]_nalVars /\ WF_nalVars(Step)

-----------------------------------------------------------------------------

FuPayloads == [kind : {"single", "fu"}, hdr : Nat, len : Nat, nal : Nals, off : Nat,
               S : BOOLEAN, E : BOOLEAN]

NalPackets == [seq : 0 .. U16 - 1, ts : 0 .. U32 - 1, marker : BOOLEAN,
               at : Timestamps, payload : FuPayloads]

(* The variables stay in their types, and the loop index in its range. *)
NalTypeOK ==
  /\ seq_num \in 0 .. U16 - 1
  /\ clock_rate \in ClockRates
  /\ ts_base_us \in TsBases
  /\ wire \in Seq(NalPackets)
  /\ count \in 0 .. MaxNals
  /\ rx \in [next : -1 .. U16 - 1, frags : Seq(FuPayloads), done : Seq(Seq(FuPayloads)),
             gap : 0 .. U16 - 1, hurt : SUBSET (1 .. MaxNals)]
  /\ \/ call = Idle
     \/ /\ call.stage \in {"single", "fu"}
        /\ call.nal \in Nals
        /\ call.nal.id = count
        /\ call.ts \in Timestamps
        /\ call.idx \in 0 .. packets_count(call.nal)
        /\ Fits(call.nal) <=> call.stage = "single"
     \/ /\ call.stage = "return"
        /\ call.nal \in Nals
        /\ call.nal.id = count
        /\ call.ret \in {0, -1}

(* No packet exceeds the configured size, no fragment is empty, and no     *)
(* fragment is both first and last: a fragmented unit takes at least two   *)
(* packets (the comment at nal_transport.c:130-135).                       *)
FragmentsWellFormed ==
  \A i \in 1 .. Len(wire) :
    LET p == wire[i].payload
    IN  /\ p.hdr + p.len <= MaxNaluSize[p.nal.codec]
        /\ p.kind = "fu" => p.len > 0 /\ ~ (p.S /\ p.E)

(* The marker is on a packet exactly when it carries the last byte of a    *)
(* unit that ends its access unit (nal_transport.c:102-103 and 185-186),   *)
(* so a unit whose call failed half-way never ends a frame.                *)
MarkerEndsAccessUnit ==
  \A i \in 1 .. Len(wire) :
    LET p == wire[i].payload
    IN  wire[i].marker <=> p.nal.au_end /\ p.off + p.len = p.nal.len

(* A list of payloads is one whole unit: same unit, contiguous, all of it. *)
Whole(frags) ==
  /\ frags # << >>
  /\ frags[1].off = 0
  /\ \A i \in 1 .. Len(frags) - 1 :
       /\ frags[i + 1].nal = frags[1].nal
       /\ frags[i + 1].off = frags[i].off + frags[i].len
  /\ frags[Len(frags)].off + frags[Len(frags)].len = frags[1].nal.len

(* Every unit the receiver finishes is one the caller sent, whole, and     *)
(* never bytes of two units, though a failed send leaves an unfinished     *)
(* unit behind without a gap in the sequence numbers.                      *)
DeliveredWhole == \A i \in 1 .. Len(rx.done) : Whole(rx.done[i])

(* A call that answered 0, none of whose packets the network lost, has     *)
(* delivered its unit by the time it returns.                              *)
SuccessMeansDelivered ==
  (/\ call.stage = "return"
   /\ call.ret = 0
   /\ call.nal.id \notin rx.hurt)
    => rx.done # << >> /\ rx.done[Len(rx.done)][1].nal = call.nal

(* The receiver finds in every fragment of the unit it completed last the  *)
(* header of that unit, and the fragment's place in it (nal.c:87, 111).    *)
HeadersDelivered ==
  LET unit == rx.done[Len(rx.done)]
      codec == unit[1].nal.codec
  IN  rx.done # << >> /\ unit[1].kind = "fu" =>
        \A i \in DOMAIN unit, hdr \in Headers[codec] :
          HeaderRebuilds(codec, hdr, unit[i].S, unit[i].E)

Delivered == [i \in 1 .. Len(rx.done) |-> rx.done[i][1].nal]

Current ==
  CASE call.stage = "idle" -> [stage |-> "idle"]
    [] call.stage = "return" -> [stage |-> "answered", nal |-> call.nal, ret |-> call.ret]
    [] call.stage \in {"single", "fu"} ->
         [stage |-> "busy", nal |-> call.nal,
          reached |-> rx.done # << >> /\ Delivered[Len(rx.done)] = call.nal]

Promise == INSTANCE NalDelivery WITH current <- Current, delivered <- Delivered

(* The packetizer and the receiver together keep the promise of            *)
(* NalDelivery: each unit whole, once, in order, or not at all.            *)
ImplementsDelivery == Promise!NalSpec

(* A call of send_packet comes back. *)
CallReturns == call.stage # "idle" ~> call.stage = "idle"
=============================================================================
