---------------------------- MODULE JpegTransport ----------------------------
(***************************************************************************)
(* The Motion-JPEG packetizer of src/jpeg_transport.c over RtpTransport,   *)
(* one RTP packet per step. Every packet has a main header, packets of     *)
(* some types a restart header, the first packet of some frames the        *)
(* quantization tables; a receiver (RFC 2435, outside the repository) has  *)
(* only the fields of the main header to tell where the scan data begins.  *)
(***************************************************************************)
EXTENDS RtpTransport

CONSTANTS
  MaxPacketSize,  (* SmolRTSP_JpegTransportConfig                            *)
  OffsetMod,      (* values of the fragment offset: 2^24                     *)
  Frames,         (* frames a caller sends: type, q, the lengths of both     *)
                  (* tables (qt0, qt1) and of the scan data (len)            *)
  MaxFrames       (* bound of the model: frames sent                         *)

MAIN_HEADER_SIZE == 8
QT_HEADER_SIZE == 4
RESTART_HEADER_SIZE == 4
TYPE_RESTART == 64
Q_DYNAMIC == 128

qt_block_size(frame) ==
  IF frame.qt0 = 0 /\ frame.qt1 = 0 THEN 0 ELSE QT_HEADER_SIZE + frame.qt0 + frame.qt1

has_restart(frame) == frame.type \in TYPE_RESTART .. 127
restart_hdr_size(frame) == IF has_restart(frame) THEN RESTART_HEADER_SIZE ELSE 0
cont_hdr_size(frame) == MAIN_HEADER_SIZE + restart_hdr_size(frame)
first_hdr_size(frame) == cont_hdr_size(frame) + qt_block_size(frame)

(* The preconditions the code asserts, and the caller's duty to pass       *)
(* tables exactly when Q announces them (jpeg_transport.h:57-60).          *)
ASSUME JpegAssumption ==
  /\ MaxPacketSize \in Nat /\ OffsetMod \in Nat \ {0}
  /\ \A frame \in Frames :
       /\ frame.type \in 0 .. 255 /\ frame.q \in 0 .. 255
       /\ frame.qt0 \in Nat /\ frame.qt1 \in Nat
       /\ frame.len \in 0 .. OffsetMod - 1
       /\ MaxPacketSize > first_hdr_size(frame)
       /\ qt_block_size(frame) > 0 <=> frame.q >= Q_DYNAMIC

VARIABLES
  call,   \* the call of send_frame in progress
  count,  \* how many there were: numbers the frames
  rx      \* the receiver and what the network did

jpegVars == <<rtpVars, call, count, rx>>

Idle == [stage |-> "idle"]

-----------------------------------------------------------------------------
(***************************************************************************)
(* The receiver: rx.frags the fragments of the frame it is assembling, by  *)
(* the octets [from, to) of the scan data it took them for.                *)
(***************************************************************************)
RxInit == [next |-> -1, frags |-> << >>, done |-> << >>, gap |-> 0, hurt |-> {}]

HeaderByFields(p) ==
  MAIN_HEADER_SIZE
    + (IF p.type \in TYPE_RESTART .. 127 THEN RESTART_HEADER_SIZE ELSE 0)
    + (IF p.offset = 0 /\ p.q >= Q_DYNAMIC THEN QT_HEADER_SIZE + p.tables ELSE 0)

Receive(pkt) ==
  LET p == pkt.payload
      frag == [frame |-> p.frame, ts |-> pkt.ts, from |-> p.at + HeaderByFields(p) - p.hdr,
               to |-> p.at + p.len, tables |-> p.tables]
      prev == rx.frags[Len(rx.frags)]
      frags == IF p.offset = 0 THEN <<frag>>
               ELSE IF /\ pkt.seq = rx.next /\ rx.frags # << >>
                       /\ prev.ts = pkt.ts /\ prev.to = p.offset
                    THEN Append(rx.frags, frag)
               ELSE << >>
      complete == frags # << >> /\ pkt.marker
  IN  [rx EXCEPT !.next = (pkt.seq + 1) % U16,
                 !.gap = 0,
                 !.frags = IF complete THEN << >> ELSE frags,
                 !.done = IF complete THEN Append(@, frags) ELSE @]

Lose(pkt) == [rx EXCEPT !.gap = @ + 1, !.hurt = @ \cup {pkt.payload.frame}]

(* One RTP packet, refused, delivered or lost, as in NalTransport. *)
Emit(marker, payload, ret) ==
  LET pkt == PacketOf(call.ts, marker, payload)
  IN  /\ SendPacket(call.ts, marker, payload, ret)
      /\ IF ret = -1 THEN rx' = rx
         ELSE \/ rx' = Receive(pkt)
              \/ rx.gap < U16 - 1 /\ rx' = Lose(pkt)

-----------------------------------------------------------------------------

JpegInit == Init /\ call = Idle /\ count = 0 /\ rx = RxInit

(* The caller enters send_frame. *)
Call(ts, frame) ==
  /\ call = Idle
  /\ count < MaxFrames
  /\ count' = count + 1
  /\ call' = [stage |-> "send", ts |-> ts, frame |-> frame, offset |-> 0, first |-> TRUE]
  /\ UNCHANGED <<rtpVars, rx>>

(* Mutant: continuation packets get the room of the first. *)
budget_cont(frame, first) == MaxPacketSize - cont_hdr_size(frame)

budget(frame, first) ==
  MaxPacketSize - (IF first THEN first_hdr_size(frame) ELSE cont_hdr_size(frame))

(* Mutant: the tables on every packet. *)
Payload_tables(frame, first, offset, chunk) ==
  [type |-> frame.type, q |-> frame.q, offset |-> offset % OffsetMod,
   tables |-> frame.qt0 + frame.qt1,
   hdr |-> MAIN_HEADER_SIZE + restart_hdr_size(frame) + qt_block_size(frame),
   len |-> chunk, at |-> offset, frame |-> count, of |-> frame]

(* The headers of one packet, as the fields a receiver reads and their     *)
(* size, and, for comparisons only, the scan data behind them.             *)
Payload(frame, first, offset, chunk) ==
  [type |-> frame.type, q |-> frame.q, offset |-> offset % OffsetMod,
   tables |-> IF first THEN frame.qt0 + frame.qt1 ELSE 0,
   hdr |-> MAIN_HEADER_SIZE + restart_hdr_size(frame)
             + (IF first THEN qt_block_size(frame) ELSE 0),
   len |-> chunk, at |-> offset, frame |-> count, of |-> frame]

(* Mutant: the last octet is left behind. *)
Advance_short(chunk, ret) ==
  call' = IF ret = -1 \/ call.offset + chunk >= call.frame.len - 1
          THEN [stage |-> "return", frame |-> call.frame, ret |-> ret]
          ELSE [call EXCEPT !.offset = @ + chunk, !.first = FALSE]

Advance(chunk, ret) ==
  call' = IF ret = -1 \/ call.offset + chunk >= call.frame.len
          THEN [stage |-> "return", frame |-> call.frame, ret |-> ret]
          ELSE [call EXCEPT !.offset = @ + chunk, !.first = FALSE]

(* One turn of the do-while loop of send_frame: the marker is on the       *)
(* packet that reaches the end of the scan data.                           *)
SendChunk(ret) ==
  /\ call.stage = "send"
  /\ LET remaining == call.frame.len - call.offset
         room == budget(call.frame, call.first)
         chunk == IF remaining < room THEN remaining ELSE room
     IN  /\ Emit(call.offset + chunk = call.frame.len,
                 Payload(call.frame, call.first, call.offset, chunk), ret)
         /\ Advance(chunk, ret)
  /\ UNCHANGED count

Return ==
  /\ call.stage = "return"
  /\ call' = Idle
  /\ UNCHANGED <<rtpVars, count, rx>>

JpegNext ==
  \/ \E ts \in Timestamps, frame \in Frames : Call(ts, frame)
  \/ \E ret \in {0, -1} : SendChunk(ret)
  \/ Return

JpegSpec == JpegInit /\ [][JpegNext]_jpegVars

-----------------------------------------------------------------------------

(* A packet never exceeds the configured size, whichever headers it        *)
(* carries; every packet but that of an empty frame carries scan data, so  *)
(* only the first of a frame has offset 0 and with it the tables.          *)
PacketsFit ==
  \A i \in 1 .. Len(wire) :
    LET p == wire[i].payload
    IN  /\ p.hdr + p.len <= MaxPacketSize
        /\ p.len > 0 \/ p.of.len = 0
        /\ p.offset = p.at
        /\ p.tables > 0 => p.offset = 0

(* Every frame the receiver finishes is one frame of the caller's: all of  *)
(* its scan data, nothing of its headers and nothing of the rest of a      *)
(* failed or damaged frame, and its tables.                                *)
FramesReassemble ==
  \A i \in 1 .. Len(rx.done) :
    LET f == rx.done[i]
        sent == {wire[k].payload.of : k \in {j \in 1 .. Len(wire) : wire[j].payload.frame = f[1].frame}}
    IN  /\ f[1].from = 0
        /\ \A k \in 1 .. Len(f) - 1 : f[k + 1].frame = f[1].frame /\ f[k + 1].from = f[k].to
        /\ \A frame \in sent : /\ f[Len(f)].to = frame.len
                               /\ f[1].tables = frame.qt0 + frame.qt1

(* A call that answered 0, none of whose packets the network lost, has     *)
(* delivered its frame by the time it returns, an empty one included       *)
(* (jpeg_transport.h:84-85).                                               *)
SuccessMeansDelivered ==
  (call.stage = "return" /\ call.ret = 0 /\ count \notin rx.hurt)
    => rx.done # << >> /\ rx.done[Len(rx.done)][1].frame = count
=============================================================================
