--------------------------- MODULE JpegXsTransport ---------------------------
(***************************************************************************)
(* The JPEG XS packetizer of src/jpegxs_transport.c over RtpTransport, one *)
(* RTP packet per step. A packetization unit is a codestream, a header     *)
(* segment or a slice; the frame counter F lives in the transport, the SEP *)
(* and P counters in one call. Network and receiver (RFC 9134) are outside *)
(* the repository, as in NalTransport.                                     *)
(***************************************************************************)
EXTENDS RtpTransport
LOCAL INSTANCE SequencesExt

CONSTANTS
  MaxPacketSize,  (* SmolRTSP_JpegXsTransportConfig                          *)
  FMod,           (* values of the frame counter F: 2^5                      *)
  PMod,           (* values of the SEP and P counters: 2^11                  *)
  UnitLens,       (* per pack mode, lengths of the units a caller sends      *)
  SliceIndices,   (* slice indices a caller passes                           *)
  MaxUnits        (* bound of the model: units sent                          *)

PAYLOAD_HEADER_SIZE == 4
SEP_HEADER_SEGMENT == PMod - 1
Modes == {"codestream", "slice"}

chunk_budget == MaxPacketSize - PAYLOAD_HEADER_SIZE

(* A receiver orders the packets of a unit by their counters, so a unit    *)
(* has at most as many packets as these tell apart: 2^22 or 2^11.          *)
Capacity(mode) == IF mode = "codestream" THEN PMod * PMod ELSE PMod

ASSUME JpegXsAssumption ==
  /\ MaxPacketSize \in Nat /\ MaxPacketSize > PAYLOAD_HEADER_SIZE
  /\ FMod \in Nat \ {0, 1} /\ PMod \in Nat \ {0, 1}
  /\ \A mode \in Modes : UnitLens[mode] \subseteq 0 .. Capacity(mode) * chunk_budget
  /\ SliceIndices \subseteq 0 .. SEP_HEADER_SEGMENT - 1   \* asserted by the code
  /\ MaxUnits \in Nat

VARIABLES
  pack_mode,      \* config.pack_mode, fixed when the transport is created
  frame_counter,  \* F
  call,           \* the call of send_unit in progress
  count,          \* how many there were: numbers the units
  rx              \* the receiver and what the network did

xsVars == <<rtpVars, pack_mode, frame_counter, call, count, rx>>

Idle == [stage |-> "idle"]

-----------------------------------------------------------------------------
(* The receiver: rx.frags the packets of the unit it is assembling, rx.ts  *)
(* the timestamp of the packet it got last.                                *)

RxInit == [next |-> -1, ts |-> -1, frags |-> << >>, done |-> << >>, gap |-> 0, hurt |-> {}]

(* The counters of the packet that follows one with these counters. *)
Successor(mode, sep, p) ==
  <<IF mode = "codestream" /\ p = PMod - 1 THEN (sep + 1) % PMod ELSE sep, (p + 1) % PMod>>

Receive(pkt) ==
  LET q == pkt.payload
      prev == rx.frags[Len(rx.frags)]
      continues == /\ pkt.seq = rx.next
                   /\ rx.frags # << >>
                   /\ rx.ts = pkt.ts /\ prev.F = q.F
                   /\ <<q.sep, q.p>> = Successor(pack_mode, prev.sep, prev.p)
      starts == q.p = 0 /\ (pack_mode = "codestream" => q.sep = 0)
      frags == IF continues THEN Append(rx.frags, q)
               ELSE IF starts THEN <<q>>
               ELSE << >>
      complete == frags # << >> /\ q.L
  IN  [rx EXCEPT !.next = (pkt.seq + 1) % U16,
                 !.gap = 0,
                 !.ts = pkt.ts,
                 !.frags = IF complete THEN << >> ELSE frags,
                 !.done = IF complete THEN Append(@, frags) ELSE @]

Lose(pkt) == [rx EXCEPT !.gap = @ + 1, !.hurt = @ \cup {pkt.payload.unit}]

(* One RTP packet, refused, delivered or lost, as in NalTransport. *)
Emit(marker, payload, ret) ==
  LET pkt == PacketOf(call.ts, marker, payload)
  IN  /\ SendPacket(call.ts, marker, payload, ret)
      /\ IF ret = -1 THEN rx' = rx
         ELSE \/ rx' = Receive(pkt)
              \/ rx.gap < U16 - 1 /\ rx' = Lose(pkt)

-----------------------------------------------------------------------------

XsInit ==
  /\ Init
  /\ pack_mode \in Modes
  /\ frame_counter = 0
  /\ call = Idle /\ count = 0 /\ rx = RxInit

(* The caller enters send_unit through one of its three front ends. *)
send_unit(ts, initial_sep, is_frame_end, len) ==
  /\ call = Idle
  /\ count < MaxUnits
  /\ count' = count + 1
  /\ call' = [stage |-> "send", ts |-> ts, end |-> is_frame_end, len |-> len, i |-> 0,
              sep |-> initial_sep, p |-> 0, off |-> 0]
  /\ UNCHANGED <<rtpVars, pack_mode, frame_counter, rx>>

send_codestream(ts, is_frame_end, len) ==
  pack_mode = "codestream" /\ send_unit(ts, 0, is_frame_end, len)

send_header_segment(ts, len) ==
  pack_mode = "slice" /\ send_unit(ts, SEP_HEADER_SEGMENT, FALSE, len)

send_slice(ts, slice_index, is_frame_end, len) ==
  pack_mode = "slice" /\ send_unit(ts, slice_index, is_frame_end, len)

(* Mutant: rounded down. *)
total_chunks_floor == IF call.len < chunk_budget THEN 1 ELSE call.len \div chunk_budget

total_chunks == IF call.len = 0 THEN 1 ELSE (call.len + chunk_budget - 1) \div chunk_budget

(* Mutant: SEP moves on one packet after P wrapped. *)
NextCounters_late(sep, p) ==
  IF pack_mode = "codestream"
  THEN IF p = 0 /\ call.i > 0 THEN <<(sep + 1) % PMod, p + 1>> ELSE <<sep, (p + 1) % PMod>>
  ELSE <<sep, (p + 1) % PMod>>

(* SEP and P after a packet. *)
NextCounters(sep, p) ==
  IF pack_mode = "codestream"
  THEN IF p = PMod - 1 THEN <<(sep + 1) % PMod, 0>> ELSE <<sep, p + 1>>
  ELSE <<sep, (p + 1) % PMod>>

(* Mutants: F moves on when the marker packet failed; a failed packet is   *)
(* passed over.                                                            *)
Advance_always(size, last, ret) ==
  /\ call' = IF ret = -1 \/ last THEN [stage |-> "return", ret |-> ret]
             ELSE LET c == NextCounters(call.sep, call.p)
                  IN  [call EXCEPT !.i = @ + 1, !.off = @ + size, !.sep = c[1], !.p = c[2]]
  /\ frame_counter' = IF last /\ call.end THEN (frame_counter + 1) % FMod ELSE frame_counter

Advance_unchecked(size, last, ret) ==
  /\ call' = IF last THEN [stage |-> "return", ret |-> ret]
             ELSE LET c == IF ret = -1 THEN <<call.sep, call.p>> ELSE NextCounters(call.sep, call.p)
                  IN  [call EXCEPT !.i = @ + 1, !.off = @ + size, !.sep = c[1], !.p = c[2]]
  /\ frame_counter' = IF ret # -1 /\ last /\ call.end THEN (frame_counter + 1) % FMod
                      ELSE frame_counter

(* After a packet: answer -1 if it failed, move the counters, and after    *)
(* the last packet of a frame also F.                                      *)
Advance(size, last, ret) ==
  /\ call' = IF ret = -1 \/ last THEN [stage |-> "return", ret |-> ret]
             ELSE LET c == NextCounters(call.sep, call.p)
                  IN  [call EXCEPT !.i = @ + 1, !.off = @ + size, !.sep = c[1], !.p = c[2]]
  /\ frame_counter' = IF ret # -1 /\ last /\ call.end THEN (frame_counter + 1) % FMod
                      ELSE frame_counter

Marker(last) == call.end /\ last

(* The payload header of one packet (T, K and I are passed through), and,  *)
(* for the receiver's use only in comparisons, the chunk behind it.        *)
JpegXsPayload(last, size) ==
  [L |-> last, F |-> frame_counter, sep |-> call.sep, p |-> call.p,
   hdr |-> PAYLOAD_HEADER_SIZE, len |-> size,
   unit |-> count, off |-> call.off, of |-> call.len, end |-> call.end]

(* One turn of the loop over chunks. *)
SendChunk(ret) ==
  /\ call.stage = "send"
  /\ LET remaining == call.len - call.off
         size == IF remaining < chunk_budget THEN remaining ELSE chunk_budget
         last == call.i = total_chunks - 1
     IN  /\ Emit(Marker(last), JpegXsPayload(last, size), ret)
         /\ Advance(size, last, ret)
  /\ UNCHANGED <<pack_mode, count>>

Return ==
  /\ call.stage = "return"
  /\ call' = Idle
  /\ UNCHANGED <<rtpVars, pack_mode, frame_counter, count, rx>>

XsNext ==
  \/ \E ts \in Timestamps, len \in UnitLens[pack_mode] :
       \/ \E is_frame_end \in BOOLEAN :
            \/ send_codestream(ts, is_frame_end, len)
            \/ \E slice_index \in SliceIndices : send_slice(ts, slice_index, is_frame_end, len)
       \/ send_header_segment(ts, len)
  \/ \E ret \in {0, -1} : SendChunk(ret)
  \/ Return

XsSpec == XsInit /\ [][XsNext]_xsVars

-----------------------------------------------------------------------------

(* Every unit the receiver finishes is one unit of the caller's, whole and *)
(* in order, told apart from the rests of failed and damaged units by F,   *)
(* SEP, P and L alone, up to the capacity of the counters.                 *)
UnitsDeliveredWhole ==
  \A i \in 1 .. Len(rx.done) :
    LET f == rx.done[i]
    IN  /\ f[1].off = 0
        /\ f[Len(f)].off + f[Len(f)].len = f[1].of
        /\ \A k \in 1 .. Len(f) - 1 :
             f[k + 1].unit = f[1].unit /\ f[k + 1].off = f[k].off + f[k].len

(* F numbers the frames that were completed: it starts at 0 and moves on   *)
(* by one, modulo 2^5, behind every packet that carried the marker and     *)
(* behind no other, through any failed units ("post-incremented after a    *)
(* successful send with is_frame_end true", jpegxs_transport.h:104-106),   *)
(* so two frames in a row that a receiver can complete never carry the     *)
(* same F.                                                                 *)
NextF(pkt) == (pkt.payload.F + (IF pkt.marker THEN 1 ELSE 0)) % FMod

FrameCounterCountsFrames ==
  /\ wire # << >> => wire[1].payload.F = 0
  /\ \A i \in 1 .. Len(wire) - 1 : wire[i + 1].payload.F = NextF(wire[i])

(* The counters say where in its unit a packet belongs: in codestream mode *)
(* SEP counts the wraps of P, in slice mode SEP is fixed and P counts.     *)
CountersLocateChunk ==
  \A i \in 1 .. Len(wire) :
    LET q == wire[i].payload
    IN  q.off = (IF pack_mode = "codestream" THEN q.sep * PMod + q.p ELSE q.p) * chunk_budget

(* L is on the packet with the last octet of a unit and on no other, also  *)
(* for an empty unit and one that fills its last packet; the marker is on  *)
(* it when the unit ends its frame, never on a header segment.             *)
LastAndMarker ==
  \A i \in 1 .. Len(wire) :
    LET q == wire[i].payload
    IN  /\ q.L <=> q.off + q.len = q.of
        /\ wire[i].marker <=> q.L /\ q.end
        /\ pack_mode = "slice" /\ q.sep = SEP_HEADER_SEGMENT => ~ wire[i].marker
=============================================================================
