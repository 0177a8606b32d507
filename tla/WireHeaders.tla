---------------------------- MODULE WireHeaders ----------------------------
(***************************************************************************)
(* The octets of the headers that the packetizers and an RTCP sender put   *)
(* on the wire: NAL unit and fragmentation unit headers of H.264, H.265    *)
(* and H.266 (src/nal.c, src/nal/), RTP headers (src/types/rtp.c) and RTCP *)
(* packets (src/types/rtcp.c). A 16-bit or 32-bit field that its caller    *)
(* already holds in network order is a sequence of octets.                 *)
(***************************************************************************)
EXTENDS Integers, Sequences

Octet == 0 .. 255
Bit(b) == IF b THEN 1 ELSE 0

-----------------------------------------------------------------------------
(* NAL unit headers. *)

H264NalHeader_parse(b) ==
  [forbidden_zero_bit |-> b \div 128, ref_idc |-> (b \div 32) % 4, unit_type |-> b % 32]

H264NalHeader_serialize(h) == <<h.forbidden_zero_bit * 128 + h.ref_idc * 32 + h.unit_type>>

H265NalHeader_parse(b, c) ==
  [forbidden_zero_bit |-> b \div 128, unit_type |-> (b \div 2) % 64,
   nuh_layer_id |-> (b % 2) * 32 + (c \div 8), nuh_temporal_id_plus1 |-> c % 8]

H265NalHeader_serialize(h) ==
  <<h.forbidden_zero_bit * 128 + (h.unit_type % 64) * 2 + ((h.nuh_layer_id \div 32) % 2),
    (h.nuh_layer_id % 32) * 8 + (h.nuh_temporal_id_plus1 % 8)>>

H266NalHeader_parse(b, c) ==
  [forbidden_zero_bit |-> b \div 128, nuh_reserved_zero_bit |-> (b \div 64) % 2,
   nuh_layer_id |-> b % 64, unit_type |-> c \div 8, nuh_temporal_id_plus1 |-> c % 8]

H266NalHeader_serialize(h) ==
  <<h.forbidden_zero_bit * 128 + h.nuh_reserved_zero_bit * 64 + (h.nuh_layer_id % 64),
    (h.unit_type % 32) * 8 + (h.nuh_temporal_id_plus1 % 8)>>

(* Mutant: room for a type of five bits, as H.264 has. *)
nal_fu_header_5bit(first, last, unit_type) ==
  Bit(first) * 128 + Bit(last) * 64 + (unit_type % 32)

nal_fu_header(first, last, unit_type) ==
  (Bit(first) * 128 + Bit(last) * 64 + unit_type) % 256

(* The FU indicator is 0, nal_ref_idc, 28: it has no forbidden_zero_bit. *)
H264NalHeader_write_fu_header(h, first, last) ==
  <<28 + ((h.ref_idc \div 2) % 2) * 64 + (h.ref_idc % 2) * 32,
    nal_fu_header(first, last, h.unit_type)>>

H265NalHeader_write_fu_header(h, first, last) ==
  Append(H265NalHeader_serialize([h EXCEPT !.unit_type = 49]),
         nal_fu_header(first, last, h.unit_type))

H266NalHeader_write_fu_header(h, first, last) ==
  Append(H266NalHeader_serialize([h EXCEPT !.unit_type = 29]),
         nal_fu_header(first, last, h.unit_type))

(* By variant: the octets of a header, in an FU and as they are. *)
NalHeader_serialize(codec, hdr) ==
  CASE codec = "H264" -> H264NalHeader_serialize(H264NalHeader_parse(hdr[1]))
    [] codec = "H265" -> H265NalHeader_serialize(H265NalHeader_parse(hdr[1], hdr[2]))
    [] codec = "H266" -> H266NalHeader_serialize(H266NalHeader_parse(hdr[1], hdr[2]))

NalHeader_write_fu_header(codec, hdr, first, last) ==
  CASE codec = "H264" -> H264NalHeader_write_fu_header(H264NalHeader_parse(hdr[1]), first, last)
    [] codec = "H265" -> H265NalHeader_write_fu_header(H265NalHeader_parse(hdr[1], hdr[2]), first, last)
    [] codec = "H266" -> H266NalHeader_write_fu_header(H266NalHeader_parse(hdr[1], hdr[2]), first, last)

(* What a receiver takes from an FU (RFC 6184 5.8, RFC 7798 4.4.3, RFC     *)
(* 9328 4.3.3): its place in the unit, and the header of the unit.         *)
Place(fu) == <<fu[Len(fu)] \div 128, (fu[Len(fu)] \div 64) % 2>>
Rebuilt(codec, fu) ==
  CASE codec = "H264" -> <<(fu[1] \div 32) * 32 + (fu[2] % 32)>>
    [] codec = "H265" -> <<(fu[1] \div 128) * 128 + (fu[3] % 64) * 2 + (fu[1] % 2), fu[2]>>
    [] codec = "H266" -> <<fu[1], (fu[3] % 32) * 8 + (fu[2] % 8)>>

(* The headers of a variant. The forbidden bit of H.264 is 0: fragments    *)
(* drop it (h264.c:43).                                                    *)
HeaderOctets(codec) ==
  IF codec = "H264" THEN {<<b>> : b \in 0 .. 127} ELSE {<<b, c>> : b \in Octet, c \in Octet}

(* A header goes out as it came in, in a single packet and, rebuilt by the *)
(* receiver, in every fragment (nal.c:87, 111).                            *)
HeaderRebuilds(codec, hdr, first, last) ==
  LET fu == NalHeader_write_fu_header(codec, hdr, first, last)
  IN  /\ NalHeader_serialize(codec, hdr) = hdr
      /\ Rebuilt(codec, fu) = hdr
      /\ Place(fu) = <<Bit(first), Bit(last)>>

-----------------------------------------------------------------------------
(* RTP headers. *)

RtpHeader_size(h) ==
  12 + 4 * h.csrc_count + (IF h.extension THEN 4 + 4 * h.extension_payload_len ELSE 0)

(* The length of the extension is written in the order of the host (little *)
(* endian). Its payload is copied by a 16-bit index, which does not reach  *)
(* a length of 2^14 words.                                                 *)
RtpHeader_serialize(h) ==
  <<h.version * 64 + Bit(h.padding) * 32 + Bit(h.extension) * 16 + h.csrc_count,
    Bit(h.marker) * 128 + h.payload_ty>>
  \o h.sequence_number \o h.timestamp \o h.ssrc \o h.csrc
  \o (IF h.extension
      THEN h.extension_profile
           \o <<h.extension_payload_len % 256, h.extension_payload_len \div 256>>
           \o h.extension_payload
      ELSE << >>)

Words(n) == {s \in Seq(Octet) : Len(s) = 4 * n}
HalfWords == {s \in Seq(Octet) : Len(s) = 2}

(* The octets written are as many as the caller made room for, and the     *)
(* first two say what is in the rest.                                      *)
RtpHeaderFits(h) ==
  LET w == RtpHeader_serialize(h)
  IN  /\ Len(w) = RtpHeader_size(h)
      /\ w[1] \div 64 = h.version /\ (w[1] \div 32) % 2 = Bit(h.padding)
      /\ (w[1] \div 16) % 2 = Bit(h.extension) /\ w[1] % 16 = h.csrc_count
      /\ w[2] \div 128 = Bit(h.marker) /\ w[2] % 128 = h.payload_ty

-----------------------------------------------------------------------------
(* RTCP packets. *)

Zeros(n) == [i \in 1 .. n |-> 0]
RoundUp4(n) == ((n + 3) \div 4) * 4

rtcp_common_header(padding, sc_or_rc, pt, length_words) ==
  <<2 * 64 + Bit(padding) * 32 + (sc_or_rc % 32), pt,
    (length_words \div 256) % 256, length_words % 256>>

RtcpSr_size == 28
RtcpSr_serialize(padding, ssrc, ntp_sec, ntp_frac, rtp_ts, pkt_count, octet_count) ==
  rtcp_common_header(padding, 0, 200, (RtcpSr_size \div 4) - 1)
  \o ssrc \o ntp_sec \o ntp_frac \o rtp_ts \o pkt_count \o octet_count

RtcpRr_size == 8
RtcpRr_serialize(padding, ssrc) ==
  rtcp_common_header(padding, 0, 201, (RtcpRr_size \div 4) - 1) \o ssrc

RtcpSdesCname_size(cname) == RoundUp4(4 + 4 + 2 + Len(cname) + 1)
RtcpSdesCname_serialize(padding, ssrc, cname) ==
  LET total == RtcpSdesCname_size(cname)
  IN  rtcp_common_header(padding, 1, 202, (total \div 4) - 1)
      \o ssrc \o <<1, Len(cname)>> \o cname \o <<0>>
      \o Zeros(total - (11 + Len(cname)))

RtcpBye_size(reason) == IF reason = << >> THEN 8 ELSE RoundUp4(4 + 4 + 1 + Len(reason))
RtcpBye_serialize(padding, ssrc, reason) ==
  LET total == RtcpBye_size(reason)
  IN  rtcp_common_header(padding, 1, 203, (total \div 4) - 1) \o ssrc
      \o (IF reason = << >> THEN << >>
          ELSE <<Len(reason)>> \o reason \o Zeros(total - (9 + Len(reason))))

(* A receiver walks a compound packet by the length fields: a packet has   *)
(* to be as long as it says, and as the caller made room for.              *)
Fills(pkt, size) == Len(pkt) = size /\ size = 4 * (pkt[3] * 256 + pkt[4] + 1)

(* The items of an SDES packet end within it: the text is where its length *)
(* says, and a zero follows.                                               *)
CnameEnds(pkt) == LET end == 11 + pkt[10] IN end <= Len(pkt) /\ pkt[end] = 0
ReasonEnds(pkt) == Len(pkt) > 8 => 9 + pkt[9] <= Len(pkt)

=============================================================================
