---------------------------- MODULE RtpTransport ----------------------------
(***************************************************************************)
(* The RTP sender of src/rtp_transport.c, seen through the contract of the *)
(* SmolRTSP_Transport it writes to (include/smolrtsp/transport.h): one call *)
(* of transmit either hands the whole packet over and answers 0, or hands  *)
(* over nothing and answers -1.                                            *)
(*                                                                         *)
(* Integer widths are constants: U16, U32 and U64 are the numbers of       *)
(* values of the C types, so that TLC can wrap them within a few packets.  *)
(***************************************************************************)
EXTENDS Integers, Sequences

CONSTANTS
  U16,        (* values of a uint16_t: sequence numbers                     *)
  U32,        (* values of a uint32_t: counters and RTP timestamps          *)
  U64,        (* values of a uint64_t: microsecond instants                 *)
  UsPerSec,   (* microseconds in a second                                   *)
  ClockRates, (* RTP clock rates a transport may be created with            *)
  TsBases,    (* origins a transport may be created with, in microseconds   *)
  Timestamps, (* values of SmolRTSP_RtpTimestamp a caller may pass          *)
  Payloads    (* payload records: hdr and len are the octets of the payload *)
              (* header and of the payload                                  *)

ASSUME WidthAssumption ==
  /\ U16 \in Nat \ {0}
  /\ U32 \in Nat \ {0}
  /\ U64 \in Nat \ {0}
  /\ UsPerSec \in Nat \ {0}
  /\ U64 % U32 = 0

ASSUME InputAssumption ==
  /\ ClockRates \subseteq 0 .. U32 - 1
  /\ TsBases \subseteq 0 .. U64 - 1
  /\ \A ts \in Timestamps : /\ ts.kind \in {"Raw", "SysClockUs"}
                            /\ ts.kind = "Raw" => ts.val \in 0 .. U32 - 1
                            /\ ts.kind = "SysClockUs" => ts.val \in 0 .. U64 - 1
  /\ \A p \in Payloads : p.hdr \in Nat /\ p.len \in Nat

VARIABLES
  seq_num, pkt_count, octet_count, last_rtp_ts,  \* the counters of the struct
  clock_rate, ts_base_us,                        \* fixed when it is created
  wire                                           \* packets the transport took

config == <<clock_rate, ts_base_us>>
counters == <<seq_num, pkt_count, octet_count, last_rtp_ts>>
rtpVars == <<seq_num, pkt_count, octet_count, last_rtp_ts,
             clock_rate, ts_base_us, wire>>

Packets == [seq : 0 .. U16 - 1, ts : 0 .. U32 - 1, marker : BOOLEAN,
            at : Timestamps, payload : Payloads]

-----------------------------------------------------------------------------

(* Mutant: scale by a pre-divided clock rate, as the code once did. *)
ts_from_sys_clock_us_predivided(time_us, rate, base) ==
  (((((time_us + base) % U64) \div 5) * rate) \div (UsPerSec \div 5)) % U32

(* Microseconds to ticks: shift by the base, split on seconds, narrow. *)
ts_from_sys_clock_us(time_us, rate, base) ==
  LET t   == (time_us + base) % U64
      sec == t \div UsPerSec
      rem == t % UsPerSec
  IN  ((sec * rate + (rem * rate) \div UsPerSec) % U64) % U32

compute_timestamp(ts) ==
  IF ts.kind = "Raw" THEN ts.val
  ELSE ts_from_sys_clock_us(ts.val, clock_rate, ts_base_us)

(* The packet one call of send_packet builds; `at` remembers, for the      *)
(* properties only, which timestamp the caller passed.                     *)
PacketOf(ts, marker, payload) ==
  [seq |-> seq_num, ts |-> compute_timestamp(ts), marker |-> marker,
   at |-> ts, payload |-> payload]

Octets(payload) == payload.hdr + payload.len

(* Mutants: number packets that were never sent; count payloads only. *)
Account_failures(pkt, ret) ==
  /\ seq_num' = (seq_num + 1) % U16
  /\ pkt_count' = IF ret # -1 THEN (pkt_count + 1) % U32 ELSE pkt_count
  /\ octet_count' = IF ret # -1 THEN (octet_count + Octets(pkt.payload)) % U32 ELSE octet_count
  /\ last_rtp_ts' = IF ret # -1 THEN pkt.ts ELSE last_rtp_ts

Account_no_header(pkt, ret) ==
  IF ret # -1
  THEN /\ seq_num' = (seq_num + 1) % U16
       /\ pkt_count' = (pkt_count + 1) % U32
       /\ octet_count' = (octet_count + pkt.payload.len) % U32
       /\ last_rtp_ts' = pkt.ts
  ELSE UNCHANGED counters

(* What send_packet does to the struct once the transport has answered. *)
Account(pkt, ret) ==
  IF ret # -1
  THEN /\ seq_num' = (seq_num + 1) % U16
       /\ pkt_count' = (pkt_count + 1) % U32
       /\ octet_count' = (octet_count + Octets(pkt.payload)) % U32
       /\ last_rtp_ts' = pkt.ts
  ELSE UNCHANGED counters

(* A whole call, atomic: build, transmit, account. *)
SendPacket(ts, marker, payload, ret) ==
  LET pkt == PacketOf(ts, marker, payload)
  IN  /\ wire' = IF ret # -1 THEN Append(wire, pkt) ELSE wire
      /\ Account(pkt, ret)
      /\ UNCHANGED config

-----------------------------------------------------------------------------

Init ==
  /\ seq_num = 0
  /\ pkt_count = 0
  /\ octet_count = 0
  /\ last_rtp_ts = 0
  /\ clock_rate \in ClockRates
  /\ ts_base_us \in TsBases
  /\ wire = << >>

Next ==
  \E ts \in Timestamps, marker \in BOOLEAN, payload \in Payloads, ret \in {0, -1} :
    SendPacket(ts, marker, payload, ret)

Spec == Init /\ [][Next]_rtpVars

-----------------------------------------------------------------------------

(* Every variable stays within its C type, and the wire holds packets. *)
TypeOK ==
  /\ seq_num \in 0 .. U16 - 1
  /\ pkt_count \in 0 .. U32 - 1
  /\ octet_count \in 0 .. U32 - 1
  /\ last_rtp_ts \in 0 .. U32 - 1
  /\ clock_rate \in ClockRates
  /\ ts_base_us \in TsBases
  /\ wire \in Seq(Packets)

(* The packets on the wire are numbered consecutively modulo 2^16,         *)
(* whatever transmissions failed in between (rtp_transport.c:146-148: the  *)
(* number is consumed only when transmit did not answer -1), so a gap a    *)
(* receiver sees is a loss in the network and never a failed send.         *)
SeqGapless == \A i \in 1 .. Len(wire) : wire[i].seq = (i - 1) % U16

(* Ticks that `us` microseconds last at `rate`, rounded down. *)
Ticks(us, rate) == (us * rate) \div UsPerSec

(* Two instants fall on the same side of the 64-bit wrap of the origin. *)
SameEpoch(a, b) == (a + ts_base_us) \div U64 = (b + ts_base_us) \div U64

(* However far apart two packets are, the distance of their timestamps is  *)
(* the elapsed time at the clock rate to within the one tick of rounding:  *)
(* the conversion accumulates no drift (rtp_transport.c:172-183 says       *)
(* pre-dividing the rate drifted "without bound").                         *)
NoDrift ==
  \A i, j \in 1 .. Len(wire) :
    LET a == wire[i].at
        b == wire[j].at
    IN  ( /\ a.kind = "SysClockUs"
          /\ b.kind = "SysClockUs"
          /\ a.val <= b.val
          /\ SameEpoch(a.val, b.val) )
        => (wire[j].ts - wire[i].ts) % U32
             \in { (Ticks(b.val - a.val, clock_rate) + k) % U32 : k \in {0, 1} }
=============================================================================
