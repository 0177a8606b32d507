------------------------------- MODULE RtpUdp -------------------------------
(***************************************************************************)
(* RtpTransport over the UDP transport of src/transport/udp.c, one system  *)
(* call at a time: send_packet builds the packet, udp.c's loop calls       *)
(* sendmsg until it is accepted, fails for good or has been refused with   *)
(* EMSGSIZE MAX_RETRANSMITS times, and only then are the counters touched. *)
(* `wire` is what the kernel accepted.                                     *)
(***************************************************************************)
EXTENDS RtpTransport

CONSTANTS
  MAX_RETRANSMITS,  (* tries of the sendmsg loop                            *)
  MaxWire           (* bound of the model: no call starts past this length  *)

ASSUME RetransmitAssumption == MAX_RETRANSMITS \in Nat \ {0}

VARIABLE call   \* the call of send_packet in progress

vars == <<rtpVars, call>>

Idle == [stage |-> "idle"]
Transmitting(pkt, i) == [stage |-> "sendmsg", pkt |-> pkt, i |-> i]
Returning(pkt, ret) == [stage |-> "return", pkt |-> pkt, ret |-> ret]

-----------------------------------------------------------------------------

UdpInit == Init /\ call = Idle

(* The caller enters send_packet: the packet is built, nothing is sent. *)
Call(ts, marker, payload) ==
  /\ call = Idle
  /\ Len(wire) < MaxWire
  /\ call' = Transmitting(PacketOf(ts, marker, payload), MAX_RETRANSMITS)
  /\ UNCHANGED rtpVars

(* Mutant: the loop goes on after a success. *)
SendmsgAccepts_again ==
  /\ call.stage = "sendmsg"
  /\ wire' = Append(wire, call.pkt)
  /\ call' = IF call.i - 1 > 0 THEN Transmitting(call.pkt, call.i - 1)
             ELSE Returning(call.pkt, 0)
  /\ UNCHANGED <<counters, config>>

(* sendmsg accepts the datagram. *)
SendmsgAccepts ==
  /\ call.stage = "sendmsg"
  /\ wire' = Append(wire, call.pkt)
  /\ call' = Returning(call.pkt, 0)
  /\ UNCHANGED <<counters, config>>

(* Mutants: one try too many; the unsigned i never fails its test. *)
SendmsgTooBig_off_by_one ==
  /\ call.stage = "sendmsg"
  /\ call' = IF call.i - 1 >= 0 THEN Transmitting(call.pkt, call.i - 1)
             ELSE Returning(call.pkt, -1)
  /\ UNCHANGED rtpVars

SendmsgTooBig_forever ==
  /\ call.stage = "sendmsg"
  /\ call' = Transmitting(call.pkt, IF call.i = 1 THEN MAX_RETRANSMITS ELSE call.i - 1)
  /\ UNCHANGED rtpVars

(* sendmsg fails with EMSGSIZE: i--, and once more while i > 0. *)
SendmsgTooBig ==
  /\ call.stage = "sendmsg"
  /\ call' = IF call.i - 1 > 0 THEN Transmitting(call.pkt, call.i - 1)
             ELSE Returning(call.pkt, -1)
  /\ UNCHANGED rtpVars

(* sendmsg fails with any other errno. *)
SendmsgFails ==
  /\ call.stage = "sendmsg"
  /\ call' = Returning(call.pkt, -1)
  /\ UNCHANGED rtpVars

(* Back in send_packet: account for the answer and return it. *)
Return ==
  /\ call.stage = "return"
  /\ Account(call.pkt, call.ret)
  /\ call' = Idle
  /\ UNCHANGED <<wire, config>>

UdpNext ==
  \/ \E ts \in Timestamps, marker \in BOOLEAN, payload \in Payloads :
       Call(ts, marker, payload)
  \/ SendmsgAccepts
  \/ SendmsgTooBig
  \/ SendmsgFails
  \/ Return

(* sendmsg always comes back and the thread inside the library keeps       *)
(* running; nobody has to call send_packet, and sendmsg owes no success.   *)
Fairness == WF_vars(SendmsgAccepts \/ SendmsgTooBig \/ SendmsgFails \/ Return)

UdpSpec == UdpInit /\ [][UdpNext]_vars /\ Fairness

-----------------------------------------------------------------------------

(* The variables stay in their types; a call in progress has tries left.   *)
UdpTypeOK ==
  /\ TypeOK
  /\ \/ call = Idle
     \/ \E pkt \in Packets, i \in 1 .. MAX_RETRANSMITS : call = Transmitting(pkt, i)
     \/ \E pkt \in Packets, ret \in {0, -1} : call = Returning(pkt, ret)

SumOctets(s) ==
  LET sum[n \in 0 .. Len(s)] == IF n = 0 THEN 0 ELSE sum[n - 1] + Octets(s[n].payload)
  IN  sum[Len(s)]

(* Between calls the struct agrees with the wire: packet count, octet count *)
(* and last timestamp are exactly those of the datagrams the kernel took,   *)
(* through refused, retried and failed sends (rtp_transport.h promises      *)
(* "successfully transmitted" totals and "Zero if none" for the timestamp). *)
CountersMatchWire ==
  call = Idle =>
    /\ pkt_count = Len(wire) % U32
    /\ octet_count = SumOctets(wire) % U32
    /\ last_rtp_ts = IF wire = << >> THEN 0 ELSE wire[Len(wire)].ts

(* What the struct has accounted for: all but a datagram whose call is     *)
(* still returning.                                                        *)
Accounted ==
  IF call.stage = "return" /\ call.ret = 0 THEN SubSeq(wire, 1, Len(wire) - 1)
  ELSE wire

Atomic == INSTANCE RtpTransport WITH wire <- Accounted

(* The retry loop implements the transport contract the RTP sender relies  *)
(* on: seen from the struct, every call is one atomic SendPacket; no try   *)
(* of the loop reaches the wire twice or without its call answering 0.     *)
ImplementsTransport == Atomic!Spec

(* A call of send_packet comes back, whatever sendmsg answers each time:   *)
(* the loop gives EMSGSIZE at most MAX_RETRANSMITS tries.                  *)
CallReturns == call.stage # "idle" ~> call.stage = "idle"
=============================================================================
