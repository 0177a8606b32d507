---------------------------- MODULE NalDelivery ----------------------------
(***************************************************************************)
(* What SmolRTSP_NalTransport_send_packet promises a receiver, without     *)
(* packets: NAL units are offered one at a time, each is delivered whole,  *)
(* at most once and before the next one is offered, or not at all; a call  *)
(* that answers -1 delivered nothing.                                      *)
(***************************************************************************)
EXTENDS Integers, Sequences

CONSTANT Nals          (* NAL units *)

VARIABLES
  current,    \* the last call: idle, busy with a unit, or answered
  delivered   \* the units the receiver has, in order

Busy(nal, reached) == [stage |-> "busy", nal |-> nal, reached |-> reached]
Answered(nal, ret) == [stage |-> "answered", nal |-> nal, ret |-> ret]

NalInit ==
  /\ current = [stage |-> "idle"]
  /\ delivered = << >>

Offer ==
  /\ current.stage = "idle"
  /\ \E nal \in Nals : current' = Busy(nal, FALSE)
  /\ UNCHANGED delivered

(* The receiver completes the unit; the call may be over with that. *)
Deliver ==
  /\ current.stage = "busy"
  /\ ~ current.reached
  /\ current' \in {Busy(current.nal, TRUE), Answered(current.nal, 0)}
  /\ delivered' = Append(delivered, current.nal)

(* 0 is also the answer when the network lost a packet of the unit. *)
Answer(ret) ==
  /\ current.stage = "busy"
  /\ ret = -1 => ~ current.reached
  /\ current' = Answered(current.nal, ret)
  /\ UNCHANGED delivered

Return ==
  /\ current.stage = "answered"
  /\ current' = [stage |-> "idle"]
  /\ UNCHANGED delivered

NalNext == Offer \/ Deliver \/ (\E ret \in {0, -1} : Answer(ret)) \/ Return

NalSpec == NalInit /\ [][NalNext]_<<current, delivered>>
=============================================================================
