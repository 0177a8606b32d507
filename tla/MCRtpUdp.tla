------------------------------ MODULE MCRtpUdp ------------------------------
(***************************************************************************)
(* RtpUdp for TLC. Widths keep the divisibility of the C types and are     *)
(* small enough for sequence numbers, counters and timestamps to wrap; a   *)
(* second has 10 microseconds, and the clock rates lie on both sides of    *)
(* it, neither dividing the other.                                         *)
(***************************************************************************)
EXTENDS RtpUdp

MCClockRates == {3, 13}
MCTsBases == {0, 50}
MCTimestamps == {[kind |-> "Raw", val |-> 5]} \cup
                {[kind |-> "SysClockUs", val |-> t] : t \in {7, 19}}
MCPayloads == {[hdr |-> 1, len |-> 6]}
=============================================================================
