-------------------------- MODULE MCJpegXsTransport --------------------------
(***************************************************************************)
(* JpegXsTransport for TLC: empty units, units that fill their last packet *)
(* and leave a rest, units up to the capacity of P in slice mode and past  *)
(* its wrap in codestream mode; F wraps after two frames.                  *)
(***************************************************************************)
EXTENDS JpegXsTransport

MCTimestamps == {[kind |-> "Raw", val |-> 0]}
MCUnitLens == [codestream |-> {0, 4, 9}, slice |-> {0, 3, 8}]
=============================================================================
