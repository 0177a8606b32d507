--------------------------- MODULE MCJpegTransport ---------------------------
(***************************************************************************)
(* JpegTransport for TLC: frames with and without tables and restart       *)
(* markers, empty, filling the first packet exactly, exceeding it by one,  *)
(* and as long as the offset allows; Type at both ends of the restart      *)
(* range and past it.                                                      *)
(***************************************************************************)
EXTENDS JpegTransport

Frame(type, q, qt0, qt1, len) ==
  [type |-> type, q |-> q, qt0 |-> qt0, qt1 |-> qt1, len |-> len]
MCTimestamps == {[kind |-> "Raw", val |-> 0], [kind |-> "Raw", val |-> 1]}
MCFrames == { Frame(63, 80, 0, 0, 13), Frame(64, 255, 1, 1, 3), Frame(127, 128, 1, 0, 0),
              Frame(127, 50, 0, 0, 8), Frame(128, 200, 2, 0, 15) }
=============================================================================
