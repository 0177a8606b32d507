--------------------------- MODULE MCNalTransport ---------------------------
(***************************************************************************)
(* NalTransport for TLC: an H.264 and an H.265 stream; lengths that fit    *)
(* exactly, exceed the limit by one, divide into chunks and leave a rest.  *)
(* Units have the headers of WireHeaders: slices of low and high priority, *)
(* types of six bits, layers beyond 31.                                    *)
(***************************************************************************)
EXTENDS NalTransport

MCMaxNaluSize == [H264 |-> 4, H265 |-> 5]
MCTimestamps == {[kind |-> "Raw", val |-> 0]}
MCPayloadLens == {3, 4, 5}
MCHeaders == [H264 |-> {<<65>>, <<37>>, <<126>>},
              H265 |-> {<<2, 1>>, <<79, 25>>, <<127, 255>>}]
=============================================================================
