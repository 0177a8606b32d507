------------------------------ MODULE MCSession ------------------------------
(***************************************************************************)
(* Session for TLC: two finite streams, one of them without a packetizer,  *)
(* a looping one, two session ids, one of them the 0 of a stream that was  *)
(* never set up; `Transport' headers good and bad in each way.             *)
(***************************************************************************)
EXTENDS Session

Flag(name) == [name |-> name, number |-> FALSE]
Pair(name) == [name |-> name, number |-> TRUE]

MCTransportHeaders ==
  { [protocol |-> "RTP/AVP", params |-> <<Flag("unicast"), Pair("client_port")>>],
    [protocol |-> "RTP/AVP", params |-> << >>],
    [protocol |-> "RTP/AVP/TCP", params |-> <<Pair("interleaved"), Flag("destination")>>],
    [protocol |-> "RTP/AVP/TCP", params |-> <<Pair("client_port")>>],
    [protocol |-> "RTP/AVP/TCP", params |-> <<Pair("interleaved"), Flag("multicast"), Flag("interleaved")>>],
    [protocol |-> "RTP/AVP/UDP", params |-> <<Pair("interleaved"), Pair("client_port")>>],
    [protocol |-> "RAW/RAW", params |-> <<Pair("client_port")>>] }
=============================================================================
