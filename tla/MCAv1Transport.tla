--------------------------- MODULE MCAv1Transport ---------------------------
(***************************************************************************)
(* Av1Transport for TLC: temporal units with a delimiter, an extension     *)
(* octet, an empty payload, a size of two LEB128 octets, a last OBU        *)
(* without size; elements that fit a packet, fill it and exceed it.        *)
(***************************************************************************)
EXTENDS Av1Transport

Obu(type, ext, size, len) == [type |-> type, ext |-> ext, size |-> size, len |-> len]
MCTimestamps == {[kind |-> "Raw", val |-> 0]}
MCTemporalUnits ==
  { <<Obu(2, FALSE, TRUE, 0), Obu(1, FALSE, TRUE, 1), Obu(6, TRUE, TRUE, 4)>>,
    <<Obu(6, FALSE, TRUE, 5), Obu(8, FALSE, TRUE, 1)>>,
    <<Obu(2, TRUE, FALSE, 0)>>,
    <<Obu(5, FALSE, TRUE, 0), Obu(6, TRUE, FALSE, 2)>>,
    <<Obu(1, FALSE, TRUE, 1), Obu(3, FALSE, TRUE, 0), Obu(5, FALSE, TRUE, 0),
      Obu(4, FALSE, FALSE, 0)>> }
=============================================================================
