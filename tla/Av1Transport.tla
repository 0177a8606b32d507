---------------------------- MODULE Av1Transport ----------------------------
(***************************************************************************)
(* The AV1 packetizer of src/av1_transport.c over RtpTransport, one RTP    *)
(* packet per step. A temporal unit is parsed as a whole, delimiters and   *)
(* tile lists are dropped, and every other OBU goes out as one element cut *)
(* into packets with the Z and Y flags; the first failing packet ends the  *)
(* call. A lossy network and a receiver outside the repository (AV1 RTP    *)
(* 4.4) follow, as in NalTransport.                                        *)
(*                                                                         *)
(* An octet is a record that says what it is: an OBU header with its       *)
(* fields, a piece of a LEB128 number, or the n-th octet of a payload.     *)
(***************************************************************************)
EXTENDS RtpTransport
LOCAL INSTANCE SequencesExt

CONSTANTS
  MaxPacketSize,     (* SmolRTSP_Av1TransportConfig                          *)
  TemporalUnits,     (* sequences of OBUs an encoder hands over              *)
  LebBase,           (* values of the 7 low bits of a LEB128 octet           *)
  LEB128_MAX_SIZE,
  MAX_OBUS_PER_TU,
  MaxUnits           (* bound of the model: calls of send_temporal_unit      *)

AGGREGATION_HEADER_SIZE == 1
DroppedTypes == {2, 8}   \* TEMPORAL_DELIMITER, TILE_LIST

(* What a caller may pass: only the last OBU may lack its size field.      *)
ASSUME Av1Assumption ==
  /\ MaxPacketSize \in Nat /\ MaxPacketSize > AGGREGATION_HEADER_SIZE + 1
  /\ LebBase \in Nat \ {0, 1} /\ LEB128_MAX_SIZE \in Nat
  /\ MAX_OBUS_PER_TU \in Nat /\ MaxUnits \in Nat
  /\ \A tu \in TemporalUnits :
       /\ tu \in Seq([type : 0 .. 15, ext : BOOLEAN, size : BOOLEAN, len : Nat])
       /\ \A j \in 1 .. Len(tu) - 1 : tu[j].size

VARIABLES
  call,   \* the call of send_temporal_unit in progress
  units,  \* what each call was given and parsed, in order (history)
  rx      \* the receiver and what the network did

av1Vars == <<rtpVars, call, units, rx>>

-----------------------------------------------------------------------------
(* src/av1.c *)

(* What is left of a value when so many octets have been written.          *)
Left(value) ==
  LET left[k \in 0 .. value + 1] == IF k = 0 THEN value ELSE left[k - 1] \div LebBase
  IN  left

leb128_encode(value) ==
  LET n == CHOOSE k \in 1 .. value + 1 :
             Left(value)[k] = 0 /\ \A j \in 1 .. k - 1 : Left(value)[j] # 0
  IN  [i \in 1 .. n |-> [more |-> Left(value)[i] # 0, bits |-> Left(value)[i - 1] % LebBase]]

(* What a caller passes has sizes of as many octets as AV1 allows (a size  *)
(* field is at most LEB128_MAX_SIZE octets long, include/smolrtsp/av1.h).  *)
ASSUME SizesFit ==
  \A tu \in TemporalUnits : \A j \in 1 .. Len(tu) :
    tu[j].size => Len(leb128_encode(tu[j].len)) <= LEB128_MAX_SIZE

(* The first octet without the continuation bit, if it comes in time. *)
LastOfNumber(s) ==
  {i \in 1 .. Len(s) : i <= LEB128_MAX_SIZE /\ (\A j \in 1 .. i - 1 : s[j].more) /\ ~ s[i].more}

(* Mutant: most significant group first. *)
leb128_decode_reversed(s) ==
  LET ends == LastOfNumber(s)
      used == CHOOSE i \in ends : TRUE
  IN  IF ends = {} THEN [used |-> 0, value |-> 0]
      ELSE [used |-> used,
            value |-> FoldLeft(LAMBDA acc, b : acc * LebBase + b.bits, 0, SubSeq(s, 1, used)) % U64]

(* The number in so many octets, least significant group first. *)
Number(s, used) ==
  LET from[i \in 1 .. used + 1] == IF i = used + 1 THEN 0 ELSE s[i].bits + LebBase * from[i + 1]
  IN  from[1]

(* The number of octets used, 0 when none ends the number, and the number, *)
(* a uint64_t: the last octets can have more bits than it has left.        *)
leb128_decode(s) ==
  LET ends == LastOfNumber(s)
      used == CHOOSE i \in ends : TRUE
  IN  IF ends = {} THEN [used |-> 0, value |-> 0]
      ELSE [used |-> used, value |-> Number(s, used) % U64]

obu_header(unit, j, obu) == [unit |-> unit, obu |-> j, type |-> obu.type,
                             ext |-> obu.ext, size |-> obu.size]
obu_clear_size_field(hdr) == [hdr EXCEPT !.size = FALSE]

ExtOctets(unit, j, obu) == IF obu.ext THEN <<[unit |-> unit, obu |-> j, extension |-> TRUE]>>
                           ELSE << >>
PayloadOctets(unit, j, len) ==
  [k \in 1 .. len |-> [more |-> FALSE, unit |-> unit, obu |-> j, at |-> k]]

EncodeObu(unit, j, obu) ==
  <<obu_header(unit, j, obu)>> \o ExtOctets(unit, j, obu)
    \o (IF obu.size THEN leb128_encode(obu.len) ELSE << >>)
    \o PayloadOctets(unit, j, obu.len)

(* The octets an encoder emits for the first OBUs of a temporal unit. *)
Encoded(unit, tu) ==
  LET upto[k \in 0 .. Len(tu)] ==
        IF k = 0 THEN << >> ELSE upto[k - 1] \o EncodeObu(unit, k, tu[k])
  IN  upto

Encode(unit, tu) == Encoded(unit, tu)[Len(tu)]

(* A caller passes units that are in memory as an encoder made them, or    *)
(* the first octets of one, so that the sizes in them are those of         *)
(* payloads that were there. Sizes near 2^64, which only other octets can  *)
(* have, are excluded by this.                                             *)
ASSUME UnitsFit ==
  \A tu \in TemporalUnits : \A unit \in 1 .. MaxUnits : Len(Encode(unit, tu)) < U64

-----------------------------------------------------------------------------
(* src/av1_transport.c *)

Malformed == [pos |-> 0, n |-> -1, elements |-> << >>]

(* The stream ends inside an extension octet, a size or a payload. The     *)
(* check does not see an end that wrapped, for which UnitsFit leaves no    *)
(* room: the payload would not be one of the stream, nor the next OBU      *)
(* behind this one.                                                        *)
Overruns(obus, hdr, leb, after, end) ==
  \/ after > Len(obus) + 1
  \/ hdr.size /\ leb.used = 0
  \/ end > Len(obus) + 1

(* One turn of the loop: p.pos is where it reads, counted from 1,          *)
(* p.elements what it has found, each the OBU header without its size      *)
(* flag, the extension octet, and the payload. Where that ends is a sum of *)
(* 64 bits.                                                                *)
parse_obu(obus, p) ==
  LET hdr == obus[p.pos]
      after == p.pos + (IF hdr.ext THEN 2 ELSE 1)
      leb == leb128_decode(SubSeq(obus, after, Len(obus)))
      start == after + (IF hdr.size THEN leb.used ELSE 0)
      end == IF hdr.size THEN ((start - 1 + leb.value) % U64) + 1 ELSE Len(obus) + 1
      element == <<obu_clear_size_field(hdr)>> \o SubSeq(obus, p.pos + 1, after - 1)
                   \o SubSeq(obus, start, end - 1)
      dropped == hdr.type \in DroppedTypes
  IN  IF Overruns(obus, hdr, leb, after, end) \/ (~ dropped /\ p.n >= MAX_OBUS_PER_TU)
      THEN Malformed
      ELSE IF dropped THEN [p EXCEPT !.pos = end]
      ELSE [pos |-> end, n |-> p.n + 1, elements |-> Append(p.elements, element)]

(* The loop: with sizes that do not wrap a turn takes an octet at least,   *)
(* so Len(obus) turns suffice.                                             *)
parse_obus(obus) ==
  LET parsed[k \in 0 .. Len(obus)] ==
        IF k = 0 THEN [pos |-> 1, n |-> 0, elements |-> << >>]
        ELSE LET p == parsed[k - 1]
             IN  IF p.n = -1 \/ p.pos > Len(obus) THEN p ELSE parse_obu(obus, p)
  IN  parsed[Len(obus)]

per_packet_budget == MaxPacketSize - AGGREGATION_HEADER_SIZE

(***************************************************************************)
(* The receiver: what it holds of an unfinished element (rx.frags), the    *)
(* elements it finished (rx.done), each with the place the caller had it   *)
(* at; ghosts as in NalTransport.                                          *)
(***************************************************************************)
RxInit == [next |-> -1, frags |-> << >>, done |-> << >>, gap |-> 0, hurt |-> {}]

Receive(pkt) ==
  LET p == pkt.payload
      octets == IF ~ p.z THEN p.data
                ELSE IF pkt.seq = rx.next /\ rx.frags # << >> THEN rx.frags \o p.data
                ELSE << >>
      complete == octets # << >> /\ ~ p.y
  IN  [next |-> (pkt.seq + 1) % U16,
       gap |-> 0,
       hurt |-> rx.hurt,
       frags |-> IF complete THEN << >> ELSE octets,
       done |-> IF complete
                THEN Append(rx.done, [unit |-> p.unit, element |-> p.element, octets |-> octets])
                ELSE rx.done]

Lose(pkt) == [next |-> rx.next, gap |-> rx.gap + 1, hurt |-> rx.hurt \cup {pkt.payload.unit},
              frags |-> rx.frags, done |-> rx.done]

(* One RTP packet, refused, delivered or lost, as in NalTransport. *)
Emit(marker, payload, ret) ==
  LET pkt == PacketOf(call.ts, marker, payload)
  IN  /\ SendPacket(call.ts, marker, payload, ret)
      /\ IF ret = -1 THEN rx' = rx
         ELSE \/ rx' = Receive(pkt)
              \/ rx.gap < U16 - 1 /\ rx' = Lose(pkt)

-----------------------------------------------------------------------------

Idle == [stage |-> "idle"]

Av1Init == Init /\ call = Idle /\ units = << >> /\ rx = RxInit

(* The first octets of what an encoder emits. *)
Stream(unit, tu, cut) ==
  LET octets == Encode(unit, tu)
  IN  [k \in 1 .. cut |-> octets[k]]

(* send_temporal_unit: the stream, complete or cut short, is parsed before *)
(* anything is sent.                                                       *)
Call(ts, tu, cut, is_new_cvs) ==
  LET unit == Len(units) + 1
      parsed == parse_obus(Stream(unit, tu, cut))
  IN  /\ call = Idle
      /\ Len(units) < MaxUnits
      /\ cut <= Len(Encode(unit, tu))
      /\ units' = Append(units, [tu |-> tu, cut |-> cut, cvs |-> is_new_cvs,
                                 n |-> parsed.n, elements |-> parsed.elements])
      /\ call' = IF parsed.n <= 0 THEN [stage |-> "return", ret |-> parsed.n]
                 ELSE [stage |-> "send", ts |-> ts, i |-> 1, sent |-> 0]
      /\ UNCHANGED <<rtpVars, rx>>

(* Mutant: N on every packet of the first element. *)
Av1AggregationHeader_every(first, last, set_n, data) ==
  [z |-> ~ first, y |-> ~ last, w |-> 1, n |-> set_n, data |-> data,
   unit |-> Len(units), element |-> call.i, off |-> call.sent,
   hdr |-> AGGREGATION_HEADER_SIZE, len |-> Len(data)]

(* The aggregation header of one packet, its octets and where they are from. *)
Av1AggregationHeader(first, last, set_n, data) ==
  [z |-> ~ first, y |-> ~ last, w |-> 1, n |-> first /\ set_n, data |-> data,
   unit |-> Len(units), element |-> call.i, off |-> call.sent,
   hdr |-> AGGREGATION_HEADER_SIZE, len |-> Len(data)]

(* Mutant: the marker ends every element. *)
is_last_obu_always(u) == TRUE

is_last_obu(u) == call.i = u.n

(* Mutants: a failed packet is passed over; the rest is forgotten. *)
Advance_unchecked(u, chunk_size, last, ret) ==
  call' = IF last /\ is_last_obu(u) THEN [stage |-> "return", ret |-> 0]
          ELSE IF last THEN [call EXCEPT !.i = @ + 1, !.sent = 0]
          ELSE [call EXCEPT !.sent = @ + chunk_size]

Advance_first_only(u, chunk_size, last, ret) ==
  call' = IF ret = -1 \/ last THEN [stage |-> "return", ret |-> ret]
          ELSE [call EXCEPT !.sent = @ + chunk_size]

(* After a packet: answer -1 if it failed, go on in the element, or go on  *)
(* to the next one.                                                        *)
Advance(u, chunk_size, last, ret) ==
  call' = IF ret = -1 \/ (last /\ is_last_obu(u)) THEN [stage |-> "return", ret |-> ret]
          ELSE IF last THEN [call EXCEPT !.i = @ + 1, !.sent = 0]
          ELSE [call EXCEPT !.sent = @ + chunk_size]

(* One turn of the loop of send_element, inside the loop over elements.    *)
SendChunk(ret) ==
  /\ call.stage = "send"
  /\ LET u == units[Len(units)]
         element == u.elements[call.i]
         bytes_left == Len(element) - call.sent
         chunk_size == IF bytes_left <= per_packet_budget THEN bytes_left ELSE per_packet_budget
         last == chunk_size = bytes_left
         data == SubSeq(element, call.sent + 1, call.sent + chunk_size)
     IN  /\ Emit(last /\ is_last_obu(u),
                 Av1AggregationHeader(call.sent = 0, last, call.i = 1 /\ u.cvs, data), ret)
         /\ Advance(u, chunk_size, last, ret)
  /\ UNCHANGED units

Return ==
  /\ call.stage = "return"
  /\ call' = Idle
  /\ UNCHANGED <<rtpVars, units, rx>>

Av1Next ==
  \/ \E ts \in Timestamps, tu \in TemporalUnits, is_new_cvs \in BOOLEAN :
       \E cut \in 0 .. Len(Encode(0, tu)) : Call(ts, tu, cut, is_new_cvs)
  \/ \E ret \in {0, -1} : SendChunk(ret)
  \/ Return

Av1Spec == Av1Init /\ [][Av1Next]_av1Vars

-----------------------------------------------------------------------------

ElementOf(unit, j, obu) ==
  <<obu_clear_size_field(obu_header(unit, j, obu))>> \o ExtOctets(unit, j, obu)
    \o PayloadOctets(unit, j, obu.len)

(* The elements of the first k OBUs, by the encoder's list and not its     *)
(* octets.                                                                 *)
ElementsOf(unit, tu, k) ==
  LET found[j \in 0 .. Len(tu)] ==
        IF j = 0 THEN << >>
        ELSE IF tu[j].type \in DroppedTypes THEN found[j - 1]
        ELSE Append(found[j - 1], ElementOf(unit, j, tu[j]))
  IN  found[k]

(* What was parsed from the octets are the encoder's OBUs, whatever their  *)
(* sizes and flags, and a stream cut inside an OBU gives nothing, unless   *)
(* that OBU runs to the end of its input by having no size field           *)
(* (av1_transport.c:104-107).                                              *)
ParsesBack ==
  \A unit \in 1 .. Len(units) :
    LET u == units[unit]
        boundary == {k \in 0 .. Len(u.tu) : Len(Encoded(unit, u.tu)[k]) = u.cut}
        open == u.tu # << >> /\ ~ u.tu[Len(u.tu)].size
        missing == Len(Encode(unit, u.tu)) - u.cut
        \* an unsized last OBU that lost the end of its payload only
        shortened == IF open /\ missing <= u.tu[Len(u.tu)].len
                     THEN {[u.tu EXCEPT ![Len(u.tu)].len = @ - missing]} ELSE {}
        readings == {ElementsOf(unit, u.tu, k) : k \in boundary}
                      \cup {ElementsOf(unit, tu, Len(tu)) : tu \in shortened}
        ok == {es \in readings : Len(es) <= MAX_OBUS_PER_TU}
    IN  IF ok = {} THEN u.n = -1 ELSE u.n = Len(u.elements) /\ u.elements \in ok

Precedes(a, b) == a.unit < b.unit \/ (a.unit = b.unit /\ a.element < b.element)

(* The elements the receiver finishes are elements the caller handed over, *)
(* whole, each at most once and in order: fragments of two elements are    *)
(* never joined, though a failed send leaves one with Y=1 behind and no    *)
(* gap in the sequence numbers.                                            *)
ElementsDeliveredWhole ==
  /\ \A k \in 1 .. Len(rx.done) :
       rx.done[k].octets = units[rx.done[k].unit].elements[rx.done[k].element]
  /\ \A k \in 1 .. Len(rx.done) - 1 : Precedes(rx.done[k], rx.done[k + 1])

(* A packet carries an octet of an element. *)
Carries(p, unit, e, o) ==
  /\ p.unit = unit
  /\ p.element = e
  /\ o \in p.off + 1 .. p.off + p.len
  /\ p.data[o - p.off] = units[unit].elements[e][o]

(* The marker is on a packet exactly when the packets of its temporal unit *)
(* so far carry every octet of every element: no unit whose call failed    *)
(* half-way is ever marked complete ("set on the very last packet of the   *)
(* TU", av1_transport.h:100).                                              *)
MarkerMeansWholeUnit ==
  \A i \in 1 .. Len(wire) :
    LET unit == wire[i].payload.unit
        elements == units[unit].elements
    IN  wire[i].marker <=>
          \A e \in 1 .. Len(elements) : \A o \in 1 .. Len(elements[e]) :
            \E j \in 1 .. i : Carries(wire[j].payload, unit, e, o)

(* N is on the first packet of a temporal unit that starts a new coded     *)
(* video sequence, never on a continuation and on no other packet          *)
(* (av1_transport.h:100-103, av1.h:67-68).                                 *)
NewSequenceIsFirst ==
  \A i \in 1 .. Len(wire) :
    LET p == wire[i].payload
    IN  p.n <=> units[p.unit].cvs /\ \A j \in 1 .. i - 1 : wire[j].payload.unit # p.unit

(* A call that answered 0, none of whose packets the network lost, has     *)
(* delivered every element of its unit by the time it returns.             *)
SuccessMeansDelivered ==
  (call.stage = "return" /\ call.ret = 0 /\ Len(units) \notin rx.hurt)
    => LET u == units[Len(units)]
           earlier == Len(rx.done) - u.n
       IN  earlier >= 0 /\ \A k \in 1 .. u.n :
             rx.done[earlier + k] = [unit |-> Len(units), element |-> k, octets |-> u.elements[k]]
=============================================================================
