# SmolRTSP in TLA+

TLA+ models of SmolRTSP, the RTSP/RTP library of this repository, checked by
TLC on small instances and, for the results listed below, proved by TLAPS for
every value of the constants. `PROJECT.json` maps every definition that models
code to its lines.

## The system

SmolRTSP turns encoded media into RTP packets, writes them to a UDP socket or
into the RTSP connection itself, and parses and answers RTSP requests. The
library starts no thread and keeps no global state; its callers decide who
runs what. The example server runs everything in one libevent loop; the
Writer's lock exists for callers that use threads.

| Component | State it keeps | Operations | What is hard | What makes it correct |
|---|---|---|---|---|
| RTP transport (`rtp_transport.c`) | sequence number, packet and octet counters, last timestamp, clock rate, origin | `send_packet`, clock conversion, accessors | failed sends, wrapping counters, 64-bit to 32-bit scaling | no gap without a loss, counters equal the wire, no drift |
| UDP transport (`transport/udp.c`) | descriptor, address | `transmit` with an EMSGSIZE retry loop | a retry racing a success, termination | a datagram goes out at most once, exactly when the answer is 0 |
| NAL transport (`nal_transport.c`, `nal.c`, `nal/`) | packet size limits | `send_packet`: single packet or FU fragments | boundary lengths, a failure half-way, losses | packets within the limit; a receiver gets whole units or nothing |
| TCP transport (`transport/tcp.c`), Writer (`writer/`) | channel, buffer limit; the connection | `transmit`, `is_full`; `lock`, `write`, `unlock`, `filled` | threads on one connection, short writes | the peer can decode the connection |
| Serialization (`types/response.c`, `request.c`, ...) | none | one `write` per piece of a message | an error in the middle, no lock | a message is whole, an error is reported |
| Parser (`types/`, `util.c`) | none: a message is parsed from its start each time | `*_parse` over partial input | any split of the input, limits | the split does not matter |
| Controller, context (`controller.c`, `context.c`) | the response's headers and body, its result | `dispatch`, `smolrtsp_header`, `smolrtsp_respond` | header capacity, failing responses | each handler once, `after` always |
| AV1 transport (`av1_transport.c`) | packet size limit | `send_temporal_unit` | continuation bits over failures | elements whole, N and marker where they belong |
| JPEG transport (`jpeg_transport.c`) | packet size limit | `send_frame` | header space, 24-bit offsets | offsets cover the scan exactly |
| JPEG XS transport (`jpegxs_transport.c`) | frame counter F | `send_codestream`, `send_slice`, `send_header_segment` | F, SEP and P wrap; failure in a frame | packets of a frame are distinguishable |
| Example server (`examples/server.c`) | per client: streams, transports, timers, count of playing streams | RTSP methods, timer callbacks, disconnect | any order of methods | resources freed exactly, timers only run on what is alive, the connection ends when all is played out |
| RTP header, RTCP (`types/rtp.c`, `types/rtcp.c`) | none | `size`, `serialize` | padding, length fields | octets written = octets announced |
| SDP, error printing, tables | none | formatting | - | compared with text in `tests/` |

Calls go down: codec transport, RTP transport, UDP or TCP transport, Writer.
The only objects shared between callers are the Writer (by all streams of a
client and by its responses) and, in the example, the client record.

## Modules

| Module | Models | State and actions |
|---|---|---|
| `RtpTransport` | `SmolRTSP_RtpTransport`, a call being atomic | the struct's fields and `wire`; `SendPacket` |
| `RtpUdp` | the same over `udp.c`, one system call per step | adds `call`; `Call` enters, `SendmsgAccepts`, `SendmsgTooBig`, `SendmsgFails` are what a `sendmsg` may answer, `Return` accounts |
| `NalTransport` | `nal_transport.c` over `RtpTransport`, one packet per step; network and receiver (external) | `call` (unit, loop index), `rx`; `Call`, `SendSingle`, `SendChunk`, `SendRemainder`, `FinishLoop`, `Return` |
| `NalDelivery` | nothing: the promise `NalTransport` implements | `Offer`, `Deliver`, `Answer`, `Return` |
| `WireHeaders` | octets of NAL unit and fragmentation unit headers, of the RTP header and of RTCP packets | no state: operators, used by `NalTransport` and proved about |
| `Av1Transport` | `av1_transport.c`, `av1.c` over `RtpTransport`, one packet per step; network and receiver | `call` (element, octets sent), `units`; `Call` parses the unit (`parse_obus`, `leb128_decode`), `SendChunk`, `Return` |
| `JpegXsTransport` | `jpegxs_transport.c`, likewise | `frame_counter`, `call` (SEP, P, chunk); `send_codestream`, `send_header_segment`, `send_slice`, `SendChunk`, `Return` |
| `JpegTransport` | `jpeg_transport.c`, likewise | `call` (frame, offset); `Call`, `SendChunk`, `Return` |
| `TcpInterleaved` | `tcp.c`, the Writer, responses and the framing parser on one connection | `lock`, `out`, per-stream `call`; `Send`, `Lock`, `Write`, `WriteStops`, `Unlock`, `Return`, `Respond`, `RespondStops`, `PeerFrame`, `PeerText` |
| `Connection` | the parsers of `types/`, serialization, `controller.c` and `context.c` | `wire`, `buffer`, `delivered`, `ctx`; `Receive` any number of octets, `Parse` from the start of the buffer, `Dispatch`, `Continue`, `AddHeader`, `SetBody`, `smolrtsp_respond`, `Leave`, `After` |
| `Session` | one client of `examples/server.c` and the Transport header (`util.c`) | per stream its record and its contexts, `transports`, `streams_playing`, the requests that reached streams never set up (`strays`); the RTSP methods, `SendPacket`, `StreamEnds`, `PeerCloses`, `LoopExits`; `UsesFreed` is a callback on freed memory |
| `ExampleMedia` | how the example's streams walk their files | `ctx`, `sent`; one action per timer callback and per turn of the start code and temporal unit scans |
| `MC*` | values of the constants for TLC | |
| `ConnectionProofs` | theorems on `TcpInterleaved` and `Connection`, the two directions of a connection | |
| `ServerProofs` | theorems on `Session` and `ExampleMedia` | |
| `RtpTransportProofs` | lemmas on division, remainder, wrapping and the clock conversion, which the proofs of the codecs use; theorems on `WireHeaders` | |
| other `*Proofs` | theorems on the module they are named after | |

Definitions whose names end in a fault (`Account_failures`,
`SendChunk_unchecked`, ...) are mutants: plausible bugs of the definition whose
name they extend, used to make sure each property can fail.

Abstractions. Octets of a payload are an offset and a length. The widths of C
types are the constants `U16`, `U32`, `U64`; that 2^64 is a multiple of 2^32
is an assumption the conversion needs and the small widths keep. Memory
allocation succeeds (the code asserts it). Assertions of the code on its
configuration are assumptions on constants. SSRC, payload type and the octets of
RTP headers do not vary within a stream and are left out.

The network may lose a packet, but it neither reorders nor duplicates, and it
loses fewer than `U16` in a row: a depacketizer behind a jitter buffer sees
just that. The receivers follow RFC 6184 5.8 (an S fragment begins a unit, a
fragment without a gap in the sequence numbers extends it, E ends it), the AV1
RTP specification 4.4 (Z and Y), RFC 2435 (offset 0 and the marker) and RFC 9134
(F, SEP, P and L); each knows header fields and sequence numbers only, what it
is compared with is carried along as a ghost.

In `TcpInterleaved` a write copies token by token and other threads may step in
between, because a Writer is user code and only its lock makes a write atomic.
`deploy` says who runs what: one event loop (the example), a thread per stream,
or a thread per stream beside one answering requests. A failed write of a
response skips to the next group of writes, or to the end (`RespondStops`).
Packets are shorter than 2^16 octets (`TcpAssumption`); the library does not
enforce it, every packetizer's default does.

In `Connection` an octet is a string, words like `PLAY` being one: a split
inside a word is left out, every other split is possible. What lies in memory
behind the buffer is a variable, because `match_numeric` looks at it. A write of
a response that fails ends its group of writes; the next group is tried, or
fails as well (`Written`). `before` and the handlers may do any of this, in any
order and more than once; `after` gets the result of the last response. Reading
the connection and draining the buffer is external: the libevent adapter is not
in this repository, its loop is taken from the way `examples/server.c` relies on
it. A parser is an operator of the octets that have arrived and the place it
starts at; the two loops, over headers and over frames before a message, are
tables of their turns.

In `Session` a request or a timer callback is one step, since one event loop
runs them all. Streams have a finite number of packets or loop; which packets
these are is `ExampleMedia`. A step on freed memory, or on a transport or event
that is not there, leads to `loop = "undefined"`, after which nothing is claimed;
so does a failing assertion. A packetizer asserts the transport it is given
(`nal_transport.c:38`): `AnswerPlay` has both builds, the one that stops there and
the one without assertions, which goes on to the first callback or to the end of
the connection. Session ids are what `rand()` gives and what a peer may name, the
0 that `calloc` leaves in every stream included; `strays` records what a request
for such a session reached.

In `Av1Transport` sizes are read as a `uint64_t` and the end of a payload is a
sum of 64 bits, as in `av1_transport.c:110`. `UnitsFit` names the bound on what a
caller passes: units shorter than 2^64 octets as an encoder made them, whole or
cut, with which that sum does not wrap.

## Runs

| Run | Shows | Bounds |
|---|---|---|
| `rtp_udp` | numbering without gaps, counters equal to the wire, no drift, calls return, and the retry loop implements the atomic transport | 5 packets; sequence numbers wrap at 4, counters and timestamps at 16, the microsecond sum at 64; 3 tries; two clock rates, two origins, raw and clock timestamps |
| `nal` | sizes, markers, whole delivery, headers rebuilt by the receiver, meaning of a 0 answer, calls return, and `NalDelivery` | 3 units of two codecs; lengths that just fit, exceed by one, divide into chunks, leave a rest; numbers wrap at 4 |
| `av1` | what is parsed is what was encoded, elements whole through failures and losses, marker and N where promised, meaning of a 0 answer | 2 units of 5 shapes, cut short anywhere; LEB128 groups of 4 values, so sizes need two octets; at most 3 OBUs a unit; numbers wrap at 4 |
| `jpegxs` | units told apart by F, SEP, P and L alone; F counts completed frames; SEP and P locate every packet; L and marker | 3 units in both packing modes, empty, filling their last packet, leaving a rest, past the wrap of P; F wraps at 2, P and SEP at 4 |
| `jpeg` | sizes, whole frames for a receiver that reads header fields, meaning of a 0 answer | 3 frames with and without restart header and tables, empty, exact, one more, and as long as the offset allows (16) |
| `tcp` | the peer decodes everything unless a write was cut short, numbering without gaps even then, bounded backlog, the lock is released, what was accepted arrives | 3 packets on one stream (its numbers wrap), 1 on another, lengths 1 and 2, a response of 2 writes, every write may stop at every point |
| `tcp_threads` | violation: with a thread answering requests beside the senders, a response is written into a frame, though no write failed | as `tcp`, no write stops |
| `connection` | messages that arrive at once are those that were serialized (`ReadsBack`); in every split they are read as at once, the same messages and the same failures but for two splits the properties name (`ReadAsAtOnce`, `SplitsDoNotMatter`), and nothing complete is left in the buffer | 13 servers' and 3 clients' peers: messages back to back, frames between them, bodies that look like the end of headers, a full header map (3), each way a message can be malformed; two octets behind the buffer |
| `conn_split` | violation: a full header map with nothing of its closing CRLF behind it is an error, not partial | as `connection`, the octet behind the buffer harmless |
| `conn_response` | violation: a response that was cut short is reported as written | as `connection` |
| `session` | what runs is alive, the connection ends when all is played out and not before, the end frees exactly the transports last played, and something that plays ends | 2 finite streams, one of them without a packetizer, and a looping one; 2 session ids, one of them the 0 of streams never set up; 4 requests of any kind, disconnects and shutdown anywhere |
| `media` | every unit of a file (of AV1, every unit its table of `AV1_MAX_TUS` holds) is sent whole, in order, in pace, with its timestamp; loops and ends included | audio of 0 to 7 samples in packets of 3; access units with delimiters, start codes of 3 and 4 octets mixed in every way, zeros and ones inside units; 3 AV1 streams around a table of 2 units; up to 9 units sent |

Bounds are enough for every pair of interesting events to meet: each counter
wraps, each loop has a first, a middle and a last turn, a failure can hit every
turn, and a second unit, stream or response follows it. Deadlock checking is off
where the bound on calls lets the system stop.

Fairness is stated where a property needs it, in `rtp_udp`, `nal`, `tcp` and
`session`; the other runs check safety. A thread inside the library goes on
(weak fairness of its steps), and `sendmsg` and `write` return. Nobody has to
call the library, and neither the kernel nor the network owes a success.
`LockReleased` and `AcceptedArrives` need no fairness of the lock itself. In
`session` the event loop serves every armed timer (weak fairness per timer,
which libevent's queue gives); no peer has to send a request or to leave.

## Findings

Three places where the code and what the repository says of it differ:

- `tcp_threads`. `include/smolrtsp/writer.h:34` documents the lock as the
  protection of TCP interleaved channels. `SmolRTSP_TcpTransport_transmit` takes
  it; `SmolRTSP_Response_serialize` and everything it calls does not, and writes
  a response in pieces. With one thread this is harmless (`tcp`); with a thread
  answering requests beside senders it is not.
- `conn_split`. `SmolRTSP_HeaderMap_parse` (`header_map.c:84`) reports an
  overflow when the map is full and nothing of the closing CRLF has arrived.
  `tests/types/test_util.h:29` demands that every proper prefix of a message is
  partial; the messages it is used with have few headers.
- `conn_response`. A write that fails after others succeeded makes serialize
  return the octets written before (`macros.h:9`), which is not negative.
  `include/smolrtsp/context.h:109` and `controller.h:131` promise a negative
  result on error.

Limits of the code that the models keep, or exclude by a named assumption:

- `match_numeric` looks at the octet behind the buffer (`parsing.c:130`); a
  split behind `RTSP/` can fail for it (named in `SplitsDoNotMatter`).
- The example's `send_nalu` passes `is_au_end` true with every NAL unit
  (`server.c:952`), which is not what `nal_transport.h:121` asks of a caller, the
  last unit of an access unit only. `MarkerEndsAccessUnit` is about the transport
  and whatever it is told; a run about the example would restate the constant.
- The example answers a SETUP that lacks a parameter twice, 400 and 500
  (`setup_transport`), and a port range with one number leaves the second
  uninitialized (`util.c:121`), which only shows in the text of the answer.
- PLAY twice, TEARDOWN before PLAY, SETUP twice and a malformed `Session`
  header leave timers, undefined behaviour or transports behind, as
  `TimersAreSafe` and `FreedExactly` spell out.
- The session id of a request is the peer's, and `calloc` leaves 0 in the streams
  that were never set up (`server.c:332`). `PLAY` with `Session: 0` starts these
  without a transport (`server.c:576`), `TEARDOWN` calls `event_del` on events
  that do not exist (`server.c:638`). `TimersAreSafe` says that only the id 0 does
  this (`strays`).
- A size in an AV1 unit near 2^64 wraps the sum of `av1_transport.c:110` and
  passes the check. No unit in memory has a payload that long, so no unit of an
  encoder, whole or cut, has such a size; other octets are excluded (`UnitsFit`).
- AV1 units behind the first `AV1_MAX_TUS` of a file are never sent
  (`server.c:1077`).
- A torn write on a TCP connection cannot be recovered from (`tcp.c:85`).
- In slice mode more than 2^11 packets of one slice share counters
  (`jpegxs_transport.c:168`), and an RTP header extension of 2^14 words or more
  is never copied (`rtp.c:90`).

## Proofs

`tlapm` checks them with SMT, Zenon and LS4; they hold for every width, clock
rate, origin, unit length, packet size and number of packets that satisfies the
named assumptions, and without the models' bounds having any particular value.

- `UdpTypeCorrect`, `SequenceNumbersGapless`, `CountersAreExact`,
  `TimestampsDoNotDrift` and `LoopImplementsTransport` rest on one inductive
  invariant, `UdpIInv`. None of
  them is inductive alone: while a call is in progress its packet must carry
  the current sequence number (`PacketCurrent`), a packet the kernel took but
  the struct has not counted is the last on the wire (`JustSent`), and the
  number is the wire's length modulo 2^16 (`Counted`). For drift every packet's
  timestamp must be the conversion of what its caller passed (`Stamped`); the
  rest is arithmetic: the two truncations of the conversion are one floor
  (`ExactTicks`), and two floors differ from the floor of the difference by at
  most one (`TickDistance`). The octet count is a sum over the wire; that a
  packet adds its octets to it (`SumAppend`) is shown by induction over its
  length, as membership of every length in a set (`SetInduction`).
- `NalTypeCorrect`, `FragmentsAreWellFormed` and `MarkersEndAccessUnits` rest
  on `NalWireOK`. The arithmetic of chunks (`Chunks`, `Turn`, `Rest`) shows
  that a turn of the loop carries exactly one chunk, that the flag the code
  computes is set exactly when the chunk reaches the unit's end, and that the
  first chunk never does.
- `UnitsAreDeliveredWhole` and `PacketizerImplementsDelivery` rest on
  `NalIInv`, which adds what the receiver knows of the sender. It has counted
  along: the next number is the one it expects plus the packets lost since
  (`InStep`), so, fewer than 2^16 being lost in a row, it takes a fragment for
  the next one only when nothing was lost (`OtherResidue`, `AppendedNext`).
  What it then holds is what the loop has sent (`Joins`). A failed call leaves
  fragments behind without a gap, and only the S bit of the next unit drops
  them: that is why `Joins` speaks of a loop past its first turn. For the
  refinement a unit must not be finished before its last fragment is out, nor
  before it is offered (`NotEarly`).
- `SuccessIsDelivery` adds `Arriving` to it: while a unit has lost no packet,
  what the loop has sent is with the receiver, without a gap behind it; with
  `InStep` the next fragment then joins (`Arrives`) and the last one finishes
  the unit.
- `HeadersSurvive` and `HeadersAreDelivered`: the three octets of a fragment's
  headers are taken apart by division as a receiver does, for every header of
  the codec; then any fragment the packetizer sends gives back the header of
  its unit.
- `RtpHeadersFit`, `SenderReportsFit`, `ReceiverReportsFit`,
  `SourceDescriptionsFit` and `GoodbyesFit` (`RtpTransportProofs`) are about
  octets, for every text and every header whose extension has less than 2^14
  words (`RtpHeaderOK`). An RTCP packet is a chain of concatenations; `Begins`
  says what its first octets are and how long it is, and is carried through the
  chain one field at a time. The
  rest is rounding up to a multiple of four: the padding is never negative, and
  the length field, the buffer's size and the octets written agree.
- `CountersLocateEveryChunk`, `LastAndMarkerEndUnits` and
  `FrameCounterIsExact` (`JpegXsTransportProofs`). `CallOK` ties SEP and P of the
  call to the chunk it is at. `CeilDiv` and `Chunk` show that the chunk the
  code counts as last is the one that reaches the unit's end and that no other
  does; units no longer than the counters' capacity keep SEP from wrapping; the
  SEP of a header segment is no slice's, so its packets never carry the marker.
  F is the number of markers because it always is what the last packet says the
  next one has to carry (`FrameCounted`).
- `XsUnitsAreDeliveredWhole` rests on `UnitsIInv`. What the receiver holds is
  the beginning of one unit with a packet yet to come (`HeldOK`): a unit that
  uses up the counters ends with its last packet, so the counters it waits for
  are never those of another unit's first. As for NAL units the receiver has
  counted along (`Counted`) and holds what the loop has sent (`Joins`); that a
  packet of another unit never continues the one it holds is the arithmetic of
  SEP and P (`Starts`, `Continues`).
- `EveryPacketFits` (`JpegTransportProofs`). Only the first turn of the loop is
  at offset 0, so only the first packet has the tables, and each packet's room
  is at least one octet; a turn that is not the last leaves a positive offset
  below the frame's length (`CallOK`), which is why the 24 bits suffice.
- `FramesAreReassembled` and `FrameSuccessIsDelivery` rest on `FramesIInv`, of
  the same form. The receiver goes by the fields of the packets: it finds the
  headers' size from type, Q and offset (`HeadersTell`), and appends only what
  begins where the last fragment ended, with its timestamp and the next number.
  A finished frame has to be over for the sender (`DoneOK`), or its length
  would not be that of every packet of the frame. `Arriving` again is what
  makes a 0 answer mean delivery.
- `TcpTypeCorrect`, `AcceptedHaveNoGap` and `LockExcludesWrites`
  (`ConnectionProofs`), for any number of streams and any deployment. The
  stream in its write, or just behind it, is the one with the lock
  (`LockHeld`). Each stream's next number is the count of its packets written
  whole, one less while such a packet's call has yet to return (`StreamOK`,
  `Taken`); a step of one stream leaves that of the others alone
  (`OneStream`).
- `BacklogIsBounded`. A stream that was told there is room has octets of its
  frame still to write; the bound on what is buffered is inductive only with
  those added to it (`Backlog`, `Pending`): looking adds a frame of one stream
  at once, and from there each octet moves from one side to the other.
- `ConnectionIsDecodable`, for every deployment but the one with threads, where
  `tcp_threads` refutes it. `Layout` describes the connection's octets: between
  whole frames and the frame being written there are only whole pieces of
  responses, and each packet written and not yet received begins at a place of
  its own, in the order of its stream (`Located`), at which alone a frame can
  begin (`Accounted`). Reading takes a message off the front and moves every
  place (`ConsumeKeeps`); that nothing is answered while a packet is sent
  (`Exclusive`) is what keeps a response out of a frame.
- `ReadingIsAtOnce`: `ReadAsAtOnce`, for whatever a peer sends, well-formed or
  not, every split, every octet behind the buffer and every limit of the parser.
  What the properties compare with, all that is sent read at once, is a table
  of messages (`AtOnce`); the invariant `ReadSoFar` says that the messages so
  far are its first ones, and buffer and wire together what it has left. The
  work is in the parsers. Each finds again what it found when more octets have
  arrived (`Stays`: a result that is complete or a failure is the same then),
  which is shown for the matchers, the parts of a message, a turn of each loop and
  the loops (`HeaderMapStays`, `SkipFramesStays`), and so for a message
  (`ParsedStays`); the tables exist by induction over their length
  (`TurnsExist`). Two failures do not stay and are excused (`Excused`), each
  with what the buffer has to end in: a full header map whose end has not
  arrived, and a version of which no digit has. A message takes octets that have
  arrived, at least one, so reading it moves the table by one turn (`ReadsOn`).
  Where the octets that are sent end in a carriage return nothing is claimed:
  there a parser may wait for more (`header_map.c:76`) that never comes.
- `SplitsAreHarmless`: for traffic whose octets do not end in a carriage return,
  `SplitsDoNotMatter` follows from `ReadsBack`, which speaks of traffic that
  arrives at once and so of no split (`UnderstoodInv`, `PiecesAreUnderstood`).
  Both theorems assume `ConnectionAssumption`: the limits are numbers, a header
  map holds at least one header, and what is sent are octets of the alphabet.
- `MarkersMeanWholeUnits` and `NewSequencesComeFirst` (`Av1TransportProofs`)
  rest on `SenderInv`. The parser gives the sender non-empty elements, as many as
  it says, of whatever was cut off an encoder's octets (`ParsedUnit`, from the
  lemmas of `UnitsParseBack`). Of the unit being sent, no packet
  reaches past the call's place (`NoneAhead`) and every octet before it has a
  packet (`AllBehind`): so the packet that takes the place to the end of the
  last element is the first to complete the unit, and the one that leaves the
  beginning is the first of it.
- `ElementsAreDeliveredWhole` and `UnitSuccessIsDelivery` rest on
  `ReceiverInv`: the receiver has counted along (`CountsRight`), finished only
  elements before the call's place, in order (`DoneOK`, `NonePast`), and holds
  the octets up to that place if it lost none of them (`Abreast`); then the next
  chunk joins to the octets up to its end (`NextChunk`).
- `UnitsParseBack`: `ParsesBack`, for every temporal unit of less than 2^64
  octets, cut anywhere. The invariant is `UnitsRead`, about each unit by itself
  (`FromStream`); the work is in the parser. The digits the encoder writes of a
  size are quotients and remainders (`LeftIs`, `EncodeIs`), which the decoder's
  sum takes back, one digit at a time from the last (`NumberIs`); it reads a size
  as far as it is there and no further (`DecodeWhole`, `DecodeCut`). The octets of
  an OBU lie at places that its header tells (`ObuLayout`), so one turn of the
  loop takes a whole OBU (`TurnWhole`) and refuses one that was cut (`TurnCut`),
  and after k turns the first k OBUs are read (`LoopReaches`). A stream ends at
  an OBU or in one (`CutWhere`); a last OBU without size that lost the end of its
  payload is the same unit with a shorter OBU (`ShorterUnit`). Assumed of the
  caller: only the last OBU lacks its size (`Av1Assumption`), sizes take no
  more octets than `LEB128_MAX_SIZE` (`SizesFit`), which `av1.h:85` states of the
  encoder, and units as encoded are shorter than 2^64 octets (`UnitsFit`), so that
  neither a size nor the end of a payload wraps (`NoWrap`).
- `SessionTypes`, `TimersNeverDangle`, `PlayedOutIsClosed` and `FreedIsExact`
  (`ServerProofs`) rest on `SessionIInv`, for any streams, media length and
  number of requests, whatever session ids the peer names. A stream's record knows
  the latest of its contexts, and a context has a transport unless a PLAY of
  session 0 started it (`RecordsOK`); only the id 0 reaches streams that were not
  set up (`StraysOK`); nothing is freed before the connection ends, and then the
  latest context of every stream is (`Alive`).
  The count of playing streams is a cardinality: a step that creates or ends a
  context adds or takes one element of the set of those that have not ended.
- `UnitsAreSentWhole` and `UnitsArePaced` (`ServerProofs`) hold for every file
  that `MediaAssumption` admits, whatever its length: audio of any number of
  samples; NAL units that hold no start code and do not end in a zero octet, as
  Annex B demands, with one start code throughout (H.264) or both (H.266); AV1
  temporal units that begin with their only delimiter, any OBU but the last of
  the stream with its size. `MediaInv` says what the properties leave open, the
  place in the file between two packets. For NAL units (`NalOK`) the search
  stands in the unit whose turn it is, between its first octet and the one
  behind its last: a file put together from units is one octet after another
  (`JoinedAt`, by induction over the parts), and at a place inside a unit no
  tester finds a start code (`InsideUnit`), not even across the unit's end,
  while at a seam it finds the whole one (`AtSeam`). The fitting tester is the
  one the code determines at the start (`TesterFits`). For AV1 (`Av1OK`) the
  search is at an OBU of an open temporal unit, the list has the units before
  it as far as `AV1_MAX_TUS` allows (`SplitAt`, `ClosedIs`), and offsets add up
  (`OctetsOfBoth`). That a callback begins at most one access unit is inductive
  only with what a callback still running may have sent (`TicksOK`). A
  by-product: the test for the end of the file at the beginning of
  `send_vvc_packet_cb` never succeeds (`VideoCallback`), as no callback ends
  there.

Left to TLC:

- everything under fairness (`CallReturns`, `LockReleased`, `AcceptedArrives`,
  `PlayedOutCloses`), which TLAPS does not handle;
- `ReadsBack`, that parsing takes back what serializing wrote: for the messages
  of the run only. It is no induction over steps (nothing but what is sent
  matters) but over the contents of messages, header by header and digit by digit,
  and it needs to be said which headers and lines a caller may serialize, which
  the code does not check;
- `SplitsDoNotMatter` for traffic that ends in a carriage return, of which the run
  has a case.

## Not modelled

- Creating, binding and closing sockets, and the drop functions of the
  transports: one system call or one `free` each.
- The formatted output of Writers, SDP, the printing of errors, tables of
  constants: text without a decision a property would be about.
- The octets of the JPEG and JPEG XS payload headers: their fields are modelled,
  their encodings are compared octet by octet in `tests/`.
- The predicates on NAL unit types, which nothing in the repository calls: the
  example compares the unit type itself (`IsAud`).
- `smolrtsp_scanf_header`: the C library's `scanf`; only its success shows.
- The libevent adapter and the H.26x and AV1 encoders, which are not in this
  repository, beyond what the code relies on.
- Allocation failure, which the code asserts away.
