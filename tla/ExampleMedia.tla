---------------------------- MODULE ExampleMedia ----------------------------
(***************************************************************************)
(* How the streams of examples/server.c walk through their media: one      *)
(* context of one stream, from PLAY on. A timer callback is a Tick; the    *)
(* search for start codes is one step per turn of its loop. What happens   *)
(* to the packets is the codec transports' business.                       *)
(***************************************************************************)
EXTENDS Integers, Sequences, FiniteSets

CONSTANTS
  Media,                    (* the files: records with a kind, see below     *)
  AUDIO_SAMPLES_PER_PACKET,
  TS_STEP,                  (* *_SAMPLE_RATE / *_FPS                         *)
  AV1_MAX_TUS,
  MaxSent                   (* bound of the model: units sent before a tick  *)

TEMPORAL_DELIMITER == 2

Octet == 0 .. 255

AudioFile(m) == m.len \in Nat

(* Annex B: a NAL unit holds no start code and does not end in a zero      *)
(* octet; H.264 files use one start code throughout, H.266 files both.     *)
NalFile(m) ==
  /\ m.nals \in Seq(Seq(Octet)) /\ m.nals # << >>
  /\ m.codes \in [1 .. Len(m.nals) -> {3, 4}]
  /\ m.kind = "video" => \A k \in 1 .. Len(m.nals) : m.codes[k] = m.codes[1]
  /\ \A k \in 1 .. Len(m.nals) :
       LET nal == m.nals[k]
       IN  /\ nal # << >> /\ nal[Len(nal)] # 0
           /\ \A i \in 1 .. Len(nal) - 2 : ~ (nal[i] = 0 /\ nal[i + 1] = 0 /\ nal[i + 2] = 1)

(* A raw AV1 stream: temporal units begin with their one delimiter. OBUs   *)
(* know their length, the last one may end with the stream.                *)
Obus == [type : Nat, len : Nat \ {0}, has_size : BOOLEAN]
Av1File(m) ==
  /\ m.tus \in Seq(Seq(Obus) \ {<< >>}) /\ m.tus # << >>
  /\ \A t \in 1 .. Len(m.tus) : \A j \in 1 .. Len(m.tus[t]) :
       /\ m.tus[t][j].type = TEMPORAL_DELIMITER <=> j = 1
       /\ ~ m.tus[t][j].has_size => t = Len(m.tus) /\ j = Len(m.tus[t])

ASSUME MediaAssumption ==
  /\ AUDIO_SAMPLES_PER_PACKET \in Nat \ {0} /\ TS_STEP \in Nat \ {0}
  /\ AV1_MAX_TUS \in Nat \ {0} /\ MaxSent \in Nat
  /\ \A m \in Media :
       /\ m.kind \in {"audio", "video", "vvc", "jpegxs", "av1"}
       /\ m.kind = "audio" => AudioFile(m)
       /\ m.kind \in {"video", "vvc"} => NalFile(m)
       /\ m.kind = "av1" => Av1File(m)

VARIABLES
  media,    \* the file that is played
  data,     \* its octets, or for AV1 its OBUs
  ctx,      \* the context's fields
  stage,    \* split, idle, scan (inside a callback) or ended
  ticks,    \* callbacks so far
  sent      \* what went to the codec transport, in order

mediaVars == <<media, data, ctx, stage, ticks, sent>>

-----------------------------------------------------------------------------
(* src/nal.c: start codes. *)

Zeros(n) == [i \in 1 .. n |-> 0]
start_code(n) == Zeros(n - 1) \o <<1>>

(* smolrtsp_test_start_code_3b and _4b at a position of the data. *)
test_start_code(n, pos) ==
  IF pos + n - 1 <= Len(data) /\ SubSeq(data, pos, pos + n - 1) = start_code(n) THEN n ELSE 0

(* The tester that fits the beginning of the data. *)
determine_start_code(octets) ==
  CASE SubSeq(octets, 1, 3) = start_code(3) -> 3
    [] SubSeq(octets, 1, 4) = start_code(4) -> 4

(* Mutant: the short code only; a long one leaves a zero behind. *)
vvc_test_start_code_3b(pos) == test_start_code(3, pos)

(* H.266 files mix both codes. *)
vvc_test_start_code(pos) ==
  IF test_start_code(4, pos) # 0 THEN 4 ELSE test_start_code(3, pos)

StartCodeLen(pos) ==
  IF media.kind = "vvc" THEN vvc_test_start_code(pos)
  ELSE test_start_code(ctx.start_code_tester, pos)

-----------------------------------------------------------------------------

(* Parts one behind the other; the octets of OBUs. *)
Joined(parts) ==
  LET upto[k \in 0 .. Len(parts)] == IF k = 0 THEN << >> ELSE upto[k - 1] \o parts[k]
  IN  upto[Len(parts)]

Octets(obus) ==
  LET upto[k \in 0 .. Len(obus)] == IF k = 0 THEN 0 ELSE upto[k - 1] + obus[k].len
  IN  upto[Len(obus)]

Parts(m) == [k \in DOMAIN m.nals |-> start_code(m.codes[k]) \o m.nals[k]]
AnnexB(m) == Joined(Parts(m))

(* A fresh context. The last two fields of AV1 are those of the search for *)
(* temporal units.                                                         *)
play_audio == [i |-> 0]
play_video(m) == [video |-> 1, nalu_start |-> 0, timestamp |-> 0,
                  start_code_tester |-> determine_start_code(AnnexB(m))]
play_vvc == [video |-> 1, nalu_start |-> 0, timestamp |-> 0]
play_jpegxs == [timestamp |-> 0]
play_av1 == [timestamp |-> 0, tus |-> << >>, tu_index |-> 0, pos |-> 0, tu_start |-> -1]

Context(m) ==
  CASE m.kind = "audio"  -> play_audio
    [] m.kind = "video"  -> play_video(m)
    [] m.kind = "vvc"    -> play_vvc
    [] m.kind = "jpegxs" -> play_jpegxs
    [] m.kind = "av1"    -> play_av1

MediaInit ==
  /\ media \in Media
  /\ data = CASE media.kind \in {"video", "vvc"} -> AnnexB(media)
              [] media.kind = "av1" -> Joined(media.tus)
              [] OTHER -> << >>
  /\ ctx = Context(media)
  /\ stage = IF media.kind = "av1" THEN "split" ELSE "idle"
  /\ ticks = 0
  /\ sent = << >>

Tick == stage = "idle" /\ Len(sent) < MaxSent /\ ticks' = ticks + 1 /\ UNCHANGED <<media, data>>

Sends(unit, ts) == sent' = Append(sent, [unit |-> unit, ts |-> ts, tick |-> ticks'])

-----------------------------------------------------------------------------
(* G.711 audio *)

samples_count ==
  IF media.len < ctx.i * AUDIO_SAMPLES_PER_PACKET + AUDIO_SAMPLES_PER_PACKET
  THEN media.len % AUDIO_SAMPLES_PER_PACKET
  ELSE AUDIO_SAMPLES_PER_PACKET

send_audio_packet_cb ==
  LET offset == ctx.i * AUDIO_SAMPLES_PER_PACKET
  IN  /\ media.kind = "audio" /\ Tick
      /\ IF offset >= media.len
         THEN stage' = "ended" /\ UNCHANGED <<ctx, sent>>
         ELSE /\ Sends([from |-> offset, count |-> samples_count], offset)
              /\ ctx' = [ctx EXCEPT !.i = @ + 1]
              /\ UNCHANGED stage

-----------------------------------------------------------------------------
(* H.264 and H.266 video *)

IsNal(m) == m.kind \in {"video", "vvc"}

(* An access unit delimiter: H.264 type 9 in one octet, H.266 type 20 in   *)
(* the second of two.                                                      *)
IsAud(m, unit) == IF m.kind = "video" THEN unit[1] % 32 = 9 ELSE unit[2] \div 8 = 20

nalu == SubSeq(data, ctx.nalu_start, ctx.video - 1)

(* send_nalu and send_vvc_nalu: a delimiter moves the timestamp on, and    *)
(* every unit is sent as the end of its access unit.                       *)
send_nalu(next) ==
  LET ts == ctx.timestamp + (IF IsAud(media, nalu) THEN TS_STEP ELSE 0)
  IN  /\ Sends(nalu, ts)
      /\ ctx' = [next EXCEPT !.timestamp = ts]

Empty == ctx.video > Len(data)
Rewound == [ctx EXCEPT !.video = 1, !.nalu_start = 0]

(* A callback begins; VVC looks for the end of the file here as well.      *)
send_video_packet_cb ==
  /\ IsNal(media) /\ Tick
  /\ IF media.kind = "vvc" /\ Empty THEN send_nalu(Rewound) ELSE UNCHANGED <<ctx, sent>>
  /\ stage' = "scan"

InScan == IsNal(media) /\ stage = "scan" /\ UNCHANGED <<media, data, ticks>>

(* The last unit ends with the file; the stream ends, or starts over.      *)
EndOfFile ==
  /\ InScan /\ Empty
  /\ IF media.kind = "vvc" THEN send_nalu(Rewound) /\ stage' = "idle"
     ELSE send_nalu(ctx) /\ stage' = "ended"

NoStartCode ==
  /\ InScan /\ ~ Empty /\ StartCodeLen(ctx.video) = 0
  /\ ctx' = [ctx EXCEPT !.video = @ + 1]
  /\ UNCHANGED <<stage, sent>>

(* Mutant: goes on after a delimiter. *)
StartCode_goes_on ==
  LET code == StartCodeLen(ctx.video)
      next == [ctx EXCEPT !.video = @ + code, !.nalu_start = ctx.video + code]
  IN  /\ InScan /\ ~ Empty /\ code # 0
      /\ IF ctx.nalu_start = 0 THEN ctx' = next /\ UNCHANGED sent ELSE send_nalu(next)
      /\ UNCHANGED stage

(* A start code ends the unit before it. A callback is over after a        *)
(* delimiter.                                                              *)
StartCode ==
  LET code == StartCodeLen(ctx.video)
      next == [ctx EXCEPT !.video = @ + code, !.nalu_start = ctx.video + code]
      au_found == ctx.nalu_start # 0 /\ IsAud(media, nalu)
  IN  /\ InScan /\ ~ Empty /\ code # 0
      /\ IF ctx.nalu_start = 0 THEN ctx' = next /\ UNCHANGED sent ELSE send_nalu(next)
      /\ stage' = IF au_found THEN "idle" ELSE "scan"

-----------------------------------------------------------------------------
(* JPEG XS: one codestream, again and again. *)

send_jpegxs_packet_cb ==
  /\ media.kind = "jpegxs" /\ Tick
  /\ ctx' = [ctx EXCEPT !.timestamp = @ + TS_STEP]
  /\ Sends("codestream", ctx'.timestamp)
  /\ UNCHANGED stage

-----------------------------------------------------------------------------
(* AV1: temporal units. data holds OBUs with their length in octets.       *)

stream_len == Octets(data)
ObuAt(pos) == data[CHOOSE j \in DOMAIN data : Octets(SubSeq(data, 1, j - 1)) = pos]

(* The temporal unit that is open is over at pos, if there is room. *)
Closed(pos) ==
  IF ctx.tu_start # -1 /\ Len(ctx.tus) < AV1_MAX_TUS
  THEN Append(ctx.tus, [offset |-> ctx.tu_start, length |-> pos - ctx.tu_start])
  ELSE ctx.tus

(* One OBU of split_av1_temporal_units: without a size field it takes the  *)
(* rest of the stream.                                                     *)
SplitObu ==
  LET obu == ObuAt(ctx.pos)
      end == IF obu.has_size THEN ctx.pos + obu.len ELSE stream_len
  IN  /\ stage = "split" /\ ctx.pos < stream_len
      /\ ctx' = IF obu.type = TEMPORAL_DELIMITER
                THEN [ctx EXCEPT !.pos = end, !.tus = Closed(ctx.pos), !.tu_start = ctx.pos]
                ELSE [ctx EXCEPT !.pos = end]
      /\ UNCHANGED <<media, data, stage, ticks, sent>>

SplitEnds ==
  /\ stage = "split" /\ ctx.pos >= stream_len
  /\ ctx' = [ctx EXCEPT !.tus = Closed(stream_len)]
  /\ stage' = "idle"
  /\ UNCHANGED <<media, data, ticks, sent>>

send_av1_packet_cb ==
  /\ media.kind = "av1" /\ Tick
  /\ ctx' = [ctx EXCEPT !.timestamp = @ + TS_STEP,
                        !.tu_index = (@ + 1) % Len(ctx.tus)]
  /\ Sends([range |-> ctx.tus[ctx.tu_index + 1], is_new_cvs |-> ctx.tu_index = 0],
           ctx'.timestamp)
  /\ UNCHANGED stage

MediaNext ==
  \/ send_audio_packet_cb
  \/ send_video_packet_cb \/ EndOfFile \/ NoStartCode \/ StartCode
  \/ send_jpegxs_packet_cb
  \/ SplitObu \/ SplitEnds \/ send_av1_packet_cb

MediaSpec == MediaInit /\ [][MediaNext]_mediaVars

-----------------------------------------------------------------------------

Lesser(a, b) == IF a <= b THEN a ELSE b

(* The k-th unit of a seq that is repeated. *)
Cyclic(s, k) == s[((k - 1) % Len(s)) + 1]

TuOffset(k) == Octets(Joined(SubSeq(media.tus, 1, k - 1)))
TuRange(k) == [offset |-> TuOffset(k), length |-> Octets(media.tus[k])]

(* What the k-th unit sent has to be, from the way the file was put        *)
(* together.                                                               *)
Expected(k) ==
  CASE media.kind = "audio" ->
         LET from == (k - 1) * AUDIO_SAMPLES_PER_PACKET
         IN  [from |-> from, count |-> Lesser(AUDIO_SAMPLES_PER_PACKET, media.len - from)]
    [] IsNal(media) -> Cyclic(media.nals, k)
    [] media.kind = "jpegxs" -> "codestream"
    [] media.kind = "av1" ->
         LET n == Lesser(Len(media.tus), AV1_MAX_TUS)
         IN  [range |-> TuRange(((k - 1) % n) + 1), is_new_cvs |-> (k - 1) % n = 0]

Total == IF media.kind = "audio"
         THEN (media.len + AUDIO_SAMPLES_PER_PACKET - 1) \div AUDIO_SAMPLES_PER_PACKET
         ELSE Len(media.nals)

(* A stream sends the units its file was made of, whole, in order, none    *)
(* skipped or repeated, the last one included when it ends; those that     *)
(* loop go on with the first, and AV1 starts a new sequence there. Of AV1  *)
(* units only those that the table holds: what is behind the first         *)
(* AV1_MAX_TUS of a file is never sent (server.c:1077).                    *)
MediaSentWhole ==
  /\ \A k \in DOMAIN sent : sent[k].unit = Expected(k)
  /\ stage = "ended" => Len(sent) = Total

(* Timestamps move with access units: all NAL units of one have the same,  *)
(* the next has the next step, over the loop's seam too; audio counts      *)
(* samples. In a callback at most one access unit begins, so a file of     *)
(* small units does not go out at once.                                    *)
UnitsPaced ==
  /\ \A k \in DOMAIN sent :
       sent[k].ts = CASE media.kind = "audio" -> sent[k].unit.from
                      [] IsNal(media) ->
                           TS_STEP * Cardinality({j \in 1 .. k : IsAud(media, Expected(j))})
                      [] OTHER -> TS_STEP * k
  /\ \A j, k \in DOMAIN sent :
       j < k /\ sent[j].tick = sent[k].tick =>
         IsNal(media) /\ ~ (IsAud(media, sent[j].unit) /\ IsAud(media, sent[k].unit))

=============================================================================
