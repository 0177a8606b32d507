--------------------------- MODULE TcpInterleaved ---------------------------
(***************************************************************************)
(* One RTSP connection shared by RTP streams over src/transport/tcp.c and  *)
(* by the responses of src/types/response.c. A frame goes out in one write *)
(* of the Writer, under its lock; a response in several, without it. What  *)
(* a Writer does inside write is up to the user, so a write is a loop that *)
(* other threads may step into: it copies one token after another and may  *)
(* stop early (write(2) is allowed to be short).                           *)
(*                                                                         *)
(* Tokens stand for bytes: "$" for the four octets of an interleaved       *)
(* header, "body" for an octet of a packet, "text" for one write of a      *)
(* response. The peer takes messages off the connection with the library's *)
(* own smolrtsp_parse_interleaved_frame.                                   *)
(***************************************************************************)
EXTENDS Integers, Sequences, FiniteSets

CONSTANTS
  U16,            (* values of a uint16_t: sequence numbers, frame lengths  *)
  Streams,        (* RTP streams, one interleaved channel each              *)
  Sizes,          (* lengths of their RTP packets                           *)
  MaxBuffer,      (* max_buffer of every transport, in tokens               *)
  ResponseParts,  (* writes one response takes                              *)
  Deployments,    (* who runs what, see `deploy`                            *)
  MayStop,        (* may a write take less than it was given?               *)
  MaxFrames,      (* bound of the model: packets sent, per stream           *)
  MaxResponses    (* bound of the model: responses                          *)

ASSUME TcpAssumption ==
  /\ U16 \in Nat \ {0}
  /\ IsFiniteSet(Streams)
  /\ Sizes \subseteq 1 .. U16 - 1
  /\ MaxBuffer \in Nat
  /\ ResponseParts \in Nat \ {0}
  /\ Deployments \subseteq {"loop", "senders", "threads"}
  /\ MayStop \in BOOLEAN
  /\ MaxFrames \in [Streams -> Nat]
  /\ MaxResponses \in Nat

None == "none"
ASSUME NobodyIsNone == None \notin Streams

VARIABLES
  deploy,    \* "loop": one event loop runs everything, as in the example;
             \* "senders": a thread per stream, nothing is answered while
             \* they run; "threads": a thread per stream and one answering
  call,      \* per stream: the call of send_packet in progress
  seq_num,   \* per stream: next sequence number
  sent,      \* per stream: how many calls there were
  lock,      \* the stream holding the Writer's lock, or None
  out,       \* tokens written and not read yet
  response,  \* writes done of the response in progress; 0 between responses
  answered,  \* how many responses were begun
  reading,   \* peer: tokens read of a response; 0 between messages
  received,  \* peer: packets per channel
  damaged,   \* peer: it met something that is no message
  accepted,  \* ghost: packets written to the last octet, per stream
  torn       \* ghost: some frame or response was written in part

writer == <<lock, out>>
peer == <<reading, received, damaged>>
vars == <<deploy, call, seq_num, sent, lock, out, response, answered, reading,
          received, damaged, accepted, torn>>

Idle == [stage |-> "idle"]

-----------------------------------------------------------------------------

(* Mutant: a length that counts the interleaved header in. *)
interleaved_header_whole(channel, len) ==
  [kind |-> "$", from |-> channel, len |-> (len + 1) % U16]

interleaved_header(channel, len) == [kind |-> "$", from |-> channel, len |-> len % U16]

Octet(pkt, k) == [kind |-> "body", pkt |-> pkt, k |-> k]
Body(pkt) == [k \in 1 .. pkt.len |-> Octet(pkt, k)]
Text(k) == [kind |-> "text", k |-> k]

(* The contiguous buffer transmit builds. *)
Frame(pkt) == <<interleaved_header(pkt.channel, pkt.len)>> \o Body(pkt)

(* Mutant: one token late. *)
is_full_late == Len(out) > MaxBuffer + 1

is_full == Len(out) > MaxBuffer

parse_interleaved_frame(input) ==
  CASE input = << >> -> [status |-> "Partial"]
    [] input # << >> /\ input[1].kind # "$" -> [status |-> "NotInterleaved"]
    [] input # << >> /\ input[1].kind = "$" ->
         IF Len(input) < 1 + input[1].len THEN [status |-> "Partial"]
         ELSE [status |-> "Complete", channel |-> input[1].from,
               payload |-> SubSeq(input, 2, 1 + input[1].len),
               consumed |-> 1 + input[1].len]

-----------------------------------------------------------------------------

Init ==
  /\ deploy \in Deployments
  /\ call = [s \in Streams |-> Idle]
  /\ seq_num = [s \in Streams |-> 0]
  /\ sent = [s \in Streams |-> 0]
  /\ lock = None
  /\ out = << >>
  /\ response = 0
  /\ answered = 0
  /\ reading = 0
  /\ received = [s \in Streams |-> << >>]
  /\ damaged = FALSE
  /\ accepted = [s \in Streams |-> << >>]
  /\ torn = FALSE

(* In an event loop a callback runs to its end before the next one. *)
MayStart == deploy = "loop" => response = 0 /\ \A s \in Streams : call[s] = Idle

(* The application of stream s, seeing room in the buffer, calls           *)
(* send_packet; transmit builds the frame.                                 *)
Send(s, len) ==
  /\ MayStart
  /\ call[s] = Idle
  /\ sent[s] < MaxFrames[s]
  /\ ~ is_full
  /\ sent' = [sent EXCEPT ![s] = @ + 1]
  /\ call' = [call EXCEPT ![s] =
       [stage |-> "lock", pkt |-> [channel |-> s, seq |-> seq_num[s], len |-> len]]]
  /\ UNCHANGED <<deploy, seq_num, writer, response, answered, peer, accepted, torn>>

(* Mutant: nobody waits. *)
Lock_ignored(s) ==
  /\ call[s].stage = "lock"
  /\ lock' = s
  /\ call' = [call EXCEPT ![s] = [stage |-> "write", pkt |-> @.pkt, off |-> 0]]
  /\ UNCHANGED <<deploy, seq_num, sent, out, response, answered, peer, accepted, torn>>

Lock(s) ==
  /\ call[s].stage = "lock"
  /\ lock = None
  /\ lock' = s
  /\ call' = [call EXCEPT ![s] = [stage |-> "write", pkt |-> @.pkt, off |-> 0]]
  /\ UNCHANGED <<deploy, seq_num, sent, out, response, answered, peer, accepted, torn>>

(* Inside write: the next token of the frame. *)
Write(s) ==
  /\ call[s].stage = "write"
  /\ LET pkt == call[s].pkt
         frame == Frame(pkt)
         off == call[s].off + 1
         whole == off = Len(frame)
     IN  /\ out' = Append(out, frame[off])
         /\ call' = [call EXCEPT ![s] =
              IF whole THEN [stage |-> "unlock", pkt |-> pkt, ret |-> off]
              ELSE [@ EXCEPT !.off = off]]
         /\ accepted' = IF whole THEN [accepted EXCEPT ![s] = Append(@, pkt)]
                        ELSE accepted
  /\ UNCHANGED <<deploy, seq_num, sent, lock, response, answered, peer, torn>>

(* write answers an error, or less than the frame's length. *)
WriteStops(s) ==
  /\ MayStop
  /\ call[s].stage = "write"
  /\ LET off == call[s].off
     IN  /\ call' = [call EXCEPT ![s] =
              [stage |-> "unlock", pkt |-> @.pkt, ret |-> IF off = 0 THEN -1 ELSE off]]
         /\ torn' = (torn \/ off > 0)
  /\ UNCHANGED <<deploy, seq_num, sent, writer, response, answered, peer, accepted>>

(* Mutants: a failed write leaves the lock; any progress is a success. *)
Unlock_success_only(s) ==
  /\ call[s].stage = "unlock"
  /\ lock' = IF call[s].ret < 0 THEN lock ELSE None
  /\ call' = [call EXCEPT ![s] = [stage |-> "return", pkt |-> @.pkt,
       ret |-> IF @.ret = Len(Frame(@.pkt)) THEN 0 ELSE -1]]
  /\ UNCHANGED <<deploy, seq_num, sent, out, response, answered, peer, accepted, torn>>

Unlock_short_is_success(s) ==
  /\ call[s].stage = "unlock"
  /\ lock' = None
  /\ call' = [call EXCEPT ![s] = [stage |-> "return", pkt |-> @.pkt,
       ret |-> IF @.ret >= 0 THEN 0 ELSE -1]]
  /\ UNCHANGED <<deploy, seq_num, sent, out, response, answered, peer, accepted, torn>>

(* transmit answers 0 only for a frame written whole. *)
Unlock(s) ==
  /\ call[s].stage = "unlock"
  /\ lock' = None
  /\ call' = [call EXCEPT ![s] = [stage |-> "return", pkt |-> @.pkt,
       ret |-> IF @.ret = Len(Frame(@.pkt)) THEN 0 ELSE -1]]
  /\ UNCHANGED <<deploy, seq_num, sent, out, response, answered, peer, accepted, torn>>

(* Mutant: a counter that does not wrap. *)
Return_unwrapped(s) ==
  /\ call[s].stage = "return"
  /\ seq_num' = IF call[s].ret # -1 THEN [seq_num EXCEPT ![s] = @ + 1] ELSE seq_num
  /\ call' = [call EXCEPT ![s] = Idle]
  /\ UNCHANGED <<deploy, sent, writer, response, answered, peer, accepted, torn>>

(* Back in send_packet: only a packet transmit took uses up its number. *)
Return(s) ==
  /\ call[s].stage = "return"
  /\ seq_num' = IF call[s].ret # -1 THEN [seq_num EXCEPT ![s] = (@ + 1) % U16]
                ELSE seq_num
  /\ call' = [call EXCEPT ![s] = Idle]
  /\ UNCHANGED <<deploy, sent, writer, response, answered, peer, accepted, torn>>

-----------------------------------------------------------------------------

(* The next write of a response; the first begins it. *)
Respond ==
  /\ deploy # "senders"
  /\ response = 0 => MayStart /\ answered < MaxResponses
  /\ answered' = IF response = 0 THEN answered + 1 ELSE answered
  /\ out' = Append(out, Text(response + 1))
  /\ response' = (response + 1) % ResponseParts
  /\ UNCHANGED <<deploy, call, seq_num, sent, lock, peer, accepted, torn>>

(* A write of a response fails. What was written stays, and the rest of    *)
(* its group of writes is left out; then the next group is tried, if there *)
(* is one (macros.h:9).                                                    *)
RespondStops ==
  /\ MayStop
  /\ deploy # "senders"
  /\ response = 0 => MayStart /\ answered < MaxResponses
  /\ answered' = IF response = 0 THEN answered + 1 ELSE answered
  /\ response' \in {0} \cup (response + 1 .. ResponseParts - 1)
  /\ torn' = (torn \/ response # 0 \/ response' # 0)
  /\ UNCHANGED <<deploy, call, seq_num, sent, writer, peer, accepted>>

-----------------------------------------------------------------------------

(* Between messages, the peer looks for an interleaved frame first. *)
PeerFrame ==
  LET r == parse_interleaved_frame(out)
  IN  /\ ~ damaged
      /\ reading = 0
      /\ r.status = "Complete"
      /\ out' = SubSeq(out, r.consumed + 1, Len(out))
      /\ \/ \E i \in 1 .. Len(accepted[r.channel]) :
              /\ r.payload = Body(accepted[r.channel][i])
              /\ received' = [received EXCEPT ![r.channel] =
                                Append(@, accepted[r.channel][i])]
              /\ UNCHANGED damaged
         \/ /\ \A i \in 1 .. Len(accepted[r.channel]) :
                 r.payload # Body(accepted[r.channel][i])
            /\ damaged' = TRUE
            /\ UNCHANGED received
      /\ UNCHANGED <<deploy, call, seq_num, sent, lock, response, answered, reading,
                     accepted, torn>>

(* Anything else has to be the next token of a response. *)
PeerText ==
  /\ ~ damaged
  /\ out # << >>
  /\ reading > 0 \/ parse_interleaved_frame(out).status = "NotInterleaved"
  /\ out' = Tail(out)
  /\ IF out[1] = Text(reading + 1)
     THEN reading' = (reading + 1) % ResponseParts /\ UNCHANGED damaged
     ELSE damaged' = TRUE /\ UNCHANGED reading
  /\ UNCHANGED <<deploy, call, seq_num, sent, lock, response, answered, received,
                 accepted, torn>>

Thread(s) == Lock(s) \/ Write(s) \/ WriteStops(s) \/ Unlock(s) \/ Return(s)
Peer == PeerFrame \/ PeerText

Next ==
  \/ \E s \in Streams : Thread(s) \/ \E len \in Sizes : Send(s, len)
  \/ Respond
  \/ RespondStops
  \/ Peer

(* A thread inside the library is scheduled again and again while it can   *)
(* run, and so is the peer; nobody has to start a call.                    *)
Fairness == (\A s \in Streams : WF_vars(Thread(s))) /\ WF_vars(Peer)

Spec == Init /\ [][Next]_vars /\ Fairness

-----------------------------------------------------------------------------

Packets == [channel : Streams, seq : 0 .. U16 - 1, len : Sizes]

Tokens == [kind : {"$"}, from : Streams, len : 0 .. U16 - 1]
            \cup [kind : {"body"}, pkt : Packets, k : Nat \ {0}]
            \cup [kind : {"text"}, k : 1 .. ResponseParts]

(* The variables stay in their types, and a call in its frame. *)
TypeOK ==
  /\ deploy \in Deployments
  /\ \A s \in Streams :
       \/ call[s] = Idle
       \/ /\ call[s].pkt \in Packets
          /\ \/ call[s].stage = "lock"
             \/ call[s].stage = "write" /\ call[s].off \in 0 .. call[s].pkt.len
             \/ call[s].stage = "unlock"
                  /\ call[s].ret \in {-1} \cup 1 .. call[s].pkt.len + 1
             \/ call[s].stage = "return" /\ call[s].ret \in {0, -1}
  /\ seq_num \in [Streams -> 0 .. U16 - 1]
  /\ lock \in Streams \cup {None}
  /\ out \in Seq(Tokens)
  /\ response \in 0 .. ResponseParts - 1
  /\ reading \in 0 .. ResponseParts - 1
  /\ received \in [Streams -> Seq(Packets)]
  /\ accepted \in [Streams -> Seq(Packets)]
  /\ damaged \in BOOLEAN
  /\ torn \in BOOLEAN

(* As long as no write stopped half-way, the peer can tell every message   *)
(* on the connection from the next and finds each channel's packets whole  *)
(* and in order, though all streams and the responses share it.            *)
ConnectionDecodes ==
  ~ torn =>
    /\ ~ damaged
    /\ \A s \in Streams : \E n \in 0 .. Len(accepted[s]) : received[s] = SubSeq(accepted[s], 1, n)

(* The packets of a stream written whole are numbered consecutively, also  *)
(* around packets of which only a part went out (tcp.c:85 answers -1 for   *)
(* them, so rtp_transport.c:147 does not count them).                      *)
AcceptedGapless ==
  \A s \in Streams : \A i \in 1 .. Len(accepted[s]) :
    accepted[s][i].seq = (i - 1) % U16

LongestFrame(n) == \A len \in Sizes : len + 1 <= n

(* is_full is read outside the lock, so every stream may add one frame to  *)
(* a buffer that was not full when it looked, but no more than that.       *)
FrameBacklog ==
  \A n \in {len + 1 : len \in Sizes} :
    LongestFrame(n) => Cardinality({i \in DOMAIN out : out[i].kind # "text"})
                         <= MaxBuffer + Cardinality(Streams) * n

(* Whoever takes the lock gives it back, also when its write fails. *)
LockReleased == lock # None ~> lock = None

(* Every packet transmit took is received, unless a write stopped half-way *)
(* on the same connection.                                                 *)
AcceptedArrives ==
  \A s \in Streams : \A n \in 1 .. MaxFrames[s] :
    Len(accepted[s]) >= n ~> Len(received[s]) >= n \/ torn

(* What the lock is for (writer.h:34, "prevent race conditions on TCP      *)
(* interleaved channels"): whatever threads use the connection, the peer   *)
(* never meets a frame inside another message.                             *)
NoRaces == ~ torn => ~ damaged
=============================================================================
