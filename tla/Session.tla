------------------------------- MODULE Session -------------------------------
(***************************************************************************)
(* One client of examples/server.c: its RTSP session, the stream contexts  *)
(* with their timers, and what is freed when. The server runs everything   *)
(* in one event loop, so a request or a timer callback is one step; their  *)
(* order is the peer's and libevent's. What a timer sends is modelled in   *)
(* ExampleMedia, here a finite stream just has Length packets.             *)
(***************************************************************************)
EXTENDS Integers, Sequences, FiniteSets

CONSTANTS
  Finite,       (* streams that end by themselves: audio and video           *)
  Looping,      (* streams that start over: jpegxs, av1, vvc                 *)
  Unwrapped,    (* streams sent without a packetizer of their own: audio     *)
  SessionIds,   (* what rand() gives SETUP, and what a peer may name         *)
  TransportHeaders,  (* values of the `Transport' header                     *)
  Length,       (* packets of a finite stream                                *)
  MaxRequests   (* bound of the model: requests the peer sends               *)

(* calloc gives every stream the session id 0, which a peer may name too. *)
ASSUME SessionAssumption ==
  /\ IsFiniteSet(Finite) /\ IsFiniteSet(Looping) /\ Finite \cap Looping = {}
  /\ Unwrapped \subseteq Finite
  /\ SessionIds \subseteq Nat
  /\ Length \in Nat /\ MaxRequests \in Nat

(* The entries of Client.streams. One whose kind is not compiled in is one  *)
(* that the peer never sets up.                                            *)
Streams == Finite \cup Looping
NULL == 0
Malformed == -1      \* a `Session' header that is not a number
Absent == -2

VARIABLES
  stream,           \* Client.streams: session_id, transport, ev, ctx
  streams_playing,  \* Client.streams_playing
  connection,       \* bev and Client: open, or freed and on whose initiative
  transports,       \* RTP transports in the order of their creation
  contexts,         \* per stream, its AudioCtx, VideoCtx, ... in order of creation
  loop,             \* the event loop
  answers,          \* status codes sent for the latest request
  requests,         \* how many there were
  strays            \* history: what PLAY and TEARDOWN reached that had no
                    \* transport, and the session that was named

vars == <<stream, streams_playing, connection, transports, contexts, loop, answers, requests, strays>>

Init ==
  /\ stream = [s \in Streams |-> [session_id |-> 0, transport |-> NULL, ev |-> NULL, ctx |-> NULL]]
  /\ streams_playing = 0
  /\ connection = "open"
  /\ transports = << >>
  /\ contexts = [s \in Streams |-> << >>]
  /\ loop = "running"
  /\ answers = << >> /\ requests = 0
  /\ strays = {}

-----------------------------------------------------------------------------
(* The end of a connection.                                                *)

(* The drop of a transport asserts that there is one. *)
DropsNull(cs) == \E s \in Streams : stream[s].ctx # NULL /\ cs[s][stream[s].ctx].transport = NULL
AfterDrop(cs) == loop' = IF DropsNull(cs) THEN "undefined" ELSE loop

(* Mutant: the event of a context is not freed with it. *)
Client_drop_events_left(cs) ==
  LET dropped == {s \in Streams : stream[s].ctx # NULL}
  IN  /\ AfterDrop(cs)
      /\ contexts' = cs
      /\ transports' = [t \in DOMAIN transports |->
           IF \E s \in dropped : cs[s][stream[s].ctx].transport = t
           THEN [transports[t] EXCEPT !.live = FALSE] ELSE transports[t]]

(* Client_drop drops the context of each stream, and the drop of a context *)
(* frees its event and its transport. If it stops at an assertion, what it *)
(* had freed by then does not matter any more.                             *)
Client_drop(cs) ==
  LET dropped == {s \in Streams : stream[s].ctx # NULL}
  IN  /\ AfterDrop(cs)
      /\ contexts' = [s \in Streams |->
           IF s \in dropped THEN [cs[s] EXCEPT ![stream[s].ctx].timer = "freed"] ELSE cs[s]]
      /\ transports' = [t \in DOMAIN transports |->
           IF \E s \in dropped : cs[s][stream[s].ctx].transport = t
           THEN [transports[t] EXCEPT !.live = FALSE] ELSE transports[t]]

(* Mutant: frees the transport the stream has now, not the context's. *)
on_event_cb_latest(who, cs) ==
  /\ connection' = who
  /\ AfterDrop(cs)
  /\ contexts' = [s \in Streams |->
       IF stream[s].ctx # NULL THEN [cs[s] EXCEPT ![stream[s].ctx].timer = "freed"] ELSE cs[s]]
  /\ transports' = [t \in DOMAIN transports |->
       IF \E s \in Streams : stream[s].transport = t
       THEN [transports[t] EXCEPT !.live = FALSE] ELSE transports[t]]

(* bufferevent_free, then the controller is dropped. cs: contexts as the   *)
(* caller leaves them.                                                     *)
on_event_cb(who, cs) ==
  /\ connection' = who
  /\ Client_drop(cs)

PeerCloses ==
  /\ loop = "running" /\ connection = "open"
  /\ on_event_cb("closed by peer", contexts)
  /\ UNCHANGED <<stream, streams_playing, answers, requests, strays>>

(* on_sigint_cb asks the loop to exit in two seconds; what runs until then *)
(* runs as before, so only the exit is a step.                             *)
LoopExits ==
  /\ loop = "running"
  /\ loop' = "exited"
  /\ UNCHANGED <<stream, streams_playing, connection, transports, contexts, answers, requests, strays>>

-----------------------------------------------------------------------------
(* Requests. Every handler answers with one status code or more.           *)

Request(codes) ==
  /\ loop = "running" /\ connection = "open"
  /\ requests < MaxRequests
  /\ requests' = requests + 1
  /\ answers' = codes
  /\ UNCHANGED connection

Of(id) == {s \in Streams : stream[s].session_id = id}

(* The streams of a session that were never set up: calloc's 0 is an id.   *)
Stray(id) == {s \in Of(id) : stream[s].transport = NULL}
Reach(id) == strays' = strays \cup (Stray(id) \X {id})

(* OPTIONS, DESCRIBE, methods the server does not know, and SETUP without  *)
(* a `Transport' header.                                                   *)
Stateless(code) ==
  /\ Request(<<code>>)
  /\ UNCHANGED <<stream, streams_playing, transports, contexts, loop, strays>>

(* A `Transport' header is a protocol and parameters, each with a number   *)
(* after its `=' or without.                                               *)
Parameters == {"unicast", "multicast", "interleaved", "client_port", "destination"}
IsTransportHeader(header) ==
  /\ header.protocol \in {"RTP/AVP", "RTP/AVP/TCP", "RTP/AVP/UDP", "RAW/RAW"}
  /\ \A i \in DOMAIN header.params : header.params[i] \in [name : Parameters, number : BOOLEAN]
ASSUME TransportHeadersAssumption == \A header \in TransportHeaders : IsTransportHeader(header)

parse_lower_transport(protocol) == IF protocol = "RTP/AVP/TCP" THEN "TCP" ELSE "UDP"
parse_transport_param(param) == param.name \in {"interleaved", "client_port"} => param.number

(* What becomes of the second number of a pair, and that it may be missing *)
(* and then is not initialized, only shows in the answer's text.           *)
parse_transport(header) ==
  LET given(name) == \E i \in DOMAIN header.params : header.params[i].name = name
  IN  IF header.protocol = "RAW/RAW" \/ \E i \in DOMAIN header.params :
                                            ~ parse_transport_param(header.params[i])
      THEN [lower |-> "malformed"]
      ELSE [lower |-> parse_lower_transport(header.protocol),
            interleaved |-> given("interleaved"), client_port |-> given("client_port")]

setup_tcp(config) == IF config.interleaved THEN << >> ELSE <<400>>
setup_udp(config, socket) ==
  IF ~ config.client_port THEN <<400>> ELSE IF socket THEN << >> ELSE <<500>>

(* What setup_transport has answered when it fails; nothing when not. A    *)
(* parameter missing for the lower transport is answered by setup_tcp or   *)
(* setup_udp and again by setup_transport; a socket that cannot be opened  *)
(* only once.                                                              *)
setup_transport(config, socket) ==
  LET failed == IF config.lower = "TCP" THEN setup_tcp(config) ELSE setup_udp(config, socket)
  IN  CASE config.lower = "malformed"             -> <<400>>
        [] failed = <<400>>                       -> <<400, 500>>
        [] OTHER                                  -> failed

(* The lower transport exists before the `Session' header is read, and is  *)
(* left behind when that is malformed. Without the header rand() chooses.  *)
Client_setup(s, header, session, socket) ==
  LET config == parse_transport(header)
      failed == setup_transport(config, socket)
      t == Len(transports) + 1
  IN  /\ UNCHANGED <<streams_playing, contexts, loop, strays>>
      /\ IF failed # << >>
         THEN Request(failed) /\ UNCHANGED <<stream, transports>>
         ELSE /\ transports' = Append(transports, [lower |-> config.lower, live |-> TRUE])
              /\ IF session = Malformed
                 THEN Request(<<400>>) /\ UNCHANGED stream
                 ELSE /\ Request(<<200>>)
                      /\ \E id \in IF session = Absent THEN SessionIds ELSE {session} :
                           stream' = [stream EXCEPT ![s].session_id = id, ![s].transport = t]

(* play_audio, play_video, ...: a new context with its timer. *)
Played(s) == [transport |-> stream[s].transport, timer |-> "armed", i |-> 0]

(* The answer of PLAY. A packetizer asserts the transport it is given, if  *)
(* assertions are compiled in; without one the callback is the first to    *)
(* need it.                                                                *)
AnswerPlay(id) ==
  \/ Request(<<200>>) /\ UNCHANGED loop
  \/ Stray(id) \ Unwrapped # {} /\ Request(<< >>) /\ loop' = "undefined"

(* Mutant: one count for the request. *)
Client_play_counts_once(id) ==
  /\ UNCHANGED transports /\ Reach(id)
  /\ IF Of(id) = {}
     THEN /\ Request(<<IF id = Malformed THEN 400 ELSE 454>>)
          /\ UNCHANGED <<stream, streams_playing, contexts, loop>>
     ELSE /\ AnswerPlay(id)
          /\ contexts' = [s \in Streams |-> IF s \in Of(id) THEN Append(contexts[s], Played(s))
                                            ELSE contexts[s]]
          /\ stream' = [s \in Streams |->
               IF s \in Of(id) THEN [stream[s] EXCEPT !.ev = Len(contexts[s]) + 1,
                                                      !.ctx = Len(contexts[s]) + 1]
               ELSE stream[s]]
          /\ streams_playing' = streams_playing + 1

(* PLAY starts every stream of the session, whether it was set up or not.  *)
(* A stream that is playing already gets a second context; its record      *)
(* forgets the first.                                                      *)
Client_play(id) ==
  /\ UNCHANGED transports /\ Reach(id)
  /\ IF Of(id) = {}
     THEN /\ Request(<<IF id = Malformed THEN 400 ELSE 454>>)
          /\ UNCHANGED <<stream, streams_playing, contexts, loop>>
     ELSE /\ AnswerPlay(id)
          /\ contexts' = [s \in Streams |-> IF s \in Of(id) THEN Append(contexts[s], Played(s))
                                            ELSE contexts[s]]
          /\ stream' = [s \in Streams |->
               IF s \in Of(id) THEN [stream[s] EXCEPT !.ev = Len(contexts[s]) + 1,
                                                      !.ctx = Len(contexts[s]) + 1]
               ELSE stream[s]]
          /\ streams_playing' = streams_playing + Cardinality(Of(id))

(* TEARDOWN only stops the timers: the contexts stay, and streams_playing  *)
(* as well. A stream that was never played has no event, which event_del   *)
(* does not accept.                                                        *)
Client_teardown(id) ==
  LET stopped(s) == [contexts[s] EXCEPT ![stream[s].ev].timer = IF @ = "armed" THEN "deleted" ELSE @]
  IN  /\ UNCHANGED <<stream, streams_playing, transports>>
      /\ Reach(id)
      /\ IF Of(id) = {}
         THEN /\ Request(<<IF id = Malformed THEN 400 ELSE 454>>)
              /\ UNCHANGED <<contexts, loop>>
         ELSE IF \E s \in Of(id) : stream[s].ev = NULL
         THEN Request(<< >>) /\ loop' = "undefined" /\ UNCHANGED contexts
         ELSE /\ Request(<<200>>)
              /\ contexts' = [s \in Streams |-> IF s \in Of(id) THEN stopped(s) ELSE contexts[s]]
              /\ UNCHANGED loop

-----------------------------------------------------------------------------
(* Timer callbacks.                                                        *)

Fires(s, k) == loop = "running" /\ contexts[s][k].timer = "armed"
Over(s, k) == s \in Finite /\ contexts[s][k].i = Length
TransportOf(s, k) == transports[contexts[s][k].transport]

(* The transports that packets can be sent on: those not freed, of a       *)
(* connection that is open if they write to it.                            *)
Usable == {t \in DOMAIN transports :
             transports[t].live /\ (transports[t].lower = "TCP" => connection = "open")}

(* A callback needs its transport to send, and the Client to end the       *)
(* stream.                                                                 *)
Dangling(s, k) ==
  IF Over(s, k) THEN connection # "open" ELSE contexts[s][k].transport \notin Usable

SendPacket(s, k) ==
  /\ Fires(s, k) /\ ~ Over(s, k) /\ ~ Dangling(s, k)
  /\ contexts' = IF s \in Finite THEN [contexts EXCEPT ![s][k].i = @ + 1] ELSE contexts
  /\ UNCHANGED <<stream, streams_playing, connection, transports, loop, answers, requests, strays>>

(* Mutant: the count is tested before it is decremented. *)
StreamEnds_tests_first(s, k) ==
  LET ended == [contexts EXCEPT ![s][k].timer = "ended"]
  IN  /\ Fires(s, k) /\ Over(s, k) /\ ~ Dangling(s, k)
      /\ streams_playing' = streams_playing - 1
      /\ IF streams_playing = 0
         THEN on_event_cb("closed by server", ended)
         ELSE contexts' = ended /\ UNCHANGED <<connection, transports, loop>>
      /\ UNCHANGED <<stream, answers, requests, strays>>

(* A stream without packets left deletes its event; the last one to end    *)
(* closes the connection, within the callback.                             *)
StreamEnds(s, k) ==
  LET ended == [contexts EXCEPT ![s][k].timer = "ended"]
  IN  /\ Fires(s, k) /\ Over(s, k) /\ ~ Dangling(s, k)
      /\ streams_playing' = streams_playing - 1
      /\ IF streams_playing' = 0
         THEN on_event_cb("closed by server", ended)
         ELSE contexts' = ended /\ UNCHANGED <<connection, transports, loop>>
      /\ UNCHANGED <<stream, answers, requests, strays>>

UsesFreed(s, k) ==
  /\ Fires(s, k) /\ Dangling(s, k)
  /\ loop' = "undefined"
  /\ UNCHANGED <<stream, streams_playing, connection, transports, contexts, answers, requests, strays>>

Timer(s, k) == SendPacket(s, k) \/ StreamEnds(s, k) \/ UsesFreed(s, k)

TimerFires == \E s \in Streams : \E k \in DOMAIN contexts[s] : Timer(s, k)

Next ==
  \/ \E code \in {200, 400, 405} : Stateless(code)
  \/ \E s \in Streams, header \in TransportHeaders, socket \in BOOLEAN,
        session \in SessionIds \cup {Malformed, Absent} : Client_setup(s, header, session, socket)
  \/ \E id \in SessionIds \cup {Malformed} : Client_play(id) \/ Client_teardown(id)
  \/ TimerFires
  \/ PeerCloses
  \/ LoopExits

(* The loop serves its timers; nobody has to send a request or to close.   *)
Fairness ==
  \A s \in Streams : \A k \in 1 .. MaxRequests : WF_vars(k \in DOMAIN contexts[s] /\ Timer(s, k))

Spec == Init /\ [][Next]_vars /\ Fairness

-----------------------------------------------------------------------------

Contexts == {c \in Streams \X (1 .. MaxRequests) : c[2] \in DOMAIN contexts[c[1]]}
Timer_(c) == contexts[c[1]][c[2]].timer
Replaced(c) == c[2] < Len(contexts[c[1]])

(* The latest timer of a stream never runs on freed memory. Undefined      *)
(* behaviour, a failing assertion included, needs a peer that played a     *)
(* stream that was still playing and then left; or a TEARDOWN before any   *)
(* PLAY of a stream that was set up; or a PLAY or TEARDOWN that reached a  *)
(* stream that was not (server.c:576, :638), which no session id but 0     *)
(* does. A context without transport is left behind by such a PLAY only.   *)
TimersAreSafe ==
  /\ \A c \in Contexts :
       Timer_(c) = "armed" /\ ~ Replaced(c) =>
         /\ connection = "open"
         /\ IF contexts[c[1]][c[2]].transport = NULL THEN <<c[1], 0>> \in strays
            ELSE TransportOf(c[1], c[2]).live
  /\ loop = "undefined" =>
       \/ connection # "open" /\ \E c \in Contexts : Timer_(c) = "armed" /\ Replaced(c)
       \/ \E s \in Streams : stream[s].transport # NULL /\ contexts[s] = << >>
       \/ strays # {}
  /\ strays \subseteq Streams \X {0}

(* While there is a connection, streams_playing counts the contexts that   *)
(* have not ended by themselves, those a TEARDOWN stopped included. So the *)
(* server closes it when all that was ever played has ended and not        *)
(* before, and never once a playing stream was torn down.                  *)
ClosesWhenPlayedOut ==
  /\ connection = "open" =>
       /\ streams_playing = Cardinality({c \in Contexts : Timer_(c) # "ended"})
       /\ Contexts # {} => streams_playing > 0
  /\ connection = "closed by server" =>
       \A c \in Contexts : Timer_(c) = "ended" \/ (Timer_(c) = "freed" /\ Over(c[1], c[2]))

(* At the end of a connection exactly the transport last played on each    *)
(* stream is freed: one that was set up and never played, or was played    *)
(* before another on its stream, stays behind.                             *)
FreedExactly ==
  connection # "open" =>
    \A t \in DOMAIN transports :
      ~ transports[t].live <=> \E s \in Streams : contexts[s] # << >> /\ contexts[s][Len(contexts[s])].transport = t

(* If all that plays is finite, and the peer tears nothing down, the       *)
(* connection ends.                                                        *)
PlayedOutCloses ==
  (\E c \in Contexts : Timer_(c) = "armed")
    ~> \/ connection # "open" \/ loop # "running"
       \/ \E c \in Contexts : Timer_(c) = "deleted" \/ c[1] \in Looping
=============================================================================
