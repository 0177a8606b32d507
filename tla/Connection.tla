----------------------------- MODULE Connection -----------------------------
(***************************************************************************)
(* One RTSP connection of the library: octets arrive in pieces of any size *)
(* (split anywhere), requests or responses are parsed out of them from the *)
(* start of the buffer each time, and a server dispatches every request to *)
(* its controller, whose response is serialized piece by piece to a Writer *)
(* that may fail. Reading the connection and draining the buffer is the    *)
(* caller's (the libevent adapter is not in this repository).              *)
(*                                                                         *)
(* An octet is a string: a character, or a word whose letters are never    *)
(* split. The maxima of integers are constants, scaled for TLC.            *)
(***************************************************************************)
EXTENDS Integers, SequencesExt

CONSTANTS
  Traffic,              (* what peers send, by role: sequences of items      *)
  Alphabet,             (* the alphabet of the traffic                       *)
  Beyond,               (* octets the memory behind the buffer may hold      *)
  HEADER_MAP_CAPACITY,
  MAX_HEADER_VALUE,
  UINT8_MAX, UINT16_MAX, UINT32_MAX, SIZE_MAX,
  Headers, Bodies,      (* what a controller may answer with                 *)
  MaxHeaders            (* bound of the model: headers a controller adds     *)

(* All that a peer sends. *)
Sent(items) == FlattenSeq([i \in DOMAIN items |-> items[i].octets])

ASSUME ConnectionAssumption ==
  /\ HEADER_MAP_CAPACITY \in Nat \ {0} /\ MAX_HEADER_VALUE \in Nat
  /\ {UINT8_MAX, UINT16_MAX, UINT32_MAX, SIZE_MAX} \subseteq Nat
  /\ \A who \in {"server", "client"} : \A t \in Traffic[who] : Sent(t) \in Seq(Alphabet)

VARIABLES
  role,       \* server, which parses requests, or client, which parses responses
  traffic,    \* what this peer sends
  wire,       \* octets that have not arrived
  buffer,     \* octets that have, and were not drained
  beyond,     \* the octet behind them in memory
  delivered,  \* messages parsed, in order
  stage,      \* what the reader of the connection is doing
  ctx,        \* SmolRTSP_Context
  outcome     \* of the latest response: the result `after' gets, and what it was

connectionVars == <<role, traffic, wire, buffer, beyond, delivered, stage, ctx, outcome>>

CRLF == <<"CR", "LF">>
RTSP_SLASH == <<"R", "T", "S", "P", "/">>
VERSION == <<"R", "T", "S", "P", "/", "1", ".", "0">>
Digit == <<"0", "1", "2", "3", "4", "5", "6", "7", "8", "9">>
Digits == ToSet(Digit)
Value(d) == CHOOSE n \in 0 .. 9 : d \in Digits => d = Digit[n + 1]
Commands == {"OPTIONS", "DESCRIBE", "SETUP", "PLAY", "TEARDOWN"}
Letters == {"R", "T", "S", "P", "PAUSE", "CSeq", "Content-Length", "Range"} \cup Commands
C_SEQ == <<"CSeq">>
CONTENT_LENGTH == <<"Content-Length">>

-----------------------------------------------------------------------------
(* src/types/parsing.c. A parser takes its input, of which it may look at  *)
(* one octet too many, and the position it starts at; it is partial, fails *)
(* or completes with what it found at the position behind it.              *)

Input(octets, past) == [octets |-> octets, past |-> past]
Size(input) == Len(input.octets)
Part(input, p, q) == SubSeq(input.octets, p, q)

Partial == [st |-> "partial"]
Failure(error) == [st |-> "failure", error |-> error]
Complete(at, item) == [st |-> "complete", at |-> at, item |-> item]
Matched(at) == Complete(at, << >>)

(* MATCH: go on, or return. *)
MATCH(r, rest) == IF r.st = "complete" THEN rest ELSE r

(* A matcher is the set of octets it accepts. *)
whitespace_matcher == {" "}
non_whitespace_matcher == Alphabet \ whitespace_matcher
numeric_matcher == Digits
ident_matcher == Letters \cup Digits
header_name_char_matcher == Letters \cup {"-"}

(* Up to the first octet that does not match, which has to have arrived. *)
match_until(input, p, matcher) ==
  LET others == {q \in p .. Size(input) : input.octets[q] \notin matcher}
  IN  IF others = {} THEN Partial ELSE Matched(Min(others))

match_until_crlf(input, p) ==
  LET ends == {q \in p .. Size(input) - 1 : Part(input, q, q + 1) = CRLF}
  IN  IF ends = {} THEN Partial ELSE Matched(Min(ends) + 2)

(* Any number of c, none included. *)
match_char(input, p, c) == match_until(input, p, {c})

match_str(input, p, str) ==
  LET len == Min({Size(input) + 1 - p, Len(str)})
  IN  IF Part(input, p, p + len - 1) # SubSeq(str, 1, len) THEN Failure("StrMismatch")
      ELSE IF len < Len(str) THEN Partial
      ELSE Matched(p + Len(str))

match_whitespaces(input, p) == match_until(input, p, whitespace_matcher)
match_non_whitespaces(input, p) == match_until(input, p, non_whitespace_matcher)

(* The first octet is looked at before anything is known to have arrived.  *)
match_type(input, p, matcher) ==
  IF (IF p <= Size(input) THEN input.octets[p] ELSE input.past) \notin matcher
  THEN Failure("TypeMismatch")
  ELSE match_until(input, p, matcher)
match_numeric(input, p) == match_type(input, p, numeric_matcher)
match_ident(input, p) == match_type(input, p, ident_matcher)
match_header_name(input, p) == match_type(input, p, header_name_char_matcher)

(* The number the leading digits stand for, or -1. *)
parse_uint(s, max) ==
  LET others == {i \in DOMAIN s : s[i] \notin Digits}
      count == IF others = {} THEN Len(s) ELSE Min(others) - 1
      number[i \in 0 .. count] == IF i = 0 THEN 0 ELSE 10 * number[i - 1] + Value(s[i])
  IN  IF count = 0 \/ number[count] > max THEN -1 ELSE number[count]

-----------------------------------------------------------------------------
(* src/types: the parts of a message. *)

Method_parse(input, p) ==
  LET a == match_whitespaces(input, p)
      b == match_ident(input, a.at)
  IN  MATCH(a, MATCH(b, Complete(b.at, Part(input, a.at, b.at - 1))))

RequestUri_parse(input, p) ==
  LET a == match_whitespaces(input, p)
      b == match_non_whitespaces(input, a.at)
  IN  MATCH(a, MATCH(b, Complete(b.at, Part(input, a.at, b.at - 1))))

RtspVersion_parse(input, p) ==
  LET a == match_whitespaces(input, p)
      b == match_str(input, a.at, RTSP_SLASH)
      major == match_numeric(input, b.at)
      c == match_char(input, major.at, ".")
      minor == match_numeric(input, c.at)
      numbers == <<parse_uint(Part(input, b.at, major.at - 1), UINT8_MAX),
                   parse_uint(Part(input, c.at, minor.at - 1), UINT8_MAX)>>
  IN  MATCH(a, MATCH(b, MATCH(major, MATCH(c, MATCH(minor,
        IF numbers[1] = -1 \/ numbers[2] = -1 THEN Failure("TypeMismatch")
        ELSE Matched(minor.at))))))

StatusCode_parse(input, p) ==
  LET a == match_whitespaces(input, p)
      b == match_numeric(input, a.at)
      code == Part(input, a.at, b.at - 1)
  IN  MATCH(a, MATCH(b, IF parse_uint(code, UINT16_MAX) = -1 THEN Failure("TypeMismatch")
                        ELSE Complete(b.at, code)))

ReasonPhrase_parse(input, p) ==
  LET a == match_whitespaces(input, p)
      b == match_until_crlf(input, a.at)
  IN  MATCH(a, MATCH(b, Complete(b.at, Part(input, a.at, b.at - 3))))

RequestLine_parse(input, p) ==
  LET method == Method_parse(input, p)
      uri == RequestUri_parse(input, method.at)
      version == RtspVersion_parse(input, uri.at)
      end == match_str(input, version.at, CRLF)
  IN  MATCH(method, MATCH(uri, MATCH(version, MATCH(end,
        Complete(end.at, <<method.item, uri.item>>)))))

ResponseLine_parse(input, p) ==
  LET version == RtspVersion_parse(input, p)
      code == StatusCode_parse(input, version.at)
      reason == ReasonPhrase_parse(input, code.at)
  IN  MATCH(version, MATCH(code, MATCH(reason,
        Complete(reason.at, <<code.item, reason.item>>))))

Header_parse(input, p) ==
  LET a == match_whitespaces(input, p)
      key == match_header_name(input, a.at)
      b == match_whitespaces(input, key.at)
      c == match_char(input, b.at, ":")
      d == match_whitespaces(input, c.at)
      value == match_until_crlf(input, d.at)
  IN  MATCH(a, MATCH(key, MATCH(b, MATCH(c, MATCH(d, MATCH(value,
        IF value.at - 2 - d.at > MAX_HEADER_VALUE THEN Failure("HeaderValueTooLong")
        ELSE Complete(value.at, [key |-> Part(input, a.at, key.at - 1),
                                 value |-> Part(input, d.at, value.at - 3)])))))))

(* The loop over headers goes on. *)
More(at, item) == [st |-> "more", at |-> at, item |-> item]

HeaderMap_append(map, header) ==
  MATCH(header, More(header.at, Append(map.item, header.item)))

(* One turn of it, unless it has ended. A carriage return at the end of    *)
(* all that has arrived may be half of a line end, and is taken for that   *)
(* wherever it is.                                                         *)
NextHeader(input, map) ==
  IF map.st # "more" THEN map
  ELSE IF map.at <= Size(input) /\ Last(input.octets) = "CR" THEN Partial
  ELSE IF map.at < Size(input) /\ Part(input, map.at, map.at + 1) = CRLF
  THEN Complete(map.at + 2, map.item)
  ELSE IF Len(map.item) = HEADER_MAP_CAPACITY THEN Failure("HeaderMapOverflow")
  ELSE HeaderMap_append(map, Header_parse(input, map.at))

HeaderMap_parse(input, p) ==
  LET turn[k \in 0 .. HEADER_MAP_CAPACITY + 1] ==
        IF k = 0 THEN More(p, << >>) ELSE NextHeader(input, turn[k - 1])
  IN  turn[HEADER_MAP_CAPACITY + 1]

contains_key(headers, key) == \E i \in DOMAIN headers : headers[i].key = key
HeaderMap_find(headers, key) ==
  headers[Min({i \in DOMAIN headers : headers[i].key = key})].value

(* Mutant: waits for one octet more than the body has. *)
MessageBody_parse_strict(input, p, content_length) ==
  IF Size(input) - p + 1 <= content_length /\ content_length > 0 THEN Partial
  ELSE Complete(p + content_length, Part(input, p, p + content_length - 1))

(* Mutant: takes what there is of the body. *)
MessageBody_parse_lax(input, p, content_length) ==
  LET end == Min({p + content_length, Size(input) + 1})
  IN  Complete(end, Part(input, p, end - 1))

MessageBody_parse(input, p, content_length) ==
  IF Size(input) - p + 1 < content_length THEN Partial
  ELSE Complete(p + content_length, Part(input, p, p + content_length - 1))

(* The same for the loop over interleaved frames in front of a message.    *)
SkipFrame(input, skipped) ==
  LET p == skipped.at
      payload_len == 10 * Value(input.octets[p + 2]) + Value(input.octets[p + 3])
  IN  IF skipped.st # "more" THEN skipped
      ELSE IF Size(input) - p + 1 < 4 THEN Partial
      ELSE IF input.octets[p] # "$" THEN Matched(p)
      ELSE IF Size(input) - p - 3 < payload_len THEN Partial
      ELSE More(p + 4 + payload_len, << >>)

(* Each frame takes an octet at least, so that many turns suffice. *)
SkipFrames(input) ==
  LET turn[k \in 0 .. Size(input) + 1] ==
        IF k = 0 THEN More(1, << >>) ELSE SkipFrame(input, turn[k - 1])
  IN  turn[Size(input) + 1]

(* Headers and body behind the start line, the same in requests and        *)
(* responses.                                                              *)
Body_parse(input, line, map) ==
  LET Number(key, max) == parse_uint(HeaderMap_find(map.item, key), max)
      content_length == IF ~ contains_key(map.item, CONTENT_LENGTH) THEN 0
                        ELSE Number(CONTENT_LENGTH, SIZE_MAX)
      body == MessageBody_parse(input, map.at, content_length)
      cseq == Number(C_SEQ, UINT32_MAX)
      message == [line |-> line.item, headers |-> map.item, body |-> body.item, cseq |-> cseq]
  IN  MATCH(map,
        IF content_length = -1 THEN Failure("ContentLength")
        ELSE MATCH(body,
          IF ~ contains_key(map.item, C_SEQ) THEN Failure("MissingCSeq")
          ELSE IF cseq = -1 THEN Failure("InvalidCSeq")
          ELSE Complete(body.at, message)))

Message_parse(input, line) ==
  MATCH(line, Body_parse(input, line, HeaderMap_parse(input, line.at)))

Request_parse(input) ==
  LET start == SkipFrames(input)
  IN  MATCH(start, Message_parse(input, RequestLine_parse(input, start.at)))

Response_parse(input) ==
  LET start == SkipFrames(input)
  IN  MATCH(start, Message_parse(input, ResponseLine_parse(input, start.at)))

-----------------------------------------------------------------------------
(* Serialization: groups of pieces, one write each. *)

RequestLine_serialize(line) == <<line[1], <<" ">>, line[2], <<" ">>, VERSION, CRLF>>
ResponseLine_serialize(line) == <<VERSION, <<" ">>, line[1], <<" ">>, line[2], CRLF>>
Header_serialize(h) == <<h.key, <<":", " ">>, h.value, CRLF>>

Decimal(n) == IF n < 10 THEN <<Digit[n + 1]>> ELSE <<Digit[(n \div 10) + 1], Digit[(n % 10) + 1]>>

(* Mutant: forgets to announce a body. *)
WithAutomatic_uncounted(msg) ==
  (IF contains_key(msg.headers, C_SEQ) THEN << >>
   ELSE <<[key |-> C_SEQ, value |-> Decimal(msg.cseq)]>>) \o msg.headers

(* The headers a message goes out with: CSeq and Content-Length first, if  *)
(* its header map has none.                                                *)
WithAutomatic(msg) ==
  (IF contains_key(msg.headers, C_SEQ) THEN << >>
   ELSE <<[key |-> C_SEQ, value |-> Decimal(msg.cseq)]>>)
  \o (IF contains_key(msg.headers, CONTENT_LENGTH) \/ msg.body = << >> THEN << >>
      ELSE <<[key |-> CONTENT_LENGTH, value |-> Decimal(Len(msg.body))]>>)
  \o msg.headers

Message_serialize(line, msg) ==
  <<line>>
  \o [i \in DOMAIN WithAutomatic(msg) |-> Header_serialize(WithAutomatic(msg)[i])]
  \o <<<<CRLF>>>>
  \o (IF msg.body = << >> THEN << >> ELSE <<<<msg.body>>>>)

Request_serialize(msg) == Message_serialize(RequestLine_serialize(msg.line), msg)
Response_serialize(msg) == Message_serialize(ResponseLine_serialize(msg.line), msg)

Octets(groups) == FlattenSeq(FlattenSeq(groups))

(* A write that fails ends its group only: the group returns the count so  *)
(* far, which is no error, and the next group is written (CHK_WRITE_ERR).  *)
(* It is the k-th piece of the g-th group, and all later ones if `gone'.   *)
Written(groups, g, k, gone) ==
  [i \in DOMAIN groups |-> IF i = g THEN SubSeq(groups[i], 1, k - 1)
                           ELSE IF i > g /\ g > 0 /\ gone THEN << >> ELSE groups[i]]

-----------------------------------------------------------------------------
NoContext == [cseq |-> -1, headers |-> << >>, body |-> << >>, ret |-> 0, failed |-> FALSE]
Context_new(cseq) == [NoContext EXCEPT !.cseq = cseq]

ConnectionInit ==
  /\ role \in {"server", "client"}
  /\ traffic \in Traffic[role]
  /\ wire = Sent(traffic)
  /\ buffer = << >> /\ beyond \in Beyond
  /\ delivered = << >>
  /\ stage = "waiting"
  /\ ctx = NoContext
  /\ outcome = NoContext

(* Some octets arrive, and the reader parses what it has. *)
Receive(n) ==
  /\ stage = "waiting"
  /\ buffer' = buffer \o SubSeq(wire, 1, n)
  /\ wire' = SubSeq(wire, n + 1, Len(wire))
  /\ beyond' \in Beyond
  /\ stage' = "parse"
  /\ UNCHANGED <<role, traffic, delivered, ctx, outcome>>

(* What the reader makes of octets that have arrived. *)
Parsed(who, input) == IF who = "server" THEN Request_parse(input) ELSE Response_parse(input)

Take(r) ==
  \/ r.st = "partial" /\ stage' = "waiting" /\ UNCHANGED <<buffer, delivered>>
  \/ r.st = "failure" /\ stage' = "failed" /\ UNCHANGED <<buffer, delivered>>
  \/ /\ r.st = "complete"
     /\ delivered' = Append(delivered, r.item)
     /\ buffer' = SubSeq(buffer, r.at, Len(buffer))
     /\ stage' = IF role = "server" THEN "dispatch" ELSE "parse"

Parse ==
  /\ stage = "parse"
  /\ Take(Parsed(role, Input(buffer, beyond)))
  /\ outcome' = NoContext
  /\ UNCHANGED <<role, traffic, wire, beyond, ctx>>

(* smolrtsp_dispatch up to the call of `before'. *)
Dispatch ==
  /\ stage = "dispatch"
  /\ ctx' = Context_new(Last(delivered).cseq)
  /\ stage' = "before"
  /\ UNCHANGED <<role, traffic, wire, buffer, beyond, delivered, outcome>>

(* `before' says Continue, and the method chooses the handler. *)
Continue ==
  /\ stage = "before"
  /\ LET method == Last(delivered).line[1]
     IN  stage' = IF Len(method) = 1 /\ method[1] \in Commands THEN method[1] ELSE "unknown"
  /\ UNCHANGED <<role, traffic, wire, buffer, beyond, delivered, ctx, outcome>>

(* The application has the context: `before', which may set up headers or  *)
(* the whole answer, and the handlers.                                     *)
Handling == stage \in Commands \cup {"before", "unknown"}

(* smolrtsp_header; a full map is its caller's fault (an assertion). *)
AddHeader(h) ==
  /\ Handling
  /\ Len(ctx.headers) < Min({MaxHeaders, HEADER_MAP_CAPACITY})
  /\ ctx' = [ctx EXCEPT !.headers = Append(@, h)]
  /\ UNCHANGED <<role, traffic, wire, buffer, beyond, delivered, stage, outcome>>

SetBody(body) ==
  /\ Handling
  /\ ctx' = [ctx EXCEPT !.body = body]
  /\ UNCHANGED <<role, traffic, wire, buffer, beyond, delivered, stage, outcome>>

(* Writes may fail. The result is that of the last response. *)
smolrtsp_respond(line) ==
  /\ Handling
  /\ LET groups == Response_serialize([line |-> line, headers |-> ctx.headers,
                                       body |-> ctx.body, cseq |-> ctx.cseq])
     IN  \E g \in 0 .. Len(groups) :
           \E k \in IF g = 0 THEN {1} ELSE DOMAIN groups[g], gone \in BOOLEAN :
             ctx' = [ctx EXCEPT !.ret = Len(Octets(Written(groups, g, k, gone))),
                                !.failed = g > 0]
  /\ UNCHANGED <<role, traffic, wire, buffer, beyond, delivered, stage, outcome>>

(* The handler returns, with or without a response, or `before' says Break. *)
Leave ==
  /\ Handling
  /\ stage' = "after"
  /\ UNCHANGED <<role, traffic, wire, buffer, beyond, delivered, ctx, outcome>>

(* `after' gets the result, and the context is dropped. *)
After ==
  /\ stage = "after"
  /\ outcome' = ctx
  /\ ctx' = NoContext
  /\ stage' = "parse"
  /\ UNCHANGED <<role, traffic, wire, buffer, beyond, delivered>>

ConnectionNext ==
  \/ \E n \in 1 .. Len(wire) : Receive(n)
  \/ Parse
  \/ Dispatch \/ Continue
  \/ \E h \in Headers : AddHeader(h)
  \/ \E body \in Bodies : SetBody(body)
  \/ smolrtsp_respond(<<<<"2", "0", "0">>, <<"OK">>>>)
  \/ Leave
  \/ After

ConnectionSpec == ConnectionInit /\ [][ConnectionNext]_connectionVars

-----------------------------------------------------------------------------
(* What the peer sent up to its first malformed message. *)
FirstBad == Min({i \in DOMAIN traffic : traffic[i].bad} \cup {Len(traffic) + 1})
Expected == FlattenSeq([i \in 1 .. FirstBad - 1 |-> traffic[i].msgs])

EndsWith(octets) == IsSuffix(octets, buffer)

(* Where the octets are split does not matter (request.c:57, response.c:58 *)
(* parse again from the start): the messages that come out are those that  *)
(* were serialized, in order, and the connection fails only at a malformed *)
(* one. Two splits do matter: behind "RTSP/", where match_numeric reads an *)
(* octet that has not arrived (parsing.c:130), and behind the last header  *)
(* of a full map, which then is an overflow (header_map.c:85). When all    *)
(* has arrived no message is left in the buffer, unless what has arrived   *)
(* ends in a carriage return (header_map.c:76).                            *)
SplitsDoNotMatter ==
  /\ IsPrefix(delivered, Expected)
  /\ stage = "failed" =>
       \/ delivered = Expected /\ FirstBad <= Len(traffic)
       \/ EndsWith(RTSP_SLASH)
       \/ EndsWith(CRLF) /\ \E i \in DOMAIN Expected :
                               Len(Expected[i].headers) = HEADER_MAP_CAPACITY
  /\ wire = << >> /\ stage = "waiting" => delivered = Expected \/ EndsWith(<<"CR">>)

(* What is read of octets that arrive all at once, message by message, and *)
(* what is left then. Behind them lies an octet that is nothing to anyone. *)
Nothing == "nothing"
With(read, r) ==
  IF r.st # "complete" THEN read
  ELSE [left |-> SubSeq(read.left, r.at, Len(read.left)),
        messages |-> Append(read.messages, r.item)]
ReadOne(who, read) == With(read, Parsed(who, Input(read.left, Nothing)))

AtOnce(who, octets) ==
  LET read[k \in 0 .. Len(octets)] ==
        IF k = 0 THEN [left |-> octets, messages |-> << >>] ELSE ReadOne(who, read[k - 1])
  IN  read

(* What the parser made of the buffer is what it makes of all there is.    *)
Agree(now, once) ==
  /\ stage = "waiting" /\ wire = << >> => once.st # "complete"
  /\ stage = "failed" =>
       \/ once = now
       \/ EndsWith(RTSP_SLASH)
       \/ EndsWith(CRLF) /\ now = Failure("HeaderMapOverflow")

(* Whatever a peer sends, well-formed or not, is read as if it had arrived *)
(* at once: the same messages, nothing complete left waiting at the end,   *)
(* and a failure only where it would fail then, or behind "RTSP/", or for  *)
(* a full header map not yet closed. The parser must not see a final       *)
(* carriage return (header_map.c:76).                                      *)
ReadAsAtOnce ==
  ~ IsSuffix(<<"CR">>, Sent(traffic)) =>
    /\ AtOnce(role, Sent(traffic))[Len(delivered)] =
         [left |-> buffer \o wire, messages |-> delivered]
    /\ Agree(Parsed(role, Input(buffer, beyond)), Parsed(role, Input(buffer \o wire, Nothing)))

(* What has been read when all was is what the peer meant. *)
Conveys(all) ==
  /\ all.messages = Expected
  /\ Parsed(role, Input(all.left, Nothing)).st # "complete"
  /\ FirstBad <= Len(traffic) \/ all.left = << >>

Understood ==
  /\ Len(Expected) \in 0 .. Len(Sent(traffic))
  /\ Conveys(AtOnce(role, Sent(traffic))[Len(Expected)])

(* What is serialized is what is read: traffic that arrives at once is the *)
(* messages it stands for, up to the first malformed one, and no others,   *)
(* and nothing is left if none is malformed.                               *)
ReadsBack == wire = Sent(traffic) /\ ~ IsSuffix(<<"CR">>, wire) => Understood

(* What tests/types/test_util.h:29 asserts of every parser: whatever part  *)
(* of a well-formed message has arrived, parsing it is partial, no failure.*)
PrefixesArePartial == stage = "failed" => FirstBad <= Len(traffic)

(* What context.h:109 and controller.h:131 say of the result of respond,   *)
(* which `after' gets: negative if the response could not be written.      *)
FailureReported == outcome.failed => outcome.ret < 0

=============================================================================
