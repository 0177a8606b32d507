---------------------------- MODULE MCConnection ----------------------------
(***************************************************************************)
(* Peers for Connection: well-formed messages with and without headers and *)
(* bodies, one whose header map is full, interleaved frames between them,  *)
(* messages back to back, and malformed ones.                              *)
(***************************************************************************)
EXTENDS Connection, SequencesExt

Header(key, value) == [key |-> key, value |-> value]
Msg(line, headers, body, cseq) ==
  [line |-> line, headers |-> headers, body |-> body, cseq |-> cseq]

Good(msg, groups) ==
  [octets |-> Octets(groups), bad |-> FALSE,
   msgs |-> <<[msg EXCEPT !.headers = WithAutomatic(msg)]>>]
Request(msg) == Good(msg, Request_serialize(msg))
Response(msg) == Good(msg, Response_serialize(msg))
Frame(payload) ==
  [octets |-> <<"$", "c", "0">> \o Decimal(Len(payload)) \o payload, bad |-> FALSE, msgs |-> << >>]
Bad(octets) == [octets |-> octets, bad |-> TRUE, msgs |-> << >>]

Line == <<<<"PLAY">>, <<"u", "/">>>>
Plain == Request(Msg(Line, << >>, << >>, 7))
Blank == Request(Msg(<<<<"PAUSE">>, <<"*">>>>, <<Header(<<"Range">>, <<"n", " ", "-">>)>>, << >>, 42))
Full == Request(Msg(<<<<"SETUP">>, <<"u">>>>,
                    <<Header(<<"Range">>, <<"n">>), Header(C_SEQ, <<"9">>)>>, <<"b">>, 9))
EndsInCR == Request(Msg(Line, << >>, <<"b", "CR">>, 8))
LooksLikeHead == Request(Msg(Line, << >>, <<"R", "CR", "LF", "CR", "LF">>, 8))

Of(groups) == Octets(<<RequestLine_serialize(Line)>> \o groups \o <<<<CRLF>>>>)
NoCSeq == Bad(Of(<< >>))
NotANumber == Bad(Of(<<Header_serialize(Header(C_SEQ, <<"x">>))>>))
TooLong == Bad(Of(<<Header_serialize(Header(C_SEQ, <<"1", " ", "x", "x">>))>>))
TooMany == Bad(Of([i \in 1 .. 4 |-> Header_serialize(Header(C_SEQ, <<"1">>))]))
BadLength == Bad(Of(<<Header_serialize(Header(CONTENT_LENGTH, <<"-">>))>>))
BadVersion == Bad(<<"PLAY", " ", "u", " ", "R", "T", "S", "P", "/", "2", "5", "6", ".", "0">> \o CRLF)
BadMethod == Bad(<<"~", " ", "u", " ", "1">>)

Ok == Response(Msg(<<<<"2", "0", "0">>, <<"OK">>>>, << >>, <<"b">>, 5))
Denied == Response(Msg(<<<<"4", "0", "4">>, <<"No", " ", "way">>>>,
                       <<Header(<<"Range">>, <<"n">>)>>, << >>, 6))
BadCode == Bad(VERSION \o <<" ", "6", "5", "5", "3", "6", " ", "OK">> \o CRLF)

MCTraffic ==
  [server |-> {<<Plain, Blank>>, <<Full, Plain>>, <<Frame(<<"$", "CR">>), Full, Frame(<<"x">>), Blank>>,
               <<EndsInCR>>, <<EndsInCR, Plain>>, <<LooksLikeHead, Full>>,
               <<Plain, NoCSeq>>, <<NotANumber>>, <<Plain, TooLong>>, <<TooMany, Plain>>,
               <<BadLength>>, <<BadVersion>>, <<Frame(<< >>), BadMethod>>},
   client |-> {<<Ok, Denied>>, <<Denied, Frame(<<"RTSP">>), Ok>>, <<Ok, BadCode>>}]

MCAlphabet == Letters \cup Digits \cup
  {" ", "CR", "LF", "/", ":", ".", "-", "$", "*", "~", "b", "c", "n", "u", "x",
   "OK", "No", "way", "RTSP"}

(* The memory behind the buffer: a digit, or not. *)
AnyOctet == {"1", "x"}
ADigit == {"1"}

MCHeaders == {Header(C_SEQ, <<"3">>)}
MCBodies == {<<"b", "b">>}

=============================================================================
