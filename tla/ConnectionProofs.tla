-------------------------- MODULE ConnectionProofs --------------------------
(***************************************************************************)
(* What goes over one connection.                                          *)
(*                                                                         *)
(* Out: the connection that streams share, for every number of streams,    *)
(* packet size and deployment: the lock serializes the writes of frames,   *)
(* the numbers of packets written whole have no gap, and the backlog is    *)
(* bounded; where one thread at a time uses the connection, the peer can   *)
(* decode it.                                                              *)
(*                                                                         *)
(* In: the reader of requests or responses, for all that peers send, every *)
(* split of it and every limit of the parser: what is read in pieces is    *)
(* what would be read at once.                                             *)
(***************************************************************************)
EXTENDS TcpInterleaved, Connection, FiniteSetTheorems, SequenceTheorems, TLAPS

-----------------------------------------------------------------------------
(* Out: the shared connection.                                             *)

(* Division with remainder of a natural number. *)
LEMMA DivMod ==
  ASSUME NEW a \in Nat, NEW b \in Nat \ {0}
  PROVE  /\ a \div b \in Nat
         /\ a % b \in 0 .. b - 1
         /\ a = b * (a \div b) + (a % b)
BY SMT

(* Quotient and remainder are unique. *)
LEMMA DivModUnique ==
  ASSUME NEW b \in Nat \ {0}, NEW q \in Nat, NEW r \in 0 .. b - 1
  PROVE  /\ (b * q + r) \div b = q
         /\ (b * q + r) % b = r
BY SMT

(* A counter may be wrapped at every step or once at the end. *)
LEMMA WrapIncrement ==
  ASSUME NEW n \in Nat, NEW M \in Nat \ {0}
  PROVE  ((n % M) + 1) % M = (n + 1) % M
<1> DEFINE q == n \div M
           r == n % M
<1>1. q \in Nat /\ r \in 0 .. M - 1 /\ n = M * q + r
  BY DivMod
<1> HIDE DEF q, r
<1>2. CASE r + 1 < M
  <2>1. r + 1 \in 0 .. M - 1 /\ n + 1 = M * q + (r + 1)
    BY <1>1, <1>2
  <2>2. (n + 1) % M = r + 1
    BY <2>1, <1>1, DivModUnique
  <2>3. (r + 1) % M = r + 1
    BY <2>1, <1>1
  <2> QED
    BY <2>2, <2>3 DEF r
<1>3. CASE r + 1 = M
  <2>1. n + 1 = M * (q + 1) + 0 /\ q + 1 \in Nat /\ 0 \in 0 .. M - 1
    BY <1>1, <1>3
  <2>2. (n + 1) % M = 0
    BY <2>1, DivModUnique
  <2>3. M % M = 0
    BY DivModUnique, 1 \in Nat, 0 \in 0 .. M - 1, M = M * 1 + 0
  <2> QED
    BY <2>2, <2>3, <1>3 DEF r
<1> QED
  BY <1>1, <1>2, <1>3

(* A frame is its header and one token for every octet of the packet.      *)
LEMMA FrameTokens ==
  ASSUME NEW pkt \in Packets
  PROVE  Frame(pkt) \in Seq(Tokens) /\ Len(Frame(pkt)) = pkt.len + 1 /\ pkt.len \in Nat \ {0}
<1>1. pkt.channel \in Streams /\ pkt.len \in 1 .. U16 - 1
  BY TcpAssumption DEF Packets
<1> DEFINE n == pkt.len
<1>2. pkt.len \in Nat \ {0}
  BY <1>1
<1>3. Body(pkt) \in Seq(Tokens) /\ Len(Body(pkt)) = pkt.len
  <2>1. ASSUME NEW k \in 1 .. pkt.len PROVE Octet(pkt, k) \in Tokens
    BY <1>2 DEF Octet, Tokens
  <2>2. Body(pkt) \in [1 .. pkt.len -> Tokens]
    BY <2>1 DEF Body
  <2> QED
    BY <1>2, <2>2, LenProperties
<1>4. interleaved_header(pkt.channel, pkt.len) \in Tokens
  <2>1. pkt.len % U16 \in 0 .. U16 - 1
    BY <1>2, TcpAssumption, DivMod
  <2> QED
    BY <1>1, <2>1 DEF interleaved_header, Tokens
<1> DEFINE h == interleaved_header(pkt.channel, pkt.len)
           b == Body(pkt)
<1> HIDE DEF h, b
<1>5. <<h>> \in Seq(Tokens) /\ Len(<<h>>) = 1 /\ b \in Seq(Tokens) /\ Len(b) = pkt.len
  BY <1>3, <1>4 DEF h, b
<1>6. <<h>> \o b \in Seq(Tokens) /\ Len(<<h>> \o b) = 1 + pkt.len
  BY <1>2, <1>5, ConcatProperties
<1> QED
  BY <1>2, <1>6 DEF Frame, h, b

-----------------------------------------------------------------------------

(* The calls of send_packet a stream can be in. *)
Calls ==
  {Idle}
    \cup [stage : {"lock"}, pkt : Packets]
    \cup [stage : {"write"}, pkt : Packets, off : Nat]
    \cup [stage : {"unlock"}, pkt : Packets, ret : Int]
    \cup [stage : {"return"}, pkt : Packets, ret : {0, -1}]

(* A call stays in its frame (off, ret as TypeOK bounds them). *)
InFrame(c) ==
  /\ c.stage = "write" => c.off \in 0 .. c.pkt.len
  /\ c.stage = "unlock" => c.ret \in {-1} \cup 1 .. c.pkt.len + 1

(* Whether the packet of a call was written whole already. *)
Taken(c) ==
  \/ c.stage = "unlock" /\ c.ret = c.pkt.len + 1
  \/ c.stage = "return" /\ c.ret = 0

(* A stream whose call is c, whose next number is n and which has written  *)
(* the packets acc: n numbers the next packet on the connection, or the    *)
(* one just written while the call has yet to count it.                    *)
StreamOK(c, n, acc) ==
  /\ InFrame(c)
  /\ n = (IF Taken(c) THEN Len(acc) - 1 ELSE Len(acc)) % U16
  /\ Taken(c) => Len(acc) > 0
  /\ c.stage # "idle" => c.pkt.seq = n
  /\ \A i \in 1 .. Len(acc) : acc[i].seq = (i - 1) % U16

StreamsOK ==
  /\ call \in [Streams -> Calls]
  /\ seq_num \in [Streams -> 0 .. U16 - 1]
  /\ accepted \in [Streams -> Seq(Packets)]
  /\ \A s \in Streams : StreamOK(call[s], seq_num[s], accepted[s])

(* The stream in its write, or just behind it, is the one with the lock. *)
LockHeld ==
  \A s \in Streams : lock = s <=> call[s].stage \in {"write", "unlock"}

ConnectionOK ==
  /\ deploy \in Deployments
  /\ lock \in Streams \cup {None}
  /\ out \in Seq(Tokens)
  /\ response \in 0 .. ResponseParts - 1
  /\ reading \in 0 .. ResponseParts - 1
  /\ received \in [Streams -> Seq(Packets)]
  /\ damaged \in BOOLEAN
  /\ torn \in BOOLEAN

TcpIInv == StreamsOK /\ LockHeld /\ ConnectionOK

LEMMA Stages ==
  ASSUME NEW c \in Calls
  PROVE  /\ c.stage \in {"idle", "lock", "write", "unlock", "return"}
         /\ c.stage = "idle" <=> c = Idle
         /\ c.stage # "idle" => c.pkt \in Packets
         /\ c.stage = "write" => c.off \in Nat
         /\ c.stage = "unlock" => c.ret \in Int
         /\ c.stage = "return" => c.ret \in {0, -1}
BY DEF Calls, Idle

LEMMA TcpInvImplies == TcpIInv => TypeOK /\ AcceptedGapless
<1>1. SUFFICES ASSUME TcpIInv PROVE TypeOK /\ AcceptedGapless
  OBVIOUS
<1>2. ASSUME NEW s \in Streams
      PROVE  \/ call[s] = Idle
             \/ /\ call[s].pkt \in Packets
                /\ \/ call[s].stage = "lock"
                   \/ call[s].stage = "write" /\ call[s].off \in 0 .. call[s].pkt.len
                   \/ call[s].stage = "unlock"
                        /\ call[s].ret \in {-1} \cup 1 .. call[s].pkt.len + 1
                   \/ call[s].stage = "return" /\ call[s].ret \in {0, -1}
  <2>1. call[s] \in Calls /\ InFrame(call[s])
    BY <1>1 DEF TcpIInv, StreamsOK, StreamOK
  <2> QED
    BY <2>1, Stages DEF InFrame
<1>3. TypeOK
  BY <1>1, <1>2 DEF TcpIInv, StreamsOK, ConnectionOK, TypeOK
<1>4. AcceptedGapless
  BY <1>1 DEF TcpIInv, StreamsOK, StreamOK, AcceptedGapless
<1> QED
  BY <1>3, <1>4

LEMMA TcpInvInit == Init => TcpIInv
<1>1. SUFFICES ASSUME Init PROVE TcpIInv
  OBVIOUS
<1>2. 0 \in 0 .. U16 - 1 /\ 0 \in 0 .. ResponseParts - 1 /\ 0 % U16 = 0
  BY TcpAssumption
<1>3. << >> \in Seq(Packets) /\ << >> \in Seq(Tokens) /\ Len(<< >>) = 0
  OBVIOUS
<1>4. Idle \in Calls /\ Idle.stage = "idle"
  BY DEF Calls, Idle
<1>5. ASSUME NEW acc, acc = << >> PROVE StreamOK(Idle, 0, acc)
  BY <1>2, <1>4, <1>5 DEF StreamOK, InFrame, Taken
<1>6. /\ call = [s \in Streams |-> Idle] /\ seq_num = [s \in Streams |-> 0]
      /\ accepted = [s \in Streams |-> << >>] /\ received = [s \in Streams |-> << >>]
      /\ lock = None /\ out = << >> /\ deploy \in Deployments
      /\ response = 0 /\ reading = 0 /\ damaged = FALSE /\ torn = FALSE
  BY <1>1 DEF Init
<1>7. StreamsOK
  BY <1>2, <1>3, <1>4, <1>5, <1>6, Zenon DEF StreamsOK
<1>8. LockHeld
  BY <1>4, <1>6, NobodyIsNone DEF LockHeld
<1>9. ConnectionOK
  BY <1>2, <1>3, <1>6 DEF ConnectionOK
<1> QED
  BY <1>7, <1>8, <1>9 DEF TcpIInv

(* A step of one stream leaves the others what they were. *)
LEMMA OneStream ==
  ASSUME StreamsOK, NEW s \in Streams, NEW c \in Calls, NEW n \in 0 .. U16 - 1,
         NEW acc \in Seq(Packets), StreamOK(c, n, acc),
         call' = [call EXCEPT ![s] = c],
         seq_num' = [seq_num EXCEPT ![s] = n],
         accepted' = [accepted EXCEPT ![s] = acc]
  PROVE  StreamsOK'
<1>1. /\ call' \in [Streams -> Calls] /\ seq_num' \in [Streams -> 0 .. U16 - 1]
      /\ accepted' \in [Streams -> Seq(Packets)]
  BY DEF StreamsOK
<1>2. ASSUME NEW t \in Streams PROVE StreamOK(call'[t], seq_num'[t], accepted'[t])
  <2>1. CASE t = s
    <3>1. call'[t] = c /\ seq_num'[t] = n /\ accepted'[t] = acc
      BY <2>1 DEF StreamsOK
    <3> QED
      BY <3>1
  <2>2. CASE t # s
    <3>1. call'[t] = call[t] /\ seq_num'[t] = seq_num[t] /\ accepted'[t] = accepted[t]
      BY <2>2 DEF StreamsOK
    <3> QED
      BY <3>1 DEF StreamsOK
  <2> QED
    BY <2>1, <2>2
<1> QED
  BY <1>1, <1>2 DEF StreamsOK, StreamOK, InFrame, Taken

-----------------------------------------------------------------------------

(* What is known of a stream before its step. *)
LEMMA StreamTypes ==
  ASSUME TcpIInv, NEW s \in Streams
  PROVE  /\ call[s] \in Calls /\ seq_num[s] \in 0 .. U16 - 1 /\ accepted[s] \in Seq(Packets)
         /\ StreamOK(call[s], seq_num[s], accepted[s])
         /\ seq_num = [seq_num EXCEPT ![s] = seq_num[s]]
         /\ accepted = [accepted EXCEPT ![s] = accepted[s]]
BY DEF TcpIInv, StreamsOK

LEMMA SendKeeps ==
  ASSUME TcpIInv, NEW s \in Streams, NEW len \in Sizes, Send(s, len)
  PROVE  TcpIInv'
<1> DEFINE pkt == [channel |-> s, seq |-> seq_num[s], len |-> len]
           c == [stage |-> "lock", pkt |-> pkt]
<1>1. /\ call[s] = Idle /\ call' = [call EXCEPT ![s] = c]
      /\ UNCHANGED <<deploy, seq_num, writer, response, peer, accepted, torn>>
  BY DEF Send
<1>2. pkt \in Packets /\ pkt.seq = seq_num[s]
  BY StreamTypes DEF Packets
<1> HIDE DEF pkt
<1>3. c \in Calls /\ c.stage = "lock" /\ c.pkt = pkt
  BY <1>2 DEF Calls
<1> HIDE DEF c
<1>4. StreamOK(c, seq_num[s], accepted[s])
  BY <1>1, <1>2, <1>3, StreamTypes DEF StreamOK, InFrame, Taken, Idle
<1>5. StreamsOK'
  BY <1>1, <1>3, <1>4, StreamTypes, OneStream DEF TcpIInv
<1>6. LockHeld'
  <2>1. \A t \in Streams : call'[t] = IF t = s THEN c ELSE call[t]
    BY <1>1 DEF TcpIInv, StreamsOK
  <2>2. lock' = lock /\ call[s].stage = "idle"
    BY <1>1 DEF writer, Idle
  <2> QED
    BY <1>3, <2>1, <2>2 DEF TcpIInv, LockHeld
<1>7. ConnectionOK'
  BY <1>1 DEF TcpIInv, ConnectionOK, writer, peer
<1> QED
  BY <1>5, <1>6, <1>7 DEF TcpIInv

LEMMA LockKeeps ==
  ASSUME TcpIInv, NEW s \in Streams, Lock(s)
  PROVE  TcpIInv'
<1> DEFINE c == [stage |-> "write", pkt |-> call[s].pkt, off |-> 0]
<1>1. /\ call[s].stage = "lock" /\ lock = None /\ lock' = s
      /\ call' = [call EXCEPT ![s] = c]
      /\ UNCHANGED <<deploy, seq_num, out, response, peer, accepted, torn>>
  BY DEF Lock
<1>2. call[s].pkt \in Packets /\ call[s].pkt.len \in Nat
  BY <1>1, StreamTypes, Stages, FrameTokens
<1>3. c \in Calls /\ c.stage = "write" /\ c.pkt = call[s].pkt /\ c.off = 0
  BY <1>2 DEF Calls
<1> HIDE DEF c
<1>4. StreamOK(c, seq_num[s], accepted[s])
  BY <1>1, <1>2, <1>3, StreamTypes DEF StreamOK, InFrame, Taken
<1>5. StreamsOK'
  BY <1>1, <1>3, <1>4, StreamTypes, OneStream DEF TcpIInv
<1>6. LockHeld'
  <2>1. \A t \in Streams : call'[t] = IF t = s THEN c ELSE call[t]
    BY <1>1 DEF TcpIInv, StreamsOK
  <2>2. \A t \in Streams : call[t].stage \notin {"write", "unlock"}
    BY <1>1, NobodyIsNone DEF TcpIInv, LockHeld
  <2> QED
    BY <1>1, <1>3, <2>1, <2>2 DEF LockHeld
<1>7. ConnectionOK'
  BY <1>1 DEF TcpIInv, ConnectionOK, peer
<1> QED
  BY <1>5, <1>6, <1>7 DEF TcpIInv

(* The last token of a frame counts its packet in; the lock stays. *)
LEMMA WriteKeeps ==
  ASSUME TcpIInv, NEW s \in Streams, Write(s)
  PROVE  TcpIInv'
<1> DEFINE pkt == call[s].pkt
           frame == Frame(pkt)
           off == call[s].off + 1
           whole == off = Len(frame)
           c == IF whole THEN [stage |-> "unlock", pkt |-> pkt, ret |-> off]
                ELSE [call[s] EXCEPT !.off = off]
           acc == IF whole THEN Append(accepted[s], pkt) ELSE accepted[s]
           n == seq_num[s]
<1>1. /\ call[s].stage = "write" /\ out' = Append(out, frame[off])
      /\ call' = [call EXCEPT ![s] = c]
      /\ accepted' = [accepted EXCEPT ![s] = acc]
      /\ UNCHANGED <<deploy, seq_num, lock, response, peer, torn>>
  <2>1. /\ call[s].stage = "write" /\ out' = Append(out, frame[off])
        /\ call' = [call EXCEPT ![s] = c]
        /\ accepted' = IF whole THEN [accepted EXCEPT ![s] = Append(accepted[s], pkt)]
                       ELSE accepted
        /\ UNCHANGED <<deploy, seq_num, lock, response, peer, torn>>
    BY DEF Write
  <2>2. accepted' = [accepted EXCEPT ![s] = acc]
    BY <2>1, StreamTypes
  <2> QED
    BY <2>1, <2>2
<1>2. /\ call[s] \in Calls /\ pkt \in Packets /\ call[s].off \in 0 .. pkt.len
      /\ pkt.seq = n /\ n \in 0 .. U16 - 1
      /\ accepted[s] \in Seq(Packets) /\ n = Len(accepted[s]) % U16
      /\ \A i \in 1 .. Len(accepted[s]) : accepted[s][i].seq = (i - 1) % U16
  BY <1>1, StreamTypes, Stages DEF StreamOK, InFrame, Taken
<1>3. frame \in Seq(Tokens) /\ Len(frame) = pkt.len + 1 /\ pkt.len \in Nat \ {0}
  BY <1>2, FrameTokens
<1>4. off \in 1 .. Len(frame) /\ (whole <=> off = pkt.len + 1)
  BY <1>2, <1>3
<1>5. frame[off] \in Tokens
  <2> HIDE DEF frame, off
  <2> QED
    BY <1>3, <1>4, ElementOfSeq
<1> HIDE DEF frame, off
<1>6. StreamOK(c, n, acc) /\ c \in Calls /\ acc \in Seq(Packets)
      /\ c.stage \in {"write", "unlock"}
  <2>1. CASE whole
    <3>1. c = [stage |-> "unlock", pkt |-> pkt, ret |-> pkt.len + 1] /\ acc = Append(accepted[s], pkt)
      BY <1>4, <2>1
    <3> HIDE DEF pkt, c, acc, n
    <3>2. /\ c \in Calls /\ c.stage = "unlock" /\ c.ret = pkt.len + 1 /\ c.pkt = pkt
      BY <1>2, <1>3, <3>1 DEF Calls
    <3>3. /\ acc \in Seq(Packets) /\ Len(acc) = Len(accepted[s]) + 1 /\ Len(accepted[s]) \in Nat
          /\ \A i \in 1 .. Len(accepted[s]) : acc[i] = accepted[s][i]
          /\ acc[Len(accepted[s]) + 1] = pkt
      BY <1>2, <3>1, AppendProperties, LenProperties
    <3>4. ASSUME NEW i \in 1 .. Len(acc) PROVE acc[i].seq = (i - 1) % U16
      <4>1. CASE i \in 1 .. Len(accepted[s])
        BY <1>2, <3>3, <4>1
      <4>2. CASE i = Len(accepted[s]) + 1
        <5>1. i - 1 = Len(accepted[s])
          BY <3>3, <4>2
        <5> QED
          BY <1>2, <3>3, <4>2, <5>1
      <4> QED
        BY <3>3, <4>1, <4>2
    <3>5. Taken(c) /\ Len(acc) > 0 /\ n = (Len(acc) - 1) % U16
      <4>1. Len(acc) - 1 = Len(accepted[s]) /\ Len(acc) > 0
        BY <3>3
      <4> QED
        BY <1>2, <3>2, <4>1 DEF Taken
    <3>6. InFrame(c)
      BY <1>3, <3>2 DEF InFrame
    <3> QED
      BY <1>2, <3>2, <3>3, <3>4, <3>5, <3>6 DEF StreamOK
  <2>2. CASE ~ whole
    <3>1. c = [call[s] EXCEPT !.off = off] /\ acc = accepted[s]
      BY <2>2
    <3>2. off \in 0 .. pkt.len /\ off \in Nat
      BY <1>3, <1>4, <2>2
    <3>3. call[s] \in [stage : {"write"}, pkt : Packets, off : Nat]
      BY <1>1, <1>2 DEF Calls, Idle
    <3>4. c \in Calls /\ c.stage = "write" /\ c.pkt = pkt /\ c.off = off
      BY <3>1, <3>2, <3>3 DEF Calls
    <3> HIDE DEF c, acc, pkt
    <3> QED
      BY <1>2, <3>1, <3>2, <3>4 DEF StreamOK, InFrame, Taken
  <2> QED
    BY <2>1, <2>2
<1> HIDE DEF c, acc
<1>7. StreamsOK'
  <2>1. seq_num' = [seq_num EXCEPT ![s] = n]
    BY <1>1, StreamTypes
  <2> QED
    BY <1>1, <1>2, <1>6, <2>1, OneStream DEF TcpIInv
<1>8. LockHeld'
  <2>1. \A t \in Streams : call'[t] = IF t = s THEN c ELSE call[t]
    BY <1>1 DEF TcpIInv, StreamsOK
  <2> QED
    BY <1>1, <1>6, <2>1 DEF TcpIInv, LockHeld
<1>9. ConnectionOK'
  <2>1. out' \in Seq(Tokens)
    BY <1>1, <1>5, AppendProperties DEF TcpIInv, ConnectionOK
  <2> QED
    BY <1>1, <2>1 DEF TcpIInv, ConnectionOK, peer
<1> QED
  BY <1>7, <1>8, <1>9 DEF TcpIInv

(* A write that stops counts nothing in. *)
LEMMA WriteStopsKeeps ==
  ASSUME TcpIInv, NEW s \in Streams, WriteStops(s)
  PROVE  TcpIInv'
<1> DEFINE pkt == call[s].pkt
           ret == IF call[s].off = 0 THEN -1 ELSE call[s].off
           c == [stage |-> "unlock", pkt |-> pkt, ret |-> ret]
<1>1. /\ call[s].stage = "write" /\ call' = [call EXCEPT ![s] = c]
      /\ torn' = (torn \/ call[s].off > 0)
      /\ UNCHANGED <<deploy, seq_num, writer, response, peer, accepted>>
  BY DEF WriteStops
<1>2. pkt \in Packets /\ pkt.len \in Nat \ {0} /\ call[s].off \in 0 .. pkt.len
  BY <1>1, StreamTypes, Stages, FrameTokens DEF StreamOK, InFrame
<1>3. ret \in {-1} \cup 1 .. pkt.len /\ ret \in Int
  BY <1>2
<1> HIDE DEF pkt, ret
<1>4. c \in Calls /\ c.stage = "unlock" /\ c.pkt = pkt /\ c.ret = ret
  BY <1>2, <1>3 DEF Calls
<1> HIDE DEF c
<1>5. StreamOK(c, seq_num[s], accepted[s])
  <2>1. ~ Taken(c) /\ InFrame(c)
    BY <1>2, <1>3, <1>4 DEF Taken, InFrame
  <2>2. ~ Taken(call[s]) /\ c.pkt = call[s].pkt
    BY <1>1, <1>4 DEF Taken, pkt
  <2> QED
    BY <1>1, <2>1, <2>2, StreamTypes DEF StreamOK
<1>6. StreamsOK'
  BY <1>1, <1>4, <1>5, StreamTypes, OneStream DEF TcpIInv
<1>7. LockHeld'
  <2>1. \A t \in Streams : call'[t] = IF t = s THEN c ELSE call[t]
    BY <1>1 DEF TcpIInv, StreamsOK
  <2>2. lock' = lock
    BY <1>1 DEF writer
  <2> QED
    BY <1>1, <1>4, <2>1, <2>2 DEF TcpIInv, LockHeld
<1>8. ConnectionOK'
  <2>1. torn' \in BOOLEAN
    BY <1>1 DEF TcpIInv, ConnectionOK
  <2> QED
    BY <1>1, <2>1 DEF TcpIInv, ConnectionOK, writer, peer
<1> QED
  BY <1>6, <1>7, <1>8 DEF TcpIInv

(* transmit answers 0 exactly for the packet that was written whole. *)
LEMMA UnlockKeeps ==
  ASSUME TcpIInv, NEW s \in Streams, Unlock(s)
  PROVE  TcpIInv'
<1> DEFINE pkt == call[s].pkt
           ret == IF call[s].ret = Len(Frame(pkt)) THEN 0 ELSE -1
           c == [stage |-> "return", pkt |-> pkt, ret |-> ret]
<1>1. /\ call[s].stage = "unlock" /\ lock' = None /\ call' = [call EXCEPT ![s] = c]
      /\ UNCHANGED <<deploy, seq_num, out, response, peer, accepted, torn>>
  BY DEF Unlock
<1>2. pkt \in Packets /\ Len(Frame(pkt)) = pkt.len + 1
  BY <1>1, StreamTypes, Stages, FrameTokens
<1>3. ret \in {0, -1} /\ (ret = 0 <=> call[s].ret = pkt.len + 1)
  BY <1>2
<1> HIDE DEF pkt, ret
<1>4. c \in Calls /\ c.stage = "return" /\ c.pkt = pkt /\ c.ret = ret
  BY <1>2, <1>3 DEF Calls
<1> HIDE DEF c
<1>5. StreamOK(c, seq_num[s], accepted[s])
  <2>1. Taken(c) <=> Taken(call[s])
    BY <1>1, <1>3, <1>4 DEF Taken, pkt
  <2>2. InFrame(c) /\ c.pkt = call[s].pkt
    BY <1>4 DEF InFrame, pkt
  <2> QED
    BY <1>1, <2>1, <2>2, StreamTypes DEF StreamOK
<1>6. StreamsOK'
  BY <1>1, <1>4, <1>5, StreamTypes, OneStream DEF TcpIInv
<1>7. LockHeld'
  <2>1. \A t \in Streams : call'[t] = IF t = s THEN c ELSE call[t]
    BY <1>1 DEF TcpIInv, StreamsOK
  <2>2. lock = s /\ \A t \in Streams : t # s => call[t].stage \notin {"write", "unlock"}
    BY <1>1 DEF TcpIInv, LockHeld
  <2> QED
    BY <1>1, <1>4, <2>1, <2>2, NobodyIsNone DEF LockHeld
<1>8. ConnectionOK'
  BY <1>1 DEF TcpIInv, ConnectionOK, peer
<1> QED
  BY <1>6, <1>7, <1>8 DEF TcpIInv

(* send_packet counts a packet transmit took, and no other. *)
LEMMA ReturnKeeps ==
  ASSUME TcpIInv, NEW s \in Streams, Return(s)
  PROVE  TcpIInv'
<1> DEFINE n == IF call[s].ret # -1 THEN (seq_num[s] + 1) % U16 ELSE seq_num[s]
<1>1. /\ call[s].stage = "return" /\ call' = [call EXCEPT ![s] = Idle]
      /\ seq_num' = [seq_num EXCEPT ![s] = n]
      /\ UNCHANGED <<deploy, writer, response, peer, accepted, torn>>
  <2>1. /\ call[s].stage = "return" /\ call' = [call EXCEPT ![s] = Idle]
        /\ seq_num' = IF call[s].ret # -1 THEN [seq_num EXCEPT ![s] = (seq_num[s] + 1) % U16]
                      ELSE seq_num
        /\ UNCHANGED <<deploy, writer, response, peer, accepted, torn>>
    BY DEF Return
  <2>2. seq_num' = [seq_num EXCEPT ![s] = n]
    BY <2>1, StreamTypes
  <2> QED
    BY <2>1, <2>2
<1>2. /\ call[s] \in Calls /\ call[s].ret \in {0, -1} /\ accepted[s] \in Seq(Packets)
      /\ seq_num[s] \in 0 .. U16 - 1 /\ StreamOK(call[s], seq_num[s], accepted[s])
  BY <1>1, StreamTypes, Stages
<1> DEFINE l == Len(accepted[s])
<1>3. l \in Nat
  BY <1>2
<1>4. n = l % U16 /\ n \in 0 .. U16 - 1
  <2>1. CASE call[s].ret = 0
    <3>1. Taken(call[s]) /\ l > 0 /\ seq_num[s] = (l - 1) % U16
      BY <1>1, <1>2, <2>1 DEF StreamOK, Taken
    <3> DEFINE m == l - 1
    <3>2. m \in Nat /\ m + 1 = l
      BY <1>3, <3>1
    <3> HIDE DEF m
    <3>3. ((m % U16) + 1) % U16 = (m + 1) % U16
      BY <3>2, TcpAssumption, WrapIncrement
    <3>4. n = ((m % U16) + 1) % U16
      BY <2>1, <3>1 DEF m
    <3> HIDE DEF n, l
    <3>5. n = l % U16
      BY <3>2, <3>3, <3>4
    <3> QED
      BY <1>3, <3>5, TcpAssumption, DivMod
  <2>2. CASE call[s].ret = -1
    BY <1>1, <1>2, <2>2 DEF StreamOK, Taken
  <2> QED
    BY <1>2, <2>1, <2>2
<1> HIDE DEF n, l
<1>5. Idle \in Calls /\ Idle.stage = "idle"
  BY DEF Calls, Idle
<1>6. StreamOK(Idle, n, accepted[s])
  BY <1>2, <1>4, <1>5 DEF StreamOK, InFrame, Taken, l
<1>7. StreamsOK'
  BY <1>1, <1>4, <1>5, <1>6, StreamTypes, OneStream DEF TcpIInv
<1>8. LockHeld'
  <2>1. \A t \in Streams : call'[t] = IF t = s THEN Idle ELSE call[t]
    BY <1>1 DEF TcpIInv, StreamsOK
  <2>2. lock' = lock
    BY <1>1 DEF writer
  <2> QED
    BY <1>1, <1>5, <2>1, <2>2 DEF TcpIInv, LockHeld
<1>9. ConnectionOK'
  BY <1>1 DEF TcpIInv, ConnectionOK, writer, peer
<1> QED
  BY <1>7, <1>8, <1>9 DEF TcpIInv

(* Responses and the peer move the connection only. *)
LEMMA ConnectionKeeps ==
  ASSUME TcpIInv, UNCHANGED <<call, seq_num, accepted, lock>>, ConnectionOK'
  PROVE  TcpIInv'
BY DEF TcpIInv, StreamsOK, StreamOK, InFrame, Taken, LockHeld

LEMMA RespondKeeps ==
  ASSUME TcpIInv, Respond \/ RespondStops
  PROVE  TcpIInv'
<1>1. CASE Respond
  <2>1. /\ UNCHANGED <<deploy, call, seq_num, lock, peer, accepted, torn>>
        /\ out' = Append(out, Text(response + 1))
        /\ response' = (response + 1) % ResponseParts
    BY <1>1 DEF Respond
  <2>2. response \in 0 .. ResponseParts - 1 /\ ResponseParts \in Nat \ {0} /\ out \in Seq(Tokens)
    BY TcpAssumption DEF TcpIInv, ConnectionOK
  <2>3. Text(response + 1) \in Tokens
    BY <2>2 DEF Text, Tokens
  <2> DEFINE r == response + 1
  <2>4. r \in Nat
    BY <2>2
  <2> HIDE DEF r
  <2>5. r % ResponseParts \in 0 .. ResponseParts - 1
    BY <2>2, <2>4, DivMod
  <2>6. response' \in 0 .. ResponseParts - 1
    BY <2>1, <2>5 DEF r
  <2>7. out' \in Seq(Tokens)
    BY <2>1, <2>2, <2>3, AppendProperties
  <2>8. ConnectionOK'
    BY <2>1, <2>6, <2>7 DEF TcpIInv, ConnectionOK, peer
  <2> QED
    BY <2>1, <2>8, ConnectionKeeps
<1>2. CASE RespondStops
  <2>1. /\ UNCHANGED <<deploy, call, seq_num, writer, peer, accepted>>
        /\ response' \in {0} \cup (response + 1 .. ResponseParts - 1)
        /\ torn' = (torn \/ response # 0 \/ response' # 0)
    BY <1>2 DEF RespondStops
  <2>2. response' \in 0 .. ResponseParts - 1 /\ torn' \in BOOLEAN
    BY <2>1, TcpAssumption DEF TcpIInv, ConnectionOK
  <2>3. ConnectionOK'
    BY <2>1, <2>2 DEF TcpIInv, ConnectionOK, writer, peer
  <2> QED
    BY <2>1, <2>3, ConnectionKeeps DEF writer
<1> QED
  BY <1>1, <1>2

LEMMA PeerKeeps ==
  ASSUME TcpIInv, PeerFrame \/ PeerText
  PROVE  TcpIInv'
<1>0. out \in Seq(Tokens) /\ reading \in 0 .. ResponseParts - 1 /\ ResponseParts \in Nat \ {0}
      /\ received \in [Streams -> Seq(Packets)] /\ accepted \in [Streams -> Seq(Packets)]
  BY TcpAssumption DEF TcpIInv, ConnectionOK, StreamsOK
<1>1. CASE PeerFrame
  <2> DEFINE r == parse_interleaved_frame(out)
             h == out[1]
  <2>1. /\ r.status = "Complete"
        /\ out' = SubSeq(out, r.consumed + 1, Len(out))
        /\ UNCHANGED <<deploy, call, seq_num, lock, response, reading, accepted, torn>>
        /\ \/ \E i \in 1 .. Len(accepted[r.channel]) :
                /\ received' = [received EXCEPT ![r.channel] =
                                  Append(received[r.channel], accepted[r.channel][i])]
                /\ UNCHANGED damaged
           \/ damaged' = TRUE /\ UNCHANGED received
    BY <1>1 DEF PeerFrame
  <2>2. out # << >> /\ h.kind = "$" /\ Len(out) >= 1 + h.len
        /\ r.channel = h.from /\ r.consumed = 1 + h.len
    <3>1. CASE out = << >>
      BY <2>1, <3>1 DEF parse_interleaved_frame
    <3>2. CASE out # << >> /\ h.kind # "$"
      BY <2>1, <3>2 DEF parse_interleaved_frame
    <3>3. CASE out # << >> /\ h.kind = "$" /\ Len(out) < 1 + h.len
      BY <2>1, <3>3 DEF parse_interleaved_frame
    <3>4. CASE out # << >> /\ h.kind = "$" /\ ~ (Len(out) < 1 + h.len)
      <4>1. r.channel = h.from /\ r.consumed = 1 + h.len
        BY <3>4 DEF parse_interleaved_frame
      <4>2. h.len \in Nat /\ Len(out) \in Nat
        <5>1. 1 \in 1 .. Len(out)
          BY <1>0, <3>4
        <5>2. h \in Tokens
          BY <1>0, <5>1, ElementOfSeq
        <5> QED
          BY <1>0, <3>4, <5>2 DEF Tokens
      <4> QED
        BY <3>4, <4>1, <4>2
    <3> QED
      BY <3>1, <3>2, <3>3, <3>4
  <2>3. h.from \in Streams /\ h.len \in Nat
    <3>1. 1 \in 1 .. Len(out)
      BY <1>0, <2>2
    <3>2. h \in Tokens
      BY <1>0, <3>1, ElementOfSeq
    <3> QED
      BY <2>2, <3>2 DEF Tokens
  <2>4. out' \in Seq(Tokens)
    <3> DEFINE m == r.consumed + 1
    <3>1. m \in 1 .. Len(out) + 1 /\ Len(out) \in m - 1 .. Len(out)
      BY <1>0, <2>2, <2>3
    <3>2. out' = SubSeq(out, m, Len(out))
      BY <2>1
    <3> HIDE DEF m
    <3> QED
      BY <1>0, <3>1, <3>2, SubSeqProperties
  <2>5. received' \in [Streams -> Seq(Packets)]
    <3>1. CASE UNCHANGED received
      BY <1>0, <3>1
    <3>2. ASSUME NEW i \in 1 .. Len(accepted[r.channel]),
                 received' = [received EXCEPT ![r.channel] =
                                Append(received[r.channel], accepted[r.channel][i])]
          PROVE  received' \in [Streams -> Seq(Packets)]
      <4> DEFINE ch == r.channel
      <4>1. ch \in Streams
        BY <2>2, <2>3
      <4> HIDE DEF ch
      <4>2. accepted[ch] \in Seq(Packets) /\ received[ch] \in Seq(Packets)
        BY <1>0, <4>1
      <4>3. i \in 1 .. Len(accepted[ch])
        BY <3>2 DEF ch
      <4>4. accepted[ch][i] \in Packets
        BY <4>2, <4>3, ElementOfSeq
      <4>5. Append(received[ch], accepted[ch][i]) \in Seq(Packets)
        BY <4>2, <4>4, AppendProperties
      <4>6. received' = [received EXCEPT ![ch] = Append(received[ch], accepted[ch][i])]
        BY <3>2 DEF ch
      <4> QED
        BY <1>0, <4>5, <4>6
    <3> QED
      BY <2>1, <3>1, <3>2
  <2>6. damaged' \in BOOLEAN
    BY <2>1 DEF TcpIInv, ConnectionOK
  <2>7. ConnectionOK'
    BY <2>1, <2>4, <2>5, <2>6 DEF TcpIInv, ConnectionOK
  <2> QED
    BY <2>1, <2>7, ConnectionKeeps
<1>2. CASE PeerText
  <2>1. /\ out # << >> /\ out' = Tail(out)
        /\ \/ reading' = (reading + 1) % ResponseParts /\ UNCHANGED damaged
           \/ damaged' = TRUE /\ UNCHANGED reading
        /\ UNCHANGED <<deploy, call, seq_num, lock, response, received, accepted, torn>>
    BY <1>2 DEF PeerText
  <2>2. out' \in Seq(Tokens)
    BY <1>0, <2>1, HeadTailProperties
  <2> DEFINE r == reading + 1
  <2>3. r \in Nat
    BY <1>0
  <2> HIDE DEF r
  <2>4. r % ResponseParts \in 0 .. ResponseParts - 1
    BY <1>0, <2>3, DivMod
  <2>5. reading' \in 0 .. ResponseParts - 1
    BY <1>0, <2>1, <2>4 DEF r
  <2>6. damaged' \in BOOLEAN
    BY <2>1 DEF TcpIInv, ConnectionOK
  <2>7. ConnectionOK'
    BY <2>1, <2>2, <2>5, <2>6 DEF TcpIInv, ConnectionOK
  <2> QED
    BY <2>1, <2>7, ConnectionKeeps
<1> QED
  BY <1>1, <1>2

LEMMA TcpInvStep == TcpIInv /\ [Next]_vars => TcpIInv'
<1>1. SUFFICES ASSUME TcpIInv, [Next]_vars PROVE TcpIInv'
  OBVIOUS
<1>2. CASE UNCHANGED vars
  BY <1>1, <1>2, ConnectionKeeps DEF vars, writer, peer, TcpIInv, ConnectionOK
<1>3. ASSUME NEW s \in Streams, Thread(s) PROVE TcpIInv'
  BY <1>1, <1>3, LockKeeps, WriteKeeps, WriteStopsKeeps, UnlockKeeps, ReturnKeeps DEF Thread
<1>4. ASSUME NEW s \in Streams, NEW len \in Sizes, Send(s, len) PROVE TcpIInv'
  BY <1>1, <1>4, SendKeeps
<1>5. CASE Respond \/ RespondStops
  BY <1>1, <1>5, RespondKeeps
<1>6. CASE Peer
  BY <1>1, <1>6, PeerKeeps DEF Peer
<1> QED
  BY <1>1, <1>2, <1>3, <1>4, <1>5, <1>6 DEF Next

-----------------------------------------------------------------------------

(* The variables stay in their types and calls in their frames. *)
THEOREM TcpTypeCorrect == Spec => []TypeOK
<1> QED
  BY TcpInvInit, TcpInvStep, TcpInvImplies, PTL DEF Spec

(* Packets written whole have consecutive numbers, whichever writes of     *)
(* this or of other streams stopped in between (tcp.c:85).                 *)
THEOREM AcceptedHaveNoGap == Spec => []AcceptedGapless
<1> QED
  BY TcpInvInit, TcpInvStep, TcpInvImplies, PTL DEF Spec

(* At most one stream is inside write at a time (tcp.c:80-82), however     *)
(* many threads send.                                                      *)
WritesExclude ==
  \A s, t \in Streams :
    call[s].stage = "write" /\ call[t].stage = "write" => s = t

THEOREM LockExcludesWrites == Spec => []WritesExclude
<1>1. TcpIInv => WritesExclude
  BY DEF TcpIInv, LockHeld, WritesExclude
<1> QED
  BY <1>1, TcpInvInit, TcpInvStep, PTL DEF Spec

-----------------------------------------------------------------------------
(* What the peer takes off the connection.                                 *)

(* A complete frame at the front, as parse_interleaved_frame sees it. *)
LEMMA CompleteFrame ==
  ASSUME NEW o \in Seq(Tokens), parse_interleaved_frame(o).status = "Complete"
  PROVE  /\ o # << >> /\ o[1] \in Tokens /\ o[1].kind = "$"
         /\ o[1].from \in Streams /\ o[1].len \in Nat /\ Len(o) >= 1 + o[1].len
         /\ parse_interleaved_frame(o).channel = o[1].from
         /\ parse_interleaved_frame(o).consumed = 1 + o[1].len
         /\ parse_interleaved_frame(o).payload = SubSeq(o, 2, 1 + o[1].len)
<1> DEFINE h == o[1]
<1>1. CASE o = << >>
  BY <1>1 DEF parse_interleaved_frame
<1>2. CASE o # << >> /\ h.kind # "$"
  BY <1>2 DEF parse_interleaved_frame
<1>3. CASE o # << >> /\ h.kind = "$" /\ Len(o) < 1 + h.len
  BY <1>3 DEF parse_interleaved_frame
<1>4. CASE o # << >> /\ h.kind = "$" /\ ~ (Len(o) < 1 + h.len)
  <2>1. parse_interleaved_frame(o).channel = h.from /\ parse_interleaved_frame(o).consumed = 1 + h.len
        /\ parse_interleaved_frame(o).payload = SubSeq(o, 2, 1 + h.len)
    BY <1>4 DEF parse_interleaved_frame
  <2>2. 1 \in 1 .. Len(o)
    BY <1>4
  <2>3. h \in Tokens
    BY <2>2, ElementOfSeq
  <2>4. h.from \in Streams /\ h.len \in Nat
    BY <1>4, <2>3 DEF Tokens
  <2> QED
    BY <1>4, <2>1, <2>3, <2>4
<1> QED
  BY <1>1, <1>2, <1>3, <1>4

(* The tokens behind the first c. *)
LEMMA DropFirst ==
  ASSUME NEW o \in Seq(Tokens), NEW c \in 0 .. Len(o)
  PROVE  LET r == SubSeq(o, c + 1, Len(o))
         IN  /\ r \in Seq(Tokens) /\ Len(o) = Len(r) + c
             /\ \A i \in 1 .. Len(r) : r[i] = o[i + c]
<1> DEFINE r == SubSeq(o, c + 1, Len(o))
           m == c + 1
<1>1. m \in 1 .. Len(o) + 1 /\ Len(o) \in Nat
  OBVIOUS
<1>2. \A i \in m .. Len(o) : o[i] \in Tokens
  BY <1>1, ElementOfSeq
<1> HIDE DEF m
<1>3. /\ SubSeq(o, m, Len(o)) \in Seq(Tokens)
      /\ Len(SubSeq(o, m, Len(o))) = IF m <= Len(o) THEN Len(o) - m + 1 ELSE 0
      /\ \A i \in 1 .. Len(o) - m + 1 : SubSeq(o, m, Len(o))[i] = o[m + i - 1]
  BY <1>1, <1>2, SubSeqProperties
<1>4. r = SubSeq(o, m, Len(o))
  BY DEF m
<1> HIDE DEF r
<1>5. Len(r) = Len(o) - c /\ \A i \in 1 .. Len(r) : r[i] = o[m + i - 1]
  BY <1>1, <1>3, <1>4 DEF m
<1>6. \A i \in 1 .. Len(r) : m + i - 1 = i + c
  BY <1>1, <1>5 DEF m
<1> QED
  BY <1>1, <1>3, <1>4, <1>5, <1>6 DEF r

LEMMA PeerDrops ==
  ASSUME TcpIInv, Peer
  PROVE  \E d \in Nat : Len(out) = Len(out') + d /\ \A i \in 1 .. Len(out') : out'[i] = out[i + d]
<1>0. out \in Seq(Tokens)
  BY DEF TcpIInv, ConnectionOK
<1>1. CASE PeerFrame
  <2> DEFINE d == 1 + out[1].len
  <2>1. parse_interleaved_frame(out).status = "Complete"
        /\ out' = SubSeq(out, parse_interleaved_frame(out).consumed + 1, Len(out))
    BY <1>1 DEF PeerFrame
  <2>2. d \in 0 .. Len(out) /\ d \in Nat /\ out' = SubSeq(out, d + 1, Len(out))
    <3>1. out[1].len \in Nat /\ Len(out) >= 1 + out[1].len
          /\ parse_interleaved_frame(out).consumed = 1 + out[1].len
      BY <1>0, <2>1, CompleteFrame
    <3>2. Len(out) \in Nat
      BY <1>0
    <3>3. d \in 0 .. Len(out) /\ d \in Nat
      BY <3>1, <3>2
    <3> QED
      BY <2>1, <3>1, <3>3
  <2> HIDE DEF d
  <2> QED
    BY <1>0, <2>2, DropFirst
<1>2. CASE PeerText
  <2>1. out # << >> /\ out' = Tail(out)
    BY <1>2 DEF PeerText
  <2>2. Len(out) = Len(out') + 1 /\ \A i \in 1 .. Len(out') : out'[i] = out[i + 1]
    BY <1>0, <2>1, HeadTailProperties
  <2> QED
    BY <2>2
<1> QED
  BY <1>1, <1>2 DEF Peer

-----------------------------------------------------------------------------
(* The backlog of frames: what a stream has left to write when it found    *)
(* the buffer not full is at most one frame.                               *)

FramesIn(o) == {i \in DOMAIN o : o[i].kind # "text"}

LEMMA FramesCount ==
  ASSUME NEW o \in Seq(Tokens)
  PROVE  /\ IsFiniteSet(FramesIn(o)) /\ Cardinality(FramesIn(o)) \in Nat
         /\ Cardinality(FramesIn(o)) <= Len(o)
<1>1. DOMAIN o = 1 .. Len(o) /\ Len(o) \in Nat
  OBVIOUS
<1>2. IsFiniteSet(1 .. Len(o)) /\ Cardinality(1 .. Len(o)) = Len(o)
  <2>1. Cardinality(1 .. Len(o)) = (IF 1 > Len(o) THEN 0 ELSE Len(o) - 1 + 1) /\ IsFiniteSet(1 .. Len(o))
    BY SMTT(30), <1>1, FS_Interval
  <2> QED
    BY <1>1, <2>1
<1>3. FramesIn(o) \in SUBSET (1 .. Len(o))
  BY <1>1 DEF FramesIn
<1> QED
  BY <1>2, <1>3, FS_Subset, FS_CardinalityType

LEMMA FramesAppend ==
  ASSUME NEW o \in Seq(Tokens), NEW x \in Tokens
  PROVE  /\ x.kind = "text" => Cardinality(FramesIn(Append(o, x))) = Cardinality(FramesIn(o))
         /\ Cardinality(FramesIn(Append(o, x))) <= Cardinality(FramesIn(o)) + 1
<1> DEFINE r == Append(o, x)
           l == Len(o) + 1
<1>1. /\ DOMAIN o = 1 .. Len(o) /\ Len(o) \in Nat /\ DOMAIN r = 1 .. l
      /\ \A i \in 1 .. Len(o) : r[i] = o[i]
      /\ r[l] = x
  OBVIOUS
<1> HIDE DEF r
<1>2. CASE x.kind = "text"
  <2>1. FramesIn(r) = FramesIn(o)
    BY <1>1, <1>2 DEF FramesIn
  <2> QED
    BY <2>1, FramesCount DEF r
<1>3. CASE x.kind # "text"
  <2>1. FramesIn(r) = FramesIn(o) \cup {l}
    BY <1>1, <1>3 DEF FramesIn
  <2>2. Cardinality(FramesIn(o) \cup {l}) =
          IF l \in FramesIn(o) THEN Cardinality(FramesIn(o)) ELSE Cardinality(FramesIn(o)) + 1
    BY FramesCount, FS_AddElement
  <2>3. Cardinality(FramesIn(o)) \in Nat
    BY FramesCount
  <2> QED
    BY <1>3, <2>1, <2>2, <2>3 DEF r
<1> QED
  BY <1>2, <1>3

LEMMA FramesDrop ==
  ASSUME NEW o \in Seq(Tokens), NEW r \in Seq(Tokens), NEW c \in Nat,
         Len(o) = Len(r) + c, \A i \in 1 .. Len(r) : r[i] = o[i + c]
  PROVE  Cardinality(FramesIn(r)) <= Cardinality(FramesIn(o))
<1> DEFINE f == [i \in FramesIn(r) |-> i + c]
<1>1. DOMAIN o = 1 .. Len(o) /\ DOMAIN r = 1 .. Len(r) /\ Len(o) \in Nat /\ Len(r) \in Nat
  OBVIOUS
<1>2. ASSUME NEW i \in FramesIn(r) PROVE i \in Nat /\ i + c \in FramesIn(o)
  BY <1>1 DEF FramesIn
<1>3. f \in [FramesIn(r) -> FramesIn(o)]
  BY <1>2
<1>4. \A i, j \in FramesIn(r) : f[i] = f[j] => i = j
  BY <1>2
<1>5. f \in Injection(FramesIn(r), FramesIn(o))
  BY <1>3, <1>4 DEF Injection, IsInjective
<1> QED
  BY <1>5, FramesCount, FS_Injection

(* Token k of the frame stream s is sending is still to be written. *)
ToWrite(s, k) ==
  \/ call[s].stage = "lock" /\ k <= call[s].pkt.len + 1
  \/ call[s].stage = "write" /\ call[s].off < k /\ k <= call[s].pkt.len + 1

Pending(n) == {q \in Streams \X (1 .. n) : ToWrite(q[1], q[2])}

Backlog(n) ==
  Cardinality(FramesIn(out)) + Cardinality(Pending(n)) <= MaxBuffer + Cardinality(Streams) * n

BacklogOK == \A n \in Nat : LongestFrame(n) => Backlog(n)

LEMMA PendingFinite ==
  ASSUME NEW n \in Nat
  PROVE  /\ IsFiniteSet(Pending(n)) /\ Cardinality(Pending(n)) \in Nat
         /\ Cardinality(Pending(n)) <= Cardinality(Streams) * n
         /\ Cardinality(Streams) * n \in Nat
<1>1. IsFiniteSet(Streams) /\ Cardinality(Streams) \in Nat
  BY TcpAssumption, FS_CardinalityType
<1>2. IsFiniteSet(1 .. n) /\ Cardinality(1 .. n) = n
  <2>1. Cardinality(1 .. n) = (IF 1 > n THEN 0 ELSE n - 1 + 1) /\ IsFiniteSet(1 .. n)
    BY FS_Interval
  <2> QED
    BY <2>1
<1>3. IsFiniteSet(Streams \X (1 .. n)) /\ Cardinality(Streams \X (1 .. n)) = Cardinality(Streams) * n
  BY <1>1, <1>2, FS_Product
<1>4. Pending(n) \in SUBSET (Streams \X (1 .. n))
  BY DEF Pending
<1>5. IsFiniteSet(Pending(n)) /\ Cardinality(Pending(n)) <= Cardinality(Streams) * n
  BY <1>3, <1>4, FS_Subset
<1> QED
  BY <1>1, <1>5, FS_CardinalityType

LEMMA FewerPending ==
  ASSUME NEW n \in Nat, Pending(n)' \subseteq Pending(n)
  PROVE  IsFiniteSet(Pending(n)') /\ Cardinality(Pending(n)') \in Nat
         /\ Cardinality(Pending(n)') <= Cardinality(Pending(n))
<1>1. IsFiniteSet(Pending(n))
  BY PendingFinite
<1> QED
  BY <1>1, FS_Subset, FS_CardinalityType

LEMMA BacklogFewer ==
  ASSUME TcpIInv, BacklogOK,
         \A n \in Nat : Pending(n)' \subseteq Pending(n),
         out' \in Seq(Tokens), Cardinality(FramesIn(out')) <= Cardinality(FramesIn(out))
  PROVE  BacklogOK'
<1>1. ASSUME NEW n \in Nat, LongestFrame(n) PROVE Backlog(n)'
  <2>1. Cardinality(Pending(n)') \in Nat /\ Cardinality(Pending(n)') <= Cardinality(Pending(n))
    BY FewerPending
  <2>2. Cardinality(Pending(n)) \in Nat /\ Cardinality(Streams) * n \in Nat
    BY PendingFinite
  <2>3. Cardinality(FramesIn(out')) \in Nat /\ Cardinality(FramesIn(out)) \in Nat
    BY FramesCount DEF TcpIInv, ConnectionOK
  <2>4. Cardinality(FramesIn(out)) + Cardinality(Pending(n)) <= MaxBuffer + Cardinality(Streams) * n
    BY <1>1 DEF BacklogOK, Backlog
  <2>5. MaxBuffer \in Nat
    BY TcpAssumption
  <2> DEFINE m == Cardinality(Streams) * n
  <2> HIDE DEF m
  <2>6. Cardinality(FramesIn(out')) + Cardinality(Pending(n)') <= MaxBuffer + m
    BY <2>1, <2>2, <2>3, <2>4, <2>5 DEF m
  <2> QED
    BY <2>6 DEF Backlog, m
<1> QED
  BY <1>1 DEF BacklogOK, LongestFrame

(* A step that changes the call of one stream to one with nothing to write *)
(* that was not to be written before.                                      *)
LEMMA PendingOne ==
  ASSUME TcpIInv, NEW s \in Streams, NEW c, call' = [call EXCEPT ![s] = c],
         \A k \in Nat \ {0} : \/ c.stage \notin {"lock", "write"}
                             \/ /\ c.stage = "write" /\ call[s].stage = "lock"
                                /\ c.pkt = call[s].pkt /\ c.off = 0
  PROVE  \A n \in Nat : Pending(n)' \subseteq Pending(n)
<1>1. ASSUME NEW n \in Nat, NEW q \in Pending(n)' PROVE q \in Pending(n)
  <2>1. q \in Streams \X (1 .. n) /\ q[1] \in Streams /\ q[2] \in Nat \ {0} /\ ToWrite(q[1], q[2])'
    BY <1>1 DEF Pending
  <2>2. call'[q[1]] = IF q[1] = s THEN c ELSE call[q[1]]
    BY <2>1 DEF TcpIInv, StreamsOK
  <2>3. ToWrite(q[1], q[2])
    BY <2>1, <2>2 DEF ToWrite
  <2> QED
    BY <2>1, <2>3 DEF Pending
<1> QED
  BY <1>1

LEMMA BacklogInit == Init => BacklogOK
<1> SUFFICES ASSUME Init, NEW n \in Nat PROVE Backlog(n)
  BY DEF BacklogOK
<1>1. Pending(n) = {}
  BY DEF Init, Pending, ToWrite, Idle
<1>2. FramesIn(out) = {}
  BY DEF Init, FramesIn
<1>3. Cardinality({}) = 0 /\ MaxBuffer \in Nat /\ Cardinality(Streams) * n \in Nat
  BY FS_EmptySet, TcpAssumption, PendingFinite
<1> DEFINE m == Cardinality(Streams) * n
<1> HIDE DEF m
<1>4. Cardinality(FramesIn(out)) + Cardinality(Pending(n)) <= MaxBuffer + m
  BY <1>1, <1>2, <1>3 DEF m
<1> QED
  BY <1>4 DEF Backlog, m

LEMMA BacklogStep == TcpIInv /\ BacklogOK /\ [Next]_vars => BacklogOK'
<1> SUFFICES ASSUME TcpIInv, BacklogOK, [Next]_vars PROVE BacklogOK'
  OBVIOUS
<1>0. out \in Seq(Tokens) /\ out' \in Seq(Tokens) /\ TcpIInv'
  BY TcpInvStep DEF TcpIInv, ConnectionOK
<1>1. ASSUME NEW s \in Streams, NEW len \in Sizes, Send(s, len) PROVE BacklogOK'
  <2> SUFFICES ASSUME NEW n \in Nat PROVE Backlog(n)'
    BY DEF BacklogOK
  <2>1. out' = out /\ Len(out) <= MaxBuffer
    BY <1>0, <1>1, TcpAssumption DEF Send, writer, is_full
  <2>2. Cardinality(FramesIn(out')) <= MaxBuffer /\ Cardinality(FramesIn(out')) \in Nat
    BY <1>0, <2>1, FramesCount, TcpAssumption
  <2>3. Cardinality(Pending(n)') <= Cardinality(Streams) * n /\ Cardinality(Pending(n)') \in Nat
        /\ Cardinality(Streams) * n \in Nat
    <3>1. Pending(n)' \in SUBSET (Streams \X (1 .. n))
      BY DEF Pending
    <3>2. /\ IsFiniteSet(Streams) /\ IsFiniteSet(1 .. n) /\ Cardinality(Streams) \in Nat
          /\ Cardinality(1 .. n) = n
      <4>1. Cardinality(1 .. n) = (IF 1 > n THEN 0 ELSE n - 1 + 1) /\ IsFiniteSet(1 .. n)
        BY FS_Interval
      <4> QED
        BY <4>1, TcpAssumption, FS_CardinalityType
    <3>3. IsFiniteSet(Streams \X (1 .. n)) /\ Cardinality(Streams \X (1 .. n)) = Cardinality(Streams) * n
      BY <3>2, FS_Product
    <3>4. IsFiniteSet(Pending(n)') /\ Cardinality(Pending(n)') <= Cardinality(Streams) * n
      BY <3>1, <3>3, FS_Subset
    <3> QED
      BY <3>4, PendingFinite, FS_CardinalityType
  <2> DEFINE m == Cardinality(Streams) * n
  <2> HIDE DEF m
  <2>4. Cardinality(FramesIn(out')) + Cardinality(Pending(n)') <= MaxBuffer + m
    BY <2>2, <2>3, TcpAssumption DEF m
  <2> QED
    BY <2>4 DEF Backlog, m
<1>2. ASSUME NEW s \in Streams, Write(s) PROVE BacklogOK'
  <2> SUFFICES ASSUME NEW n \in Nat, LongestFrame(n) PROVE Backlog(n)'
    BY DEF BacklogOK, LongestFrame
  <2> DEFINE off == call[s].off + 1
             pkt == call[s].pkt
             c == IF off = Len(Frame(pkt)) THEN [stage |-> "unlock", pkt |-> pkt, ret |-> off]
                  ELSE [call[s] EXCEPT !.off = off]
  <2>1. /\ call[s].stage = "write" /\ out' = Append(out, Frame(pkt)[off])
        /\ call' = [call EXCEPT ![s] = c]
    BY <1>2 DEF Write
  <2>2. /\ call[s] \in Calls /\ pkt \in Packets /\ call[s].off \in 0 .. pkt.len
        /\ Frame(pkt) \in Seq(Tokens) /\ Len(Frame(pkt)) = pkt.len + 1 /\ pkt.len \in Nat \ {0}
    BY <2>1, StreamTypes, Stages, FrameTokens DEF StreamOK, InFrame
  <2>3. off \in 1 .. pkt.len + 1 /\ off <= n
    <3>1. pkt.len \in Sizes
      BY <2>2 DEF Packets
    <3> QED
      BY <2>2, <3>1 DEF LongestFrame
  <2>4. Frame(pkt)[off] \in Tokens
    <3> HIDE DEF off, pkt
    <3> QED
      BY <2>2, <2>3, ElementOfSeq
  <2>5. \/ c.stage = "unlock" /\ off = pkt.len + 1
        \/ c.stage = "write" /\ c.pkt = pkt /\ c.off = off
    <3>1. call[s] \in [stage : {"write"}, pkt : Packets, off : Nat]
      BY <2>1, <2>2 DEF Calls, Idle
    <3> QED
      BY <2>2, <2>3, <3>1
  <2> HIDE DEF c
  <2>6. Pending(n)' = Pending(n) \ {<<s, off>>} /\ <<s, off>> \in Pending(n)
    <3>1. <<s, off>> \in Pending(n)
      BY <2>1, <2>2, <2>3 DEF Pending, ToWrite
    <3>2. ASSUME NEW q \in Streams \X (1 .. n)
          PROVE  ToWrite(q[1], q[2])' <=> ToWrite(q[1], q[2]) /\ q # <<s, off>>
      <4>1. q = <<q[1], q[2]>> /\ q[1] \in Streams /\ q[2] \in Nat
        BY <3>2
      <4>2. call'[q[1]] = IF q[1] = s THEN c ELSE call[q[1]]
        BY <2>1, <4>1 DEF TcpIInv, StreamsOK
      <4>3. CASE q[1] # s
        BY <4>1, <4>2, <4>3 DEF ToWrite
      <4>4. CASE q[1] = s
        <5>1. ToWrite(q[1], q[2]) <=> call[s].off < q[2] /\ q[2] <= pkt.len + 1
          BY <2>1, <4>4 DEF ToWrite
        <5>2. ToWrite(q[1], q[2])' <=> off < q[2] /\ q[2] <= pkt.len + 1
          <6>1. CASE c.stage = "unlock" /\ off = pkt.len + 1
            BY <2>2, <2>3, <4>1, <4>2, <4>4, <6>1 DEF ToWrite
          <6>2. CASE c.stage = "write" /\ c.pkt = pkt /\ c.off = off
            BY <4>2, <4>4, <6>2 DEF ToWrite
          <6> QED
            BY <2>5, <6>1, <6>2
        <5>3. q # <<s, off>> <=> q[2] # off
          BY <4>1, <4>4
        <5> QED
          BY <2>2, <4>1, <5>1, <5>2, <5>3
      <4> QED
        BY <4>3, <4>4
    <3> QED
      BY <3>1, <3>2 DEF Pending
  <2>7. Cardinality(Pending(n)') = Cardinality(Pending(n)) - 1
        /\ Cardinality(Pending(n)) \in Nat /\ Cardinality(Streams) * n \in Nat
    <3>1. IsFiniteSet(Pending(n)) /\ Cardinality(Pending(n)) \in Nat /\ Cardinality(Streams) * n \in Nat
      BY PendingFinite
    <3> DEFINE S == Pending(n)
               x == <<s, off>>
    <3>2. IsFiniteSet(S) /\ x \in S
      BY <2>6, <3>1
    <3>3. Pending(n)' = S \ {x}
      BY <2>6
    <3> HIDE DEF S, x
    <3>4. Cardinality(S \ {x}) = IF x \in S THEN Cardinality(S) - 1 ELSE Cardinality(S)
      BY <3>2, FS_RemoveElement
    <3> QED
      BY <3>1, <3>2, <3>3, <3>4 DEF S
  <2>8. Cardinality(FramesIn(out')) <= Cardinality(FramesIn(out)) + 1
        /\ Cardinality(FramesIn(out)) \in Nat /\ Cardinality(FramesIn(out')) \in Nat
    BY <1>0, <2>1, <2>4, FramesAppend, FramesCount
  <2>9. Cardinality(FramesIn(out)) + Cardinality(Pending(n)) <= MaxBuffer + Cardinality(Streams) * n
    BY DEF BacklogOK, Backlog
  <2> DEFINE m == Cardinality(Streams) * n
  <2> HIDE DEF m
  <2>10. Cardinality(FramesIn(out')) + Cardinality(Pending(n)') <= MaxBuffer + m
    BY <2>7, <2>8, <2>9, TcpAssumption DEF m
  <2> QED
    BY <2>10 DEF Backlog, m
<1>3. ASSUME NEW s \in Streams, Lock(s) PROVE BacklogOK'
  <2> DEFINE c == [stage |-> "write", pkt |-> call[s].pkt, off |-> 0]
  <2>1. call[s].stage = "lock" /\ call' = [call EXCEPT ![s] = c] /\ out' = out
    BY <1>3 DEF Lock
  <2>2. c.stage = "write" /\ c.pkt = call[s].pkt /\ c.off = 0
    OBVIOUS
  <2> HIDE DEF c
  <2>3. \A n \in Nat : Pending(n)' \subseteq Pending(n)
    BY <2>1, <2>2, PendingOne
  <2> QED
    BY <1>0, <2>1, <2>3, FramesCount, BacklogFewer
<1>4. ASSUME NEW s \in Streams, WriteStops(s) \/ Unlock(s) \/ Return(s) PROVE BacklogOK'
  <2>1. out' = out
    BY <1>4 DEF WriteStops, Unlock, Return, writer
  <2>2. \E c : call' = [call EXCEPT ![s] = c] /\ c.stage \notin {"lock", "write"}
    <3>1. CASE WriteStops(s)
      <4> DEFINE c == [stage |-> "unlock", pkt |-> call[s].pkt,
                       ret |-> IF call[s].off = 0 THEN -1 ELSE call[s].off]
      <4>1. call' = [call EXCEPT ![s] = c] /\ c.stage = "unlock"
        BY <3>1 DEF WriteStops
      <4> QED
        BY <4>1
    <3>2. CASE Unlock(s)
      <4> DEFINE c == [stage |-> "return", pkt |-> call[s].pkt,
                       ret |-> IF call[s].ret = Len(Frame(call[s].pkt)) THEN 0 ELSE -1]
      <4>1. call' = [call EXCEPT ![s] = c] /\ c.stage = "return"
        BY <3>2 DEF Unlock
      <4> QED
        BY <4>1
    <3>3. CASE Return(s)
      <4> DEFINE c == Idle
      <4>1. call' = [call EXCEPT ![s] = c]
        BY <3>3 DEF Return
      <4>2. c.stage = "idle"
        BY DEF Idle
      <4> HIDE DEF c
      <4> QED
        BY <4>1, <4>2
    <3> QED
      BY <1>4, <3>1, <3>2, <3>3
  <2>3. PICK c : call' = [call EXCEPT ![s] = c] /\ c.stage \notin {"lock", "write"}
    BY <2>2
  <2>4. \A n \in Nat : Pending(n)' \subseteq Pending(n)
    BY <2>3, PendingOne
  <2> QED
    BY <1>0, <2>1, <2>4, FramesCount, BacklogFewer
<1>5. ASSUME call' = call, Cardinality(FramesIn(out')) <= Cardinality(FramesIn(out)) PROVE BacklogOK'
  <2>1. \A n \in Nat : Pending(n)' \subseteq Pending(n)
    BY <1>5 DEF Pending, ToWrite
  <2> QED
    BY <1>0, <1>5, <2>1, BacklogFewer
<1>6. CASE Respond
  <2>1. call' = call /\ out' = Append(out, Text(response + 1))
    BY <1>6 DEF Respond
  <2>2. Text(response + 1) \in Tokens /\ Text(response + 1).kind = "text"
    BY TcpAssumption DEF TcpIInv, ConnectionOK, Text, Tokens
  <2> QED
    BY <1>0, <1>5, <2>1, <2>2, FramesAppend, FramesCount
<1>7. CASE RespondStops
  BY <1>0, <1>5, <1>7, FramesCount DEF RespondStops, writer
<1>8. CASE Peer
  <2>1. call' = call
    BY <1>8 DEF Peer, PeerFrame, PeerText
  <2>2. PICK d \in Nat : Len(out) = Len(out') + d /\ \A i \in 1 .. Len(out') : out'[i] = out[i + d]
    BY <1>0, <1>8, PeerDrops
  <2> QED
    BY <1>0, <1>5, <2>1, <2>2, FramesDrop
<1>9. CASE UNCHANGED vars
  BY <1>0, <1>5, <1>9, FramesCount DEF vars, writer
<1> QED
  BY <1>1, <1>2, <1>3, <1>4, <1>6, <1>7, <1>8, <1>9 DEF Next, Thread

(* Whatever streams and responses share the connection, the frames waiting *)
(* on it are never longer than max_buffer and one frame of every stream:   *)
(* is_full is read without the lock, so all may pass it at once.           *)
THEOREM BacklogIsBounded == Spec => []FrameBacklog
<1>1. ASSUME TcpIInv, BacklogOK PROVE FrameBacklog
  <2>1. ASSUME NEW n \in {len + 1 : len \in Sizes}, LongestFrame(n)
        PROVE  Cardinality({i \in DOMAIN out : out[i].kind # "text"})
                 <= MaxBuffer + Cardinality(Streams) * n
    <3>1. n \in Nat
      BY TcpAssumption
    <3>2. Cardinality(FramesIn(out)) + Cardinality(Pending(n)) <= MaxBuffer + Cardinality(Streams) * n
      BY <1>1, <2>1, <3>1 DEF BacklogOK, Backlog
    <3>3. Cardinality(FramesIn(out)) \in Nat /\ Cardinality(Pending(n)) \in Nat
          /\ Cardinality(Streams) * n \in Nat /\ MaxBuffer \in Nat
      BY <1>1, <3>1, FramesCount, PendingFinite, TcpAssumption DEF TcpIInv, ConnectionOK
    <3> DEFINE m == Cardinality(Streams) * n
    <3> HIDE DEF m
    <3>4. Cardinality(FramesIn(out)) <= MaxBuffer + m
      BY <3>2, <3>3 DEF m
    <3> QED
      BY <3>4 DEF FramesIn, m
  <2> QED
    BY <2>1 DEF FrameBacklog
<1> QED
  BY <1>1, TcpInvInit, TcpInvStep, BacklogInit, BacklogStep, PTL DEF Spec

-----------------------------------------------------------------------------
(* What the peer can still read: as long as no write stopped half-way, the *)
(* tokens on the connection are whole messages, behind the response the    *)
(* peer is in and before the message somebody is writing.                  *)

(* The tokens of a frame. *)
LEMMA FrameAt ==
  ASSUME NEW pkt \in Packets
  PROVE  /\ Frame(pkt)[1] = interleaved_header(pkt.channel, pkt.len)
         /\ Frame(pkt)[1].kind = "$" /\ Frame(pkt)[1].from = pkt.channel /\ Frame(pkt)[1].len = pkt.len
         /\ \A k \in 1 .. pkt.len : Frame(pkt)[k + 1] = Octet(pkt, k)
<1>1. pkt.len \in 1 .. U16 - 1 /\ U16 \in Nat \ {0}
  BY TcpAssumption DEF Packets
<1>2. pkt.len % U16 = pkt.len
  BY <1>1
<1> DEFINE h == interleaved_header(pkt.channel, pkt.len)
           b == Body(pkt)
<1>3. h.kind = "$" /\ h.from = pkt.channel /\ h.len = pkt.len
  BY <1>2 DEF interleaved_header
<1>4. b \in Seq(Tokens) /\ Len(b) = pkt.len /\ h \in Tokens
  <2>1. ASSUME NEW k \in 1 .. pkt.len PROVE Octet(pkt, k) \in Tokens
    BY <1>1 DEF Octet, Tokens
  <2>2. Body(pkt) \in [1 .. pkt.len -> Tokens]
    BY <2>1 DEF Body
  <2>3. h \in Tokens
    <3>1. pkt.len % U16 \in 0 .. U16 - 1 /\ pkt.channel \in Streams
      BY <1>1, <1>2 DEF Packets
    <3> QED
      BY <3>1 DEF interleaved_header, Tokens
  <2> QED
    BY <1>1, <2>2, <2>3, LenProperties
<1>5. \A k \in 1 .. pkt.len : b[k] = Octet(pkt, k)
  BY DEF Body
<1>6. Frame(pkt) = <<h>> \o b
  BY DEF Frame
<1> HIDE DEF h, b
<1>7. (<<h>> \o b)[1] = h /\ \A k \in 1 .. pkt.len : (<<h>> \o b)[k + 1] = b[k]
  BY <1>1, <1>4
<1> QED
  BY <1>3, <1>5, <1>6, <1>7 DEF h

(* How many tokens of a response were read at token p; r of the one the    *)
(* peer is in.                                                             *)
Phase(o, r, p) ==
  IF p = 0 THEN r ELSE IF o[p].kind = "text" THEN o[p].k % ResponseParts ELSE 0

(* Responses are in one piece, the last up to write resp. *)
TextOK(o, r, resp) ==
  /\ Phase(o, r, Len(o)) = resp
  /\ \A p \in 1 .. Len(o) :
       o[p].kind = "text" \/ Phase(o, r, p - 1) > 0 => o[p] = Text(Phase(o, r, p - 1) + 1)

(* Every octet of a packet stands at its place behind the packet's header. *)
BodyOK(o) ==
  \A p \in 1 .. Len(o) : o[p].kind = "body" =>
    /\ o[p].k \in 1 .. p - 1 /\ o[p].k <= o[p].pkt.len
    /\ o[p - o[p].k] = interleaved_header(o[p].pkt.channel, o[p].pkt.len)

(* The connection ends in the first n tokens of the packet's frame. *)
EndsIn(o, pkt, n) ==
  /\ n <= Len(o)
  /\ \A k \in 1 .. n : o[Len(o) - n + k] = Frame(pkt)[k]

PartialOK(o, cl) ==
  \A s \in Streams : cl[s].stage = "write" => EndsIn(o, cl[s].pkt, cl[s].off)

(* The packet's frame begins at p. *)
Whole(o, p, pkt) ==
  /\ p \in 1 .. Len(o) - pkt.len
  /\ \A k \in 1 .. pkt.len + 1 : o[p + k - 1] = Frame(pkt)[k]

(* The packets of a stream written and not received yet. *)
Waiting(rec, acc, s) == Len(rec[s]) + 1 .. Len(acc[s])

(* They are on the connection in their order, packet i at pos[s][i]. *)
Located(o, rec, acc, pos) ==
  \A s \in Streams : \A i \in Waiting(rec, acc, s) :
    /\ Whole(o, pos[s][i], acc[s][i])
    /\ \A j \in Waiting(rec, acc, s) : i < j => pos[s][i] < pos[s][j]

Begins(o, c, p) == c.stage = "write" /\ c.off > 0 /\ p = Len(o) - c.off + 1

(* There is no header but theirs and the one of the frame being written.   *)
Accounted(o, rec, acc, cl, pos) ==
  \A p \in 1 .. Len(o) : o[p].kind = "$" =>
    \/ \E i \in Waiting(rec, acc, o[p].from) : pos[o[p].from][i] = p
    \/ Begins(o, cl[o[p].from], p)

Positions == [Streams -> [Nat -> Int]]

InOrder(rec, acc) ==
  \A s \in Streams :
    /\ Len(rec[s]) <= Len(acc[s])
    /\ \A i \in 1 .. Len(rec[s]) : rec[s][i] = acc[s][i]

Layout(o, r, resp, rec, acc, cl) ==
  /\ TextOK(o, r, resp)
  /\ BodyOK(o)
  /\ PartialOK(o, cl)
  /\ InOrder(rec, acc)
  /\ \E pos \in Positions : Located(o, rec, acc, pos) /\ Accounted(o, rec, acc, cl, pos)

(* Nothing is answered while packets are sent, and the other way round. *)
Exclusive ==
  /\ deploy = "senders" => response = 0
  /\ \A s \in Streams : call[s] # Idle => response = 0

Readable ==
  /\ Exclusive
  /\ ~ torn => ~ damaged /\ Layout(out, reading, response, received, accepted, call)

(* q is what is left of o when the first c tokens are taken. *)
Behind(o, q, c) ==
  Len(o) = Len(q) + c /\ \A i \in 1 .. Len(q) : q[i] = o[i + c]

(* No octet of a message begun among the first c tokens is behind them. *)
BodiesBehind(o, c) ==
  \A p \in c + 1 .. Len(o) : o[p].kind = "body" => p - o[p].k > c

PartialBehind(q, cl) ==
  \A s \in Streams : cl[s].stage = "write" => cl[s].off <= Len(q)

(* The frames behind them are those that wait when rec2 was received. *)
FramesBehind(c, rec, rec2, acc, pos) ==
  \A s \in Streams :
    /\ \A i \in Waiting(rec2, acc, s) : i \in Waiting(rec, acc, s) /\ pos[s][i] > c
    /\ \A i \in Waiting(rec, acc, s) : i \in Waiting(rec2, acc, s) \/ pos[s][i] <= c

(* The peer takes c tokens and no part of a message behind them. *)
LEMMA ConsumeKeeps ==
  ASSUME NEW o \in Seq(Tokens), NEW q \in Seq(Tokens), NEW c \in Nat \ {0},
         Behind(o, q, c),
         NEW r \in Nat, NEW resp \in Nat,
         NEW rec \in [Streams -> Seq(Packets)], NEW rec2 \in [Streams -> Seq(Packets)],
         NEW acc \in [Streams -> Seq(Packets)], NEW cl \in [Streams -> Calls],
         TextOK(o, r, resp), BodyOK(o), PartialOK(o, cl), InOrder(rec2, acc),
         NEW pos \in Positions, Located(o, rec, acc, pos), Accounted(o, rec, acc, cl, pos),
         BodiesBehind(o, c), PartialBehind(q, cl), FramesBehind(c, rec, rec2, acc, pos)
  PROVE  Layout(q, Phase(o, r, c), resp, rec2, acc, cl)
<1>0. Len(o) = Len(q) + c /\ \A i \in 1 .. Len(q) : q[i] = o[i + c]
  BY DEF Behind
<1>1. Len(q) \in Nat /\ Len(o) \in Nat /\ c \in 1 .. Len(o) /\ Len(o) = Len(q) + c
  BY <1>0
<1>2. \A p \in 0 .. Len(q) : Phase(q, Phase(o, r, c), p) = Phase(o, r, p + c)
  <2> SUFFICES ASSUME NEW p \in 0 .. Len(q) PROVE Phase(q, Phase(o, r, c), p) = Phase(o, r, p + c)
    OBVIOUS
  <2>1. CASE p = 0
    BY <2>1 DEF Phase
  <2>2. CASE p # 0
    <3>1. q[p] = o[p + c] /\ p + c # 0
      BY <1>0, <2>2
    <3> QED
      BY <2>2, <3>1 DEF Phase
  <2> QED
    BY <2>1, <2>2
<1>3. TextOK(q, Phase(o, r, c), resp)
  <2>1. Phase(q, Phase(o, r, c), Len(q)) = resp
    BY <1>1, <1>2 DEF TextOK
  <2>2. ASSUME NEW p \in 1 .. Len(q),
               q[p].kind = "text" \/ Phase(q, Phase(o, r, c), p - 1) > 0
        PROVE  q[p] = Text(Phase(q, Phase(o, r, c), p - 1) + 1)
    <3>1. /\ p + c \in 1 .. Len(o) /\ p - 1 \in 0 .. Len(q) /\ (p - 1) + c = (p + c) - 1
          /\ q[p] = o[p + c]
      BY SMTT(30), <1>0, <1>1
    <3>2. Phase(q, Phase(o, r, c), p - 1) = Phase(o, r, (p + c) - 1)
      BY <1>2, <3>1
    <3> QED
      BY <2>2, <3>1, <3>2 DEF TextOK
  <2> QED
    BY <2>1, <2>2 DEF TextOK
<1>4. BodyOK(q)
  <2> SUFFICES ASSUME NEW p \in 1 .. Len(q), q[p].kind = "body"
               PROVE  /\ q[p].k \in 1 .. p - 1 /\ q[p].k <= q[p].pkt.len
                      /\ q[p - q[p].k] = interleaved_header(q[p].pkt.channel, q[p].pkt.len)
    BY DEF BodyOK
  <2>1. p + c \in 1 .. Len(o) /\ p + c \in c + 1 .. Len(o) /\ q[p] = o[p + c]
    BY <1>0, <1>1
  <2> DEFINE m == p + c
  <2>2. /\ o[m].k \in 1 .. m - 1 /\ o[m].k <= o[m].pkt.len /\ m - o[m].k > c
        /\ o[m - o[m].k] = interleaved_header(o[m].pkt.channel, o[m].pkt.len)
    BY <2>1 DEF BodyOK, BodiesBehind
  <2> DEFINE k == o[m].k
  <2>3. k \in Int /\ m - k > c /\ p \in 1 .. Len(q) /\ k \in 1 .. m - 1
    BY <2>2
  <2> HIDE DEF k
  <2>4. p - k \in 1 .. Len(q) /\ (p - k) + c = m - k /\ k \in 1 .. p - 1
    BY SMTT(30), <1>1, <2>3
  <2>5. q[p - k] = o[m - k]
    BY <1>0, <2>4
  <2> QED
    BY <2>1, <2>2, <2>4, <2>5 DEF k
<1>5. PartialOK(q, cl)
  <2> SUFFICES ASSUME NEW s \in Streams, cl[s].stage = "write" PROVE EndsIn(q, cl[s].pkt, cl[s].off)
    BY DEF PartialOK
  <2>1. cl[s] \in Calls /\ cl[s].off \in Nat /\ cl[s].off <= Len(q) /\ EndsIn(o, cl[s].pkt, cl[s].off)
    BY Stages DEF PartialOK, PartialBehind
  <2> DEFINE n == cl[s].off
  <2>2. ASSUME NEW k \in 1 .. n PROVE q[Len(q) - n + k] = Frame(cl[s].pkt)[k]
    <3>1. Len(q) - n + k \in 1 .. Len(q) /\ (Len(q) - n + k) + c = Len(o) - n + k
      BY SMTT(30), <1>1, <2>1
    <3>2. q[Len(q) - n + k] = o[(Len(q) - n + k) + c]
      BY <1>0, <3>1
    <3> QED
      BY <2>1, <3>1, <3>2 DEF EndsIn
  <2> QED
    BY <2>1, <2>2 DEF EndsIn
<1> DEFINE pos2 == [s \in Streams |-> [i \in Nat |-> pos[s][i] - c]]
<1>6. pos2 \in Positions /\ \A s \in Streams : \A i \in Nat : pos2[s][i] = pos[s][i] - c /\ pos[s][i] \in Int
  <2>1. ASSUME NEW s \in Streams PROVE pos[s] \in [Nat -> Int] /\ pos2[s] = [i \in Nat |-> pos[s][i] - c]
    <3>1. pos[s] \in [Nat -> Int]
      BY DEF Positions
    <3>2. pos2[s] = [i \in Nat |-> pos[s][i] - c]
      OBVIOUS
    <3> QED
      BY <3>1, <3>2
  <2>2. pos2 = [s \in Streams |-> pos2[s]]
    OBVIOUS
  <2> HIDE DEF pos2
  <2>3. ASSUME NEW s \in Streams, NEW i \in Nat PROVE pos[s][i] \in Int /\ pos2[s][i] = pos[s][i] - c
    <3> DEFINE f == pos[s]
               g == pos2[s]
    <3>1. f \in [Nat -> Int] /\ g = [j \in Nat |-> f[j] - c]
      BY <2>1
    <3> HIDE DEF f, g
    <3>2. f[i] \in Int /\ g[i] = f[i] - c
      BY <3>1
    <3> QED
      BY <3>2 DEF f, g
  <2>4. ASSUME NEW s \in Streams PROVE pos2[s] \in [Nat -> Int]
    <3> DEFINE f == pos[s]
               g == pos2[s]
    <3>1. f \in [Nat -> Int] /\ g = [j \in Nat |-> f[j] - c]
      BY <2>1
    <3> HIDE DEF f, g
    <3>2. \A j \in Nat : f[j] - c \in Int
      BY <3>1
    <3>3. g \in [Nat -> Int]
      BY <3>1, <3>2
    <3> QED
      BY <3>3 DEF g
  <2> QED
    BY <2>2, <2>3, <2>4 DEF Positions
<1> HIDE DEF pos2
<1>7. ASSUME NEW s \in Streams, NEW i \in Waiting(rec2, acc, s)
      PROVE  i \in Nat \ {0} /\ i \in Waiting(rec, acc, s) /\ pos[s][i] > c /\ acc[s][i] \in Packets
  <2>1. rec2[s] \in Seq(Packets) /\ acc[s] \in Seq(Packets)
    OBVIOUS
  <2>2. i \in 1 .. Len(acc[s])
    BY <2>1, <1>7 DEF Waiting
  <2>3. acc[s][i] \in Packets
    BY <2>1, <2>2, ElementOfSeq
  <2> QED
    BY <1>7, <2>2, <2>3 DEF FramesBehind
<1>8. Located(q, rec2, acc, pos2)
  <2> SUFFICES ASSUME NEW s \in Streams, NEW i \in Waiting(rec2, acc, s)
               PROVE  /\ Whole(q, pos2[s][i], acc[s][i])
                      /\ \A j \in Waiting(rec2, acc, s) : i < j => pos2[s][i] < pos2[s][j]
    BY DEF Located
  <2> DEFINE x == pos[s][i]
             pkt == acc[s][i]
  <2>1. i \in Nat /\ i \in Waiting(rec, acc, s) /\ x > c /\ pkt \in Packets /\ x \in Int
        /\ pos2[s][i] = x - c /\ pkt.len \in Nat
    BY <1>6, <1>7, FrameTokens
  <2>2. Whole(o, x, pkt)
    BY <2>1 DEF Located
  <2>3. ASSUME NEW k \in 1 .. pkt.len + 1 PROVE q[(x - c) + k - 1] = Frame(pkt)[k]
    <3>0. x \in 1 .. Len(o) - pkt.len
      BY <2>2 DEF Whole
    <3> DEFINE l == pkt.len
    <3> HIDE DEF x, l
    <3>1. (x - c) + k - 1 \in 1 .. Len(q) /\ ((x - c) + k - 1) + c = x + k - 1
      <4> DEFINE a == Len(o)
                 b == Len(q)
      <4>1. /\ x \in Int /\ x > c /\ l \in Nat /\ k \in 1 .. l + 1 /\ x \in 1 .. a - l
            /\ a \in Nat /\ b \in Nat /\ c \in Nat /\ a = b + c
        BY <1>1, <2>1, <3>0 DEF l
      <4> HIDE DEF a, b
      <4>2. (x - c) + k - 1 \in 1 .. b /\ ((x - c) + k - 1) + c = x + k - 1
        BY <4>1
      <4> QED
        BY <4>2 DEF b
    <3>2. q[(x - c) + k - 1] = o[((x - c) + k - 1) + c]
      BY <1>0, <3>1
    <3> QED
      BY <2>2, <3>1, <3>2 DEF Whole
  <2>4. x - c \in 1 .. Len(q) - pkt.len
    <3>0. x \in 1 .. Len(o) - pkt.len
      BY <2>2 DEF Whole
    <3> DEFINE l == pkt.len
    <3> HIDE DEF x, l
    <3>1. l \in Nat /\ x \in 1 .. Len(o) - l /\ x > c
      BY <2>1, <3>0 DEF l
    <3>2. x - c \in 1 .. Len(q) - l
      BY <1>1, <3>1
    <3> QED
      BY <3>2 DEF l
  <2>5. Whole(q, pos2[s][i], pkt)
    BY <2>1, <2>3, <2>4 DEF Whole
  <2>6. ASSUME NEW j \in Waiting(rec2, acc, s), i < j PROVE pos2[s][i] < pos2[s][j]
    <3>1. j \in Nat /\ j \in Waiting(rec, acc, s)
      BY <1>7
    <3>2. pos[s][i] < pos[s][j]
      BY <2>1, <2>6, <3>1 DEF Located
    <3>3. pos2[s][j] = pos[s][j] - c /\ pos[s][j] \in Int
      BY <1>6, <3>1
    <3> DEFINE y == pos[s][j]
    <3> HIDE DEF x, y
    <3>4. x \in Int /\ y \in Int /\ x < y
      BY <2>1, <3>2, <3>3 DEF x, y
    <3>5. x - c < y - c
      BY <3>4
    <3> QED
      BY <2>1, <3>3, <3>5 DEF x, y
  <2> QED
    BY <2>5, <2>6
<1>9. Accounted(q, rec2, acc, cl, pos2)
  <2> SUFFICES ASSUME NEW p \in 1 .. Len(q), q[p].kind = "$"
               PROVE  \/ \E i \in Waiting(rec2, acc, q[p].from) : pos2[q[p].from][i] = p
                      \/ Begins(q, cl[q[p].from], p)
    BY DEF Accounted
  <2> DEFINE t == q[p].from
  <2>1. p + c \in 1 .. Len(o) /\ q[p] = o[p + c] /\ q[p] \in Tokens
    BY <1>0, <1>1, ElementOfSeq
  <2>2. t \in Streams
    BY <2>1 DEF Tokens
  <2>3. \/ \E i \in Waiting(rec, acc, t) : pos[t][i] = p + c
        \/ Begins(o, cl[t], p + c)
    BY <2>1 DEF Accounted
  <2> HIDE DEF t
  <2>4. CASE \E i \in Waiting(rec, acc, t) : pos[t][i] = p + c
    <3>1. PICK i \in Waiting(rec, acc, t) : pos[t][i] = p + c
      BY <2>4
    <3>2. i \in Waiting(rec2, acc, t)
      <4>1. i \in Waiting(rec2, acc, t) \/ pos[t][i] <= c
        BY <2>2, <3>1 DEF FramesBehind
      <4> QED
        BY <3>1, <4>1
    <3>3. pos2[t][i] = p
      BY SMTT(30), <1>6, <1>7, <2>2, <3>1, <3>2
    <3> QED
      BY <3>2, <3>3 DEF t
  <2>5. CASE Begins(o, cl[t], p + c)
    <3>1. cl[t] \in Calls /\ cl[t].stage = "write" /\ cl[t].off > 0 /\ p + c = Len(o) - cl[t].off + 1
      BY <2>2, <2>5 DEF Begins
    <3>2. cl[t].off \in Nat
      BY <3>1, Stages
    <3> DEFINE n == cl[t].off
    <3> HIDE DEF n
    <3>3. p = Len(q) - n + 1
      <4> DEFINE a == Len(o)
                 b == Len(q)
      <4>1. /\ n \in Nat /\ p + c = a - n + 1 /\ p \in Int
            /\ a \in Nat /\ b \in Nat /\ c \in Nat /\ a = b + c
        BY <1>1, <3>1, <3>2 DEF n
      <4> HIDE DEF a, b
      <4>2. p = b - n + 1
        BY <4>1
      <4> QED
        BY <4>2 DEF b
    <3> QED
      BY <3>1, <3>3 DEF Begins, t, n
  <2> QED
    BY <2>3, <2>4, <2>5
<1> QED
  BY <1>3, <1>4, <1>5, <1>6, <1>8, <1>9 DEF Layout
(* A packet's header tells its channel and length. *)
LEMMA HeaderTells ==
  ASSUME NEW pkt \in Packets
  PROVE  LET h == interleaved_header(pkt.channel, pkt.len)
         IN  h.kind = "$" /\ h.from = pkt.channel /\ h.len = pkt.len
BY FrameAt

(* The first c tokens are a message, so no other begins among them or      *)
(* reaches over their end.                                                 *)
LEMMA CutBetween ==
  ASSUME NEW o \in Seq(Tokens), NEW q \in Seq(Tokens), NEW c \in 1 .. Len(o), Behind(o, q, c),
         \A p \in 2 .. c : o[p].kind # "$",
         o[1].kind = "$" => c = o[1].len + 1,
         NEW rec \in [Streams -> Seq(Packets)], NEW acc \in [Streams -> Seq(Packets)],
         NEW cl \in [Streams -> Calls], \A s \in Streams : InFrame(cl[s]),
         BodyOK(o), PartialOK(o, cl),
         NEW pos \in Positions, Located(o, rec, acc, pos)
  PROVE  /\ BodiesBehind(o, c) /\ PartialBehind(q, cl)
         /\ \A s \in Streams : \A i \in Waiting(rec, acc, s) :
              \/ pos[s][i] > c
              \/ pos[s][i] = 1 /\ o[1].kind = "$" /\ o[1].from = acc[s][i].channel
<1>1. Len(o) \in Nat /\ Len(q) \in Nat /\ Len(o) = Len(q) + c /\ c \in Nat
  BY DEF Behind
<1>2. ASSUME NEW m \in 1 .. Len(o), o[m].kind = "$"
      PROVE  m > c \/ m = 1
  BY <1>2
<1>3. BodiesBehind(o, c)
  <2> SUFFICES ASSUME NEW p \in c + 1 .. Len(o), o[p].kind = "body" PROVE p - o[p].k > c
    BY DEF BodiesBehind
  <2> DEFINE k == o[p].k
             pkt == o[p].pkt
  <2>1. p \in 1 .. Len(o) /\ p \in Int
    BY <1>1
  <2>2. o[p] \in Tokens
    BY <2>1, ElementOfSeq
  <2>3. pkt \in Packets
    BY <2>2 DEF Tokens
  <2>4. k \in 1 .. p - 1 /\ k <= pkt.len /\ o[p - k] = interleaved_header(pkt.channel, pkt.len)
    BY <2>1 DEF BodyOK
  <2>5. o[p - k].kind = "$" /\ o[p - k].len = pkt.len /\ pkt.len \in Nat
    BY <2>3, <2>4, HeaderTells, FrameTokens
  <2> HIDE DEF k, pkt
  <2>6. p - k \in 1 .. Len(o)
    BY <1>1, <2>1, <2>4
  <2>7. p - k > c \/ p - k = 1
    BY <1>2, <2>5, <2>6
  <2>8. ASSUME p - k = 1 PROVE FALSE
    <3>1. c = pkt.len + 1
      BY <2>5, <2>8
    <3> QED
      BY <1>1, <2>1, <2>4, <2>5, <2>8, <3>1
  <2> QED
    BY <2>7, <2>8 DEF k
<1>4. PartialBehind(q, cl)
  <2> SUFFICES ASSUME NEW s \in Streams, cl[s].stage = "write" PROVE cl[s].off <= Len(q)
    BY DEF PartialBehind
  <2> DEFINE n == cl[s].off
             pkt == cl[s].pkt
  <2>1. cl[s] \in Calls /\ n \in Nat /\ pkt \in Packets /\ n \in 0 .. pkt.len
    BY Stages DEF InFrame
  <2>2. n <= Len(o) /\ \A k \in 1 .. n : o[Len(o) - n + k] = Frame(pkt)[k]
    BY DEF PartialOK, EndsIn
  <2>3. Frame(pkt)[1].kind = "$" /\ Frame(pkt)[1].len = pkt.len /\ pkt.len \in Nat
    BY <2>1, FrameAt, FrameTokens
  <2> HIDE DEF n, pkt
  <2>4. CASE n = 0
    BY <1>1, <2>4 DEF n
  <2>5. CASE n # 0
    <3> DEFINE m == Len(o) - n + 1
    <3>1. o[m] = Frame(pkt)[1] /\ m \in 1 .. Len(o)
      BY <1>1, <2>1, <2>2, <2>5
    <3>2. m > c \/ m = 1
      BY <1>2, <2>3, <3>1
    <3>3. ASSUME m = 1 PROVE FALSE
      <4>1. c = pkt.len + 1
        BY <2>3, <3>1, <3>3
      <4>2. n = Len(o)
        <5>1. n \in Nat /\ Len(o) \in Nat /\ Len(o) - n + 1 = 1
          BY <1>1, <2>1, <3>3
        <5> HIDE DEF m
        <5> QED
          BY <5>1
      <4>3. n <= pkt.len
        BY <2>1
      <4> QED
        BY <1>1, <2>3, <4>1, <4>2, <4>3
    <3>4. Len(o) - n + 1 > c
      BY <3>2, <3>3
    <3> QED
      BY <1>1, <2>1, <3>4 DEF n
  <2> QED
    BY <2>4, <2>5
<1>5. ASSUME NEW s \in Streams, NEW i \in Waiting(rec, acc, s)
      PROVE  \/ pos[s][i] > c
             \/ pos[s][i] = 1 /\ o[1].kind = "$" /\ o[1].from = acc[s][i].channel
  <2> DEFINE x == pos[s][i]
             pkt == acc[s][i]
  <2>0. rec[s] \in Seq(Packets) /\ acc[s] \in Seq(Packets)
    OBVIOUS
  <2>1. i \in 1 .. Len(acc[s])
    BY <2>0 DEF Waiting
  <2>2. pkt \in Packets
    BY <2>0, <2>1, ElementOfSeq
  <2>3. x \in 1 .. Len(o) - pkt.len /\ \A k \in 1 .. pkt.len + 1 : o[x + k - 1] = Frame(pkt)[k]
    BY DEF Located, Whole
  <2>4. Frame(pkt)[1].kind = "$" /\ Frame(pkt)[1].from = pkt.channel /\ pkt.len \in Nat
    BY <2>2, FrameAt, FrameTokens
  <2> HIDE DEF x, pkt
  <2>5. x \in 1 .. Len(o) /\ o[x] = Frame(pkt)[1]
    <3>1. 1 \in 1 .. pkt.len + 1 /\ x + 1 - 1 = x
      BY <2>3, <2>4
    <3> QED
      BY <1>1, <2>3, <2>4, <3>1
  <2>6. x > c \/ x = 1
    BY <1>2, <2>4, <2>5
  <2> QED
    BY <2>4, <2>5, <2>6 DEF x, pkt
<1> QED
  BY <1>3, <1>4, <1>5
(* Streams send on their own channels. *)
OwnChannel ==
  \A s \in Streams :
    /\ call[s] # Idle => call[s].pkt.channel = s
    /\ \A i \in 1 .. Len(accepted[s]) : accepted[s][i].channel = s

(* The octets of a packet tell the packet. *)
LEMMA BodyTells ==
  ASSUME NEW pkt \in Packets, NEW pkt2 \in Packets, Body(pkt) = Body(pkt2)
  PROVE  pkt = pkt2
<1>1. pkt.len \in Nat \ {0} /\ pkt2.len \in Nat \ {0}
  BY FrameTokens
<1>2. Body(pkt)[1] = Octet(pkt, 1) /\ Body(pkt2)[1] = Octet(pkt2, 1)
  BY <1>1 DEF Body
<1> QED
  BY <1>2 DEF Octet

(* A complete frame at the front is the next packet of its channel. *)
LEMMA FirstFrame ==
  ASSUME NEW o \in Seq(Tokens), parse_interleaved_frame(o).status = "Complete",
         NEW rec \in [Streams -> Seq(Packets)], NEW acc \in [Streams -> Seq(Packets)],
         NEW cl \in [Streams -> Calls], \A s \in Streams : InFrame(cl[s]), PartialOK(o, cl),
         NEW pos \in Positions, Located(o, rec, acc, pos), Accounted(o, rec, acc, cl, pos)
  PROVE  LET ch == o[1].from
             n == Len(rec[ch]) + 1
             pkt == acc[ch][n]
         IN  /\ ch \in Streams /\ n \in Waiting(rec, acc, ch) /\ pos[ch][n] = 1
             /\ pkt \in Packets /\ o[1].len = pkt.len /\ pkt.len + 1 <= Len(o)
             /\ SubSeq(o, 2, pkt.len + 1) = Body(pkt)
             /\ \A k \in 1 .. pkt.len : o[k + 1] = Octet(pkt, k)
<1> DEFINE ch == o[1].from
           n == Len(rec[ch]) + 1
           pkt == acc[ch][n]
<1>1. o # << >> /\ o[1].kind = "$" /\ ch \in Streams /\ o[1].len \in Nat /\ Len(o) >= 1 + o[1].len
  BY CompleteFrame
<1>2. Len(o) \in Nat /\ 1 \in 1 .. Len(o)
  BY <1>1
<1>3. ~ Begins(o, cl[ch], 1)
  <2> SUFFICES ASSUME Begins(o, cl[ch], 1) PROVE FALSE
    OBVIOUS
  <2> DEFINE c == cl[ch]
  <2>1. c \in Calls /\ c.stage = "write" /\ c.off > 0 /\ 1 = Len(o) - c.off + 1 /\ InFrame(c)
    BY <1>1 DEF Begins
  <2>2. c.pkt \in Packets /\ c.off \in Nat /\ c.off \in 0 .. c.pkt.len
    BY <2>1, Stages DEF InFrame
  <2>3. EndsIn(o, c.pkt, c.off)
    BY <1>1, <2>1 DEF PartialOK
  <2> DEFINE m == c.off
             p == c.pkt
  <2>4. m = Len(o) /\ m \in Nat \ {0} /\ m <= p.len /\ p.len \in Nat
    <3>1. m \in Nat /\ m > 0 /\ 1 = Len(o) - m + 1 /\ m \in 0 .. p.len
      BY <2>1, <2>2
    <3>2. p.len \in Nat
      BY <2>2, FrameTokens
    <3> HIDE DEF m, p
    <3> QED
      BY <1>2, <3>1, <3>2
  <2>5. o[Len(o) - m + 1] = Frame(p)[1]
    BY <2>3, <2>4 DEF EndsIn
  <2>6. Frame(p)[1].len = p.len
    BY <2>2, FrameAt
  <2> HIDE DEF m, p
  <2>7. o[1].len = p.len
    BY <1>2, <2>4, <2>5, <2>6
  <2> QED
    BY <1>1, <1>2, <2>4, <2>7
<1>4. PICK i \in Waiting(rec, acc, ch) : pos[ch][i] = 1
  BY <1>1, <1>2, <1>3 DEF Accounted
<1>5. rec[ch] \in Seq(Packets) /\ acc[ch] \in Seq(Packets)
  BY <1>1
<1>6. i \in Nat /\ n \in Waiting(rec, acc, ch) /\ n <= i /\ n \in 1 .. Len(acc[ch])
  BY <1>4, <1>5 DEF Waiting
<1>7. pkt \in Packets
  BY <1>5, <1>6, ElementOfSeq
<1>8. Whole(o, pos[ch][n], pkt) /\ (n < i => pos[ch][n] < pos[ch][i])
  BY <1>1, <1>4, <1>6 DEF Located
<1>9. pos[ch][n] \in 1 .. Len(o) - pkt.len /\ pkt.len \in Nat \ {0}
  BY <1>7, <1>8, FrameTokens DEF Whole
<1>10. n = i
  <2> DEFINE x == pos[ch][n]
             l == Len(o) - pkt.len
  <2>1. x \in 1 .. l /\ l \in Int
    BY SMTT(30), <1>2, <1>9
  <2>2. n < i => x < 1
    BY <1>4, <1>8
  <2> HIDE DEF x, l
  <2>3. ~ (n < i)
    BY <2>1, <2>2
  <2>4. n \in Nat
    BY <1>5
  <2> HIDE DEF n
  <2> QED
    BY <1>6, <2>3, <2>4
<1>11. pos[ch][n] = 1
  BY <1>4, <1>10
<1>12. \A k \in 1 .. pkt.len + 1 : o[1 + k - 1] = Frame(pkt)[k]
  BY <1>8, <1>11 DEF Whole
<1>13. \A k \in 1 .. pkt.len + 1 : o[k] = Frame(pkt)[k]
  <2> SUFFICES ASSUME NEW k \in 1 .. pkt.len + 1 PROVE o[k] = Frame(pkt)[k]
    OBVIOUS
  <2>1. 1 + k - 1 = k
    BY <1>9
  <2> QED
    BY <1>12, <2>1
<1> HIDE DEF pkt
<1>14. o[1].len = pkt.len
  <2>1. 1 \in 1 .. pkt.len + 1
    BY <1>9
  <2> QED
    BY <1>7, <1>13, <2>1, FrameAt
<1>15. ASSUME NEW k \in 1 .. pkt.len PROVE o[k + 1] = Octet(pkt, k)
  <2>1. k + 1 \in 1 .. pkt.len + 1
    BY <1>9
  <2> QED
    BY <1>7, <1>13, <2>1, FrameAt
<1>16. pkt.len + 1 <= Len(o)
  BY <1>1, <1>2, <1>9, <1>14
<1>17. SubSeq(o, 2, pkt.len + 1) = Body(pkt)
  <2> DEFINE l == pkt.len
  <2>1. l \in Nat \ {0} /\ l + 1 <= Len(o)
    BY <1>9, <1>16
  <2>2. SubSeq(o, 2, l + 1) = [k \in 1 .. l |-> o[k + 1]]
    <3> HIDE DEF l
    <3>1. \A k \in 2 .. l + 1 : o[k] \in Tokens
      BY <1>2, <2>1, ElementOfSeq
    <3>2. /\ SubSeq(o, 2, l + 1) \in Seq(Tokens) /\ Len(SubSeq(o, 2, l + 1)) = l
          /\ \A k \in 1 .. l : SubSeq(o, 2, l + 1)[k] = o[2 + k - 1]
      <4>1. 2 \in 1 .. Len(o) + 1 /\ l + 1 \in 2 - 1 .. Len(o) /\ 2 <= l + 1
        BY <1>2, <2>1
      <4> QED
        BY <1>2, <2>1, <3>1, <4>1, SubSeqProperties
    <3>3. \A k \in 1 .. l : 2 + k - 1 = k + 1
      BY <2>1
    <3>4. SubSeq(o, 2, l + 1) = [k \in 1 .. l |-> SubSeq(o, 2, l + 1)[k]]
      BY <3>2
    <3> QED
      BY <3>2, <3>3, <3>4
  <2>3. [k \in 1 .. l |-> o[k + 1]] = [k \in 1 .. l |-> Octet(pkt, k)]
    BY <1>15
  <2> QED
    BY <2>2, <2>3 DEF Body
<1> QED
  BY <1>1, <1>6, <1>7, <1>11, <1>14, <1>15, <1>16, <1>17 DEF pkt
ReadableIInv == TcpIInv /\ OwnChannel /\ Readable

LEMMA ReadableParts ==
  ASSUME ReadableIInv, ~ torn
  PROVE  /\ out \in Seq(Tokens) /\ Len(out) \in Nat
         /\ reading \in 0 .. ResponseParts - 1 /\ response \in 0 .. ResponseParts - 1
         /\ received \in [Streams -> Seq(Packets)] /\ accepted \in [Streams -> Seq(Packets)]
         /\ call \in [Streams -> Calls] /\ (\A s \in Streams : InFrame(call[s]))
         /\ damaged = FALSE
         /\ TextOK(out, reading, response) /\ BodyOK(out) /\ PartialOK(out, call)
         /\ InOrder(received, accepted)
         /\ \E pos \in Positions : Located(out, received, accepted, pos)
                                     /\ Accounted(out, received, accepted, call, pos)
BY DEF ReadableIInv, Readable, Layout, TcpIInv, ConnectionOK, StreamsOK, StreamOK

(* The peer reads a frame. *)
LEMMA ReadablePeerFrame ==
  ASSUME ReadableIInv, ~ torn, PeerFrame
  PROVE  ~ damaged' /\ Layout(out', reading', response', received', accepted', call')
<1>0. /\ out \in Seq(Tokens) /\ Len(out) \in Nat
      /\ reading \in 0 .. ResponseParts - 1 /\ response \in 0 .. ResponseParts - 1
      /\ received \in [Streams -> Seq(Packets)] /\ accepted \in [Streams -> Seq(Packets)]
      /\ call \in [Streams -> Calls] /\ (\A s \in Streams : InFrame(call[s]))
      /\ damaged = FALSE
      /\ TextOK(out, reading, response) /\ BodyOK(out) /\ PartialOK(out, call)
      /\ InOrder(received, accepted)
  BY ReadableParts
<1>1. PICK pos \in Positions : Located(out, received, accepted, pos)
                                /\ Accounted(out, received, accepted, call, pos)
  BY ReadableParts
<1> DEFINE r == parse_interleaved_frame(out)
           ch == out[1].from
           n == Len(received[ch]) + 1
           pkt == accepted[ch][n]
           c == pkt.len + 1
<1>2. /\ r.status = "Complete" /\ reading = 0
      /\ out' = SubSeq(out, r.consumed + 1, Len(out))
      /\ \/ \E i \in 1 .. Len(accepted[r.channel]) :
              /\ r.payload = Body(accepted[r.channel][i])
              /\ received' = [received EXCEPT ![r.channel] =
                                Append(received[r.channel], accepted[r.channel][i])]
              /\ damaged' = damaged
         \/ \A i \in 1 .. Len(accepted[r.channel]) : r.payload # Body(accepted[r.channel][i])
      /\ UNCHANGED <<call, response, reading, accepted>>
  BY DEF PeerFrame
<1>3. r.channel = ch /\ r.consumed = 1 + out[1].len /\ r.payload = SubSeq(out, 2, 1 + out[1].len)
      /\ out[1].kind = "$" /\ out[1].len \in Nat
  BY <1>0, <1>2, CompleteFrame
<1>4. /\ ch \in Streams /\ n \in Waiting(received, accepted, ch) /\ pos[ch][n] = 1
      /\ pkt \in Packets /\ out[1].len = pkt.len /\ pkt.len + 1 <= Len(out)
      /\ SubSeq(out, 2, pkt.len + 1) = Body(pkt)
      /\ \A k \in 1 .. pkt.len : out[k + 1] = Octet(pkt, k)
  BY <1>0, <1>1, <1>2, FirstFrame
<1> HIDE DEF r, ch, n, pkt
<1>5. r.consumed = c /\ r.payload = Body(pkt) /\ c \in 1 .. Len(out) /\ c \in Nat \ {0}
  BY SMTT(30), <1>0, <1>3, <1>4
<1>6. n \in 1 .. Len(accepted[ch]) /\ accepted[ch] \in Seq(Packets) /\ received[ch] \in Seq(Packets)
      /\ n = Len(received[ch]) + 1 /\ accepted[ch][n] = pkt
  BY <1>0, <1>4 DEF Waiting, n, pkt
<1>7. damaged' = FALSE /\ received' = [received EXCEPT ![ch] = Append(received[ch], pkt)]
  <2>1. PICK i \in 1 .. Len(accepted[ch]) :
              /\ r.payload = Body(accepted[ch][i])
              /\ received' = [received EXCEPT ![ch] = Append(received[ch], accepted[ch][i])]
              /\ damaged' = damaged
    BY <1>2, <1>3, <1>5, <1>6
  <2>2. accepted[ch][i] \in Packets
    BY <1>6, <2>1, ElementOfSeq
  <2>3. accepted[ch][i] = pkt
    BY <1>4, <1>5, <2>1, <2>2, BodyTells
  <2> QED
    BY <1>0, <2>1, <2>3
<1>8. out' \in Seq(Tokens) /\ Behind(out, out', c)
  <2> HIDE DEF c
  <2>1. out' = SubSeq(out, c + 1, Len(out)) /\ c \in 0 .. Len(out)
    BY <1>2, <1>5
  <2> QED
    BY <1>0, <2>1, DropFirst DEF Behind
<1>9. \A p \in 2 .. c : out[p].kind # "$"
  <2> SUFFICES ASSUME NEW p \in 2 .. c PROVE out[p].kind # "$"
    OBVIOUS
  <2>1. p - 1 \in 1 .. pkt.len /\ (p - 1) + 1 = p
    BY <1>4, FrameTokens
  <2>2. out[p] = Octet(pkt, p - 1)
    BY <1>4, <2>1
  <2> QED
    BY <2>2 DEF Octet
<1>10. out[1].kind = "$" => c = out[1].len + 1
  BY <1>4
<1> HIDE DEF c
<1>11. /\ BodiesBehind(out, c) /\ PartialBehind(out', call)
       /\ \A s \in Streams : \A i \in Waiting(received, accepted, s) :
            \/ pos[s][i] > c
            \/ pos[s][i] = 1 /\ out[1].kind = "$" /\ out[1].from = accepted[s][i].channel
  BY <1>0, <1>1, <1>5, <1>8, <1>9, <1>10, CutBetween
<1>12. Append(received[ch], pkt) \in Seq(Packets) /\ Len(Append(received[ch], pkt)) = n
       /\ \A i \in 1 .. n : Append(received[ch], pkt)[i] =
                               IF i = n THEN pkt ELSE received[ch][i]
  BY <1>4, <1>6, AppendProperties
<1>13. received' \in [Streams -> Seq(Packets)]
       /\ \A s \in Streams : received'[s] = IF s = ch THEN Append(received[ch], pkt) ELSE received[s]
  BY <1>0, <1>4, <1>7, <1>12
<1>14. InOrder(received', accepted)
  <2> SUFFICES ASSUME NEW s \in Streams
               PROVE  /\ Len(received'[s]) <= Len(accepted[s])
                      /\ \A i \in 1 .. Len(received'[s]) : received'[s][i] = accepted[s][i]
    BY DEF InOrder
  <2>1. CASE s # ch
    BY <1>0, <1>13, <2>1 DEF InOrder
  <2>2. CASE s = ch
    <3>1. received'[ch] = Append(received[ch], pkt)
      BY <1>4, <1>13
    <3>2. \A i \in 1 .. Len(received[ch]) : received[ch][i] = accepted[ch][i]
      BY <1>0, <1>4 DEF InOrder
    <3>3. ASSUME NEW i \in 1 .. n PROVE Append(received[ch], pkt)[i] = accepted[ch][i]
      <4>1. CASE i = n
        BY <1>6, <1>12, <4>1
      <4>2. CASE i # n
        <5>1. i \in 1 .. Len(received[ch])
          BY <1>6, <4>2
        <5> QED
          BY <1>12, <3>2, <4>2, <5>1
      <4> QED
        BY <4>1, <4>2
    <3> QED
      BY <1>6, <1>12, <2>2, <3>1, <3>3
  <2> QED
    BY <2>1, <2>2
<1>15. FramesBehind(c, received, received', accepted, pos)
  <2> SUFFICES ASSUME NEW s \in Streams
               PROVE  /\ \A i \in Waiting(received', accepted, s) :
                           i \in Waiting(received, accepted, s) /\ pos[s][i] > c
                      /\ \A i \in Waiting(received, accepted, s) :
                           i \in Waiting(received', accepted, s) \/ pos[s][i] <= c
    BY DEF FramesBehind
  <2>1. CASE s = ch
    <3>1. Waiting(received, accepted, s) = n .. Len(accepted[ch])
          /\ Waiting(received', accepted, s) = n + 1 .. Len(accepted[ch])
      BY <1>4, <1>6, <1>12, <1>13, <2>1 DEF Waiting
    <3>2. ASSUME NEW i \in n + 1 .. Len(accepted[ch]) PROVE pos[s][i] > c /\ i \in n .. Len(accepted[ch])
      <4>1. i \in n .. Len(accepted[ch]) /\ n < i
        BY <1>6
      <4>2. pos[ch][n] < pos[ch][i]
        BY <1>1, <1>4, <2>1, <3>1, <4>1 DEF Located
      <4>3. pos[s][i] # 1
        BY <1>4, <2>1, <4>2
      <4> QED
        BY <1>11, <2>1, <3>1, <4>1, <4>3
    <3>3. ASSUME NEW i \in n .. Len(accepted[ch]) PROVE i \in n + 1 .. Len(accepted[ch]) \/ pos[s][i] <= c
      <4>1. i = n \/ i \in n + 1 .. Len(accepted[ch])
        BY <1>6
      <4>2. pos[ch][n] <= c
        BY <1>4, <1>5
      <4> QED
        BY <2>1, <4>1, <4>2
    <3> QED
      BY <3>1, <3>2, <3>3
  <2>2. CASE s # ch
    <3>1. Waiting(received', accepted, s) = Waiting(received, accepted, s)
      BY <1>13, <2>2 DEF Waiting
    <3>2. ASSUME NEW i \in Waiting(received, accepted, s) PROVE pos[s][i] > c
      <4>1. i \in 1 .. Len(accepted[s])
        <5>1. received[s] \in Seq(Packets) /\ accepted[s] \in Seq(Packets)
          BY <1>0
        <5> QED
          BY <3>2, <5>1 DEF Waiting
      <4>2. accepted[s][i].channel = s
        BY <4>1 DEF ReadableIInv, OwnChannel
      <4> QED
        BY <1>11, <2>2, <3>2, <4>2 DEF ch
    <3> QED
      BY <3>1, <3>2
  <2> QED
    BY <2>1, <2>2
<1>16. Phase(out, reading, c) = reading
  <2>1. c \in 2 .. c /\ c # 0
    BY <1>4, <1>5, FrameTokens DEF c
  <2>2. c - 1 \in 1 .. pkt.len /\ (c - 1) + 1 = c
    BY <1>4, FrameTokens DEF c
  <2>3. out[c] = Octet(pkt, c - 1)
    BY <1>4, <2>2
  <2> QED
    BY <1>2, <2>1, <2>3 DEF Phase, Octet
<1>17. Layout(out', Phase(out, reading, c), response, received', accepted, call)
  <2>1. reading \in Nat /\ response \in Nat
    BY <1>0
  <2> QED
    BY <1>0, <1>1, <1>5, <1>8, <1>11, <1>13, <1>14, <1>15, <2>1, ConsumeKeeps
<1> QED
  BY <1>2, <1>7, <1>16, <1>17

(* The peer reads a part of a response. *)
LEMMA ReadablePeerText ==
  ASSUME ReadableIInv, ~ torn, PeerText
  PROVE  ~ damaged' /\ Layout(out', reading', response', received', accepted', call')
<1>0. /\ out \in Seq(Tokens) /\ Len(out) \in Nat
      /\ reading \in 0 .. ResponseParts - 1 /\ response \in 0 .. ResponseParts - 1
      /\ received \in [Streams -> Seq(Packets)] /\ accepted \in [Streams -> Seq(Packets)]
      /\ call \in [Streams -> Calls] /\ (\A s \in Streams : InFrame(call[s]))
      /\ damaged = FALSE
      /\ TextOK(out, reading, response) /\ BodyOK(out) /\ PartialOK(out, call)
      /\ InOrder(received, accepted)
  BY ReadableParts
<1>1. PICK pos \in Positions : Located(out, received, accepted, pos)
                                /\ Accounted(out, received, accepted, call, pos)
  BY ReadableParts
<1>2. /\ out # << >> /\ out' = Tail(out)
      /\ reading > 0 \/ parse_interleaved_frame(out).status = "NotInterleaved"
      /\ IF out[1] = Text(reading + 1)
         THEN reading' = (reading + 1) % ResponseParts /\ damaged' = damaged
         ELSE damaged' = TRUE
      /\ UNCHANGED <<call, response, received, accepted>>
  BY DEF PeerText
<1>3. 1 \in 1 .. Len(out) /\ out[1] \in Tokens
  BY <1>0, <1>2, ElementOfSeq
<1>4. out[1] = Text(reading + 1)
  <2>1. Phase(out, reading, 1 - 1) = reading
    BY DEF Phase
  <2>2. out[1].kind = "text" \/ reading > 0 => out[1] = Text(reading + 1)
    BY <1>0, <1>3, <2>1 DEF TextOK
  <2>3. out[1].kind # "body"
    BY <1>0, <1>3 DEF BodyOK
  <2>4. out[1].kind # "$" \/ reading > 0
    <3>1. out[1].kind = "$" => parse_interleaved_frame(out).status \in {"Partial", "Complete"}
      BY <1>2 DEF parse_interleaved_frame
    <3> QED
      BY <1>2, <3>1
  <2>5. out[1].kind \in {"$", "body", "text"}
    BY <1>3 DEF Tokens
  <2> QED
    BY <2>2, <2>3, <2>4, <2>5
<1>5. out[1].kind = "text" /\ out[1].k = reading + 1
  BY <1>4 DEF Text
<1>6. reading' = (reading + 1) % ResponseParts /\ damaged' = FALSE
  BY <1>0, <1>2, <1>4
<1>7. Phase(out, reading, 1) = reading'
  BY <1>5, <1>6 DEF Phase
<1>8. out' \in Seq(Tokens) /\ Behind(out, out', 1)
  BY <1>0, <1>2, HeadTailProperties DEF Behind
<1>9. /\ BodiesBehind(out, 1) /\ PartialBehind(out', call)
      /\ \A s \in Streams : \A i \in Waiting(received, accepted, s) : pos[s][i] > 1
  <2>1. (\A p \in 2 .. 1 : out[p].kind # "$") /\ (out[1].kind = "$" => 1 = out[1].len + 1)
    BY <1>5
  <2> QED
    BY <1>0, <1>1, <1>3, <1>5, <1>8, <2>1, CutBetween
<1>10. FramesBehind(1, received, received, accepted, pos)
  BY <1>9 DEF FramesBehind
<1>11. Layout(out', Phase(out, reading, 1), response, received, accepted, call)
  <2>1. reading \in Nat /\ response \in Nat /\ 1 \in Nat \ {0}
    BY <1>0
  <2> QED
    BY <1>0, <1>1, <1>8, <1>9, <1>10, <2>1, ConsumeKeeps
<1> QED
  BY <1>2, <1>6, <1>7, <1>11
(* A token behind the others. *)
LEMMA AppendedToken ==
  ASSUME NEW o \in Seq(Tokens), NEW x \in Tokens
  PROVE  LET q == Append(o, x)
         IN  /\ q \in Seq(Tokens) /\ Len(q) = Len(o) + 1 /\ Len(o) \in Nat
             /\ \A p \in 1 .. Len(o) : q[p] = o[p]
             /\ q[Len(o) + 1] = x
BY AppendProperties

LEMMA AppendText ==
  ASSUME NEW o \in Seq(Tokens), NEW x \in Tokens, NEW r \in Nat, NEW resp \in Nat,
         TextOK(o, r, resp), x.kind = "text" \/ resp > 0 => x = Text(resp + 1)
  PROVE  TextOK(Append(o, x), r, IF x.kind = "text" THEN x.k % ResponseParts ELSE 0)
<1> DEFINE q == Append(o, x)
           l == Len(o)
<1>1. /\ Len(q) = l + 1 /\ l \in Nat /\ q[l + 1] = x
      /\ \A p \in 1 .. l : q[p] = o[p]
  BY AppendedToken
<1> HIDE DEF q, l
<1>2. ASSUME NEW p \in 0 .. l PROVE Phase(q, r, p) = Phase(o, r, p)
  <2>1. CASE p = 0
    BY <2>1 DEF Phase
  <2>2. CASE p # 0
    <3>1. p \in 1 .. l
      BY <1>1, <2>2
    <3> QED
      BY <1>1, <2>2, <3>1 DEF Phase
  <2> QED
    BY <2>1, <2>2
<1>3. Phase(o, r, l) = resp
  BY DEF TextOK, l
<1>4. Phase(q, r, l + 1) = IF x.kind = "text" THEN x.k % ResponseParts ELSE 0
  BY <1>1 DEF Phase
<1>5. ASSUME NEW p \in 1 .. l + 1, q[p].kind = "text" \/ Phase(q, r, p - 1) > 0
      PROVE  q[p] = Text(Phase(q, r, p - 1) + 1)
  <2>1. p - 1 \in 0 .. l
    BY <1>1
  <2>2. Phase(q, r, p - 1) = Phase(o, r, p - 1)
    BY <1>2, <2>1
  <2>3. CASE p = l + 1
    <3>1. p - 1 = l
      BY <1>1, <2>3
    <3>2. Phase(q, r, p - 1) = resp
      BY <1>3, <2>2, <3>1
    <3>3. q[p] = x
      BY <1>1, <2>3
    <3> QED
      BY <1>5, <3>2, <3>3
  <2>4. CASE p # l + 1
    <3>1. p \in 1 .. l
      BY <1>1, <2>4
    <3>2. q[p] = o[p]
      BY <1>1, <3>1
    <3> QED
      BY <1>5, <2>2, <3>1, <3>2 DEF TextOK, l
  <2> QED
    BY <2>3, <2>4
<1> QED
  BY <1>1, <1>4, <1>5 DEF TextOK, q

LEMMA AppendBody ==
  ASSUME NEW o \in Seq(Tokens), NEW x \in Tokens, BodyOK(o),
         x.kind = "body" =>
           /\ x.k \in 1 .. Len(o) /\ x.k <= x.pkt.len
           /\ o[Len(o) + 1 - x.k] = interleaved_header(x.pkt.channel, x.pkt.len)
  PROVE  BodyOK(Append(o, x))
<1> DEFINE q == Append(o, x)
           l == Len(o)
<1>1. /\ Len(q) = l + 1 /\ l \in Nat /\ q[l + 1] = x
      /\ \A p \in 1 .. l : q[p] = o[p]
  BY AppendedToken
<1> HIDE DEF q
<1>2. ASSUME NEW p \in 1 .. Len(q), q[p].kind = "body"
      PROVE  /\ q[p].k \in 1 .. p - 1 /\ q[p].k <= q[p].pkt.len
             /\ q[p - q[p].k] = interleaved_header(q[p].pkt.channel, q[p].pkt.len)
  <2> DEFINE k == q[p].k
             pkt == q[p].pkt
  <2>1. k \in 1 .. p - 1 /\ k <= pkt.len /\ o[p - k] = interleaved_header(pkt.channel, pkt.len)
    <3>1. CASE p = l + 1
      <4>1. q[p] = x /\ p - 1 = l
        BY <1>1, <3>1
      <4> QED
        BY <1>2, <3>1, <4>1
    <3>2. CASE p # l + 1
      <4>1. p \in 1 .. l
        BY <1>1, <3>2
      <4>2. q[p] = o[p]
        BY <1>1, <4>1
      <4> QED
        BY <1>2, <4>1, <4>2 DEF BodyOK
    <3> QED
      BY <3>1, <3>2
  <2> HIDE DEF k, pkt
  <2>2. p - k \in 1 .. l
    <3> HIDE DEF l
    <3> QED
      BY <1>1, <2>1
  <2>3. q[p - k] = o[p - k]
    BY <1>1, <2>2
  <2> QED
    BY <2>1, <2>3 DEF k, pkt
<1> QED
  BY <1>2 DEF BodyOK, q

LEMMA AppendLocated ==
  ASSUME NEW o \in Seq(Tokens), NEW x \in Tokens,
         NEW rec \in [Streams -> Seq(Packets)], NEW acc \in [Streams -> Seq(Packets)],
         NEW pos \in Positions, Located(o, rec, acc, pos)
  PROVE  Located(Append(o, x), rec, acc, pos)
<1> DEFINE q == Append(o, x)
           l == Len(o)
<1>1. /\ Len(q) = l + 1 /\ l \in Nat
      /\ \A p \in 1 .. l : q[p] = o[p]
  BY AppendedToken
<1> HIDE DEF q
<1>2. ASSUME NEW s \in Streams, NEW i \in Waiting(rec, acc, s) PROVE Whole(q, pos[s][i], acc[s][i])
  <2> DEFINE p == pos[s][i]
             pkt == acc[s][i]
             m == pkt.len
  <2>0. rec[s] \in Seq(Packets) /\ acc[s] \in Seq(Packets)
    OBVIOUS
  <2>1. i \in 1 .. Len(acc[s])
    BY <2>0 DEF Waiting
  <2>2. pkt \in Packets
    BY <2>0, <2>1, ElementOfSeq
  <2>3. m \in Nat
    BY <2>2, FrameTokens
  <2>4. p \in 1 .. l - m /\ \A k \in 1 .. m + 1 : o[p + k - 1] = Frame(pkt)[k]
    BY DEF Located, Whole
  <2> HIDE DEF p, m, pkt, l
  <2>5. p \in 1 .. (l + 1) - m
    BY <1>1, <2>3, <2>4
  <2>6. ASSUME NEW k \in 1 .. m + 1 PROVE q[p + k - 1] = Frame(pkt)[k]
    <3>1. p + k - 1 \in 1 .. l
      BY <1>1, <2>3, <2>4
    <3> QED
      BY <1>1, <2>4, <3>1
  <2> QED
    BY <1>1, <2>5, <2>6 DEF Whole, p, m, pkt
<1> QED
  BY <1>2 DEF Located, q

(* A write of a response. *)
LEMMA ReadableRespond ==
  ASSUME ReadableIInv, deploy # "threads", ~ torn, Respond
  PROVE  Layout(out', reading', response', received', accepted', call')
<1>0. /\ out \in Seq(Tokens) /\ Len(out) \in Nat
      /\ reading \in 0 .. ResponseParts - 1 /\ response \in 0 .. ResponseParts - 1
      /\ received \in [Streams -> Seq(Packets)] /\ accepted \in [Streams -> Seq(Packets)]
      /\ call \in [Streams -> Calls]
      /\ TextOK(out, reading, response) /\ BodyOK(out) /\ PartialOK(out, call)
      /\ InOrder(received, accepted)
  BY ReadableParts
<1>1. PICK pos \in Positions : Located(out, received, accepted, pos)
                                /\ Accounted(out, received, accepted, call, pos)
  BY ReadableParts
<1> DEFINE x == Text(response + 1)
           q == Append(out, x)
<1>2. /\ deploy # "senders" /\ (response = 0 => MayStart)
      /\ out' = q /\ response' = (response + 1) % ResponseParts
      /\ UNCHANGED <<call, reading, received, accepted>>
  BY DEF Respond, peer
<1>3. x \in Tokens /\ x.kind = "text" /\ x.k = response + 1
  <2>1. response + 1 \in 1 .. ResponseParts
    BY <1>0, TcpAssumption
  <2> QED
    BY <2>1 DEF Text, Tokens
<1>4. \A s \in Streams : call[s] = Idle
  <2>1. deploy = "loop"
    BY <1>2, TcpAssumption DEF ReadableIInv, TcpIInv, ConnectionOK
  <2>2. CASE response = 0
    BY <1>2, <2>1, <2>2 DEF MayStart
  <2>3. CASE response # 0
    BY <2>3 DEF ReadableIInv, Readable, Exclusive
  <2> QED
    BY <2>2, <2>3
<1>5. /\ q \in Seq(Tokens) /\ Len(q) = Len(out) + 1
      /\ (\A p \in 1 .. Len(out) : q[p] = out[p])
      /\ q[Len(out) + 1] = x
  BY <1>0, <1>3, AppendedToken
<1>6. TextOK(q, reading, response')
  <2>1. response \in Nat /\ reading \in Nat
    BY <1>0
  <2>2. TextOK(q, reading, IF x.kind = "text" THEN x.k % ResponseParts ELSE 0)
    <3> HIDE DEF x
    <3>1. x = Text(response + 1)
      BY DEF x
    <3> QED
      BY <1>0, <1>3, <2>1, <3>1, AppendText
  <2> HIDE DEF x, q
  <2> QED
    BY <1>2, <1>3, <2>2
<1> HIDE DEF x
<1>7. BodyOK(q)
  BY <1>0, <1>3, AppendBody
<1>8. Located(q, received, accepted, pos)
  BY <1>0, <1>1, <1>3, AppendLocated
<1> HIDE DEF q
<1>9. PartialOK(q, call)
  BY <1>4 DEF PartialOK, Idle
<1>10. Accounted(q, received, accepted, call, pos)
  <2> SUFFICES ASSUME NEW p \in 1 .. Len(q), q[p].kind = "$"
               PROVE  \E i \in Waiting(received, accepted, q[p].from) : pos[q[p].from][i] = p
    BY DEF Accounted
  <2>1. p \in 1 .. Len(out)
    BY <1>0, <1>3, <1>5
  <2>2. q[p] = out[p] /\ out[p] \in Tokens
    BY <1>0, <1>5, <2>1, ElementOfSeq
  <2>3. out[p].from \in Streams
    BY <2>2 DEF Tokens
  <2>4. ~ Begins(out, call[out[p].from], p)
    BY <1>4, <2>3 DEF Begins, Idle
  <2> QED
    BY <1>1, <2>1, <2>2, <2>4 DEF Accounted
<1> QED
  BY <1>0, <1>2, <1>6, <1>7, <1>8, <1>9, <1>10 DEF Layout
(* A whole frame begins before the one being written. *)
LEMMA WholeBefore ==
  ASSUME NEW o \in Seq(Tokens), NEW pkt \in Packets, NEW n \in 1 .. pkt.len, EndsIn(o, pkt, n),
         NEW pkt2 \in Packets, NEW x, Whole(o, x, pkt2)
  PROVE  x \in 1 .. Len(o) /\ x < Len(o) - n + 1
<1> DEFINE l == Len(o)
           a == pkt.len
           b == pkt2.len
           y == l - n + 1
<1>1. l \in Nat /\ a \in Nat \ {0} /\ b \in Nat \ {0} /\ n \in 1 .. a
  BY FrameTokens
<1>2. n <= l /\ \A k \in 1 .. n : o[l - n + k] = Frame(pkt)[k]
  BY DEF EndsIn
<1>3. x \in 1 .. l - b /\ \A k \in 1 .. b + 1 : o[x + k - 1] = Frame(pkt2)[k]
  BY DEF Whole
<1>4. /\ Frame(pkt)[1].len = a /\ Frame(pkt2)[1].len = b /\ Frame(pkt2)[1].kind = "$"
      /\ \A k \in 1 .. a : Frame(pkt)[k + 1] = Octet(pkt, k)
  BY FrameAt
<1> HIDE DEF l, a, b
<1>5. x \in 1 .. l /\ x \in Int
  BY <1>1, <1>3
<1>6. o[x] = Frame(pkt2)[1]
  <2>1. 1 \in 1 .. b + 1 /\ x + 1 - 1 = x
    BY <1>1, <1>5
  <2> QED
    BY <1>3, <2>1
<1>7. x # y
  <2> SUFFICES ASSUME x = y PROVE FALSE
    OBVIOUS
  <2>1. 1 \in 1 .. n /\ l - n + 1 = x
    BY <1>1
  <2>2. o[x] = Frame(pkt)[1]
    BY <1>2, <2>1
  <2>3. a = b
    BY <1>4, <1>6, <2>2
  <2> QED
    BY <1>1, <1>3, <2>1, <2>3
<1>8. ~ (x > y)
  <2> SUFFICES ASSUME x > y PROVE FALSE
    OBVIOUS
  <2> DEFINE k == x - y
  <2>1. k \in 1 .. a /\ k + 1 \in 1 .. n /\ l - n + (k + 1) = x
    BY <1>1, <1>2, <1>5
  <2> HIDE DEF k
  <2>2. o[x] = Octet(pkt, k)
    BY <1>2, <1>4, <2>1
  <2> QED
    BY <1>4, <1>6, <2>2 DEF Octet
<1>9. x < y
  BY <1>1, <1>5, <1>7, <1>8
<1> QED
  BY <1>5, <1>9 DEF l

(* A token of a frame. *)
LEMMA ReadableWrite ==
  ASSUME ReadableIInv, ~ torn, NEW s \in Streams, Write(s)
  PROVE  Layout(out', reading', response', received', accepted', call')
<1>0. /\ out \in Seq(Tokens) /\ Len(out) \in Nat
      /\ reading \in Nat /\ response \in Nat
      /\ received \in [Streams -> Seq(Packets)] /\ accepted \in [Streams -> Seq(Packets)]
      /\ call \in [Streams -> Calls]
      /\ TextOK(out, reading, response) /\ BodyOK(out) /\ PartialOK(out, call)
      /\ InOrder(received, accepted)
  BY ReadableParts
<1>1. PICK pos \in Positions : Located(out, received, accepted, pos)
                                /\ Accounted(out, received, accepted, call, pos)
  BY ReadableParts
<1> DEFINE pkt == call[s].pkt
           n == call[s].off
           x == Frame(pkt)[n + 1]
           q == Append(out, x)
           l == Len(out)
<1>2. /\ call[s].stage = "write" /\ out' = q
      /\ call' = [call EXCEPT ![s] =
            IF n + 1 = Len(Frame(pkt)) THEN [stage |-> "unlock", pkt |-> pkt, ret |-> n + 1]
            ELSE [call[s] EXCEPT !.off = n + 1]]
      /\ accepted' = IF n + 1 = Len(Frame(pkt))
                     THEN [accepted EXCEPT ![s] = Append(accepted[s], pkt)] ELSE accepted
      /\ UNCHANGED <<reading, response, received>>
  BY DEF Write, peer
<1>3. call[s] \in [stage : {"write"}, pkt : Packets, off : Nat] /\ pkt \in Packets
  BY <1>0, <1>2 DEF Calls, Idle
<1>4. n \in 0 .. pkt.len /\ n \in Nat /\ pkt.len \in Nat \ {0} /\ Len(Frame(pkt)) = pkt.len + 1
      /\ Frame(pkt) \in Seq(Tokens)
  <2>1. InFrame(call[s])
    BY ReadableParts
  <2> QED
    BY <1>2, <1>3, <2>1, FrameTokens DEF InFrame
<1>5. pkt.channel = s
  <2>1. call[s] # Idle
    BY <1>2 DEF Idle
  <2> QED
    BY <2>1 DEF ReadableIInv, OwnChannel
<1>6. response = 0
  <2>1. call[s] # Idle
    BY <1>2 DEF Idle
  <2> QED
    BY <2>1 DEF ReadableIInv, Readable, Exclusive
<1>7. \A t \in Streams : call[t].stage = "write" => t = s
  BY <1>2 DEF ReadableIInv, TcpIInv, LockHeld
<1>8. n <= l /\ \A k \in 1 .. n : out[l - n + k] = Frame(pkt)[k]
  BY <1>0, <1>2 DEF PartialOK, EndsIn
<1> HIDE DEF pkt, n
<1>9. /\ x \in Tokens
      /\ n = 0 => x = interleaved_header(pkt.channel, pkt.len) /\ x.kind = "$" /\ x.from = s
      /\ n > 0 => x = Octet(pkt, n)
  <2>1. n + 1 \in 1 .. Len(Frame(pkt))
    BY <1>4
  <2>2. x \in Tokens
    BY <1>4, <2>1, ElementOfSeq
  <2>3. n > 0 => n \in 1 .. pkt.len
    BY <1>4
  <2>4. n = 0 => n + 1 = 1
    OBVIOUS
  <2> QED
    BY <1>3, <1>5, <2>2, <2>3, <2>4, FrameAt
<1>10. n = 0 \/ n > 0
  BY <1>4
<1> HIDE DEF x
<1>11. /\ q \in Seq(Tokens) /\ Len(q) = l + 1 /\ l \in Nat
       /\ (\A p \in 1 .. l : q[p] = out[p])
       /\ q[l + 1] = x
  BY <1>0, <1>9, AppendedToken
<1>12. x.kind # "text"
  BY <1>9, <1>10 DEF Octet
<1>13. TextOK(q, reading, response)
  <2>1. TextOK(q, reading, IF x.kind = "text" THEN x.k % ResponseParts ELSE 0)
    BY <1>0, <1>6, <1>9, <1>12, AppendText
  <2> HIDE DEF q
  <2> QED
    BY <1>6, <1>12, <2>1
<1>14. BodyOK(q)
  <2>1. CASE n = 0
    <3>1. x.kind # "body"
      BY <1>9, <2>1
    <3> QED
      BY <1>0, <1>9, <3>1, AppendBody
  <2>2. CASE n > 0
    <3>1. x.k = n /\ x.pkt = pkt
      BY <1>9, <2>2 DEF Octet
    <3>2. n \in 1 .. l /\ n <= pkt.len /\ 1 \in 1 .. n /\ l - n + 1 = l + 1 - n
      BY <1>4, <1>8, <1>11, <2>2
    <3>3. out[l + 1 - n] = Frame(pkt)[1]
      BY <1>8, <3>2
    <3>4. Frame(pkt)[1] = interleaved_header(pkt.channel, pkt.len)
      BY <1>3, FrameAt
    <3> QED
      BY <1>0, <1>9, <3>1, <3>2, <3>3, <3>4, AppendBody
  <2> QED
    BY <1>10, <2>1, <2>2
<1>15. Located(q, received, accepted, pos)
  BY <1>0, <1>1, <1>9, AppendLocated
<1>16. EndsIn(q, pkt, n + 1)
  <2> HIDE DEF q, l
  <2>1. n + 1 <= Len(q)
    BY <1>4, <1>8, <1>11
  <2>2. ASSUME NEW k \in 1 .. n + 1 PROVE q[Len(q) - (n + 1) + k] = Frame(pkt)[k]
    <3>1. Len(q) - (n + 1) + k = l - n + k
      BY <1>4, <1>11
    <3>2. CASE k = n + 1
      <4>1. l - n + k = l + 1
        BY <1>4, <1>11, <3>2
      <4> QED
        BY <1>11, <3>1, <3>2, <4>1 DEF x
    <3>3. CASE k # n + 1
      <4>1. k \in 1 .. n /\ l - n + k \in 1 .. l
        BY <1>4, <1>8, <1>11, <3>3
      <4> QED
        BY <1>8, <1>11, <3>1, <4>1
    <3> QED
      BY <3>2, <3>3
  <2> QED
    BY <2>1, <2>2 DEF EndsIn
<1> HIDE DEF q
<1>17. ASSUME NEW p \in 1 .. l, q[p].kind = "$"
       PROVE  /\ q[p].from \in Streams
              /\ \/ \E i \in Waiting(received, accepted, q[p].from) : pos[q[p].from][i] = p
                 \/ q[p].from = s /\ n > 0 /\ p = l - n + 1
  <2>1. q[p] = out[p] /\ out[p] \in Tokens
    BY <1>0, <1>11, <1>17, ElementOfSeq
  <2>2. out[p].from \in Streams
    BY <1>17, <2>1 DEF Tokens
  <2>3. \/ \E i \in Waiting(received, accepted, out[p].from) : pos[out[p].from][i] = p
        \/ Begins(out, call[out[p].from], p)
    BY <1>1, <1>17, <2>1 DEF Accounted
  <2>4. Begins(out, call[out[p].from], p) => out[p].from = s /\ n > 0 /\ p = l - n + 1
    BY <1>7, <2>2 DEF Begins, n
  <2> QED
    BY <2>1, <2>2, <2>3, <2>4
<1>18. CASE n + 1 # Len(Frame(pkt))
  <2> DEFINE c == [call[s] EXCEPT !.off = n + 1]
  <2>1. call' = [call EXCEPT ![s] = c] /\ accepted' = accepted
    BY <1>2, <1>18 DEF pkt, n
  <2>2. c.stage = "write" /\ c.pkt = pkt /\ c.off = n + 1
    BY <1>3 DEF pkt
  <2> HIDE DEF c
  <2>3. \A t \in Streams : call'[t] = IF t = s THEN c ELSE call[t]
    BY <1>0, <2>1
  <2>4. PartialOK(q, call')
    BY <1>7, <1>16, <2>2, <2>3 DEF PartialOK
  <2>5. Accounted(q, received, accepted, call', pos)
    <3> SUFFICES ASSUME NEW p \in 1 .. Len(q), q[p].kind = "$"
                 PROVE  \/ \E i \in Waiting(received, accepted, q[p].from) : pos[q[p].from][i] = p
                        \/ Begins(q, call'[q[p].from], p)
      BY DEF Accounted
    <3>1. CASE p = l + 1
      <4>1. n = 0 /\ q[p].from = s
        BY <1>9, <1>10, <1>11, <3>1 DEF Octet
      <4>2. call'[s] = c
        BY <2>3
      <4>3. c.off = 1 /\ p = Len(q) - 1 + 1
        BY <1>11, <2>2, <3>1, <4>1
      <4> QED
        BY <2>2, <4>1, <4>2, <4>3 DEF Begins
    <3>2. CASE p # l + 1
      <4>1. p \in 1 .. l
        BY <1>11, <3>2
      <4>2. CASE q[p].from = s /\ n > 0 /\ p = l - n + 1
        <5>1. call'[s] = c
          BY <2>3
        <5>2. c.off > 0 /\ p = Len(q) - c.off + 1
          <6> HIDE DEF l
          <6>1. p = Len(q) - (n + 1) + 1 /\ n + 1 > 0
            BY <1>4, <1>11, <4>2
          <6> QED
            BY <2>2, <6>1
        <5> QED
          BY <2>2, <4>2, <5>1, <5>2 DEF Begins
      <4> QED
        BY <1>17, <4>1, <4>2
    <3> QED
      BY <3>1, <3>2
  <2> QED
    BY <1>0, <1>1, <1>2, <1>13, <1>14, <1>15, <2>1, <2>4, <2>5 DEF Layout
<1>19. CASE n + 1 = Len(Frame(pkt))
  <2> DEFINE c == [stage |-> "unlock", pkt |-> pkt, ret |-> n + 1]
             m == Len(accepted[s]) + 1
             y == l - n + 1
             acc == [accepted EXCEPT ![s] = Append(accepted[s], pkt)]
             pos2 == [pos EXCEPT ![s] = [pos[s] EXCEPT ![m] = y]]
  <2>1. call' = [call EXCEPT ![s] = c] /\ accepted' = acc
    BY <1>2, <1>19 DEF pkt, n
  <2>2. c.stage = "unlock"
    OBVIOUS
  <2> HIDE DEF c
  <2>3. \A t \in Streams : call'[t] = IF t = s THEN c ELSE call[t]
    BY <1>0, <2>1
  <2>4. PartialOK(q, call')
    BY <1>7, <2>2, <2>3 DEF PartialOK
  <2>5. n = pkt.len /\ n \in 1 .. pkt.len /\ n > 0
    BY <1>4, <1>19
  <2>6. accepted[s] \in Seq(Packets) /\ received[s] \in Seq(Packets) /\ m \in Nat
    BY <1>0
  <2>7. /\ Append(accepted[s], pkt) \in Seq(Packets) /\ Len(Append(accepted[s], pkt)) = m
        /\ \A i \in 1 .. m : Append(accepted[s], pkt)[i] = IF i = m THEN pkt ELSE accepted[s][i]
    BY <1>3, <2>6, AppendProperties
  <2>8. /\ acc[s] = Append(accepted[s], pkt)
        /\ \A t \in Streams : t # s => acc[t] = accepted[t]
    BY <1>0
  <2>9. pos2 \in Positions
        /\ \A t \in Streams : \A i \in Nat : pos2[t][i] = IF t = s /\ i = m THEN y ELSE pos[t][i]
    <3> HIDE DEF m, y
    <3>1. y \in Int
      BY <1>4, <1>11 DEF y
    <3>2. \A t \in Streams : pos[t] \in [Nat -> Int]
      BY DEF Positions
    <3>3. pos2[s] = [pos[s] EXCEPT ![m] = y] /\ \A t \in Streams : t # s => pos2[t] = pos[t]
      BY DEF Positions
    <3>4. [pos[s] EXCEPT ![m] = y] \in [Nat -> Int]
          /\ \A i \in Nat : [pos[s] EXCEPT ![m] = y][i] = IF i = m THEN y ELSE pos[s][i]
      BY <2>6, <3>1, <3>2
    <3>5. pos2 \in Positions
      BY <3>4 DEF Positions
    <3> QED
      BY <3>3, <3>4, <3>5
  <2> HIDE DEF acc, pos2
  <2>10. /\ \A t \in Streams : t # s => Waiting(received, acc, t) = Waiting(received, accepted, t)
         /\ Waiting(received, acc, s) = Len(received[s]) + 1 .. m
         /\ Waiting(received, accepted, s) = Len(received[s]) + 1 .. m - 1
         /\ m \in Waiting(received, acc, s)
    <3>1. Len(received[s]) <= Len(accepted[s])
      BY <1>0 DEF InOrder
    <3> QED
      BY <2>6, <2>7, <2>8, <3>1 DEF Waiting
  <2> HIDE DEF m
  <2>11. ASSUME NEW t \in Streams, NEW i \in Waiting(received, acc, t), ~ (t = s /\ i = m)
         PROVE  /\ i \in Waiting(received, accepted, t) /\ i \in Nat
                /\ acc[t][i] = accepted[t][i] /\ pos2[t][i] = pos[t][i]
    <3>1. received[t] \in Seq(Packets) /\ Len(received[t]) \in Nat
      BY <1>0
    <3>2. CASE t = s
      <4>1. i \in Len(received[s]) + 1 .. m - 1 /\ i \in Nat /\ i \in 1 .. m
        BY <2>6, <2>10, <2>11, <3>1, <3>2
      <4> QED
        BY <2>7, <2>8, <2>9, <2>10, <2>11, <3>2, <4>1
    <3>3. CASE t # s
      <4>1. i \in Nat
        <5>1. i \in Len(received[t]) + 1 .. Len(acc[t])
          BY <2>11 DEF Waiting
        <5> QED
          BY <3>1, <5>1
      <4> QED
        BY <2>8, <2>9, <2>10, <2>11, <3>3, <4>1
    <3> QED
      BY <3>2, <3>3
  <2>12. acc[s][m] = pkt /\ pos2[s][m] = y
    <3>1. m \in 1 .. m
      BY <2>6 DEF m
    <3> QED
      BY <2>6, <2>7, <2>8, <2>9, <3>1
  <2>13. Whole(q, y, pkt)
    <3>1. y \in 1 .. Len(q) - pkt.len
      <4> HIDE DEF l
      <4> QED
        BY <1>4, <1>8, <1>11, <2>5
    <3>2. ASSUME NEW k \in 1 .. pkt.len + 1 PROVE q[y + k - 1] = Frame(pkt)[k]
      <4>1. y + k - 1 = Len(q) - (n + 1) + k /\ k \in 1 .. n + 1
        <5>1. k \in 1 .. n + 1 /\ n \in Nat /\ l \in Nat /\ Len(q) = l + 1
          BY <1>4, <1>11, <2>5
        <5> HIDE DEF l
        <5> QED
          BY <5>1
      <4> QED
        BY <1>16, <4>1 DEF EndsIn
    <3> QED
      BY <3>1, <3>2 DEF Whole
  <2>14. ASSUME NEW i \in Waiting(received, accepted, s) PROVE pos[s][i] < y
    <3>1. i \in 1 .. Len(accepted[s])
      BY <2>6, <2>14 DEF Waiting
    <3>2. accepted[s][i] \in Packets
      BY <2>6, <3>1, ElementOfSeq
    <3>3. Whole(out, pos[s][i], accepted[s][i])
      BY <1>1, <2>14 DEF Located
    <3>4. EndsIn(out, pkt, n)
      BY <1>8 DEF EndsIn
    <3> QED
      BY <1>0, <1>3, <2>5, <3>2, <3>3, <3>4, WholeBefore
  <2> HIDE DEF y
  <2>15. Located(q, received, acc, pos2)
    <3> SUFFICES ASSUME NEW t \in Streams, NEW i \in Waiting(received, acc, t)
                 PROVE  /\ Whole(q, pos2[t][i], acc[t][i])
                        /\ \A j \in Waiting(received, acc, t) : i < j => pos2[t][i] < pos2[t][j]
      BY DEF Located
    <3>1. CASE t = s /\ i = m
      <4>1. \A j \in Len(received[s]) + 1 .. m : ~ (m < j)
        BY <2>6 DEF m
      <4> QED
        BY <2>10, <2>12, <2>13, <3>1, <4>1
    <3>2. CASE ~ (t = s /\ i = m)
      <4>1. /\ i \in Waiting(received, accepted, t) /\ acc[t][i] = accepted[t][i]
            /\ pos2[t][i] = pos[t][i]
        BY <2>11, <3>2
      <4>2. Whole(q, pos2[t][i], acc[t][i])
        BY <1>15, <4>1 DEF Located
      <4>3. ASSUME NEW j \in Waiting(received, acc, t), i < j PROVE pos2[t][i] < pos2[t][j]
        <5>1. CASE t = s /\ j = m
          BY <2>12, <2>14, <4>1, <5>1
        <5>2. CASE ~ (t = s /\ j = m)
          BY <1>15, <2>11, <4>1, <4>3, <5>2 DEF Located
        <5> QED
          BY <5>1, <5>2
      <4> QED
        BY <4>2, <4>3
    <3> QED
      BY <3>1, <3>2
  <2>16. Accounted(q, received, acc, call', pos2)
    <3> SUFFICES ASSUME NEW p \in 1 .. Len(q), q[p].kind = "$"
                 PROVE  \E i \in Waiting(received, acc, q[p].from) : pos2[q[p].from][i] = p
      BY DEF Accounted
    <3>1. p # l + 1
      BY <1>9, <1>11, <2>5 DEF Octet
    <3>2. p \in 1 .. l
      BY <1>11, <3>1
    <3> DEFINE t == q[p].from
    <3>3. t \in Streams
      BY <1>17, <3>2
    <3>4. CASE t = s /\ n > 0 /\ p = l - n + 1
      <4>1. pos2[s][m] = p /\ m \in Waiting(received, acc, s)
        BY <2>10, <2>12, <3>4 DEF y
      <4> QED
        BY <3>4, <4>1
    <3>5. CASE \E i \in Waiting(received, accepted, t) : pos[t][i] = p
      <4>1. PICK i \in Waiting(received, accepted, t) : pos[t][i] = p
        BY <3>5
      <4> HIDE DEF t
      <4>2. i \in Waiting(received, acc, t) /\ ~ (t = s /\ i = m)
        <5>1. CASE t = s
          <6>1. i \in Len(received[s]) + 1 .. m - 1
            BY <2>10, <4>1, <5>1
          <6>2. i \in Len(received[s]) + 1 .. m /\ i # m
            BY <2>6, <6>1 DEF m
          <6> QED
            BY <2>10, <5>1, <6>2
        <5>2. CASE t # s
          BY <2>10, <3>3, <4>1, <5>2
        <5> QED
          BY <5>1, <5>2
      <4>3. pos2[t][i] = p
        BY <2>11, <3>3, <4>1, <4>2
      <4> QED
        BY <4>2, <4>3 DEF t
    <3> QED
      BY <1>17, <3>2, <3>4, <3>5
  <2>17. InOrder(received, acc)
    <3> SUFFICES ASSUME NEW t \in Streams
                 PROVE  /\ Len(received[t]) <= Len(acc[t])
                        /\ \A i \in 1 .. Len(received[t]) : received[t][i] = acc[t][i]
      BY DEF InOrder
    <3>1. CASE t # s
      BY <1>0, <2>8, <3>1 DEF InOrder
    <3>2. CASE t = s
      <4>1. Len(received[s]) <= Len(accepted[s])
            /\ \A i \in 1 .. Len(received[s]) : received[s][i] = accepted[s][i]
        BY <1>0 DEF InOrder
      <4>2. Len(received[s]) <= m
        BY <2>6, <4>1 DEF m
      <4>3. ASSUME NEW i \in 1 .. Len(received[s]) PROVE Append(accepted[s], pkt)[i] = accepted[s][i]
        <5>1. i \in 1 .. m /\ i # m
          BY <2>6, <4>1 DEF m
        <5> QED
          BY <2>7, <5>1
      <4> QED
        BY <2>7, <2>8, <3>2, <4>1, <4>2, <4>3
    <3> QED
      BY <3>1, <3>2
  <2> QED
    BY <1>2, <1>13, <1>14, <2>1, <2>4, <2>9, <2>15, <2>16, <2>17 DEF Layout
<1> QED
  BY <1>18, <1>19
LEMMA OwnChannelInit == Init => OwnChannel
BY DEF Init, OwnChannel

(* A step that changes the call of one stream at most, and writes nothing  *)
(* to the end, keeps the channels.                                         *)
LEMMA OwnChannelCall ==
  ASSUME TcpIInv, OwnChannel, NEW s \in Streams, NEW c, call' = [call EXCEPT ![s] = c],
         c # Idle => c.pkt.channel = s, accepted' = accepted
  PROVE  OwnChannel'
<1>1. \A t \in Streams : call'[t] = IF t = s THEN c ELSE call[t]
  BY DEF TcpIInv, StreamsOK
<1> QED
  BY <1>1 DEF OwnChannel

LEMMA OwnChannelStep == TcpIInv /\ OwnChannel /\ [Next]_vars => OwnChannel'
<1> SUFFICES ASSUME TcpIInv, OwnChannel, [Next]_vars PROVE OwnChannel'
  OBVIOUS
<1>1. ASSUME NEW s \in Streams, NEW len \in Sizes, Send(s, len) PROVE OwnChannel'
  <2> DEFINE c == [stage |-> "lock", pkt |-> [channel |-> s, seq |-> seq_num[s], len |-> len]]
  <2>1. call' = [call EXCEPT ![s] = c] /\ accepted' = accepted /\ c.pkt.channel = s
    BY <1>1 DEF Send
  <2> HIDE DEF c
  <2> QED
    BY <2>1, OwnChannelCall
<1>2. ASSUME NEW s \in Streams, call[s] # Idle PROVE call[s].pkt.channel = s
  BY <1>2 DEF OwnChannel
<1>3. ASSUME NEW s \in Streams, Lock(s) PROVE OwnChannel'
  <2> DEFINE c == [stage |-> "write", pkt |-> call[s].pkt, off |-> 0]
  <2>1. call[s] # Idle
    BY <1>3 DEF Lock, Idle
  <2>2. call' = [call EXCEPT ![s] = c] /\ accepted' = accepted /\ c.pkt.channel = s
    BY <1>2, <1>3, <2>1 DEF Lock
  <2> HIDE DEF c
  <2> QED
    BY <2>2, OwnChannelCall
<1>4. ASSUME NEW s \in Streams, WriteStops(s) PROVE OwnChannel'
  <2> DEFINE c == [stage |-> "unlock", pkt |-> call[s].pkt,
                   ret |-> IF call[s].off = 0 THEN -1 ELSE call[s].off]
  <2>1. call[s] # Idle
    BY <1>4 DEF WriteStops, Idle
  <2>2. call' = [call EXCEPT ![s] = c] /\ accepted' = accepted
    BY <1>4 DEF WriteStops
  <2>3. c.pkt.channel = s
    BY <1>2, <2>1
  <2> HIDE DEF c
  <2> QED
    BY <2>2, <2>3, OwnChannelCall
<1>5. ASSUME NEW s \in Streams, Unlock(s) PROVE OwnChannel'
  <2> DEFINE c == [stage |-> "return", pkt |-> call[s].pkt,
                   ret |-> IF call[s].ret = Len(Frame(call[s].pkt)) THEN 0 ELSE -1]
  <2>1. call[s] # Idle
    BY <1>5 DEF Unlock, Idle
  <2>2. call' = [call EXCEPT ![s] = c] /\ accepted' = accepted
    BY <1>5 DEF Unlock
  <2>3. c.pkt.channel = s
    BY <1>2, <2>1
  <2> HIDE DEF c
  <2> QED
    BY <2>2, <2>3, OwnChannelCall
<1>6. ASSUME NEW s \in Streams, Return(s) PROVE OwnChannel'
  <2>1. call' = [call EXCEPT ![s] = Idle] /\ accepted' = accepted
    BY <1>6 DEF Return
  <2> QED
    BY <2>1, OwnChannelCall
<1>7. ASSUME NEW s \in Streams, Write(s) PROVE OwnChannel'
  <2> DEFINE pkt == call[s].pkt
             c == IF call[s].off + 1 = Len(Frame(pkt))
                  THEN [stage |-> "unlock", pkt |-> pkt, ret |-> call[s].off + 1]
                  ELSE [call[s] EXCEPT !.off = call[s].off + 1]
  <2>1. call[s].stage = "write" /\ call' = [call EXCEPT ![s] = c]
        /\ accepted' = IF call[s].off + 1 = Len(Frame(pkt))
                       THEN [accepted EXCEPT ![s] = Append(accepted[s], pkt)] ELSE accepted
    BY <1>7 DEF Write
  <2>2. call[s] # Idle
    BY <2>1 DEF Idle
  <2>3. call[s] \in [stage : {"write"}, pkt : Packets, off : Nat]
    BY <2>1 DEF TcpIInv, StreamsOK, Calls, Idle
  <2>4. c.pkt = pkt
    BY <2>3
  <2> HIDE DEF c
  <2>5. pkt.channel = s /\ pkt \in Packets
    BY <1>2, <2>2, <2>3
  <2> HIDE DEF pkt
  <2>6. \A t \in Streams : call'[t] = IF t = s THEN c ELSE call[t]
    BY <2>1 DEF TcpIInv, StreamsOK
  <2>7. ASSUME NEW t \in Streams, NEW i \in 1 .. Len(accepted'[t]) PROVE accepted'[t][i].channel = t
    <3>1. CASE accepted'[t] = accepted[t]
      BY <2>7, <3>1 DEF OwnChannel
    <3>2. CASE accepted'[t] # accepted[t]
      <4>1. accepted[s] \in Seq(Packets) /\ accepted \in [Streams -> Seq(Packets)]
        BY DEF TcpIInv, StreamsOK
      <4>2. t = s /\ accepted'[s] = Append(accepted[s], pkt)
        BY <2>1, <3>2, <4>1
      <4>3. i \in 1 .. Len(accepted[s]) + 1
        BY <2>5, <2>7, <4>1, <4>2, AppendProperties
      <4>4. accepted'[s][i] = IF i = Len(accepted[s]) + 1 THEN pkt ELSE accepted[s][i]
        BY <2>5, <4>1, <4>2, <4>3, AppendProperties
      <4>5. i # Len(accepted[s]) + 1 => i \in 1 .. Len(accepted[s])
        BY <4>1, <4>3
      <4> QED
        BY <2>5, <4>2, <4>4, <4>5 DEF OwnChannel
    <3> QED
      BY <3>1, <3>2
  <2> QED
    BY <2>4, <2>5, <2>6, <2>7 DEF OwnChannel
<1>8. ASSUME UNCHANGED <<call, accepted>> PROVE OwnChannel'
  BY <1>8 DEF OwnChannel
<1> QED
  BY <1>1, <1>3, <1>4, <1>5, <1>6, <1>7, <1>8
     DEF Next, Thread, Respond, RespondStops, Peer, PeerFrame, PeerText, vars

LEMMA ExclusiveStep ==
  ASSUME ReadableIInv, deploy # "threads", [Next]_vars
  PROVE  Exclusive'
<1>0. Exclusive /\ call \in [Streams -> Calls]
  BY DEF ReadableIInv, Readable, TcpIInv, StreamsOK
<1>1. ASSUME NEW s \in Streams, call[s] # Idle, response' = response, deploy' = deploy, NEW c,
             call' = [call EXCEPT ![s] = c]
      PROVE  Exclusive'
  BY <1>0, <1>1 DEF Exclusive
<1>2. ASSUME NEW s \in Streams, NEW len \in Sizes, Send(s, len) PROVE Exclusive'
  <2>1. UNCHANGED <<deploy, response>> /\ MayStart
    BY <1>2 DEF Send
  <2>2. deploy \in {"loop", "senders"}
    BY TcpAssumption DEF ReadableIInv, TcpIInv, ConnectionOK
  <2>3. response = 0
    BY <1>0, <2>1, <2>2 DEF MayStart, Exclusive
  <2> QED
    BY <2>1, <2>3 DEF Exclusive
<1>3. ASSUME NEW s \in Streams, Thread(s) PROVE Exclusive'
  <2>1. call[s] # Idle
    BY <1>3 DEF Thread, Lock, Write, WriteStops, Unlock, Return, Idle
  <2>2. response' = response /\ deploy' = deploy
    BY <1>3 DEF Thread, Lock, Write, WriteStops, Unlock, Return
  <2>3. \E c : call' = [call EXCEPT ![s] = c]
    BY <1>3 DEF Thread, Lock, Write, WriteStops, Unlock, Return
  <2> QED
    BY <1>1, <2>1, <2>2, <2>3
<1>4. CASE Respond \/ RespondStops
  <2>1. deploy' = deploy /\ call' = call /\ deploy # "senders" /\ (response = 0 => MayStart)
    BY <1>4 DEF Respond, RespondStops
  <2>2. deploy = "loop"
    BY <2>1, TcpAssumption DEF ReadableIInv, TcpIInv, ConnectionOK
  <2>3. \A s \in Streams : call[s] = Idle
    BY <1>0, <2>1, <2>2 DEF MayStart, Exclusive
  <2> QED
    BY <2>1, <2>3 DEF Exclusive
<1>5. CASE Peer
  BY <1>0, <1>5 DEF Peer, PeerFrame, PeerText, Exclusive
<1>6. CASE UNCHANGED vars
  BY <1>0, <1>6 DEF vars, Exclusive
<1> QED
  BY <1>2, <1>3, <1>4, <1>5, <1>6 DEF Next

LEMMA ReadableInit == Init => ReadableIInv
<1> SUFFICES ASSUME Init PROVE ReadableIInv
  OBVIOUS
<1>1. TcpIInv /\ OwnChannel
  BY TcpInvInit, OwnChannelInit
<1>2. /\ out = << >> /\ reading = 0 /\ response = 0 /\ damaged = FALSE
      /\ received = [s \in Streams |-> << >>] /\ accepted = [s \in Streams |-> << >>]
      /\ call = [s \in Streams |-> Idle]
  BY DEF Init
<1>3. Len(out) = 0 /\ 1 .. 0 = {}
  BY <1>2
<1>4. TextOK(out, reading, response) /\ BodyOK(out)
  BY <1>2, <1>3 DEF TextOK, BodyOK, Phase
<1>5. PartialOK(out, call)
  BY <1>2 DEF PartialOK, Idle
<1>6. InOrder(received, accepted) /\ \A s \in Streams : Waiting(received, accepted, s) = {}
  BY <1>2 DEF InOrder, Waiting
<1> DEFINE pos == [s \in Streams |-> [i \in Nat |-> 0]]
<1>7. pos \in Positions
  BY DEF Positions
<1> HIDE DEF pos
<1>8. Located(out, received, accepted, pos) /\ Accounted(out, received, accepted, call, pos)
  BY <1>3, <1>6 DEF Located, Accounted
<1>9. Exclusive
  BY <1>2 DEF Exclusive
<1> QED
  BY <1>1, <1>2, <1>4, <1>5, <1>6, <1>7, <1>8, <1>9 DEF ReadableIInv, Readable, Layout

(* A step on which nobody begins or ends a write changes no token.         *)
LEMMA LayoutCall ==
  ASSUME ReadableIInv, ~ torn, NEW s \in Streams, NEW c, call' = [call EXCEPT ![s] = c],
         UNCHANGED <<out, reading, response, received, accepted>>,
         call[s].stage = "write" => call[s].off = 0,
         c.stage = "write" => c.off = 0
  PROVE  Layout(out', reading', response', received', accepted', call')
<1>0. /\ out \in Seq(Tokens) /\ Len(out) \in Nat
      /\ call \in [Streams -> Calls]
      /\ TextOK(out, reading, response) /\ BodyOK(out) /\ PartialOK(out, call)
      /\ InOrder(received, accepted)
  BY ReadableParts
<1>1. PICK pos \in Positions : Located(out, received, accepted, pos)
                                /\ Accounted(out, received, accepted, call, pos)
  BY ReadableParts
<1>2. \A t \in Streams : call'[t] = IF t = s THEN c ELSE call[t]
  BY <1>0
<1>3. PartialOK(out, call')
  <2> SUFFICES ASSUME NEW t \in Streams, call'[t].stage = "write"
               PROVE  EndsIn(out, call'[t].pkt, call'[t].off)
    BY DEF PartialOK
  <2>1. CASE t = s
    <3>1. call'[t].off = 0
      BY <1>2, <2>1
    <3>2. 0 <= Len(out) /\ 1 .. 0 = {}
      BY <1>0
    <3> QED
      BY <3>1, <3>2 DEF EndsIn
  <2>2. CASE t # s
    BY <1>0, <1>2, <2>2 DEF PartialOK
  <2> QED
    BY <2>1, <2>2
<1>4. Accounted(out, received, accepted, call', pos)
  <2> SUFFICES ASSUME NEW p \in 1 .. Len(out), out[p].kind = "$"
               PROVE  \/ \E i \in Waiting(received, accepted, out[p].from) : pos[out[p].from][i] = p
                      \/ Begins(out, call'[out[p].from], p)
    BY DEF Accounted
  <2>1. out[p] \in Tokens
    BY <1>0, ElementOfSeq
  <2>2. out[p].from \in Streams
    BY <2>1 DEF Tokens
  <2>3. Begins(out, call[out[p].from], p) => Begins(out, call'[out[p].from], p)
    BY <1>2, <2>2 DEF Begins
  <2> QED
    BY <1>1, <2>3 DEF Accounted
<1> QED
  BY <1>0, <1>1, <1>3, <1>4 DEF Layout

LEMMA ReadableStep ==
  ASSUME "threads" \notin Deployments
  PROVE  ReadableIInv /\ [Next]_vars => ReadableIInv'
<1> SUFFICES ASSUME ReadableIInv, [Next]_vars PROVE ReadableIInv'
  OBVIOUS
<1>1. TcpIInv' /\ OwnChannel'
  BY TcpInvStep, OwnChannelStep DEF ReadableIInv
<1>2. deploy # "threads"
  BY DEF ReadableIInv, TcpIInv, ConnectionOK
<1>3. Exclusive'
  BY <1>2, ExclusiveStep
<1> SUFFICES ASSUME ~ torn'
             PROVE  ~ damaged' /\ Layout(out', reading', response', received', accepted', call')
  BY <1>1, <1>3 DEF ReadableIInv, Readable
<1>4. torn \/ (~ damaged /\ Layout(out, reading, response, received, accepted, call))
  BY DEF ReadableIInv, Readable
<1>5. ASSUME ~ torn, UNCHANGED <<out, reading, response, received, accepted, call, damaged>>
      PROVE  ~ damaged' /\ Layout(out', reading', response', received', accepted', call')
  BY <1>4, <1>5
<1>6. ASSUME NEW s \in Streams, NEW len \in Sizes, Send(s, len)
      PROVE  ~ damaged' /\ Layout(out', reading', response', received', accepted', call')
  <2> DEFINE c == [stage |-> "lock", pkt |-> [channel |-> s, seq |-> seq_num[s], len |-> len]]
  <2>1. /\ call' = [call EXCEPT ![s] = c] /\ c.stage = "lock" /\ call[s].stage = "idle"
        /\ UNCHANGED <<out, reading, response, received, accepted, damaged, torn>>
    BY <1>6 DEF Send, Idle, writer, peer
  <2> HIDE DEF c
  <2> QED
    BY <1>4, <2>1, LayoutCall
<1>7. ASSUME NEW s \in Streams, Lock(s)
      PROVE  ~ damaged' /\ Layout(out', reading', response', received', accepted', call')
  <2> DEFINE c == [stage |-> "write", pkt |-> call[s].pkt, off |-> 0]
  <2>1. /\ call' = [call EXCEPT ![s] = c] /\ c.off = 0 /\ call[s].stage = "lock"
        /\ UNCHANGED <<out, reading, response, received, accepted, damaged, torn>>
    BY <1>7 DEF Lock, peer
  <2> HIDE DEF c
  <2> QED
    BY <1>4, <2>1, LayoutCall
<1>8. ASSUME NEW s \in Streams, Write(s)
      PROVE  ~ damaged' /\ Layout(out', reading', response', received', accepted', call')
  <2>1. UNCHANGED <<damaged, torn>>
    BY <1>8 DEF Write, peer
  <2> QED
    BY <1>4, <1>8, <2>1, ReadableWrite
<1>9. ASSUME NEW s \in Streams, WriteStops(s)
      PROVE  ~ damaged' /\ Layout(out', reading', response', received', accepted', call')
  <2> DEFINE c == [stage |-> "unlock", pkt |-> call[s].pkt,
                   ret |-> IF call[s].off = 0 THEN -1 ELSE call[s].off]
  <2>1. /\ call' = [call EXCEPT ![s] = c] /\ c.stage = "unlock" /\ call[s].stage = "write"
        /\ torn' = (torn \/ call[s].off > 0)
        /\ UNCHANGED <<out, reading, response, received, accepted, damaged>>
    BY <1>9 DEF WriteStops, writer, peer
  <2>2. call[s].off \in Nat
    BY <2>1, Stages DEF ReadableIInv, TcpIInv, StreamsOK
  <2>3. ~ torn /\ ~ (call[s].off > 0)
    BY <2>1
  <2>4. call[s].off = 0
    BY <2>2, <2>3
  <2> HIDE DEF c
  <2> QED
    BY <1>4, <2>1, <2>3, <2>4, LayoutCall
<1>10. ASSUME NEW s \in Streams, Unlock(s)
       PROVE  ~ damaged' /\ Layout(out', reading', response', received', accepted', call')
  <2> DEFINE c == [stage |-> "return", pkt |-> call[s].pkt,
                   ret |-> IF call[s].ret = Len(Frame(call[s].pkt)) THEN 0 ELSE -1]
  <2>1. /\ call' = [call EXCEPT ![s] = c] /\ c.stage = "return" /\ call[s].stage = "unlock"
        /\ UNCHANGED <<out, reading, response, received, accepted, damaged, torn>>
    BY <1>10 DEF Unlock, peer
  <2> HIDE DEF c
  <2> QED
    BY <1>4, <2>1, LayoutCall
<1>11. ASSUME NEW s \in Streams, Return(s)
       PROVE  ~ damaged' /\ Layout(out', reading', response', received', accepted', call')
  <2> DEFINE c == Idle
  <2>1. /\ call' = [call EXCEPT ![s] = c] /\ call[s].stage = "return"
        /\ UNCHANGED <<out, reading, response, received, accepted, damaged, torn>>
    BY <1>11 DEF Return, writer, peer
  <2>2. c.stage = "idle"
    BY DEF Idle
  <2> HIDE DEF c
  <2> QED
    BY <1>4, <2>1, <2>2, LayoutCall
<1>12. CASE Respond
  <2>1. UNCHANGED <<damaged, torn>>
    BY <1>12 DEF Respond, peer
  <2> QED
    BY <1>2, <1>4, <1>12, <2>1, ReadableRespond
<1>13. CASE RespondStops
  <2>1. ~ (torn \/ response # 0 \/ response' # 0)
    <3>1. torn' = (torn \/ response # 0 \/ response' # 0)
      BY <1>13 DEF RespondStops
    <3> QED
      BY <3>1
  <2>2. UNCHANGED <<out, reading, received, accepted, call, damaged>>
    BY <1>13 DEF RespondStops, writer, peer
  <2> QED
    BY <1>5, <2>1, <2>2
<1>14. CASE Peer
  <2>1. torn' = torn
    BY <1>14 DEF Peer, PeerFrame, PeerText
  <2> QED
    BY <1>14, <2>1, ReadablePeerFrame, ReadablePeerText DEF Peer
<1>15. CASE UNCHANGED vars
  BY <1>5, <1>15 DEF vars, writer, peer
<1> QED
  BY <1>6, <1>7, <1>8, <1>9, <1>10, <1>11, <1>12, <1>13, <1>14, <1>15 DEF Next, Thread

(* One event loop, or a thread per stream and nobody answering: as long as *)
(* no write stops half-way, the peer tells every message from the next and *)
(* receives each channel's packets whole and in order, for every number of *)
(* streams, packet size and response (tcp.c:54-60, 80-82).                 *)
THEOREM ConnectionIsDecodable ==
  ASSUME "threads" \notin Deployments
  PROVE  Spec => []ConnectionDecodes
<1>1. ASSUME ReadableIInv PROVE ConnectionDecodes
  <2> SUFFICES ASSUME ~ torn, NEW s \in Streams
               PROVE  ~ damaged /\ \E n \in 0 .. Len(accepted[s]) : received[s] = SubSeq(accepted[s], 1, n)
    <3>1. ~ torn => ~ damaged
      BY <1>1 DEF ReadableIInv, Readable
    <3> QED
      BY <3>1 DEF ConnectionDecodes
  <2>1. /\ received \in [Streams -> Seq(Packets)] /\ accepted \in [Streams -> Seq(Packets)]
        /\ damaged = FALSE /\ InOrder(received, accepted)
    BY <1>1, ReadableParts
  <2> DEFINE a == accepted[s]
             b == received[s]
             n == Len(b)
  <2>2. a \in Seq(Packets) /\ b \in Seq(Packets) /\ n <= Len(a) /\ \A i \in 1 .. n : b[i] = a[i]
    BY <2>1 DEF InOrder
  <2> HIDE DEF a, b
  <2>3. n \in Nat /\ n \in 0 .. Len(a)
    BY <2>2
  <2>4. SubSeq(a, 1, n) = [i \in 1 .. n |-> a[1 + i - 1]]
    BY <2>2, <2>3
  <2>5. b = [i \in 1 .. n |-> b[i]]
    BY <2>2
  <2>6. \A i \in 1 .. n : a[1 + i - 1] = b[i]
    <3>1. \A i \in 1 .. n : 1 + i - 1 = i
      BY <2>3
    <3> QED
      BY <2>2, <3>1
  <2>7. b = SubSeq(a, 1, n)
    BY <2>4, <2>5, <2>6
  <2> QED
    BY <2>1, <2>3, <2>7 DEF a, b
<1>2. ReadableIInv /\ [Next]_vars => ReadableIInv'
  BY ReadableStep
<1> QED
  BY <1>1, <1>2, ReadableInit, PTL DEF Spec

-----------------------------------------------------------------------------
(* The parsers: more input does not change what was found.                 *)

(* The same octets and maybe more, not ending in a carriage return. What   *)
(* lies behind either is left open.                                        *)
Extends(some, all) ==
  /\ some.octets \in Seq(Alphabet) /\ all.octets \in Seq(Alphabet)
  /\ Size(some) <= Size(all)
  /\ \A i \in 1 .. Size(some) : all.octets[i] = some.octets[i]
  /\ Size(all) > 0 => all.octets[Size(all)] # "CR"

Places(input) == 1 .. Size(input) + 1

EndsBehind(input, str) ==
  Len(str) <= Size(input) /\ Part(input, Size(input) + 1 - Len(str), Size(input)) = str

(* Where a parser may fail that would not with more input.                 *)
Excused(input, r) ==
  \/ EndsBehind(input, RTSP_SLASH)
  \/ EndsBehind(input, CRLF) /\ r = Failure("HeaderMapOverflow")

(* What a parser found behind p it finds with more input, and it fails as  *)
(* it did, unless it is excused.                                           *)
Stays(input, p, r, later) ==
  /\ r.st = "complete" => later = r /\ r.at \in p .. Size(input) + 1
  /\ r.st = "failure" => later = r \/ Excused(input, r)

(* Both are finite. *)
LEMMA SizeIs ==
  ASSUME NEW some, NEW all, Extends(some, all)
  PROVE  Size(some) \in Nat /\ Size(all) \in Nat
BY LenProperties DEF Extends, Size

(* What completes within the input stays, if it is the same. *)
LEMMA CompleteStays ==
  ASSUME NEW input, Size(input) \in Nat, NEW p \in Nat, NEW q \in p .. Size(input) + 1, NEW x
  PROVE  Stays(input, p, Complete(q, x), Complete(q, x))
BY DEF Stays, Complete

(* And so does a failure, *)
LEMMA FailureStays ==
  ASSUME NEW input, NEW p, NEW e
  PROVE  Stays(input, p, Failure(e), Failure(e))
BY DEF Stays, Failure

(* while a partial result says nothing of what follows. *)
LEMMA PartialStays ==
  ASSUME NEW input, NEW p, NEW r
  PROVE  Stays(input, p, Partial, r)
BY DEF Stays, Partial

(* One parser behind another. *)
LEMMA MatchStays ==
  ASSUME NEW input, Size(input) \in Nat, NEW p \in Nat, NEW r, NEW later, NEW rest, NEW laterRest,
         Stays(input, p, r, later),
         r.st = "complete" => Stays(input, r.at, rest, laterRest)
  PROVE  Stays(input, p, MATCH(r, rest), MATCH(later, laterRest))
<1>1. CASE r.st = "complete"
  <2>1. later = r /\ r.at \in p .. Size(input) + 1
    BY <1>1 DEF Stays
  <2>2. MATCH(r, rest) = rest /\ MATCH(later, laterRest) = laterRest
    BY <1>1, <2>1 DEF MATCH
  <2>3. Stays(input, r.at, rest, laterRest)
    BY <1>1
  <2>4. \A x : x \in r.at .. Size(input) + 1 => x \in p .. Size(input) + 1
    BY <2>1
  <2> QED
    BY <2>2, <2>3, <2>4 DEF Stays
<1>2. CASE r.st # "complete"
  <2>1. MATCH(r, rest) = r
    BY <1>2 DEF MATCH
  <2>2. later = r => MATCH(later, laterRest) = r
    BY <1>2 DEF MATCH
  <2> QED
    BY <1>2, <2>1, <2>2 DEF Stays
<1> QED
  BY <1>1, <1>2

(* Octets that have arrived. *)
LEMMA PartIs ==
  ASSUME NEW some, NEW all, Extends(some, all),
         NEW p \in Nat \ {0}, NEW q \in Int, q <= Size(some)
  PROVE  /\ Part(all, p, q) = Part(some, p, q)
         /\ Part(some, p, q) \in Seq(Alphabet)
         /\ Len(Part(some, p, q)) = IF p <= q THEN q - p + 1 ELSE 0
         /\ \A i \in 1 .. q - p + 1 : Part(some, p, q)[i] = some.octets[p + i - 1]
<1> DEFINE s == some.octets
           t == all.octets
<1>1. \A i \in p .. q : i \in 1 .. Size(some) /\ i \in 1 .. Size(all)
  BY SizeIs DEF Extends
<1>2. s \in Seq(Alphabet) /\ t \in Seq(Alphabet)
  BY DEF Extends
<1>3. \A i \in p .. q : s[i] \in Alphabet /\ t[i] \in Alphabet /\ t[i] = s[i]
  BY <1>1, <1>2, ElementOfSeq DEF Extends, Size
<1> HIDE DEF s, t
<1>4. /\ SubSeq(s, p, q) \in Seq(Alphabet)
      /\ Len(SubSeq(s, p, q)) = IF p <= q THEN q - p + 1 ELSE 0
      /\ \A i \in 1 .. q - p + 1 : SubSeq(s, p, q)[i] = s[p + i - 1]
  BY <1>3, SubSeqProperties
<1>5. /\ SubSeq(t, p, q) \in Seq(Alphabet)
      /\ Len(SubSeq(t, p, q)) = IF p <= q THEN q - p + 1 ELSE 0
      /\ \A i \in 1 .. q - p + 1 : SubSeq(t, p, q)[i] = t[p + i - 1]
  BY <1>3, SubSeqProperties
<1> DEFINE u == SubSeq(s, p, q)
           v == SubSeq(t, p, q)
<1>6. ASSUME NEW i \in 1 .. Len(u) PROVE u[i] = v[i]
  <2>1. i \in 1 .. q - p + 1 /\ p + i - 1 \in p .. q
    BY <1>4
  <2> QED
    BY <1>3, <1>4, <1>5, <2>1
<1>7. u \in Seq(Alphabet) /\ v \in Seq(Alphabet) /\ Len(u) = Len(v)
  BY <1>4, <1>5
<1> HIDE DEF u, v
<1>8. u = v
  BY <1>6, <1>7, SeqEqual
<1> QED
  BY <1>4, <1>8 DEF Part, u, v, s, t

(* A set of numbers has a least one. *)
LEMMA LeastOf ==
  ASSUME NEW S, S \subseteq Nat, S # {}
  PROVE  Min(S) \in S /\ \A y \in S : Min(S) <= y
<1> DEFINE R == OpToRel(<, Nat)
<1>1. PICK x \in S : \A y \in S : ~ (<<y, x>> \in R)
  <2>1. IsWellFoundedOn(R, Nat)
    BY NatLessThanWellFounded, Zenon
  <2> HIDE DEF R
  <2> QED
    BY <2>1, WFMin
<1>2. ASSUME NEW y \in S PROVE x <= y
  <2>1. x \in Nat /\ y \in Nat
    OBVIOUS
  <2>2. ~ (y < x)
    BY <1>1, <2>1, Zenon DEF OpToRel
  <2> QED
    BY <2>1, <2>2
<1> QED
  BY <1>1, <1>2 DEF Min

(* And only one. *)
LEMMA LeastIs ==
  ASSUME NEW S, S \subseteq Nat, NEW x \in S, \A y \in S : x <= y
  PROVE  Min(S) = x
<1>1. Min(S) \in S /\ \A y \in S : Min(S) <= y
  BY LeastOf
<1>2. Min(S) \in Nat /\ x \in Nat /\ Min(S) <= x /\ x <= Min(S)
  BY <1>1
<1> QED
  BY <1>2

(* The lesser of two numbers. *)
LEMMA LeastOfTwo ==
  ASSUME NEW x \in Nat, NEW y \in Nat
  PROVE  Min({x, y}) = IF x <= y THEN x ELSE y
<1>1. {x, y} \subseteq Nat
  OBVIOUS
<1>2. CASE x <= y
  BY <1>1, <1>2, LeastIs
<1>3. CASE ~ (x <= y)
  <2>1. y <= x /\ y <= y
    BY <1>3
  <2> QED
    BY <1>1, <1>3, <2>1, LeastIs
<1> QED
  BY <1>2, <1>3

-----------------------------------------------------------------------------
(* The matchers. *)

(* The octet that ends a run has arrived: more of them change nothing. *)
LEMMA UntilStays ==
  ASSUME NEW some, NEW all, Extends(some, all), NEW p \in Places(some), NEW matcher
  PROVE  LET r == match_until(some, p, matcher)
         IN  /\ Stays(some, p, r, match_until(all, p, matcher))
             /\ r.st = "complete" => r.at \in p .. Size(some)
<1> DEFINE S == {q \in p .. Size(some) : some.octets[q] \notin matcher}
           T == {q \in p .. Size(all) : all.octets[q] \notin matcher}
<1>1. /\ Size(some) \in Nat /\ Size(all) \in Nat /\ Size(some) <= Size(all)
      /\ p \in Nat /\ p >= 1 /\ p <= Size(some) + 1
  BY SizeIs DEF Extends, Places
<1>2. CASE S = {}
  <2>1. match_until(some, p, matcher) = Partial
    BY <1>2 DEF match_until
  <2> QED
    BY <2>1, PartialStays DEF Partial
<1>3. CASE S # {}
  <2>1. S \subseteq Nat /\ T \subseteq Nat
    BY <1>1
  <2> DEFINE m == Min(S)
  <2>2. m \in S /\ \A y \in S : m <= y
    BY <1>3, <2>1, LeastOf
  <2>3. m \in p .. Size(some) /\ some.octets[m] \notin matcher
    BY <2>2
  <2>4. m \in 1 .. Size(some) /\ m \in p .. Size(all)
    BY <1>1, <2>3
  <2>5. m \in T
    BY <2>3, <2>4 DEF Extends
  <2>6. ASSUME NEW y \in T PROVE m <= y
    <3>1. y \in p .. Size(all) /\ all.octets[y] \notin matcher
      OBVIOUS
    <3>2. CASE y <= Size(some)
      <4>1. y \in 1 .. Size(some) /\ y \in p .. Size(some)
        BY <1>1, <3>1, <3>2
      <4>2. y \in S
        BY <3>1, <4>1 DEF Extends
      <4> QED
        BY <2>2, <4>2
    <3>3. CASE y > Size(some)
      BY <1>1, <2>3, <3>1, <3>3
    <3> QED
      BY <1>1, <3>1, <3>2, <3>3
  <2> HIDE DEF m
  <2>7. Min(T) = m /\ T # {}
    BY <2>1, <2>5, <2>6, LeastIs
  <2>8. match_until(some, p, matcher) = Matched(m) /\ match_until(all, p, matcher) = Matched(m)
    BY <1>3, <2>7 DEF match_until, m
  <2>9. m \in p .. Size(some) + 1 /\ p \in Nat /\ Matched(m).at = m
    BY <1>1, <2>3 DEF Matched, Complete
  <2> QED
    BY <1>1, <2>3, <2>8, <2>9, CompleteStays DEF Matched
<1> QED
  BY <1>2, <1>3

(* The first line end is the first with more behind it, too. *)
LEMMA UntilCrlfStays ==
  ASSUME NEW some, NEW all, Extends(some, all), NEW p \in Places(some)
  PROVE  LET r == match_until_crlf(some, p)
         IN  /\ Stays(some, p, r, match_until_crlf(all, p))
             /\ r.st = "complete" => /\ r.at \in p + 2 .. Size(some) + 1
                                     /\ Part(some, r.at - 2, r.at - 1) = CRLF
<1> DEFINE S == {q \in p .. Size(some) - 1 : Part(some, q, q + 1) = CRLF}
           T == {q \in p .. Size(all) - 1 : Part(all, q, q + 1) = CRLF}
<1>1. /\ Size(some) \in Nat /\ Size(all) \in Nat /\ Size(some) <= Size(all)
      /\ p \in Nat /\ p >= 1 /\ p <= Size(some) + 1
  BY SizeIs DEF Extends, Places
<1>2. CASE S = {}
  <2>1. match_until_crlf(some, p) = Partial
    BY <1>2 DEF match_until_crlf
  <2> QED
    BY <2>1, PartialStays DEF Partial
<1>3. CASE S # {}
  <2>1. S \subseteq Nat /\ T \subseteq Nat
    BY <1>1
  <2> DEFINE m == Min(S)
  <2>2. m \in S /\ \A y \in S : m <= y
    BY <1>3, <2>1, LeastOf
  <2>3. m \in p .. Size(some) - 1 /\ Part(some, m, m + 1) = CRLF
    BY <2>2
  <2>4. \A q \in p .. Size(some) - 1 : Part(all, q, q + 1) = Part(some, q, q + 1)
    <3> TAKE q \in p .. Size(some) - 1
    <3>1. q \in Nat \ {0} /\ q + 1 \in Int /\ q + 1 <= Size(some)
      BY <1>1
    <3> QED
      BY <3>1, PartIs
  <2>5. m \in T
    BY <1>1, <2>3, <2>4
  <2>6. ASSUME NEW y \in T PROVE m <= y
    <3>1. y \in p .. Size(all) - 1 /\ Part(all, y, y + 1) = CRLF
      OBVIOUS
    <3>2. CASE y < Size(some)
      <4>1. y \in p .. Size(some) - 1
        BY <1>1, <3>1, <3>2
      <4>2. y \in S
        BY <2>4, <3>1, <4>1
      <4> QED
        BY <2>2, <4>2
    <3>3. CASE y >= Size(some)
      BY <1>1, <2>3, <3>1, <3>3
    <3> QED
      BY <1>1, <3>1, <3>2, <3>3
  <2> HIDE DEF m
  <2>7. Min(T) = m /\ T # {}
    BY <2>1, <2>5, <2>6, LeastIs
  <2>8. match_until_crlf(some, p) = Matched(m + 2) /\ match_until_crlf(all, p) = Matched(m + 2)
    BY <1>3, <2>7 DEF match_until_crlf, m
  <2>9. /\ m + 2 \in p + 2 .. Size(some) + 1 /\ m + 2 \in p .. Size(some) + 1
        /\ p \in Nat /\ Matched(m + 2).at = m + 2
        /\ (m + 2) - 2 = m /\ (m + 2) - 1 = m + 1
    BY <1>1, <2>3 DEF Matched, Complete
  <2>10. Stays(some, p, Matched(m + 2), Matched(m + 2))
    BY <1>1, <2>9, CompleteStays DEF Matched
  <2> QED
    BY <2>3, <2>8, <2>9, <2>10
<1> QED
  BY <1>2, <1>3

(* The first octets of a sequence. *)
LEMMA FirstOnes ==
  ASSUME NEW S, NEW s \in Seq(S), NEW i \in 0 .. Len(s)
  PROVE  /\ SubSeq(s, 1, i) \in Seq(S) /\ Len(SubSeq(s, 1, i)) = i
         /\ \A k \in 1 .. i : SubSeq(s, 1, i)[k] = s[k]
<1>1. Len(s) \in Nat /\ i \in Int /\ 1 \in Int /\ i - 1 + 1 = i
      /\ (IF 1 <= i THEN i - 1 + 1 ELSE 0) = i
  BY LenProperties
<1>2. \A k \in 1 .. i : s[k] \in S
  BY <1>1, ElementOfSeq
<1>3. /\ SubSeq(s, 1, i) \in Seq(S)
      /\ Len(SubSeq(s, 1, i)) = IF 1 <= i THEN i - 1 + 1 ELSE 0
      /\ \A k \in 1 .. i - 1 + 1 : SubSeq(s, 1, i)[k] = s[1 + k - 1]
  BY <1>1, <1>2, SubSeqProperties
<1>4. \A k \in 1 .. i : 1 + k - 1 = k
  BY <1>1
<1> QED
  BY <1>1, <1>3, <1>4

(* A string, found or not. *)
LEMMA StrStays ==
  ASSUME NEW some, NEW all, Extends(some, all), NEW p \in Places(some),
         NEW S, NEW str \in Seq(S)
  PROVE  LET r == match_str(some, p, str)
         IN  /\ Stays(some, p, r, match_str(all, p, str))
             /\ r.st = "complete" => /\ r.at = p + Len(str)
                                     /\ Part(some, p, r.at - 1) = str
<1> DEFINE n == Len(str)
           i == Min({Size(some) + 1 - p, n})
           j == Min({Size(all) + 1 - p, n})
<1>1. /\ Size(some) \in Nat /\ Size(all) \in Nat /\ Size(some) <= Size(all)
      /\ p \in Nat /\ p >= 1 /\ p <= Size(some) + 1 /\ n \in Nat
  BY SizeIs, LenProperties DEF Extends, Places
<1> HIDE DEF n
<1>2. i = IF Size(some) + 1 - p <= n THEN Size(some) + 1 - p ELSE n
  BY <1>1, LeastOfTwo
<1>3. j = IF Size(all) + 1 - p <= n THEN Size(all) + 1 - p ELSE n
  BY <1>1, LeastOfTwo
<1> HIDE DEF i, j
<1> DEFINE c == Size(some)
           d == Size(all)
<1> HIDE DEF c, d
<1>4. i \in Nat /\ j \in Nat /\ i <= j /\ j <= n /\ p + i - 1 <= Size(some) /\ p + j - 1 <= Size(all)
  <2>1. /\ c \in Nat /\ d \in Nat /\ c <= d /\ p \in Nat /\ p >= 1 /\ p <= c + 1 /\ n \in Nat
        /\ i = (IF c + 1 - p <= n THEN c + 1 - p ELSE n)
        /\ j = (IF d + 1 - p <= n THEN d + 1 - p ELSE n)
    BY <1>1, <1>2, <1>3 DEF c, d
  <2>2. i \in Nat /\ j \in Nat /\ i <= j /\ j <= n /\ p + i - 1 <= c /\ p + j - 1 <= d
    BY <2>1
  <2> QED
    BY <2>2 DEF c, d
<1>5. CASE Part(some, p, p + i - 1) # SubSeq(str, 1, i)
  <2>1. match_str(some, p, str) = Failure("StrMismatch")
    BY <1>5 DEF match_str, i, n
  <2>2. Part(all, p, p + j - 1) # SubSeq(str, 1, j)
    <3> SUFFICES ASSUME Part(all, p, p + j - 1) = SubSeq(str, 1, j)
                 PROVE  Part(some, p, p + i - 1) = SubSeq(str, 1, i)
      BY <1>5
    <3>1. /\ Part(some, p, p + i - 1) \in Seq(Alphabet)
          /\ Len(Part(some, p, p + i - 1)) = i
          /\ \A k \in 1 .. i : Part(some, p, p + i - 1)[k] = some.octets[p + k - 1]
      <4> DEFINE e == p + i - 1
      <4>1. /\ p \in Nat \ {0} /\ e \in Int /\ e <= Size(some) /\ e - p + 1 = i
            /\ (IF p <= e THEN e - p + 1 ELSE 0) = i
        BY <1>1, <1>4
      <4> HIDE DEF e
      <4>2. /\ Part(some, p, e) \in Seq(Alphabet)
            /\ Len(Part(some, p, e)) = IF p <= e THEN e - p + 1 ELSE 0
            /\ \A k \in 1 .. e - p + 1 : Part(some, p, e)[k] = some.octets[p + k - 1]
        BY <4>1, PartIs
      <4> QED
        BY <4>1, <4>2 DEF e
    <3>2. /\ SubSeq(str, 1, i) \in Seq(S) /\ Len(SubSeq(str, 1, i)) = i
          /\ \A k \in 1 .. i : SubSeq(str, 1, i)[k] = str[k]
      <4>1. i \in 0 .. Len(str)
        BY <1>1, <1>4 DEF n
      <4> QED
        BY <4>1, FirstOnes
    <3>3. \A k \in 1 .. j : SubSeq(str, 1, j)[k] = str[k]
      <4>1. j \in 0 .. Len(str)
        BY <1>1, <1>4 DEF n
      <4> QED
        BY <4>1, FirstOnes
    <3>4. \A k \in 1 .. j : Part(all, p, p + j - 1)[k] = all.octets[p + k - 1]
      <4> DEFINE e == p + j - 1
                 o == all.octets
      <4>1. p \in Int /\ e \in Int /\ e - p + 1 = j
        BY <1>1, <1>4
      <4>2. \A k \in p .. e : k \in 1 .. Size(all)
        BY <1>1, <1>4
      <4>3. \A k \in p .. e : o[k] \in Alphabet
        BY <4>2, ElementOfSeq DEF Extends, Size
      <4> HIDE DEF e, o
      <4>4. \A k \in 1 .. e - p + 1 : SubSeq(o, p, e)[k] = o[p + k - 1]
        BY <4>1, <4>3, SubSeqProperties
      <4> QED
        BY <4>1, <4>4 DEF Part, e, o
    <3>5. \A k \in 1 .. i : Part(some, p, p + i - 1)[k] = SubSeq(str, 1, i)[k]
      <4> TAKE k \in 1 .. i
      <4>1. k \in 1 .. j /\ p + k - 1 \in 1 .. Size(some)
        BY <1>1, <1>4
      <4>2. all.octets[p + k - 1] = some.octets[p + k - 1]
        BY <4>1 DEF Extends
      <4> QED
        BY <3>1, <3>2, <3>3, <3>4, <4>1, <4>2
    <3> DEFINE u == Part(some, p, p + i - 1)
               v == SubSeq(str, 1, i)
    <3>6. u \in Seq(Alphabet \cup S) /\ v \in Seq(Alphabet \cup S) /\ Len(u) = Len(v)
      BY <3>1, <3>2, SeqMonotonic
    <3>7. \A k \in 1 .. Len(u) : u[k] = v[k]
      BY <3>1, <3>5
    <3> HIDE DEF u, v
    <3>8. u = v
      BY <3>6, <3>7, SeqEqual
    <3> QED
      BY <3>8 DEF u, v
  <2>3. match_str(all, p, str) = Failure("StrMismatch")
    BY <2>2 DEF match_str, j, n
  <2> QED
    BY <2>1, <2>3, FailureStays DEF Failure
<1>6. CASE Part(some, p, p + i - 1) = SubSeq(str, 1, i) /\ i < n
  <2>1. match_str(some, p, str) = Partial
    BY <1>6 DEF match_str, i, n
  <2> QED
    BY <2>1, PartialStays DEF Partial
<1>7. CASE Part(some, p, p + i - 1) = SubSeq(str, 1, i) /\ ~ (i < n)
  <2>1. i = n /\ j = n
    BY <1>1, <1>4, <1>7
  <2>2. SubSeq(str, 1, n) = str
    BY SubSeqFull DEF n
  <2>3. match_str(some, p, str) = Matched(p + n)
    BY <1>7 DEF match_str, i, n
  <2>4. Part(all, p, p + n - 1) = Part(some, p, p + n - 1)
    BY <1>1, <1>4, <2>1, PartIs
  <2>5. match_str(all, p, str) = Matched(p + n)
    BY <1>1, <1>7, <2>1, <2>4 DEF match_str, j, n
  <2>6. p + n \in p .. Size(some) + 1 /\ Matched(p + n).at = p + n /\ (p + n) - 1 = p + n - 1
    BY <1>1, <1>4, <2>1 DEF Matched, Complete
  <2>7. Stays(some, p, Matched(p + n), Matched(p + n))
    BY <1>1, <2>6, CompleteStays DEF Matched
  <2>8. Part(some, p, p + n - 1) = str
    BY <1>7, <2>1, <2>2
  <2> QED
    BY <2>3, <2>5, <2>6, <2>7, <2>8 DEF n
<1> QED
  BY <1>5, <1>6, <1>7

(* The first octet has arrived, or it is looked at too early.              *)
LEMMA TypeStays ==
  ASSUME NEW some, NEW all, Extends(some, all), NEW p \in Places(some), NEW matcher,
         p <= Size(some) \/ EndsBehind(some, RTSP_SLASH)
  PROVE  LET r == match_type(some, p, matcher)
         IN  /\ Stays(some, p, r, match_type(all, p, matcher))
             /\ r.st = "complete" => r.at \in p .. Size(some)
<1>1. /\ Size(some) \in Nat /\ Size(all) \in Nat /\ Size(some) <= Size(all)
      /\ p \in Nat /\ p >= 1 /\ p <= Size(some) + 1
  BY SizeIs DEF Extends, Places
<1> DEFINE until(x) == match_until(x, p, matcher)
<1>2. Stays(some, p, until(some), until(all))
      /\ (until(some).st = "complete" => until(some).at \in p .. Size(some))
  BY UntilStays
<1> HIDE DEF until
<1>3. CASE p <= Size(some)
  <2>1. all.octets[p] = some.octets[p] /\ p <= Size(all)
    BY <1>1, <1>3 DEF Extends
  <2>2. CASE some.octets[p] \in matcher
    <3>1. match_type(some, p, matcher) = until(some) /\ match_type(all, p, matcher) = until(all)
      BY <1>3, <2>1, <2>2 DEF match_type, until
    <3> QED
      BY <1>2, <3>1
  <2>3. CASE some.octets[p] \notin matcher
    <3>1. /\ match_type(some, p, matcher) = Failure("TypeMismatch")
          /\ match_type(all, p, matcher) = Failure("TypeMismatch")
      BY <1>3, <2>1, <2>3 DEF match_type
    <3> QED
      BY <3>1, FailureStays DEF Failure
  <2> QED
    BY <2>2, <2>3
<1>4. CASE p > Size(some)
  <2>1. until(some) = Partial
    <3>1. {q \in p .. Size(some) : some.octets[q] \notin matcher} = {}
      BY <1>1, <1>4
    <3> QED
      BY <3>1 DEF until, match_until
  <2>2. match_type(some, p, matcher) \in {Partial, Failure("TypeMismatch")}
    BY <2>1 DEF match_type, until
  <2>3. match_type(some, p, matcher).st # "complete" /\ Excused(some, match_type(some, p, matcher))
    BY <1>1, <1>4, <2>2 DEF Partial, Failure, Excused
  <2> QED
    BY <2>3 DEF Stays
<1> QED
  BY <1>1, <1>3, <1>4

-----------------------------------------------------------------------------
(* The parts of a message. *)

(* A place behind another. *)
LEMMA PlaceIs ==
  ASSUME NEW some, NEW all, Extends(some, all), NEW p \in Places(some),
         NEW q \in p .. Size(some) + 1
  PROVE  q \in Places(some) /\ q \in Nat \ {0} /\ q - 1 <= Size(some) /\ Size(some) \in Nat
BY SizeIs DEF Places

(* The octets between two places. *)
LEMMA ItemStays ==
  ASSUME NEW some, NEW all, Extends(some, all), NEW p \in Places(some),
         NEW q \in p .. Size(some) + 1, NEW n \in Nat \ {0}
  PROVE  Part(all, p, q - n) = Part(some, p, q - n)
<1> DEFINE e == q - n
<1>1. Size(some) \in Nat
  BY SizeIs
<1>2. p \in Nat \ {0} /\ e \in Int /\ e <= Size(some)
  BY <1>1 DEF Places
<1> HIDE DEF e
<1>3. Part(all, p, e) = Part(some, p, e)
  BY ONLY Extends(some, all), <1>2, PartIs
<1> QED
  BY <1>3 DEF e

(* Its octets have arrived, and one that is none of them. *)
LEMMA MethodStays ==
  ASSUME NEW some, NEW all, Extends(some, all), NEW p \in Places(some)
  PROVE  Stays(some, p, Method_parse(some, p), Method_parse(all, p))
<1> DEFINE a == match_whitespaces(some, p)
           b == match_ident(some, a.at)
           c == Complete(b.at, Part(some, a.at, b.at - 1))
           a2 == match_whitespaces(all, p)
           b2 == match_ident(all, a2.at)
           c2 == Complete(b2.at, Part(all, a2.at, b2.at - 1))
<1>1. Stays(some, p, a, a2) /\ (a.st = "complete" => a.at \in p .. Size(some))
  BY UntilStays DEF match_whitespaces
<1>2. Method_parse(some, p) = MATCH(a, MATCH(b, c))
      /\ Method_parse(all, p) = MATCH(a2, MATCH(b2, c2))
  BY DEF Method_parse
<1>3. ASSUME a.st = "complete" PROVE Stays(some, a.at, MATCH(b, c), MATCH(b2, c2))
  <2> DEFINE q == a.at
  <2>1. a2 = a /\ q \in p .. Size(some) + 1 /\ q <= Size(some)
    BY <1>1, <1>3 DEF Stays
  <2>2. q \in Places(some) /\ q \in Nat \ {0} /\ Size(some) \in Nat
    BY <2>1, PlaceIs
  <2>3. a2.at = q
    BY <2>1
  <2>4. b = match_ident(some, q) /\ b2 = match_ident(all, q)
    BY <2>3
  <2>5. Stays(some, q, b, b2)
    BY <2>1, <2>2, <2>4, TypeStays DEF match_ident
  <2>6. ASSUME b.st = "complete" PROVE Stays(some, b.at, c, c2)
    <3>1. b2 = b /\ b.at \in q .. Size(some) + 1
      BY <2>5, <2>6 DEF Stays
    <3>2. b.at \in Places(some) /\ b.at \in Nat \ {0} /\ b.at \in b.at .. Size(some) + 1
      BY <2>2, <3>1, PlaceIs DEF Places
    <3>3. Part(all, q, b.at - 1) = Part(some, q, b.at - 1)
      BY <2>2, <3>1, ItemStays, 1 \in Nat \ {0}
    <3>4. c2 = c
      BY <2>3, <3>1, <3>3
    <3> QED
      BY <2>2, <3>2, <3>4, CompleteStays
  <2> HIDE DEF b, c, b2, c2, q
  <2>7. Stays(some, q, MATCH(b, c), MATCH(b2, c2))
    BY <2>2, <2>5, <2>6, MatchStays
  <2> QED
    BY <2>7 DEF q
<1>4. Size(some) \in Nat /\ p \in Nat
  BY SizeIs DEF Places
<1> HIDE DEF a, b, c, a2, b2, c2
<1> QED
  BY <1>1, <1>2, <1>3, <1>4, MatchStays

(* The same for the URI. *)
LEMMA UriStays ==
  ASSUME NEW some, NEW all, Extends(some, all), NEW p \in Places(some)
  PROVE  Stays(some, p, RequestUri_parse(some, p), RequestUri_parse(all, p))
<1> DEFINE a == match_whitespaces(some, p)
           b == match_non_whitespaces(some, a.at)
           c == Complete(b.at, Part(some, a.at, b.at - 1))
           a2 == match_whitespaces(all, p)
           b2 == match_non_whitespaces(all, a2.at)
           c2 == Complete(b2.at, Part(all, a2.at, b2.at - 1))
<1>1. Stays(some, p, a, a2)
  BY UntilStays DEF match_whitespaces
<1>2. RequestUri_parse(some, p) = MATCH(a, MATCH(b, c))
      /\ RequestUri_parse(all, p) = MATCH(a2, MATCH(b2, c2))
  BY DEF RequestUri_parse
<1>3. ASSUME a.st = "complete" PROVE Stays(some, a.at, MATCH(b, c), MATCH(b2, c2))
  <2> DEFINE q == a.at
  <2>1. a2 = a /\ q \in p .. Size(some) + 1
    BY <1>1, <1>3 DEF Stays
  <2>2. q \in Places(some) /\ q \in Nat \ {0} /\ Size(some) \in Nat
    BY <2>1, PlaceIs
  <2>3. a2.at = q
    BY <2>1
  <2>4. b = match_non_whitespaces(some, q) /\ b2 = match_non_whitespaces(all, q)
    BY <2>3
  <2>5. Stays(some, q, b, b2)
    BY <2>2, <2>4, UntilStays DEF match_non_whitespaces
  <2>6. ASSUME b.st = "complete" PROVE Stays(some, b.at, c, c2)
    <3>1. b2 = b /\ b.at \in q .. Size(some) + 1
      BY <2>5, <2>6 DEF Stays
    <3>2. b.at \in Places(some) /\ b.at \in Nat \ {0} /\ b.at \in b.at .. Size(some) + 1
      BY <2>2, <3>1, PlaceIs DEF Places
    <3>3. Part(all, q, b.at - 1) = Part(some, q, b.at - 1)
      BY <2>2, <3>1, ItemStays, 1 \in Nat \ {0}
    <3>4. c2 = c
      BY <2>3, <3>1, <3>3
    <3> QED
      BY <2>2, <3>2, <3>4, CompleteStays
  <2> HIDE DEF b, c, b2, c2, q
  <2>7. Stays(some, q, MATCH(b, c), MATCH(b2, c2))
    BY <2>2, <2>5, <2>6, MatchStays
  <2> QED
    BY <2>7 DEF q
<1>4. Size(some) \in Nat /\ p \in Nat
  BY SizeIs DEF Places
<1> HIDE DEF a, b, c, a2, b2, c2
<1> QED
  BY <1>1, <1>2, <1>3, <1>4, MatchStays

(* Behind "RTSP/" an octet is looked at that may not have arrived.         *)
LEMMA VersionStays ==
  ASSUME NEW some, NEW all, Extends(some, all), NEW p \in Places(some)
  PROVE  Stays(some, p, RtspVersion_parse(some, p), RtspVersion_parse(all, p))
<1> DEFINE A(x) == match_whitespaces(x, p)
           B(x) == match_str(x, A(x).at, RTSP_SLASH)
           M(x) == match_numeric(x, B(x).at)
           C(x) == match_char(x, M(x).at, ".")
           N(x) == match_numeric(x, C(x).at)
           Numbers(x) == <<parse_uint(Part(x, B(x).at, M(x).at - 1), UINT8_MAX),
                           parse_uint(Part(x, C(x).at, N(x).at - 1), UINT8_MAX)>>
           E(x) == IF Numbers(x)[1] = -1 \/ Numbers(x)[2] = -1 THEN Failure("TypeMismatch")
                   ELSE Matched(N(x).at)
           a == A(some)
           b == B(some)
           m == M(some)
           c == C(some)
           n == N(some)
           e == E(some)
           a2 == A(all)
           b2 == B(all)
           m2 == M(all)
           c2 == C(all)
           n2 == N(all)
           e2 == E(all)
<1>1. Stays(some, p, a, a2)
  BY UntilStays DEF match_whitespaces
<1>2. /\ RtspVersion_parse(some, p) = MATCH(a, MATCH(b, MATCH(m, MATCH(c, MATCH(n, e)))))
      /\ RtspVersion_parse(all, p) = MATCH(a2, MATCH(b2, MATCH(m2, MATCH(c2, MATCH(n2, e2)))))
  BY DEF RtspVersion_parse
<1>3. Size(some) \in Nat /\ p \in Nat
  BY SizeIs DEF Places
<1>4. \A q \in Places(some) : Stays(some, q, match_str(some, q, RTSP_SLASH), match_str(all, q, RTSP_SLASH))
      /\ (match_str(some, q, RTSP_SLASH).st = "complete" =>
             /\ match_str(some, q, RTSP_SLASH).at = q + 5
             /\ Part(some, q, match_str(some, q, RTSP_SLASH).at - 1) = RTSP_SLASH)
  <2>1. RTSP_SLASH \in Seq({"R", "T", "S", "P", "/"})
    BY DEF RTSP_SLASH
  <2>2. Len(RTSP_SLASH) = 5
    BY DEF RTSP_SLASH
  <2> HIDE DEF A, B, M, C, N, E, a, b, m, c, n, e, a2, b2, m2, c2, n2, e2
  <2> TAKE q \in Places(some)
  <2>3. /\ Stays(some, q, match_str(some, q, RTSP_SLASH), match_str(all, q, RTSP_SLASH))
        /\ match_str(some, q, RTSP_SLASH).st = "complete" =>
             /\ match_str(some, q, RTSP_SLASH).at = q + Len(RTSP_SLASH)
             /\ Part(some, q, match_str(some, q, RTSP_SLASH).at - 1) = RTSP_SLASH
    BY <2>1, StrStays
  <2> QED
    BY <2>2, <2>3
<1>5. ASSUME a.st = "complete"
      PROVE  /\ a2 = a /\ a.at \in Places(some) /\ a.at \in Nat \ {0}
             /\ Stays(some, a.at, b, b2)
             /\ b.st = "complete" => b.at = a.at + 5 /\ Part(some, a.at, b.at - 1) = RTSP_SLASH
  <2>1. a2 = a /\ a.at \in p .. Size(some) + 1
    BY <1>1, <1>5 DEF Stays
  <2>2. a.at \in Places(some) /\ a.at \in Nat \ {0}
    BY <2>1, PlaceIs
  <2>3. b = match_str(some, a.at, RTSP_SLASH) /\ b2 = match_str(all, a.at, RTSP_SLASH)
    BY <2>1
  <2> HIDE DEF a, b, a2, b2
  <2> QED
    BY <1>4, <2>1, <2>2, <2>3
<1>6. ASSUME a.st = "complete", b.st = "complete"
      PROVE  /\ b2 = b /\ b.at \in Places(some) /\ b.at \in Nat \ {0}
             /\ Stays(some, b.at, m, m2)
             /\ m.st = "complete" => m.at <= Size(some)
  <2>1. b2 = b /\ b.at \in a.at .. Size(some) + 1 /\ a.at \in Places(some) /\ a.at \in Nat \ {0}
    BY <1>5, <1>6 DEF Stays
  <2>2. b.at \in Places(some) /\ b.at \in Nat \ {0}
    BY <2>1, PlaceIs
  <2>3. m = match_numeric(some, b.at) /\ m2 = match_numeric(all, b.at)
    BY <2>1
  <2>4. b.at <= Size(some) \/ EndsBehind(some, RTSP_SLASH)
    <3>1. b.at = a.at + 5 /\ Part(some, a.at, b.at - 1) = RTSP_SLASH
      BY <1>5, <1>6
    <3>2. Len(RTSP_SLASH) = 5
      BY DEF RTSP_SLASH
    <3> HIDE DEF a, b
    <3>3. b.at <= Size(some) \/ b.at = Size(some) + 1
      BY <1>3, <2>1, <2>2
    <3>4. CASE b.at = Size(some) + 1
      <4>1. Size(some) + 1 - 5 = a.at /\ b.at - 1 = Size(some) /\ 5 <= Size(some)
        BY <1>3, <2>1, <3>1, <3>4
      <4> QED
        BY <3>1, <3>2, <4>1 DEF EndsBehind
    <3> QED
      BY <3>3, <3>4
  <2> HIDE DEF a, b, a2, b2, m, m2
  <2> QED
    BY <1>3, <2>1, <2>2, <2>3, <2>4, TypeStays DEF match_numeric
<1>7. ASSUME a.st = "complete", b.st = "complete", m.st = "complete"
      PROVE  /\ m2 = m /\ m.at \in Places(some) /\ m.at \in Nat \ {0}
             /\ m.at \in b.at .. Size(some) + 1
             /\ Stays(some, m.at, c, c2)
             /\ c.st = "complete" => c.at <= Size(some)
  <2>1. m2 = m /\ m.at \in b.at .. Size(some) + 1 /\ b.at \in Places(some)
    BY <1>6, <1>7 DEF Stays
  <2>2. m.at \in Places(some) /\ m.at \in Nat \ {0}
    BY <2>1, PlaceIs
  <2>3. c = match_until(some, m.at, {"."}) /\ c2 = match_until(all, m.at, {"."})
    BY <2>1 DEF match_char
  <2> HIDE DEF a, b, a2, b2, m, m2, c, c2
  <2> QED
    BY <1>3, <2>1, <2>2, <2>3, UntilStays
<1>8. ASSUME a.st = "complete", b.st = "complete", m.st = "complete", c.st = "complete"
      PROVE  /\ c2 = c /\ c.at \in Places(some) /\ c.at \in Nat \ {0}
             /\ Stays(some, c.at, n, n2)
  <2>1. c2 = c /\ c.at \in m.at .. Size(some) + 1 /\ m.at \in Places(some) /\ c.at <= Size(some)
    BY <1>7, <1>8 DEF Stays
  <2>2. c.at \in Places(some) /\ c.at \in Nat \ {0}
    BY <2>1, PlaceIs
  <2>3. n = match_numeric(some, c.at) /\ n2 = match_numeric(all, c.at)
    BY <2>1
  <2> HIDE DEF a, b, a2, b2, m, m2, c, c2, n, n2
  <2> QED
    BY <1>3, <2>1, <2>2, <2>3, TypeStays DEF match_numeric
<1>9. ASSUME a.st = "complete", b.st = "complete", m.st = "complete", c.st = "complete",
             n.st = "complete"
      PROVE  Stays(some, n.at, e, e2)
  <2>1. n2 = n /\ n.at \in c.at .. Size(some) + 1 /\ c.at \in Places(some)
    BY <1>8, <1>9 DEF Stays
  <2>2. n.at \in Nat /\ n.at \in n.at .. Size(some) + 1
    <3> HIDE DEF n, c
    <3> QED
      BY <1>3, <2>1, PlaceIs DEF Places
  <2>3. b2 = b /\ m2 = m /\ c2 = c /\ b.at \in Places(some) /\ m.at \in b.at .. Size(some) + 1
    BY <1>6, <1>7, <1>8, <1>9
  <2>4. /\ Part(all, b.at, m.at - 1) = Part(some, b.at, m.at - 1)
        /\ Part(all, c.at, n.at - 1) = Part(some, c.at, n.at - 1)
    <3>1. 1 \in Nat \ {0}
      OBVIOUS
    <3> HIDE DEF b, m, c, n
    <3>2. Part(all, b.at, m.at - 1) = Part(some, b.at, m.at - 1)
      BY <2>3, <3>1, ItemStays
    <3>3. Part(all, c.at, n.at - 1) = Part(some, c.at, n.at - 1)
      BY <2>1, <3>1, ItemStays
    <3> QED
      BY <3>2, <3>3
  <2>5. e2 = e
    <3>1. Numbers(all) = Numbers(some)
      BY <2>1, <2>3, <2>4
    <3> HIDE DEF Numbers
    <3> QED
      BY <2>1, <3>1
  <2>6. e = Failure("TypeMismatch") \/ e = Complete(n.at, << >>)
    BY DEF Matched
  <2> HIDE DEF n, e, e2
  <2> QED
    BY <1>3, <2>2, <2>5, <2>6, CompleteStays, FailureStays
<1> HIDE DEF A, B, M, C, N, E, a, b, m, c, n, e, a2, b2, m2, c2, n2, e2
<1>10. ASSUME a.st = "complete", b.st = "complete", m.st = "complete", c.st = "complete"
       PROVE  Stays(some, c.at, MATCH(n, e), MATCH(n2, e2))
  BY <1>3, <1>8, <1>9, <1>10, MatchStays
<1>11. ASSUME a.st = "complete", b.st = "complete", m.st = "complete"
       PROVE  Stays(some, m.at, MATCH(c, MATCH(n, e)), MATCH(c2, MATCH(n2, e2)))
  BY <1>3, <1>7, <1>10, <1>11, MatchStays
<1>12. ASSUME a.st = "complete", b.st = "complete"
       PROVE  Stays(some, b.at, MATCH(m, MATCH(c, MATCH(n, e))), MATCH(m2, MATCH(c2, MATCH(n2, e2))))
  BY <1>3, <1>6, <1>11, <1>12, MatchStays
<1>13. ASSUME a.st = "complete"
       PROVE  Stays(some, a.at, MATCH(b, MATCH(m, MATCH(c, MATCH(n, e)))),
                                MATCH(b2, MATCH(m2, MATCH(c2, MATCH(n2, e2)))))
  BY <1>3, <1>5, <1>12, <1>13, MatchStays
<1> QED
  BY <1>1, <1>2, <1>3, <1>13, MatchStays

(* And for the status code. *)
LEMMA StatusCodeStays ==
  ASSUME NEW some, NEW all, Extends(some, all), NEW p \in Places(some)
  PROVE  Stays(some, p, StatusCode_parse(some, p), StatusCode_parse(all, p))
<1> DEFINE a == match_whitespaces(some, p)
           b == match_numeric(some, a.at)
           c == IF parse_uint(Part(some, a.at, b.at - 1), UINT16_MAX) = -1 THEN Failure("TypeMismatch")
                 ELSE Complete(b.at, Part(some, a.at, b.at - 1))
           a2 == match_whitespaces(all, p)
           b2 == match_numeric(all, a2.at)
           c2 == IF parse_uint(Part(all, a2.at, b2.at - 1), UINT16_MAX) = -1 THEN Failure("TypeMismatch")
                 ELSE Complete(b2.at, Part(all, a2.at, b2.at - 1))
<1>1. Stays(some, p, a, a2) /\ (a.st = "complete" => a.at \in p .. Size(some))
  BY UntilStays DEF match_whitespaces
<1>2. StatusCode_parse(some, p) = MATCH(a, MATCH(b, c))
      /\ StatusCode_parse(all, p) = MATCH(a2, MATCH(b2, c2))
  BY DEF StatusCode_parse
<1>3. ASSUME a.st = "complete" PROVE Stays(some, a.at, MATCH(b, c), MATCH(b2, c2))
  <2> DEFINE q == a.at
  <2>1. a2 = a /\ q \in p .. Size(some) + 1 /\ q <= Size(some)
    BY <1>1, <1>3 DEF Stays
  <2>2. q \in Places(some) /\ q \in Nat \ {0} /\ Size(some) \in Nat
    BY <2>1, PlaceIs
  <2>3. a2.at = q
    BY <2>1
  <2>4. b = match_numeric(some, q) /\ b2 = match_numeric(all, q)
    BY <2>3
  <2>5. Stays(some, q, b, b2)
    BY <2>1, <2>2, <2>4, TypeStays DEF match_numeric
  <2>6. ASSUME b.st = "complete" PROVE Stays(some, b.at, c, c2)
    <3>1. b2 = b /\ b.at \in q .. Size(some) + 1
      BY <2>5, <2>6 DEF Stays
    <3>2. b.at \in Places(some) /\ b.at \in Nat \ {0} /\ b.at \in b.at .. Size(some) + 1
      BY <2>2, <3>1, PlaceIs DEF Places
    <3>3. Part(all, q, b.at - 1) = Part(some, q, b.at - 1)
      BY <2>2, <3>1, ItemStays, 1 \in Nat \ {0}
    <3>4. c2 = c
      BY <2>3, <3>1, <3>3
    <3>5. PICK x : c = Failure("TypeMismatch") \/ c = Complete(b.at, x)
      OBVIOUS
    <3> QED
      BY <2>2, <3>2, <3>4, <3>5, CompleteStays, FailureStays
  <2> HIDE DEF b, c, b2, c2, q
  <2>7. Stays(some, q, MATCH(b, c), MATCH(b2, c2))
    BY <2>2, <2>5, <2>6, MatchStays
  <2> QED
    BY <2>7 DEF q
<1>4. Size(some) \in Nat /\ p \in Nat
  BY SizeIs DEF Places
<1> HIDE DEF a, b, c, a2, b2, c2
<1> QED
  BY <1>1, <1>2, <1>3, <1>4, MatchStays

(* The rest of the line, which has ended. *)
LEMMA ReasonPhraseStays ==
  ASSUME NEW some, NEW all, Extends(some, all), NEW p \in Places(some)
  PROVE  Stays(some, p, ReasonPhrase_parse(some, p), ReasonPhrase_parse(all, p))
<1> DEFINE a == match_whitespaces(some, p)
           b == match_until_crlf(some, a.at)
           c == Complete(b.at, Part(some, a.at, b.at - 3))
           a2 == match_whitespaces(all, p)
           b2 == match_until_crlf(all, a2.at)
           c2 == Complete(b2.at, Part(all, a2.at, b2.at - 3))
<1>1. Stays(some, p, a, a2) /\ (a.st = "complete" => a.at \in p .. Size(some))
  BY UntilStays DEF match_whitespaces
<1>2. ReasonPhrase_parse(some, p) = MATCH(a, MATCH(b, c))
      /\ ReasonPhrase_parse(all, p) = MATCH(a2, MATCH(b2, c2))
  BY DEF ReasonPhrase_parse
<1>3. ASSUME a.st = "complete" PROVE Stays(some, a.at, MATCH(b, c), MATCH(b2, c2))
  <2> DEFINE q == a.at
  <2>1. a2 = a /\ q \in p .. Size(some) + 1 /\ q <= Size(some)
    BY <1>1, <1>3 DEF Stays
  <2>2. q \in Places(some) /\ q \in Nat \ {0} /\ Size(some) \in Nat
    BY <2>1, PlaceIs
  <2>3. a2.at = q
    BY <2>1
  <2>4. b = match_until_crlf(some, q) /\ b2 = match_until_crlf(all, q)
    BY <2>3
  <2>5. Stays(some, q, b, b2)
    BY <2>1, <2>2, <2>4, UntilCrlfStays
  <2>6. ASSUME b.st = "complete" PROVE Stays(some, b.at, c, c2)
    <3>1. b2 = b /\ b.at \in q .. Size(some) + 1
      BY <2>5, <2>6 DEF Stays
    <3>2. b.at \in Places(some) /\ b.at \in Nat \ {0} /\ b.at \in b.at .. Size(some) + 1
      BY <2>2, <3>1, PlaceIs DEF Places
    <3>3. Part(all, q, b.at - 3) = Part(some, q, b.at - 3)
      BY <2>2, <3>1, ItemStays, 3 \in Nat \ {0}
    <3>4. c2 = c
      BY <2>3, <3>1, <3>3
    <3> QED
      BY <2>2, <3>2, <3>4, CompleteStays
  <2> HIDE DEF b, c, b2, c2, q
  <2>7. Stays(some, q, MATCH(b, c), MATCH(b2, c2))
    BY <2>2, <2>5, <2>6, MatchStays
  <2> QED
    BY <2>7 DEF q
<1>4. Size(some) \in Nat /\ p \in Nat
  BY SizeIs DEF Places
<1> HIDE DEF a, b, c, a2, b2, c2
<1> QED
  BY <1>1, <1>2, <1>3, <1>4, MatchStays

(* A line end, in full. *)
LEMMA CrlfStays ==
  ASSUME NEW some, NEW all, Extends(some, all), NEW p \in Places(some)
  PROVE  Stays(some, p, match_str(some, p, CRLF), match_str(all, p, CRLF))
<1>1. CRLF \in Seq({"CR", "LF"})
  BY DEF CRLF
<1> QED
  BY <1>1, StrStays

(* A request line is read again as it was. *)
LEMMA RequestLineStays ==
  ASSUME NEW some, NEW all, Extends(some, all), NEW p \in Places(some)
  PROVE  Stays(some, p, RequestLine_parse(some, p), RequestLine_parse(all, p))
<1> DEFINE a == Method_parse(some, p)
           b == RequestUri_parse(some, a.at)
           c == RtspVersion_parse(some, b.at)
           d == match_str(some, c.at, CRLF)
           e == Complete(d.at, <<a.item, b.item>>)
           a2 == Method_parse(all, p)
           b2 == RequestUri_parse(all, a2.at)
           c2 == RtspVersion_parse(all, b2.at)
           d2 == match_str(all, c2.at, CRLF)
           e2 == Complete(d2.at, <<a2.item, b2.item>>)
<1>1. Stays(some, p, a, a2)
  BY MethodStays
<1>2. /\ RequestLine_parse(some, p) = MATCH(a, MATCH(b, MATCH(c, MATCH(d, e))))
      /\ RequestLine_parse(all, p) = MATCH(a2, MATCH(b2, MATCH(c2, MATCH(d2, e2))))
  BY DEF RequestLine_parse
<1>3. Size(some) \in Nat /\ p \in Nat
  BY SizeIs DEF Places
<1>4. ASSUME a.st = "complete"
      PROVE  a2 = a /\ a.at \in Places(some) /\ a.at \in Nat /\ Stays(some, a.at, b, b2)
  <2>1. a2 = a /\ a.at \in p .. Size(some) + 1
    BY <1>1, <1>4 DEF Stays
  <2>2. a.at \in Places(some) /\ a.at \in Nat
    BY <2>1, PlaceIs
  <2>3. b = RequestUri_parse(some, a.at) /\ b2 = RequestUri_parse(all, a.at)
    BY <2>1
  <2> HIDE DEF a, b, a2, b2
  <2> QED
    BY <2>1, <2>2, <2>3, UriStays
<1>5. ASSUME a.st = "complete", b.st = "complete"
      PROVE  b2 = b /\ b.at \in Places(some) /\ b.at \in Nat /\ Stays(some, b.at, c, c2)
  <2>1. b2 = b /\ b.at \in a.at .. Size(some) + 1 /\ a.at \in Places(some)
    BY <1>4, <1>5 DEF Stays
  <2>2. b.at \in Places(some) /\ b.at \in Nat
    BY <2>1, PlaceIs
  <2>3. c = RtspVersion_parse(some, b.at) /\ c2 = RtspVersion_parse(all, b.at)
    BY <2>1
  <2> HIDE DEF a, b, a2, b2, c, c2
  <2> QED
    BY <2>1, <2>2, <2>3, VersionStays
<1>6. ASSUME a.st = "complete", b.st = "complete", c.st = "complete"
      PROVE  c2 = c /\ c.at \in Places(some) /\ c.at \in Nat /\ Stays(some, c.at, d, d2)
  <2>1. c2 = c /\ c.at \in b.at .. Size(some) + 1 /\ b.at \in Places(some)
    BY <1>5, <1>6 DEF Stays
  <2>2. c.at \in Places(some) /\ c.at \in Nat
    BY <2>1, PlaceIs
  <2>3. d = match_str(some, c.at, CRLF) /\ d2 = match_str(all, c.at, CRLF)
    BY <2>1
  <2> HIDE DEF b, c, b2, c2, d, d2
  <2> QED
    BY <2>1, <2>2, <2>3, CrlfStays
<1>7. ASSUME a.st = "complete", b.st = "complete", c.st = "complete", d.st = "complete"
      PROVE  Stays(some, d.at, e, e2)
  <2>1. d2 = d /\ d.at \in c.at .. Size(some) + 1 /\ c.at \in Places(some) /\ a2 = a /\ b2 = b
    BY <1>4, <1>5, <1>6, <1>7 DEF Stays
  <2>2. e2 = e
    BY <2>1
  <2> HIDE DEF a, b, c, d, a2, b2, c2, d2
  <2>3. d.at \in Nat /\ d.at \in d.at .. Size(some) + 1
    BY <1>3, <2>1, PlaceIs DEF Places
  <2> QED
    BY <1>3, <2>2, <2>3, CompleteStays
<1> HIDE DEF a, b, c, d, e, a2, b2, c2, d2, e2
<1>8. ASSUME a.st = "complete", b.st = "complete", c.st = "complete"
      PROVE  Stays(some, c.at, MATCH(d, e), MATCH(d2, e2))
  BY <1>3, <1>6, <1>7, <1>8, MatchStays
<1>9. ASSUME a.st = "complete", b.st = "complete"
      PROVE  Stays(some, b.at, MATCH(c, MATCH(d, e)), MATCH(c2, MATCH(d2, e2)))
  BY <1>3, <1>5, <1>8, <1>9, MatchStays
<1>10. ASSUME a.st = "complete"
       PROVE  Stays(some, a.at, MATCH(b, MATCH(c, MATCH(d, e))), MATCH(b2, MATCH(c2, MATCH(d2, e2))))
  BY <1>3, <1>4, <1>9, <1>10, MatchStays
<1> QED
  BY <1>1, <1>2, <1>3, <1>10, MatchStays

(* And so is a response line. *)
LEMMA ResponseLineStays ==
  ASSUME NEW some, NEW all, Extends(some, all), NEW p \in Places(some)
  PROVE  Stays(some, p, ResponseLine_parse(some, p), ResponseLine_parse(all, p))
<1> DEFINE a == RtspVersion_parse(some, p)
           b == StatusCode_parse(some, a.at)
           c == ReasonPhrase_parse(some, b.at)
           d == Complete(c.at, <<b.item, c.item>>)
           a2 == RtspVersion_parse(all, p)
           b2 == StatusCode_parse(all, a2.at)
           c2 == ReasonPhrase_parse(all, b2.at)
           d2 == Complete(c2.at, <<b2.item, c2.item>>)
<1>1. Stays(some, p, a, a2)
  BY VersionStays
<1>2. /\ ResponseLine_parse(some, p) = MATCH(a, MATCH(b, MATCH(c, d)))
      /\ ResponseLine_parse(all, p) = MATCH(a2, MATCH(b2, MATCH(c2, d2)))
  BY DEF ResponseLine_parse
<1>3. Size(some) \in Nat /\ p \in Nat
  BY SizeIs DEF Places
<1>4. ASSUME a.st = "complete"
      PROVE  a2 = a /\ a.at \in Places(some) /\ a.at \in Nat /\ Stays(some, a.at, b, b2)
  <2>1. a2 = a /\ a.at \in p .. Size(some) + 1
    BY <1>1, <1>4 DEF Stays
  <2>2. a.at \in Places(some) /\ a.at \in Nat
    BY <2>1, PlaceIs
  <2>3. b = StatusCode_parse(some, a.at) /\ b2 = StatusCode_parse(all, a.at)
    BY <2>1
  <2> HIDE DEF a, b, a2, b2
  <2> QED
    BY <2>1, <2>2, <2>3, StatusCodeStays
<1>5. ASSUME a.st = "complete", b.st = "complete"
      PROVE  b2 = b /\ b.at \in Places(some) /\ b.at \in Nat /\ Stays(some, b.at, c, c2)
  <2>1. b2 = b /\ b.at \in a.at .. Size(some) + 1 /\ a.at \in Places(some)
    BY <1>4, <1>5 DEF Stays
  <2>2. b.at \in Places(some) /\ b.at \in Nat
    BY <2>1, PlaceIs
  <2>3. c = ReasonPhrase_parse(some, b.at) /\ c2 = ReasonPhrase_parse(all, b.at)
    BY <2>1
  <2> HIDE DEF a, b, a2, b2, c, c2
  <2> QED
    BY <2>1, <2>2, <2>3, ReasonPhraseStays
<1>6. ASSUME a.st = "complete", b.st = "complete", c.st = "complete"
      PROVE  Stays(some, c.at, d, d2)
  <2>1. c2 = c /\ c.at \in b.at .. Size(some) + 1 /\ b.at \in Places(some) /\ b2 = b
    BY <1>5, <1>6 DEF Stays
  <2>2. d2 = d
    BY <2>1
  <2> HIDE DEF a, b, c, a2, b2, c2
  <2>3. c.at \in Nat /\ c.at \in c.at .. Size(some) + 1
    BY <1>3, <2>1, PlaceIs DEF Places
  <2> QED
    BY <1>3, <2>2, <2>3, CompleteStays
<1> HIDE DEF a, b, c, d, a2, b2, c2, d2
<1>7. ASSUME a.st = "complete", b.st = "complete"
      PROVE  Stays(some, b.at, MATCH(c, d), MATCH(c2, d2))
  BY <1>3, <1>5, <1>6, <1>7, MatchStays
<1>8. ASSUME a.st = "complete"
      PROVE  Stays(some, a.at, MATCH(b, MATCH(c, d)), MATCH(b2, MATCH(c2, d2)))
  BY <1>3, <1>4, <1>7, <1>8, MatchStays
<1> QED
  BY <1>1, <1>2, <1>3, <1>8, MatchStays

(* Every one of a chain of matchers was found, if the chain was.           *)
LEMMA MatchFound ==
  ASSUME NEW r, NEW rest, MATCH(r, rest).st = "complete"
  PROVE  r.st = "complete" /\ MATCH(r, rest) = rest
BY DEF MATCH

Fields == [key : Seq(Alphabet), value : Seq(Alphabet)]

(* A header that was found ends a line. *)
LEMMA HeaderStays ==
  ASSUME NEW some, NEW all, Extends(some, all), NEW p \in Places(some)
  PROVE  LET r == Header_parse(some, p)
         IN  /\ Stays(some, p, r, Header_parse(all, p))
             /\ r.st = "complete" => /\ r.at >= p + 2 /\ Part(some, r.at - 2, r.at - 1) = CRLF
                                     /\ r.item \in Fields
<1> DEFINE Long(x, y) == y.at - 2 - x.at > MAX_HEADER_VALUE
           Field(input, x, k, y, v) == [key |-> Part(input, x.at, k.at - 1),
                                        value |-> Part(input, y.at, v.at - 3)]
           Found(input, x, k, y, v) == IF Long(y, v) THEN Failure("HeaderValueTooLong")
                                       ELSE Complete(v.at, Field(input, x, k, y, v))
           a == match_whitespaces(some, p)
           b == match_header_name(some, a.at)
           c == match_whitespaces(some, b.at)
           d == match_char(some, c.at, ":")
           e == match_whitespaces(some, d.at)
           f == match_until_crlf(some, e.at)
           g == Found(some, a, b, e, f)
           a2 == match_whitespaces(all, p)
           b2 == match_header_name(all, a2.at)
           c2 == match_whitespaces(all, b2.at)
           d2 == match_char(all, c2.at, ":")
           e2 == match_whitespaces(all, d2.at)
           f2 == match_until_crlf(all, e2.at)
           g2 == Found(all, a2, b2, e2, f2)
<1>1. Stays(some, p, a, a2) /\ (a.st = "complete" => a.at \in p .. Size(some))
  BY UntilStays DEF match_whitespaces
<1>2. /\ Header_parse(some, p) = MATCH(a, MATCH(b, MATCH(c, MATCH(d, MATCH(e, MATCH(f, g))))))
      /\ Header_parse(all, p) = MATCH(a2, MATCH(b2, MATCH(c2, MATCH(d2, MATCH(e2, MATCH(f2, g2))))))
  BY DEF Header_parse
<1>3. Size(some) \in Nat /\ p \in Nat
  BY SizeIs DEF Places
<1>4. ASSUME a.st = "complete"
      PROVE  a2 = a /\ a.at \in Places(some) /\ a.at \in Nat /\ a.at >= p /\ Stays(some, a.at, b, b2)
  <2>1. a2 = a /\ a.at \in p .. Size(some) + 1 /\ a.at \in p .. Size(some)
    BY <1>1, <1>4 DEF Stays
  <2>2. b = match_header_name(some, a.at) /\ b2 = match_header_name(all, a.at)
    BY <2>1
  <2> HIDE DEF a, b, a2, b2
  <2>3. a.at \in Places(some) /\ a.at \in Nat /\ a.at <= Size(some) /\ a.at >= p
    BY <1>3, <2>1, PlaceIs
  <2> QED
    BY <2>1, <2>2, <2>3, TypeStays DEF match_header_name
<1>5. ASSUME a.st = "complete", b.st = "complete"
      PROVE  /\ b2 = b /\ b.at \in Places(some) /\ b.at \in Nat /\ b.at \in a.at .. Size(some) + 1
             /\ Stays(some, b.at, c, c2)
  <2>1. b2 = b /\ b.at \in a.at .. Size(some) + 1 /\ a.at \in Places(some)
    BY <1>4, <1>5 DEF Stays
  <2>2. b.at \in Places(some) /\ b.at \in Nat
    BY <2>1, PlaceIs
  <2>3. c = match_until(some, b.at, whitespace_matcher) /\ c2 = match_until(all, b.at, whitespace_matcher)
    BY <2>1 DEF match_whitespaces
  <2> HIDE DEF a, b, a2, b2, c, c2
  <2> QED
    BY <2>1, <2>2, <2>3, UntilStays
<1>6. ASSUME a.st = "complete", b.st = "complete", c.st = "complete"
      PROVE  c2 = c /\ c.at \in Places(some) /\ c.at \in Nat /\ c.at >= b.at /\ Stays(some, c.at, d, d2)
  <2>1. c2 = c /\ c.at \in b.at .. Size(some) + 1 /\ b.at \in Places(some)
    BY <1>5, <1>6 DEF Stays
  <2>2. c.at \in Places(some) /\ c.at \in Nat /\ c.at >= b.at
    BY <2>1, PlaceIs DEF Places
  <2>3. d = match_until(some, c.at, {":"}) /\ d2 = match_until(all, c.at, {":"})
    BY <2>1 DEF match_char
  <2> HIDE DEF b, c, b2, c2, d, d2
  <2> QED
    BY <2>1, <2>2, <2>3, UntilStays
<1>7. ASSUME a.st = "complete", b.st = "complete", c.st = "complete", d.st = "complete"
      PROVE  d2 = d /\ d.at \in Places(some) /\ d.at \in Nat /\ d.at >= c.at /\ Stays(some, d.at, e, e2)
  <2>1. d2 = d /\ d.at \in c.at .. Size(some) + 1 /\ c.at \in Places(some)
    BY <1>6, <1>7 DEF Stays
  <2>2. d.at \in Places(some) /\ d.at \in Nat /\ d.at >= c.at
    BY <2>1, PlaceIs DEF Places
  <2>3. e = match_until(some, d.at, whitespace_matcher) /\ e2 = match_until(all, d.at, whitespace_matcher)
    BY <2>1 DEF match_whitespaces
  <2> HIDE DEF c, c2, d, d2, e, e2
  <2> QED
    BY <2>1, <2>2, <2>3, UntilStays
<1>8. ASSUME a.st = "complete", b.st = "complete", c.st = "complete", d.st = "complete",
             e.st = "complete"
      PROVE  /\ e2 = e /\ e.at \in Places(some) /\ e.at \in Nat /\ e.at >= d.at
             /\ Stays(some, e.at, f, f2)
             /\ f.st = "complete" => f.at >= e.at + 2 /\ Part(some, f.at - 2, f.at - 1) = CRLF
  <2>1. e2 = e /\ e.at \in d.at .. Size(some) + 1 /\ d.at \in Places(some)
    BY <1>7, <1>8 DEF Stays
  <2>2. e.at \in Places(some) /\ e.at \in Nat /\ e.at >= d.at
    BY <2>1, PlaceIs DEF Places
  <2>3. f = match_until_crlf(some, e.at) /\ f2 = match_until_crlf(all, e.at)
    BY <2>1
  <2> HIDE DEF d, d2, e, e2, f, f2
  <2>4. /\ Stays(some, e.at, f, f2)
        /\ f.st = "complete" => /\ f.at \in e.at + 2 .. Size(some) + 1
                                /\ Part(some, f.at - 2, f.at - 1) = CRLF
    BY <2>2, <2>3, UntilCrlfStays
  <2>5. f.st = "complete" => f.at >= e.at + 2
    BY <1>3, <2>2, <2>4
  <2> QED
    BY <2>1, <2>2, <2>4, <2>5
<1> HIDE DEF a, b, c, d, e, f, a2, b2, c2, d2, e2, f2
<1>9. ASSUME a.st = "complete", b.st = "complete", c.st = "complete", d.st = "complete",
             e.st = "complete", f.st = "complete"
      PROVE  Stays(some, f.at, g, g2)
  <2>1. f2 = f /\ f.at \in e.at .. Size(some) + 1 /\ e.at \in Places(some) /\ e2 = e
    BY <1>8, <1>9 DEF Stays
  <2>2. a2 = a /\ b2 = b /\ a.at \in Places(some) /\ b.at \in a.at .. Size(some) + 1
    BY <1>4, <1>5, <1>9
  <2>3. 1 \in Nat \ {0} /\ 3 \in Nat \ {0}
    OBVIOUS
  <2>4. Part(all, a.at, b.at - 1) = Part(some, a.at, b.at - 1)
    BY <2>2, <2>3, ItemStays
  <2>5. Part(all, e.at, f.at - 3) = Part(some, e.at, f.at - 3)
    BY <2>1, <2>3, ItemStays
  <2>6. Field(all, a2, b2, e2, f2) = Field(some, a, b, e, f)
    BY <2>1, <2>2, <2>4, <2>5
  <2> DEFINE item == Field(some, a, b, e, f)
  <2> HIDE DEF Field
  <2>7. g2 = g
    BY <2>1, <2>2, <2>6
  <2>8. g = Failure("HeaderValueTooLong") \/ g = Complete(f.at, item)
    OBVIOUS
  <2>9. f.at \in Nat /\ f.at \in f.at .. Size(some) + 1
    BY <1>3, <2>1, PlaceIs DEF Places
  <2> HIDE DEF item, g, g2
  <2> QED
    BY <1>3, <2>7, <2>8, <2>9, CompleteStays, FailureStays
<1>10. g.st = "complete" => g.at = f.at /\ g.item = Field(some, a, b, e, f)
  BY DEF Complete, Failure
<1> HIDE DEF g, g2
<1>11. ASSUME a.st = "complete", b.st = "complete", c.st = "complete", d.st = "complete",
              e.st = "complete"
       PROVE  Stays(some, e.at, MATCH(f, g), MATCH(f2, g2))
  BY <1>3, <1>8, <1>9, <1>11, MatchStays
<1>12. ASSUME a.st = "complete", b.st = "complete", c.st = "complete", d.st = "complete"
       PROVE  Stays(some, d.at, MATCH(e, MATCH(f, g)), MATCH(e2, MATCH(f2, g2)))
  BY <1>3, <1>7, <1>11, <1>12, MatchStays
<1>13. ASSUME a.st = "complete", b.st = "complete", c.st = "complete"
       PROVE  Stays(some, c.at, MATCH(d, MATCH(e, MATCH(f, g))), MATCH(d2, MATCH(e2, MATCH(f2, g2))))
  BY <1>3, <1>6, <1>12, <1>13, MatchStays
<1>14. ASSUME a.st = "complete", b.st = "complete"
       PROVE  Stays(some, b.at, MATCH(c, MATCH(d, MATCH(e, MATCH(f, g)))),
                                MATCH(c2, MATCH(d2, MATCH(e2, MATCH(f2, g2)))))
  BY <1>3, <1>5, <1>13, <1>14, MatchStays
<1>15. ASSUME a.st = "complete"
       PROVE  Stays(some, a.at, MATCH(b, MATCH(c, MATCH(d, MATCH(e, MATCH(f, g))))),
                                MATCH(b2, MATCH(c2, MATCH(d2, MATCH(e2, MATCH(f2, g2))))))
  BY <1>3, <1>4, <1>14, <1>15, MatchStays
<1>16. Stays(some, p, Header_parse(some, p), Header_parse(all, p))
  BY <1>1, <1>2, <1>3, <1>15, MatchStays
<1>17. ASSUME Header_parse(some, p).st = "complete"
       PROVE  /\ Header_parse(some, p).at >= p + 2
              /\ Part(some, Header_parse(some, p).at - 2, Header_parse(some, p).at - 1) = CRLF
              /\ Header_parse(some, p).item \in Fields
  <2>1. a.st = "complete" /\ MATCH(b, MATCH(c, MATCH(d, MATCH(e, MATCH(f, g))))) = Header_parse(some, p)
    BY <1>2, <1>17, MatchFound
  <2>2. b.st = "complete" /\ MATCH(c, MATCH(d, MATCH(e, MATCH(f, g)))) = Header_parse(some, p)
    BY <1>17, <2>1, MatchFound
  <2>3. c.st = "complete" /\ MATCH(d, MATCH(e, MATCH(f, g))) = Header_parse(some, p)
    BY <1>17, <2>2, MatchFound
  <2>4. d.st = "complete" /\ MATCH(e, MATCH(f, g)) = Header_parse(some, p)
    BY <1>17, <2>3, MatchFound
  <2>5. e.st = "complete" /\ MATCH(f, g) = Header_parse(some, p)
    BY <1>17, <2>4, MatchFound
  <2>6. f.st = "complete" /\ g = Header_parse(some, p)
    BY <1>17, <2>5, MatchFound
  <2>7. /\ a.at \in Nat /\ b.at \in Nat /\ c.at \in Nat /\ d.at \in Nat /\ e.at \in Nat
        /\ a.at >= p /\ b.at >= a.at /\ c.at >= b.at /\ d.at >= c.at /\ e.at >= d.at
    BY <1>4, <1>5, <1>6, <1>7, <1>8, <2>1, <2>2, <2>3, <2>4, <2>5
  <2>8. g.at = f.at /\ f.at >= e.at + 2 /\ Part(some, f.at - 2, f.at - 1) = CRLF
    BY <1>8, <1>10, <1>17, <2>1, <2>2, <2>3, <2>4, <2>5, <2>6
  <2>9. f.at \in Nat
    <3>1. f.at \in e.at .. Size(some) + 1
      BY <1>8, <2>1, <2>2, <2>3, <2>4, <2>5, <2>6 DEF Stays
    <3> QED
      BY <1>3, <2>7, <3>1
  <2>10. f.at >= p + 2
    BY <1>3, <2>7, <2>8, <2>9
  <2>11. Part(some, a.at, b.at - 1) \in Seq(Alphabet) /\ Part(some, e.at, f.at - 3) \in Seq(Alphabet)
    <3>1. b.at \in a.at .. Size(some) + 1 /\ f.at \in e.at .. Size(some) + 1
          /\ a.at \in Places(some) /\ e.at \in Places(some)
      BY <1>4, <1>5, <1>8, <2>1, <2>2, <2>3, <2>4, <2>5, <2>6 DEF Stays
    <3>2. /\ a.at \in Nat \ {0} /\ b.at - 1 \in Int /\ b.at - 1 <= Size(some)
          /\ e.at \in Nat \ {0} /\ f.at - 3 \in Int /\ f.at - 3 <= Size(some)
      BY <1>3, <3>1 DEF Places
    <3> QED
      BY <3>2, PartIs
  <2>12. g.item \in Fields
    BY <1>10, <1>17, <2>6, <2>11 DEF Fields
  <2> QED
    BY <2>6, <2>8, <2>10, <2>12
<1> QED
  BY <1>16, <1>17

-----------------------------------------------------------------------------
(* Loops. *)

(* Induction for a set: with 0 and with every successor, all of Nat. *)
LEMMA SetInduction ==
  ASSUME NEW S, 0 \in S, \A n \in Nat : n \in S => n + 1 \in S
  PROVE  Nat \subseteq S
<1> DEFINE T == Nat \ S
           R == OpToRel(<, Nat)
<1>1. SUFFICES ASSUME T # {} PROVE FALSE
  OBVIOUS
<1>2. PICK x \in T : \A y \in T : ~ (<<y, x>> \in R)
  <2>1. IsWellFoundedOn(R, Nat)
    BY NatLessThanWellFounded, Zenon
  <2>2. T \subseteq Nat
    OBVIOUS
  <2> HIDE DEF R, T
  <2> QED
    BY <1>1, <2>1, <2>2, WFMin
<1>3. x \in Nat /\ x \notin S /\ x # 0
  OBVIOUS
<1>4. x - 1 \in Nat /\ x - 1 < x
  BY <1>3
<1>5. <<x - 1, x>> \in R
  BY <1>3, <1>4, Zenon DEF OpToRel
<1>6. x - 1 \in S
  BY <1>2, <1>4, <1>5
<1> QED
  BY <1>3, <1>4, <1>6
(* The turns of the loops of this module, and their tables. *)
Turn(loop, input, k, x) ==
  CASE loop = "headers" -> NextHeader(input, x)
    [] loop = "frames" -> SkipFrame(input, x)
    [] loop = "number" -> 10 * x + Value(input[k])
    [] loop = "messages" -> ReadOne(input, x)

IsTable(loop, input, first, N, f) ==
  f = [k \in 0 .. N |-> IF k = 0 THEN first ELSE Turn(loop, input, k, f[k - 1])]

(* A table of any number of turns exists, one turn defining the next. *)
LEMMA TurnsExist ==
  ASSUME NEW loop, NEW input, NEW first
  PROVE  \A N \in Nat : \E f : IsTable(loop, input, first, N, f)
<1> DEFINE Step(k, x) == Turn(loop, input, k, x)
           P(N) == \E f : f = [k \in 0 .. N |-> IF k = 0 THEN first ELSE Step(k, f[k - 1])]
           S == {N \in Nat : P(N)}
<1> HIDE DEF Step
<1>1. 0 \in S
  <2> DEFINE f == [k \in 0 .. 0 |-> first]
  <2>1. f = [k \in 0 .. 0 |-> IF k = 0 THEN first ELSE Step(k, f[k - 1])]
    OBVIOUS
  <2> QED
    BY <2>1
<1>2. ASSUME NEW N \in Nat, N \in S PROVE N + 1 \in S
  <2>1. PICK f : f = [k \in 0 .. N |-> IF k = 0 THEN first ELSE Step(k, f[k - 1])]
    BY <1>2
  <2> DEFINE g == [k \in 0 .. N + 1 |-> IF k = N + 1 THEN Step(k, f[N]) ELSE f[k]]
  <2>2. ASSUME NEW k \in 0 .. N + 1
        PROVE  g[k] = IF k = 0 THEN first ELSE Step(k, g[k - 1])
    <3>1. CASE k = N + 1
      <4>1. k # 0 /\ k - 1 = N /\ N \in 0 .. N + 1 /\ N # N + 1
        BY <3>1
      <4>2. g[k - 1] = f[N]
        BY <4>1
      <4> QED
        BY <3>1, <4>1, <4>2
    <3>2. CASE k # N + 1
      <4>1. k \in 0 .. N /\ f[k] = IF k = 0 THEN first ELSE Step(k, f[k - 1])
        BY <2>1, <3>2
      <4>2. k # 0 => k - 1 \in 0 .. N + 1 /\ k - 1 # N + 1
        BY <4>1
      <4>3. k # 0 => g[k - 1] = f[k - 1]
        BY <4>2
      <4> QED
        BY <3>2, <4>1, <4>3
    <3> QED
      BY <3>1, <3>2
  <2>3. g = [k \in 0 .. N + 1 |-> IF k = 0 THEN first ELSE Step(k, g[k - 1])]
    BY <2>2
  <2> HIDE DEF g
  <2>4. P(N + 1)
    BY <2>3
  <2> HIDE DEF P
  <2> QED
    BY <2>4
<1>3. Nat \subseteq S
  <2> HIDE DEF S
  <2> QED
    BY <1>1, <1>2, SetInduction
<1> QED
  BY <1>3 DEF IsTable, Step

(* The table of the loop over headers. *)
LEMMA HeaderTable ==
  ASSUME NEW input, NEW p
  PROVE  \E f : /\ HeaderMap_parse(input, p) = f[HEADER_MAP_CAPACITY + 1]
                /\ \A k \in 0 .. HEADER_MAP_CAPACITY + 1 :
                     f[k] = IF k = 0 THEN More(p, << >>) ELSE NextHeader(input, f[k - 1])
<1> DEFINE Table(f) == f = [k \in 0 .. HEADER_MAP_CAPACITY + 1 |->
                              IF k = 0 THEN More(p, << >>) ELSE NextHeader(input, f[k - 1])]
           turn == CHOOSE f : Table(f)
<1>1. \E f : Table(f)
  <2>1. HEADER_MAP_CAPACITY + 1 \in Nat
    BY ConnectionAssumption
  <2>2. PICK f : IsTable("headers", input, More(p, << >>), HEADER_MAP_CAPACITY + 1, f)
    BY <2>1, TurnsExist
  <2>3. Table(f)
    BY <2>2 DEF IsTable, Turn
  <2> QED
    BY <2>3
<1>2. Table(turn)
  BY <1>1
<1>3. HeaderMap_parse(input, p) = turn[HEADER_MAP_CAPACITY + 1]
  BY Zenon DEF HeaderMap_parse
<1> HIDE DEF turn
<1> QED
  BY <1>2, <1>3

Overflow == Failure("HeaderMapOverflow")

(* The failure that more input may take back. *)
LEMMA OverflowIs ==
  Overflow.st = "failure" /\ Overflow.error = "HeaderMapOverflow"
BY DEF Overflow, Failure

(* Parsing a header is no loop, and no overflow. *)
LEMMA HeaderEnds ==
  ASSUME NEW input, NEW p
  PROVE  Header_parse(input, p).st # "more" /\ Header_parse(input, p) # Overflow
<1> DEFINE a == match_whitespaces(input, p)
           b == match_header_name(input, a.at)
           c == match_whitespaces(input, b.at)
           d == match_char(input, c.at, ":")
           e == match_whitespaces(input, d.at)
           f == match_until_crlf(input, e.at)
           g == IF f.at - 2 - e.at > MAX_HEADER_VALUE THEN Failure("HeaderValueTooLong")
                ELSE Complete(f.at, [key |-> Part(input, a.at, b.at - 1),
                                     value |-> Part(input, e.at, f.at - 3)])
<1>1. Header_parse(input, p) = MATCH(a, MATCH(b, MATCH(c, MATCH(d, MATCH(e, MATCH(f, g))))))
  BY DEF Header_parse
<1> DEFINE Plain(r) == r.st # "more" /\ r # Overflow
<1>2. \A q, matcher : Plain(match_until(input, q, matcher))
  BY OverflowIs DEF match_until, Partial, Matched, Complete
<1>3. Plain(a) /\ Plain(b) /\ Plain(c) /\ Plain(d) /\ Plain(e)
  <2> HIDE DEF a, b, c, d
  <2>1. Plain(match_type(input, a.at, header_name_char_matcher))
    BY <1>2, OverflowIs DEF match_type, Failure
  <2> HIDE DEF Plain
  <2> QED
    BY <1>2, <2>1 DEF match_whitespaces, match_char, match_header_name, a, b, c, d
<1>4. Plain(f) /\ Plain(g)
  <2>1. Plain(f)
    BY OverflowIs DEF match_until_crlf, Partial, Matched, Complete
  <2> HIDE DEF a, b, c, d, e, f
  <2>2. \A x, y : Complete(x, y).st = "complete"
    BY DEF Complete
  <2>3. Failure("HeaderValueTooLong").st = "failure" /\ Failure("HeaderValueTooLong").error = "HeaderValueTooLong"
    BY DEF Failure
  <2>4. g.st = "complete" \/ g = Failure("HeaderValueTooLong")
    BY <2>2
  <2> HIDE DEF g
  <2>5. Plain(g)
    BY <2>3, <2>4, OverflowIs
  <2> QED
    BY <2>1, <2>5
<1> HIDE DEF a, b, c, d, e, f, g
<1> QED
  BY <1>1, <1>3, <1>4 DEF MATCH

(* What the loop over headers has done after a number of turns: if it goes *)
(* on, it is behind a line end, unless it has just begun.                  *)
HeadersStay(input, p, map, later) ==
  /\ Stays(input, p, map, later)
  /\ map = Overflow => /\ later.st # "more"
                       /\ later.st = "complete" => Len(later.item) = HEADER_MAP_CAPACITY
  /\ map.st = "complete" => map.at >= p + 2 /\ map.item \in Seq(Fields)
  /\ map.st = "more" => /\ map.item \in Seq(Fields)
                        /\ later = map /\ map.at \in p .. Size(input) + 1
                        /\ \/ map.item = << >>
                           \/ map.at - 2 >= 1 /\ Part(input, map.at - 2, map.at - 1) = CRLF

(* One more turn. A full map is an overflow behind the line end of its     *)
(* last header, while nothing more has arrived.                            *)
LEMMA HeaderTurnStays ==
  ASSUME NEW some, NEW all, Extends(some, all), NEW p \in Places(some), NEW map, NEW later,
         HeadersStay(some, p, map, later)
  PROVE  HeadersStay(some, p, NextHeader(some, map), NextHeader(all, later))
<1> DEFINE m == NextHeader(some, map)
           l == NextHeader(all, later)
<1> SUFFICES HeadersStay(some, p, m, l)
  OBVIOUS
<1>0. /\ Size(some) \in Nat /\ Size(all) \in Nat /\ Size(some) <= Size(all)
      /\ p \in Nat /\ p >= 1 /\ p <= Size(some) + 1
  BY SizeIs DEF Extends, Places
<1>1. CASE map.st # "more"
  <2>1. m = map /\ (later.st # "more" => l = later)
    BY <1>1 DEF NextHeader, HeaderMap_append
  <2> HIDE DEF m, l
  <2>2. later = map => l = map
    BY <1>1, <2>1
  <2> QED
    BY <1>1, <2>1, <2>2 DEF HeadersStay, Stays
<1>2. CASE map.st = "more"
  <2> DEFINE q == map.at
  <2>1. /\ later = map /\ q \in p .. Size(some) + 1 /\ q \in Nat \ {0} /\ q >= p
        /\ q <= Size(some) + 1 /\ q \in Places(some)
        /\ map.item \in Seq(Fields)
        /\ map.item = << >> \/ (q - 2 >= 1 /\ Part(some, q - 2, q - 1) = CRLF)
    BY <1>0, <1>2 DEF HeadersStay, Places
  <2>2. q <= Size(some) => Last(all.octets) # "CR"
    BY <1>0, <2>1 DEF Extends, Last, Size
  <2>3. CASE q <= Size(some) /\ Last(some.octets) = "CR"
    <3>1. m = Partial
      BY <1>2, <2>3 DEF NextHeader, HeaderMap_append
    <3> HIDE DEF m, l
    <3> QED
      BY <3>1, PartialStays, OverflowIs DEF HeadersStay, Partial
  <2>4. CASE q <= Size(some) /\ Last(some.octets) # "CR" /\ q < Size(some) /\ Part(some, q, q + 1) = CRLF
    <3>1. m = Complete(q + 2, map.item)
      BY <1>2, <2>4 DEF NextHeader, HeaderMap_append
    <3>2. q + 1 \in Int /\ q + 1 <= Size(some) /\ q < Size(all) /\ q + 2 \in p .. Size(some) + 1
          /\ q + 2 >= p + 2 /\ Complete(q + 2, map.item).at = q + 2
          /\ Complete(q + 2, map.item).item = map.item
      BY <1>0, <2>1, <2>4 DEF Complete
    <3>3. Part(all, q, q + 1) = CRLF
      <4>1. Part(all, q, q + 1) = Part(some, q, q + 1)
        BY <2>1, <3>2, PartIs
      <4> QED
        BY <2>4, <4>1
    <3>4. l = Complete(q + 2, map.item)
      BY <1>2, <2>1, <2>2, <2>4, <3>2, <3>3 DEF NextHeader, HeaderMap_append
    <3>5. Stays(some, p, Complete(q + 2, map.item), Complete(q + 2, map.item))
      BY <1>0, <3>2, CompleteStays
    <3> HIDE DEF m, l
    <3> QED
      BY <2>1, <3>1, <3>2, <3>4, <3>5, OverflowIs DEF HeadersStay, Complete
  <2>5. CASE /\ ~ (q <= Size(some) /\ Last(some.octets) = "CR")
             /\ ~ (q < Size(some) /\ Part(some, q, q + 1) = CRLF)
    <3>1. ASSUME q <= Size(some) PROVE ~ (q < Size(all) /\ Part(all, q, q + 1) = CRLF)
      <4>1. CASE q < Size(some)
        <5>1. q + 1 \in Int /\ q + 1 <= Size(some)
          BY <1>0, <2>1, <4>1
        <5>2. Part(all, q, q + 1) = Part(some, q, q + 1)
          BY <2>1, <5>1, PartIs
        <5> QED
          BY <2>5, <4>1, <5>2
      <4>2. CASE q = Size(some) /\ q < Size(all)
        <5>1. some.octets[q] # "CR"
          BY <2>5, <4>2 DEF Last, Size
        <5>2. all.octets[q] # "CR"
          <6>1. q \in 1 .. Size(some)
            BY <1>0, <2>1, <4>2
          <6> QED
            BY <5>1, <6>1 DEF Extends
        <5>3. Part(all, q, q + 1)[1] = all.octets[q]
          <6> DEFINE o == all.octets
                     r == q + 1
          <6>1. \A i \in q .. r : o[i] \in Alphabet
            <7>1. \A i \in q .. r : i \in 1 .. Len(o)
              BY <1>0, <2>1, <4>2 DEF Size
            <7> QED
              BY <7>1, ElementOfSeq DEF Extends
          <6>2. q \in Int /\ r \in Int /\ 1 \in 1 .. r - q + 1 /\ q + 1 - 1 = q
            BY <2>1
          <6> HIDE DEF o, r
          <6>3. \A i \in 1 .. r - q + 1 : SubSeq(o, q, r)[i] = o[q + i - 1]
            BY <6>1, <6>2, SubSeqProperties
          <6> QED
            BY <6>2, <6>3 DEF Part, o, r
        <5> QED
          BY <5>2, <5>3 DEF CRLF
      <4> QED
        BY <1>0, <2>1, <3>1, <4>1, <4>2
    <3>2. CASE Len(map.item) = HEADER_MAP_CAPACITY
      <4>1. m = Failure("HeaderMapOverflow")
        BY <1>2, <2>5, <3>2 DEF NextHeader, HeaderMap_append
      <4>2. ASSUME q <= Size(some) PROVE l = Failure("HeaderMapOverflow")
        BY <1>2, <2>1, <2>2, <3>1, <3>2, <4>2 DEF NextHeader, HeaderMap_append
      <4>3. ASSUME q > Size(some) PROVE EndsBehind(some, CRLF)
        <5>1. map.item # << >>
          BY <3>2, ConnectionAssumption
        <5>2. q - 2 >= 1 /\ Part(some, q - 2, q - 1) = CRLF /\ q = Size(some) + 1
          BY <1>0, <2>1, <4>3, <5>1
        <5>3. q - 2 = Size(some) + 1 - 2 /\ q - 1 = Size(some) /\ 2 <= Size(some)
          BY <1>0, <2>1, <5>2
        <5>4. Len(CRLF) = 2
          BY DEF CRLF
        <5> QED
          BY <5>2, <5>3, <5>4 DEF EndsBehind
      <4>4. m.st = "failure"
        BY <4>1 DEF Failure
      <4>5. l \in {Partial, Complete(q + 2, map.item), Overflow}
        BY <1>2, <2>1, <3>2 DEF NextHeader, HeaderMap_append, Overflow
      <4>6. l.st # "more" /\ (l.st = "complete" => Len(l.item) = HEADER_MAP_CAPACITY)
        BY <3>2, <4>5, OverflowIs DEF Partial, Complete
      <4> HIDE DEF m, l
      <4>7. l = m \/ Excused(some, m)
        BY <1>0, <2>1, <4>1, <4>2, <4>3 DEF Excused
      <4> QED
        BY <4>4, <4>6, <4>7 DEF HeadersStay, Stays
    <3>3. CASE Len(map.item) # HEADER_MAP_CAPACITY
      <4> DEFINE h == Header_parse(some, q)
                 h2 == Header_parse(all, q)
                 go == More(h.at, Append(map.item, h.item))
                 go2 == More(h2.at, Append(map.item, h2.item))
      <4>1. m = MATCH(h, go)
        BY <1>2, <2>5, <3>3 DEF NextHeader, HeaderMap_append
      <4>2. /\ Stays(some, q, h, h2)
            /\ h.st = "complete" => /\ h.at >= q + 2 /\ Part(some, h.at - 2, h.at - 1) = CRLF
                                    /\ h.item \in Fields
        BY <2>1, HeaderStays
      <4>3. ASSUME q <= Size(some) PROVE l = MATCH(h2, go2)
        BY <1>2, <2>1, <2>2, <3>1, <3>3, <4>3 DEF NextHeader, HeaderMap_append
      <4>4. ASSUME q > Size(some) PROVE h = Partial
        <5>1. {r \in q .. Size(some) : some.octets[r] \notin whitespace_matcher} = {}
          BY <1>0, <2>1, <4>4
        <5>2. match_whitespaces(some, q) = Partial
          BY <5>1 DEF match_whitespaces, match_until
        <5> QED
          BY <5>2 DEF Header_parse, MATCH, Partial
      <4>8. h.st # "more" /\ h # Overflow
        BY HeaderEnds
      <4> HIDE DEF h, h2, m, l
      <4>5. CASE h.st = "complete"
        <5>1. h2 = h /\ h.at \in q .. Size(some) + 1
          BY <4>2, <4>5 DEF Stays
        <5>2. q <= Size(some)
          BY <1>0, <2>1, <4>4, <4>5 DEF Partial
        <5>3. m = go /\ l = go
          BY <4>1, <4>3, <4>5, <5>1, <5>2 DEF MATCH
        <5>4. h.at \in p .. Size(some) + 1 /\ h.at - 2 >= 1
          BY <1>0, <2>1, <4>2, <4>5, <5>1
        <5>5. go.st = "more" /\ go.at = h.at /\ go.item \in Seq(Fields)
          BY <2>1, <4>2, <4>5, AppendProperties DEF More
        <5> HIDE DEF go
        <5> QED
          BY <4>2, <4>5, <5>3, <5>4, <5>5, OverflowIs DEF HeadersStay, Stays
      <4>6. CASE h.st = "failure"
        <5>1. m = h /\ q <= Size(some)
          BY <1>0, <2>1, <4>1, <4>4, <4>6 DEF MATCH, Partial
        <5>2. l = h \/ Excused(some, h)
          <6>1. h2 = h \/ Excused(some, h)
            BY <4>2, <4>6 DEF Stays
          <6>2. h2 = h => l = h
            BY <4>3, <4>6, <5>1 DEF MATCH
          <6> QED
            BY <6>1, <6>2
        <5> QED
          BY <4>6, <4>8, <5>1, <5>2 DEF HeadersStay, Stays
      <4>7. CASE h.st # "complete" /\ h.st # "failure"
        <5>1. m = h
          BY <4>1, <4>7 DEF MATCH
        <5> QED
          BY <4>7, <4>8, <5>1 DEF HeadersStay, Stays
      <4> QED
        BY <4>5, <4>6, <4>7
    <3> QED
      BY <3>2, <3>3
  <2>6. q < Size(some) => q <= Size(some)
    BY <1>0, <2>1
  <2> HIDE DEF m, l, q
  <2> QED
    BY <2>3, <2>4, <2>5, <2>6
<1> HIDE DEF m, l
<1> QED
  BY <1>1, <1>2

(* All turns of the loop over headers. *)
LEMMA HeaderMapStays ==
  ASSUME NEW some, NEW all, Extends(some, all), NEW p \in Places(some)
  PROVE  LET r == HeaderMap_parse(some, p)
         IN  /\ Stays(some, p, r, HeaderMap_parse(all, p))
             /\ r.st = "complete" => r.at >= p + 2 /\ r.item \in Seq(Fields)
             /\ r = Overflow /\ HeaderMap_parse(all, p).st = "complete" =>
                  Len(HeaderMap_parse(all, p).item) = HEADER_MAP_CAPACITY
<1> DEFINE N == HEADER_MAP_CAPACITY + 1
<1>1. N \in Nat
  BY ConnectionAssumption
<1> HIDE DEF N
<1>2. PICK f : /\ HeaderMap_parse(some, p) = f[N]
               /\ \A k \in 0 .. N : f[k] = IF k = 0 THEN More(p, << >>) ELSE NextHeader(some, f[k - 1])
  BY HeaderTable DEF N
<1>3. PICK g : /\ HeaderMap_parse(all, p) = g[N]
               /\ \A k \in 0 .. N : g[k] = IF k = 0 THEN More(p, << >>) ELSE NextHeader(all, g[k - 1])
  BY HeaderTable DEF N
<1> DEFINE S == {k \in Nat : k <= N => HeadersStay(some, p, f[k], g[k])}
<1>4. 0 \in S
  <2>1. 0 \in 0 .. N
    BY <1>1
  <2>2. f[0] = More(p, << >>) /\ g[0] = More(p, << >>)
    BY <1>2, <1>3, <2>1
  <2>3. p \in p .. Size(some) + 1
    BY SizeIs DEF Places
  <2>4. << >> \in Seq(Fields)
    OBVIOUS
  <2> DEFINE m == More(p, << >>)
  <2>5. m.st = "more" /\ m.at = p /\ m.item = << >>
    BY DEF More
  <2>6. f[0] = m /\ g[0] = m
    BY <2>2
  <2> HIDE DEF m
  <2>7. HeadersStay(some, p, m, m)
    BY <2>3, <2>4, <2>5, OverflowIs DEF HeadersStay, Stays
  <2> QED
    BY <2>6, <2>7
<1>5. ASSUME NEW k \in Nat, k \in S PROVE k + 1 \in S
  <2> SUFFICES ASSUME k + 1 <= N PROVE HeadersStay(some, p, f[k + 1], g[k + 1])
    OBVIOUS
  <2>1. k + 1 \in 0 .. N /\ k + 1 # 0 /\ (k + 1) - 1 = k /\ k <= N
    BY <1>1
  <2>2. f[k + 1] = NextHeader(some, f[k]) /\ g[k + 1] = NextHeader(all, g[k])
    BY <1>2, <1>3, <2>1
  <2> QED
    BY <1>5, <2>1, <2>2, HeaderTurnStays
<1>6. N \in S
  <2> HIDE DEF S
  <2>1. Nat \subseteq S
    BY <1>4, <1>5, SetInduction
  <2> QED
    BY <1>1, <2>1
<1> QED
  BY <1>1, <1>2, <1>3, <1>6 DEF HeadersStay

-----------------------------------------------------------------------------
(* Headers and body. *)

(* The number a digit stands for. *)
LEMMA ValueIs ==
  ASSUME NEW d
  PROVE  Value(d) \in 0 .. 9
<1>1. \E n \in 0 .. 9 : d \in Digits => d = Digit[n + 1]
  <2>1. CASE d \in Digits
    <3>1. PICK i \in DOMAIN Digit : d = Digit[i]
      BY <2>1 DEF Digits, ToSet
    <3>2. i \in 1 .. 10
      BY <3>1 DEF Digit
    <3>3. i - 1 \in 0 .. 9 /\ (i - 1) + 1 = i
      BY <3>2
    <3> QED
      BY <3>1, <3>3
  <2>2. CASE d \notin Digits
    <3>1. 0 \in 0 .. 9
      OBVIOUS
    <3> QED
      BY <2>2, <3>1
  <2> QED
    BY <2>1, <2>2
<1> QED
  BY <1>1 DEF Value

(* What is no number is -1. *)
LEMMA UintIs ==
  ASSUME NEW S, NEW s \in Seq(S), NEW max
  PROVE  parse_uint(s, max) \in Nat \cup {-1}
<1> DEFINE others == {i \in DOMAIN s : s[i] \notin Digits}
           count == IF others = {} THEN Len(s) ELSE Min(others) - 1
           Table(f) == f = [i \in 0 .. count |-> IF i = 0 THEN 0 ELSE 10 * f[i - 1] + Value(s[i])]
           number == CHOOSE f : Table(f)
<1>1. count \in Nat
  <2>1. Len(s) \in Nat /\ DOMAIN s = 1 .. Len(s)
    BY LenProperties
  <2>2. CASE others # {}
    <3>1. others \subseteq Nat /\ \A i \in others : i >= 1
      BY <2>1
    <3>2. Min(others) \in others
      BY <2>2, <3>1, LeastOf
    <3>3. Min(others) \in Nat /\ Min(others) >= 1
      BY <3>1, <3>2
    <3> HIDE DEF others
    <3> QED
      BY <2>2, <3>3
  <2> QED
    BY <2>1, <2>2
<1> HIDE DEF count
<1>2. \E f : Table(f)
  <2>1. PICK f : IsTable("number", s, 0, count, f)
    BY <1>1, TurnsExist
  <2>2. Table(f)
    BY <2>1 DEF IsTable, Turn
  <2> QED
    BY <2>2
<1>3. Table(number)
  BY <1>2
<1>4. parse_uint(s, max) = IF count = 0 \/ number[count] > max THEN -1 ELSE number[count]
  BY Zenon DEF parse_uint, count
<1> HIDE DEF number
<1> DEFINE N == {k \in Nat : k <= count => number[k] \in Nat}
<1>5. 0 \in N
  BY <1>1, <1>3
<1>6. ASSUME NEW k \in Nat, k \in N PROVE k + 1 \in N
  <2> SUFFICES ASSUME k + 1 <= count PROVE number[k + 1] \in Nat
    OBVIOUS
  <2>1. k + 1 \in 0 .. count /\ k + 1 # 0 /\ (k + 1) - 1 = k /\ k <= count
    BY <1>1
  <2>2. number[k + 1] = 10 * number[k] + Value(s[k + 1])
    BY <1>3, <2>1
  <2>3. number[k] \in Nat /\ Value(s[k + 1]) \in 0 .. 9
    BY <1>6, <2>1, ValueIs
  <2> QED
    BY <2>2, <2>3
<1>7. number[count] \in Nat
  <2> HIDE DEF N
  <2>1. Nat \subseteq N
    BY <1>5, <1>6, SetInduction
  <2> QED
    BY <1>1, <2>1 DEF N
<1> QED
  BY <1>4, <1>7

(* A header that is there is found. *)
LEMMA FindIs ==
  ASSUME NEW headers \in Seq(Fields), NEW key, contains_key(headers, key), NEW max
  PROVE  parse_uint(HeaderMap_find(headers, key), max) \in Nat \cup {-1}
<1> DEFINE S == {i \in DOMAIN headers : headers[i].key = key}
<1>1. DOMAIN headers = 1 .. Len(headers) /\ Len(headers) \in Nat
  BY LenProperties
<1>2. S \subseteq Nat /\ S # {}
  BY <1>1 DEF contains_key
<1>3. Min(S) \in S
  BY <1>2, LeastOf
<1> DEFINE i == Min(S)
<1>4. i \in 1 .. Len(headers) /\ HeaderMap_find(headers, key) = headers[i].value
  BY <1>1, <1>3 DEF HeaderMap_find
<1> HIDE DEF i
<1>5. headers[i] \in Fields
  BY <1>4, ElementOfSeq
<1>6. headers[i].value \in Seq(Alphabet)
  BY <1>5 DEF Fields
<1> QED
  BY <1>4, <1>6, UintIs

(* A body that has arrived is as long as its header says. *)
LEMMA BodyStays ==
  ASSUME NEW some, NEW all, Extends(some, all), NEW p \in Places(some), NEW n \in Nat
  PROVE  Stays(some, p, MessageBody_parse(some, p, n), MessageBody_parse(all, p, n))
<1>1. /\ Size(some) \in Nat /\ Size(all) \in Nat /\ Size(some) <= Size(all)
      /\ p \in Nat \ {0} /\ p <= Size(some) + 1
  BY SizeIs DEF Extends, Places
<1>2. CASE Size(some) - p + 1 < n
  <2>1. MessageBody_parse(some, p, n) = Partial
    BY <1>2 DEF MessageBody_parse
  <2> QED
    BY <2>1, PartialStays
<1>3. CASE ~ (Size(some) - p + 1 < n)
  <2>1. /\ p + n \in p .. Size(some) + 1 /\ p + n - 1 \in Int /\ p + n - 1 <= Size(some)
        /\ ~ (Size(all) - p + 1 < n)
    BY <1>1, <1>3
  <2> DEFINE c == Complete(p + n, Part(some, p, p + n - 1))
  <2>2. Part(all, p, p + n - 1) = Part(some, p, p + n - 1)
    BY <1>1, <2>1, PartIs
  <2>3. MessageBody_parse(some, p, n) = c /\ MessageBody_parse(all, p, n) = c
    BY <1>3, <2>1, <2>2 DEF MessageBody_parse
  <2>4. Stays(some, p, c, c)
    BY <1>1, <2>1, CompleteStays
  <2> QED
    BY <2>3, <2>4
<1> QED
  BY <1>2, <1>3

(* What is behind the start line. *)
LEMMA MessageStays ==
  ASSUME NEW some, NEW all, Extends(some, all), NEW p \in Places(some), NEW line, NEW line2,
         Stays(some, p, line, line2), line # Overflow
  PROVE  LET r == Message_parse(some, line)
             later == Message_parse(all, line2)
         IN  /\ Stays(some, p, r, later)
             /\ r.st = "complete" => r.at > 1
             /\ r = Overflow /\ later.st = "complete" =>
                  Len(later.item.headers) = HEADER_MAP_CAPACITY
<1> DEFINE Number(m, key, max) == parse_uint(HeaderMap_find(m.item, key), max)
           Length(m) == IF ~ contains_key(m.item, CONTENT_LENGTH) THEN 0
                        ELSE Number(m, CONTENT_LENGTH, SIZE_MAX)
           CSeq(m) == Number(m, C_SEQ, UINT32_MAX)
           Message(x, m, b) == [line |-> x.item, headers |-> m.item, body |-> b.item, cseq |-> CSeq(m)]
           End(x, m, b) == IF ~ contains_key(m.item, C_SEQ) THEN Failure("MissingCSeq")
                           ELSE IF CSeq(m) = -1 THEN Failure("InvalidCSeq")
                           ELSE Complete(b.at, Message(x, m, b))
           Rest(x, m, b) == IF Length(m) = -1 THEN Failure("ContentLength")
                            ELSE MATCH(b, End(x, m, b))
           map == HeaderMap_parse(some, line.at)
           map2 == HeaderMap_parse(all, line2.at)
           body == MessageBody_parse(some, map.at, Length(map))
           body2 == MessageBody_parse(all, map2.at, Length(map2))
<1>1. /\ Message_parse(some, line) = MATCH(line, MATCH(map, Rest(line, map, body)))
      /\ Message_parse(all, line2) = MATCH(line2, MATCH(map2, Rest(line2, map2, body2)))
  BY DEF Message_parse, Body_parse
<1>2. Size(some) \in Nat /\ p \in Nat /\ p >= 1
  BY SizeIs DEF Places
<1> SUFFICES /\ Stays(some, p, MATCH(line, MATCH(map, Rest(line, map, body))),
                               MATCH(line2, MATCH(map2, Rest(line2, map2, body2))))
             /\ MATCH(line, MATCH(map, Rest(line, map, body))).st = "complete" =>
                  MATCH(line, MATCH(map, Rest(line, map, body))).at > 1
             /\ /\ MATCH(line, MATCH(map, Rest(line, map, body))) = Overflow
                /\ MATCH(line2, MATCH(map2, Rest(line2, map2, body2))).st = "complete"
                => Len(MATCH(line2, MATCH(map2, Rest(line2, map2, body2))).item.headers)
                     = HEADER_MAP_CAPACITY
  BY <1>1
<1> HIDE DEF Length
<1>3. ASSUME line.st = "complete"
      PROVE  /\ line2 = line /\ line.at \in Nat /\ line.at >= 1 /\ Stays(some, line.at, map, map2)
             /\ map.st = "complete" => map.at >= line.at + 2 /\ map.item \in Seq(Fields)
             /\ map = Overflow /\ map2.st = "complete" => Len(map2.item) = HEADER_MAP_CAPACITY
  <2>1. line2 = line /\ line.at \in p .. Size(some) + 1
    BY <1>3 DEF Stays
  <2>2. line.at \in Places(some) /\ line.at \in Nat /\ line.at >= 1
    BY <1>2, <2>1, PlaceIs
  <2>3. map2 = HeaderMap_parse(all, line.at)
    BY <2>1
  <2> HIDE DEF map2
  <2> QED
    BY <2>1, <2>2, <2>3, HeaderMapStays
<1>4. ASSUME line.st = "complete", map.st = "complete"
      PROVE  /\ Stays(some, map.at, Rest(line, map, body), Rest(line2, map2, body2))
             /\ map.at \in Nat /\ map.at > 1
  <2>1. /\ map2 = map /\ line2 = line /\ map.at \in line.at .. Size(some) + 1 /\ map.at > 1
        /\ line.at \in Nat /\ line.at >= 1
    BY <1>3, <1>4 DEF Stays
  <2>2. map.at \in Places(some) /\ map.at \in Nat
    BY <1>2, <2>1 DEF Places
  <2>3. Length(map) \in Nat \cup {-1}
    BY <1>3, <1>4, FindIs DEF Length
  <2>4. body2 = MessageBody_parse(all, map.at, Length(map))
    BY <2>1
  <2> HIDE DEF map, map2, body2
  <2>5. CASE Length(map) = -1
    <3>1. /\ Rest(line, map, body) = Failure("ContentLength")
          /\ Rest(line2, map2, body2) = Failure("ContentLength")
      BY <2>1, <2>5
    <3> QED
      BY <2>1, <2>2, <3>1, FailureStays
  <2>6. CASE Length(map) # -1
    <3>1. Stays(some, map.at, body, body2)
      BY <2>2, <2>3, <2>4, <2>6, BodyStays
    <3> HIDE DEF body
    <3>2. /\ Rest(line, map, body) = MATCH(body, End(line, map, body))
          /\ Rest(line2, map2, body2) = MATCH(body2, End(line, map, body2))
      BY <2>1, <2>6
    <3> HIDE DEF Rest
    <3>3. ASSUME body.st = "complete" PROVE Stays(some, body.at, End(line, map, body), End(line, map, body2))
      <4>1. body2 = body /\ body.at \in map.at .. Size(some) + 1
        BY <3>1, <3>3 DEF Stays
      <4>2. body.at \in Nat /\ body.at \in body.at .. Size(some) + 1
        BY <1>2, <2>2, <4>1
      <4> DEFINE x == Complete(body.at, Message(line, map, body))
      <4>3. End(line, map, body) \in {Failure("MissingCSeq"), Failure("InvalidCSeq"), x}
        OBVIOUS
      <4>4. Stays(some, body.at, x, x)
        BY <1>2, <4>2, CompleteStays
      <4> HIDE DEF End, x
      <4> QED
        BY <4>1, <4>3, <4>4, FailureStays
    <3> HIDE DEF End
    <3>4. Stays(some, map.at, MATCH(body, End(line, map, body)), MATCH(body2, End(line, map, body2)))
      BY <1>2, <2>2, <3>1, <3>3, MatchStays
    <3> QED
      BY <2>1, <2>2, <3>2, <3>4
  <2> QED
    BY <2>5, <2>6
<1>9. ASSUME NEW x, NEW m, NEW b PROVE
        /\ Rest(x, m, b) = Overflow => b = Overflow
        /\ Rest(x, m, b).st = "complete" => Rest(x, m, b).item.headers = m.item
  <2> DEFINE e == Failure("MissingCSeq")
             f == Failure("InvalidCSeq")
             g == Failure("ContentLength")
             c == Complete(b.at, Message(x, m, b))
  <2>1. Rest(x, m, b) \in {g, MATCH(b, e), MATCH(b, f), MATCH(b, c)}
    OBVIOUS
  <2>2. /\ e.st = "failure" /\ e # Overflow /\ f.st = "failure" /\ f # Overflow
        /\ g.st = "failure" /\ g # Overflow
    BY OverflowIs DEF Failure
  <2>3. c.st = "complete" /\ c.item.headers = m.item
    BY DEF Complete
  <2> HIDE DEF c, e, f, g
  <2> DEFINE r == Rest(x, m, b)
  <2> HIDE DEF r
  <2>4. r \in {g, b, e, f, c} /\ (r = b => b.st # "complete" \/ r \in {g, e, f, c})
    BY <2>1 DEF MATCH, r
  <2>5. (r = Overflow => b = Overflow) /\ (r.st = "complete" => r.item.headers = m.item)
    BY <2>2, <2>3, <2>4, OverflowIs
  <2> QED
    BY <2>5 DEF r
<1>10. body # Overflow
  BY OverflowIs DEF MessageBody_parse, Partial, Complete
<1> HIDE DEF map, map2, body, body2, Rest
<1>5. ASSUME line.st = "complete"
      PROVE  Stays(some, line.at, MATCH(map, Rest(line, map, body)), MATCH(map2, Rest(line2, map2, body2)))
  BY <1>2, <1>3, <1>4, <1>5, MatchStays
<1>6. Stays(some, p, MATCH(line, MATCH(map, Rest(line, map, body))),
                     MATCH(line2, MATCH(map2, Rest(line2, map2, body2))))
  BY <1>2, <1>5, MatchStays
<1>7. ASSUME MATCH(line, MATCH(map, Rest(line, map, body))).st = "complete"
      PROVE  MATCH(line, MATCH(map, Rest(line, map, body))).at > 1
  <2> DEFINE r == Rest(line, map, body)
  <2>1. line.st = "complete" /\ map.st = "complete"
        /\ MATCH(line, MATCH(map, r)) = r
    BY <1>7 DEF MATCH
  <2>2. Stays(some, map.at, r, Rest(line2, map2, body2)) /\ map.at \in Nat /\ map.at > 1
    BY <1>4, <2>1
  <2>3. r.st = "complete"
    BY <1>7, <2>1
  <2> HIDE DEF r
  <2>4. r.at \in map.at .. Size(some) + 1
    BY <2>2, <2>3 DEF Stays
  <2>5. r.at > 1
    BY <1>2, <2>2, <2>4
  <2> QED
    BY <2>1, <2>5 DEF r
<1>8. ASSUME MATCH(line, MATCH(map, Rest(line, map, body))) = Overflow,
             MATCH(line2, MATCH(map2, Rest(line2, map2, body2))).st = "complete"
      PROVE  Len(MATCH(line2, MATCH(map2, Rest(line2, map2, body2))).item.headers)
               = HEADER_MAP_CAPACITY
  <2> DEFINE later == Rest(line2, map2, body2)
  <2>1. line.st = "complete" /\ MATCH(map, Rest(line, map, body)) = Overflow
    BY <1>8 DEF MATCH
  <2>2. map = Overflow
    BY <1>9, <1>10, <2>1 DEF MATCH
  <2>3. MATCH(line2, MATCH(map2, later)) = later /\ map2.st = "complete" /\ later.st = "complete"
    BY <1>8 DEF MATCH
  <2>4. later.item.headers = map2.item
    BY <1>9, <2>3
  <2> HIDE DEF later
  <2>5. Len(MATCH(line2, MATCH(map2, later)).item.headers) = HEADER_MAP_CAPACITY
    BY <1>3, <2>1, <2>2, <2>3, <2>4
  <2> QED
    BY <2>5 DEF later
<1> QED
  BY <1>6, <1>7, <1>8

-----------------------------------------------------------------------------
(* The frames in front of a message. *)

(* The table of the loop over frames. *)
LEMMA FrameTable ==
  ASSUME NEW input, Size(input) \in Nat
  PROVE  \E f : /\ SkipFrames(input) = f[Size(input) + 1]
                /\ \A k \in 0 .. Size(input) + 1 :
                     f[k] = IF k = 0 THEN More(1, << >>) ELSE SkipFrame(input, f[k - 1])
<1> DEFINE Table(f) == f = [k \in 0 .. Size(input) + 1 |->
                              IF k = 0 THEN More(1, << >>) ELSE SkipFrame(input, f[k - 1])]
           turn == CHOOSE f : Table(f)
<1>1. \E f : Table(f)
  <2>1. Size(input) + 1 \in Nat
    OBVIOUS
  <2>2. PICK f : IsTable("frames", input, More(1, << >>), Size(input) + 1, f)
    BY <2>1, TurnsExist
  <2>3. Table(f)
    BY <2>2 DEF IsTable, Turn
  <2> QED
    BY <2>3
<1>2. Table(turn)
  BY <1>1
<1>3. SkipFrames(input) = turn[Size(input) + 1]
  BY Zenon DEF SkipFrames
<1> HIDE DEF turn
<1> QED
  BY <1>2, <1>3

(* What the loop over frames has done after k turns. *)
FramesStay(input, k, skipped, later) ==
  /\ skipped.st # "failure"
  /\ skipped.st = "complete" => later = skipped /\ skipped.at \in 1 .. Size(input) + 1
  /\ skipped.st = "more" => /\ later = skipped /\ skipped.at \in 1 .. Size(input) + 1
                            /\ skipped.at > k

(* One more turn: a frame takes octets that have all arrived. *)
LEMMA FrameTurnStays ==
  ASSUME NEW some, NEW all, Extends(some, all), NEW k \in Nat, NEW skipped, NEW later,
         FramesStay(some, k, skipped, later)
  PROVE  FramesStay(some, k + 1, SkipFrame(some, skipped), SkipFrame(all, later))
<1> DEFINE s == SkipFrame(some, skipped)
           l == SkipFrame(all, later)
<1> SUFFICES FramesStay(some, k + 1, s, l)
  OBVIOUS
<1>1. Size(some) \in Nat /\ Size(all) \in Nat /\ Size(some) <= Size(all)
  BY SizeIs DEF Extends
<1>2. CASE skipped.st # "more"
  <2>1. s = skipped /\ (later = skipped => l = skipped)
    BY <1>2 DEF SkipFrame
  <2> HIDE DEF s, l
  <2> QED
    BY <1>2, <2>1 DEF FramesStay
<1>3. CASE skipped.st = "more"
  <2> DEFINE p == skipped.at
             len == 10 * Value(some.octets[p + 2]) + Value(some.octets[p + 3])
             len2 == 10 * Value(all.octets[p + 2]) + Value(all.octets[p + 3])
  <2>1. later = skipped /\ p \in Nat /\ p >= 1 /\ p <= Size(some) + 1 /\ p > k
    BY <1>1, <1>3 DEF FramesStay
  <2>2. /\ s = (IF Size(some) - p + 1 < 4 THEN Partial
                ELSE IF some.octets[p] # "$" THEN Matched(p)
                ELSE IF Size(some) - p - 3 < len THEN Partial
                ELSE More(p + 4 + len, << >>))
        /\ l = (IF Size(all) - p + 1 < 4 THEN Partial
                ELSE IF all.octets[p] # "$" THEN Matched(p)
                ELSE IF Size(all) - p - 3 < len2 THEN Partial
                ELSE More(p + 4 + len2, << >>))
    BY <1>3, <2>1 DEF SkipFrame
  <2>3. len \in Nat
    <3>1. Value(some.octets[p + 2]) \in 0 .. 9 /\ Value(some.octets[p + 3]) \in 0 .. 9
      BY ValueIs
    <3> QED
      BY <3>1
  <2>4. ASSUME ~ (Size(some) - p + 1 < 4) PROVE all.octets[p] = some.octets[p] /\ len2 = len
    <3>1. p \in 1 .. Size(some) /\ p + 2 \in 1 .. Size(some) /\ p + 3 \in 1 .. Size(some)
      BY <1>1, <2>1, <2>4
    <3> QED
      BY <3>1 DEF Extends
  <2> HIDE DEF s, l, len, len2, p
  <2>5. CASE s = Partial
    BY <2>5 DEF FramesStay, Partial
  <2>6. CASE ~ (Size(some) - p + 1 < 4) /\ some.octets[p] # "$"
    <3>1. s = Matched(p) /\ l = Matched(p)
      BY <1>1, <2>1, <2>2, <2>4, <2>6
    <3>2. Matched(p).st = "complete" /\ Matched(p).at = p /\ p \in 1 .. Size(some) + 1
      BY <1>1, <2>1 DEF Matched, Complete
    <3> QED
      BY <3>1, <3>2 DEF FramesStay
  <2>7. CASE ~ (Size(some) - p + 1 < 4) /\ some.octets[p] = "$" /\ ~ (Size(some) - p - 3 < len)
    <3> DEFINE m == More(p + 4 + len, << >>)
    <3>1. ~ (Size(all) - p + 1 < 4) /\ ~ (Size(all) - p - 3 < len)
      BY <1>1, <2>1, <2>3, <2>7
    <3>2. s = m /\ l = m
      BY <2>2, <2>4, <2>7, <3>1
    <3>3. m.st = "more" /\ m.at = p + 4 + len /\ m.at \in 1 .. Size(some) + 1 /\ m.at > k + 1
      BY <1>1, <2>1, <2>3, <2>7 DEF More
    <3> HIDE DEF m
    <3> QED
      BY <3>2, <3>3 DEF FramesStay
  <2> QED
    BY <2>2, <2>5, <2>6, <2>7
<1> HIDE DEF s, l
<1> QED
  BY <1>2, <1>3

(* The loop ends within its turns, and no input makes it fail.             *)
LEMMA SkipFramesStays ==
  ASSUME NEW some, NEW all, Extends(some, all)
  PROVE  Stays(some, 1, SkipFrames(some), SkipFrames(all)) /\ SkipFrames(some).st # "failure"
<1> DEFINE M == Size(some) + 1
           N == Size(all) + 1
<1>1. M \in Nat /\ N \in Nat /\ M <= N /\ Size(some) \in Nat /\ Size(all) \in Nat /\ M >= 1
  BY SizeIs DEF Extends
<1>2. PICK f : /\ SkipFrames(some) = f[M]
               /\ \A k \in 0 .. M : f[k] = IF k = 0 THEN More(1, << >>) ELSE SkipFrame(some, f[k - 1])
  BY <1>1, FrameTable
<1>3. PICK g : /\ SkipFrames(all) = g[N]
               /\ \A k \in 0 .. N : g[k] = IF k = 0 THEN More(1, << >>) ELSE SkipFrame(all, g[k - 1])
  BY <1>1, FrameTable
<1> DEFINE S == {k \in Nat : k <= M => FramesStay(some, k, f[k], g[k])}
<1> HIDE DEF M, N
<1>4. 0 \in S
  <2>1. 0 \in 0 .. M /\ 0 \in 0 .. N
    BY <1>1
  <2> DEFINE m == More(1, << >>)
  <2>2. f[0] = m /\ g[0] = m
    BY <1>2, <1>3, <2>1
  <2>3. m.st = "more" /\ m.at = 1 /\ 1 \in 1 .. Size(some) + 1
    BY <1>1 DEF More
  <2> HIDE DEF m
  <2> QED
    BY <2>2, <2>3 DEF FramesStay
<1>5. ASSUME NEW k \in Nat, k \in S PROVE k + 1 \in S
  <2> SUFFICES ASSUME k + 1 <= M PROVE FramesStay(some, k + 1, f[k + 1], g[k + 1])
    OBVIOUS
  <2>1. k + 1 \in 0 .. M /\ k + 1 \in 0 .. N /\ k + 1 # 0 /\ (k + 1) - 1 = k /\ k <= M
    BY <1>1
  <2>2. f[k + 1] = SkipFrame(some, f[k]) /\ g[k + 1] = SkipFrame(all, g[k])
    BY <1>2, <1>3, <2>1
  <2> QED
    BY <1>5, <2>1, <2>2, FrameTurnStays
<1>6. FramesStay(some, M, f[M], g[M])
  <2> HIDE DEF S
  <2>1. Nat \subseteq S
    BY <1>4, <1>5, SetInduction
  <2> QED
    BY <1>1, <2>1 DEF S
<1>7. f[M].st # "more" /\ f[M].st # "failure"
  <2>1. ASSUME f[M].st = "more" PROVE FALSE
    <3>1. f[M].at \in 1 .. M /\ f[M].at > M
      BY <1>6, <2>1 DEF FramesStay, M
    <3> QED
      BY <1>1, <3>1
  <2> QED
    BY <1>6, <2>1 DEF FramesStay
<1>8. ASSUME f[M].st = "complete" PROVE g[N] = f[M] /\ f[M].at \in 1 .. Size(some) + 1
  <2> DEFINE T == {k \in Nat : M <= k /\ k <= N => g[k] = f[M]}
  <2>1. g[M] = f[M] /\ f[M].at \in 1 .. Size(some) + 1
    BY <1>6, <1>8 DEF FramesStay
  <2>2. 0 \in T
    BY <1>1
  <2>3. ASSUME NEW k \in Nat, k \in T PROVE k + 1 \in T
    <3> SUFFICES ASSUME M <= k + 1, k + 1 <= N PROVE g[k + 1] = f[M]
      OBVIOUS
    <3>1. CASE k + 1 = M
      BY <2>1, <3>1
    <3>2. CASE k + 1 # M
      <4>1. M <= k /\ k <= N /\ k + 1 \in 0 .. N /\ k + 1 # 0 /\ (k + 1) - 1 = k
        BY <1>1, <3>2
      <4>2. g[k + 1] = SkipFrame(all, g[k]) /\ g[k] = f[M]
        BY <1>3, <2>3, <4>1
      <4> QED
        BY <1>8, <4>2 DEF SkipFrame
    <3> QED
      BY <3>1, <3>2
  <2>4. N \in T
    <3> HIDE DEF T
    <3>1. Nat \subseteq T
      BY <2>2, <2>3, SetInduction
    <3> QED
      BY <1>1, <3>1
  <2> QED
    BY <1>1, <2>1, <2>4
<1> QED
  BY <1>2, <1>3, <1>7, <1>8 DEF Stays

-----------------------------------------------------------------------------
(* Whole messages. *)

(* Start lines are no header map. *)
LEMMA LineEnds ==
  ASSUME NEW input, NEW p
  PROVE  RequestLine_parse(input, p) # Overflow /\ ResponseLine_parse(input, p) # Overflow
<1> DEFINE Plain(r) == r # Overflow
<1>1. /\ Plain(Partial) /\ Plain(Failure("StrMismatch")) /\ Plain(Failure("TypeMismatch"))
      /\ \A x, y : Plain(Complete(x, y))
  BY OverflowIs DEF Partial, Failure, Complete
<1> HIDE DEF Plain
<1>2. \A q, matcher : Plain(match_until(input, q, matcher))
  BY <1>1 DEF match_until, Matched
<1>3. \A q, matcher : Plain(match_type(input, q, matcher))
  BY <1>1, <1>2 DEF match_type
<1>4. \A q, str : Plain(match_str(input, q, str))
  BY <1>1 DEF match_str, Matched
<1>5. \A r, rest : Plain(r) /\ Plain(rest) => Plain(MATCH(r, rest))
  BY DEF MATCH
<1>6. \A q : Plain(Method_parse(input, q))
  BY <1>1, <1>2, <1>3, <1>5 DEF Method_parse, match_whitespaces, match_ident
<1>7. \A q : Plain(RequestUri_parse(input, q))
  BY <1>1, <1>2, <1>5 DEF RequestUri_parse, match_whitespaces, match_non_whitespaces
<1>8. \A q : Plain(RtspVersion_parse(input, q))
  BY <1>1, <1>2, <1>3, <1>4, <1>5
  DEF RtspVersion_parse, match_whitespaces, match_numeric, match_char, Matched
<1>9. \A q : Plain(StatusCode_parse(input, q))
  BY <1>1, <1>2, <1>3, <1>5 DEF StatusCode_parse, match_whitespaces, match_numeric
<1>10. \A q : Plain(ReasonPhrase_parse(input, q))
  BY <1>1, <1>2, <1>5 DEF ReasonPhrase_parse, match_whitespaces, match_until_crlf, Matched
<1>11. Plain(RequestLine_parse(input, p))
  BY <1>1, <1>4, <1>5, <1>6, <1>7, <1>8 DEF RequestLine_parse
<1>12. Plain(ResponseLine_parse(input, p))
  BY <1>1, <1>5, <1>8, <1>9, <1>10 DEF ResponseLine_parse
<1> QED
  BY <1>11, <1>12 DEF Plain

(* What was read of the octets that have arrived is read with more of      *)
(* them, and takes one of them at least.                                   *)
LEMMA ParsedStays ==
  ASSUME NEW some, NEW all, Extends(some, all), NEW who
  PROVE  LET r == Parsed(who, some)
         IN  /\ Stays(some, 1, r, Parsed(who, all))
             /\ r.st = "complete" => r.at \in 2 .. Size(some) + 1
             /\ r = Overflow /\ Parsed(who, all).st = "complete" =>
                  Len(Parsed(who, all).item.headers) = HEADER_MAP_CAPACITY
<1> DEFINE start == SkipFrames(some)
           start2 == SkipFrames(all)
           Line(input, p) == IF who = "server" THEN RequestLine_parse(input, p)
                             ELSE ResponseLine_parse(input, p)
           rest == Message_parse(some, Line(some, start.at))
           rest2 == Message_parse(all, Line(all, start2.at))
<1>1. Parsed(who, some) = MATCH(start, rest) /\ Parsed(who, all) = MATCH(start2, rest2)
  BY DEF Parsed, Request_parse, Response_parse
<1>2. Stays(some, 1, start, start2) /\ Size(some) \in Nat /\ start.st # "failure"
  BY SkipFramesStays, SizeIs
<1>3. ASSUME start.st = "complete"
      PROVE  /\ Stays(some, start.at, rest, rest2) /\ (rest.st = "complete" => rest.at > 1)
             /\ rest = Overflow /\ rest2.st = "complete" =>
                  Len(rest2.item.headers) = HEADER_MAP_CAPACITY
  <2>1. start2 = start /\ start.at \in 1 .. Size(some) + 1
    BY <1>2, <1>3 DEF Stays
  <2>2. start.at \in Places(some)
    BY <2>1 DEF Places
  <2>3. Stays(some, start.at, Line(some, start.at), Line(all, start2.at))
    BY <2>1, <2>2, RequestLineStays, ResponseLineStays
  <2>4. Line(some, start.at) # Overflow
    BY LineEnds
  <2> HIDE DEF start, start2, Line
  <2> QED
    BY <2>2, <2>3, <2>4, MessageStays
<1> HIDE DEF start, start2, rest, rest2
<1>4. Stays(some, 1, MATCH(start, rest), MATCH(start2, rest2))
  BY <1>2, <1>3, MatchStays, 1 \in Nat
<1>5. ASSUME MATCH(start, rest).st = "complete" PROVE MATCH(start, rest).at \in 2 .. Size(some) + 1
  <2>1. start.st = "complete" /\ MATCH(start, rest) = rest
    BY <1>5 DEF MATCH
  <2>2. MATCH(start, rest).at \in 1 .. Size(some) + 1
    BY <1>4, <1>5 DEF Stays
  <2>3. rest.at > 1
    BY <1>3, <1>5, <2>1
  <2> QED
    BY <1>2, <2>1, <2>2, <2>3
<1>6. ASSUME MATCH(start, rest) = Overflow, MATCH(start2, rest2).st = "complete"
      PROVE  Len(MATCH(start2, rest2).item.headers) = HEADER_MAP_CAPACITY
  <2>1. start.st = "complete" /\ rest = Overflow
    BY <1>2, <1>6, OverflowIs DEF MATCH
  <2>2. MATCH(start2, rest2) = rest2
    BY <1>6 DEF MATCH
  <2> QED
    BY <1>3, <1>6, <2>1, <2>2
<1> QED
  BY <1>1, <1>4, <1>5, <1>6

-----------------------------------------------------------------------------
(* Reading message by message. *)

(* The messages of octets that arrive at once, one behind the other. *)
LEMMA AtOnceIs ==
  ASSUME NEW who, NEW octets, Len(octets) \in Nat
  PROVE  \A k \in 0 .. Len(octets) :
           AtOnce(who, octets)[k] = IF k = 0 THEN [left |-> octets, messages |-> << >>]
                                    ELSE ReadOne(who, AtOnce(who, octets)[k - 1])
<1> DEFINE first == [left |-> octets, messages |-> << >>]
           Table(f) == f = [k \in 0 .. Len(octets) |->
                              IF k = 0 THEN first ELSE ReadOne(who, f[k - 1])]
           read == CHOOSE f : Table(f)
<1>1. \E f : Table(f)
  <2>1. PICK f : IsTable("messages", who, first, Len(octets), f)
    BY TurnsExist
  <2> HIDE DEF first
  <2>2. Table(f)
    BY <2>1 DEF IsTable, Turn
  <2> QED
    BY <2>2
<1>2. Table(read)
  BY <1>1
<1>3. AtOnce(who, octets) = read
  BY Zenon DEF AtOnce
<1> HIDE DEF read
<1> QED
  BY <1>2, <1>3

(* The ends of a buffer. *)
LEMMA SuffixIs ==
  ASSUME NEW b \in Seq(Alphabet), NEW S, NEW str \in Seq(S), NEW past,
         EndsBehind(Input(b, past), str)
  PROVE  IsSuffix(str, b)
<1> DEFINE n == Len(str)
           m == Len(b)
           u == Reverse(str)
           v == Reverse(b)
<1>1. n \in Nat /\ m \in Nat /\ n <= m /\ SubSeq(b, m + 1 - n, m) = str
  BY LenProperties DEF EndsBehind, Input, Size, Part
<1>2. \A i \in 1 .. n : str[i] \in S
  BY <1>1, ElementOfSeq
<1>3. \A i \in 1 .. m : b[i] \in Alphabet
  BY <1>1, ElementOfSeq
<1>4. \A i \in 1 .. n : str[i] = b[m - n + i]
  <2> DEFINE p == m + 1 - n
  <2>1. p \in Int /\ m \in Int /\ m - p + 1 = n /\ \A i \in p .. m : b[i] \in Alphabet
    BY <1>1, <1>3
  <2>2. \A i \in 1 .. n : p + i - 1 = m - n + i
    BY <1>1
  <2> HIDE DEF p
  <2>3. \A i \in 1 .. m - p + 1 : SubSeq(b, p, m)[i] = b[p + i - 1]
    BY <2>1, SubSeqProperties
  <2> QED
    BY <1>1, <2>1, <2>2, <2>3 DEF p
<1>5. u \in Seq(S) /\ Len(u) = n /\ \A i \in 1 .. n : u[i] = str[n - i + 1]
  <2>1. \A i \in 1 .. n : str[n - i + 1] \in S
    BY <1>1, <1>2
  <2> QED
    BY <1>1, <2>1 DEF Reverse
<1>6. v \in Seq(Alphabet) /\ Len(v) = m /\ \A i \in 1 .. m : v[i] = b[m - i + 1]
  <2>1. \A i \in 1 .. m : b[m - i + 1] \in Alphabet
    BY <1>1, <1>3
  <2> QED
    BY <1>1, <2>1 DEF Reverse
<1>7. ASSUME NEW i \in 1 .. n PROVE u[i] = v[i]
  <2>1. n - i + 1 \in 1 .. n /\ i \in 1 .. m /\ m - n + (n - i + 1) = m - i + 1
    BY <1>1
  <2> QED
    BY <1>4, <1>5, <1>6, <2>1
<1> HIDE DEF u, v, n, m
<1>8. SubSeq(u, 1, n) = u
  BY <1>5, SubSeqFull
<1>9. /\ SubSeq(v, 1, n) \in Seq(Alphabet) /\ Len(SubSeq(v, 1, n)) = n
      /\ \A i \in 1 .. n : SubSeq(v, 1, n)[i] = v[i]
  BY <1>1, <1>6, FirstOnes
<1> DEFINE w == SubSeq(v, 1, n)
<1>10. u \in Seq(Alphabet \cup S) /\ w \in Seq(Alphabet \cup S) /\ Len(u) = Len(w)
  BY <1>5, <1>9, SeqMonotonic
<1>11. \A i \in 1 .. Len(u) : u[i] = w[i]
  BY <1>5, <1>7, <1>9
<1> HIDE DEF w
<1>12. u = w
  BY <1>10, <1>11, SeqEqual
<1> QED
  BY <1>1, <1>5, <1>6, <1>8, <1>12 DEF IsSuffix, IsPrefix, u, v, w

(* A message is taken from the front, whatever has arrived behind it. *)
LEMMA DropIs ==
  ASSUME NEW b \in Seq(Alphabet), NEW w \in Seq(Alphabet), NEW q \in 2 .. Len(b) + 1
  PROVE  LET rest == SubSeq(b, q, Len(b))
         IN  /\ rest \in Seq(Alphabet) /\ Len(rest) < Len(b)
             /\ rest \o w = SubSeq(b \o w, q, Len(b \o w))
             /\ rest \o w # << >> =>
                  /\ b \o w # << >>
                  /\ (rest \o w)[Len(rest \o w)] = (b \o w)[Len(b \o w)]
<1> DEFINE m == Len(b)
           n == Len(w)
           c == b \o w
           r == SubSeq(b, q, m)
           s == SubSeq(c, q, m + n)
<1>1. m \in Nat /\ n \in Nat /\ q \in Int /\ q >= 2 /\ q <= m + 1
  BY LenProperties
<1>2. /\ c \in Seq(Alphabet) /\ Len(c) = m + n
      /\ \A i \in 1 .. m + n : c[i] = IF i <= m THEN b[i] ELSE w[i - m]
  BY ConcatProperties
<1> HIDE DEF c
<1>3. /\ r \in Seq(Alphabet) /\ Len(r) = m - q + 1
      /\ \A i \in 1 .. m - q + 1 : r[i] = b[q + i - 1]
  <2>1. \A i \in q .. m : i \in 1 .. Len(b)
    BY <1>1
  <2>2. \A i \in q .. m : b[i] \in Alphabet
    BY <2>1, ElementOfSeq
  <2>3. /\ SubSeq(b, q, m) \in Seq(Alphabet)
        /\ Len(SubSeq(b, q, m)) = IF q <= m THEN m - q + 1 ELSE 0
        /\ \A i \in 1 .. m - q + 1 : SubSeq(b, q, m)[i] = b[q + i - 1]
    BY <1>1, <2>2, SubSeqProperties
  <2>4. (IF q <= m THEN m - q + 1 ELSE 0) = m - q + 1
    BY <1>1
  <2> QED
    BY <2>3, <2>4
<1>4. /\ s \in Seq(Alphabet) /\ Len(s) = m + n - q + 1
      /\ \A i \in 1 .. m + n - q + 1 : s[i] = c[q + i - 1]
  <2> DEFINE t == m + n
  <2>1. t \in Int /\ (IF q <= t THEN t - q + 1 ELSE 0) = m + n - q + 1
    BY <1>1
  <2>2. \A i \in q .. t : i \in 1 .. Len(c)
    BY <1>1, <1>2
  <2>3. \A i \in q .. t : c[i] \in Alphabet
    BY <1>2, <2>2, ElementOfSeq
  <2>5. q \in Int /\ t \in Int
    BY <1>1, <2>1
  <2> HIDE DEF t, m, n, r, s
  <2>4. /\ SubSeq(c, q, t) \in Seq(Alphabet)
        /\ Len(SubSeq(c, q, t)) = IF q <= t THEN t - q + 1 ELSE 0
        /\ \A i \in 1 .. t - q + 1 : SubSeq(c, q, t)[i] = c[q + i - 1]
    BY ONLY <2>5, <2>3, SubSeqProperties
  <2> QED
    BY <2>1, <2>4 DEF t, s
<1> HIDE DEF r, s
<1> DEFINE u == r \o w
<1>5. /\ u \in Seq(Alphabet) /\ Len(u) = Len(r) + n
      /\ \A i \in 1 .. Len(r) + n : u[i] = IF i <= Len(r) THEN r[i] ELSE w[i - Len(r)]
  BY <1>3, ConcatProperties
<1> HIDE DEF u
<1>6. Len(u) = Len(s)
  BY <1>1, <1>3, <1>4, <1>5
<1>7. ASSUME NEW i \in 1 .. Len(u) PROVE u[i] = s[i]
  <2>1. /\ i \in 1 .. Len(r) + n /\ i \in 1 .. m + n - q + 1 /\ i \in Nat /\ i >= 1
        /\ q + i - 1 \in 1 .. m + n
    BY <1>1, <1>3, <1>5
  <2>2. CASE i <= Len(r)
    <3>1. i \in 1 .. m - q + 1 /\ q + i - 1 <= m
      BY <1>1, <1>3, <2>1, <2>2
    <3> QED
      BY <1>2, <1>3, <1>4, <1>5, <2>1, <2>2, <3>1
  <2>3. CASE ~ (i <= Len(r))
    <3>1. ~ (q + i - 1 <= m) /\ q + i - 1 - m = i - Len(r)
      BY <1>1, <1>3, <2>1, <2>3
    <3> DEFINE j == q + i - 1
    <3>2. s[i] = c[j] /\ j \in 1 .. m + n /\ ~ (j <= m) /\ j - m = i - Len(r)
      BY <1>4, <2>1, <3>1
    <3> HIDE DEF j
    <3>3. c[j] = w[j - m]
      BY <1>2, <3>2
    <3>4. u[i] = w[i - Len(r)]
      BY <1>5, <2>1, <2>3
    <3> QED
      BY <3>2, <3>3, <3>4
  <2> QED
    BY <2>2, <2>3
<1>8. u = s
  BY <1>4, <1>5, <1>6, <1>7, SeqEqual
<1>9. Len(r) < m
  BY <1>1, <1>3
<1>10. ASSUME u # << >> PROVE c # << >> /\ u[Len(u)] = c[Len(c)]
  <2>1. Len(u) >= 1
    BY <1>5, <1>10, EmptySeq
  <2> DEFINE k == m + n - q + 1
  <2>2. k \in 1 .. m + n - q + 1 /\ q + k - 1 = Len(c) /\ k = Len(u) /\ Len(c) > 0
    <3>1. Len(u) = k /\ Len(c) = m + n
      BY <1>2, <1>4, <1>6
    <3> HIDE DEF m, n
    <3> QED
      BY <1>1, <2>1, <3>1
  <2> HIDE DEF k
  <2>3. s[k] = c[Len(c)]
    BY <1>4, <2>2
  <2>4. c # << >>
    BY <2>2, EmptySeq
  <2> QED
    BY <1>8, <2>2, <2>3, <2>4
<1> QED
  BY <1>2, <1>3, <1>8, <1>9, <1>10 DEF u, s, r, c

(* What has arrived, and all of it. *)
LEMMA ArrivedExtends ==
  ASSUME NEW b \in Seq(Alphabet), NEW w \in Seq(Alphabet),
         b \o w # << >> => (b \o w)[Len(b \o w)] # "CR",
         NEW past, NEW later
  PROVE  Extends(Input(b, past), Input(b \o w, later))
<1>1. /\ b \o w \in Seq(Alphabet) /\ Len(b \o w) = Len(b) + Len(w)
      /\ \A i \in 1 .. Len(b) + Len(w) : (b \o w)[i] = IF i <= Len(b) THEN b[i] ELSE w[i - Len(b)]
      /\ Len(b) \in Nat /\ Len(w) \in Nat
  BY ConcatProperties, LenProperties
<1>2. Input(b, past).octets = b /\ Input(b \o w, later).octets = b \o w
  BY DEF Input
<1>3. \A i \in 1 .. Len(b) : (b \o w)[i] = b[i]
  BY <1>1
<1>4. Len(b \o w) > 0 => b \o w # << >>
  BY <1>1, EmptySeq
<1>5. Len(b) <= Len(b \o w)
  BY <1>1
<1> QED
  BY <1>1, <1>2, <1>3, <1>4, <1>5 DEF Extends, Size

-----------------------------------------------------------------------------
(* The connection. *)

(* What the reader has and what has not arrived is what is left after as   *)
(* many messages read at once; a reader that waits has nothing complete to *)
(* read, once all has arrived, and one that failed has a malformed message *)
(* in its buffer.                                                          *)
ReadSoFar ==
  /\ wire \in Seq(Alphabet) /\ buffer \in Seq(Alphabet)
  /\ \E S : delivered \in Seq(S)
  /\ buffer \o wire # << >> => (buffer \o wire)[Len(buffer \o wire)] # "CR"
  /\ Len(delivered) + Len(buffer \o wire) <= Len(Sent(traffic))
  /\ AtOnce(role, Sent(traffic))[Len(delivered)] =
       [left |-> buffer \o wire, messages |-> delivered]
  /\ stage = "waiting" /\ wire = << >> => Parsed(role, Input(buffer, Nothing)).st # "complete"
  /\ stage = "failed" => Parsed(role, Input(buffer, beyond)).st = "failure"

ReadingInv ==
  /\ role \in {"server", "client"} /\ traffic \in Traffic[role]
  /\ ~ IsSuffix(<<"CR">>, Sent(traffic)) => ReadSoFar

(* What peers send are octets. *)
LEMMA SentIs ==
  ASSUME role \in {"server", "client"}, traffic \in Traffic[role]
  PROVE  Sent(traffic) \in Seq(Alphabet) /\ Len(Sent(traffic)) \in Nat
<1>1. Sent(traffic) \in Seq(Alphabet)
  BY ConnectionAssumption
<1> QED
  BY <1>1, LenProperties

(* Nothing is read before anything has arrived, and it is not complete.    *)
LEMMA ReadingInit ==
  ConnectionInit => ReadingInv
<1> SUFFICES ASSUME ConnectionInit PROVE ReadingInv
  OBVIOUS
<1>1. role \in {"server", "client"} /\ traffic \in Traffic[role]
  BY DEF ConnectionInit
<1> SUFFICES ASSUME ~ IsSuffix(<<"CR">>, Sent(traffic)) PROVE ReadSoFar
  BY <1>1 DEF ReadingInv
<1> DEFINE all == Sent(traffic)
<1>2. all \in Seq(Alphabet) /\ Len(all) \in Nat
  BY <1>1, SentIs
<1>3. all # << >> => all[Len(all)] # "CR"
  <2> SUFFICES ASSUME all # << >>, all[Len(all)] = "CR" PROVE FALSE
    OBVIOUS
  <2> HIDE DEF all
  <2>1. Len(all) >= 1
    BY <1>2, EmptySeq
  <2>2. SubSeq(all, Len(all), Len(all)) = <<"CR">>
    <3> DEFINE n == Len(all)
               c == SubSeq(all, n, n)
    <3>1. all[n] \in Alphabet
      BY <1>2, <2>1, ElementOfSeq
    <3>2. \A i \in n .. n : all[i] \in Alphabet
      BY <1>2, <3>1
    <3>3. /\ c \in Seq(Alphabet) /\ Len(c) = (IF n <= n THEN n - n + 1 ELSE 0)
          /\ \A i \in 1 .. n - n + 1 : c[i] = all[n + i - 1]
      BY <1>2, <3>2, SubSeqProperties
    <3>4. Len(c) = 1 /\ c[1] = "CR"
      <4>1. n - n + 1 = 1 /\ n + 1 - 1 = n /\ n <= n /\ 1 \in 1 .. 1
        BY <1>2
      <4> QED
        BY <3>3, <4>1
    <3> HIDE DEF c, n
    <3> DEFINE d == <<"CR">>
    <3>5. d \in Seq(Alphabet \cup {"CR"}) /\ Len(d) = 1 /\ d[1] = "CR"
      OBVIOUS
    <3>6. c \in Seq(Alphabet \cup {"CR"})
      BY <3>3, SeqMonotonic
    <3> HIDE DEF d
    <3>7. c = d
      BY <3>4, <3>5, <3>6, SeqEqual
    <3> QED
      BY <3>7 DEF c, d, n
  <2>3. EndsBehind(Input(all, Nothing), <<"CR">>)
    <3>1. Input(all, Nothing).octets = all /\ Len(<<"CR">>) = 1
      BY DEF Input
    <3>2. Len(all) + 1 - 1 = Len(all)
      BY <1>2
    <3> QED
      BY <2>1, <2>2, <3>1, <3>2 DEF EndsBehind, Size, Part
  <2>4. <<"CR">> \in Seq({"CR"})
    OBVIOUS
  <2>5. IsSuffix(<<"CR">>, all)
    BY <1>2, <2>3, <2>4, SuffixIs
  <2> QED
    BY <2>5 DEF all
<1>4. wire = all /\ buffer = << >> /\ delivered = << >> /\ stage = "waiting"
  BY DEF ConnectionInit
<1>5. << >> \o all = all /\ Len(<< >>) = 0 /\ << >> \in Seq(Alphabet) /\ << >> \in Seq({})
  BY <1>2, ConcatEmptySeq, EmptySeq
<1> HIDE DEF all
<1>6. AtOnce(role, all)[0] = [left |-> all, messages |-> << >>]
  <2>1. 0 \in 0 .. Len(all)
    BY <1>2
  <2> QED
    BY <1>2, <2>1, AtOnceIs
<1>7. Parsed(role, Input(<< >>, Nothing)).st # "complete"
  <2> DEFINE none == Input(<< >>, Nothing)
  <2>1. none.octets = << >>
    BY DEF Input
  <2>2. Size(none) = 0
    BY <1>5, <2>1 DEF Size
  <2>3. Extends(none, none)
    <3> HIDE DEF none
    <3>1. none.octets \in Seq(Alphabet)
      BY <1>5, <2>1
    <3>2. Size(none) <= Size(none) /\ ~ (Size(none) > 0) /\ \A i \in 1 .. Size(none) : FALSE
      BY <2>2
    <3> QED
      BY <3>1, <3>2 DEF Extends
  <2> HIDE DEF none
  <2>4. Parsed(role, none).st = "complete" => Parsed(role, none).at \in 2 .. Size(none) + 1
    BY <2>3, ParsedStays
  <2>5. Parsed(role, none).st # "complete"
    BY <2>2, <2>4
  <2> QED
    BY <2>5 DEF none
<1>8. Len(delivered) = 0 /\ buffer \o wire = all /\ Len(delivered) + Len(buffer \o wire) <= Len(all)
  BY <1>2, <1>4, <1>5
<1> QED
  BY <1>2, <1>3, <1>4, <1>5, <1>6, <1>7, <1>8 DEF ReadSoFar, all

(* Octets that arrive go from the wire to the end of the buffer. *)
LEMMA ReceiveReads ==
  ASSUME ReadSoFar, NEW n \in 1 .. Len(wire), Receive(n)
  PROVE  ReadSoFar'
<1> DEFINE w == wire
           here == SubSeq(w, 1, n)
           there == SubSeq(w, n + 1, Len(w))
<1>1. w \in Seq(Alphabet) /\ buffer \in Seq(Alphabet) /\ Len(w) \in Nat /\ n \in Nat
  BY LenProperties DEF ReadSoFar
<1>2. buffer' = buffer \o here /\ wire' = there /\ UNCHANGED <<role, traffic, delivered>>
      /\ stage' = "parse"
  BY DEF Receive
<1> HIDE DEF w
<1>3. /\ n \in 0 .. Len(w) /\ n + 1 \in 1 .. Len(w) + 1 /\ n \in 1 - 1 .. Len(w) /\ 1 \in 1 .. Len(w) + 1
      /\ Len(w) \in n .. Len(w)
  BY <1>1 DEF w
<1>4. here \in Seq(Alphabet)
  BY <1>1, <1>3, FirstOnes
<1>5. here \o there = w
  <2>1. here \o there = SubSeq(w, 1, Len(w))
    BY <1>1, <1>3, ConcatAdjacentSubSeq
  <2> QED
    BY <1>1, <2>1, SubSeqFull
<1>6. there \in Seq(Alphabet)
  <2>1. \A i \in n + 1 .. Len(w) : i \in 1 .. Len(w)
    BY <1>1
  <2>2. \A i \in n + 1 .. Len(w) : w[i] \in Alphabet
    BY <1>1, <2>1, ElementOfSeq
  <2> QED
    BY <1>1, <2>2, SubSeqProperties
<1> HIDE DEF here, there
<1>7. buffer' \o wire' = buffer \o wire
  <2>1. \A a, b, c \in Seq(Alphabet) : (a \o b) \o c = a \o (b \o c)
    BY ConcatAssociative, SMTT(30)
  <2>2. (buffer \o here) \o there = buffer \o (here \o there)
    BY <1>1, <1>4, <1>6, <2>1, ZenonT(30)
  <2> QED
    BY <1>2, <1>5, <2>2 DEF w
<1>8. wire' \in Seq(Alphabet) /\ buffer' \in Seq(Alphabet)
  BY <1>1, <1>2, <1>4, <1>6, ConcatProperties
<1> QED
  BY <1>2, <1>7, <1>8 DEF ReadSoFar

(* A message that is read is the next of those read at once. *)
LEMMA ParseReads ==
  ASSUME role \in {"server", "client"}, traffic \in Traffic[role], ReadSoFar, Parse
  PROVE  ReadSoFar'
<1> DEFINE now == Input(buffer, beyond)
           r == Parsed(role, now)
           all == Input(buffer \o wire, Nothing)
           total == Sent(traffic)
<1>1. /\ wire \in Seq(Alphabet) /\ buffer \in Seq(Alphabet)
      /\ buffer \o wire # << >> => (buffer \o wire)[Len(buffer \o wire)] # "CR"
  BY DEF ReadSoFar
<1>2. Extends(now, all)
  BY <1>1, ArrivedExtends
<1>3. Stays(now, 1, r, Parsed(role, all)) /\ (r.st = "complete" => r.at \in 2 .. Size(now) + 1)
  <2> HIDE DEF now, all
  <2> QED
    BY <1>2, ParsedStays
<1>4. Size(now) = Len(buffer)
  BY DEF Size, Input
<1>5. /\ \/ r.st = "partial" /\ stage' = "waiting" /\ UNCHANGED <<buffer, delivered>>
         \/ r.st = "failure" /\ stage' = "failed" /\ UNCHANGED <<buffer, delivered>>
         \/ /\ r.st = "complete"
            /\ delivered' = Append(delivered, r.item)
            /\ buffer' = SubSeq(buffer, r.at, Len(buffer))
            /\ stage' = IF role = "server" THEN "dispatch" ELSE "parse"
      /\ UNCHANGED <<role, traffic, wire, beyond>>
  BY DEF Parse, Take
<1>6. CASE r.st = "partial" /\ stage' = "waiting" /\ UNCHANGED <<buffer, delivered>>
  <2>1. ASSUME wire = << >> PROVE Parsed(role, Input(buffer, Nothing)).st # "complete"
    <3> DEFINE some == Input(buffer, Nothing)
    <3>1. buffer \o wire = buffer /\ wire \in Seq(Alphabet)
      BY <1>1, <2>1, ConcatEmptySeq
    <3>2. Extends(some, Input(buffer \o wire, beyond))
      BY <1>1, ArrivedExtends
    <3>3. Extends(some, now)
      BY <3>1, <3>2
    <3> HIDE DEF some, now
    <3>4. Stays(some, 1, Parsed(role, some), r)
      BY <3>3, ParsedStays
    <3>5. Parsed(role, some).st # "complete"
      BY <1>6, <3>4 DEF Stays
    <3> QED
      BY <3>5 DEF some
  <2> HIDE DEF r, now, all, total
  <2> QED
    BY <1>5, <1>6, <2>1 DEF ReadSoFar
<1>7. CASE r.st = "failure" /\ stage' = "failed" /\ UNCHANGED <<buffer, delivered>>
  <2>1. Parsed(role, Input(buffer, beyond)).st = "failure"
    BY <1>7
  <2> HIDE DEF r, now, all, total
  <2> QED
    BY <1>5, <1>7, <2>1 DEF ReadSoFar
<1>8. CASE /\ r.st = "complete"
           /\ delivered' = Append(delivered, r.item)
           /\ buffer' = SubSeq(buffer, r.at, Len(buffer))
           /\ stage' = IF role = "server" THEN "dispatch" ELSE "parse"
  <2> DEFINE left == buffer \o wire
             n == Len(delivered)
             k == n + 1
             rest == SubSeq(buffer, r.at, Len(buffer))
  <2>1. Parsed(role, all) = r /\ r.at \in 2 .. Len(buffer) + 1
    <3> HIDE DEF r, all, now
    <3> QED
      BY <1>3, <1>4, <1>8 DEF Stays
  <2>2. PICK S : delivered \in Seq(S)
    BY DEF ReadSoFar
  <2>3. /\ Append(delivered, r.item) \in Seq(S \cup {r.item})
        /\ Len(Append(delivered, r.item)) = k /\ n \in Nat
    <3> HIDE DEF r
    <3>1. delivered \in Seq(S \cup {r.item}) /\ n \in Nat
      BY <2>2, SeqMonotonic, LenProperties
    <3>2. r.item \in S \cup {r.item}
      OBVIOUS
    <3> QED
      BY <3>1, <3>2, AppendProperties
  <2> HIDE DEF r, now, all
  <2>4. /\ rest \in Seq(Alphabet) /\ Len(rest) < Len(buffer)
        /\ rest \o wire = SubSeq(left, r.at, Len(left))
        /\ rest \o wire # << >> =>
             left # << >> /\ (rest \o wire)[Len(rest \o wire)] = left[Len(left)]
    BY <1>1, <2>1, DropIs
  <2> HIDE DEF rest
  <2>5. /\ left \in Seq(Alphabet) /\ Len(left) = Len(buffer) + Len(wire)
        /\ \A i \in 1 .. Len(buffer) + Len(wire) :
             left[i] = IF i <= Len(buffer) THEN buffer[i] ELSE wire[i - Len(buffer)]
        /\ rest \o wire \in Seq(Alphabet) /\ Len(rest \o wire) = Len(rest) + Len(wire)
        /\ \A i \in 1 .. Len(rest) + Len(wire) :
             (rest \o wire)[i] = IF i <= Len(rest) THEN rest[i] ELSE wire[i - Len(rest)]
        /\ Len(buffer) \in Nat /\ Len(wire) \in Nat /\ Len(rest) \in Nat
    BY <1>1, <2>4, ConcatProperties, LenProperties
  <2>6. total \in Seq(Alphabet) /\ Len(total) \in Nat /\ n + Len(left) <= Len(total)
    BY SentIs DEF ReadSoFar
  <2>7. AtOnce(role, total)[n] = [left |-> left, messages |-> delivered]
    BY DEF ReadSoFar
  <2>8. k \in 0 .. Len(total) /\ k # 0 /\ k - 1 = n /\ k + Len(rest \o wire) <= Len(total)
    <3>1. Len(left) = Len(buffer) + Len(wire) /\ Len(rest \o wire) = Len(rest) + Len(wire)
          /\ Len(buffer) \in Nat /\ Len(wire) \in Nat /\ Len(rest) \in Nat
      BY <2>5
    <3>2. Len(rest) < Len(buffer) /\ n \in Nat
      BY <2>3, <2>4
    <3>3. Len(total) \in Nat /\ n + Len(left) <= Len(total)
      BY <2>6
    <3> HIDE DEF left, n, total
    <3> QED
      BY <3>1, <3>2, <3>3
  <2>9. AtOnce(role, total)[k] = ReadOne(role, AtOnce(role, total)[n])
    BY <2>6, <2>8, AtOnceIs
  <2> DEFINE before == [left |-> left, messages |-> delivered]
  <2>10. ReadOne(role, before) =
           [left |-> SubSeq(left, r.at, Len(left)), messages |-> Append(delivered, r.item)]
    <3>1. before.left = left /\ before.messages = delivered
      OBVIOUS
    <3> HIDE DEF before, left
    <3>2. Parsed(role, Input(before.left, Nothing)) = r
      BY <2>1, <3>1 DEF all, left
    <3> QED
      BY <1>8, <3>1, <3>2 DEF ReadOne, With
  <2>11. AtOnce(role, total)[k] = [left |-> rest \o wire, messages |-> Append(delivered, r.item)]
    BY <2>4, <2>7, <2>9, <2>10
  <2>12. rest \o wire # << >> => (rest \o wire)[Len(rest \o wire)] # "CR"
    BY <1>1, <2>4
  <2>13. /\ buffer' = rest /\ wire' = wire /\ role' = role /\ traffic' = traffic
         /\ delivered' = Append(delivered, r.item) /\ stage' \notin {"waiting", "failed"}
    BY <1>5, <1>8 DEF rest
  <2> HIDE DEF left, k, n
  <2> QED
    BY <1>1, <2>3, <2>4, <2>8, <2>11, <2>12, <2>13 DEF ReadSoFar, total
<1> QED
  BY <1>5, <1>6, <1>7, <1>8

(* The server's handling of a request reads nothing. *)
LEMMA HandlingReads ==
  ASSUME ReadSoFar, UNCHANGED <<role, traffic, wire, buffer, beyond, delivered>>,
         stage' = stage \/ stage' \notin {"waiting", "failed"}
  PROVE  ReadSoFar'
BY DEF ReadSoFar

(* Every step keeps to it. *)
LEMMA ReadingNext ==
  ReadingInv /\ [ConnectionNext]_connectionVars => ReadingInv'
<1> SUFFICES ASSUME ReadingInv, [ConnectionNext]_connectionVars PROVE ReadingInv'
  OBVIOUS
<1>1. role \in {"server", "client"} /\ traffic \in Traffic[role]
  BY DEF ReadingInv
<1>2. UNCHANGED <<role, traffic>>
  BY DEF ConnectionNext, connectionVars, Receive, Parse, Take, Dispatch, Continue, AddHeader,
         SetBody, smolrtsp_respond, Leave, After
<1> SUFFICES ASSUME ~ IsSuffix(<<"CR">>, Sent(traffic)) PROVE ReadSoFar'
  BY <1>1, <1>2 DEF ReadingInv
<1>3. ReadSoFar
  BY DEF ReadingInv
<1>4. CASE \E n \in 1 .. Len(wire) : Receive(n)
  BY <1>3, <1>4, ReceiveReads
<1>5. CASE Parse
  BY <1>1, <1>3, <1>5, ParseReads
<1>6. CASE Dispatch \/ Continue
  <2>1. UNCHANGED <<role, traffic, wire, buffer, beyond, delivered>>
        /\ stage' \in {"before", "unknown"} \cup Commands
    BY <1>6 DEF Dispatch, Continue
  <2> QED
    BY <1>3, <2>1, HandlingReads DEF Commands
<1>7. CASE \E h \in Headers : AddHeader(h)
  BY <1>3, <1>7, HandlingReads DEF AddHeader
<1>8. CASE \E body \in Bodies : SetBody(body)
  BY <1>3, <1>8, HandlingReads DEF SetBody
<1>9. CASE smolrtsp_respond(<<<<"2", "0", "0">>, <<"OK">>>>)
  <2>1. UNCHANGED <<role, traffic, wire, buffer, beyond, delivered, stage>>
    BY <1>9 DEF smolrtsp_respond
  <2> QED
    BY <1>3, <2>1, HandlingReads
<1>10. CASE Leave
  BY <1>3, <1>10, HandlingReads DEF Leave
<1>11. CASE After
  BY <1>3, <1>11, HandlingReads DEF After
<1>12. CASE UNCHANGED connectionVars
  BY <1>3, <1>12, HandlingReads DEF connectionVars
<1> QED
  BY <1>4, <1>5, <1>6, <1>7, <1>8, <1>9, <1>10, <1>11, <1>12 DEF ConnectionNext

(* And it says what the property does. *)
LEMMA ReadingIs ==
  ReadingInv => ReadAsAtOnce
<1> SUFFICES ASSUME ReadingInv, ~ IsSuffix(<<"CR">>, Sent(traffic))
             PROVE  ReadAsAtOnce
  BY DEF ReadAsAtOnce
<1> DEFINE here == AtOnce(role, Sent(traffic))[Len(delivered)]
           once == Parsed(role, Input(buffer \o wire, Nothing))
           now == Parsed(role, Input(buffer, beyond))
<1>1. ReadSoFar
  BY DEF ReadingInv
<1>2. here = [left |-> buffer \o wire, messages |-> delivered]
  BY <1>1 DEF ReadSoFar
<1>3. once = Parsed(role, Input(buffer \o wire, Nothing))
  OBVIOUS
<1>4. buffer \in Seq(Alphabet) /\ wire \in Seq(Alphabet)
  BY <1>1 DEF ReadSoFar
<1> HIDE DEF here, once
<1>5. ASSUME stage = "waiting", wire = << >> PROVE once.st # "complete"
  <2>1. buffer \o wire = buffer
    BY <1>4, <1>5, ConcatEmptySeq
  <2> QED
    BY <1>1, <1>3, <1>5, <2>1 DEF ReadSoFar
<1>6. ASSUME stage = "failed"
      PROVE  \/ once = now
             \/ EndsWith(RTSP_SLASH)
             \/ EndsWith(CRLF) /\ now = Failure("HeaderMapOverflow")
  <2> DEFINE some == Input(buffer, beyond)
             all == Input(buffer \o wire, Nothing)
  <2>1. now.st = "failure"
    BY <1>1, <1>6 DEF ReadSoFar
  <2>2. Extends(some, all)
    BY <1>1, <1>4, ArrivedExtends DEF ReadSoFar
  <2>3. now = Parsed(role, some) /\ once = Parsed(role, all)
    BY <1>3
  <2> HIDE DEF now, some, all
  <2>4. Stays(some, 1, now, once)
    BY <2>2, <2>3, ParsedStays
  <2>5. once = now \/ Excused(some, now)
    BY <2>1, <2>4 DEF Stays
  <2>6. EndsBehind(some, RTSP_SLASH) => EndsWith(RTSP_SLASH)
    <3>1. RTSP_SLASH \in Seq({"R", "T", "S", "P", "/"})
      BY DEF RTSP_SLASH
    <3> QED
      BY <1>4, <3>1, SuffixIs DEF EndsWith, some
  <2>7. EndsBehind(some, CRLF) => EndsWith(CRLF)
    <3>1. CRLF \in Seq({"CR", "LF"})
      BY DEF CRLF
    <3> QED
      BY <1>4, <3>1, SuffixIs DEF EndsWith, some
  <2> QED
    BY <2>5, <2>6, <2>7 DEF Excused
<1> HIDE DEF now
<1> QED
  BY <1>2, <1>5, <1>6 DEF ReadAsAtOnce, Agree, here, once, now

(* Whatever peers send, malformed messages and frames between messages     *)
(* included, in whatever pieces it arrives and whatever lies in memory     *)
(* behind the buffer, the messages that come out are those that would if   *)
(* all had arrived at once, and the connection fails only where it would   *)
(* then, or behind "RTSP/" or a full header map. Every parser finds again  *)
(* what it found when more has arrived; what the peer sends must not end   *)
(* in a carriage return.                                                   *)
THEOREM ReadingIsAtOnce == ConnectionSpec => []ReadAsAtOnce
<1>1. ConnectionInit => ReadingInv
  BY ReadingInit
<1>2. ReadingInv /\ [ConnectionNext]_connectionVars => ReadingInv'
  BY ReadingNext
<1>3. ReadingInv => ReadAsAtOnce
  BY ReadingIs
<1> QED
  BY <1>1, <1>2, <1>3, PTL DEF ConnectionSpec

-----------------------------------------------------------------------------
(* What is sent, what is read at once, and what is read in pieces.          *)

(* One sequence goes on where another ends. *)
Continues(s, t) ==
  /\ \E T : t \in Seq(T)
  /\ Len(s) <= Len(t)
  /\ \A i \in 1 .. Len(s) : t[i] = s[i]

(* What goes on where another ends has it as a prefix. *)
LEMMA PrefixIs ==
  ASSUME NEW S, NEW s \in Seq(S), NEW t, Continues(s, t)
  PROVE  IsPrefix(s, t)
<1>1. PICK T : t \in Seq(T)
  BY DEF Continues
<1> DEFINE n == Len(s)
           u == SubSeq(t, 1, n)
<1>2. n \in Nat /\ n \in 0 .. Len(t) /\ n <= Len(t)
  BY <1>1, LenProperties DEF Continues
<1>3. u \in Seq(T) /\ Len(u) = n /\ \A i \in 1 .. n : u[i] = t[i]
  <2> HIDE DEF n
  <2> QED
    BY <1>1, <1>2, FirstOnes
<1> HIDE DEF u
<1>4. u \in Seq(S \cup T) /\ s \in Seq(S \cup T)
  BY <1>3, SeqMonotonic
<1>5. \A i \in 1 .. Len(s) : s[i] = u[i]
  BY <1>3 DEF Continues
<1>6. s = u
  BY <1>3, <1>4, <1>5, SeqEqual
<1>7. SubSeq(s, 1, Len(s)) = s
  BY SubSeqFull
<1> QED
  BY <1>2, <1>6, <1>7 DEF IsPrefix, u

(* Nothing is read of nothing. *)
LEMMA NothingIsPartial ==
  ASSUME NEW who, NEW past
  PROVE  Parsed(who, Input(<< >>, past)) = Partial
<1> DEFINE input == Input(<< >>, past)
<1>1. Size(input) = 0
  <2>1. input.octets = << >> /\ Len(<< >>) = 0
    BY EmptySeq DEF Input
  <2> QED
    BY <2>1 DEF Size
<1> HIDE DEF input
<1>2. PICK f : /\ SkipFrames(input) = f[Size(input) + 1]
               /\ \A k \in 0 .. Size(input) + 1 :
                    f[k] = IF k = 0 THEN More(1, << >>) ELSE SkipFrame(input, f[k - 1])
  <2>1. Size(input) \in Nat
    BY <1>1
  <2> QED
    BY <2>1, FrameTable
<1>3. 0 \in 0 .. Size(input) + 1 /\ 1 \in 0 .. Size(input) + 1 /\ Size(input) + 1 = 1 /\ 1 - 1 = 0
  BY <1>1
<1>4. f[0] = More(1, << >>) /\ f[1] = SkipFrame(input, f[0])
  BY <1>2, <1>3
<1>5. f[1] = Partial
  BY <1>1, <1>4 DEF SkipFrame, More
<1>6. SkipFrames(input) = Partial
  BY <1>2, <1>3, <1>5
<1>7. Partial.st # "complete"
  BY DEF Partial
<1>8. Parsed(who, input) = Partial
  BY <1>6, <1>7 DEF Parsed, Request_parse, Response_parse, MATCH
<1> QED
  BY <1>8 DEF input

(* Reading only adds messages, and once there is no complete one in what   *)
(* is left, it is over.                                                    *)
LEMMA ReadsOn ==
  ASSUME NEW who, NEW octets, Len(octets) \in Nat, NEW k \in 0 .. Len(octets),
         NEW S, AtOnce(who, octets)[k].messages \in Seq(S), NEW n \in k .. Len(octets)
  PROVE  LET read == AtOnce(who, octets)
         IN  /\ Continues(read[k].messages, read[n].messages)
             /\ Parsed(who, Input(read[k].left, Nothing)).st # "complete" => read[n] = read[k]
<1> DEFINE read == AtOnce(who, octets)
           N == Len(octets)
           s == read[k].messages
           Over == Parsed(who, Input(read[k].left, Nothing)).st # "complete"
           G == {j \in Nat : k <= j /\ j <= N =>
                   Continues(s, read[j].messages) /\ (Over => read[j] = read[k])}
<1>1. \A j \in 0 .. N : j # 0 => read[j] = ReadOne(who, read[j - 1])
  BY AtOnceIs
<1>2. k \in Nat /\ k <= N /\ N \in Nat /\ Len(s) \in Nat /\ s \in Seq(S)
  BY LenProperties
<1> HIDE DEF read, N
<1>3. Continues(s, s)
  <2> HIDE DEF s
  <2> QED
    BY <1>2 DEF Continues
<1>4. 0 \in G
  <2> SUFFICES ASSUME k <= 0 PROVE Continues(s, read[0].messages) /\ (Over => read[0] = read[k])
    OBVIOUS
  <2>1. k = 0
    BY <1>2
  <2> QED
    BY <1>3, <2>1
<1>5. ASSUME NEW j \in Nat, j \in G PROVE j + 1 \in G
  <2> SUFFICES ASSUME k <= j + 1, j + 1 <= N
               PROVE  Continues(s, read[j + 1].messages) /\ (Over => read[j + 1] = read[k])
    OBVIOUS
  <2>1. CASE k = j + 1
    BY <1>3, <2>1
  <2>2. CASE k # j + 1
    <3>1. k <= j /\ j <= N /\ j + 1 \in 0 .. N /\ j + 1 # 0 /\ (j + 1) - 1 = j
      BY <1>2, <2>2
    <3>2. read[j + 1] = ReadOne(who, read[j])
      BY <1>1, <3>1
    <3>3. Continues(s, read[j].messages) /\ (Over => read[j] = read[k])
      BY <1>5, <3>1
    <3> DEFINE r == Parsed(who, Input(read[j].left, Nothing))
               m == read[j].messages
    <3>4. CASE r.st # "complete"
      <4>1. read[j + 1] = read[j]
        BY <3>2, <3>4 DEF ReadOne, With
      <4> QED
        BY <3>3, <4>1
    <3>5. CASE r.st = "complete"
      <4>1. ~ Over
        BY <3>3, <3>5
      <4>2. read[j + 1].messages = Append(m, r.item)
        BY <3>2, <3>5 DEF ReadOne, With
      <4> HIDE DEF r, m, s
      <4>3. PICK T : m \in Seq(T)
        BY <3>3 DEF Continues, m
      <4>4. m \in Seq(T \cup {r.item}) /\ r.item \in T \cup {r.item} /\ Len(m) \in Nat
        BY <4>3, SeqMonotonic, LenProperties
      <4> DEFINE a == Append(m, r.item)
      <4>5. a \in Seq(T \cup {r.item}) /\ Len(a) = Len(m) + 1 /\ \A i \in 1 .. Len(m) : a[i] = m[i]
        BY <4>4, AppendProperties
      <4> HIDE DEF a
      <4>6. Len(s) <= Len(m) /\ \A i \in 1 .. Len(s) : m[i] = s[i]
        BY <3>3 DEF Continues, m
      <4>7. \A i \in 1 .. Len(s) : i \in 1 .. Len(m)
        BY <1>2, <4>4, <4>6
      <4>8. Len(s) <= Len(a) /\ \A i \in 1 .. Len(s) : a[i] = s[i]
        BY <1>2, <4>4, <4>5, <4>6, <4>7
      <4>9. Continues(s, a)
        BY <4>5, <4>8 DEF Continues
      <4> HIDE DEF Over
      <4> QED
        BY <4>1, <4>2, <4>9 DEF a
    <3> QED
      BY <3>4, <3>5
  <2> QED
    BY <2>1, <2>2
<1>6. n \in Nat /\ k <= n /\ n <= N
  BY <1>2 DEF N
<1>7. n \in G
  <2> HIDE DEF G
  <2>1. Nat \subseteq G
    BY <1>4, <1>5, SetInduction
  <2> QED
    BY <1>6, <2>1
<1> QED
  BY <1>6, <1>7 DEF read, N

(* Traffic that is understood when it arrives at once is understood in     *)
(* pieces.                                                                 *)
LEMMA PiecesAreUnderstood ==
  ASSUME ReadingInv, ~ IsSuffix(<<"CR">>, Sent(traffic)), Understood
  PROVE  SplitsDoNotMatter
<1> DEFINE total == Sent(traffic)
           read == AtOnce(role, total)
           k == Len(delivered)
           end == read[Len(total)]
           left == buffer \o wire
           some == Input(buffer, beyond)
           all == Input(left, Nothing)
           now == Parsed(role, some)
           once == Parsed(role, all)
<1>1. ReadSoFar /\ role \in {"server", "client"} /\ traffic \in Traffic[role]
  BY DEF ReadingInv
<1>2. PICK S : delivered \in Seq(S)
  BY <1>1 DEF ReadSoFar
<1>3. /\ wire \in Seq(Alphabet) /\ buffer \in Seq(Alphabet) /\ left \in Seq(Alphabet)
      /\ Len(left) \in Nat /\ k \in Nat /\ Len(total) \in Nat
  BY <1>1, <1>2, SentIs, ConcatProperties, LenProperties DEF ReadSoFar
<1>4. /\ k + Len(left) <= Len(total)
      /\ read[k] = [left |-> left, messages |-> delivered]
  BY <1>1 DEF ReadSoFar
<1>5. k \in 0 .. Len(total)
  <2> HIDE DEF k, left, total
  <2> QED
    BY <1>3, <1>4
<1>6. end.messages = Expected /\ (FirstBad <= Len(traffic) \/ end.left = << >>)
  <2> DEFINE c == Len(Expected)
  <2>1. /\ c \in 0 .. Len(total) /\ read[c].messages = Expected
        /\ Parsed(role, Input(read[c].left, Nothing)).st # "complete"
        /\ FirstBad <= Len(traffic) \/ read[c].left = << >>
    BY DEF Understood, Conveys
  <2> HIDE DEF c, total
  <2>2. 0 \in 0 .. Len(total) /\ c \in 0 .. Len(total) /\ Len(total) \in c .. Len(total)
    BY <1>3, <2>1
  <2>3. read[0].messages = << >> /\ << >> \in Seq({})
    <3>1. read[0] = [left |-> total, messages |-> << >>]
      BY <1>3, <2>2, AtOnceIs
    <3> QED
      BY <3>1, EmptySeq
  <2>4. Continues(read[0].messages, read[c].messages)
    BY <1>3, <2>2, <2>3, ReadsOn
  <2>5. PICK T : read[c].messages \in Seq(T)
    BY <2>4 DEF Continues
  <2>6. read[Len(total)] = read[c]
    BY <1>3, <2>1, <2>2, <2>5, ReadsOn
  <2> QED
    BY <2>1, <2>6
<1>7. /\ Stays(some, 1, now, once)
      /\ now = Overflow /\ once.st = "complete" => Len(once.item.headers) = HEADER_MAP_CAPACITY
  <2>1. Extends(some, all)
    BY <1>1, <1>3, ArrivedExtends DEF ReadSoFar
  <2> HIDE DEF some, all
  <2> QED
    BY <2>1, ParsedStays
<1>8. stage = "failed" => now.st = "failure"
  BY <1>1 DEF ReadSoFar
<1>9. stage = "waiting" /\ wire = << >> => once.st # "complete"
  <2> SUFFICES ASSUME stage = "waiting", wire = << >> PROVE once.st # "complete"
    OBVIOUS
  <2>1. left = buffer
    BY <1>3, ConcatEmptySeq
  <2> QED
    BY <1>1, <2>1 DEF ReadSoFar
<1>10. left = << >> => buffer = << >>
  BY <1>3, ConcatEqualIffEmpty
<1> HIDE DEF total, k, left, now, once
<1>11. read[k].left = left /\ read[k].messages = delivered
  BY <1>4
<1>12. /\ Continues(delivered, Expected)
       /\ once.st # "complete" => delivered = Expected /\ end.left = left
  <2>1. read[k].messages \in Seq(S) /\ Len(total) \in k .. Len(total)
    BY <1>2, <1>3, <1>5, <1>11
  <2>2. /\ Continues(read[k].messages, end.messages)
        /\ Parsed(role, Input(read[k].left, Nothing)).st # "complete" => end = read[k]
    BY <1>3, <1>5, <2>1, ReadsOn
  <2> HIDE DEF read, end
  <2> QED
    BY <1>6, <1>11, <2>2 DEF once
<1>13. IsPrefix(delivered, Expected)
  BY <1>2, <1>12, PrefixIs
<1>14. ASSUME stage = "failed", once.st # "complete"
       PROVE  delivered = Expected /\ FirstBad <= Len(traffic)
  <2>1. ASSUME left = << >> PROVE FALSE
    <3>1. now = Partial
      BY <1>10, <2>1, NothingIsPartial DEF now
    <3> QED
      BY <1>8, <1>14, <3>1 DEF Partial
  <2> HIDE DEF read, end
  <2> QED
    BY <1>6, <1>12, <1>14, <2>1
<1>15. ASSUME stage = "failed"
       PROVE  \/ delivered = Expected /\ FirstBad <= Len(traffic)
              \/ EndsWith(RTSP_SLASH)
              \/ EndsWith(CRLF) /\ \E i \in DOMAIN Expected :
                                      Len(Expected[i].headers) = HEADER_MAP_CAPACITY
  <2>1. CASE once.st # "complete"
    BY <1>14, <1>15, <2>1
  <2>2. CASE once.st = "complete"
    <3>1. Excused(some, now)
      <4> HIDE DEF some, all
      <4>1. once = now \/ Excused(some, now)
        BY <1>7, <1>8, <1>15 DEF Stays
      <4> QED
        BY <1>8, <1>15, <2>2, <4>1
    <3>2. EndsBehind(some, RTSP_SLASH) => EndsWith(RTSP_SLASH)
      <4>1. RTSP_SLASH \in Seq({"R", "T", "S", "P", "/"})
        BY DEF RTSP_SLASH
      <4> QED
        BY <1>3, <4>1, SuffixIs DEF EndsWith
    <3>3. EndsBehind(some, CRLF) => EndsWith(CRLF)
      <4>1. CRLF \in Seq({"CR", "LF"})
        BY DEF CRLF
      <4> QED
        BY <1>3, <4>1, SuffixIs DEF EndsWith
    <3>4. ASSUME now = Overflow
          PROVE  \E i \in DOMAIN Expected : Len(Expected[i].headers) = HEADER_MAP_CAPACITY
      <4> DEFINE n == k + 1
                 a == Append(delivered, once.item)
      <4>1. Len(once.item.headers) = HEADER_MAP_CAPACITY
        BY <1>7, <2>2, <3>4
      <4>2. Len(left) > 0
        <5>1. left # << >>
          <6> SUFFICES ASSUME left = << >> PROVE FALSE
            OBVIOUS
          <6>1. once = Partial
            BY NothingIsPartial DEF once
          <6> QED
            BY <2>2, <6>1 DEF Partial
        <5> QED
          BY <1>3, <5>1, EmptySeq
      <4>3. n \in 0 .. Len(total) /\ n # 0 /\ n - 1 = k
        BY <1>3, <1>4, <4>2
      <4>4. read[n] = ReadOne(role, read[k])
        BY <1>3, <4>3, AtOnceIs
      <4>5. read[n].messages = a
        <5> HIDE DEF read, a
        <5>1. Parsed(role, Input(read[k].left, Nothing)) = once
          BY <1>11 DEF once
        <5> QED
          BY <1>11, <2>2, <4>4, <5>1 DEF ReadOne, With, a
      <4>6. a \in Seq(S \cup {once.item}) /\ Len(a) = n /\ a[n] = once.item
        <5>1. delivered \in Seq(S \cup {once.item}) /\ once.item \in S \cup {once.item}
          BY <1>2, SeqMonotonic
        <5> QED
          BY <5>1, AppendProperties DEF k
      <4>7. Continues(a, end.messages)
        <5>1. read[n].messages \in Seq(S \cup {once.item}) /\ Len(total) \in n .. Len(total)
          BY <1>3, <4>3, <4>5, <4>6
        <5> HIDE DEF a
        <5>2. Continues(read[n].messages, end.messages)
          BY <1>3, <4>3, <5>1, ReadsOn
        <5> QED
          BY <4>5, <5>2
      <4> HIDE DEF a, n, read, end
      <4>8. Continues(a, Expected)
        BY <1>6, <4>7
      <4>9. PICK T : Expected \in Seq(T)
        BY <4>8 DEF Continues
      <4>10. n \in 1 .. Len(Expected) /\ Expected[n] = a[n]
        <5>1. n \in 1 .. n /\ Len(Expected) \in Nat
          BY <4>3, <4>9, LenProperties
        <5> QED
          BY <4>6, <4>8, <5>1 DEF Continues
      <4>11. n \in DOMAIN Expected
        BY <4>9, <4>10, LenProperties
      <4> QED
        BY <4>1, <4>6, <4>10, <4>11
    <3> HIDE DEF some
    <3> QED
      BY <3>1, <3>2, <3>3, <3>4 DEF Excused, Overflow
  <2> QED
    BY <2>1, <2>2
<1>16. wire = << >> /\ stage = "waiting" => delivered = Expected
  BY <1>9, <1>12
<1> QED
  BY <1>13, <1>15, <1>16 DEF SplitsDoNotMatter

UnderstoodInv == ReadingInv /\ (~ IsSuffix(<<"CR">>, Sent(traffic)) => Understood)

(* It is understood before anything has arrived, *)
LEMMA UnderstoodInit ==
  ConnectionInit /\ ReadsBack => UnderstoodInv
<1> SUFFICES ASSUME ConnectionInit, ReadsBack PROVE UnderstoodInv
  OBVIOUS
<1>1. wire = Sent(traffic)
  BY DEF ConnectionInit
<1> QED
  BY <1>1, ReadingInit DEF UnderstoodInv, ReadsBack

(* and what is sent does not change. *)
LEMMA UnderstoodNext ==
  UnderstoodInv /\ [ConnectionNext]_connectionVars => UnderstoodInv'
<1> SUFFICES ASSUME UnderstoodInv, [ConnectionNext]_connectionVars PROVE UnderstoodInv'
  OBVIOUS
<1>1. UNCHANGED <<role, traffic>>
  BY DEF ConnectionNext, connectionVars, Receive, Parse, Take, Dispatch, Continue, AddHeader,
         SetBody, smolrtsp_respond, Leave, After
<1>2. Understood => Understood'
  BY <1>1 DEF Understood, Conveys, Expected, FirstBad
<1>3. ReadingInv'
  BY ReadingNext DEF UnderstoodInv
<1> QED
  BY <1>1, <1>2, <1>3 DEF UnderstoodInv

(* If what peers send is understood when it arrives at once (the property  *)
(* ReadsBack of the two directions of the code, serializing and parsing),  *)
(* then however it is split the messages come out in order, and only a     *)
(* malformed one, or one of the two splits that matter, is a failure; and  *)
(* no message is left waiting in the buffer at the end.                    *)
THEOREM SplitsAreHarmless ==
  ConnectionSpec /\ []ReadsBack =>
    [](~ IsSuffix(<<"CR">>, Sent(traffic)) => SplitsDoNotMatter)
<1>1. ConnectionInit /\ ReadsBack => UnderstoodInv
  BY UnderstoodInit
<1>2. UnderstoodInv /\ [ConnectionNext]_connectionVars => UnderstoodInv'
  BY UnderstoodNext
<1>3. UnderstoodInv => (~ IsSuffix(<<"CR">>, Sent(traffic)) => SplitsDoNotMatter)
  BY PiecesAreUnderstood DEF UnderstoodInv
<1> QED
  BY <1>1, <1>2, <1>3, PTL DEF ConnectionSpec

=============================================================================
