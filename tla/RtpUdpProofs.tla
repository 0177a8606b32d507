---------------------------- MODULE RtpUdpProofs ----------------------------
(***************************************************************************)
(* The RTP sender over UDP, for every width, clock rate, origin, payload   *)
(* and number of tries: types, gapless sequence numbers, exact counters    *)
(* and the atomic transport contract.                                      *)
(***************************************************************************)
EXTENDS RtpUdp, RtpTransportProofs

(* The packet in progress is the one the struct would build now: nothing   *)
(* else touches the struct during a call.                                  *)
PacketCurrent ==
  call # Idle => \E ts \in Timestamps, marker \in BOOLEAN, payload \in Payloads :
                   call.pkt = PacketOf(ts, marker, payload)

(* A call about to answer 0 has put its packet last on the wire. *)
JustSent ==
  call.stage = "return" /\ call.ret = 0 =>
    /\ wire # << >>
    /\ wire[Len(wire)] = call.pkt

(* The struct has counted what it accounted for, and nothing else. *)
Counted ==
  /\ seq_num = Len(Accounted) % U16
  /\ pkt_count = Len(Accounted) % U32

(* Each packet was stamped with the conversion of what the caller passed. *)
Stamped == \A i \in 1 .. Len(wire) : wire[i].ts = compute_timestamp(wire[i].at)

(* The counters are those of the datagrams accounted for. *)
CountersAgree ==
  /\ octet_count = SumOctets(Accounted) % U32
  /\ last_rtp_ts = IF Accounted = << >> THEN 0 ELSE Accounted[Len(Accounted)].ts

UdpIInv ==
  /\ UdpTypeOK
  /\ PacketCurrent
  /\ JustSent
  /\ Counted
  /\ CountersAgree
  /\ SeqGapless
  /\ Stamped

-----------------------------------------------------------------------------
(* The sum of the octets of a sequence of packets, a recursive function of *)
(* its length.                                                             *)

(* There is a table of the sums of the first n of N numbers, and what      *)
(* satisfies its equation is one.                                          *)
LEMMA SumsExist ==
  ASSUME NEW e
  PROVE  \A N \in Nat : \E f : f = [n \in 0 .. N |-> IF n = 0 THEN 0 ELSE f[n - 1] + e[n]]
<1> DEFINE P(N) == \E f : f = [n \in 0 .. N |-> IF n = 0 THEN 0 ELSE f[n - 1] + e[n]]
           S == {N \in Nat : P(N)}
<1>1. 0 \in S
  <2> DEFINE f == [n \in 0 .. 0 |-> 0]
  <2>1. f = [n \in 0 .. 0 |-> IF n = 0 THEN 0 ELSE f[n - 1] + e[n]]
    OBVIOUS
  <2> QED
    BY <2>1
<1>2. ASSUME NEW N \in Nat, N \in S PROVE N + 1 \in S
  <2>1. PICK f : f = [n \in 0 .. N |-> IF n = 0 THEN 0 ELSE f[n - 1] + e[n]]
    BY <1>2
  <2> DEFINE g == [n \in 0 .. N + 1 |-> IF n = N + 1 THEN f[N] + e[N + 1] ELSE f[n]]
  <2>2. ASSUME NEW n \in 0 .. N + 1
        PROVE  g[n] = IF n = 0 THEN 0 ELSE g[n - 1] + e[n]
    <3>1. CASE n = N + 1
      <4>1. n # 0 /\ n - 1 = N /\ N \in 0 .. N + 1 /\ N # N + 1
        BY <3>1
      <4>2. g[n - 1] = f[N]
        BY <4>1
      <4> QED
        BY <3>1, <4>1, <4>2
    <3>2. CASE n # N + 1
      <4>1. n \in 0 .. N /\ f[n] = IF n = 0 THEN 0 ELSE f[n - 1] + e[n]
        BY <2>1, <3>2
      <4>2. n # 0 => n - 1 \in 0 .. N + 1 /\ n - 1 # N + 1
        BY <4>1
      <4>3. n # 0 => g[n - 1] = f[n - 1]
        BY <4>2
      <4> QED
        BY <3>2, <4>1, <4>3
    <3> QED
      BY <3>1, <3>2
  <2>3. g = [n \in 0 .. N + 1 |-> IF n = 0 THEN 0 ELSE g[n - 1] + e[n]]
    BY <2>2
  <2> HIDE DEF g
  <2>4. P(N + 1)
    BY <2>3
  <2> HIDE DEF P
  <2> QED
    BY <2>4
<1>3. Nat \subseteq S
  <2> HIDE DEF S
  <2> QED
    BY <1>1, <1>2, SetInduction
<1> QED
  BY <1>3

(* The table that SumOctets reads. *)
LEMMA SumsTable ==
  ASSUME NEW s \in Seq(Packets)
  PROVE  \E f : /\ SumOctets(s) = f[Len(s)]
                /\ \A n \in 0 .. Len(s) : f[n] = IF n = 0 THEN 0 ELSE f[n - 1] + Octets(s[n].payload)
<1> DEFINE Sums(f) == f = [n \in 0 .. Len(s) |-> IF n = 0 THEN 0 ELSE f[n - 1] + Octets(s[n].payload)]
           sum == CHOOSE f : Sums(f)
           e == [n \in 1 .. Len(s) |-> Octets(s[n].payload)]
<1>1. Len(s) \in Nat
  OBVIOUS
<1>2. \E f : Sums(f)
  <2>1. PICK f : f = [n \in 0 .. Len(s) |-> IF n = 0 THEN 0 ELSE f[n - 1] + e[n]]
    BY <1>1, SumsExist
  <2>2. ASSUME NEW n \in 0 .. Len(s)
        PROVE  f[n] = IF n = 0 THEN 0 ELSE f[n - 1] + Octets(s[n].payload)
    <3>1. n # 0 => e[n] = Octets(s[n].payload)
      BY <1>1
    <3> QED
      BY <2>1, <3>1
  <2>3. Sums(f)
    BY <2>1, <2>2
  <2> QED
    BY <2>3
<1>3. Sums(sum)
  BY <1>2
<1>4. SumOctets(s) = sum[Len(s)]
  BY DEF SumOctets
<1> HIDE DEF sum
<1> QED
  BY <1>3, <1>4

(* One packet more adds its octets. *)
LEMMA SumAppend ==
  ASSUME NEW s \in Seq(Packets), NEW pkt \in Packets
  PROVE  /\ SumOctets(s) \in Nat
         /\ SumOctets(Append(s, pkt)) = SumOctets(s) + Octets(pkt.payload)
<1> DEFINE t == Append(s, pkt)
<1>1. t \in Seq(Packets) /\ Len(s) \in Nat /\ Len(t) = Len(s) + 1
      /\ t[Len(s) + 1] = pkt /\ \A n \in 1 .. Len(s) : t[n] = s[n]
  OBVIOUS
<1> HIDE DEF t
<1>2. PICK f : /\ SumOctets(s) = f[Len(s)]
               /\ \A n \in 0 .. Len(s) : f[n] = IF n = 0 THEN 0 ELSE f[n - 1] + Octets(s[n].payload)
  BY SumsTable
<1>3. PICK g : /\ SumOctets(t) = g[Len(t)]
               /\ \A n \in 0 .. Len(t) : g[n] = IF n = 0 THEN 0 ELSE g[n - 1] + Octets(t[n].payload)
  BY <1>1, SumsTable
<1> DEFINE S == {n \in Nat : n <= Len(s) => f[n] = g[n] /\ f[n] \in Nat}
<1>4. 0 \in S
  BY <1>1, <1>2, <1>3
<1>5. ASSUME NEW n \in Nat, n \in S PROVE n + 1 \in S
  <2> SUFFICES ASSUME n + 1 <= Len(s) PROVE f[n + 1] = g[n + 1] /\ f[n + 1] \in Nat
    OBVIOUS
  <2>1. /\ n + 1 \in 0 .. Len(s) /\ n + 1 \in 0 .. Len(t) /\ n + 1 \in 1 .. Len(s)
        /\ (n + 1) - 1 = n /\ n + 1 # 0
    BY <1>1
  <2>2. f[n] = g[n] /\ f[n] \in Nat
    BY <1>1, <1>5, <2>1
  <2>3. t[n + 1] = s[n + 1] /\ s[n + 1] \in Packets
    BY <1>1, <2>1
  <2>4. Octets(s[n + 1].payload) \in Nat
    <3> DEFINE p == s[n + 1].payload
    <3>1. p \in Payloads
      BY <2>3 DEF Packets
    <3> HIDE DEF p
    <3>2. p.hdr \in Nat /\ p.len \in Nat
      BY <3>1, InputAssumption
    <3>3. Octets(p) \in Nat
      BY <3>2 DEF Octets
    <3> QED
      BY <3>3 DEF p
  <2>5. f[n + 1] = f[n] + Octets(s[n + 1].payload)
    BY <1>2, <2>1
  <2>6. g[n + 1] = g[n] + Octets(t[n + 1].payload)
    BY <1>3, <2>1
  <2> QED
    BY <2>2, <2>3, <2>4, <2>5, <2>6
<1>6. Nat \subseteq S
  <2> HIDE DEF S
  <2> QED
    BY <1>4, <1>5, SetInduction
<1>7. f[Len(s)] = g[Len(s)] /\ f[Len(s)] \in Nat
  BY <1>1, <1>6
<1>8. g[Len(s) + 1] = g[Len(s)] + Octets(t[Len(s) + 1].payload)
  <2>1. Len(s) + 1 \in 0 .. Len(t) /\ Len(s) + 1 # 0 /\ (Len(s) + 1) - 1 = Len(s)
    BY <1>1
  <2> QED
    BY <1>3, <2>1
<1> QED
  BY <1>1, <1>2, <1>3, <1>7, <1>8 DEF t

LEMMA SumEmpty == SumOctets(<< >>) = 0
<1>1. << >> \in Seq(Packets) /\ Len(<< >>) = 0
  BY EmptySeq
<1>2. PICK f : /\ SumOctets(<< >>) = f[Len(<< >>)]
               /\ \A n \in 0 .. Len(<< >>) :
                    f[n] = IF n = 0 THEN 0 ELSE f[n - 1] + Octets(<< >>[n].payload)
  BY <1>1, SumsTable
<1> QED
  BY <1>1, <1>2

-----------------------------------------------------------------------------

(* Every variable of the sender stays within its C type. *)
LEMMA UdpTypeStep ==
  ASSUME UdpTypeOK, [UdpNext]_vars
  PROVE  UdpTypeOK'
<1> USE DEF UdpTypeOK
<1>1. ASSUME NEW ts \in Timestamps, NEW marker \in BOOLEAN, NEW payload \in Payloads,
             Call(ts, marker, payload)
      PROVE  UdpTypeOK'
  <2>1. PacketOf(ts, marker, payload) \in Packets
    BY PacketType
  <2>2. MAX_RETRANSMITS \in 1 .. MAX_RETRANSMITS
    BY RetransmitAssumption
  <2>3. TypeOK'
    BY <1>1 DEF Call, rtpVars, TypeOK
  <2> QED
    BY <1>1, <2>1, <2>2, <2>3 DEF Call
<1>2. CASE SendmsgAccepts
  <2>1. PICK pkt \in Packets, i \in 1 .. MAX_RETRANSMITS : call = Transmitting(pkt, i)
    BY <1>2 DEF SendmsgAccepts, Idle, Transmitting, Returning
  <2>2. TypeOK'
    BY <1>2, <2>1 DEF SendmsgAccepts, counters, config, TypeOK, Transmitting
  <2>3. call' = Returning(pkt, 0)
    BY <1>2, <2>1 DEF SendmsgAccepts, Transmitting
  <2> QED
    BY <2>2, <2>3
<1>3. CASE SendmsgTooBig
  <2>1. PICK pkt \in Packets, i \in 1 .. MAX_RETRANSMITS : call = Transmitting(pkt, i)
    BY <1>3 DEF SendmsgTooBig, Idle, Transmitting, Returning
  <2>2. TypeOK'
    BY <1>3 DEF SendmsgTooBig, rtpVars, TypeOK
  <2>3. CASE i - 1 > 0
    <3>1. call' = Transmitting(pkt, i - 1) /\ i - 1 \in 1 .. MAX_RETRANSMITS
      BY <1>3, <2>1, <2>3, RetransmitAssumption DEF SendmsgTooBig, Transmitting
    <3> QED
      BY <2>2, <3>1
  <2>4. CASE ~ (i - 1 > 0)
    <3>1. call' = Returning(pkt, -1)
      BY <1>3, <2>1, <2>4, RetransmitAssumption DEF SendmsgTooBig, Transmitting
    <3> QED
      BY <2>2, <3>1
  <2> QED
    BY <2>3, <2>4
<1>4. CASE SendmsgFails
  <2>1. PICK pkt \in Packets, i \in 1 .. MAX_RETRANSMITS : call = Transmitting(pkt, i)
    BY <1>4 DEF SendmsgFails, Idle, Transmitting, Returning
  <2>2. TypeOK'
    BY <1>4 DEF SendmsgFails, rtpVars, TypeOK
  <2>3. call' = Returning(pkt, -1)
    BY <1>4, <2>1 DEF SendmsgFails, Transmitting
  <2> QED
    BY <2>2, <2>3
<1>5. CASE Return
  <2>1. PICK pkt \in Packets, ret \in {0, -1} : call = Returning(pkt, ret)
    BY <1>5 DEF Return, Idle, Transmitting, Returning
  <2>2. Account(pkt, ret)
    BY <1>5, <2>1 DEF Return, Returning
  <2>3. TypeOK'
    BY <1>5, <2>2, AccountType DEF Return, TypeOK, config
  <2> QED
    BY <1>5, <2>3 DEF Return
<1>6. CASE UNCHANGED vars
  BY <1>6 DEF vars, rtpVars, TypeOK
<1> QED
  BY <1>1, <1>2, <1>3, <1>4, <1>5, <1>6 DEF UdpNext

LEMMA UdpTypeInit == ASSUME UdpInit PROVE UdpTypeOK
BY WidthAssumption DEF UdpInit, Init, UdpTypeOK, TypeOK

(* The types, and the bound on the tries, hold in every execution. *)
THEOREM UdpTypeCorrect == UdpSpec => []UdpTypeOK
BY UdpTypeInit, UdpTypeStep, PTL DEF UdpSpec

-----------------------------------------------------------------------------

LEMMA UdpInvInit == ASSUME UdpInit PROVE UdpIInv
<1>1. UdpTypeOK
  BY UdpTypeInit
<1>2. wire = << >> /\ call = Idle /\ Accounted = << >>
  BY DEF UdpInit, Init, Accounted, Idle
<1>3. PacketCurrent /\ JustSent /\ SeqGapless /\ Stamped
  BY <1>2 DEF PacketCurrent, JustSent, SeqGapless, Stamped, Idle
<1>4. Counted
  BY <1>2, WidthAssumption DEF UdpInit, Init, Counted
<1>5. CountersAgree
  BY <1>2, SumEmpty, WidthAssumption DEF UdpInit, Init, CountersAgree
<1> QED
  BY <1>1, <1>3, <1>4, <1>5 DEF UdpIInv

(* While a call is in progress the struct does not move: neither does the  *)
(* packet it would build.                                                  *)
LEMMA PacketStable ==
  ASSUME UNCHANGED <<counters, config>>,
         NEW ts \in Timestamps, NEW marker \in BOOLEAN, NEW payload \in Payloads
  PROVE  /\ PacketOf(ts, marker, payload)' = PacketOf(ts, marker, payload)
         /\ compute_timestamp(ts)' = compute_timestamp(ts)
BY DEF counters, config, PacketOf, compute_timestamp

LEMMA UdpInvStep ==
  ASSUME UdpIInv, [UdpNext]_vars
  PROVE  UdpIInv'
<1>0. UdpTypeOK /\ UdpTypeOK'
  BY UdpTypeStep DEF UdpIInv
<1>w. wire \in Seq(Packets) /\ wire' \in Seq(Packets)
  BY <1>0 DEF UdpTypeOK, TypeOK
<1>1. ASSUME NEW ts \in Timestamps, NEW marker \in BOOLEAN, NEW payload \in Payloads,
             Call(ts, marker, payload)
      PROVE  UdpIInv'
  <2>1. UNCHANGED rtpVars /\ call = Idle
        /\ call' = Transmitting(PacketOf(ts, marker, payload), MAX_RETRANSMITS)
    BY <1>1 DEF Call
  <2>2. UNCHANGED <<counters, config>>
    BY <2>1 DEF rtpVars, counters, config
  <2>3. PacketCurrent'
    BY <2>1, <2>2, PacketStable DEF PacketCurrent, Transmitting
  <2>4. JustSent'
    BY <2>1 DEF JustSent, Transmitting
  <2>5. Accounted' = Accounted
    BY <2>1 DEF Accounted, Transmitting, Idle, rtpVars
  <2>6. Counted'
    BY <2>1, <2>5 DEF UdpIInv, Counted, rtpVars
  <2>6a. CountersAgree'
    BY <2>1, <2>5 DEF UdpIInv, CountersAgree, rtpVars
  <2>7. SeqGapless' /\ Stamped'
    BY <2>1 DEF UdpIInv, SeqGapless, Stamped, rtpVars, compute_timestamp
  <2> QED
    BY <1>0, <2>3, <2>4, <2>6, <2>6a, <2>7 DEF UdpIInv
<1>2. CASE SendmsgAccepts
  <2>1. PICK pkt \in Packets, i \in 1 .. MAX_RETRANSMITS : call = Transmitting(pkt, i)
    BY <1>2, <1>0 DEF UdpTypeOK, SendmsgAccepts, Idle, Transmitting, Returning
  <2>2. /\ wire' = Append(wire, pkt)
        /\ call' = Returning(pkt, 0)
        /\ UNCHANGED <<counters, config>>
    BY <1>2, <2>1 DEF SendmsgAccepts, Transmitting
  <2>3. PICK ts \in Timestamps, marker \in BOOLEAN, payload \in Payloads :
          pkt = PacketOf(ts, marker, payload)
    BY <2>1 DEF UdpIInv, PacketCurrent, Transmitting, Idle
  <2>4. PacketCurrent'
    BY <2>2, <2>3, PacketStable DEF PacketCurrent, Returning
  <2>5. JustSent'
    BY <2>2, <1>w DEF JustSent, Returning
  <2>6. Accounted = wire /\ Accounted' = wire
    <3>1. Accounted = wire
      BY <2>1 DEF Accounted, Transmitting
    <3>2. Accounted' = SubSeq(wire', 1, Len(wire') - 1)
      BY <2>2 DEF Accounted, Returning
    <3> QED
      BY <3>1, <3>2, <2>2, <1>w, FrontAppend
  <2>7. Counted'
    BY <2>2, <2>6 DEF UdpIInv, Counted, counters
  <2>7a. CountersAgree'
    BY <2>2, <2>6 DEF UdpIInv, CountersAgree, counters
  <2>8. /\ Len(wire') = Len(wire) + 1
        /\ \A j \in 1 .. Len(wire) : wire'[j] = wire[j]
        /\ wire'[Len(wire) + 1] = pkt
    BY <2>2, <1>w
  <2>9. pkt.seq = Len(wire) % U16
    BY <2>3, <2>6 DEF PacketOf, UdpIInv, Counted
  <2>10. SeqGapless'
    BY <2>8, <2>9, <1>w DEF UdpIInv, SeqGapless
  <2>11. pkt.ts = compute_timestamp(pkt.at)
    BY <2>3 DEF PacketOf
  <2>12. Stamped'
    BY <2>2, <2>8, <2>11, <1>w DEF UdpIInv, Stamped, compute_timestamp, config
  <2> QED
    BY <1>0, <2>4, <2>5, <2>7, <2>7a, <2>10, <2>12 DEF UdpIInv
<1>3. ASSUME call.stage = "sendmsg", UNCHANGED rtpVars,
             NEW pkt \in Packets, call.pkt = pkt, call # Idle,
             \/ \E i \in 1 .. MAX_RETRANSMITS : call' = Transmitting(pkt, i)
             \/ call' = Returning(pkt, -1)
      PROVE  UdpIInv'
  <2>1. UNCHANGED <<counters, config>>
    BY <1>3 DEF rtpVars, counters, config
  <2>2. call'.pkt = pkt
    BY <1>3 DEF Transmitting, Returning
  <2>3. PacketCurrent'
    BY <1>3, <2>1, <2>2, PacketStable DEF UdpIInv, PacketCurrent
  <2>4. JustSent' /\ Accounted' = Accounted
    BY <1>3 DEF JustSent, Accounted, Transmitting, Returning, rtpVars
  <2>5. Counted'
    BY <1>3, <2>4 DEF UdpIInv, Counted, rtpVars
  <2>5a. CountersAgree'
    BY <1>3, <2>4 DEF UdpIInv, CountersAgree, rtpVars
  <2>6. SeqGapless' /\ Stamped'
    BY <1>3 DEF UdpIInv, SeqGapless, Stamped, rtpVars, compute_timestamp
  <2> QED
    BY <1>0, <2>3, <2>4, <2>5, <2>5a, <2>6 DEF UdpIInv
<1>4. CASE SendmsgTooBig \/ SendmsgFails
  <2>1. PICK pkt \in Packets, i \in 1 .. MAX_RETRANSMITS : call = Transmitting(pkt, i)
    BY <1>4, <1>0 DEF UdpTypeOK, SendmsgTooBig, SendmsgFails, Idle, Transmitting, Returning
  <2>2. UNCHANGED rtpVars
    BY <1>4 DEF SendmsgTooBig, SendmsgFails
  <2>3. \/ \E k \in 1 .. MAX_RETRANSMITS : call' = Transmitting(pkt, k)
        \/ call' = Returning(pkt, -1)
    <3>1. CASE SendmsgFails
      BY <3>1, <2>1 DEF SendmsgFails, Transmitting
    <3>2. CASE SendmsgTooBig
      BY <3>2, <2>1, RetransmitAssumption DEF SendmsgTooBig, Transmitting
    <3> QED
      BY <1>4, <3>1, <3>2
  <2> QED
    BY <1>3, <2>1, <2>2, <2>3 DEF Transmitting, Idle
<1>5. CASE Return
  <2>1. PICK pkt \in Packets, ret \in {0, -1} : call = Returning(pkt, ret)
    BY <1>5, <1>0 DEF UdpTypeOK, Return, Idle, Transmitting, Returning
  <2>2. Account(pkt, ret) /\ call' = Idle /\ UNCHANGED <<wire, config>>
    BY <1>5, <2>1 DEF Return, Returning
  <2>3. PacketCurrent' /\ JustSent'
    BY <2>2 DEF PacketCurrent, JustSent, Idle
  <2>4. Accounted' = wire
    BY <2>2 DEF Accounted, Idle
  <2>5. Counted'
    <3>1. CASE ret = -1
      BY <3>1, <2>1, <2>2, <2>4 DEF Accounted, Returning, Account, UdpIInv, Counted, counters
    <3>2. CASE ret = 0
      <4>1. wire # << >> /\ Accounted = SubSeq(wire, 1, Len(wire) - 1)
        BY <2>1, <3>2 DEF UdpIInv, JustSent, Accounted, Returning
      <4> DEFINE n == Len(Accounted)
      <4>2. n \in Nat /\ Len(wire) = n + 1
        BY <4>1, <1>w, FrontAppend
      <4>3. seq_num' = ((n % U16) + 1) % U16 /\ pkt_count' = ((n % U32) + 1) % U32
        BY <2>2, <3>2 DEF Account, UdpIInv, Counted
      <4> HIDE DEF n
      <4>4. seq_num' = (n + 1) % U16 /\ pkt_count' = (n + 1) % U32
        BY <4>2, <4>3, WidthAssumption, WrapIncrement
      <4> QED
        BY <4>2, <4>4, <2>4 DEF Counted
    <3> QED
      BY <3>1, <3>2
  <2>5a. CountersAgree'
    <3>1. CASE ret = -1
      <4>1. Accounted = wire /\ UNCHANGED counters
        BY <2>1, <2>2, <3>1 DEF Accounted, Returning, Account
      <4> QED
        BY <2>2, <2>4, <4>1 DEF UdpIInv, CountersAgree, counters
    <3>2. CASE ret = 0
      <4>1. wire # << >> /\ wire[Len(wire)] = pkt /\ Accounted = SubSeq(wire, 1, Len(wire) - 1)
        BY <2>1, <3>2 DEF UdpIInv, JustSent, Accounted, Returning
      <4>2. Accounted \in Seq(Packets) /\ wire = Append(Accounted, pkt)
        BY <4>1, <1>w, FrontAppend
      <4>3. octet_count' = ((SumOctets(Accounted) % U32) + Octets(pkt.payload)) % U32
            /\ last_rtp_ts' = pkt.ts
        BY <2>2, <3>2 DEF Account, UdpIInv, CountersAgree
      <4>4. SumOctets(Accounted) \in Nat
            /\ SumOctets(wire) = SumOctets(Accounted) + Octets(pkt.payload)
        BY <4>2, SumAppend
      <4>5. Octets(pkt.payload) \in Nat
        BY InputAssumption DEF Packets, Octets
      <4>6. octet_count' = SumOctets(wire) % U32
        BY <4>3, <4>4, <4>5, WidthAssumption, WrapAdd
      <4> QED
        BY <2>2, <2>4, <4>1, <4>3, <4>6 DEF CountersAgree
    <3> QED
      BY <3>1, <3>2
  <2>6. SeqGapless' /\ Stamped'
    BY <2>2 DEF UdpIInv, SeqGapless, Stamped, config, compute_timestamp
  <2> QED
    BY <1>0, <2>3, <2>5, <2>5a, <2>6 DEF UdpIInv
<1>6. CASE UNCHANGED vars
  <2>1. UNCHANGED <<seq_num, pkt_count, octet_count, last_rtp_ts, clock_rate,
                    ts_base_us, wire, call>>
    BY <1>6 DEF vars, rtpVars
  <2>2. Accounted' = Accounted
    BY <2>1 DEF Accounted
  <2>3. PacketCurrent'
    BY <2>1 DEF UdpIInv, PacketCurrent, PacketOf, compute_timestamp
  <2>4. JustSent' /\ Counted' /\ CountersAgree' /\ SeqGapless' /\ Stamped'
    BY <2>1, <2>2 DEF UdpIInv, JustSent, Counted, CountersAgree, SeqGapless, Stamped, compute_timestamp
  <2> QED
    BY <1>0, <2>3, <2>4 DEF UdpIInv
<1> QED
  BY <1>1, <1>2, <1>4, <1>5, <1>6 DEF UdpNext

LEMMA UdpInvariant == UdpSpec => []UdpIInv
BY UdpInvInit, UdpInvStep, PTL DEF UdpSpec

(* Between calls the counters are the packets, octets and last timestamp   *)
(* of the datagrams the kernel took, through refused, retried and failed   *)
(* sends and every wrap.                                                   *)
THEOREM CountersAreExact == UdpSpec => []CountersMatchWire
<1>1. ASSUME UdpIInv PROVE CountersMatchWire
  <2> SUFFICES ASSUME call = Idle
               PROVE  /\ pkt_count = Len(wire) % U32
                      /\ octet_count = SumOctets(wire) % U32
                      /\ last_rtp_ts = IF wire = << >> THEN 0 ELSE wire[Len(wire)].ts
    BY DEF CountersMatchWire
  <2>1. Accounted = wire
    BY DEF Accounted, Idle
  <2> QED
    BY <1>1, <2>1 DEF UdpIInv, Counted, CountersAgree
<1> QED
  BY <1>1, UdpInvariant, PTL

(* Failed, refused and retried transmissions never open a gap in the       *)
(* sequence numbers on the wire.                                           *)
THEOREM SequenceNumbersGapless == UdpSpec => []SeqGapless
<1>1. UdpIInv => SeqGapless
  BY DEF UdpIInv
<1> QED
  BY <1>1, UdpInvariant, PTL

-----------------------------------------------------------------------------

(* A step of the loop is a stutter or one atomic SendPacket. *)
LEMMA AtomicStep ==
  ASSUME UdpIInv, [UdpNext]_vars
  PROVE  [Atomic!Next]_(Atomic!rtpVars)
<1>0. UdpTypeOK /\ wire \in Seq(Packets)
  BY DEF UdpIInv, UdpTypeOK, TypeOK
<1>1. ASSUME NEW ts \in Timestamps, NEW marker \in BOOLEAN, NEW payload \in Payloads,
             Call(ts, marker, payload)
      PROVE  UNCHANGED Atomic!rtpVars
  BY <1>1 DEF Call, Accounted, Transmitting, Idle, rtpVars, Atomic!rtpVars
<1>2. CASE SendmsgAccepts
  <2>1. PICK pkt \in Packets, i \in 1 .. MAX_RETRANSMITS : call = Transmitting(pkt, i)
    BY <1>2, <1>0 DEF UdpTypeOK, SendmsgAccepts, Idle, Transmitting, Returning
  <2>2. /\ wire' = Append(wire, pkt)
        /\ call' = Returning(pkt, 0)
        /\ UNCHANGED <<counters, config>>
    BY <1>2, <2>1 DEF SendmsgAccepts, Transmitting
  <2>3. Accounted = wire
    BY <2>1 DEF Accounted, Transmitting
  <2>4. Accounted' = SubSeq(wire', 1, Len(wire') - 1)
    BY <2>2 DEF Accounted, Returning
  <2>5. Accounted' = Accounted
    BY <2>2, <2>3, <2>4, <1>0, FrontAppend
  <2> QED
    BY <2>2, <2>5 DEF Atomic!rtpVars, counters, config
<1>3. CASE SendmsgTooBig
  BY <1>3, RetransmitAssumption DEF SendmsgTooBig, Accounted, Transmitting, Returning, rtpVars, Atomic!rtpVars
<1>4. CASE SendmsgFails
  BY <1>4 DEF SendmsgFails, Accounted, Returning, rtpVars, Atomic!rtpVars
<1>5. CASE Return
  <2>1. PICK pkt \in Packets, ret \in {0, -1} : call = Returning(pkt, ret)
    BY <1>5, <1>0 DEF UdpTypeOK, Return, Idle, Transmitting, Returning
  <2>2. Account(pkt, ret) /\ call' = Idle /\ UNCHANGED <<wire, config>>
    BY <1>5, <2>1 DEF Return, Returning
  <2>3. Accounted' = wire
    BY <2>2 DEF Accounted, Idle
  <2>4. CASE ret = -1
    BY <2>1, <2>2, <2>3, <2>4 DEF Accounted, Returning, Account, counters, config, Atomic!rtpVars
  <2>5. CASE ret = 0
    <3>1. wire # << >> /\ wire[Len(wire)] = pkt
      BY <2>1, <2>5 DEF UdpIInv, JustSent, Returning
    <3>2. Accounted = SubSeq(wire, 1, Len(wire) - 1)
      BY <2>1, <2>5 DEF Accounted, Returning
    <3>3. Accounted' = Append(Accounted, pkt)
      BY <3>1, <3>2, <2>3, <1>0, FrontAppend
    <3>4. PICK ts \in Timestamps, marker \in BOOLEAN, payload \in Payloads :
            pkt = PacketOf(ts, marker, payload)
      BY <2>1 DEF UdpIInv, PacketCurrent, Returning, Idle
    <3>5. Atomic!PacketOf(ts, marker, payload) = pkt
      BY <3>4 DEF Atomic!PacketOf, PacketOf, Atomic!compute_timestamp, compute_timestamp,
                  Atomic!ts_from_sys_clock_us, ts_from_sys_clock_us
    <3>6. Atomic!Account(pkt, ret)
      BY <2>2 DEF Atomic!Account, Account, Atomic!counters, counters, Atomic!Octets, Octets
    <3>7. Atomic!SendPacket(ts, marker, payload, ret)
      BY <2>2, <2>5, <3>3, <3>5, <3>6 DEF Atomic!SendPacket, Atomic!config, config
    <3> QED
      BY <3>7 DEF Atomic!Next
  <2> QED
    BY <2>4, <2>5
<1>6. CASE UNCHANGED vars
  BY <1>6 DEF vars, rtpVars, Accounted, Atomic!rtpVars
<1> QED
  BY <1>1, <1>2, <1>3, <1>4, <1>5, <1>6 DEF UdpNext

(* The send loop over UDP implements the atomic RTP sender.                *)
THEOREM LoopImplementsTransport == UdpSpec => ImplementsTransport
<1>1. UdpInit => Atomic!Init
  BY DEF UdpInit, Init, Atomic!Init, Accounted, Idle
<1>2. UdpIInv /\ [UdpNext]_vars => [Atomic!Next]_(Atomic!rtpVars)
  BY AtomicStep
<1> QED
  BY <1>1, <1>2, UdpInvariant, PTL DEF UdpSpec, ImplementsTransport, Atomic!Spec

-----------------------------------------------------------------------------

(* The timestamps of a stream never drift from the clock that was passed   *)
(* in, however long the stream lasts.                                      *)
THEOREM TimestampsDoNotDrift == UdpSpec => []NoDrift
<1>1. UdpIInv => NoDrift
  <2> SUFFICES ASSUME UdpIInv, NEW i \in 1 .. Len(wire), NEW j \in 1 .. Len(wire),
                      wire[i].at.kind = "SysClockUs",
                      wire[j].at.kind = "SysClockUs",
                      wire[i].at.val <= wire[j].at.val,
                      SameEpoch(wire[i].at.val, wire[j].at.val)
               PROVE  (wire[j].ts - wire[i].ts) % U32
                        \in { (Ticks(wire[j].at.val - wire[i].at.val, clock_rate) + k) % U32
                              : k \in {0, 1} }
    BY DEF NoDrift
  <2>1. wire[i] \in Packets /\ wire[j] \in Packets
    BY DEF UdpIInv, UdpTypeOK, TypeOK
  <2>2. wire[i].at.val \in Nat /\ wire[j].at.val \in Nat
    BY <2>1, InputAssumption, WidthAssumption DEF Packets
  <2>3. clock_rate \in Nat /\ ts_base_us \in Nat
    BY InputAssumption, WidthAssumption DEF UdpIInv, UdpTypeOK, TypeOK
  <2>4. /\ wire[i].ts = ts_from_sys_clock_us(wire[i].at.val, clock_rate, ts_base_us)
        /\ wire[j].ts = ts_from_sys_clock_us(wire[j].at.val, clock_rate, ts_base_us)
    BY DEF UdpIInv, Stamped, compute_timestamp
  <2>5. (wire[i].at.val + ts_base_us) \div U64 = (wire[j].at.val + ts_base_us) \div U64
    BY DEF SameEpoch
  <2>6. LET d == ts_from_sys_clock_us(wire[j].at.val, clock_rate, ts_base_us)
                   - ts_from_sys_clock_us(wire[i].at.val, clock_rate, ts_base_us)
            e == Ticks(wire[j].at.val - wire[i].at.val, clock_rate)
        IN  d % U32 = e % U32 \/ d % U32 = (e + 1) % U32
    <3> DEFINE a == wire[i].at.val
               b == wire[j].at.val
               r == clock_rate
               o == ts_base_us
    <3>1. a \in Nat /\ b \in Nat /\ r \in Nat /\ o \in Nat
          /\ a <= b /\ (a + o) \div U64 = (b + o) \div U64
      BY <2>2, <2>3, <2>5
    <3> HIDE DEF a, b, r, o
    <3>2. \/ (ts_from_sys_clock_us(b, r, o) - ts_from_sys_clock_us(a, r, o)) % U32
               = Ticks(b - a, r) % U32
          \/ (ts_from_sys_clock_us(b, r, o) - ts_from_sys_clock_us(a, r, o)) % U32
               = (Ticks(b - a, r) + 1) % U32
      <4>1. \A x, y, q, z \in Nat : x <= y /\ (x + z) \div U64 = (y + z) \div U64 =>
              \/ (ts_from_sys_clock_us(y, q, z) - ts_from_sys_clock_us(x, q, z)) % U32
                   = Ticks(y - x, q) % U32
              \/ (ts_from_sys_clock_us(y, q, z) - ts_from_sys_clock_us(x, q, z)) % U32
                   = (Ticks(y - x, q) + 1) % U32
        BY TickDistance
      <4> QED
        BY <3>1, <4>1, ZenonT(90)
    <3> QED
      BY <3>2 DEF a, b, r, o
  <2> QED
    <3> DEFINE d == wire[j].ts - wire[i].ts
               e == Ticks(wire[j].at.val - wire[i].at.val, clock_rate)
    <3>0. e \in Int
      <4> DEFINE w == (wire[j].at.val - wire[i].at.val) * clock_rate
      <4>1. w \in Nat
        BY <2>2, <2>3
      <4> HIDE DEF w
      <4>2. w \div UsPerSec \in Nat
        BY <4>1, WidthAssumption, DivMod
      <4> QED
        BY <4>2 DEF w, Ticks
    <3>1. d % U32 = e % U32 \/ d % U32 = (e + 1) % U32
      BY <2>4, <2>6
    <3> HIDE DEF d, e
    <3>2. d % U32 \in { (e + k) % U32 : k \in {0, 1} }
      <4>1. e + 0 = e /\ 0 \in {0, 1} /\ 1 \in {0, 1}
        BY <3>0
      <4>2. \E k \in {0, 1} : d % U32 = (e + k) % U32
        BY <3>1, <4>1
      <4> QED
        BY <4>2
    <3> QED
      BY <3>2 DEF d, e
<1> QED
  BY <1>1, UdpInvariant, PTL
=============================================================================
